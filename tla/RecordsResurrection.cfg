CONSTANTS
    note = note
    preference = preference
    Client = {c1, c2}
    OperationId = {1, 2, 3}
    ServerOperation = ServerOperation
    Entity = {note, preference}
    Category = {todos}
    Field = {f1}
    Value = {x, y}
    NoPayload = NoPayload
    CategoryOf <- OneCategory
    Policy <- NoteAndPreference
    DeleteCategories <- OwnCategory
    MaxSequence = 5
SPECIFICATION Spec
SYMMETRY Symmetry
CONSTRAINT IdsInOrder
INVARIANTS NoResurrection
