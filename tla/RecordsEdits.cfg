CONSTANTS
    note = note
    preference = preference
    Client = {c1}
    OperationId = {1, 2, 3, 4, 5}
    ServerOperation = ServerOperation
    Entity = {todo}
    Category = {todos}
    Field = {f1, f2}
    Value = {x, y}
    NoPayload = NoPayload
    CategoryOf <- OneCategory
    Policy <- FieldPolicy
    DeleteCategories <- OwnCategory
    MaxSequence = 5
SPECIFICATION Spec
SYMMETRY Symmetry
CONSTRAINT IdsInOrder
INVARIANTS TypeOK RecordIsLatestVersion NoLostUpdate EditKept NoStaleResurrection
PROPERTIES ConflictsSettleOnce ImplementsSpaceLog
