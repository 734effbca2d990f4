CONSTANTS
    a = a
    B = B
    c = c
    notes = notes
    todos = todos
    Entity = {a, B, c}
    Category = {notes, todos}
    CategoryOf <- NotesAndTodo
    DeleteCategories <- OfTheirs
    Filter = {notes}
    PageLimit = 2
    ListRank <- SameOrder
    KeyRank <- CodeUnitOrder
    NoToken = NoToken
    MaxSequence = 3
    MaxEpoch = 2
SPECIFICATION Spec
INVARIANTS CopyReachesCursor
