CONSTANTS
    a = a
    B = B
    c = c
    notes = notes
    todos = todos
    Entity = {a, B, c}
    Category = {notes, todos}
    CategoryOf <- NotesAndTodo
    DeleteCategories <- OfAnother
    Filter = {notes}
    PageLimit = 2
    ListRank <- SameOrder
    KeyRank <- SameOrder
    NoToken = NoToken
    MaxSequence = 3
    MaxEpoch = 2
SPECIFICATION FairSpec
INVARIANTS TypeOK PagesExact CopyReachesCursor
PROPERTIES CursorForward CatchesUp
