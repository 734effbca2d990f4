CONSTANTS
    a = a
    b = b
    notes = notes
    todos = todos
    Entity = {a, b}
    Category = {notes, todos}
    CategoryOf <- NoteAndTodo
    Selections <- AllOrNotes
    Request = {p, q}
    None = None
    MaxRevision = 3
SPECIFICATION Spec
INVARIANTS TypeOK DeletedIsSaved
PROPERTIES PlanActsOnce
SYMMETRY RequestSymmetry
CHECK_DEADLOCK FALSE
