---------------------------- MODULE MCFirstSync -----------------------------
(* Instance of FirstSync for TLC. *)
EXTENDS FirstSync, TLC

CONSTANTS a, b, notes, todos

\* One entity in each of two categories.
NoteAndTodo == (a :> notes) @@ (b :> todos)

\* All categories, or the notes.
AllOrNotes == {{}, {notes}}

RequestSymmetry == Permutations(Request)
=============================================================================
