--------------------------- MODULE MCSpaceReader ---------------------------
(* Instances of SpaceReader for TLC. *)
EXTENDS SpaceReader

CONSTANTS a, B, c, notes, todos

\* Entities a and B have the category the reader wants, c has another.
NotesAndTodo == [e \in Entity |-> IF e = c THEN todos ELSE notes]

\* Whoever deletes a may say that it is one of the todos, or c that it is a note.
OfAnother == [e \in Entity |-> CASE e = a -> {todos} [] e = B -> {} [] e = c -> {notes}]

\* Deletions name the category of what they delete.
OfTheirs == [e \in Entity |-> {CategoryOf[e]}]

\* Rows listed a, B, c, and keys compared the same way.
SameOrder == [e \in Entity |-> CASE e = a -> 1 [] e = B -> 2 [] e = c -> 3]

\* Keys compared by code unit: upper case before lower case.
CodeUnitOrder == [e \in Entity |-> CASE e = a -> 2 [] e = B -> 1 [] e = c -> 3]
=============================================================================
