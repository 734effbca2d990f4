------------------------ MODULE MCRecordReplication -------------------------
(* Instances of RecordReplication for TLC. *)
EXTENDS RecordReplication, TLC

\* One entity, merged by fields, deleted under its own category.
FieldPolicy == [e \in Entity |-> "field"]
OneCategory == [e \in Entity |-> CHOOSE cat \in Category : TRUE]
OwnCategory == [e \in Entity |-> {CategoryOf[e]}]

\* Two entities of one category: a note, and a preference where the last
\* writer wins.
CONSTANTS note, preference
NoteAndPreference ==
    [e \in Entity |-> IF e = preference THEN "lww" ELSE "copy"]

\* Deletes of the note name any category, as the service lets all of them.
NoteAnywhere == [e \in Entity |-> IF e = note THEN Category ELSE {CategoryOf[e]}]

Symmetry == Permutations(Value) \union Permutations(Field) \union Permutations(Client)

\* Operation ids are opaque: it is enough that a client uses them in order.
IdsInOrder ==
    \A row \in operations : \A id \in OperationId :
        id < row.request.operationId =>
            \E other \in operations :
                other.client = row.client /\ other.request.operationId = id
=============================================================================
