------------------------------ MODULE SpaceLog ------------------------------
(***************************************************************************)
(* What one space promises its readers: an append-only log of changes,     *)
(* numbered 1, 2, 3, ... without holes, in which the revisions of every    *)
(* entity appear as 1, 2, 3, ... and every change says truthfully whether  *)
(* it edits, deletes, brings back, or only reports a conflict.             *)
(*                                                                         *)
(* This is the abstract specification of the record service.  Its readers  *)
(* (pull, reconcile) need nothing else of it.                              *)
(***************************************************************************)
EXTENDS Naturals, Sequences

CONSTANTS Entity,      \* (entityType, entityId) pairs
          Category     \* the categories a reader may filter by

VARIABLES log,         \* the sequence of changes
          head         \* head[e]: the current revision of e, 0 when absent,
                       \* and whether that revision is a tombstone

logVars == <<log, head>>

Change == [sequence : Nat \ {0},
           kind     : {"record", "tombstone", "restore", "conflict"},
           entity   : Entity,
           category : Category,
           revision : Nat]

LogTypeOK ==
    /\ log \in Seq(Change)
    /\ head \in [Entity -> [revision : Nat, deleted : BOOLEAN]]

LogInit ==
    /\ log = <<>>
    /\ head = [e \in Entity |-> [revision |-> 0, deleted |-> FALSE]]

-----------------------------------------------------------------------------

\* The kind of the change that follows head h with a revision of its own.
KindAfter(h, deleted) ==
    IF deleted THEN "tombstone" ELSE IF h.deleted THEN "restore" ELSE "record"

\* A new revision of e, live or deleted.
Revise(e, cat, deleted) ==
    /\ log' = Append(log, [sequence |-> Len(log) + 1,
                           kind     |-> KindAfter(head[e], deleted),
                           entity   |-> e,
                           category |-> cat,
                           revision |-> head[e].revision + 1])
    /\ head' = [head EXCEPT ![e] = [revision |-> @.revision + 1,
                                    deleted  |-> deleted]]

\* A conflict on e: it takes a place in the log and leaves e as it is.
Dispute(e, cat) ==
    /\ log' = Append(log, [sequence |-> Len(log) + 1,
                           kind     |-> "conflict",
                           entity   |-> e,
                           category |-> cat,
                           revision |-> head[e].revision])
    /\ UNCHANGED head

LogNext ==
    \E e \in Entity, cat \in Category :
        \/ \E deleted \in BOOLEAN : Revise(e, cat, deleted)
        \/ Dispute(e, cat)

LogSpec == LogInit /\ [][LogNext]_logVars

=============================================================================
