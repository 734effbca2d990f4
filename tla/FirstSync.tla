----------------------------- MODULE FirstSync ------------------------------
(***************************************************************************)
(* First synchronisation that replaces or clears what the server has: the  *)
(* recovery-point and execute routes of src/routes/sync.js over            *)
(* firstSyncImpact, createFirstSyncPlan and executeFirstSyncPlan of        *)
(* src/records/service.js.                                                 *)
(*                                                                         *)
(* A recovery-point request measures the impact, saves a recovery point and*)
(* measures again; each of these is a transaction of its own, and other    *)
(* clients push in between.  Its answer is a sealed plan.  The server keeps*)
(* nothing of a plan: the client may execute it as often as it likes until *)
(* it expires.  Plans whose mode is server-wins only read and are left out.*)
(***************************************************************************)
EXTENDS Naturals

CONSTANTS
    Entity, Category,
    CategoryOf,      \* the category of an entity
    Selections,      \* the sets of categories that requests name
    Request,         \* recovery-point requests, each with a plan id of its own
    None,            \* nothing measured or saved yet
    MaxRevision      \* bound on the revisions of an entity

ASSUME FirstSyncAssumption ==
    /\ CategoryOf \in [Entity -> Category]
    /\ Selections \subseteq SUBSET Category
    /\ MaxRevision \in Nat

VARIABLES
    rows,            \* the current row of each entity; revision 0 when absent
    phase,           \* how far a request has come
    categories,      \* the categories it named; none means all
    before,          \* the impact it measured first, until it is answered,
    point,           \* the rows its recovery point saved,
    impact,          \* and the impact its plan is sealed with
    verified,        \* executions that found the recovery point verified
    expired,         \* plans that are too old
    removed          \* history: the rows each plan deleted

vars == <<rows, phase, categories, before, point, impact, verified, expired, removed>>

-----------------------------------------------------------------------------

Row == [revision : Nat, deleted : BOOLEAN]
StoredRow == [revision : Nat \ {0}, deleted : BOOLEAN]

\* What an impact's hash is taken of: the rows of the categories.
ImpactItem == [entity : Entity, row : StoredRow]

TypeOK ==
    /\ rows \in [Entity -> Row]
    /\ phase \in [Request -> {"new", "measured", "saved", "planned", "refused"}]
    /\ categories \in [Request -> SUBSET Category]
    /\ before \in [Request -> (SUBSET ImpactItem) \union {None}]
    /\ point \in [Request -> [Entity -> Row] \union {None}]
    /\ impact \in [Request -> (SUBSET ImpactItem) \union {None}]
    /\ verified \subseteq Request
    /\ expired \subseteq Request
    /\ removed \in [Request -> SUBSET ImpactItem]

Init ==
    /\ rows = [e \in Entity |-> [revision |-> 0, deleted |-> FALSE]]
    /\ phase = [q \in Request |-> "new"]
    /\ categories = [q \in Request |-> {}]
    /\ before = [q \in Request |-> None]
    /\ point = [q \in Request |-> None]
    /\ impact = [q \in Request |-> None]
    /\ verified = {}
    /\ expired = {}
    /\ removed = [q \in Request |-> {}]

-----------------------------------------------------------------------------

Wanted(wanted, e) == wanted = {} \/ CategoryOf[e] \in wanted

\* listRecords of the categories.
Listed(wanted) == {e \in Entity : rows[e].revision > 0 /\ Wanted(wanted, e)}

Item(e) == [entity |-> e, row |-> rows[e]]

\* Mutants: rows that were never stored are measured as well; the revisions are
\* left out of what is measured.
ImpactWithAbsent(wanted) == {Item(e) : e \in {f \in Entity : Wanted(wanted, f)}}
ImpactWithoutRevisions(wanted) ==
    {[entity |-> e, row |-> [revision |-> 1, deleted |-> rows[e].deleted]] :
        e \in Listed(wanted)}

\* impactForRows: entity, revision and deletion of every listed row.
Impact(wanted) == {Item(e) : e \in Listed(wanted)}

\* Any operation another client has accepted on a record.
Push(e) ==
    /\ rows[e].revision < MaxRevision
    /\ \E deleted \in BOOLEAN :
        rows' = [rows EXCEPT ![e] = [revision |-> rows[e].revision + 1,
                                     deleted |-> deleted]]
    /\ UNCHANGED <<phase, categories, before, point, impact, verified, expired, removed>>

-----------------------------------------------------------------------------
(* POST /api/v1/sync/first-sync/recovery-point *)

Measure(q) ==
    /\ phase[q] = "new"
    /\ \E wanted \in Selections :
        /\ categories' = [categories EXCEPT ![q] = wanted]
        /\ before' = [before EXCEPT ![q] = Impact(wanted)]
    /\ phase' = [phase EXCEPT ![q] = "measured"]
    /\ UNCHANGED <<rows, point, impact, verified, expired, removed>>

\* The recovery point is a snapshot of the whole space.
Save(q) ==
    /\ phase[q] = "measured"
    /\ point' = [point EXCEPT ![q] = rows]
    /\ phase' = [phase EXCEPT ![q] = "saved"]
    /\ UNCHANGED <<rows, categories, before, impact, verified, expired, removed>>

\* Mutant: the second measurement is not compared with the first.
ChangedWhileSavingIgnored(q) == FALSE

ChangedWhileSaving(q) == Impact(categories[q]) # before[q]

\* The recovery point reads back well and the impact is measured again; if it is
\* still the same the client gets a plan.
Plan(q) ==
    /\ phase[q] = "saved"
    /\ ~ChangedWhileSaving(q)
    /\ impact' = [impact EXCEPT ![q] = Impact(categories[q])]
    /\ before' = [before EXCEPT ![q] = None]
    /\ phase' = [phase EXCEPT ![q] = "planned"]
    /\ UNCHANGED <<rows, categories, point, verified, expired, removed>>

\* Saving or reading back fails, or somebody pushed meanwhile; what the request
\* leaves is of no use to a plan.
Refuse(q) ==
    /\ phase[q] \in {"measured", "saved"}
    /\ phase' = [phase EXCEPT ![q] = "refused"]
    /\ categories' = [categories EXCEPT ![q] = {}]
    /\ before' = [before EXCEPT ![q] = None]
    /\ point' = [point EXCEPT ![q] = None]
    /\ UNCHANGED <<rows, impact, verified, expired, removed>>

-----------------------------------------------------------------------------
(* POST /api/v1/sync/first-sync/execute *)

Verify(q) ==
    /\ phase[q] = "planned"
    /\ verified' = verified \union {q}
    /\ UNCHANGED <<rows, phase, categories, before, point, impact, expired, removed>>

Expire(q) ==
    /\ phase[q] = "planned"
    /\ expired' = expired \union {q}
    /\ UNCHANGED <<rows, phase, categories, before, point, impact, verified, removed>>

\* Mutant: the transaction does not measure the impact again.
ImpactChangedIgnored(q) == FALSE

ImpactChanged(q) == Impact(categories[q]) # impact[q]

LiveRows(q) == {e \in Listed(categories[q]) : ~rows[e].deleted}

\* One transaction compares the impact with the plan's and deletes every live row
\* of the categories.  Another copy of the request may have been verified too.
Execute(q) ==
    /\ q \in verified
    /\ \/ verified' = verified
       \/ verified' = verified \ {q}
    /\ q \notin expired
    /\ ~ImpactChanged(q)
    /\ rows' = [e \in Entity |->
                  IF e \in LiveRows(q)
                  THEN [revision |-> rows[e].revision + 1, deleted |-> TRUE]
                  ELSE rows[e]]
    /\ removed' = [removed EXCEPT ![q] =
                     @ \union {Item(e) : e \in LiveRows(q)}]
    /\ UNCHANGED <<phase, categories, before, point, impact, expired>>

\* The plan is too old or the impact is not the one it was made for.
RefuseExecution(q) ==
    /\ q \in verified
    /\ q \in expired \/ ImpactChanged(q)
    /\ verified' = verified \ {q}
    /\ UNCHANGED <<rows, phase, categories, before, point, impact, expired, removed>>

-----------------------------------------------------------------------------

Next ==
    \/ \E e \in Entity : Push(e)
    \/ \E q \in Request :
        \/ Measure(q) \/ Save(q) \/ Plan(q) \/ Refuse(q)
        \/ Verify(q) \/ Expire(q) \/ Execute(q) \/ RefuseExecution(q)

Spec == Init /\ [][Next]_vars

-----------------------------------------------------------------------------
(* Properties *)

\* Whatever a plan deleted is in its recovery point as it was when it was
\* deleted, however pushes fell between measuring, saving and executing.
DeletedIsSaved ==
    \A q \in Request : \A d \in removed[q] : point[q][d.entity] = d.row

\* A plan that deleted something deletes nothing more, though the client sends
\* it again and the records are restored meanwhile.
PlanActsOnce ==
    [][\A q \in Request : removed[q] # {} => removed'[q] = removed[q]]_vars

=============================================================================
