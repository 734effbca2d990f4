--------------------------- MODULE FirstSyncProofs --------------------------
(***************************************************************************)
(* A destructive first-sync plan deletes only what its recovery point      *)
(* holds, and acts once: for all entities, categories and requests, and for*)
(* any number of revisions.                                                *)
(*                                                                         *)
(* The argument: revisions only grow, and a row is determined by its       *)
(* revision from one moment to a later one.  What was measured first is not*)
(* newer than what was saved, which is not newer than what is there; so    *)
(* when the second measurement equals the first, the recovery point lies   *)
(* between two equal rows.                                                 *)
(***************************************************************************)
EXTENDS FirstSync, TLAPS

\* The row s is r itself or a later revision of it.
Succeeds(s, r) ==
    /\ r.revision <= s.revision
    /\ r.revision = s.revision => r = s

\* What a request holds in each phase.
PhaseHolds ==
    \A q \in Request :
        /\ phase[q] \in {"measured", "saved"} => before[q] \in SUBSET ImpactItem
        /\ phase[q] \in {"saved", "planned"} => point[q] \in [Entity -> Row]
        /\ phase[q] = "planned" => impact[q] \in SUBSET ImpactItem
        /\ phase[q] # "planned" => removed[q] = {} /\ q \notin verified

\* The first measurement is not newer than the recovery point ...
MeasuredBeforeSaved ==
    \A q \in Request :
        /\ phase[q] = "measured" =>
             \A i \in before[q] : Succeeds(rows[i.entity], i.row)
        /\ phase[q] = "saved" =>
             \A i \in before[q] : Succeeds(point[q][i.entity], i.row)

\* ... which is not newer than the records.
SavedBeforeNow ==
    \A q \in Request : phase[q] = "saved" =>
        \A e \in Entity : Succeeds(rows[e], point[q][e])

\* A plan's impact is in its recovery point.
PlannedIsSaved ==
    \A q \in Request : phase[q] = "planned" =>
        \A i \in impact[q] : point[q][i.entity] = i.row

\* What a plan deleted was in its impact and has a newer revision now.
RemovedIsPlanned ==
    \A q \in Request : \A d \in removed[q] :
        d \in impact[q] /\ d.row.revision < rows[d.entity].revision

IInv ==
    /\ TypeOK
    /\ PhaseHolds
    /\ MeasuredBeforeSaved
    /\ SavedBeforeNow
    /\ PlannedIsSaved
    /\ RemovedIsPlanned

\* What a measurement finds: the rows as they are.
LEMMA ImpactItems ==
    ASSUME TypeOK, NEW wanted
    PROVE  /\ Impact(wanted) \in SUBSET ImpactItem
           /\ \A i \in Impact(wanted) : i.entity \in Entity /\ i.row = rows[i.entity]
<1>1. ASSUME NEW e \in Listed(wanted)
      PROVE  Item(e) \in ImpactItem /\ Item(e).entity = e /\ Item(e).row = rows[e]
  <2>1. e \in Entity /\ rows[e] \in Row /\ rows[e].revision > 0
    BY <1>1 DEF Listed, TypeOK
  <2>2. rows[e] \in StoredRow
    BY <2>1 DEF Row, StoredRow
  <2> QED BY <2>1, <2>2 DEF Item, ImpactItem
<1>2. \A e \in Listed(wanted) : e \in Entity
  BY DEF Listed
<1> QED BY <1>1, <1>2 DEF Impact

\* No step takes a record back to an earlier revision.
LEMMA RowsSucceed ==
    ASSUME TypeOK, [Next]_vars, NEW e \in Entity
    PROVE  rows'[e] \in Row /\ Succeeds(rows'[e], rows[e])
<1>1. rows[e] \in Row
  BY DEF TypeOK
<1>2. CASE UNCHANGED rows
  BY <1>1, <1>2 DEF Succeeds, Row
<1>3. ASSUME NEW f \in Entity, Push(f)
      PROVE  rows'[e] \in Row /\ Succeeds(rows'[e], rows[e])
  <2>1. PICK deleted \in BOOLEAN :
          rows' = [rows EXCEPT ![f] = [revision |-> rows[f].revision + 1, deleted |-> deleted]]
    BY <1>3 DEF Push
  <2>2. CASE f = e
    <3>1. rows'[e] = [revision |-> rows[e].revision + 1, deleted |-> deleted]
      BY <2>1, <2>2 DEF TypeOK
    <3> QED BY <1>1, <3>1 DEF Row, Succeeds
  <2>3. CASE f # e
    BY <1>1, <2>1, <2>3 DEF TypeOK, Succeeds, Row
  <2> QED BY <2>2, <2>3
<1>4. ASSUME NEW q \in Request, Execute(q)
      PROVE  rows'[e] \in Row /\ Succeeds(rows'[e], rows[e])
  <2>1. rows'[e] = IF e \in LiveRows(q)
                   THEN [revision |-> rows[e].revision + 1, deleted |-> TRUE]
                   ELSE rows[e]
    BY <1>4 DEF Execute
  <2> QED BY <1>1, <2>1 DEF Row, Succeeds
<1>5. CASE vars' = vars
  BY <1>2, <1>5 DEF vars
<1>6. ASSUME NEW q \in Request,
             Measure(q) \/ Save(q) \/ Plan(q) \/ Refuse(q) \/ Verify(q) \/ Expire(q)
               \/ RefuseExecution(q)
      PROVE  UNCHANGED rows
  BY <1>6 DEF Measure, Save, Plan, Refuse, Verify, Expire, RefuseExecution
<1> QED BY <1>2, <1>3, <1>4, <1>5, <1>6 DEF Next

LEMMA SucceedsTransitive ==
    ASSUME NEW r \in Row, NEW s \in Row, NEW t \in Row, Succeeds(s, r), Succeeds(t, s)
    PROVE  Succeeds(t, r)
BY DEF Succeeds, Row

LEMMA InitHolds == Init => IInv
<1> SUFFICES ASSUME Init PROVE IInv
  OBVIOUS
<1>1. TypeOK
  BY DEF Init, TypeOK, Row
<1>2. PhaseHolds /\ MeasuredBeforeSaved /\ SavedBeforeNow /\ PlannedIsSaved /\ RemovedIsPlanned
  BY DEF Init, PhaseHolds, MeasuredBeforeSaved, SavedBeforeNow, PlannedIsSaved,
         RemovedIsPlanned
<1> QED BY <1>1, <1>2 DEF IInv

\* A push leaves the requests alone and replaces one row by a newer one.
LEMMA PushPreserves ==
    ASSUME IInv, NEW e \in Entity, Push(e)
    PROVE  IInv'
<1> USE DEF IInv
<1>1. UNCHANGED <<phase, categories, before, point, impact, verified, expired, removed>>
  BY DEF Push
<1>2. \A f \in Entity : rows'[f] \in Row /\ Succeeds(rows'[f], rows[f])
  BY RowsSucceed DEF Next
<1>3. TypeOK'
  <2>1. rows' \in [Entity -> Row]
    BY <1>2 DEF Push, TypeOK
  <2> QED BY <1>1, <2>1 DEF TypeOK
<1>4. PhaseHolds'
  BY <1>1 DEF PhaseHolds
<1>5. MeasuredBeforeSaved'
  <2>1. ASSUME NEW q \in Request, phase[q] = "measured", NEW i \in before[q]
        PROVE  Succeeds(rows'[i.entity], i.row)
    <3>1. i \in ImpactItem
      BY <2>1 DEF PhaseHolds
    <3>2. i.entity \in Entity /\ i.row \in Row /\ rows[i.entity] \in Row
      BY <3>1 DEF ImpactItem, StoredRow, Row, TypeOK
    <3>3. Succeeds(rows[i.entity], i.row)
      BY <2>1 DEF MeasuredBeforeSaved
    <3> QED BY <1>2, <3>2, <3>3, SucceedsTransitive
  <2> QED BY <1>1, <2>1 DEF MeasuredBeforeSaved
<1>6. SavedBeforeNow'
  <2>1. ASSUME NEW q \in Request, phase[q] = "saved", NEW f \in Entity
        PROVE  Succeeds(rows'[f], point[q][f])
    <3>1. point[q][f] \in Row /\ rows[f] \in Row
      BY <2>1 DEF PhaseHolds, TypeOK
    <3>2. Succeeds(rows[f], point[q][f])
      BY <2>1 DEF SavedBeforeNow
    <3> QED BY <1>2, <3>1, <3>2, SucceedsTransitive
  <2> QED BY <1>1, <2>1 DEF SavedBeforeNow
<1>7. PlannedIsSaved'
  BY <1>1 DEF PlannedIsSaved
<1>8. RemovedIsPlanned'
  <2>1. ASSUME NEW q \in Request, NEW d \in removed[q]
        PROVE  d \in impact[q] /\ d.row.revision < rows'[d.entity].revision
    <3>1. d \in ImpactItem
      BY <2>1 DEF TypeOK
    <3>2. d.entity \in Entity /\ d.row.revision \in Nat /\ rows[d.entity] \in Row
      BY <3>1 DEF ImpactItem, StoredRow, TypeOK
    <3>3. d \in impact[q] /\ d.row.revision < rows[d.entity].revision
      BY <2>1 DEF RemovedIsPlanned
    <3> QED BY <1>2, <3>2, <3>3 DEF Succeeds, Row
  <2> QED BY <1>1, <2>1 DEF RemovedIsPlanned
<1> QED BY <1>3, <1>4, <1>5, <1>6, <1>7, <1>8

\* The first measurement is of the rows as they are.
LEMMA MeasurePreserves ==
    ASSUME IInv, NEW q \in Request, Measure(q)
    PROVE  IInv'
<1> USE DEF IInv
<1>1. PICK wanted \in Selections :
        /\ categories' = [categories EXCEPT ![q] = wanted]
        /\ before' = [before EXCEPT ![q] = Impact(wanted)]
  BY DEF Measure
<1>2. /\ phase[q] = "new"
      /\ phase' = [phase EXCEPT ![q] = "measured"]
      /\ UNCHANGED <<rows, point, impact, verified, expired, removed>>
  BY DEF Measure
<1>3. /\ Impact(wanted) \in SUBSET ImpactItem
      /\ \A i \in Impact(wanted) : i.entity \in Entity /\ i.row = rows[i.entity]
  BY ImpactItems
<1>4. TypeOK'
  BY <1>1, <1>2, <1>3, FirstSyncAssumption DEF TypeOK
<1>5. PhaseHolds'
  BY <1>1, <1>2, <1>3 DEF PhaseHolds, TypeOK
<1>6. MeasuredBeforeSaved'
  <2>1. \A i \in Impact(wanted) : Succeeds(rows[i.entity], i.row)
    BY <1>3 DEF Succeeds, TypeOK, Row
  <2> QED BY <1>1, <1>2, <2>1 DEF MeasuredBeforeSaved, TypeOK
<1>7. SavedBeforeNow' /\ PlannedIsSaved'
  BY <1>2 DEF SavedBeforeNow, PlannedIsSaved, TypeOK
<1>8. RemovedIsPlanned'
  BY <1>2 DEF RemovedIsPlanned
<1> QED BY <1>4, <1>5, <1>6, <1>7, <1>8

\* The recovery point is of the rows as they are.
LEMMA SavePreserves ==
    ASSUME IInv, NEW q \in Request, Save(q)
    PROVE  IInv'
<1> USE DEF IInv
<1>1. /\ phase[q] = "measured"
      /\ point' = [point EXCEPT ![q] = rows]
      /\ phase' = [phase EXCEPT ![q] = "saved"]
      /\ UNCHANGED <<rows, categories, before, impact, verified, expired, removed>>
  BY DEF Save
<1>2. TypeOK'
  BY <1>1 DEF TypeOK
<1>3. PhaseHolds'
  BY <1>1 DEF PhaseHolds, TypeOK
<1>4. MeasuredBeforeSaved'
  BY <1>1 DEF MeasuredBeforeSaved, TypeOK
<1>5. SavedBeforeNow'
  <2>1. \A e \in Entity : Succeeds(rows[e], rows[e])
    BY DEF Succeeds, TypeOK, Row
  <2> QED BY <1>1, <2>1 DEF SavedBeforeNow, TypeOK
<1>6. PlannedIsSaved' /\ RemovedIsPlanned'
  BY <1>1 DEF PlannedIsSaved, RemovedIsPlanned, TypeOK
<1> QED BY <1>2, <1>3, <1>4, <1>5, <1>6

\* The second measurement equals the first, so the recovery point, which lies
\* between them, equals both.
LEMMA PlanPreserves ==
    ASSUME IInv, NEW q \in Request, Plan(q)
    PROVE  IInv'
<1> USE DEF IInv
<1>1. /\ phase[q] = "saved"
      /\ Impact(categories[q]) = before[q]
      /\ impact' = [impact EXCEPT ![q] = Impact(categories[q])]
      /\ before' = [before EXCEPT ![q] = None]
      /\ phase' = [phase EXCEPT ![q] = "planned"]
      /\ UNCHANGED <<rows, categories, point, verified, expired, removed>>
  BY DEF Plan, ChangedWhileSaving
<1>2. /\ Impact(categories[q]) \in SUBSET ImpactItem
      /\ \A i \in Impact(categories[q]) : i.entity \in Entity /\ i.row = rows[i.entity]
  BY ImpactItems
<1>3. TypeOK'
  BY <1>1, <1>2 DEF TypeOK
<1>4. PhaseHolds'
  BY <1>1, <1>2 DEF PhaseHolds, TypeOK
<1>5. MeasuredBeforeSaved' /\ SavedBeforeNow'
  BY <1>1 DEF MeasuredBeforeSaved, SavedBeforeNow, TypeOK
<1>6. PlannedIsSaved'
  <2>1. ASSUME NEW i \in Impact(categories[q])
        PROVE  point[q][i.entity] = i.row
    <3>1. i.entity \in Entity /\ i.row = rows[i.entity]
      BY <1>2
    <3>2. point[q][i.entity] \in Row /\ rows[i.entity] \in Row
      BY <1>1, <3>1 DEF PhaseHolds, TypeOK
    <3>3. Succeeds(point[q][i.entity], i.row) /\ Succeeds(rows[i.entity], point[q][i.entity])
      BY <1>1, <3>1 DEF MeasuredBeforeSaved, SavedBeforeNow
    <3> QED BY <3>1, <3>2, <3>3 DEF Succeeds, Row
  <2> QED BY <1>1, <2>1 DEF PlannedIsSaved, TypeOK
<1>7. RemovedIsPlanned'
  BY <1>1 DEF RemovedIsPlanned, PhaseHolds, TypeOK
<1> QED BY <1>3, <1>4, <1>5, <1>6, <1>7

LEMMA RefusePreserves ==
    ASSUME IInv, NEW q \in Request, Refuse(q)
    PROVE  IInv'
<1> USE DEF IInv
<1>1. /\ phase[q] \in {"measured", "saved"}
      /\ phase' = [phase EXCEPT ![q] = "refused"]
      /\ categories' = [categories EXCEPT ![q] = {}]
      /\ before' = [before EXCEPT ![q] = None]
      /\ point' = [point EXCEPT ![q] = None]
      /\ UNCHANGED <<rows, impact, verified, expired, removed>>
  BY DEF Refuse
<1>2. TypeOK'
  BY <1>1 DEF TypeOK
<1>3. PhaseHolds'
  BY <1>1 DEF PhaseHolds, TypeOK
<1>4. MeasuredBeforeSaved' /\ SavedBeforeNow' /\ PlannedIsSaved' /\ RemovedIsPlanned'
  BY <1>1 DEF MeasuredBeforeSaved, SavedBeforeNow, PlannedIsSaved, RemovedIsPlanned, TypeOK
<1> QED BY <1>2, <1>3, <1>4

\* The rows are those of the impact, hence those of the recovery point.
LEMMA ExecutePreserves ==
    ASSUME IInv, NEW q \in Request, Execute(q)
    PROVE  IInv'
<1> USE DEF IInv
<1> DEFINE items == {Item(e) : e \in LiveRows(q)}
<1>1. /\ q \in verified
      /\ verified' \subseteq verified
      /\ Impact(categories[q]) = impact[q]
      /\ removed' = [removed EXCEPT ![q] = @ \union items]
      /\ UNCHANGED <<phase, categories, before, point, impact, expired>>
  BY DEF Execute, ImpactChanged
<1>2. rows' = [e \in Entity |->
                 IF e \in LiveRows(q)
                 THEN [revision |-> rows[e].revision + 1, deleted |-> TRUE]
                 ELSE rows[e]]
  BY DEF Execute
<1>3. \A f \in Entity : rows'[f] \in Row /\ Succeeds(rows'[f], rows[f])
  BY RowsSucceed DEF Next
<1>4. phase[q] = "planned" /\ impact[q] \in SUBSET ImpactItem
  BY <1>1 DEF PhaseHolds
<1>5. ASSUME NEW d \in items
      PROVE  /\ d \in ImpactItem
             /\ d \in impact[q]
             /\ d.row.revision < rows'[d.entity].revision
  <2>1. PICK e \in LiveRows(q) : d = Item(e)
    OBVIOUS
  <2>2. e \in Entity /\ e \in Listed(categories[q])
    BY <2>1 DEF LiveRows, Listed
  <2>3. d \in impact[q]
    BY <1>1, <2>1, <2>2 DEF Impact
  <2>4. d.entity = e /\ d.row = rows[e] /\ rows[e].revision \in Nat
    BY <2>1, <2>2 DEF Item, TypeOK, Row
  <2>5. rows'[e].revision = rows[e].revision + 1
    BY <1>2, <2>1, <2>2
  <2> QED BY <1>4, <2>3, <2>4, <2>5
<1>6. TypeOK'
  <2>1. rows' \in [Entity -> Row]
    BY <1>2, <1>3
  <2>2. removed' \in [Request -> SUBSET ImpactItem]
    BY <1>1, <1>5 DEF TypeOK
  <2> QED BY <1>1, <2>1, <2>2 DEF TypeOK
<1>7. PhaseHolds'
  BY <1>1, <1>4 DEF PhaseHolds, TypeOK
<1>8. MeasuredBeforeSaved'
  <2>1. ASSUME NEW p \in Request, phase[p] = "measured", NEW i \in before[p]
        PROVE  Succeeds(rows'[i.entity], i.row)
    <3>1. i \in ImpactItem
      BY <2>1 DEF PhaseHolds
    <3>2. i.entity \in Entity /\ i.row \in Row /\ rows[i.entity] \in Row
      BY <3>1 DEF ImpactItem, StoredRow, Row, TypeOK
    <3>3. Succeeds(rows[i.entity], i.row)
      BY <2>1 DEF MeasuredBeforeSaved
    <3> QED BY <1>3, <3>2, <3>3, SucceedsTransitive
  <2> QED BY <1>1, <2>1 DEF MeasuredBeforeSaved
<1>9. SavedBeforeNow'
  <2>1. ASSUME NEW p \in Request, phase[p] = "saved", NEW f \in Entity
        PROVE  Succeeds(rows'[f], point[p][f])
    <3>1. point[p][f] \in Row /\ rows[f] \in Row
      BY <2>1 DEF PhaseHolds, TypeOK
    <3>2. Succeeds(rows[f], point[p][f])
      BY <2>1 DEF SavedBeforeNow
    <3> QED BY <1>3, <3>1, <3>2, SucceedsTransitive
  <2> QED BY <1>1, <2>1 DEF SavedBeforeNow
<1>10. PlannedIsSaved'
  BY <1>1 DEF PlannedIsSaved
<1>11. RemovedIsPlanned'
  <2>1. ASSUME NEW p \in Request, NEW d \in removed[p]
        PROVE  d \in impact[p] /\ d.row.revision < rows'[d.entity].revision
    <3>1. d \in ImpactItem
      BY <2>1 DEF TypeOK
    <3>2. d.entity \in Entity /\ d.row.revision \in Nat /\ rows[d.entity] \in Row
      BY <3>1 DEF ImpactItem, StoredRow, TypeOK
    <3>3. d \in impact[p] /\ d.row.revision < rows[d.entity].revision
      BY <2>1 DEF RemovedIsPlanned
    <3> QED BY <1>3, <3>2, <3>3 DEF Succeeds, Row
  <2>2. \A p \in Request : removed'[p] = IF p = q THEN removed[p] \union items ELSE removed[p]
    BY <1>1 DEF TypeOK
  <2> QED BY <1>1, <1>5, <2>1, <2>2 DEF RemovedIsPlanned
<1> QED BY <1>6, <1>7, <1>8, <1>9, <1>10, <1>11

LEMMA StepPreserves == IInv /\ [Next]_vars => IInv'
<1> SUFFICES ASSUME IInv, [Next]_vars PROVE IInv'
  OBVIOUS
<1>1. CASE UNCHANGED vars
  BY <1>1 DEF vars, IInv, TypeOK, PhaseHolds, MeasuredBeforeSaved, SavedBeforeNow,
              PlannedIsSaved, RemovedIsPlanned
<1>2. ASSUME NEW e \in Entity, Push(e) PROVE IInv'
  BY <1>2, PushPreserves
<1>3. ASSUME NEW q \in Request, Measure(q) \/ Save(q) \/ Plan(q) \/ Refuse(q) \/ Execute(q)
      PROVE  IInv'
  BY <1>3, MeasurePreserves, SavePreserves, PlanPreserves, RefusePreserves, ExecutePreserves
<1>4. ASSUME NEW q \in Request, Verify(q) \/ Expire(q) \/ RefuseExecution(q)
      PROVE  IInv'
  <2>1. /\ UNCHANGED <<rows, phase, categories, before, point, impact, removed>>
        /\ verified' \subseteq verified \union {r \in Request : phase[r] = "planned"}
        /\ expired' \subseteq expired \union {q}
    BY <1>4 DEF Verify, Expire, RefuseExecution
  <2>2. TypeOK'
    BY <2>1 DEF IInv, TypeOK
  <2>3. PhaseHolds'
    BY <2>1 DEF IInv, PhaseHolds
  <2>4. MeasuredBeforeSaved' /\ SavedBeforeNow' /\ PlannedIsSaved' /\ RemovedIsPlanned'
    BY <2>1 DEF IInv, MeasuredBeforeSaved, SavedBeforeNow, PlannedIsSaved, RemovedIsPlanned
  <2> QED BY <2>2, <2>3, <2>4 DEF IInv
<1> QED BY <1>1, <1>2, <1>3, <1>4 DEF Next

\* The strengthened invariant holds throughout.
THEOREM InductiveInvariant == Spec => []IInv
BY InitHolds, StepPreserves, PTL DEF Spec

\* Type correctness of FirstSync.
THEOREM TypeCorrect == Spec => []TypeOK
<1>1. IInv => TypeOK
  BY DEF IInv
<1> QED BY <1>1, InductiveInvariant, PTL

\* Whatever executeFirstSyncPlan deletes is in the recovery point of its plan as
\* it was when it was deleted.
THEOREM PlansDeleteOnlyWhatIsSaved == Spec => []DeletedIsSaved
<1>1. ASSUME IInv PROVE DeletedIsSaved
  <2>1. ASSUME NEW q \in Request, NEW d \in removed[q]
        PROVE  point[q][d.entity] = d.row
    <3>1. phase[q] = "planned"
      BY <1>1, <2>1 DEF IInv, PhaseHolds
    <3>2. d \in impact[q]
      BY <1>1, <2>1 DEF IInv, RemovedIsPlanned
    <3> QED BY <1>1, <3>1, <3>2 DEF IInv, PlannedIsSaved
  <2> QED BY <2>1 DEF DeletedIsSaved
<1> QED BY <1>1, InductiveInvariant, PTL

\* A plan that deleted something no longer matches the rows, whatever is pushed
\* afterwards: executeFirstSyncPlan refuses it.
THEOREM PlansActOnce == Spec => PlanActsOnce
<1>1. ASSUME IInv, [Next]_vars, NEW q \in Request, removed[q] # {}
      PROVE  removed'[q] = removed[q]
  <2>1. PICK d \in removed[q] : TRUE
    BY <1>1
  <2>2. d \in impact[q] /\ d.row.revision < rows[d.entity].revision
    BY <1>1, <2>1 DEF IInv, RemovedIsPlanned
  <2>3. ~ Execute(q)
    <3> SUFFICES ASSUME Execute(q) PROVE FALSE
      OBVIOUS
    <3>1. d \in Impact(categories[q])
      BY <2>2 DEF Execute, ImpactChanged
    <3>2. d.row = rows[d.entity] /\ d \in ImpactItem
      BY <1>1, <3>1, ImpactItems DEF IInv
    <3>3. d.row.revision \in Nat
      BY <3>2 DEF ImpactItem, StoredRow
    <3> QED BY <2>2, <3>2, <3>3
  <2>4. ASSUME NEW p \in Request, p # q, Execute(p)
        PROVE  removed'[q] = removed[q]
    BY <1>1, <2>4 DEF Execute, IInv, TypeOK
  <2>5. ASSUME NEW p \in Request,
               Measure(p) \/ Save(p) \/ Plan(p) \/ Refuse(p) \/ Verify(p) \/ Expire(p)
                 \/ RefuseExecution(p)
        PROVE  removed'[q] = removed[q]
    BY <2>5 DEF Measure, Save, Plan, Refuse, Verify, Expire, RefuseExecution
  <2>6. ASSUME NEW e \in Entity, Push(e)
        PROVE  removed'[q] = removed[q]
    BY <2>6 DEF Push
  <2> QED BY <1>1, <2>3, <2>4, <2>5, <2>6 DEF Next, vars
<1>2. IInv /\ [Next]_vars => [\A q \in Request : removed[q] # {} => removed'[q] = removed[q]]_vars
  BY <1>1
<1> QED BY <1>2, InductiveInvariant, PTL DEF Spec, PlanActsOnce

=============================================================================
