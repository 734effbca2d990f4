------------------------- MODULE SpaceReaderProofs --------------------------
(***************************************************************************)
(* Theorems about SpaceReader: what pages of changes hand out, and that a  *)
(* reconciliation leaves nothing out.                                      *)
(***************************************************************************)
EXTENDS SpaceReader, TLAPS, FiniteSetTheorems, WellFoundedInduction

-----------------------------------------------------------------------------
(* Rows listed by place *)

\* Every nonempty set of natural numbers has a least element.
LEMMA LeastNumber ==
    ASSUME NEW T, T \subseteq Nat, T # {}
    PROVE  \E m \in T : \A n \in T : m <= n
<1>1. PICK m \in T : \A n \in T : ~ (<<n, m>> \in OpToRel(<, Nat))
  BY NatLessThanWellFounded, WFMin, ZenonT(60)
<1>2. \A n \in T : m <= n
  <2> SUFFICES ASSUME NEW n \in T PROVE m <= n
    OBVIOUS
  <2>1. m \in Nat /\ n \in Nat
    OBVIOUS
  <2>2. ~ (n < m)
    BY <1>1, <2>1 DEF OpToRel
  <2> QED BY <2>1, <2>2
<1> QED BY <1>2

\* A row comes last of a nonempty set of rows whose places are bounded.
LEMMA LastExists ==
    ASSUME NEW rows, NEW place, NEW bound \in Nat, rows # {},
           \A r \in rows : place[r] \in Nat /\ place[r] <= bound
    PROVE  /\ LastOf(rows, place) \in rows
           /\ \A q \in rows : place[q] <= place[LastOf(rows, place)]
<1> DEFINE T == {bound - place[r] : r \in rows}
<1>1. T \subseteq Nat /\ T # {}
  OBVIOUS
<1>2. PICK m \in T : \A n \in T : m <= n
  BY <1>1, LeastNumber
<1>3. PICK r \in rows : m = bound - place[r]
  BY <1>2
<1>4. ASSUME NEW q \in rows PROVE place[q] <= place[r]
  <2>1. m <= bound - place[q]
    BY <1>2
  <2> QED BY <1>3, <2>1
<1> QED BY <1>4 DEF LastOf

\* The first rows up to a limit: all of them when there are no more, at least
\* one when there is one, and with a row everything listed before it.
LEMMA FirstRows ==
    ASSUME NEW rows, NEW place, NEW limit \in Nat \ {0}, IsFiniteSet(rows),
           \A r \in rows : place[r] \in Nat
    PROVE  /\ FirstOf(rows, place, limit) \subseteq rows
           /\ IsFiniteSet(FirstOf(rows, place, limit))
           /\ Cardinality(rows) <= limit => FirstOf(rows, place, limit) = rows
           /\ rows # {} => FirstOf(rows, place, limit) # {}
           /\ \A r \in rows, p \in FirstOf(rows, place, limit) :
                place[r] <= place[p] => r \in FirstOf(rows, place, limit)
<1> DEFINE Before(r) == {q \in rows : place[q] < place[r]}
           page == FirstOf(rows, place, limit)
<1>1. page = {r \in rows : Cardinality(Before(r)) < limit}
  BY DEF FirstOf
<1>2. \A r \in rows : /\ IsFiniteSet(Before(r))
                      /\ Cardinality(Before(r)) \in Nat
                      /\ Cardinality(Before(r)) < Cardinality(rows)
  <2> SUFFICES ASSUME NEW r \in rows
               PROVE  /\ IsFiniteSet(Before(r))
                      /\ Cardinality(Before(r)) \in Nat
                      /\ Cardinality(Before(r)) < Cardinality(rows)
    OBVIOUS
  <2>1. Before(r) \subseteq rows
    OBVIOUS
  <2>2. r \in rows /\ r \notin Before(r)
    OBVIOUS
  <2>3. Before(r) # rows
    BY <2>2
  <2> HIDE DEF Before
  <2>4. IsFiniteSet(Before(r)) /\ Cardinality(Before(r)) <= Cardinality(rows)
        /\ (Cardinality(Before(r)) = Cardinality(rows) => Before(r) = rows)
    BY <2>1, FS_Subset
  <2>5. Cardinality(rows) \in Nat /\ Cardinality(Before(r)) \in Nat
    BY <2>4, FS_CardinalityType
  <2> QED BY <2>3, <2>4, <2>5
<1>3. page \subseteq rows /\ IsFiniteSet(page)
  <2>1. page \subseteq rows
    BY <1>1
  <2> HIDE DEF page
  <2> QED BY <2>1, FS_Subset
<1>4. Cardinality(rows) <= limit => page = rows
  <2>1. Cardinality(rows) \in Nat
    BY FS_CardinalityType
  <2> HIDE DEF Before, page
  <2> QED BY <1>1, <1>2, <2>1
<1>5. rows # {} => page # {}
  <2> SUFFICES ASSUME rows # {} PROVE page # {}
    OBVIOUS
  <2> DEFINE T == {place[r] : r \in rows}
  <2>1. T \subseteq Nat /\ T # {}
    OBVIOUS
  <2>2. PICK m \in T : \A n \in T : m <= n
    BY <2>1, LeastNumber
  <2>3. PICK r \in rows : m = place[r]
    BY <2>2
  <2>4. \A q \in rows : place[r] <= place[q]
    BY <2>2, <2>3
  <2>5. Before(r) = {}
    BY <2>4
  <2>6. Cardinality(Before(r)) = 0
    BY <2>5, FS_EmptySet
  <2>7. r \in page
    BY <1>1, <2>6
  <2> QED BY <2>7
<1>6. ASSUME NEW r \in rows, NEW p \in page, place[r] <= place[p]
      PROVE  r \in page
  <2>1. p \in rows /\ Cardinality(Before(p)) < limit
    BY <1>1
  <2>2. Before(r) \subseteq Before(p)
    <3> SUFFICES ASSUME NEW q \in Before(r) PROVE place[q] < place[p]
      OBVIOUS
    <3>1. place[q] \in Nat /\ place[r] \in Nat /\ place[p] \in Nat
      BY <2>1
    <3> QED BY <1>6, <3>1
  <2> HIDE DEF Before, page
  <2>3. Cardinality(Before(r)) <= Cardinality(Before(p))
    BY <1>2, <2>1, <2>2, FS_Subset
  <2>4. Cardinality(Before(r)) \in Nat /\ Cardinality(Before(p)) \in Nat
    BY <1>2, <2>1
  <2> QED BY <1>1, <2>1, <2>3, <2>4
<1> QED
  <2> HIDE DEF page
  <2>1. /\ page \subseteq rows /\ IsFiniteSet(page)
        /\ Cardinality(rows) <= limit => page = rows
        /\ rows # {} => page # {}
        /\ \A r \in rows, p \in page : place[r] <= place[p] => r \in page
    BY <1>3, <1>4, <1>5, <1>6
  <2> QED BY <2>1 DEF page

-----------------------------------------------------------------------------
(* The inductive invariants *)

\* The cursor lies within the log and in no later epoch.
CursorWithinLog ==
    /\ Len(log) <= MaxSequence
    /\ cursor.upper <= Len(log)
    /\ start <= cursor.sequence
    /\ cursor.epoch <= epoch

\* What was deleted lies below the floor: a cursor that is not refused has missed
\* nothing.
ClearedBelowFloor == cleared < floor

\* The pages proof needs nothing of the records.
PagesInv == TypeOK /\ CursorWithinLog /\ ClearedBelowFloor /\ PagesExact

\* The rows of an entity have increasing revisions,
RevisionsRise ==
    \A i, j \in DOMAIN log :
        i < j /\ log[i].entity = log[j].entity /\ IsRow(i) /\ IsRow(j) =>
            log[i].revision < log[j].revision

\* and the current row is the last of them.
HeadIsLastRow ==
    \A e \in Entity :
        /\ head[e].revision = 0 => ~head[e].deleted
        /\ head[e].revision > 0 =>
             \E i \in DOMAIN log : /\ log[i].entity = e /\ IsRow(i)
                                   /\ log[i].revision = head[e].revision
        /\ \A i \in DOMAIN log :
             log[i].entity = e /\ IsRow(i) =>
               /\ 0 < log[i].revision /\ log[i].revision <= head[e].revision
               /\ log[i].revision = head[e].revision =>
                    (head[e].deleted <=> log[i].kind = "tombstone")

\* The log tells the truth about the rows.
RowsInv == PagesInv /\ RevisionsRise /\ HeadIsLastRow

\* The copy is behind the current row or equal to it.
CopyLags ==
    \A e \in Entity :
        /\ copy[e].revision <= head[e].revision
        /\ copy[e].revision = head[e].revision => copy[e] = head[e]

\* Between the pages of a reconciliation: before the token's key the copy has
\* every row that is not newer than the token, after it the copy is what it was.
PagesSoFar ==
    mode = "reconcile" /\ token # NoToken =>
        /\ token.upper <= Len(log) /\ cursor.sequence <= token.upper
        /\ \A e \in Entity :
             IF RanksAfter(token.after, e)
             THEN token.known[e] = copy[e]
             ELSE Wanted(e) /\ RowUpTo(e, token.upper) => copy[e] = head[e]

CopyInv == RowsInv /\ CopyLags /\ PagesSoFar /\ CopyReachesCursor

-----------------------------------------------------------------------------
(* Pages of changes *)

\* The position after a page of changes lies within the stretch, and the page is
\* every retained change of a wanted category between the cursor and it.
LEMMA PageReachesPosition ==
    ASSUME TypeOK, CursorWithinLog, ClearedBelowFloor, ~CursorRefused,
           NEW limit \in 1 .. PageLimit,
           NEW rows, rows = ListChanges(cursor.sequence, Upper),
           NEW next, next = NextSequence(rows, limit, Upper)
    PROVE  /\ Upper \in Nat /\ Upper <= Len(log)
           /\ next \in Nat /\ cursor.sequence <= next /\ next <= Upper
           /\ FirstOf(rows, Number, limit) =
                {i \in DOMAIN log : /\ cursor.sequence < i /\ i <= next
                                    /\ WantedChange(i)}
<1> DEFINE page == FirstOf(rows, Number, limit)
<1>1. /\ Len(log) \in Nat /\ DOMAIN log = 1 .. Len(log)
      /\ cursor.sequence \in Nat /\ cursor.upper \in Nat
      /\ cursor.sequence <= cursor.upper /\ cursor.upper <= Len(log)
      /\ cleared \in Nat /\ floor \in Nat
  BY DEF TypeOK, LogTypeOK, Cursor, CursorWithinLog
<1>2. Upper \in Nat /\ cursor.sequence <= Upper /\ Upper <= Len(log)
  BY <1>1 DEF Upper
<1>3. cleared <= cursor.sequence
  BY <1>1 DEF CursorRefused, ClearedBelowFloor
<1>4. rows = {i \in DOMAIN log : /\ cursor.sequence < i /\ i <= Upper
                                 /\ WantedChange(i)}
  <2>1. rows = {i \in DOMAIN log : i > cleared /\ i > cursor.sequence /\ i <= Upper
                                   /\ WantedChange(i)}
    BY DEF ListChanges
  <2>2. \A i \in DOMAIN log : i > cursor.sequence => i > cleared
    BY <1>1, <1>3
  <2>3. \A i \in DOMAIN log : i > cursor.sequence <=> cursor.sequence < i
    BY <1>1
  <2> QED BY <2>1, <2>2, <2>3
<1>5. limit \in Nat \ {0}
  BY ReaderAssumption
<1>6. IsFiniteSet(rows)
  <2>1. IsFiniteSet(1 .. Len(log))
    BY <1>1, FS_Interval
  <2> QED BY <1>1, <1>4, <2>1, FS_Subset
<1>7. \A r \in rows : r \in Nat /\ Number[r] = r /\ r <= Len(log)
  BY <1>1, <1>4 DEF Number
<1>8. /\ page \subseteq rows
      /\ Cardinality(rows) <= limit => page = rows
      /\ rows # {} => page # {}
      /\ \A r \in rows, p \in page : Number[r] <= Number[p] => r \in page
  <2>1. \A r \in rows : Number[r] \in Nat
    BY <1>7
  <2> QED BY <1>5, <1>6, <2>1, FirstRows
<1>9. Cardinality(rows) \in Nat
  BY <1>6, FS_CardinalityType
<1> HIDE DEF page
<1>10. CASE Cardinality(rows) > limit
  <2>1. rows # {}
    <3>1. rows = {} => Cardinality(rows) = 0
      BY FS_EmptySet
    <3> QED BY <1>5, <1>9, <1>10, <3>1
  <2>2. \A r \in page : Number[r] \in Nat /\ Number[r] <= Len(log)
    BY <1>7, <1>8
  <2>3. page # {}
    BY <1>8, <2>1
  <2>4. LastOf(page, Number) \in page
        /\ \A q \in page : Number[q] <= Number[LastOf(page, Number)]
    BY <1>1, <2>2, <2>3, LastExists
  <2>5. next = LastOf(page, Number)
    BY <1>10 DEF NextSequence, page
  <2>6. next \in rows /\ next \in page
    BY <1>8, <2>4, <2>5
  <2>7. next \in Nat /\ cursor.sequence <= next /\ next <= Upper
    <3>1. next \in Nat
      BY <1>7, <2>6
    <3>2. cursor.sequence < next /\ next <= Upper
      BY <1>4, <2>6
    <3> QED BY <1>1, <3>1, <3>2
  <2>8. \A i \in rows : i \in page <=> i <= next
    <3> SUFFICES ASSUME NEW i \in rows PROVE i \in page <=> i <= next
      OBVIOUS
    <3>1. Number[i] = i /\ Number[next] = next
      BY <1>7, <2>6
    <3>2. i \in page => i <= next
      BY <2>4, <2>5, <3>1
    <3>3. i <= next => i \in page
      BY <1>8, <2>6, <3>1
    <3> QED BY <3>2, <3>3
  <2>9. page = {i \in DOMAIN log : /\ cursor.sequence < i /\ i <= next
                                   /\ WantedChange(i)}
    <3>1. \A i \in page : /\ i \in DOMAIN log /\ cursor.sequence < i /\ i <= next
                          /\ WantedChange(i)
      BY <1>4, <1>8, <2>8
    <3>2. ASSUME NEW i \in DOMAIN log, cursor.sequence < i, i <= next,
                 WantedChange(i)
          PROVE  i \in page
      <4>1. i <= Upper
        BY <1>1, <1>2, <2>7, <3>2
      <4>2. i \in rows
        BY <1>4, <3>2, <4>1
      <4> QED BY <2>8, <3>2, <4>2
    <3> QED BY <3>1, <3>2
  <2> QED BY <1>2, <2>7, <2>9 DEF page
<1>11. CASE ~(Cardinality(rows) > limit)
  <2>1. next = Upper
    BY <1>11 DEF NextSequence
  <2>2. page = rows
    BY <1>5, <1>8, <1>9, <1>11
  <2>3. page = {i \in DOMAIN log : /\ cursor.sequence < i /\ i <= next
                                   /\ WantedChange(i)}
    BY <1>4, <2>1, <2>2
  <2>4. next \in Nat /\ cursor.sequence <= next /\ next <= Upper
    <3>1. Upper <= Upper
      BY <1>2
    <3> QED BY <1>2, <2>1, <3>1
  <2> QED BY <1>2, <2>3, <2>4 DEF page
<1> QED BY <1>10, <1>11

\* What a writer does is a revision or a dispute.
LEMMA WriteCases ==
    ASSUME Write
    PROVE  \E e \in Entity, cat \in Category :
             (\E deleted \in BOOLEAN : Revise(e, cat, deleted)) \/ Dispute(e, cat)
<1>1. PICK e \in Entity :
        \/ Revise(e, CategoryOf[e], FALSE)
        \/ \E cat \in {CategoryOf[e]} \union DeleteCategories[e] :
             Revise(e, cat, TRUE) \/ Dispute(e, cat)
  BY DEF Write
<1>2. CategoryOf[e] \in Category /\ DeleteCategories[e] \subseteq Category
  BY ReaderAssumption
<1> QED BY <1>1, <1>2

\* What a writer appends: one change, and at most one row changes.
LEMMA WriteAppends ==
    ASSUME TypeOK, Write
    PROVE  /\ Len(log) < MaxSequence
           /\ Len(log') = Len(log) + 1
           /\ log' \in Seq(Change)
           /\ head' \in [Entity -> Row]
           /\ \A i \in 1 .. Len(log) : log'[i] = log[i]
           /\ UNCHANGED <<epoch, floor, cleared, readerVars>>
<1>2. log \in Seq(Change) /\ head \in [Entity -> Row]
  BY DEF TypeOK, LogTypeOK, Row
<1>3. ASSUME NEW new, new \in Change, log' = Append(log, new)
      PROVE  /\ Len(log') = Len(log) + 1
             /\ log' \in Seq(Change)
             /\ \A i \in 1 .. Len(log) : log'[i] = log[i]
  BY <1>2, <1>3
<1>4. PICK e \in Entity, cat \in Category :
        (\E deleted \in BOOLEAN : Revise(e, cat, deleted)) \/ Dispute(e, cat)
  BY WriteCases
<1>5. CASE \E deleted \in BOOLEAN : Revise(e, cat, deleted)
  <2>1. PICK deleted \in BOOLEAN : Revise(e, cat, deleted)
    BY <1>5
  <2>2. PICK new : new = [sequence |-> Len(log) + 1,
                          kind     |-> KindAfter(head[e], deleted),
                          entity   |-> e,
                          category |-> cat,
                          revision |-> head[e].revision + 1]
    OBVIOUS
  <2>3. new \in Change
    <3>1. Len(log) + 1 \in Nat \ {0} /\ head[e].revision + 1 \in Nat
      BY <1>2 DEF Row
    <3>2. KindAfter(head[e], deleted) \in {"record", "tombstone", "restore", "conflict"}
      BY DEF KindAfter
    <3> QED BY <2>2, <3>1, <3>2 DEF Change
  <2>4. log' = Append(log, new)
    BY <2>1, <2>2 DEF Revise
  <2>5. head' \in [Entity -> Row]
    <3>1. [revision |-> head[e].revision + 1, deleted |-> deleted] \in Row
      BY <1>2 DEF Row
    <3>2. head' = [head EXCEPT ![e] = [revision |-> head[e].revision + 1,
                                       deleted |-> deleted]]
      BY <2>1 DEF Revise
    <3> QED BY <1>2, <3>1, <3>2
  <2> QED BY <1>3, <2>3, <2>4, <2>5 DEF Write
<1>6. CASE Dispute(e, cat)
  <2>1. PICK new : new = [sequence |-> Len(log) + 1,
                          kind     |-> "conflict",
                          entity   |-> e,
                          category |-> cat,
                          revision |-> head[e].revision]
    OBVIOUS
  <2>2. new \in Change
    <3>1. Len(log) + 1 \in Nat \ {0} /\ head[e].revision \in Nat
      BY <1>2 DEF Row
    <3> QED BY <2>1, <3>1 DEF Change
  <2>3. log' = Append(log, new) /\ head' = head
    BY <1>6, <2>1 DEF Dispute
  <2> QED BY <1>2, <1>3, <2>2, <2>3 DEF Write
<1> QED BY <1>4, <1>5, <1>6

\* What a page of changes does to the copy keeps its type.
LEMMA AppliedIsRow ==
    ASSUME TypeOK, NEW page, page \subseteq DOMAIN log, NEW e \in Entity
    PROVE  Applied(page, e) \in Row
<1> DEFINE newer == {i \in page : /\ log[i].entity = e /\ IsRow(i)
                                  /\ log[i].revision > copy[e].revision}
           last == LastOf(newer, Number)
<1>1. Len(log) \in Nat /\ DOMAIN log = 1 .. Len(log) /\ log \in Seq(Change)
  BY DEF TypeOK, LogTypeOK
<1>2. CASE newer = {}
  BY <1>2 DEF Applied, TypeOK
<1>3. CASE newer # {}
  <2>1. \A i \in newer : Number[i] \in Nat /\ Number[i] <= Len(log)
    BY <1>1 DEF Number
  <2>2. newer \subseteq DOMAIN log
    OBVIOUS
  <2> HIDE DEF newer
  <2>3. last \in newer
    BY <1>1, <1>3, <2>1, LastExists
  <2>4. log[last] \in Change
    BY <1>1, <2>2, <2>3
  <2>5. log[last].revision \in Nat
    BY <2>4 DEF Change
  <2>6. Applied(page, e) = [revision |-> log[last].revision,
                            deleted |-> log[last].kind = "tombstone"]
    BY <1>3 DEF Applied, newer
  <2> QED BY <2>5, <2>6 DEF Row
<1> QED BY <1>2, <1>3

\* A page of a reconciliation is all of the differences, or has a last row and
\* every difference listed before it.
LEMMA RecordPage ==
    ASSUME NEW differences, differences \subseteq Entity,
           NEW limit \in 1 .. PageLimit,
           NEW page, page = FirstOf(differences, ListRank, limit),
           NEW last, last = LastOf(page, ListRank)
    PROVE  /\ page \subseteq differences
           /\ ~(Cardinality(differences) > limit) => page = differences
           /\ Cardinality(differences) > limit =>
                /\ last \in page
                /\ \A e \in page : ListRank[e] <= ListRank[last]
                /\ \A e \in differences : ListRank[e] <= ListRank[last] => e \in page
<1>1. limit \in Nat \ {0} /\ Cardinality(Entity) \in Nat
  BY ReaderAssumption, FS_CardinalityType
<1>2. IsFiniteSet(differences) /\ Cardinality(differences) \in Nat
  <2>1. IsFiniteSet(differences)
    BY ReaderAssumption, FS_Subset
  <2> QED BY <2>1, FS_CardinalityType
<1>3. \A e \in Entity : ListRank[e] \in Nat /\ ListRank[e] <= Cardinality(Entity)
  BY <1>1, ReaderAssumption
<1>4. /\ page \subseteq differences
      /\ Cardinality(differences) <= limit => page = differences
      /\ differences # {} => page # {}
      /\ \A r \in differences, p \in page : ListRank[r] <= ListRank[p] => r \in page
  <2>1. \A r \in differences : ListRank[r] \in Nat
    BY <1>3
  <2> QED BY <1>1, <1>2, <2>1, FirstRows
<1>5. ~(Cardinality(differences) > limit) => page = differences
  BY <1>1, <1>2, <1>4
<1>6. ASSUME Cardinality(differences) > limit
      PROVE  /\ last \in page
             /\ \A e \in page : ListRank[e] <= ListRank[last]
  <2>1. differences # {}
    <3>1. differences = {} => Cardinality(differences) = 0
      BY FS_EmptySet
    <3> QED BY <1>1, <1>2, <1>6, <3>1
  <2>2. page # {} /\ page \subseteq Entity
    BY <1>4, <2>1
  <2> QED BY <1>1, <1>3, <2>2, LastExists
<1> QED BY <1>4, <1>5, <1>6

\* No page of a reconciliation does either.
LEMMA ReconcileTypes ==
    ASSUME TypeOK, Reconcile
    PROVE  /\ token' \in Token \union {NoToken}
           /\ mode' \in {"reconcile", "pull"}
           /\ copy' \in [Entity -> Row]
<1>1. PICK limit \in 1 .. PageLimit :
        LET request == IF token # NoToken
                       THEN token
                       ELSE [epoch |-> epoch, upper |-> Len(log), after |-> 0,
                             known |-> copy]
            differences == Differences(request.upper, request.after, request.known)
            page == FirstOf(differences, ListRank, limit)
        IN  /\ copy' = [e \in Entity |-> IF e \in page THEN head[e] ELSE copy[e]]
            /\ IF Cardinality(differences) > limit
               THEN /\ token' = [request EXCEPT !.after = KeyRank[LastOf(page, ListRank)]]
                    /\ UNCHANGED mode
               ELSE /\ token' = NoToken
                    /\ mode' = "pull"
  BY DEF Reconcile
<1> DEFINE request == IF token # NoToken
                      THEN token
                      ELSE [epoch |-> epoch, upper |-> Len(log), after |-> 0,
                            known |-> copy]
           differences == Differences(request.upper, request.after, request.known)
           page == FirstOf(differences, ListRank, limit)
<1>2. request \in Token
  <2>1. CASE token # NoToken
    BY <2>1 DEF TypeOK
  <2>2. CASE token = NoToken
    BY <2>2 DEF TypeOK, LogTypeOK, Token, Row
  <2> QED BY <2>1, <2>2
<1>3. copy' \in [Entity -> Row]
  <2>1. \A e \in Entity : head[e] \in Row /\ copy[e] \in Row
    BY DEF TypeOK, LogTypeOK, Row
  <2> QED BY <1>1, <2>1
<1> HIDE DEF request
<1>4. differences \subseteq Entity
  BY DEF Differences
<1>5. IF Cardinality(differences) > limit
      THEN token' = [request EXCEPT !.after = KeyRank[LastOf(page, ListRank)]]
           /\ mode' = mode
      ELSE token' = NoToken /\ mode' = "pull"
  BY <1>1 DEF request
<1>6. CASE Cardinality(differences) > limit
  <2>1. PICK last : last = LastOf(page, ListRank)
    OBVIOUS
  <2> HIDE DEF differences
  <2>2. last \in Entity
    BY <1>4, <1>6, <2>1, RecordPage
  <2>6. PICK after \in Nat : after = KeyRank[LastOf(page, ListRank)]
    BY <2>1, <2>2, ReaderAssumption
  <2>7. token' = [request EXCEPT !.after = after] /\ mode' = mode
    BY <1>5, <1>6, <2>6
  <2>8. token' \in Token
    BY <1>2, <2>6, <2>7 DEF Token
  <2>9. mode = "reconcile"
    BY DEF Reconcile
  <2> QED BY <1>3, <2>7, <2>8, <2>9
<1>7. CASE ~(Cardinality(differences) > limit)
  BY <1>3, <1>5, <1>7
<1> QED BY <1>6, <1>7

\* Initially, the pages handed out are none.
LEMMA PagesInvInit == Init => PagesInv
<1> SUFFICES ASSUME Init PROVE PagesInv
  OBVIOUS
<1>1. log = <<>> /\ Len(log) = 0 /\ log \in Seq(Change)
  BY DEF Init, LogInit
<1>2. TypeOK
  <2>1. Nothing \in [Entity -> Row]
    BY DEF Nothing, Row
  <2>2. NoChanges \in [1 .. MaxSequence -> Nat]
    BY DEF NoChanges
  <2>3. cursor \in Cursor
    BY DEF Init, Cursor
  <2>4. head \in [Entity -> [revision : Nat, deleted : BOOLEAN]]
    BY DEF Init, LogInit
  <2> QED BY <1>1, <2>1, <2>2, <2>3, <2>4 DEF Init, TypeOK, LogTypeOK
<1>3. CursorWithinLog
  BY <1>1, ReaderAssumption DEF Init, CursorWithinLog
<1>4. ClearedBelowFloor
  BY DEF Init, ClearedBelowFloor
<1>5. PagesExact
  <2> SUFFICES ASSUME NEW i \in DOMAIN received
               PROVE  received[i] = IF start < i /\ i <= cursor.sequence
                                       /\ WantedChange(i)
                                    THEN 1 ELSE 0
    BY DEF PagesExact
  <2>1. i \in 1 .. MaxSequence /\ received[i] = 0
    BY DEF Init, NoChanges
  <2>2. cursor.sequence = 0
    BY DEF Init
  <2>3. ~(i <= cursor.sequence)
    BY <2>1, <2>2, ReaderAssumption
  <2> QED BY <2>1, <2>3
<1> QED BY <1>2, <1>3, <1>4, <1>5 DEF PagesInv

\* Every step preserves what the pages hand out.
LEMMA PagesInvNext == PagesInv /\ [Next]_vars => PagesInv'
<1> SUFFICES ASSUME PagesInv, [Next]_vars PROVE PagesInv'
  OBVIOUS
<1>1. TypeOK /\ CursorWithinLog /\ ClearedBelowFloor /\ PagesExact
  BY DEF PagesInv
<1>2. /\ Len(log) \in Nat /\ DOMAIN log = 1 .. Len(log) /\ log \in Seq(Change)
      /\ epoch \in Nat \ {0} /\ floor \in Nat \ {0} /\ cleared \in Nat /\ start \in Nat
      /\ cursor \in Cursor /\ token \in Token \union {NoToken}
      /\ copy \in [Entity -> Row] /\ head \in [Entity -> Row]
      /\ received \in [1 .. MaxSequence -> Nat] /\ mode \in {"start", "reconcile", "pull"}
  BY <1>1 DEF TypeOK, LogTypeOK, Row
<1>3. /\ cursor.sequence \in Nat /\ cursor.upper \in Nat /\ cursor.epoch \in Nat
      /\ cursor.sequence <= cursor.upper /\ cursor.upper <= Len(log)
      /\ start <= cursor.sequence /\ cursor.epoch <= epoch /\ Len(log) <= MaxSequence
      /\ cleared < floor /\ MaxSequence \in Nat
  BY <1>1, <1>2, ReaderAssumption DEF Cursor, CursorWithinLog, ClearedBelowFloor
<1>4. ASSUME Write PROVE PagesInv'
  <2>1. /\ Len(log) < MaxSequence
        /\ Len(log') = Len(log) + 1
        /\ log' \in Seq(Change)
        /\ head' \in [Entity -> Row]
        /\ \A i \in 1 .. Len(log) : log'[i] = log[i]
        /\ UNCHANGED <<epoch, floor, cleared, readerVars>>
    BY <1>1, <1>4, WriteAppends
  <2>2. UNCHANGED <<epoch, floor, cleared, mode, cursor, token, copy, start, received>>
    BY <2>1 DEF readerVars
  <2>3. TypeOK'
    BY <1>1, <2>1, <2>2 DEF TypeOK, LogTypeOK, Row
  <2>4. CursorWithinLog'
    BY <1>2, <1>3, <2>1, <2>2 DEF CursorWithinLog
  <2>5. ClearedBelowFloor'
    BY <1>1, <2>2 DEF ClearedBelowFloor
  <2>6. PagesExact'
    <3> SUFFICES ASSUME cursor.epoch = epoch, NEW i \in DOMAIN received
                 PROVE  received[i] = IF start < i /\ i <= cursor.sequence
                                         /\ WantedChange(i)'
                                      THEN 1 ELSE 0
      BY <2>2 DEF PagesExact, WantedChange
    <3>1. received[i] = IF start < i /\ i <= cursor.sequence
                           /\ WantedChange(i)
                        THEN 1 ELSE 0
      BY <1>1 DEF PagesExact
    <3>2. i \in 1 .. MaxSequence
      BY <1>2
    <3>3. i <= cursor.sequence => (WantedChange(i)' <=> WantedChange(i))
      BY <1>2, <1>3, <2>1, <3>2 DEF WantedChange
    <3> QED BY <3>1, <3>3
  <2> QED BY <2>3, <2>4, <2>5, <2>6 DEF PagesInv
<1>5. ASSUME SetFloor PROVE PagesInv'
  <2>1. UNCHANGED <<log, head, epoch, cleared, mode, cursor, token, copy, start, received>>
    BY <1>5 DEF SetFloor, logVars, readerVars
  <2>2. floor' \in Nat \ {0} /\ floor < floor'
    BY <1>2, <1>5 DEF SetFloor
  <2>3. TypeOK' /\ CursorWithinLog' /\ PagesExact'
    BY <1>1, <2>1, <2>2 DEF TypeOK, LogTypeOK, CursorWithinLog, PagesExact, WantedChange
  <2>4. ClearedBelowFloor'
    BY <1>2, <1>3, <2>1, <2>2 DEF ClearedBelowFloor
  <2> QED BY <2>3, <2>4 DEF PagesInv
<1>6. ASSUME AdvanceEpoch PROVE PagesInv'
  <2>1. UNCHANGED <<log, head, mode, cursor, token, copy, start, received>>
    BY <1>6 DEF AdvanceEpoch, logVars, readerVars
  <2>2. epoch' = epoch + 1 /\ floor' = Len(log) + 1 /\ cleared' = Len(log)
    BY <1>6 DEF AdvanceEpoch
  <2>3. epoch' \in Nat \ {0} /\ floor' \in Nat \ {0} /\ cleared' \in Nat
        /\ cleared' < floor' /\ cursor.epoch < epoch' /\ cursor.epoch # epoch'
    BY <1>2, <1>3, <2>2
  <2>4. TypeOK'
    BY <1>1, <2>1, <2>3 DEF TypeOK, LogTypeOK
  <2>5. CursorWithinLog'
    BY <1>2, <1>3, <2>1, <2>3 DEF CursorWithinLog
  <2>6. ClearedBelowFloor'
    BY <2>3 DEF ClearedBelowFloor
  <2>7. PagesExact'
    BY <2>1, <2>3 DEF PagesExact
  <2> QED BY <2>4, <2>5, <2>6, <2>7 DEF PagesInv
<1>7. ASSUME TakeUpperCursor PROVE PagesInv'
  <2>1. UNCHANGED <<log, head, epoch, floor, cleared, copy>>
    BY <1>7 DEF TakeUpperCursor, serverVars, logVars
  <2>2. /\ mode' = "reconcile" /\ token' = NoToken /\ start' = Len(log)
        /\ cursor' = [epoch |-> epoch, sequence |-> Len(log), upper |-> Len(log)]
        /\ received' = NoChanges
    BY <1>7 DEF TakeUpperCursor
  <2>3. cursor' \in Cursor
    BY <1>2, <2>2 DEF Cursor
  <2>4. received' \in [1 .. MaxSequence -> Nat]
    BY <2>2 DEF NoChanges
  <2>5. TypeOK'
    BY <1>1, <1>2, <2>1, <2>2, <2>3, <2>4 DEF TypeOK, LogTypeOK
  <2>6. CursorWithinLog'
    BY <1>2, <1>3, <2>1, <2>2 DEF CursorWithinLog
  <2>7. ClearedBelowFloor'
    BY <1>1, <2>1 DEF ClearedBelowFloor
  <2>8. PagesExact'
    <3> SUFFICES ASSUME NEW i \in DOMAIN received'
                 PROVE  received'[i] = IF start' < i /\ i <= cursor'.sequence
                                          /\ WantedChange(i)'
                                       THEN 1 ELSE 0
      BY DEF PagesExact, WantedChange
    <3>1. i \in 1 .. MaxSequence /\ received'[i] = 0
      BY <2>2 DEF NoChanges
    <3>2. ~(start' < i /\ i <= cursor'.sequence)
      BY <1>2, <1>3, <2>2, <3>1
    <3> QED BY <3>1, <3>2
  <2> QED BY <2>5, <2>6, <2>7, <2>8 DEF PagesInv
<1>8. ASSUME Reconcile PROVE PagesInv'
  <2>1. UNCHANGED <<log, head, epoch, floor, cleared, cursor, start, received>>
    BY <1>8 DEF Reconcile, serverVars, logVars
  <2>2. /\ token' \in Token \union {NoToken}
        /\ mode' \in {"reconcile", "pull"}
        /\ copy' \in [Entity -> Row]
    BY <1>1, <1>8, ReconcileTypes
  <2>3. TypeOK'
    BY <1>1, <2>1, <2>2 DEF TypeOK, LogTypeOK
  <2>4. CursorWithinLog' /\ ClearedBelowFloor' /\ PagesExact'
    BY <1>1, <2>1 DEF CursorWithinLog, ClearedBelowFloor, PagesExact, WantedChange
  <2> QED BY <2>3, <2>4 DEF PagesInv
<1>9. ASSUME Pull PROVE PagesInv'
  <2>1. UNCHANGED <<log, head, epoch, floor, cleared, mode, token, start>>
    BY <1>9 DEF Pull, serverVars, logVars
  <2>2. PICK limit \in 1 .. PageLimit :
          LET rows == ListChanges(cursor.sequence, Upper)
              page == FirstOf(rows, Number, limit)
          IN  /\ copy' = [e \in Entity |-> Applied(page, e)]
              /\ cursor' = [epoch |-> epoch, sequence |-> NextSequence(rows, limit, Upper),
                            upper |-> Upper]
              /\ received' = [i \in DOMAIN received |->
                                 received[i] + IF i \in page THEN 1 ELSE 0]
    BY <1>9 DEF Pull
  <2>3. PICK rows : rows = ListChanges(cursor.sequence, Upper)
    OBVIOUS
  <2>4. PICK next : next = NextSequence(rows, limit, Upper)
    OBVIOUS
  <2>5. PICK page : page = FirstOf(rows, Number, limit)
    OBVIOUS
  <2>6. ~CursorRefused
    BY <1>9 DEF Pull
  <2>7. /\ Upper \in Nat /\ Upper <= Len(log)
        /\ next \in Nat /\ cursor.sequence <= next /\ next <= Upper
        /\ page = {i \in DOMAIN log : /\ cursor.sequence < i /\ i <= next
                                      /\ WantedChange(i)}
    BY <1>1, <2>3, <2>4, <2>5, <2>6, PageReachesPosition
  <2>8. /\ copy' = [e \in Entity |-> Applied(page, e)]
        /\ cursor' = [epoch |-> epoch, sequence |-> next, upper |-> Upper]
        /\ received' = [i \in DOMAIN received |->
                           received[i] + IF i \in page THEN 1 ELSE 0]
    BY <2>2, <2>3, <2>4, <2>5
  <2>9. copy' \in [Entity -> Row]
    <3>1. page \subseteq DOMAIN log
      BY <2>7
    <3>2. \A e \in Entity : Applied(page, e) \in Row
      BY <1>1, <3>1, AppliedIsRow
    <3> QED BY <2>8, <3>2
  <2>10. cursor' \in Cursor
    BY <1>2, <2>7, <2>8 DEF Cursor
  <2>11. received' \in [1 .. MaxSequence -> Nat]
    BY <1>2, <2>8
  <2>12. TypeOK'
    BY <1>1, <2>1, <2>9, <2>10, <2>11 DEF TypeOK, LogTypeOK
  <2>13. CursorWithinLog'
    BY <1>2, <1>3, <2>1, <2>7, <2>8 DEF CursorWithinLog
  <2>14. ClearedBelowFloor'
    BY <1>1, <2>1 DEF ClearedBelowFloor
  <2>15. PagesExact'
    <3> SUFFICES ASSUME NEW i \in 1 .. MaxSequence
                 PROVE  received'[i] = IF start < i /\ i <= next
                                          /\ WantedChange(i)
                                       THEN 1 ELSE 0
      BY <1>2, <2>1, <2>8 DEF PagesExact, WantedChange
    <3>1. cursor.epoch = epoch
      BY <2>6 DEF CursorRefused
    <3>2. received[i] = IF start < i /\ i <= cursor.sequence
                           /\ WantedChange(i)
                        THEN 1 ELSE 0
      BY <1>1, <1>2, <3>1 DEF PagesExact
    <3>3. i \in page <=> cursor.sequence < i /\ i <= next /\ WantedChange(i)
      BY <1>2, <2>7
    <3>4. received'[i] = received[i] + IF i \in page THEN 1 ELSE 0
      BY <1>2, <2>8
    <3>5. CASE i <= cursor.sequence
      <4>1. i \notin page /\ i <= next
        BY <1>3, <2>7, <3>3, <3>5
      <4> QED BY <1>2, <3>2, <3>4, <3>5, <4>1
    <3>6. CASE ~(i <= cursor.sequence)
      <4>1. cursor.sequence < i /\ start < i
        BY <1>2, <1>3, <3>6
      <4>2. received[i] = 0
        BY <3>2, <3>6
      <4> QED BY <3>3, <3>4, <4>1, <4>2
    <3> QED BY <3>5, <3>6
  <2> QED BY <2>12, <2>13, <2>14, <2>15 DEF PagesInv
<1>10. ASSUME PullAndCrash PROVE PagesInv'
  <2>1. UNCHANGED <<log, head, epoch, floor, cleared, mode, cursor, token, start, received>>
    BY <1>10 DEF PullAndCrash, serverVars, logVars
  <2>2. PICK limit \in 1 .. PageLimit :
          copy' = [e \in Entity |->
                     Applied(FirstOf(ListChanges(cursor.sequence, Upper), Number, limit), e)]
    BY <1>10 DEF PullAndCrash
  <2>3. PICK page : page = FirstOf(ListChanges(cursor.sequence, Upper), Number, limit)
    OBVIOUS
  <2>4. page \subseteq DOMAIN log
    BY <2>3 DEF FirstOf, ListChanges
  <2>5. copy' \in [Entity -> Row]
    <3>1. \A e \in Entity : Applied(page, e) \in Row
      BY <1>1, <2>4, AppliedIsRow
    <3> QED BY <2>2, <2>3, <3>1
  <2>6. TypeOK'
    BY <1>1, <2>1, <2>5 DEF TypeOK, LogTypeOK
  <2>7. CursorWithinLog' /\ ClearedBelowFloor' /\ PagesExact'
    BY <1>1, <2>1 DEF CursorWithinLog, ClearedBelowFloor, PagesExact, WantedChange
  <2> QED BY <2>6, <2>7 DEF PagesInv
<1>11. ASSUME StartOver PROVE PagesInv'
  <2>1. UNCHANGED <<log, head, epoch, floor, cleared, cursor, token, copy, start, received>>
        /\ mode' = "start"
    BY <1>11 DEF StartOver, serverVars, logVars
  <2> QED BY <1>1, <2>1 DEF PagesInv, TypeOK, LogTypeOK, CursorWithinLog,
                            ClearedBelowFloor, PagesExact, WantedChange
<1>12. CASE UNCHANGED vars
  <2>1. UNCHANGED <<log, head, epoch, floor, cleared, mode, cursor, token, copy, start,
                    received>>
    BY <1>12 DEF vars, serverVars, readerVars, logVars
  <2> QED BY <1>1, <2>1 DEF PagesInv, TypeOK, LogTypeOK, CursorWithinLog,
                            ClearedBelowFloor, PagesExact, WantedChange
<1> QED BY <1>4, <1>5, <1>6, <1>7, <1>8, <1>9, <1>10, <1>11, <1>12 DEF Next, Read

-----------------------------------------------------------------------------
(* What pages of changes promise *)

\* The cursor, the token, the copy and the log keep their types.
THEOREM TypeCorrect == Spec => []TypeOK
<1>1. Init => PagesInv
  BY PagesInvInit
<1>2. PagesInv /\ [Next]_vars => PagesInv'
  BY PagesInvNext
<1>3. PagesInv => TypeOK
  BY DEF PagesInv
<1> QED BY <1>1, <1>2, <1>3, PTL DEF Spec

\* A cursor of the current epoch has handed out every wanted change up to it
\* exactly once (pull, listChanges), for every log, filter and page size.
THEOREM PagesAreExact == Spec => []PagesExact
<1>1. Init => PagesInv
  BY PagesInvInit
<1>2. PagesInv /\ [Next]_vars => PagesInv'
  BY PagesInvNext
<1>3. PagesInv => PagesExact
  BY DEF PagesInv
<1> QED BY <1>1, <1>2, <1>3, PTL DEF Spec

\* A cursor that stays in its epoch never moves back, whether a page or a new
\* start sets it (pull).
THEOREM CursorsMoveForward == Spec => CursorForward
<1> DEFINE A == cursor'.epoch = cursor.epoch => cursor'.sequence >= cursor.sequence
<1>1. Init => PagesInv
  BY PagesInvInit
<1>2. PagesInv /\ [Next]_vars => PagesInv'
  BY PagesInvNext
<1>3. PagesInv /\ [Next]_vars => [A]_vars
  <2> SUFFICES ASSUME PagesInv, Next PROVE cursor'.sequence >= cursor.sequence
    OBVIOUS
  <2>1. TypeOK /\ CursorWithinLog /\ ClearedBelowFloor
    BY DEF PagesInv
  <2>2. cursor.sequence \in Nat /\ cursor.upper \in Nat /\ Len(log) \in Nat
        /\ cursor.sequence <= cursor.upper /\ cursor.upper <= Len(log)
    BY <2>1 DEF TypeOK, LogTypeOK, Cursor, CursorWithinLog
  <2>3. CASE Write \/ SetFloor \/ AdvanceEpoch \/ Reconcile \/ PullAndCrash \/ StartOver
    <3>1. cursor' = cursor
      BY <2>3 DEF Write, SetFloor, AdvanceEpoch, Reconcile, PullAndCrash, StartOver,
                  readerVars
    <3> QED BY <2>2, <3>1
  <2>4. CASE TakeUpperCursor
    <3>1. cursor'.sequence = Len(log)
      BY <2>4 DEF TakeUpperCursor
    <3> QED BY <2>2, <3>1
  <2>5. CASE Pull
    <3>1. PICK limit \in 1 .. PageLimit :
            cursor' = [epoch |-> epoch,
                       sequence |-> NextSequence(ListChanges(cursor.sequence, Upper),
                                                 limit, Upper),
                       upper |-> Upper]
      BY <2>5 DEF Pull
    <3>2. PICK rows : rows = ListChanges(cursor.sequence, Upper)
      OBVIOUS
    <3>3. PICK next : next = NextSequence(rows, limit, Upper)
      OBVIOUS
    <3>4. ~CursorRefused
      BY <2>5 DEF Pull
    <3>5. next \in Nat /\ cursor.sequence <= next
      BY <2>1, <3>2, <3>3, <3>4, PageReachesPosition
    <3>6. cursor'.sequence = next
      BY <3>1, <3>2, <3>3
    <3> QED BY <2>2, <3>5, <3>6
  <2> QED BY <2>3, <2>4, <2>5 DEF Next, Read
<1>4. CursorForward <=> [][A]_vars
  BY DEF CursorForward
<1> HIDE DEF A
<1> QED BY <1>1, <1>2, <1>3, <1>4, PTL DEF Spec

-----------------------------------------------------------------------------
(* The copy *)

\* A writer's change is the new last row of its entity, or changes no row.
LEMMA WriteRows ==
    ASSUME TypeOK, RevisionsRise, HeadIsLastRow, Write
    PROVE  /\ RevisionsRise' /\ HeadIsLastRow'
           /\ \A e \in Entity :
                \/ head'[e] = head[e]
                \/ /\ head[e].revision < head'[e].revision
                   /\ \A upper \in Nat : upper <= Len(log) => ~RowUpTo(e, upper)'
           /\ \A e \in Entity, upper \in Nat : RowUpTo(e, upper)' => RowUpTo(e, upper)
           /\ \A e \in Entity : head'[e] = head[e] /\ Wanted(e)' => Wanted(e)
<1> DEFINE n == Len(log) + 1
<1>1. /\ Len(log) \in Nat /\ DOMAIN log = 1 .. Len(log) /\ log \in Seq(Change)
      /\ head \in [Entity -> Row]
  BY DEF TypeOK, LogTypeOK, Row
<1>2. /\ Len(log') = n /\ log' \in Seq(Change)
      /\ head' \in [Entity -> Row]
      /\ \A i \in 1 .. Len(log) : log'[i] = log[i]
  BY WriteAppends
<1>3. DOMAIN log' = 1 .. n /\ n \in Nat /\ n \in DOMAIN log'
  BY <1>1, <1>2
<1>4. \A i \in DOMAIN log' : i \in DOMAIN log \/ i = n
  BY <1>1, <1>3
<1>5. \A i \in DOMAIN log : i \in DOMAIN log' /\ log'[i] = log[i] /\ i < n
  BY <1>1, <1>2, <1>3
<1>6. \A i \in DOMAIN log : log[i].revision \in Nat
  <2>1. \A i \in DOMAIN log : log[i] \in Change
    BY <1>1
  <2> QED BY <2>1 DEF Change
<1> HIDE DEF n
<1>7. \A e \in Entity, upper \in Nat : RowUpTo(e, upper)' => RowUpTo(e, upper)
  BY <1>5 DEF RowUpTo, IsRow
<1>8. PICK e \in Entity, cat \in Category :
        (\E deleted \in BOOLEAN : Revise(e, cat, deleted)) \/ Dispute(e, cat)
  BY WriteCases
<1>9. CASE \E deleted \in BOOLEAN : Revise(e, cat, deleted)
  <2>1. PICK deleted \in BOOLEAN : Revise(e, cat, deleted)
    BY <1>9
  <2>2. log' = Append(log, [sequence |-> n,
                            kind     |-> KindAfter(head[e], deleted),
                            entity   |-> e,
                            category |-> cat,
                            revision |-> head[e].revision + 1])
    BY <2>1 DEF Revise, n
  <2>3. /\ log'[n].entity = e
        /\ log'[n].kind = KindAfter(head[e], deleted)
        /\ log'[n].revision = head[e].revision + 1
    BY <1>1, <2>2 DEF n
  <2>4. log'[n].kind # "conflict" /\ (log'[n].kind = "tombstone" <=> deleted)
    BY <2>3 DEF KindAfter
  <2>5. /\ head'[e] = [revision |-> head[e].revision + 1, deleted |-> deleted]
        /\ \A d \in Entity : d # e => head'[d] = head[d]
    BY <1>1, <2>1 DEF Revise
  <2>6. head[e].revision \in Nat /\ head'[e].revision = head[e].revision + 1
        /\ head'[e].deleted = deleted
    BY <1>1, <2>5 DEF Row
  <2>7. RevisionsRise'
    <3> SUFFICES ASSUME NEW i \in DOMAIN log', NEW j \in DOMAIN log', i < j,
                        log'[i].entity = log'[j].entity,
                        log'[i].kind # "conflict", log'[j].kind # "conflict"
                 PROVE  log'[i].revision < log'[j].revision
      BY DEF RevisionsRise, IsRow
    <3>1. i \in DOMAIN log
      <4>1. i \in Nat /\ j \in Nat /\ j <= n
        BY <1>3
      <4> QED BY <1>3, <1>4, <4>1
    <3>2. CASE j \in DOMAIN log
      BY <1>5, <3>1, <3>2 DEF RevisionsRise, IsRow
    <3>3. CASE j = n
      <4>1. log[i].entity = e /\ IsRow(i)
        BY <1>5, <2>3, <3>1, <3>3 DEF IsRow
      <4>2. log[i].revision <= head[e].revision
        BY <3>1, <4>1 DEF HeadIsLastRow
      <4>3. log'[i].revision = log[i].revision
        BY <1>5, <3>1
      <4>4. log'[j].revision = head[e].revision + 1
        BY <2>3, <3>3
      <4> QED BY <1>6, <2>6, <3>1, <4>2, <4>3, <4>4
    <3> QED BY <1>4, <3>2, <3>3
  <2>8. HeadIsLastRow'
    <3> SUFFICES ASSUME NEW d \in Entity
                 PROVE
            /\ head'[d].revision = 0 => ~head'[d].deleted
            /\ head'[d].revision > 0 =>
                 \E i \in DOMAIN log' : /\ log'[i].entity = d /\ log'[i].kind # "conflict"
                                        /\ log'[i].revision = head'[d].revision
            /\ \A i \in DOMAIN log' :
                 log'[i].entity = d /\ log'[i].kind # "conflict" =>
                   /\ 0 < log'[i].revision /\ log'[i].revision <= head'[d].revision
                   /\ log'[i].revision = head'[d].revision =>
                        (head'[d].deleted <=> log'[i].kind = "tombstone")
      BY DEF HeadIsLastRow, IsRow
    <3>1. CASE d # e
      <4>1. head'[d] = head[d]
        BY <2>5, <3>1
      <4>2. \A i \in DOMAIN log' : log'[i].entity = d =>
                                     i \in DOMAIN log /\ log'[i] = log[i]
        BY <1>4, <1>5, <2>3, <3>1
      <4> QED BY <1>5, <4>1, <4>2 DEF HeadIsLastRow, IsRow
    <3>2. CASE d = e
      <4>1. head'[d].revision # 0 /\ head'[d].revision > 0
        BY <2>6, <3>2
      <4>2. \E i \in DOMAIN log' : /\ log'[i].entity = d /\ log'[i].kind # "conflict"
                                   /\ log'[i].revision = head'[d].revision
        BY <1>3, <2>3, <2>4, <2>6, <3>2
      <4>3. ASSUME NEW i \in DOMAIN log', log'[i].entity = d, log'[i].kind # "conflict"
            PROVE  /\ 0 < log'[i].revision /\ log'[i].revision <= head'[d].revision
                   /\ log'[i].revision = head'[d].revision =>
                        (head'[d].deleted <=> log'[i].kind = "tombstone")
        <5>1. CASE i = n
          <6>1. log'[i].revision = head[e].revision + 1
            BY <2>3, <5>1
          <6>2. head'[d].deleted <=> log'[i].kind = "tombstone"
            BY <2>4, <2>6, <3>2, <5>1
          <6>3. 0 < log'[i].revision /\ log'[i].revision <= head'[d].revision
            BY <2>6, <3>2, <6>1
          <6> QED BY <6>2, <6>3
        <5>2. CASE i \in DOMAIN log
          <6>1. log[i].entity = e /\ IsRow(i)
            BY <1>5, <3>2, <4>3, <5>2 DEF IsRow
          <6>2. 0 < log[i].revision /\ log[i].revision <= head[e].revision
            BY <5>2, <6>1 DEF HeadIsLastRow
          <6>3. log'[i].revision = log[i].revision /\ log[i].revision \in Nat
            BY <1>5, <1>6, <5>2
          <6>4. 0 < log'[i].revision /\ log'[i].revision < head'[d].revision
            BY <2>6, <3>2, <6>2, <6>3
          <6>5. log'[i].revision \in Nat /\ head'[d].revision \in Nat
            BY <2>6, <3>2, <6>3
          <6>6. log'[i].revision # head'[d].revision
                /\ log'[i].revision <= head'[d].revision
            BY <6>4, <6>5
          <6> QED BY <6>4, <6>6
        <5> QED BY <1>4, <5>1, <5>2
      <4> QED BY <4>1, <4>2, <4>3
    <3> QED BY <3>1, <3>2
  <2>9. ASSUME NEW upper \in Nat, upper <= Len(log) PROVE ~RowUpTo(e, upper)'
    <3>1. ~(n <= upper)
      BY <1>1, <2>9 DEF n
    <3> QED BY <1>3, <2>3, <2>4, <3>1 DEF RowUpTo, IsRow
  <2>10. head[e].revision < head'[e].revision
    BY <2>6
  <2>11. \A d \in Entity :
            \/ head'[d] = head[d]
            \/ /\ head[d].revision < head'[d].revision
               /\ \A upper \in Nat : upper <= Len(log) => ~RowUpTo(d, upper)'
    BY <2>5, <2>9, <2>10
  <2>12. ASSUME NEW d \in Entity, head'[d] = head[d], Wanted(d)' PROVE Wanted(d)
    <3>1. PICK i \in DOMAIN log' : /\ log'[i].entity = d /\ log'[i].kind # "conflict"
                                   /\ log'[i].revision = head'[d].revision
                                   /\ WantedCategory(log'[i].category)
      BY <2>12 DEF Wanted, WantedChange, IsRow
    <3>2. d # e
      BY <2>6, <2>12
    <3>3. i \in DOMAIN log /\ log'[i] = log[i]
      BY <1>4, <1>5, <2>3, <3>1, <3>2
    <3> QED BY <2>12, <3>1, <3>3 DEF Wanted, WantedChange, IsRow
  <2> QED BY <1>7, <2>7, <2>8, <2>11, <2>12
<1>10. CASE Dispute(e, cat)
  <2>1. head' = head
    BY <1>10 DEF Dispute
  <2>2. log'[n].kind = "conflict"
    BY <1>1, <1>10 DEF Dispute, n
  <2>3. \A i \in DOMAIN log' : log'[i].kind # "conflict" =>
                                 i \in DOMAIN log /\ log'[i] = log[i]
    BY <1>4, <1>5, <2>2
  <2>4. RevisionsRise'
    BY <2>3 DEF RevisionsRise, IsRow
  <2>5. HeadIsLastRow'
    BY <1>5, <2>1, <2>3 DEF HeadIsLastRow, IsRow
  <2>6. ASSUME NEW d \in Entity, Wanted(d)' PROVE Wanted(d)
    <3>1. PICK i \in DOMAIN log' : /\ log'[i].entity = d /\ log'[i].kind # "conflict"
                                   /\ log'[i].revision = head'[d].revision
                                   /\ WantedCategory(log'[i].category)
      BY <2>6 DEF Wanted, WantedChange, IsRow
    <3> QED BY <2>1, <2>3, <3>1 DEF Wanted, WantedChange, IsRow
  <2> QED BY <1>7, <2>1, <2>4, <2>5, <2>6
<1> QED BY <1>8, <1>9, <1>10

\* Initially there are no rows.
LEMMA RowsInvInit == Init => RowsInv
<1> SUFFICES ASSUME Init PROVE RowsInv
  OBVIOUS
<1>1. log = <<>> /\ DOMAIN log = {}
  BY DEF Init, LogInit
<1>2. RevisionsRise
  BY <1>1 DEF RevisionsRise
<1>3. HeadIsLastRow
  <2>1. \A e \in Entity : head[e].revision = 0 /\ ~head[e].deleted
    BY DEF Init, LogInit
  <2>2. \A e \in Entity : ~(head[e].revision > 0)
    <3> SUFFICES ASSUME NEW e \in Entity PROVE ~(head[e].revision > 0)
      OBVIOUS
    <3>1. head[e].revision = 0
      BY <2>1
    <3> QED BY <3>1
  <2> QED BY <1>1, <2>1, <2>2 DEF HeadIsLastRow
<1> QED BY <1>2, <1>3, PagesInvInit DEF RowsInv

\* Only writers change what the log and the rows say.
LEMMA RowsInvNext == RowsInv /\ [Next]_vars => RowsInv'
<1> SUFFICES ASSUME RowsInv, [Next]_vars PROVE RowsInv'
  OBVIOUS
<1>1. PagesInv /\ TypeOK /\ RevisionsRise /\ HeadIsLastRow
  BY DEF RowsInv, PagesInv
<1>2. PagesInv'
  BY <1>1, PagesInvNext
<1>3. CASE Write
  BY <1>1, <1>2, <1>3, WriteRows DEF RowsInv
<1>4. CASE UNCHANGED <<log, head>>
  BY <1>1, <1>2, <1>4 DEF RowsInv, RevisionsRise, HeadIsLastRow, IsRow
<1>5. Write \/ UNCHANGED <<log, head>>
  BY DEF Next, Read, SetFloor, AdvanceEpoch, TakeUpperCursor, Reconcile, Pull,
         PullAndCrash, StartOver, vars, serverVars, logVars
<1> QED BY <1>3, <1>4, <1>5

\* A page applied to a copy that lags leaves one that lags, keeps a current row,
\* and makes the row of an entity current when the page has it.
LEMMA AppliedLags ==
    ASSUME TypeOK, RevisionsRise, HeadIsLastRow, CopyLags,
           NEW page, page \subseteq DOMAIN log, NEW e \in Entity
    PROVE  /\ Applied(page, e).revision <= head[e].revision
           /\ Applied(page, e).revision = head[e].revision => Applied(page, e) = head[e]
           /\ copy[e] = head[e] => Applied(page, e) = head[e]
           /\ (\E i \in page : /\ log[i].entity = e /\ IsRow(i)
                               /\ log[i].revision = head[e].revision)
                 => Applied(page, e) = head[e]
<1> DEFINE newer == {i \in page : /\ log[i].entity = e /\ IsRow(i)
                                  /\ log[i].revision > copy[e].revision}
           last == LastOf(newer, Number)
<1>1. /\ Len(log) \in Nat /\ DOMAIN log = 1 .. Len(log) /\ log \in Seq(Change)
      /\ copy[e] \in Row /\ head[e] \in Row
  BY DEF TypeOK, LogTypeOK, Row
<1>2. \A i \in DOMAIN log : log[i].revision \in Nat
  <2>1. \A i \in DOMAIN log : log[i] \in Change
    BY <1>1
  <2> QED BY <2>1 DEF Change
<1>3. /\ copy[e].revision \in Nat /\ head[e].revision \in Nat /\ head[e].deleted \in BOOLEAN
      /\ head[e] = [revision |-> head[e].revision, deleted |-> head[e].deleted]
      /\ copy[e].revision <= head[e].revision
      /\ copy[e].revision = head[e].revision => copy[e] = head[e]
  BY <1>1 DEF Row, CopyLags
<1>4. \A i \in newer : /\ i \in page /\ i \in DOMAIN log /\ log[i].entity = e /\ IsRow(i)
                       /\ log[i].revision > copy[e].revision
  OBVIOUS
<1>5. \A i \in newer : log[i].revision <= head[e].revision
  BY <1>4 DEF HeadIsLastRow
<1>6. newer = {} => Applied(page, e) = copy[e]
  BY DEF Applied
<1>7. newer # {} => Applied(page, e) = [revision |-> log[last].revision,
                                        deleted |-> log[last].kind = "tombstone"]
  BY DEF Applied
<1>8. \A i \in page :
         log[i].entity = e /\ IsRow(i) /\ log[i].revision > copy[e].revision => i \in newer
  OBVIOUS
<1> HIDE DEF newer
<1>9. newer # {} => last \in newer /\ \A i \in newer : i <= last
  <2> SUFFICES ASSUME newer # {} PROVE last \in newer /\ \A i \in newer : i <= last
    OBVIOUS
  <2>1. \A i \in newer : Number[i] = i /\ Number[i] \in Nat /\ Number[i] <= Len(log)
    BY <1>1, <1>4 DEF Number
  <2>2. last \in newer /\ \A i \in newer : Number[i] <= Number[last]
    BY <1>1, <2>1, LastExists
  <2> QED BY <2>1, <2>2
<1> HIDE DEF last
<1>10. newer # {} =>
         /\ Applied(page, e).revision = log[last].revision
         /\ log[last].revision <= head[e].revision
         /\ log[last].revision = head[e].revision => Applied(page, e) = head[e]
  <2> SUFFICES ASSUME newer # {}
               PROVE  /\ Applied(page, e).revision = log[last].revision
                      /\ log[last].revision <= head[e].revision
                      /\ log[last].revision = head[e].revision =>
                           Applied(page, e) = head[e]
    OBVIOUS
  <2>1. last \in DOMAIN log /\ log[last].entity = e /\ IsRow(last)
        /\ log[last].revision <= head[e].revision
    BY <1>4, <1>5, <1>9
  <2>2. log[last].revision = head[e].revision =>
          (head[e].deleted <=> log[last].kind = "tombstone")
    BY <2>1 DEF HeadIsLastRow
  <2>3. PICK tombstone \in BOOLEAN : tombstone = (log[last].kind = "tombstone")
    OBVIOUS
  <2>4. log[last].revision = head[e].revision => head[e].deleted = tombstone
    BY <1>3, <2>2, <2>3
  <2>5. Applied(page, e) = [revision |-> log[last].revision, deleted |-> tombstone]
    BY <1>7, <2>3
  <2>6. Applied(page, e).revision = log[last].revision
    BY <2>5
  <2>7. log[last].revision = head[e].revision => Applied(page, e) = head[e]
    BY <1>3, <2>4, <2>5
  <2> QED BY <2>1, <2>6, <2>7
<1>11. Applied(page, e).revision <= head[e].revision
       /\ (Applied(page, e).revision = head[e].revision => Applied(page, e) = head[e])
  BY <1>3, <1>6, <1>10
<1>12. ASSUME copy[e].revision = head[e].revision PROVE Applied(page, e) = head[e]
  <2>1. ASSUME NEW i \in newer PROVE FALSE
    <3>1. log[i].revision \in Nat /\ log[i].revision <= head[e].revision
          /\ log[i].revision > copy[e].revision
      BY <1>2, <1>4, <1>5
    <3> QED BY <1>3, <1>12, <3>1
  <2>2. newer = {}
    BY <2>1
  <2> QED BY <1>3, <1>6, <1>12, <2>2
<1>13. ASSUME NEW i \in page, log[i].entity = e, IsRow(i),
              log[i].revision = head[e].revision
       PROVE  Applied(page, e) = head[e]
  <2>1. CASE copy[e].revision = head[e].revision
    BY <1>12, <2>1
  <2>2. CASE copy[e].revision # head[e].revision
    <3>1. log[i].revision > copy[e].revision
      BY <1>3, <1>13, <2>2
    <3>2. i \in newer
      BY <1>8, <1>13, <3>1
    <3>3. last \in newer /\ i <= last
      BY <1>9, <3>2
    <3>4. last \in DOMAIN log /\ log[last].entity = e /\ IsRow(last)
          /\ log[last].revision <= head[e].revision
      BY <1>4, <1>5, <3>3
    <3>5. i \in Nat /\ last \in Nat /\ i \in DOMAIN log
      BY <1>1, <1>4, <3>2, <3>4
    <3>6. ~(i < last)
      <4> SUFFICES ASSUME i < last PROVE FALSE
        OBVIOUS
      <4>1. log[i].revision < log[last].revision
        BY <1>13, <3>4, <3>5 DEF RevisionsRise
      <4> QED BY <1>2, <1>3, <1>13, <3>4, <4>1
    <3>7. i = last
      BY <3>3, <3>5, <3>6
    <3> QED BY <1>10, <1>13, <3>2, <3>7
  <2> QED BY <2>1, <2>2
<1> QED BY <1>11, <1>12, <1>13

\* Rows are listed in the order in which > compares their keys.
KeysInListOrder ==
    \A d, e \in Entity : ListRank[d] <= ListRank[e] <=> KeyRank[d] <= KeyRank[e]

\* A page of a reconciliation brings the copy up to the page's last key, or up to
\* the end: no difference falls between the list and the comparison of keys.
LEMMA ReconcileReaches ==
    ASSUME KeysInListOrder, CopyInv, Reconcile
    PROVE  CopyLags' /\ PagesSoFar' /\ CopyReachesCursor'
<1>1. PICK limit \in 1 .. PageLimit :
        LET request == IF token # NoToken
                       THEN token
                       ELSE [epoch |-> epoch, upper |-> Len(log), after |-> 0,
                             known |-> copy]
            differences == Differences(request.upper, request.after, request.known)
            page == FirstOf(differences, ListRank, limit)
        IN  /\ copy' = [e \in Entity |-> IF e \in page THEN head[e] ELSE copy[e]]
            /\ IF Cardinality(differences) > limit
               THEN /\ token' = [request EXCEPT !.after = KeyRank[LastOf(page, ListRank)]]
                    /\ UNCHANGED mode
               ELSE /\ token' = NoToken
                    /\ mode' = "pull"
  BY DEF Reconcile
<1>2. PICK request : request = IF token # NoToken
                               THEN token
                               ELSE [epoch |-> epoch, upper |-> Len(log), after |-> 0,
                                     known |-> copy]
  OBVIOUS
<1>3. PICK differences :
        differences = Differences(request.upper, request.after, request.known)
  OBVIOUS
<1>4. PICK page : page = FirstOf(differences, ListRank, limit)
  OBVIOUS
<1>5. PICK last : last = LastOf(page, ListRank)
  OBVIOUS
<1>6. /\ copy' = [e \in Entity |-> IF e \in page THEN head[e] ELSE copy[e]]
      /\ IF Cardinality(differences) > limit
         THEN token' = [request EXCEPT !.after = KeyRank[last]] /\ mode' = mode
         ELSE token' = NoToken /\ mode' = "pull"
  BY <1>1, <1>2, <1>3, <1>4, <1>5
<1>7. /\ TypeOK /\ CursorWithinLog /\ HeadIsLastRow /\ CopyLags /\ PagesSoFar
      /\ mode = "reconcile"
      /\ UNCHANGED <<log, head, epoch, cursor>>
  BY DEF CopyInv, RowsInv, PagesInv, Reconcile, serverVars, logVars
<1>8. /\ copy \in [Entity -> Row] /\ head \in [Entity -> Row]
      /\ Len(log) \in Nat /\ cursor \in Cursor /\ KeyRank \in [Entity -> Nat \ {0}]
  BY <1>7, ReaderAssumption DEF TypeOK, LogTypeOK, Row
<1>9. /\ request \in Token
      /\ request.upper <= Len(log) /\ cursor.sequence <= request.upper
      /\ \A e \in Entity :
           IF RanksAfter(request.after, e)
           THEN request.known[e] = copy[e]
           ELSE Wanted(e) /\ RowUpTo(e, request.upper) => copy[e] = head[e]
  <2>1. CASE token # NoToken
    <3>1. request = token
      BY <1>2, <2>1
    <3> QED BY <1>7, <2>1, <3>1 DEF PagesSoFar, TypeOK
  <2>2. CASE token = NoToken
    <3>1. request = [epoch |-> epoch, upper |-> Len(log), after |-> 0, known |-> copy]
      BY <1>2, <2>2
    <3>2. request \in Token
      BY <1>7, <1>8, <3>1 DEF TypeOK, Token
    <3>3. request.upper <= Len(log) /\ cursor.sequence <= request.upper
      <4>1. request.upper = Len(log)
        BY <3>1
      <4> QED BY <1>7, <1>8, <4>1 DEF CursorWithinLog, Cursor
    <3>4. \A e \in Entity : RanksAfter(request.after, e) /\ request.known[e] = copy[e]
      BY <1>8, <3>1 DEF RanksAfter
    <3> QED BY <3>2, <3>3, <3>4
  <2> QED BY <2>1, <2>2
<1>10. differences \subseteq Entity
  BY <1>3 DEF Differences
<1>11. \A e \in Entity : copy'[e] = IF e \in page THEN head[e] ELSE copy[e]
  BY <1>6
<1>12. CopyLags'
  <2>1. \A e \in Entity : head[e].revision \in Nat
    BY <1>8 DEF Row
  <2> QED BY <1>7, <1>11, <2>1 DEF CopyLags
<1>13. ASSUME NEW e \in Entity, Wanted(e), RowUpTo(e, request.upper),
              e \notin differences
       PROVE  copy[e] = head[e]
  <2>1. CASE ~RanksAfter(request.after, e)
    BY <1>9, <1>13, <2>1
  <2>2. CASE RanksAfter(request.after, e)
    <3>1. request.known[e] = copy[e]
      BY <1>9, <2>2
    <3>2. request.known[e] = head[e]
      BY <1>3, <1>13, <2>2 DEF Differences
    <3> QED BY <3>1, <3>2
  <2> QED BY <2>1, <2>2
<1>14. CASE Cardinality(differences) > limit
  <2>1. /\ page \subseteq differences /\ last \in page
        /\ \A e \in page : ListRank[e] <= ListRank[last]
        /\ \A e \in differences : ListRank[e] <= ListRank[last] => e \in page
    BY <1>4, <1>5, <1>10, <1>14, RecordPage
  <2>2. last \in Entity /\ last \in differences
    BY <1>10, <2>1
  <2>3. PICK after \in Nat : after = KeyRank[last]
    BY <1>8, <2>2
  <2>4. token' = [request EXCEPT !.after = after] /\ mode' = "reconcile"
    BY <1>6, <1>7, <1>14, <2>3
  <2>5. token'.upper = request.upper /\ token'.after = after
        /\ token'.known = request.known
    BY <1>9, <2>4 DEF Token
  <2>6. request.after < after /\ request.after \in Nat
    BY <1>3, <1>8, <1>9, <2>2, <2>3 DEF Differences, RanksAfter, Token
  <2>7. \A e \in page : KeyRank[e] <= after
    BY <1>10, <2>1, <2>2, <2>3 DEF KeysInListOrder
  <2>8. \A e \in differences : KeyRank[e] <= after => e \in page
    BY <1>10, <2>1, <2>2, <2>3 DEF KeysInListOrder
  <2>9. ASSUME NEW e \in Entity
        PROVE  IF RanksAfter(after, e)
               THEN request.known[e] = copy'[e]
               ELSE Wanted(e) /\ RowUpTo(e, request.upper) => copy'[e] = head[e]
    <3>1. KeyRank[e] \in Nat
      BY <1>8
    <3>2. CASE RanksAfter(after, e)
      <4>1. e \notin page
        BY <2>7, <3>1, <3>2 DEF RanksAfter
      <4>2. RanksAfter(request.after, e)
        BY <2>6, <3>1, <3>2 DEF RanksAfter
      <4> QED BY <1>9, <1>11, <3>2, <4>1, <4>2
    <3>3. CASE ~RanksAfter(after, e)
      <4>1. e \in differences => e \in page
        BY <2>8, <3>1, <3>3 DEF RanksAfter
      <4>2. Wanted(e) /\ RowUpTo(e, request.upper) => e \in page \/ copy[e] = head[e]
        BY <1>13, <4>1
      <4> QED BY <1>11, <3>3, <4>2
    <3> QED BY <3>2, <3>3
  <2>10. PagesSoFar'
    BY <1>7, <1>9, <2>5, <2>9 DEF PagesSoFar, RanksAfter, Wanted, WantedChange, RowUpTo, IsRow
  <2>11. CopyReachesCursor'
    BY <2>4 DEF CopyReachesCursor
  <2> QED BY <1>12, <2>10, <2>11
<1>15. CASE ~(Cardinality(differences) > limit)
  <2>1. page = differences
    BY <1>4, <1>5, <1>10, <1>15, RecordPage
  <2>2. token' = NoToken /\ mode' = "pull"
    BY <1>6, <1>15
  <2>3. PagesSoFar'
    BY <2>2 DEF PagesSoFar
  <2>4. ASSUME NEW e \in Entity, Wanted(e), RowUpTo(e, cursor.sequence)
        PROVE  copy'[e] = head[e]
    <3>1. RowUpTo(e, request.upper)
      <4>1. cursor.sequence \in Nat /\ request.upper \in Nat
        BY <1>8, <1>9 DEF Cursor, Token
      <4>2. \A i \in DOMAIN log : i \in Nat
        BY <1>7 DEF TypeOK, LogTypeOK
      <4> QED BY <1>9, <2>4, <4>1, <4>2 DEF RowUpTo
    <3> QED BY <1>11, <1>13, <2>1, <2>4, <3>1
  <2>5. CopyReachesCursor'
    BY <1>7, <2>4 DEF CopyReachesCursor, Wanted, WantedChange, RowUpTo, IsRow
  <2> QED BY <1>12, <2>3, <2>5
<1> QED BY <1>14, <1>15

\* A page of changes brings the copy up to the new position.
LEMMA PullReaches ==
    ASSUME CopyInv, Pull
    PROVE  CopyLags' /\ PagesSoFar' /\ CopyReachesCursor'
<1>1. PICK limit \in 1 .. PageLimit :
        LET rows == ListChanges(cursor.sequence, Upper)
            page == FirstOf(rows, Number, limit)
        IN  /\ copy' = [e \in Entity |-> Applied(page, e)]
            /\ cursor' = [epoch |-> epoch, sequence |-> NextSequence(rows, limit, Upper),
                          upper |-> Upper]
  BY DEF Pull
<1>2. PICK rows : rows = ListChanges(cursor.sequence, Upper)
  OBVIOUS
<1>3. PICK next : next = NextSequence(rows, limit, Upper)
  OBVIOUS
<1>4. PICK page : page = FirstOf(rows, Number, limit)
  OBVIOUS
<1>5. /\ TypeOK /\ CursorWithinLog /\ ClearedBelowFloor /\ RevisionsRise /\ HeadIsLastRow
      /\ CopyLags /\ CopyReachesCursor
      /\ mode = "pull" /\ mode' = "pull" /\ ~CursorRefused
      /\ UNCHANGED <<log, head, epoch>>
  BY DEF CopyInv, RowsInv, PagesInv, Pull, serverVars, logVars
<1>6. /\ next \in Nat /\ cursor.sequence <= next
      /\ page = {i \in DOMAIN log : /\ cursor.sequence < i /\ i <= next
                                    /\ WantedChange(i)}
  BY <1>2, <1>3, <1>4, <1>5, PageReachesPosition
<1>7. /\ \A e \in Entity : copy'[e] = Applied(page, e)
      /\ cursor'.sequence = next
  BY <1>1, <1>2, <1>3, <1>4
<1>8. page \subseteq DOMAIN log
  BY <1>6
<1>9. \A e \in Entity :
        /\ copy'[e].revision <= head[e].revision
        /\ copy'[e].revision = head[e].revision => copy'[e] = head[e]
        /\ copy[e] = head[e] => copy'[e] = head[e]
        /\ (\E i \in page : /\ log[i].entity = e /\ IsRow(i)
                            /\ log[i].revision = head[e].revision)
              => copy'[e] = head[e]
  BY <1>5, <1>7, <1>8, AppliedLags
<1>10. CopyLags'
  BY <1>5, <1>9 DEF CopyLags
<1>11. PagesSoFar'
  BY <1>5 DEF PagesSoFar
<1>12. ASSUME NEW e \in Entity, Wanted(e), RowUpTo(e, next)
       PROVE  copy'[e] = head[e]
  <2>1. cursor.epoch = epoch
    BY <1>5 DEF CursorRefused
  <2>2. CASE RowUpTo(e, cursor.sequence)
    BY <1>5, <1>9, <1>12, <2>1, <2>2 DEF CopyReachesCursor
  <2>3. CASE ~RowUpTo(e, cursor.sequence)
    <3>1. PICK i \in DOMAIN log : log[i].entity = e /\ IsRow(i) /\ ~(i <= cursor.sequence)
      BY <2>3 DEF RowUpTo
    <3>2. \A j \in DOMAIN log : j \in Nat /\ log[j] \in Change
      BY <1>5 DEF TypeOK, LogTypeOK
    <3>3. \A j \in DOMAIN log : log[j].revision \in Nat
      BY <3>2 DEF Change
    <3>4. head[e].revision \in Nat /\ cursor.sequence \in Nat
      BY <1>5 DEF TypeOK, LogTypeOK, Cursor
    <3>5. 0 < log[i].revision /\ log[i].revision <= head[e].revision
      BY <1>5, <3>1 DEF HeadIsLastRow
    <3>7. PICK j \in DOMAIN log : /\ log[j].entity = e /\ IsRow(j)
                                  /\ log[j].revision = head[e].revision
                                  /\ WantedChange(j)
      BY <1>12 DEF Wanted
    <3>8. ~(j < i)
      <4> SUFFICES ASSUME j < i PROVE FALSE
        OBVIOUS
      <4>1. log[j].revision < log[i].revision
        BY <1>5, <3>1, <3>7 DEF RevisionsRise
      <4> QED BY <3>1, <3>3, <3>4, <3>5, <3>7, <4>1
    <3>9. cursor.sequence < j
      BY <3>1, <3>2, <3>4, <3>8
    <3>10. j <= next
      BY <1>12, <3>7 DEF RowUpTo
    <3>11. j \in page
      BY <1>6, <3>7, <3>9, <3>10
    <3> QED BY <1>9, <3>7, <3>11
  <2> QED BY <2>2, <2>3
<1>13. CopyReachesCursor'
  BY <1>5, <1>7, <1>12 DEF CopyReachesCursor, Wanted, WantedChange, RowUpTo, IsRow
<1> QED BY <1>10, <1>11, <1>13

\* Initially there is nothing to copy.
LEMMA CopyInvInit == Init => CopyInv
<1> SUFFICES ASSUME Init PROVE CopyInv
  OBVIOUS
<1>1. \A e \in Entity : /\ head[e].revision = 0 /\ copy[e] = head[e]
  BY DEF Init, LogInit, Nothing
<1>2. CopyLags
  <2> SUFFICES ASSUME NEW e \in Entity PROVE copy[e].revision <= head[e].revision
    BY <1>1 DEF CopyLags
  <2>1. copy[e].revision = 0 /\ head[e].revision = 0
    BY <1>1
  <2> QED BY <2>1
<1>3. PagesSoFar /\ CopyReachesCursor
  BY DEF Init, PagesSoFar, CopyReachesCursor
<1> QED BY <1>2, <1>3, RowsInvInit DEF CopyInv

\* Every step of the reader, of a writer and of the server's keeper preserves it.
LEMMA CopyInvNext ==
    ASSUME KeysInListOrder
    PROVE  CopyInv /\ [Next]_vars => CopyInv'
<1> SUFFICES ASSUME CopyInv, [Next]_vars PROVE CopyInv'
  OBVIOUS
<1>1. /\ RowsInv /\ TypeOK /\ CursorWithinLog /\ RevisionsRise /\ HeadIsLastRow
      /\ CopyLags /\ PagesSoFar /\ CopyReachesCursor
  BY DEF CopyInv, RowsInv, PagesInv
<1>2. RowsInv'
  BY <1>1, RowsInvNext
<1>3. \A e \in Entity : head[e].revision \in Nat /\ copy[e].revision \in Nat
  BY <1>1 DEF TypeOK, LogTypeOK, Row
<1>4. /\ Len(log) \in Nat /\ cursor.sequence \in Nat /\ cursor.sequence <= Len(log)
      /\ cursor.epoch \in Nat /\ epoch \in Nat /\ cursor.epoch <= epoch
  BY <1>1 DEF TypeOK, LogTypeOK, Cursor, CursorWithinLog
<1>5. ASSUME Write PROVE CopyInv'
  <2>1. /\ \A e \in Entity :
             \/ head'[e] = head[e]
             \/ /\ head[e].revision < head'[e].revision
                /\ \A upper \in Nat : upper <= Len(log) => ~RowUpTo(e, upper)'
        /\ \A e \in Entity, upper \in Nat : RowUpTo(e, upper)' => RowUpTo(e, upper)
        /\ \A e \in Entity : head'[e] = head[e] /\ Wanted(e)' => Wanted(e)
    BY <1>1, <1>5, WriteRows
  <2>2. /\ head' \in [Entity -> Row] /\ Len(log') = Len(log) + 1
        /\ UNCHANGED <<epoch, mode, cursor, token, copy>>
    BY <1>1, <1>5, WriteAppends DEF readerVars
  <2>3. ASSUME NEW e \in Entity, NEW upper \in Nat, upper <= Len(log),
               RowUpTo(e, upper)'
        PROVE  head'[e] = head[e] /\ RowUpTo(e, upper)
    BY <2>1, <2>3
  <2>4. CopyLags'
    <3> SUFFICES ASSUME NEW e \in Entity
                 PROVE  /\ copy[e].revision <= head'[e].revision
                        /\ copy[e].revision = head'[e].revision => copy[e] = head'[e]
      BY <2>2 DEF CopyLags
    <3>1. CASE head'[e] = head[e]
      BY <1>1, <3>1 DEF CopyLags
    <3>2. CASE head[e].revision < head'[e].revision
      <4>1. head'[e].revision \in Nat
        BY <2>2 DEF Row
      <4>2. copy[e].revision <= head[e].revision
        BY <1>1 DEF CopyLags
      <4>3. copy[e].revision < head'[e].revision
        BY <1>3, <3>2, <4>1, <4>2
      <4> QED BY <1>3, <4>1, <4>3
    <3> QED BY <2>1, <3>1, <3>2
  <2>5. PagesSoFar'
    <3> SUFFICES ASSUME mode = "reconcile", token # NoToken
                 PROVE  /\ token.upper <= Len(log') /\ cursor.sequence <= token.upper
                        /\ \A e \in Entity :
                             IF RanksAfter(token.after, e)
                             THEN token.known[e] = copy[e]
                             ELSE Wanted(e)' /\ RowUpTo(e, token.upper)' =>
                                    copy[e] = head'[e]
      BY <2>2 DEF PagesSoFar, RanksAfter, RowUpTo, IsRow
    <3>1. token.upper <= Len(log) /\ cursor.sequence <= token.upper
      BY <1>1 DEF PagesSoFar
    <3>2. token.upper \in Nat
      BY <1>1 DEF TypeOK, Token
    <3>3. PICK upper \in Nat : upper = token.upper
      BY <3>2
    <3>4. ASSUME NEW e \in Entity
          PROVE  IF RanksAfter(token.after, e)
                 THEN token.known[e] = copy[e]
                 ELSE Wanted(e)' /\ RowUpTo(e, upper)' => copy[e] = head'[e]
      <4>1. IF RanksAfter(token.after, e)
            THEN token.known[e] = copy[e]
            ELSE Wanted(e) /\ RowUpTo(e, upper) => copy[e] = head[e]
        BY <1>1, <3>3 DEF PagesSoFar
      <4>2. RowUpTo(e, upper)' => head'[e] = head[e] /\ RowUpTo(e, upper)
        BY <2>3, <3>1, <3>3
      <4>3. RowUpTo(e, upper)' /\ Wanted(e)' => Wanted(e)
        BY <2>1, <4>2
      <4> QED BY <4>1, <4>2, <4>3
    <3>5. token.upper <= Len(log')
      BY <1>4, <2>2, <3>1, <3>2
    <3>6. upper' = upper /\ token' = token
      BY <2>2
    <3>7. \A e \in Entity : RowUpTo(e, upper)' <=> RowUpTo(e, token.upper)'
      BY <2>2, <3>3 DEF RowUpTo, IsRow
    <3> QED BY <3>1, <3>4, <3>5, <3>7
  <2>6. CopyReachesCursor'
    <3> SUFFICES ASSUME mode = "pull", cursor.epoch = epoch,
                        NEW e \in Entity, Wanted(e)', RowUpTo(e, cursor.sequence)'
                 PROVE  copy[e] = head'[e]
      BY <2>2 DEF CopyReachesCursor
    <3>1. PICK upper \in Nat : upper = cursor.sequence
      BY <1>4
    <3>2. RowUpTo(e, upper)'
      BY <2>2, <3>1 DEF RowUpTo, IsRow
    <3>3. head'[e] = head[e] /\ RowUpTo(e, upper)
      BY <1>4, <2>3, <3>1, <3>2
    <3>4. Wanted(e)
      BY <2>1, <3>3
    <3>5. copy[e] = head[e]
      BY <1>1, <3>1, <3>3, <3>4 DEF CopyReachesCursor
    <3> QED BY <3>3, <3>5
  <2> QED BY <1>2, <2>4, <2>5, <2>6 DEF CopyInv
<1>6. ASSUME SetFloor \/ AdvanceEpoch PROVE CopyInv'
  <2>1. UNCHANGED <<log, head, mode, cursor, token, copy>>
    BY <1>6 DEF SetFloor, AdvanceEpoch, logVars, readerVars
  <2>2. cursor.epoch = epoch' => cursor.epoch = epoch
    <3>1. epoch' = epoch \/ epoch' = epoch + 1
      BY <1>6 DEF SetFloor, AdvanceEpoch
    <3> QED BY <1>4, <3>1
  <2>3. CopyLags' /\ PagesSoFar'
    BY <1>1, <2>1 DEF CopyLags, PagesSoFar, RanksAfter, Wanted, WantedChange, RowUpTo, IsRow
  <2>4. CopyReachesCursor'
    BY <1>1, <2>1, <2>2 DEF CopyReachesCursor, Wanted, WantedChange, RowUpTo, IsRow
  <2> QED BY <1>2, <2>3, <2>4 DEF CopyInv
<1>7. ASSUME TakeUpperCursor PROVE CopyInv'
  <2>1. UNCHANGED <<log, head, copy>> /\ mode' = "reconcile" /\ token' = NoToken
    BY <1>7 DEF TakeUpperCursor, serverVars, logVars
  <2>2. CopyLags'
    BY <1>1, <2>1 DEF CopyLags
  <2>3. PagesSoFar' /\ CopyReachesCursor'
    BY <2>1 DEF PagesSoFar, CopyReachesCursor
  <2> QED BY <1>2, <2>2, <2>3 DEF CopyInv
<1>8. ASSUME Reconcile PROVE CopyInv'
  <2>1. CopyLags' /\ PagesSoFar' /\ CopyReachesCursor'
    BY <1>8, ReconcileReaches
  <2> QED BY <1>2, <2>1 DEF CopyInv
<1>9. ASSUME Pull PROVE CopyInv'
  <2>1. CopyLags' /\ PagesSoFar' /\ CopyReachesCursor'
    BY <1>9, PullReaches
  <2> QED BY <1>2, <2>1 DEF CopyInv
<1>10. ASSUME PullAndCrash PROVE CopyInv'
  <2>1. UNCHANGED <<log, head, epoch, mode, cursor, token>> /\ mode = "pull"
    BY <1>10 DEF PullAndCrash, serverVars, logVars
  <2>2. PICK limit \in 1 .. PageLimit :
          copy' = [e \in Entity |->
                     Applied(FirstOf(ListChanges(cursor.sequence, Upper), Number, limit), e)]
    BY <1>10 DEF PullAndCrash
  <2>3. PICK page : page = FirstOf(ListChanges(cursor.sequence, Upper), Number, limit)
    OBVIOUS
  <2>4. page \subseteq DOMAIN log
    BY <2>3 DEF FirstOf, ListChanges
  <2>5. \A e \in Entity : copy'[e] = Applied(page, e)
    BY <2>2, <2>3
  <2>6. \A e \in Entity :
          /\ copy'[e].revision <= head[e].revision
          /\ copy'[e].revision = head[e].revision => copy'[e] = head[e]
          /\ copy[e] = head[e] => copy'[e] = head[e]
    BY <1>1, <2>4, <2>5, AppliedLags
  <2>7. CopyLags'
    BY <2>1, <2>6 DEF CopyLags
  <2>8. PagesSoFar'
    BY <2>1 DEF PagesSoFar
  <2>9. CopyReachesCursor'
    BY <1>1, <2>1, <2>6 DEF CopyReachesCursor, Wanted, WantedChange, RowUpTo, IsRow
  <2> QED BY <1>2, <2>7, <2>8, <2>9 DEF CopyInv
<1>11. ASSUME StartOver PROVE CopyInv'
  <2>1. UNCHANGED <<log, head, copy>> /\ mode' = "start"
    BY <1>11 DEF StartOver, serverVars, logVars
  <2>2. CopyLags'
    BY <1>1, <2>1 DEF CopyLags
  <2>3. PagesSoFar' /\ CopyReachesCursor'
    BY <2>1 DEF PagesSoFar, CopyReachesCursor
  <2> QED BY <1>2, <2>2, <2>3 DEF CopyInv
<1>12. CASE UNCHANGED vars
  <2>1. UNCHANGED <<log, head, epoch, mode, cursor, token, copy>>
    BY <1>12 DEF vars, serverVars, readerVars, logVars
  <2> QED BY <1>1, <1>2, <2>1 DEF CopyInv, CopyLags, PagesSoFar,
                 CopyReachesCursor, RanksAfter, Wanted, WantedChange, RowUpTo, IsRow
<1> QED BY <1>5, <1>6, <1>7, <1>8, <1>9, <1>10, <1>11, <1>12 DEF Next, Read

\* Every entity's rows stand in the log with rising revisions, and its current row is
\* the last of them (accept).
THEOREM LogTellsRows == Spec => [](RevisionsRise /\ HeadIsLastRow)
<1>1. Init => RowsInv
  BY RowsInvInit
<1>2. RowsInv /\ [Next]_vars => RowsInv'
  BY RowsInvNext
<1>3. RowsInv => RevisionsRise /\ HeadIsLastRow
  BY DEF RowsInv
<1> QED BY <1>1, <1>2, <1>3, PTL DEF Spec

\* A reader that pulls has every row of a wanted category that is not newer than its
\* cursor (pull, reconcile), for every log, filter and page size, whichever category a
\* deletion names, if rows are listed in the order in which keys are compared.  The
\* hypothesis is needed: without it run reader_key_order refutes the property.
THEOREM CopiesReachCursor ==
    ASSUME KeysInListOrder
    PROVE  Spec => []CopyReachesCursor
<1>1. Init => CopyInv
  BY CopyInvInit
<1>2. CopyInv /\ [Next]_vars => CopyInv'
  BY CopyInvNext
<1>3. CopyInv => CopyReachesCursor
  BY DEF CopyInv
<1> QED BY <1>1, <1>2, <1>3, PTL DEF Spec

-----------------------------------------------------------------------------
(* Deletions *)

\* Who deletes an entity names its category.
DeletesNameTheirs == \A e \in Entity : DeleteCategories[e] \subseteq {CategoryOf[e]}

\* Then every change has the category of its entity.
ChangesNameTheirs == \A i \in DOMAIN log : log[i].category = CategoryOf[log[i].entity]

LEMMA ChangesNameTheirsNext ==
    ASSUME DeletesNameTheirs
    PROVE  TypeOK /\ ChangesNameTheirs /\ [Next]_vars => ChangesNameTheirs'
<1> SUFFICES ASSUME TypeOK, ChangesNameTheirs, [Next]_vars PROVE ChangesNameTheirs'
  OBVIOUS
<1>1. CASE Write
  <2>1. PICK e \in Entity :
          (\E deleted \in BOOLEAN : Revise(e, CategoryOf[e], deleted))
            \/ Dispute(e, CategoryOf[e])
    <3>1. PICK e \in Entity :
            \/ Revise(e, CategoryOf[e], FALSE)
            \/ \E cat \in {CategoryOf[e]} \union DeleteCategories[e] :
                 Revise(e, cat, TRUE) \/ Dispute(e, cat)
      BY <1>1 DEF Write
    <3>2. \A cat \in {CategoryOf[e]} \union DeleteCategories[e] : cat = CategoryOf[e]
      BY DEF DeletesNameTheirs
    <3> QED BY <3>1, <3>2
  <2>2. log \in Seq(Change) /\ Len(log) \in Nat /\ DOMAIN log = 1 .. Len(log)
    BY DEF TypeOK, LogTypeOK
  <2>3. PICK new : log' = Append(log, new) /\ new.category = CategoryOf[new.entity]
    <3>1. CASE \E deleted \in BOOLEAN : Revise(e, CategoryOf[e], deleted)
      BY <3>1 DEF Revise
    <3>2. CASE Dispute(e, CategoryOf[e])
      BY <3>2 DEF Dispute
    <3> QED BY <2>1, <3>1, <3>2
  <2>4. DOMAIN log' = 1 .. Len(log) + 1
        /\ log'[Len(log) + 1] = new
        /\ \A i \in 1 .. Len(log) : log'[i] = log[i]
    BY <2>2, <2>3
  <2>5. \A i \in DOMAIN log' : i \in DOMAIN log \/ i = Len(log) + 1
    BY <2>2, <2>4
  <2> QED BY <2>2, <2>3, <2>4, <2>5 DEF ChangesNameTheirs
<1>2. CASE UNCHANGED log
  BY <1>2 DEF ChangesNameTheirs
<1>3. Write \/ UNCHANGED log
  BY DEF Next, Read, SetFloor, AdvanceEpoch, TakeUpperCursor, Reconcile, Pull,
         PullAndCrash, StartOver, vars, serverVars, logVars
<1> QED BY <1>1, <1>2, <1>3

\* A record that a reader of its category has is deleted in its copy once the cursor is
\* past the deletion (pull, reconcile), if deletions name the category of what they
\* delete.  The hypothesis is needed: the server does not hold a deletion against the
\* registry, and without it run reader_foreign_delete refutes the property.
THEOREM DeletionsReach ==
    ASSUME KeysInListOrder, DeletesNameTheirs
    PROVE  Spec => []DeletionsReachCursor
<1>1. Init => CopyInv /\ ChangesNameTheirs
  <2>1. Init => ChangesNameTheirs
    BY DEF Init, LogInit, ChangesNameTheirs
  <2> QED BY <2>1, CopyInvInit
<1>2. CopyInv /\ ChangesNameTheirs /\ [Next]_vars => (CopyInv /\ ChangesNameTheirs)'
  <2>1. CopyInv => TypeOK
    BY DEF CopyInv, RowsInv, PagesInv
  <2> QED BY <2>1, CopyInvNext, ChangesNameTheirsNext
<1>3. CopyInv /\ ChangesNameTheirs => DeletionsReachCursor
  <2> SUFFICES ASSUME CopyInv, ChangesNameTheirs, mode = "pull", cursor.epoch = epoch,
                      NEW e \in Entity, WantedCategory(CategoryOf[e]),
                      RowUpTo(e, cursor.sequence), head[e].deleted
               PROVE  copy[e].deleted
    BY DEF DeletionsReachCursor
  <2>1. HeadIsLastRow /\ CopyReachesCursor /\ TypeOK
    BY DEF CopyInv, RowsInv, PagesInv
  <2>2. head[e].revision > 0
    <3>1. head[e].revision \in Nat
      BY <2>1 DEF TypeOK, LogTypeOK
    <3>2. head[e].revision # 0
      BY <2>1 DEF HeadIsLastRow
    <3> QED BY <3>1, <3>2
  <2>3. PICK i \in DOMAIN log : /\ log[i].entity = e /\ IsRow(i)
                                /\ log[i].revision = head[e].revision
    BY <2>1, <2>2 DEF HeadIsLastRow
  <2>4. Wanted(e)
    BY <2>3 DEF Wanted, WantedChange, ChangesNameTheirs
  <2> QED BY <2>1, <2>4 DEF CopyReachesCursor
<1> QED BY <1>1, <1>2, <1>3, PTL DEF Spec
=============================================================================
