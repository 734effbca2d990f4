---------------------------- MODULE SpaceReader -----------------------------
(***************************************************************************)
(* A client that reads one space: pull and reconcile of                    *)
(* src/records/service.js, over the log that the record service promises   *)
(* (SpaceLog; RecordReplication implements it), written with the           *)
(* categories its operations have.  Readers change nothing on the server,  *)
(* so one of them is enough.                                               *)
(*                                                                         *)
(* Each request is one transaction; writers, the stream floor and the      *)
(* restore epoch move between a reader's requests.  Cursors and page tokens*)
(* are sealed by the server, so a reader can only send back one it was     *)
(* given; the reader keeps the filter it began with.                       *)
(***************************************************************************)
EXTENDS SpaceLog, FiniteSets

CONSTANTS
    CategoryOf,      \* the registry's category of an entity
    DeleteCategories,  \* the categories clients name when they delete an entity
    Filter,          \* the categories the reader asks for; none means all
    PageLimit,       \* bound on the page size the reader asks for
    ListRank,        \* the place of an entity in the order listRecords returns
    KeyRank,         \* the place of an entity's key when keys are compared by >
    NoToken,         \* no page token
    MaxSequence,     \* bound on the length of the log
    MaxEpoch         \* bound on the restore epoch

ASSUME ReaderAssumption ==
    /\ IsFiniteSet(Entity)
    /\ CategoryOf \in [Entity -> Category]
    /\ DeleteCategories \in [Entity -> SUBSET Category]
    /\ Filter \subseteq Category
    /\ PageLimit \in Nat \ {0}
    /\ ListRank \in [Entity -> 1 .. Cardinality(Entity)]
    /\ \A d, e \in Entity : ListRank[d] = ListRank[e] => d = e
    /\ KeyRank \in [Entity -> Nat \ {0}]
    /\ NoToken \notin [epoch : Nat, upper : Nat, after : Nat,
                     known : [Entity -> [revision : Nat, deleted : BOOLEAN]]]
    /\ MaxSequence \in Nat /\ MaxEpoch \in Nat

VARIABLES
    epoch,           \* the space's restore epoch
    floor,           \* space_stream_floors.minimum_sequence
    cleared,         \* changes up to here were deleted
    mode,            \* what the reader does next: start, reconcile or pull
    cursor,          \* the cursor it stored last
    token,           \* the page token of a reconciliation under way
    copy,            \* its copy of the records
    start,           \* history: where its cursor began,
    received         \* and how often it stored a page with each change since

serverVars == <<logVars, epoch, floor, cleared>>
readerVars == <<mode, cursor, token, copy, start, received>>
vars == <<serverVars, readerVars>>

-----------------------------------------------------------------------------

Row == [revision : Nat, deleted : BOOLEAN]
\* decode accepts no cursor beyond its own bound.
Cursor == {k \in [epoch : Nat, sequence : Nat, upper : Nat] : k.sequence <= k.upper}
Token == [epoch : Nat, upper : Nat, after : Nat, known : [Entity -> Row]]

TypeOK ==
    /\ LogTypeOK
    /\ epoch \in Nat \ {0} /\ floor \in Nat \ {0} /\ cleared \in Nat
    /\ mode \in {"start", "reconcile", "pull"}
    /\ cursor \in Cursor
    /\ token \in Token \union {NoToken}
    /\ copy \in [Entity -> Row]
    /\ start \in Nat
    /\ received \in [1 .. MaxSequence -> Nat]

Nothing == [e \in Entity |-> [revision |-> 0, deleted |-> FALSE]]
NoChanges == [i \in 1 .. MaxSequence |-> 0]

Init ==
    /\ LogInit
    /\ epoch = 1 /\ floor = 1 /\ cleared = 0
    /\ mode = "start"
    /\ cursor = [epoch |-> 1, sequence |-> 0, upper |-> 0]
    /\ token = NoToken
    /\ copy = Nothing
    /\ start = 0
    /\ received = NoChanges

-----------------------------------------------------------------------------
(* The server's side: writers, retention and restores *)

\* Only what has a payload is held against the registry: a deletion, and a conflict
\* over one, has the category its client named.
Write ==
    /\ Len(log) < MaxSequence
    /\ \E e \in Entity :
        \/ Revise(e, CategoryOf[e], FALSE)
        \/ \E cat \in {CategoryOf[e]} \union DeleteCategories[e] :
             Revise(e, cat, TRUE) \/ Dispute(e, cat)
    /\ UNCHANGED <<epoch, floor, cleared, readerVars>>

SetFloor ==
    /\ \E sequence \in floor + 1 .. Len(log) + 1 : floor' = sequence
    /\ UNCHANGED <<logVars, epoch, cleared, readerVars>>

\* A restore begins a new epoch with an empty change stream; the records and
\* the numbering stay.
AdvanceEpoch ==
    /\ epoch < MaxEpoch
    /\ epoch' = epoch + 1
    /\ floor' = Len(log) + 1
    /\ cleared' = Len(log)
    /\ UNCHANGED <<logVars, readerVars>>

-----------------------------------------------------------------------------
(* What the server reads *)

WantedCategory(cat) == Filter = {} \/ cat \in Filter

WantedChange(i) == WantedCategory(log[i].category)

IsRow(i) == log[i].kind # "conflict"

\* The records table has the category of the current row of e.
Wanted(e) ==
    \E i \in DOMAIN log : /\ log[i].entity = e /\ IsRow(i)
                          /\ log[i].revision = head[e].revision
                          /\ WantedChange(i)

\* The sequence of the current row of e is not beyond a bound.
RowUpTo(e, upper) == \A i \in DOMAIN log : log[i].entity = e /\ IsRow(i) => i <= upper

\* Retained changes that have a wanted category themselves, after one number and up to
\* another; they are listed by their numbers.
ListChanges(after, upper) ==
    {i \in DOMAIN log : i > cleared /\ i > after /\ i <= upper /\ WantedChange(i)}

Number == [i \in DOMAIN log |-> i]

\* What comes last of rows listed by place, and the first rows up to a limit.
LastOf(rows, place) == CHOOSE r \in rows : \A q \in rows : place[q] <= place[r]

FirstOf(rows, place, limit) ==
    {r \in rows : Cardinality({q \in rows : place[q] < place[r]}) < limit}

\* Where the cursor's next page ends: a finished stretch is extended to the
\* present, an unfinished one keeps its bound.
Upper == IF cursor.sequence = cursor.upper THEN Len(log) ELSE cursor.upper

\* Mutants: the last page moves the cursor to the present instead of to the
\* bound of its stretch, or only to its last change; a page that is not the
\* last moves it to the change that told so.
NextSequenceAtPresent(rows, limit, upper) ==
    IF Cardinality(rows) > limit THEN LastOf(FirstOf(rows, Number, limit), Number) ELSE Len(log)
NextSequenceOfExtraRow(rows, limit, upper) ==
    IF Cardinality(rows) > limit THEN LastOf(FirstOf(rows, Number, limit + 1), Number) ELSE upper
NextSequenceOfLastRow(rows, limit, upper) ==
    IF rows = {} THEN 0 ELSE LastOf(FirstOf(rows, Number, limit), Number)

\* The position after a page: its last change, or all of the stretch.
NextSequence(rows, limit, upper) ==
    IF Cardinality(rows) > limit THEN LastOf(FirstOf(rows, Number, limit), Number) ELSE upper

\* Mutant: a cursor just below the floor has missed nothing, but is refused.
CursorRefusedAtFloor == cursor.epoch # epoch \/ cursor.sequence < floor

\* The cursor is of an earlier epoch (409) or reaches below the floor (410).
CursorRefused == cursor.epoch # epoch \/ cursor.sequence < floor - 1

RanksAfter(after, e) == KeyRank[e] > after

\* Mutant: rows that are tombstones are left out of a reconciliation.
DifferencesOfLiveRows(upper, after, known) ==
    {e \in Entity : /\ ~head[e].deleted
                    /\ Wanted(e) /\ RowUpTo(e, upper)
                    /\ RanksAfter(after, e)
                    /\ known[e] # head[e]}

\* Rows up to the bound that differ from what the reader says it knows.
Differences(upper, after, known) ==
    {e \in Entity : /\ Wanted(e) /\ RowUpTo(e, upper)
                    /\ RanksAfter(after, e)
                    /\ known[e] # head[e]}

-----------------------------------------------------------------------------
(* The reader's side *)

\* The copy of e once a page of changes is applied: newer revisions win.
Applied(page, e) ==
    LET newer == {i \in page : /\ log[i].entity = e /\ IsRow(i)
                               /\ log[i].revision > copy[e].revision}
        last == log[LastOf(newer, Number)]
    IN  IF newer = {}
        THEN copy[e]
        ELSE [revision |-> last.revision, deleted |-> last.kind = "tombstone"]

\* A reader without a usable cursor first takes the upper cursor of a pull,
\* and then reconciles everything it has.
TakeUpperCursor ==
    /\ mode = "start"
    /\ mode' = "reconcile"
    /\ cursor' = [epoch |-> epoch, sequence |-> Len(log), upper |-> Len(log)]
    /\ token' = NoToken
    /\ start' = Len(log)
    /\ received' = NoChanges
    /\ UNCHANGED <<serverVars, copy>>

\* A page of a reconciliation, and what its answer says of the next one.
Reconcile ==
    /\ mode = "reconcile"
    /\ token # NoToken => token.epoch = epoch
    /\ \E limit \in 1 .. PageLimit :
        LET request == IF token # NoToken
                       THEN token
                       ELSE [epoch |-> epoch, upper |-> Len(log), after |-> 0,
                             known |-> copy]
            differences == Differences(request.upper, request.after, request.known)
            page == FirstOf(differences, ListRank, limit)
        IN  /\ copy' = [e \in Entity |-> IF e \in page THEN head[e] ELSE copy[e]]
            /\ IF Cardinality(differences) > limit
               THEN /\ token' = [request EXCEPT !.after = KeyRank[LastOf(page, ListRank)]]
                    /\ UNCHANGED mode
               ELSE /\ token' = NoToken
                    /\ mode' = "pull"
    /\ UNCHANGED <<serverVars, cursor, start, received>>

\* A page of changes is applied and its cursor stored ...
Pull ==
    /\ mode = "pull"
    /\ ~CursorRefused
    /\ \E limit \in 1 .. PageLimit :
        LET rows == ListChanges(cursor.sequence, Upper)
            page == FirstOf(rows, Number, limit)
        IN  /\ copy' = [e \in Entity |-> Applied(page, e)]
            /\ cursor' = [epoch |-> epoch, sequence |-> NextSequence(rows, limit, Upper),
                          upper |-> Upper]
            /\ received' = [i \in DOMAIN received |->
                               received[i] + IF i \in page THEN 1 ELSE 0]
    /\ UNCHANGED <<serverVars, mode, token, start>>

\* ... or the reader stops between the two, and later asks for it again.
PullAndCrash ==
    /\ mode = "pull"
    /\ ~CursorRefused
    /\ \E limit \in 1 .. PageLimit :
        LET page == FirstOf(ListChanges(cursor.sequence, Upper), Number, limit)
        IN  copy' = [e \in Entity |-> Applied(page, e)]
    /\ UNCHANGED <<serverVars, mode, cursor, token, start, received>>

\* Told that its cursor or its page token is no longer good, it starts over.
StartOver ==
    /\ \/ mode = "pull" /\ CursorRefused
       \/ mode = "reconcile" /\ token # NoToken /\ token.epoch # epoch
    /\ mode' = "start"
    /\ UNCHANGED <<serverVars, cursor, token, copy, start, received>>

Read == TakeUpperCursor \/ Reconcile \/ Pull \/ StartOver

Next == Write \/ SetFloor \/ AdvanceEpoch \/ Read \/ PullAndCrash

Spec == Init /\ [][Next]_vars

\* The client polls (every 30 seconds at the latest) and goes on with what its
\* last answer left it to do.
FairSpec == Spec /\ WF_vars(Read)

-----------------------------------------------------------------------------
(* Properties *)

\* A cursor of the current epoch at n has handed out every wanted change up to
\* n exactly once and in order, however the pages were cut and whatever was
\* written meanwhile.
PagesExact ==
    cursor.epoch = epoch =>
        \A i \in DOMAIN received :
            received[i] = IF /\ start < i /\ i <= cursor.sequence
                             /\ WantedChange(i)
                          THEN 1 ELSE 0

\* A reader that pulls has every row of a wanted category that is not newer than its
\* cursor: nothing fell between the pages of a reconciliation, or between a
\* reconciliation and the cursor taken before it.  A row's category is its own: one
\* that a deletion put into another category is not wanted any more.
CopyReachesCursor ==
    mode = "pull" /\ cursor.epoch = epoch =>
        \A e \in Entity :
            Wanted(e) /\ RowUpTo(e, cursor.sequence) => copy[e] = head[e]

\* A record that a reader has, of a category it wants, and that was deleted before its
\* cursor, is deleted in its copy.  It holds while deletions name the category of what
\* they delete; one that names another refutes it: neither its changes nor a
\* reconciliation tell the reader.
DeletionsReachCursor ==
    mode = "pull" /\ cursor.epoch = epoch =>
        \A e \in Entity :
            /\ WantedCategory(CategoryOf[e]) /\ RowUpTo(e, cursor.sequence)
            /\ head[e].deleted /\ copy[e].revision > 0
            => copy[e].deleted

\* A cursor that stays in its epoch only moves forward.
CursorForward ==
    [][cursor'.epoch = cursor.epoch => cursor'.sequence >= cursor.sequence]_vars

\* When the writers rest, the reader comes to have every row of a wanted category.
InSync ==
    /\ mode = "pull"
    /\ cursor.epoch = epoch /\ cursor.sequence = Len(log)
    /\ \A e \in Entity : Wanted(e) => copy[e] = head[e]

CatchesUp == <>[]InSync

=============================================================================
