------------------------- MODULE ObjectUploadsProofs ------------------------
(***************************************************************************)
(* The safety properties of ObjectUploads hold for any number of uploads,  *)
(* parts, objects, references and requests, and whatever fails.            *)
(*                                                                         *)
(* The argument: an upload is only written by the request that holds its   *)
(* lock, and by those who found it past its time, after which it is not    *)
(* open again (OneHolder, StatusWhileHeld).  While a completion holds the  *)
(* lock its object is named by no other upload or completion               *)
(* (ObjectsOwned), so that completeUpload answered nobody with what it     *)
(* discards; and what cleanup has listed may go unless references came     *)
(* since (CleanerKnows).                                                   *)
(***************************************************************************)
EXTENDS ObjectUploads, FiniteSetTheorems, TLAPS

\* A request between its first and last step on an upload, with the lock of it,
Holding == InMemory \union {"store"}

Holds(r, u) == request[r].at \in Holding /\ request[r].upload = u

\* and one that has read its row.
OnUpload == Holding \union {"expire"}

\* What a request has read was so, and the parts have only become more since.
RequestsFit ==
    \A r \in Request :
        /\ request[r].at \in OnUpload =>
             /\ request[r].upload \in Upload
             /\ request[r].row.object = Nothing
             /\ request[r].row.status \in Begun
             /\ request[r].row.parts \subseteq uploads[request[r].upload].parts
             /\ uploads[request[r].upload].status # "none"
        /\ request[r].at = "expire" => request[r].upload \in late
        /\ request[r].at \in {"mark", "assemble"} => request[r].object = Nothing
        /\ request[r].at = "commit" => request[r].object \in Object
        /\ request[r].at \in InTransaction => request[r].reference \in Reference

\* Cleanup expires uploads past their time, which had the parts it read and have maybe
\* more; and it is at an object when it deletes one.
CleanerFits ==
    /\ \A u \in cleaner.unread : u \in late /\ uploads[u].status # "none"
    /\ \A x \in cleaner.read :
         /\ x.upload \in late
         /\ uploads[x.upload].status # "none"
         /\ x.row.parts \subseteq uploads[x.upload].parts
    /\ cleaner.at = "deleteParts" =>
         cleaner.expired \in ReadUpload /\ cleaner.expired.upload \in late
    /\ cleaner.at \in {"delete", "deleteRow"} => cleaner.object \in Object

\* The lock of an upload has one holder.
OneHolder ==
    \A q, r \in Request :
        request[q].at \in Holding /\ request[r].at \in Holding
            /\ request[q].upload = request[r].upload => q = r

\* Before its time is over, an upload that is held has the status its holder left it
\* with; what is to reopen may have been committed after all.
StatusWhileHeld ==
    \A r \in Request :
        LET u == request[r].upload IN
            /\ request[r].at \in {"store", "record", "mark", "assemble", "commit", "cancel"}
                 /\ u \notin late => uploads[u].status \in Begun
            /\ request[r].at = "reopen" /\ u \notin late =>
                 uploads[u].status \in Begun \union {"complete"}
            /\ request[r].at = "deleteParts" => uploads[u].status \notin Begun

\* An upload that may still be completed has not been answered with an object; one
\* that is complete only with its own.
AnswersFit ==
    /\ \A u \in Upload :
         /\ uploads[u].status \in Begun \union {"none"} => answered[u] = {}
         /\ uploads[u].status = "complete" => answered[u] \subseteq {uploads[u].object}
         /\ \E o : answered[u] \subseteq {o}
    /\ \A r \in Request : request[r].at \in Holding \ {"deleteParts", "discard"} =>
         answered[request[r].upload] = {}

\* The parts of an upload that can begin, go on, or be reopened, are there.
PartsAreThere ==
    \A u \in Upload \ late :
        /\ uploads[u].status \in Begun \union {"none"} \/ (\E r \in Request : Holds(r, u) /\ request[r].at = "reopen")
             => uploads[u].parts \subseteq partBlobs[u]
        /\ \A r \in Request : Holds(r, u) /\ request[r].at = "record" =>
             request[r].part \subseteq partBlobs[u]

Counted == Active \ reopened

\* Who is to insert an upload has counted, and alone.
CountHolds ==
    /\ IsFiniteSet(Active) /\ Cardinality(Counted) <= MaxTransfers
    /\ \A r \in Request : request[r].at = "insert" => Cardinality(Counted) < MaxTransfers
    /\ \A q, r \in Request : request[q].at = "insert" /\ request[r].at = "insert" => q = r

\* An object that is being committed or discarded.
Owned(r) == request[r].at \in {"commit", "reopen", "discard"} /\ request[r].object # Nothing

\* It belongs to one completion: no other request has it, no other upload names it,
\* in its row or as cleanup read it, and completeUpload answered nobody with it.
ObjectsOwned ==
    /\ \A u \in Upload :
         /\ answered[u] \subseteq taken
         /\ uploads[u].object \in taken \union {Nothing}
    /\ \A x \in cleaner.read : x.row.object \in taken \union {Nothing}
    /\ \A r \in Request : Owned(r) =>
         /\ request[r].object \in taken
         /\ \A u \in Upload : request[r].object \notin answered[u]
         /\ \A u \in Upload : uploads[u].object = request[r].object => u = request[r].upload
         /\ \A x \in cleaner.read :
              x.row.object = request[r].object => x.upload = request[r].upload
         /\ \A q \in Request : Owned(q) /\ request[q].object = request[r].object => q = r

\* The object that cleanup is about to delete.
Chosen == IF cleaner.at = "delete" THEN {cleaner.object} ELSE {}

\* What cleanup has listed may go, unless references changed since.
CleanerKnows ==
    /\ \A o \in Object : objects[o].exists => o \in taken
    /\ \A r \in Request : request[r].at = "commit" => ~objects[request[r].object].exists
    /\ cleaner.at \in {"delete", "deleteRow"} => cleaner.object \notin cleaner.listed
    /\ cleaner.at \in {"look", "delete", "deleteRow"} =>
         \A o \in cleaner.listed \union Chosen :
             /\ objects[o].exists
             /\ o \notin cleaner.overtaken =>
                  objects[o].unreferenced = "long" /\ ~objects[o].retained
    /\ \A o \in Chosen \ cleaner.overtaken : o \notin Referred(references)

IInv ==
    /\ TypeOK
    /\ RequestsFit
    /\ CleanerFits
    /\ OneHolder
    /\ StatusWhileHeld
    /\ AnswersFit
    /\ PartsAreThere
    /\ CountHolds
    /\ ObjectsOwned
    /\ CleanerKnows

-----------------------------------------------------------------------------
(* How requests move *)

\* The rows that uploads, requests and the cleanup start from.
LEMMA Rows ==
    /\ NoUpload \in UploadRow /\ NoObject \in ObjectRow
    /\ Idle \in RequestRow /\ Resting \in CleanerRow
<1>1. NoUpload \in UploadRow
  BY DEF NoUpload, UploadRow
<1>2. NoObject \in ObjectRow
  BY DEF NoObject, ObjectRow
<1>3. Idle \in RequestRow
  BY <1>1 DEF Idle, RequestRow, Stage
<1>4. Resting \in CleanerRow
  BY DEF Resting, CleanerRow
<1> QED BY <1>1, <1>2, <1>3, <1>4

\* Row r is what a request starts with that has read an upload.
ReadsAs(row, u, at) ==
    /\ row \in RequestRow
    /\ row.at = at /\ row.upload = u /\ row.row = uploads[u] /\ row.object = Nothing

\* What a request that has read an upload holds, putPart with the part it brings.
LEMMA ReadingFields ==
    ASSUME TypeOK, NEW u \in Upload, NEW at \in {"expire", "store", "mark", "cancel"}
    PROVE  /\ ReadsAs(Reading(u, at), u, at)
           /\ \A n \in SUBSET Part : ReadsAs([Reading(u, at) EXCEPT !.part = n], u, at)
<1>1. uploads[u] \in UploadRow
  BY DEF TypeOK
<1>2. at \in Stage
  BY DEF Stage, InMemory
<1>3. ReadsAs(Reading(u, at), u, at)
  BY <1>1, <1>2, Rows DEF Reading, Idle, RequestRow, ReadsAs
<1>4. ASSUME NEW n \in SUBSET Part
      PROVE  ReadsAs([Reading(u, at) EXCEPT !.part = n], u, at)
  BY <1>3 DEF RequestRow, ReadsAs
<1> QED BY <1>3, <1>4

\* A request begins on an upload that it read as it is.
Begins(r, u, at) ==
    /\ request[r].at = "idle"
    /\ request'[r] \in RequestRow
    /\ request'[r].at = at
    /\ request'[r].upload = u
    /\ request'[r].row = uploads[u]
    /\ request'[r].object = Nothing

\* A request goes on with what it has.
GoesOn(r, from, to) ==
    /\ request[r].at = from
    /\ request'[r].at = to
    /\ request'[r].upload = request[r].upload
    /\ request'[r].row = request[r].row
    /\ request'[r].part = request[r].part

\* Every step of a request, by what becomes of its row.
Moves(r) ==
    \/ CountActive(r) /\ request'[r] = [Idle EXCEPT !.at = "insert"]
    \/ /\ request[r].at \in {"idle"} \union InTransaction /\ request'[r].at \in InTransaction
       /\ \/ request'[r].reference \in Reference
          \/ request[r].at # "idle" /\ request'[r].reference = request[r].reference
    \/ FindExpired(r) /\ \E u \in late : uploads[u].status \in Begun /\ Begins(r, u, "expire")
    \/ \E u \in Upload : PutPart(r) /\ ~Locked(u) /\ Open(u) /\ Begins(r, u, "store")
    \/ \E u \in Upload : BeginCompletion(r) /\ ~Locked(u) /\ Open(u) /\ Begins(r, u, "mark")
    \/ \E u \in Upload :
         BeginCancel(r) /\ ~Locked(u) /\ uploads[u].status \in Begun /\ Begins(r, u, "cancel")
    \/ StorePart(r) /\ GoesOn(r, "store", "record") /\ request'[r].object = request[r].object
    \/ MarkCompleting(r) /\ GoesOn(r, "mark", "assemble")
         /\ request'[r].object = request[r].object
    \/ Assemble(r) /\ GoesOn(r, "assemble", "commit") /\ request'[r].object \in Object \ taken
    \/ AssembleFails(r) /\ GoesOn(r, "assemble", "reopen")
         /\ request'[r].object = request[r].object
    \/ Commit(r) /\ GoesOn(r, "commit", "deleteParts")
         /\ request'[r].object = request[r].object
    \/ CommitFails(r) /\ GoesOn(r, "commit", "reopen")
         /\ request'[r].object = request[r].object
    \/ Reopen(r) /\ GoesOn(r, "reopen", "discard")
         /\ request'[r].object = request[r].object
    \/ WriteCancelled(r) /\ GoesOn(r, "cancel", "deleteParts")
         /\ request'[r].object = request[r].object

\* A row with a stage, or an object, of its kind.
LEMMA RowWith ==
    ASSUME NEW row \in RequestRow
    PROVE  /\ \A v \in Stage : [row EXCEPT !.at = v] \in RequestRow
           /\ \A v \in Object : [row EXCEPT !.object = v] \in RequestRow
           /\ \A v \in Reference : [row EXCEPT !.reference = v] \in RequestRow
           /\ \A v \in Upload : [row EXCEPT !.upload = v] \in RequestRow
           /\ \A v \in UploadRow : [row EXCEPT !.row = v] \in RequestRow
           /\ \A v \in SUBSET Part : [row EXCEPT !.part = v] \in RequestRow
           /\ \A v \in SUBSET Object : [row EXCEPT !.names = v] \in RequestRow
           /\ \A v \in SUBSET Object : [row EXCEPT !.left = v] \in RequestRow
BY DEF RequestRow

\* A step of one request leaves the others, and moves it in one of these ways.
LEMMA OneMoves ==
    ASSUME TypeOK, [Next]_vars
    PROVE  /\ request' \in [Request -> RequestRow]
           /\ \/ UNCHANGED request
              \/ \E r \in Request :
                   /\ \A q \in Request \ {r} : request'[q] = request[q]
                   /\ request'[r] = Idle \/ Moves(r)
<1> DEFINE Others(r) == \A q \in Request \ {r} : request'[q] = request[q]
           Good(r) == /\ request' \in [Request -> RequestRow]
                      /\ Others(r) /\ (request'[r] = Idle \/ Moves(r))
<1>0. /\ request \in [Request -> RequestRow] /\ uploads \in [Upload -> UploadRow]
      /\ late \subseteq Upload /\ references \in [Reference -> SUBSET Object]
      /\ found \in [Request -> SUBSET Object]
  BY DEF TypeOK
<1>a. ASSUME NEW r \in Request, NEW from, NEW row \in RequestRow, Step(r, from, row)
      PROVE  /\ request' \in [Request -> RequestRow]
             /\ Others(r)
             /\ request[r].at = from /\ request'[r] = row
  BY <1>0, <1>a DEF Step
<1>b. ASSUME NEW r \in Request, NEW u, NEW at, NEW row, ReadsAs(row, u, at), Start(r, row)
      PROVE  request' \in [Request -> RequestRow] /\ Others(r) /\ Begins(r, u, at)
  <2>1. row \in RequestRow /\ Step(r, "idle", row)
    BY <1>b DEF ReadsAs, Start
  <2>2. /\ request' \in [Request -> RequestRow] /\ Others(r)
        /\ request[r].at = "idle" /\ request'[r] = row
    BY <1>a, <2>1
  <2> QED BY <1>b, <2>1, <2>2 DEF ReadsAs, Begins
<1>c. ASSUME NEW r \in Request, NEW from,
             NEW to \in Stage,
             Step(r, from, [request[r] EXCEPT !.at = to])
      PROVE  /\ request' \in [Request -> RequestRow] /\ Others(r) /\ GoesOn(r, from, to)
             /\ request'[r].object = request[r].object
  <2>1. [request[r] EXCEPT !.at = to] \in RequestRow /\ request[r] \in RequestRow
    BY <1>0, RowWith
  <2>2. /\ [request[r] EXCEPT !.at = to].at = to
        /\ [request[r] EXCEPT !.at = to].upload = request[r].upload
        /\ [request[r] EXCEPT !.at = to].row = request[r].row
        /\ [request[r] EXCEPT !.at = to].part = request[r].part
        /\ [request[r] EXCEPT !.at = to].object = request[r].object
    BY <2>1 DEF RequestRow
  <2> QED BY <1>a, <1>c, <2>1, <2>2 DEF GoesOn
<1>d. \A v \in {"insert", "commit"} \union InTransaction : v \in Stage
  BY DEF Stage, InMemory, InTransaction
<1>e. ASSUME NEW r \in Request, NEW from \in {"idle"} \union InTransaction,
             NEW row \in RequestRow, row.at \in InTransaction, Step(r, from, row),
             row.reference \in Reference \/ (from # "idle" /\ row.reference = request[r].reference)
      PROVE  Good(r)
  BY <1>a, <1>e DEF Moves
<1>1. ASSUME NEW r \in Request, CountActive(r) PROVE Good(r)
  <2>1. [Idle EXCEPT !.at = "insert"] \in RequestRow
    BY <1>d, Rows, RowWith
  <2> QED BY <1>1, <1>a, <2>1 DEF CountActive, Start, Moves
<1>2. ASSUME NEW r \in Request,
             \/ BeginReference(r) \/ RemoveReferences(r) \/ BeginRemoval(r)
             \/ PutReferences(r) \/ DeleteReferences(r)
      PROVE  Good(r)
  <2>1. CASE BeginReference(r)
    <3>1. PICK n \in Reference, names \in SUBSET Object :
            Start(r, [Idle EXCEPT !.at = "remove", !.reference = n, !.names = names,
                                  !.left = references[n] \ names])
      BY <2>1 DEF BeginReference
    <3>2. PICK left \in SUBSET Object : left = references[n] \ names
      BY <1>0
    <3> DEFINE row == [Idle EXCEPT !.at = "remove", !.reference = n, !.names = names,
                                   !.left = left]
    <3>3. row \in RequestRow
      BY <1>d, Rows, RowWith DEF InTransaction
    <3>4. row.at = "remove" /\ row.reference = n
      BY DEF Idle
    <3>5. Step(r, "idle", row)
      BY <3>1, <3>2 DEF Start
    <3> HIDE DEF row
    <3> QED BY <1>e, <3>3, <3>4, <3>5 DEF InTransaction
  <2>2. CASE RemoveReferences(r)
    <3>1. Step(r, "remove", [request[r] EXCEPT !.at = "put"])
      BY <2>2 DEF RemoveReferences
    <3>2. [request[r] EXCEPT !.at = "put"] \in RequestRow
      BY <1>0, <1>d, RowWith DEF InTransaction
    <3>3. /\ [request[r] EXCEPT !.at = "put"].at = "put"
          /\ [request[r] EXCEPT !.at = "put"].reference = request[r].reference
      <4>1. request[r] \in RequestRow
        BY <1>0
      <4> QED BY <4>1 DEF RequestRow
    <3> QED BY <1>e, <3>1, <3>2, <3>3 DEF InTransaction
  <2>3. CASE BeginRemoval(r)
    <3>1. PICK n \in Reference : Start(r, [Idle EXCEPT !.at = "delete", !.reference = n])
      BY <2>3 DEF BeginRemoval
    <3> DEFINE row == [Idle EXCEPT !.at = "delete", !.reference = n]
    <3>2. row \in RequestRow
      BY <1>d, Rows, RowWith DEF InTransaction
    <3>3. row.at = "delete" /\ row.reference = n /\ Step(r, "idle", row)
      BY <3>1 DEF Idle, Start
    <3> HIDE DEF row
    <3> QED BY <1>e, <3>2, <3>3 DEF InTransaction
  <2>4. ASSUME NEW from \in InTransaction, NEW left \in SUBSET Object,
               Step(r, from, [request[r] EXCEPT !.at = "write", !.left = left])
        PROVE  Good(r)
    <3> DEFINE row == [request[r] EXCEPT !.at = "write", !.left = left]
    <3>1. request[r] \in RequestRow
      BY <1>0
    <3>2. row \in RequestRow
      BY <1>d, <3>1, RowWith DEF InTransaction
    <3>3. row.at = "write" /\ row.reference = request[r].reference
      BY <3>1 DEF RequestRow
    <3>4. Step(r, from, row)
      BY <2>4
    <3> HIDE DEF row
    <3> QED BY <1>e, <3>2, <3>3, <3>4 DEF InTransaction
  <2>5. CASE PutReferences(r)
    <3>1. PICK left \in SUBSET Object : left = request[r].left \ Referred(SeenBy(r))
      BY <1>0 DEF RequestRow
    <3>2. Step(r, "put", [request[r] EXCEPT !.at = "write", !.left = left])
      BY <2>5, <3>1 DEF PutReferences
    <3> QED BY <2>4, <3>2 DEF InTransaction
  <2>6. CASE DeleteReferences(r)
    <3>1. PICK left \in SUBSET Object : left = found[r] \ Referred(SeenBy(r))
      BY <1>0
    <3>2. Step(r, "delete", [request[r] EXCEPT !.at = "write", !.left = left])
      BY <2>6, <3>1 DEF DeleteReferences
    <3> QED BY <2>4, <3>2 DEF InTransaction
  <2> QED BY <1>2, <2>1, <2>2, <2>3, <2>5, <2>6
<1>3. ASSUME NEW r \in Request, FindExpired(r) PROVE Good(r)
  <2>1. PICK u \in late : uploads[u].status \in Begun /\ Start(r, Reading(u, "expire"))
    BY <1>3 DEF FindExpired
  <2>2. Begins(r, u, "expire") /\ request' \in [Request -> RequestRow] /\ Others(r)
    BY <1>0, <1>b, <2>1, ReadingFields
  <2> QED BY <1>3, <2>1, <2>2 DEF Moves
<1>4. ASSUME NEW r \in Request, PutPart(r) PROVE Good(r)
  <2>1. PICK u \in Upload : \E n \in Part \ uploads[u].parts :
          ~Locked(u) /\ Open(u) /\ Start(r, [Reading(u, "store") EXCEPT !.part = {n}])
    BY <1>4 DEF PutPart
  <2>2. Begins(r, u, "store") /\ request' \in [Request -> RequestRow] /\ Others(r)
    <3>1. PICK n \in Part : Start(r, [Reading(u, "store") EXCEPT !.part = {n}])
      BY <2>1
    <3>2. ReadsAs([Reading(u, "store") EXCEPT !.part = {n}], u, "store")
      BY ReadingFields
    <3> QED BY <1>b, <3>1, <3>2
  <2> QED BY <1>4, <2>1, <2>2 DEF Moves
<1>5. ASSUME NEW r \in Request, BeginCompletion(r) PROVE Good(r)
  <2>1. PICK u \in Upload : ~Locked(u) /\ Open(u) /\ Start(r, Reading(u, "mark"))
    BY <1>5 DEF BeginCompletion
  <2>2. Begins(r, u, "mark") /\ request' \in [Request -> RequestRow] /\ Others(r)
    BY <1>b, <2>1, ReadingFields
  <2> QED BY <1>5, <2>1, <2>2 DEF Moves
<1>6. ASSUME NEW r \in Request, BeginCancel(r) PROVE Good(r)
  <2>1. PICK u \in Upload :
          ~Locked(u) /\ uploads[u].status \in Begun /\ Start(r, Reading(u, "cancel"))
    BY <1>6 DEF BeginCancel
  <2>2. Begins(r, u, "cancel") /\ request' \in [Request -> RequestRow] /\ Others(r)
    BY <1>b, <2>1, ReadingFields
  <2> QED BY <1>6, <2>1, <2>2 DEF Moves
<1>7. ASSUME NEW r \in Request, Assemble(r) PROVE Good(r)
  <2>1. PICK o \in Object \ taken :
          Step(r, "assemble", [request[r] EXCEPT !.at = "commit", !.object = o])
    BY <1>7 DEF Assemble
  <2>2. [request[r] EXCEPT !.at = "commit", !.object = o] \in RequestRow
    BY <1>0, <1>d, RowWith
  <2>3. LET row == [request[r] EXCEPT !.at = "commit", !.object = o] IN
          /\ row.at = "commit" /\ row.object = o /\ row.upload = request[r].upload
          /\ row.row = request[r].row /\ row.part = request[r].part
    <3>1. request[r] \in RequestRow
      BY <1>0
    <3> QED BY <3>1 DEF RequestRow
  <2>4. /\ request' \in [Request -> RequestRow] /\ Others(r)
        /\ request[r].at = "assemble"
        /\ request'[r] = [request[r] EXCEPT !.at = "commit", !.object = o]
    BY <1>a, <2>1, <2>2
  <2>5. GoesOn(r, "assemble", "commit") /\ request'[r].object \in Object \ taken
    BY <2>3, <2>4 DEF GoesOn
  <2> QED BY <1>7, <2>4, <2>5 DEF Moves
<1>8. ASSUME NEW r \in Request,
             \/ StorePart(r) \/ MarkCompleting(r) \/ AssembleFails(r) \/ Commit(r)
             \/ CommitFails(r) \/ Reopen(r) \/ WriteCancelled(r)
      PROVE  Good(r)
  BY <1>8, <1>c DEF StorePart, MarkCompleting, AssembleFails, Commit, CommitFails, Reopen,
                    WriteCancelled, Moves, Stage, InMemory
<1>9. ASSUME NEW r \in Request,
             \/ InsertUpload(r) \/ WriteExpired(r) \/ RecordPart(r) \/ Discard(r)
             \/ DeleteParts(r) \/ CommitReferences(r)
      PROVE  Good(r)
  BY <1>9, <1>a, Rows DEF InsertUpload, WriteExpired, RecordPart, Discard, DeleteParts,
                          CommitReferences
<1>10. ASSUME NEW r \in Request, Fail(r) PROVE Good(r)
  BY <1>10, <1>0, Rows DEF Fail
<1>11. ASSUME \/ \E r \in Request : AnswerAgain(r)
              \/ \E u \in Upload : TimeToLive(u)
              \/ \E o \in Object : GraceEnds(o) \/ RetentionEnds(o)
              \/ ListExpired \/ ReadListed \/ ExpireUpload \/ DeleteExpiredParts
              \/ ListObjects \/ Look \/ DeleteBlob \/ DeleteRow \/ EndCleanup
              \/ UNCHANGED vars
       PROVE  UNCHANGED request
  BY <1>11 DEF AnswerAgain, TimeToLive, GraceEnds, RetentionEnds, ListExpired, ReadListed,
               ExpireUpload, DeleteExpiredParts, ListObjects, Look, DeleteBlob, DeleteRow,
               EndCleanup, vars
<1> QED BY <1>0, <1>1, <1>2, <1>3, <1>4, <1>5, <1>6, <1>7, <1>8, <1>9, <1>10, <1>11 DEF Next

-----------------------------------------------------------------------------
(* Which action writes which variable *)

\* What no action of a group names stays as it is.
LEMMA Writers ==
    ASSUME [Next]_vars
    PROVE  /\ \/ UNCHANGED uploads
              \/ \E r \in Request :
                   \/ InsertUpload(r) \/ WriteExpired(r) \/ RecordPart(r) \/ MarkCompleting(r)
                   \/ Commit(r) \/ CommitFails(r) \/ Reopen(r) \/ WriteCancelled(r)
              \/ ExpireUpload
           /\ \/ UNCHANGED late
              \/ \E u \in Upload : TimeToLive(u)
           /\ \/ UNCHANGED partBlobs
              \/ \E r \in Request : StorePart(r) \/ DeleteParts(r)
              \/ DeleteExpiredParts
           /\ \/ UNCHANGED objects
              \/ \E r \in Request :
                   Commit(r) \/ CommitFails(r) \/ CommitReferences(r)
              \/ \E o \in Object : GraceEnds(o) \/ RetentionEnds(o)
              \/ DeleteRow
           /\ \/ UNCHANGED blobs
              \/ \E r \in Request : Assemble(r) \/ Discard(r)
              \/ DeleteBlob
           /\ \/ UNCHANGED references
              \/ \E r \in Request : CommitReferences(r)
              \/ DeleteRow
           /\ \/ UNCHANGED found
              \/ \E r \in Request :
                   RemoveReferences(r) \/ BeginRemoval(r) \/ CommitReferences(r) \/ Fail(r)
           /\ \/ UNCHANGED cleaner
              \/ \E r \in Request : CommitReferences(r)
              \/ ListExpired \/ ReadListed \/ ExpireUpload \/ DeleteExpiredParts \/ ListObjects
              \/ Look \/ DeleteBlob \/ DeleteRow \/ EndCleanup
           /\ \/ UNCHANGED answered
              \/ \E r \in Request : AnswerAgain(r) \/ Commit(r)
           /\ \/ UNCHANGED taken
              \/ \E r \in Request : Assemble(r)
           /\ \/ UNCHANGED reopened
              \/ \E r \in Request : Reopen(r)
BY ZenonT(60)
   DEF Next, vars, rows, history, CountActive, InsertUpload, TimeToLive, FindExpired, WriteExpired,
       PutPart, StorePart, RecordPart, AnswerAgain, BeginCompletion, MarkCompleting, Assemble,
       AssembleFails, Commit, CommitFails, Reopen, Discard, DeleteParts, BeginCancel,
       WriteCancelled, BeginReference, RemoveReferences, BeginRemoval, PutReferences,
       DeleteReferences, CommitReferences, Fail, GraceEnds, RetentionEnds, ListExpired,
       ReadListed, ExpireUpload, DeleteExpiredParts, ListObjects, Look, DeleteBlob, DeleteRow,
       EndCleanup

\* An upload's row, with what a request writes into it.
LEMMA UploadWith ==
    ASSUME NEW row \in UploadRow
    PROVE  /\ \A v \in {"none", "open", "completing", "complete", "cancelled", "expired"} :
                /\ [row EXCEPT !.status = v] \in UploadRow
                /\ [row EXCEPT !.status = v].status = v
                /\ [row EXCEPT !.status = v].parts = row.parts
                /\ [row EXCEPT !.status = v].object = row.object
           /\ \A v \in SUBSET Part :
                /\ [row EXCEPT !.parts = v] \in UploadRow
                /\ [row EXCEPT !.parts = v].status = row.status
                /\ [row EXCEPT !.parts = v].parts = v
                /\ [row EXCEPT !.parts = v].object = row.object
           /\ \A v \in Object \union {Nothing} :
                /\ [row EXCEPT !.object = v] \in UploadRow
                /\ [row EXCEPT !.object = v].status = row.status
                /\ [row EXCEPT !.object = v].parts = row.parts
                /\ [row EXCEPT !.object = v].object = v
BY DEF UploadRow

\* A row that is written back has the caller's status, and the parts of both.
LEMMA WrittenBack ==
    ASSUME uploads \in [Upload -> UploadRow], NEW u \in Upload, NEW row \in UploadRow,
           UpdateUpload(u, row)
    PROVE  /\ uploads' \in [Upload -> UploadRow]
           /\ \A v \in Upload \ {u} : uploads'[v] = uploads[v]
           /\ uploads'[u].status = row.status
           /\ uploads'[u].object = row.object
           /\ uploads'[u].parts = row.parts \union uploads[u].parts
<1> DEFINE new == [row EXCEPT !.parts = @ \union uploads[u].parts]
<1>1. PICK parts \in SUBSET Part : parts = row.parts \union uploads[u].parts
  BY DEF UploadRow
<1>2. /\ new \in UploadRow /\ new.status = row.status /\ new.object = row.object
      /\ new.parts = row.parts \union uploads[u].parts
  <2>1. new = [row EXCEPT !.parts = parts]
    BY <1>1
  <2>2. LET n == [row EXCEPT !.parts = parts] IN
          n \in UploadRow /\ n.status = row.status /\ n.object = row.object /\ n.parts = parts
    BY DEF UploadRow
  <2> QED BY <1>1, <2>1, <2>2
<1>3. uploads' = [uploads EXCEPT ![u] = new]
  BY DEF UpdateUpload
<1> HIDE DEF new
<1> QED BY <1>2, <1>3

\* What an action makes of the one upload it writes.
Becomes(u, status, parts, object) ==
    /\ uploads' \in [Upload -> UploadRow]
    /\ \A v \in Upload \ {u} : uploads'[v] = uploads[v]
    /\ uploads'[u].status = status
    /\ uploads'[u].parts = parts
    /\ uploads'[u].object = object

\* Every way in which an upload's row changes.
Written(u) ==
    \/ /\ uploads[u].status = "none"
       /\ Becomes(u, "open", uploads[u].parts, uploads[u].object)
       /\ \E r \in Request : InsertUpload(r)
    \/ /\ u \in late
       /\ uploads[u].status # "none"
       /\ \/ Becomes(u, "expired", uploads[u].parts, Nothing)
          \/ \E x \in cleaner.read :
               x.upload = u /\ Becomes(u, "expired", uploads[u].parts, x.row.object)
    \/ \E r \in Request :
         /\ Holds(r, u)
         /\ \/ /\ RecordPart(r) /\ request[r].at = "record"
               /\ Becomes(u, request[r].row.status, uploads[u].parts \union request[r].part, Nothing)
            \/ /\ MarkCompleting(r) /\ request[r].at = "mark"
               /\ Becomes(u, "completing", uploads[u].parts, Nothing)
            \/ /\ Reopen(r) /\ request[r].at = "reopen"
               /\ Becomes(u, "open", uploads[u].parts, Nothing)
            \/ /\ WriteCancelled(r) /\ request[r].at = "cancel"
               /\ Becomes(u, "cancelled", uploads[u].parts, Nothing)
            \/ /\ Commit(r) \/ CommitFails(r)
               /\ request[r].at = "commit"
               /\ uploads[u].status = "completing"
               /\ Becomes(u, "complete", uploads[u].parts, request[r].object)

\* A step writes no upload or one.
LEMMA UploadsWritten ==
    ASSUME TypeOK, RequestsFit, CleanerFits, [Next]_vars
    PROVE  UNCHANGED uploads \/ \E u \in Upload : Written(u)
<1>0. /\ uploads \in [Upload -> UploadRow] /\ request \in [Request -> RequestRow]
      /\ late \subseteq Upload /\ cleaner \in CleanerRow
      /\ \A u \in Upload : uploads[u] \in UploadRow
  BY DEF TypeOK
<1>a. ASSUME NEW r \in Request, request[r].at \in OnUpload
      PROVE  /\ request[r].upload \in Upload
             /\ request[r].row \in UploadRow
             /\ request[r].row.object = Nothing
             /\ request[r].row.parts \subseteq uploads[request[r].upload].parts
             /\ request[r].part \in SUBSET Part
             /\ uploads[request[r].upload].status # "none"
  BY <1>0, <1>a DEF RequestsFit, RequestRow
<1>b. ASSUME NEW r \in Request, NEW status \in {"none", "open", "completing", "complete", "cancelled", "expired"},
             request[r].at \in OnUpload,
             UpdateUpload(request[r].upload, [request[r].row EXCEPT !.status = status])
      PROVE  Becomes(request[r].upload, status, uploads[request[r].upload].parts, Nothing)
  <2>1. PICK u \in Upload : u = request[r].upload
    BY <1>a, <1>b
  <2>2. PICK row \in UploadRow : row = [request[r].row EXCEPT !.status = status]
    BY <1>a, <1>b, UploadWith
  <2>3. row.status = status /\ row.object = Nothing /\ row.parts \subseteq uploads[u].parts
    BY <1>a, <1>b, <2>1, <2>2, UploadWith
  <2>4. UpdateUpload(u, row)
    BY <1>b, <2>1, <2>2
  <2>5. row.parts \union uploads[u].parts = uploads[u].parts
    BY <2>3
  <2>6. Becomes(u, status, uploads[u].parts, Nothing)
    BY <1>0, <2>3, <2>4, <2>5, WrittenBack DEF Becomes
  <2> QED BY <2>1, <2>6
<1>1. ASSUME NEW r \in Request, InsertUpload(r) PROVE \E u \in Upload : Written(u)
  <2>1. PICK u \in Upload : uploads[u].status = "none" /\ uploads' = [uploads EXCEPT ![u].status = "open"]
    BY <1>1 DEF InsertUpload
  <2>2. PICK row \in UploadRow : row = [uploads[u] EXCEPT !.status = "open"]
    BY <1>0, UploadWith
  <2>3. row.status = "open" /\ row.parts = uploads[u].parts /\ row.object = uploads[u].object
    BY <1>0, <2>2, UploadWith
  <2>4. uploads' = [uploads EXCEPT ![u] = row]
    BY <2>1, <2>2
  <2>5. Becomes(u, "open", uploads[u].parts, uploads[u].object)
    BY <1>0, <2>3, <2>4 DEF Becomes
  <2> QED BY <1>1, <2>1, <2>5 DEF Written
<1>2. ASSUME NEW r \in Request, WriteExpired(r) PROVE \E u \in Upload : Written(u)
  <2>1. request[r].at = "expire"
    BY <1>2 DEF WriteExpired, Step
  <2>2. Becomes(request[r].upload, "expired", uploads[request[r].upload].parts, Nothing)
    BY <1>2, <1>b, <2>1 DEF WriteExpired, OnUpload
  <2>3. request[r].upload \in late /\ uploads[request[r].upload].status # "none"
    BY <2>1 DEF RequestsFit, OnUpload
  <2> QED BY <1>0, <2>2, <2>3 DEF Written
<1>3. ASSUME NEW r \in Request, RecordPart(r) PROVE \E u \in Upload : Written(u)
  <2>1. request[r].at = "record" /\ request[r].at \in Holding
    BY <1>3 DEF RecordPart, Step, Holding, InMemory
  <2>2. PICK u \in Upload : u = request[r].upload
    BY <1>a, <2>1 DEF OnUpload
  <2>3. PICK row \in UploadRow : row = [request[r].row EXCEPT !.parts = @ \union request[r].part]
    <3>1. request[r].row.parts \union request[r].part \in SUBSET Part
      BY <1>a, <2>1 DEF OnUpload, UploadRow
    <3> QED BY <1>a, <2>1, <3>1, UploadWith DEF OnUpload
  <2>4. /\ row.status = request[r].row.status /\ row.object = Nothing
        /\ row.parts = request[r].row.parts \union request[r].part
    <3>1. request[r].row.parts \union request[r].part \in SUBSET Part
      BY <1>a, <2>1 DEF OnUpload, UploadRow
    <3> QED BY <1>a, <2>1, <2>3, <3>1, UploadWith DEF OnUpload
  <2>5. UpdateUpload(u, row)
    BY <1>3, <2>2, <2>3 DEF RecordPart
  <2>6. request[r].row.parts \subseteq uploads[u].parts
    BY <1>a, <2>1, <2>2 DEF OnUpload
  <2>7. /\ uploads' \in [Upload -> UploadRow]
        /\ \A v \in Upload \ {u} : uploads'[v] = uploads[v]
        /\ uploads'[u].status = row.status
        /\ uploads'[u].object = row.object
        /\ uploads'[u].parts = row.parts \union uploads[u].parts
    BY <1>0, <2>5, WrittenBack
  <2>8. row.parts \union uploads[u].parts = uploads[u].parts \union request[r].part
    BY <2>4, <2>6
  <2>9. Becomes(u, request[r].row.status, uploads[u].parts \union request[r].part, Nothing)
    BY <2>4, <2>7, <2>8 DEF Becomes
  <2> QED BY <1>3, <2>1, <2>2, <2>9 DEF Written, Holds
<1>4. ASSUME NEW r \in Request, MarkCompleting(r) PROVE \E u \in Upload : Written(u)
  <2>1. request[r].at = "mark" /\ request[r].at \in Holding
    BY <1>4 DEF MarkCompleting, Step, Holding, InMemory
  <2>2. Becomes(request[r].upload, "completing", uploads[request[r].upload].parts, Nothing)
    BY <1>4, <1>b, <2>1 DEF MarkCompleting, OnUpload
  <2> QED BY <1>4, <1>a, <2>1, <2>2 DEF Written, Holds, OnUpload
<1>5. ASSUME NEW r \in Request, WriteCancelled(r) PROVE \E u \in Upload : Written(u)
  <2>1. request[r].at = "cancel" /\ request[r].at \in Holding
    BY <1>5 DEF WriteCancelled, Step, Holding, InMemory
  <2>2. Becomes(request[r].upload, "cancelled", uploads[request[r].upload].parts, Nothing)
    BY <1>5, <1>b, <2>1 DEF WriteCancelled, OnUpload
  <2> QED BY <1>5, <1>a, <2>1, <2>2 DEF Written, Holds, OnUpload
<1>6. ASSUME NEW r \in Request, Reopen(r), ~ UNCHANGED uploads PROVE \E u \in Upload : Written(u)
  <2>1. request[r].at = "reopen" /\ request[r].at \in Holding
    BY <1>6 DEF Reopen, Step, Holding, InMemory
  <2>2. [request[r].row EXCEPT !.status = "open", !.object = Nothing]
          = [request[r].row EXCEPT !.status = "open"]
    <3>1. PICK row \in UploadRow : row = request[r].row /\ row.object = Nothing
      BY <1>a, <2>1 DEF OnUpload
    <3>2. [row EXCEPT !.status = "open", !.object = Nothing] = [row EXCEPT !.status = "open"]
      BY <3>1 DEF UploadRow
    <3> QED BY <3>1, <3>2
  <2>3. Becomes(request[r].upload, "open", uploads[request[r].upload].parts, Nothing)
    BY <1>6, <1>b, <2>1, <2>2 DEF Reopen, OnUpload
  <2> QED BY <1>6, <1>a, <2>1, <2>3 DEF Written, Holds, OnUpload
<1>7. ASSUME NEW r \in Request, Commit(r) \/ CommitFails(r), ~ UNCHANGED uploads
      PROVE  \E u \in Upload : Written(u)
  <2>1. request[r].at = "commit" /\ request[r].at \in Holding
    BY <1>7 DEF Commit, CommitFails, Step, Holding, InMemory
  <2>2. CommitObject(r)
    BY <1>7 DEF Commit, CommitFails
  <2>3. PICK u \in Upload : u = request[r].upload
    BY <1>a, <2>1 DEF OnUpload
  <2>4. PICK o \in Object : o = request[r].object
    BY <2>1 DEF RequestsFit
  <2>5. PICK row \in UploadRow : row = [uploads[u] EXCEPT !.status = "complete"]
    BY <1>0, UploadWith
  <2>6. row.status = "complete" /\ row.parts = uploads[u].parts
    BY <1>0, <2>5, UploadWith
  <2>7. PICK new \in UploadRow : new = [row EXCEPT !.object = o]
    BY UploadWith
  <2>8. new.status = "complete" /\ new.parts = uploads[u].parts /\ new.object = o
    BY <2>6, <2>7, UploadWith
  <2>9. uploads' = [uploads EXCEPT ![u] = new]
    BY <1>0, <2>2, <2>3, <2>4, <2>5, <2>7 DEF CommitObject
  <2>10. Becomes(u, "complete", uploads[u].parts, o)
    BY <1>0, <2>8, <2>9 DEF Becomes
  <2>11. uploads[u].status = "completing"
    BY <2>2, <2>3 DEF CommitObject
  <2> QED BY <1>7, <2>1, <2>3, <2>4, <2>10, <2>11 DEF Written, Holds
<1>8. ASSUME ExpireUpload PROVE \E u \in Upload : Written(u)
  <2>1. PICK x \in cleaner.read : UpdateUpload(x.upload, [x.row EXCEPT !.status = "expired"])
    BY <1>8 DEF ExpireUpload
  <2>2. x.row \in UploadRow
    BY <1>0 DEF CleanerRow, ReadUpload
  <2>3. PICK u \in Upload : /\ u = x.upload /\ u \in late /\ uploads[u].status # "none"
                            /\ x.row.parts \subseteq uploads[u].parts
    BY <1>0 DEF CleanerFits
  <2>4. PICK row \in UploadRow : row = [x.row EXCEPT !.status = "expired"]
    BY <2>2, UploadWith
  <2>5. row.status = "expired" /\ row.parts = x.row.parts /\ row.object = x.row.object
    BY <2>2, <2>4, UploadWith
  <2>6. UpdateUpload(u, row)
    BY <2>1, <2>3, <2>4
  <2>7. row.parts \union uploads[u].parts = uploads[u].parts
    BY <2>3, <2>5
  <2>8. Becomes(u, "expired", uploads[u].parts, x.row.object)
    BY <1>0, <2>5, <2>6, <2>7, WrittenBack DEF Becomes
  <2> QED BY <2>3, <2>8 DEF Written
<1> QED BY <1>1, <1>2, <1>3, <1>4, <1>5, <1>6, <1>7, <1>8, Writers

-----------------------------------------------------------------------------
(* Types *)

\* A row with this status and object is one that StatusTells allows.
Tells(status, object) ==
    /\ status = "complete" => object # Nothing
    /\ object # Nothing => status \in {"complete", "expired"}

\* What a write of an upload makes of the others and of its number of parts.
LEMMA UploadsTyped ==
    ASSUME TypeOK, RequestsFit, CleanerFits, [Next]_vars
    PROVE  /\ uploads' \in [Upload -> UploadRow]
           /\ \A u \in Upload : StatusTells(uploads'[u])
           /\ \A u \in Upload : uploads[u].parts \subseteq uploads'[u].parts
           /\ \A u \in Upload : uploads[u].status # "none" => uploads'[u].status # "none"
<1>0. /\ uploads \in [Upload -> UploadRow] /\ request \in [Request -> RequestRow]
      /\ \A u \in Upload : StatusTells(uploads[u])
  BY DEF TypeOK
<1>1. ASSUME NEW u \in Upload, NEW status, NEW parts, NEW object,
             Becomes(u, status, parts, object), uploads[u].parts \subseteq parts,
             status # "none", Tells(status, object)
      PROVE  /\ uploads' \in [Upload -> UploadRow]
             /\ \A v \in Upload : StatusTells(uploads'[v])
             /\ \A v \in Upload : uploads[v].parts \subseteq uploads'[v].parts
             /\ \A v \in Upload : uploads[v].status # "none" => uploads'[v].status # "none"
  <2>1. StatusTells(uploads'[u])
    BY <1>1 DEF Becomes, Tells, StatusTells
  <2>2. \A v \in Upload : v = u \/ uploads'[v] = uploads[v]
    BY <1>1 DEF Becomes
  <2>3. \A v \in Upload : StatusTells(uploads'[v])
    BY <1>0, <2>1, <2>2 DEF StatusTells
  <2> QED BY <1>1, <2>2, <2>3 DEF Becomes
<1>2. ASSUME NEW u \in Upload, Written(u)
      PROVE  \E status, parts, object :
               /\ Becomes(u, status, parts, object) /\ uploads[u].parts \subseteq parts
               /\ status # "none" /\ Tells(status, object)
  <2>1. ASSUME NEW r \in Request, request[r].at = "record"
        PROVE  request[r].row.status \in Begun
    BY <2>1 DEF RequestsFit, OnUpload, Holding, InMemory
  <2>2. ASSUME NEW r \in Request, request[r].at = "commit"
        PROVE  request[r].object # Nothing
    BY <2>2, ObjectAssumption DEF RequestsFit
  <2> DEFINE Fine == \E status, parts, object :
               /\ Becomes(u, status, parts, object) /\ uploads[u].parts \subseteq parts
               /\ status # "none" /\ Tells(status, object)
  <2>a. ASSUME NEW status, NEW parts, NEW object, Becomes(u, status, parts, object),
               uploads[u].parts \subseteq parts, status # "none", Tells(status, object)
        PROVE  Fine
    BY <2>a
  <2> HIDE DEF Fine
  <2>3. ASSUME uploads[u].status = "none", Becomes(u, "open", uploads[u].parts, uploads[u].object)
        PROVE  Fine
    <3>1. uploads[u].object = Nothing
      BY <1>0, <2>3 DEF StatusTells
    <3> QED BY <2>3, <2>a, <3>1 DEF Tells
  <2>4. ASSUME NEW status \in {"open", "completing", "cancelled", "expired"}, NEW parts,
               uploads[u].parts \subseteq parts, Becomes(u, status, parts, Nothing)
        PROVE  Fine
    BY <2>4, <2>a DEF Tells
  <2>5. ASSUME NEW r \in Request, request[r].at = "commit",
               Becomes(u, "complete", uploads[u].parts, request[r].object)
        PROVE  Fine
    BY <2>2, <2>5, <2>a DEF Tells
  <2>6. ASSUME NEW object, Becomes(u, "expired", uploads[u].parts, object)
        PROVE  Fine
    BY <2>6, <2>a DEF Tells
  <2> QED BY <1>2, <2>1, <2>3, <2>4, <2>5, <2>6 DEF Written, Begun, Fine
<1> QED BY <1>0, <1>1, <1>2, UploadsWritten

\* What a transaction on a reference has is of its kind.
LEMMA TransactionTyped ==
    ASSUME TypeOK, NEW r \in Request
    PROVE  /\ request[r].names \in SUBSET Object /\ request[r].left \in SUBSET Object
           /\ found[r] \in SUBSET Object
<1>1. request[r] \in RequestRow /\ found \in [Request -> SUBSET Object]
  BY DEF TypeOK
<1> QED BY <1>1 DEF RequestRow

\* What a committed transaction makes of the objects and the references: only what it
\* names is referred to anew, and only of that the marks are taken back.
LEMMA ReferencesCommitted ==
    ASSUME TypeOK, NEW r \in Request, CommitReferences(r)
    PROVE  /\ objects' \in [Object -> ObjectRow]
           /\ references' \in [Reference -> SUBSET Object]
           /\ found' \in [Request -> SUBSET Object]
           /\ Referred(references') \subseteq Referred(references) \union request[r].names
           /\ \A o \in Object : objects'[o].exists = objects[o].exists
           /\ \A o \in Object \ request[r].names :
                objects[o].unreferenced = "long" /\ ~objects[o].retained =>
                    objects'[o].unreferenced = "long" /\ ~objects'[o].retained
<1> DEFINE n == request[r].reference
           names == request[r].names
           left == request[r].left
<1>0. /\ objects \in [Object -> ObjectRow] /\ references \in [Reference -> SUBSET Object]
      /\ found \in [Request -> SUBSET Object]
      /\ names \in SUBSET Object /\ left \in SUBSET Object
      /\ \A q \in Request : found[q] \in SUBSET Object
  BY TransactionTyped DEF TypeOK
<1>1. references' = [references EXCEPT ![n] = (@ \ found[r]) \union names]
  BY DEF CommitReferences, SeenBy
<1>2. references' \in [Reference -> SUBSET Object]
  <2>1. \A m \in Reference : (references[m] \ found[r]) \union names \in SUBSET Object
    BY <1>0
  <2> HIDE DEF n, names
  <2> QED BY <1>0, <1>1, <2>1
<1>3. Referred(references') \subseteq Referred(references) \union names
  <2>1. ASSUME NEW m \in Reference PROVE references'[m] \subseteq references[m] \union names
    <3> HIDE DEF n, names
    <3> QED BY <1>0, <1>1
  <2> HIDE DEF names
  <2> QED BY <2>1 DEF Referred
<1>4. found' \in [Request -> SUBSET Object]
  <2>1. \A q \in Request : found'[q] \in {{}, found[q] \ found[r], found[q]}
    BY DEF CommitReferences
  <2>2. found' \in [Request -> {found'[q] : q \in Request}]
    BY DEF CommitReferences
  <2>3. \A q \in Request : found'[q] \in SUBSET Object
    BY <1>0, <2>1
  <2> QED BY <2>2, <2>3
<1>5. PICK retained \in BOOLEAN :
        objects' = [o \in Object |->
          CASE o \in names -> [objects[o] EXCEPT !.unreferenced = "no",
                                                 !.retained = @ \/ retained]
            [] o \in left -> [objects[o] EXCEPT !.unreferenced =
                                IF @ = "no" THEN "recently" ELSE @]
            [] OTHER -> objects[o]]
  BY DEF CommitReferences
<1>6. ASSUME NEW o \in Object
      PROVE  /\ LET row == [objects[o] EXCEPT !.unreferenced = "no", !.retained = @ \/ retained]
                IN  row \in ObjectRow /\ row.exists = objects[o].exists
             /\ LET row == [objects[o] EXCEPT !.unreferenced = IF @ = "no" THEN "recently" ELSE @]
                IN  /\ row \in ObjectRow /\ row.exists = objects[o].exists
                    /\ row.retained = objects[o].retained
                    /\ objects[o].unreferenced = "long" => row.unreferenced = "long"
  <2>1. objects[o] \in ObjectRow
    BY <1>0
  <2>2. PICK b \in BOOLEAN : b = (objects[o].retained \/ retained)
    OBVIOUS
  <2>3. PICK w \in {"no", "recently", "long"} :
          w = IF objects[o].unreferenced = "no" THEN "recently" ELSE objects[o].unreferenced
    BY <2>1 DEF ObjectRow
  <2>4. LET row == [objects[o] EXCEPT !.unreferenced = "no", !.retained = b]
        IN  row \in ObjectRow /\ row.exists = objects[o].exists
    BY <2>1 DEF ObjectRow
  <2>5. LET row == [objects[o] EXCEPT !.unreferenced = w]
        IN  /\ row \in ObjectRow /\ row.exists = objects[o].exists
            /\ row.retained = objects[o].retained /\ row.unreferenced = w
    BY <2>1 DEF ObjectRow
  <2> QED BY <2>2, <2>3, <2>4, <2>5
<1>7. ASSUME NEW o \in Object
      PROVE  /\ \/ objects'[o] = [objects[o] EXCEPT !.unreferenced = "no",
                                                    !.retained = @ \/ retained]
                \/ objects'[o] = [objects[o] EXCEPT !.unreferenced =
                                    IF @ = "no" THEN "recently" ELSE @]
                \/ objects'[o] = objects[o]
             /\ o \notin names =>
                  \/ objects'[o] = [objects[o] EXCEPT !.unreferenced =
                                      IF @ = "no" THEN "recently" ELSE @]
                  \/ objects'[o] = objects[o]
  <2>1. objects'[o] =
          CASE o \in names -> [objects[o] EXCEPT !.unreferenced = "no",
                                                 !.retained = @ \/ retained]
            [] o \in left -> [objects[o] EXCEPT !.unreferenced =
                                IF @ = "no" THEN "recently" ELSE @]
            [] OTHER -> objects[o]
    BY <1>5
  <2> HIDE DEF names, left
  <2> QED BY <2>1
<1>8. ASSUME NEW o \in Object
      PROVE  /\ objects'[o] \in ObjectRow /\ objects'[o].exists = objects[o].exists
             /\ o \notin names /\ objects[o].unreferenced = "long" /\ ~objects[o].retained =>
                  objects'[o].unreferenced = "long" /\ ~objects'[o].retained
  <2> HIDE DEF names, left
  <2> QED BY <1>0, <1>6, <1>7
<1>9. objects' \in [Object -> {objects'[x] : x \in Object}]
  BY <1>5
<1> QED BY <1>2, <1>3, <1>4, <1>8, <1>9

\* The objects, the references and what transactions found stay well-typed.
LEMMA ObjectsTyped ==
    ASSUME TypeOK, RequestsFit, [Next]_vars
    PROVE  /\ objects' \in [Object -> ObjectRow] /\ references' \in [Reference -> SUBSET Object]
           /\ found' \in [Request -> SUBSET Object]
<1>0. /\ objects \in [Object -> ObjectRow] /\ references \in [Reference -> SUBSET Object]
      /\ found \in [Request -> SUBSET Object]
  BY DEF TypeOK
<1>1. ASSUME NEW r \in Request, Commit(r) \/ CommitFails(r)
      PROVE  objects' \in [Object -> ObjectRow]
  <2>1. [exists |-> TRUE, unreferenced |-> "recently", retained |-> FALSE] \in ObjectRow
    BY DEF ObjectRow
  <2> QED BY <1>0, <1>1, <2>1 DEF Commit, CommitFails, CommitObject
<1>2. ASSUME NEW r \in Request, CommitReferences(r)
      PROVE  /\ objects' \in [Object -> ObjectRow] /\ references' \in [Reference -> SUBSET Object]
             /\ found' \in [Request -> SUBSET Object]
  BY <1>2, ReferencesCommitted
<1>3. ASSUME NEW o \in Object, GraceEnds(o) \/ RetentionEnds(o)
      PROVE  objects' \in [Object -> ObjectRow]
  BY <1>0, <1>3, ZenonT(60) DEF GraceEnds, RetentionEnds, ObjectRow
<1>4. ASSUME DeleteRow
      PROVE  objects' \in [Object -> ObjectRow] /\ references' \in [Reference -> SUBSET Object]
  BY <1>0, <1>4, Rows DEF DeleteRow
<1>5. ASSUME NEW r \in Request, RemoveReferences(r) \/ BeginRemoval(r) \/ Fail(r)
      PROVE  found' \in [Request -> SUBSET Object]
  <2>1. RemoveReferences(r) => request[r].reference \in Reference
    BY DEF RequestsFit, RemoveReferences, Step, InTransaction
  <2>2. CASE RemoveReferences(r)
    BY <1>0, <2>1, <2>2 DEF RemoveReferences
  <2>3. CASE BeginRemoval(r)
    BY <1>0, <2>3 DEF BeginRemoval
  <2>4. CASE Fail(r)
    BY <1>0, <2>4 DEF Fail
  <2> QED BY <1>5, <2>2, <2>3, <2>4
<1> QED BY <1>0, <1>1, <1>2, <1>3, <1>4, <1>5, Writers

\* The blobs of parts and objects, and the history, stay well-typed.
LEMMA BlobsTyped ==
    ASSUME TypeOK, RequestsFit, [Next]_vars
    PROVE  /\ late' \subseteq Upload /\ late \subseteq late'
           /\ partBlobs' \in [Upload -> SUBSET Part]
           /\ blobs' \subseteq Object
           /\ answered' \in [Upload -> SUBSET Object]
           /\ taken' \subseteq Object /\ taken \subseteq taken'
           /\ reopened' \subseteq Upload /\ reopened \subseteq reopened'
<1>0. /\ request \in [Request -> RequestRow] /\ uploads \in [Upload -> UploadRow]
      /\ partBlobs \in [Upload -> SUBSET Part]
      /\ late \subseteq Upload /\ blobs \subseteq Object /\ taken \subseteq Object
      /\ reopened \subseteq Upload /\ answered \in [Upload -> SUBSET Object]
      /\ \A u \in Upload : uploads[u].status = "complete" => uploads[u].object # Nothing
  BY DEF TypeOK, StatusTells
<1>a. \A r \in Request : request[r].part \in SUBSET Part
  BY <1>0 DEF RequestRow
<1>b. \A u \in Upload : uploads[u].object \in Object \union {Nothing}
  BY <1>0 DEF UploadRow
<1>1. late' \subseteq Upload /\ late \subseteq late'
  BY <1>0, Writers DEF TimeToLive
<1>2. partBlobs' \in [Upload -> SUBSET Part]
  <2>1. ASSUME NEW r \in Request, StorePart(r) PROVE partBlobs' \in [Upload -> SUBSET Part]
    BY <1>0, <1>a, <2>1 DEF StorePart
  <2>2. ASSUME NEW r \in Request, DeleteParts(r) PROVE partBlobs' \in [Upload -> SUBSET Part]
    BY <1>0, <2>2 DEF DeleteParts
  <2>3. ASSUME DeleteExpiredParts PROVE partBlobs' \in [Upload -> SUBSET Part]
    BY <1>0, <2>3 DEF DeleteExpiredParts
  <2> QED BY <1>0, <2>1, <2>2, <2>3, Writers
<1>3. blobs' \subseteq Object
  BY <1>0, Writers DEF Assemble, Discard, DeleteBlob
<1>4. answered' \in [Upload -> SUBSET Object]
  <2>1. ASSUME NEW r \in Request, AnswerAgain(r) PROVE answered' \in [Upload -> SUBSET Object]
    BY <1>0, <1>b, <2>1 DEF AnswerAgain
  <2>2. ASSUME NEW r \in Request, Commit(r) PROVE answered' \in [Upload -> SUBSET Object]
    <3>1. request[r].object \in Object
      BY <2>2 DEF Commit, Step, RequestsFit
    <3> QED BY <1>0, <2>2, <3>1 DEF Commit
  <2> QED BY <1>0, <2>1, <2>2, Writers
<1>5. taken' \subseteq Object /\ taken \subseteq taken'
  BY <1>0, Writers DEF Assemble
<1>6. reopened' \subseteq Upload /\ reopened \subseteq reopened'
  <2>1. ASSUME NEW r \in Request, Reopen(r) PROVE request[r].upload \in Upload
    BY <2>1 DEF Reopen, Step, RequestsFit, OnUpload, Holding, InMemory
  <2> QED BY <1>0, <2>1, Writers DEF Reopen
<1> QED BY <1>1, <1>2, <1>3, <1>4, <1>5, <1>6

\* The cleanup's row with one field written.
LEMMA CleanerWith ==
    ASSUME NEW row \in CleanerRow
    PROVE  /\ \A v \in {"idle", "uploads", "deleteParts", "look", "delete", "deleteRow"} :
                [row EXCEPT !.at = v] \in CleanerRow
           /\ \A v \in SUBSET Upload : [row EXCEPT !.unread = v] \in CleanerRow
           /\ \A v \in SUBSET ReadUpload : [row EXCEPT !.read = v] \in CleanerRow
           /\ \A v \in ReadUpload \union {Nothing} : [row EXCEPT !.expired = v] \in CleanerRow
           /\ \A v \in SUBSET Object : [row EXCEPT !.listed = v] \in CleanerRow
           /\ \A v \in Object \union {Nothing} : [row EXCEPT !.object = v] \in CleanerRow
           /\ \A v \in SUBSET Object : [row EXCEPT !.overtaken = v] \in CleanerRow
BY DEF CleanerRow

\* What the cleanup has stays well-typed.
LEMMA CleanerTyped ==
    ASSUME TypeOK, RequestsFit, CleanerFits, [Next]_vars
    PROVE  cleaner' \in CleanerRow
<1>0. /\ cleaner \in CleanerRow /\ uploads \in [Upload -> UploadRow] /\ late \subseteq Upload
      /\ cleaner.unread \subseteq Upload /\ cleaner.read \subseteq ReadUpload
      /\ cleaner.listed \subseteq Object /\ cleaner.overtaken \subseteq Object
  BY DEF TypeOK, CleanerRow
<1>1. ASSUME NEW r \in Request, CommitReferences(r)
      PROVE  cleaner' \in CleanerRow
  <2>1. PICK more \in SUBSET Object : more = cleaner.overtaken \union request[r].names
    BY <1>0, TransactionTyped
  <2>2. cleaner' = cleaner \/ cleaner' = [cleaner EXCEPT !.overtaken = more]
    BY <1>1, <2>1 DEF CommitReferences
  <2> QED BY <1>0, <2>2, CleanerWith
<1>2. ASSUME ListExpired PROVE cleaner' \in CleanerRow
  <2>1. PICK old \in SUBSET Upload : old = {u \in late : uploads[u].status \in Begun}
    BY <1>0
  <2>2. cleaner' = [Resting EXCEPT !.at = "uploads", !.unread = old]
    BY <1>2, <2>1 DEF ListExpired
  <2> QED BY <2>2, Rows, CleanerWith
<1>9. ASSUME ReadListed PROVE cleaner' \in CleanerRow
  <2>1. PICK u \in cleaner.unread :
          cleaner' = [cleaner EXCEPT !.unread = @ \ {u},
                                     !.read = @ \union {[upload |-> u, row |-> uploads[u]]}]
    BY <1>9 DEF ReadListed
  <2>2. [upload |-> u, row |-> uploads[u]] \in ReadUpload
    BY <1>0 DEF ReadUpload
  <2>3. PICK rest \in SUBSET Upload : rest = cleaner.unread \ {u}
    BY <1>0
  <2>4. PICK more \in SUBSET ReadUpload :
          more = cleaner.read \union {[upload |-> u, row |-> uploads[u]]}
    BY <1>0, <2>2
  <2>5. cleaner' = [cleaner EXCEPT !.unread = rest, !.read = more]
    BY <2>1, <2>3, <2>4
  <2> QED BY <1>0, <2>5, CleanerWith
<1>3. ASSUME ExpireUpload PROVE cleaner' \in CleanerRow
  <2>1. PICK x \in cleaner.read :
          cleaner' = [cleaner EXCEPT !.at = "deleteParts", !.expired = x, !.read = @ \ {x}]
    BY <1>3 DEF ExpireUpload
  <2>2. PICK rest \in SUBSET ReadUpload : rest = cleaner.read \ {x}
    BY <1>0
  <2>3. cleaner' = [cleaner EXCEPT !.at = "deleteParts", !.expired = x, !.read = rest]
    BY <2>1, <2>2
  <2> QED BY <1>0, <2>3, CleanerWith
<1>4. ASSUME DeleteExpiredParts PROVE cleaner' \in CleanerRow
  BY <1>0, <1>4, CleanerWith DEF DeleteExpiredParts
<1>5. ASSUME ListObjects PROVE cleaner' \in CleanerRow
  <2>1. Collectable \in SUBSET Object
    BY DEF Collectable
  <2> QED BY <1>0, <1>5, <2>1, CleanerWith DEF ListObjects
<1>6. ASSUME Look PROVE cleaner' \in CleanerRow
  <2>1. PICK o \in cleaner.listed :
          cleaner' = IF o \in Referred(references)
                     THEN [cleaner EXCEPT !.listed = @ \ {o}]
                     ELSE [cleaner EXCEPT !.listed = @ \ {o}, !.object = o, !.at = "delete"]
    BY <1>6 DEF Look
  <2>2. PICK rest \in SUBSET Object : rest = cleaner.listed \ {o}
    BY <1>0
  <2>3. \/ cleaner' = [cleaner EXCEPT !.listed = rest]
        \/ cleaner' = [cleaner EXCEPT !.listed = rest, !.object = o, !.at = "delete"]
    BY <2>1, <2>2
  <2> QED BY <1>0, <2>1, <2>3, CleanerWith
<1>7. ASSUME DeleteBlob PROVE cleaner' \in CleanerRow
  BY <1>0, <1>7, CleanerWith DEF DeleteBlob
<1>8. ASSUME DeleteRow \/ EndCleanup PROVE cleaner' \in CleanerRow
  <2>1. \/ cleaner' = [cleaner EXCEPT !.at = "look", !.object = Nothing]
        \/ cleaner' = Resting
    BY <1>8 DEF DeleteRow, EndCleanup
  <2>2. [cleaner EXCEPT !.at = "look", !.object = Nothing] \in CleanerRow
    BY <1>0, CleanerWith
  <2> QED BY <2>1, <2>2, Rows
<1> QED BY <1>0, <1>1, <1>2, <1>3, <1>4, <1>5, <1>6, <1>7, <1>8, <1>9, Writers

\* Every step leaves the state well-typed.
LEMMA Typed ==
    ASSUME TypeOK, RequestsFit, CleanerFits, [Next]_vars
    PROVE  TypeOK'
BY UploadsTyped, ObjectsTyped, BlobsTyped, CleanerTyped, OneMoves DEF TypeOK

-----------------------------------------------------------------------------
(* The invariants about uploads *)

\* A request that is on an upload now was so before, or begins on it.
Entered(r, u) ==
    \/ FindExpired(r) /\ u \in late /\ uploads[u].status \in Begun /\ Begins(r, u, "expire")
    \/ /\ ~Locked(u) /\ uploads[u].status \in Begun
       /\ \/ PutPart(r) /\ Open(u) /\ Begins(r, u, "store")
          \/ BeginCompletion(r) /\ Open(u) /\ Begins(r, u, "mark")
          \/ BeginCancel(r) /\ Begins(r, u, "cancel")

\* How a request comes to be on an upload after a step.
LEMMA OnUploads ==
    ASSUME TypeOK, RequestsFit, [Next]_vars, NEW r \in Request, request'[r].at \in OnUpload
    PROVE  /\ request'[r].upload \in Upload
           /\ \/ request'[r] = request[r]
              \/ /\ \A q \in Request \ {r} : request'[q] = request[q]
                 /\ \/ Entered(r, request'[r].upload)
                    \/ /\ Moves(r)
                       /\ request[r].at \in Holding /\ request'[r].at \in Holding
                       /\ request'[r].upload = request[r].upload
                       /\ request'[r].row = request[r].row
                       /\ request'[r].part = request[r].part
<1>1. CASE request'[r] = request[r]
  BY <1>1 DEF RequestsFit
<1>2. CASE request'[r] # request[r]
  <2>1. \A q \in Request \ {r} : request'[q] = request[q]
    BY <1>2, OneMoves
  <2>2. request'[r].at \notin {"idle", "insert"} \union InTransaction
    BY DEF OnUpload, Holding, InMemory, InTransaction
  <2>3. Idle.at = "idle" /\ [Idle EXCEPT !.at = "insert"].at = "insert"
    BY DEF Idle
  <2>4. Moves(r)
    BY <1>2, <2>2, <2>3, OneMoves
  <2>5. \A from, to : GoesOn(r, from, to) /\ from \in Holding /\ to \in Holding =>
          /\ request[r].at \in Holding /\ request'[r].at \in Holding
          /\ request'[r].upload = request[r].upload
          /\ request'[r].row = request[r].row /\ request'[r].part = request[r].part
    BY DEF GoesOn
  <2>6. {"store", "record", "mark", "assemble", "commit", "reopen", "discard", "deleteParts", "cancel"}
          \subseteq Holding
    BY DEF Holding, InMemory
  <2>7. \/ Entered(r, request'[r].upload) /\ request'[r].upload \in Upload
        \/ /\ request[r].at \in Holding /\ request'[r].at \in Holding
           /\ request'[r].upload = request[r].upload
           /\ request'[r].row = request[r].row /\ request'[r].part = request[r].part
    <3>1. ASSUME NEW u \in late, FindExpired(r), uploads[u].status \in Begun, Begins(r, u, "expire")
          PROVE  Entered(r, request'[r].upload) /\ request'[r].upload \in Upload
      BY <3>1 DEF Entered, Begins, TypeOK
    <3>2. ASSUME NEW u \in Upload, ~Locked(u), uploads[u].status \in Begun,
                 \/ PutPart(r) /\ Open(u) /\ Begins(r, u, "store")
                 \/ BeginCompletion(r) /\ Open(u) /\ Begins(r, u, "mark")
                 \/ BeginCancel(r) /\ Begins(r, u, "cancel")
          PROVE  Entered(r, request'[r].upload) /\ request'[r].upload \in Upload
      <4>1. request'[r].upload = u
        BY <3>2 DEF Begins
      <4> QED BY <3>2, <4>1 DEF Entered
    <3>3. \A u : Open(u) => uploads[u].status \in Begun
      BY DEF Open, Begun
    <3> QED BY <2>2, <2>3, <2>4, <2>5, <2>6, <3>1, <3>2, <3>3 DEF Moves
  <2>8. request[r].at \in Holding => request[r].upload \in Upload
    BY DEF RequestsFit, OnUpload
  <2> QED BY <2>1, <2>4, <2>7, <2>8
<1> QED BY <1>1, <1>2

\* What a request has read stays a part of what the upload is.
LEMMA RequestsStayFit ==
    ASSUME TypeOK, RequestsFit, CleanerFits, [Next]_vars
    PROVE  RequestsFit'
<1> SUFFICES ASSUME NEW r \in Request
             PROVE  /\ request'[r].at \in OnUpload =>
                         /\ request'[r].upload \in Upload
                         /\ request'[r].row.object = Nothing
                         /\ request'[r].row.status \in Begun
                         /\ request'[r].row.parts \subseteq uploads'[request'[r].upload].parts
                         /\ uploads'[request'[r].upload].status # "none"
                    /\ request'[r].at = "expire" => request'[r].upload \in late'
                    /\ request'[r].at \in {"mark", "assemble"} => request'[r].object = Nothing
                    /\ request'[r].at = "commit" => request'[r].object \in Object
                    /\ request'[r].at \in InTransaction => request'[r].reference \in Reference
  BY DEF RequestsFit
<1>0. /\ late \subseteq late'
      /\ \A u \in Upload : uploads[u].parts \subseteq uploads'[u].parts
      /\ \A u \in Upload : uploads[u].status # "none" => uploads'[u].status # "none"
      /\ \A u \in Upload : uploads[u].status \in Begun => uploads[u].object = Nothing
  BY UploadsTyped, BlobsTyped DEF TypeOK, StatusTells, Begun
<1>1. ASSUME request'[r].at \in OnUpload
      PROVE  /\ request'[r].upload \in Upload
             /\ request'[r].row.object = Nothing
             /\ request'[r].row.status \in Begun
             /\ request'[r].row.parts \subseteq uploads'[request'[r].upload].parts
             /\ uploads'[request'[r].upload].status # "none"
  <2>1. ASSUME request[r].at \in OnUpload, request'[r].upload = request[r].upload,
               request'[r].row = request[r].row
        PROVE  <1>1!2
    BY <1>0, <2>1 DEF RequestsFit
  <2>2. ASSUME Entered(r, request'[r].upload) PROVE <1>1!2
    <3>1. PICK u \in Upload : u = request'[r].upload
      BY <1>1, OnUploads
    <3>2. uploads[u].status \in Begun /\ request'[r].row = uploads[u]
      BY <2>2, <3>1 DEF Entered, Begins
    <3>3. uploads[u].status # "none" /\ uploads[u].object = Nothing
      BY <1>0, <3>2 DEF Begun
    <3> QED BY <1>0, <3>1, <3>2, <3>3
  <2> QED BY <1>1, <2>1, <2>2, OnUploads DEF OnUpload
<1>2. request'[r].at = "expire" => request'[r].upload \in late'
  BY <1>0, OnUploads DEF Entered, Begins, RequestsFit, OnUpload, Holding, InMemory
<1>3. request'[r] = request[r] \/ request'[r] = Idle \/ Moves(r)
  BY OneMoves
<1>4. Idle.at = "idle" /\ [Idle EXCEPT !.at = "insert"].at = "insert"
  BY DEF Idle
<1>5. request'[r].at \in {"mark", "assemble"} => request'[r].object = Nothing
  BY <1>3, <1>4 DEF Moves, GoesOn, Begins, RequestsFit, InTransaction
<1>6. request'[r].at = "commit" => request'[r].object \in Object
  BY <1>3, <1>4 DEF Moves, GoesOn, Begins, RequestsFit, InTransaction
<1>7. request'[r].at \in InTransaction => request'[r].reference \in Reference
  BY <1>3, <1>4 DEF Moves, GoesOn, Begins, RequestsFit, InTransaction
<1> QED BY <1>1, <1>2, <1>5, <1>6, <1>7

\* What the cleanup has listed, and what it has read, stays past its time.
LEMMA CleanerStaysFit ==
    ASSUME TypeOK, RequestsFit, CleanerFits, [Next]_vars
    PROVE  CleanerFits'
<1>0. /\ late \subseteq late' /\ late \subseteq Upload
      /\ \A u \in Upload : uploads[u].parts \subseteq uploads'[u].parts
      /\ \A u \in Upload : uploads[u].status # "none" => uploads'[u].status # "none"
      /\ cleaner \in CleanerRow /\ cleaner' \in CleanerRow /\ uploads \in [Upload -> UploadRow]
      /\ cleaner.read \subseteq ReadUpload /\ cleaner.listed \subseteq Object
  BY UploadsTyped, BlobsTyped, CleanerTyped DEF TypeOK, CleanerRow
<1> DEFINE Past(u) == u \in late /\ uploads[u].status # "none"
           Right(x) == Past(x.upload) /\ x.row.parts \subseteq uploads[x.upload].parts
<1>a. ASSUME \A u \in cleaner'.unread : Past(u), \A x \in cleaner'.read : Right(x),
             cleaner'.at = "deleteParts" =>
               cleaner'.expired \in ReadUpload /\ cleaner'.expired.upload \in late,
             cleaner'.at \in {"delete", "deleteRow"} => cleaner'.object \in Object
      PROVE  CleanerFits'
  <2>1. \A u \in cleaner'.unread : u \in late' /\ uploads'[u].status # "none"
    BY <1>0, <1>a
  <2>2. ASSUME NEW x \in cleaner'.read
        PROVE  /\ x.upload \in late' /\ uploads'[x.upload].status # "none"
               /\ x.row.parts \subseteq uploads'[x.upload].parts
    <3>1. Right(x) /\ x.upload \in Upload
      BY <1>0, <1>a
    <3> QED BY <1>0, <3>1
  <2> QED BY <1>0, <1>a, <2>1, <2>2 DEF CleanerFits
<1>b. (\A u \in cleaner.unread : Past(u)) /\ (\A x \in cleaner.read : Right(x))
  BY DEF CleanerFits
<1> HIDE DEF Past, Right
<1>1. ASSUME cleaner'.unread \subseteq cleaner.unread, cleaner'.read \subseteq cleaner.read,
             cleaner'.at = "deleteParts" =>
               cleaner'.expired \in ReadUpload /\ cleaner'.expired.upload \in late,
             cleaner'.at \in {"delete", "deleteRow"} => cleaner'.object \in Object
      PROVE  CleanerFits'
  BY <1>1, <1>a, <1>b
<1>2. ASSUME cleaner'.at = cleaner.at, cleaner'.unread = cleaner.unread,
             cleaner'.read = cleaner.read, cleaner'.expired = cleaner.expired,
             cleaner'.object = cleaner.object
      PROVE  CleanerFits'
  BY <1>1, <1>2 DEF CleanerFits
<1>3. ASSUME NEW r \in Request, CommitReferences(r) PROVE CleanerFits'
  BY <1>0, <1>2, <1>3 DEF CommitReferences, CleanerRow
<1>4. ASSUME ListExpired PROVE CleanerFits'
  <2>1. PICK old : old = {u \in late : uploads[u].status \in Begun}
    OBVIOUS
  <2>2. cleaner' = [Resting EXCEPT !.at = "uploads", !.unread = old]
    BY <1>4, <2>1 DEF ListExpired
  <2>3. cleaner'.at = "uploads" /\ cleaner'.unread = old /\ cleaner'.read = {}
    BY <2>2 DEF Resting
  <2>4. \A u \in old : Past(u)
    BY <2>1 DEF Begun, Past
  <2> QED BY <1>a, <2>3, <2>4
<1>12. ASSUME ReadListed PROVE CleanerFits'
  <2>1. PICK u \in cleaner.unread :
          cleaner' = [cleaner EXCEPT !.unread = @ \ {u},
                                     !.read = @ \union {[upload |-> u, row |-> uploads[u]]}]
    BY <1>12 DEF ReadListed
  <2>2. /\ cleaner'.at = "uploads" /\ cleaner'.unread = cleaner.unread \ {u}
        /\ cleaner'.read = cleaner.read \union {[upload |-> u, row |-> uploads[u]]}
    BY <1>0, <1>12, <2>1 DEF CleanerRow, ReadListed
  <2>3. Right([upload |-> u, row |-> uploads[u]])
    BY <1>b DEF Right
  <2> QED BY <1>a, <1>b, <2>2, <2>3
<1>5. ASSUME ExpireUpload PROVE CleanerFits'
  <2>1. PICK x \in cleaner.read :
          cleaner' = [cleaner EXCEPT !.at = "deleteParts", !.expired = x, !.read = @ \ {x}]
    BY <1>5 DEF ExpireUpload
  <2>2. /\ cleaner'.at = "deleteParts" /\ cleaner'.expired = x
        /\ cleaner'.unread = cleaner.unread /\ cleaner'.read = cleaner.read \ {x}
    BY <1>0, <2>1 DEF CleanerRow
  <2>3. x \in ReadUpload /\ x.upload \in late
    BY <1>0, <1>b DEF Right, Past
  <2> QED BY <1>1, <2>2, <2>3
<1>6. ASSUME DeleteExpiredParts PROVE CleanerFits'
  <2>1. /\ cleaner'.at = "uploads" /\ cleaner'.unread = cleaner.unread
        /\ cleaner'.read = cleaner.read
    BY <1>0, <1>6 DEF DeleteExpiredParts, CleanerRow
  <2> QED BY <1>1, <2>1
<1>7. ASSUME ListObjects PROVE CleanerFits'
  <2>1. /\ cleaner'.at = "look" /\ cleaner'.unread = cleaner.unread
        /\ cleaner'.read = cleaner.read
    BY <1>0, <1>7 DEF ListObjects, CleanerRow
  <2> QED BY <1>1, <2>1
<1>8. ASSUME Look PROVE CleanerFits'
  <2>1. PICK o \in cleaner.listed :
          cleaner' = IF o \in Referred(references)
                     THEN [cleaner EXCEPT !.listed = @ \ {o}]
                     ELSE [cleaner EXCEPT !.listed = @ \ {o}, !.object = o, !.at = "delete"]
    BY <1>8 DEF Look
  <2>2. cleaner.at = "look"
    BY <1>8 DEF Look
  <2>3. /\ cleaner'.unread = cleaner.unread /\ cleaner'.read = cleaner.read
        /\ cleaner'.at = "look" \/ (cleaner'.at = "delete" /\ cleaner'.object = o)
    <3>1. CASE cleaner' = [cleaner EXCEPT !.listed = @ \ {o}]
      BY <1>0, <2>2, <3>1 DEF CleanerRow
    <3>2. CASE cleaner' = [cleaner EXCEPT !.listed = @ \ {o}, !.object = o, !.at = "delete"]
      BY <1>0, <3>2 DEF CleanerRow
    <3> QED BY <2>1, <3>1, <3>2
  <2> QED BY <1>0, <1>1, <2>3
<1>9. ASSUME DeleteBlob PROVE CleanerFits'
  <2>1. /\ cleaner.at = "delete"
        /\ cleaner'.unread = cleaner.unread /\ cleaner'.read = cleaner.read /\ cleaner'.object = cleaner.object
        /\ cleaner'.at \in {"look", "deleteRow"}
    BY <1>0, <1>9 DEF DeleteBlob, CleanerRow
  <2> QED BY <1>1, <2>1 DEF CleanerFits
<1>10. ASSUME DeleteRow PROVE CleanerFits'
  <2>1. cleaner'.at = "look" /\ cleaner'.unread = cleaner.unread /\ cleaner'.read = cleaner.read
    BY <1>0, <1>10 DEF DeleteRow, CleanerRow
  <2> QED BY <1>1, <2>1
<1>11. ASSUME EndCleanup PROVE CleanerFits'
  <2>1. cleaner'.at = "idle" /\ cleaner'.unread = {} /\ cleaner'.read = {}
    BY <1>11 DEF EndCleanup, Resting
  <2> QED BY <1>1, <2>1
<1> QED BY <1>2, <1>3, <1>4, <1>5, <1>6, <1>7, <1>8, <1>9, <1>10, <1>11, <1>12, Writers

\* Who holds an upload after a step held it before, or has found it unlocked.
LEMMA Holders ==
    ASSUME TypeOK, RequestsFit, [Next]_vars, NEW r \in Request, request'[r].at \in Holding
    PROVE  \/ request[r].at \in Holding /\ request'[r].upload = request[r].upload
           \/ /\ ~Locked(request'[r].upload)
              /\ \A q \in Request \ {r} : request'[q] = request[q]
<1>1. request'[r].at # "expire"
  BY DEF Holding, InMemory
<1> QED BY <1>1, OnUploads DEF OnUpload, Entered, Begins

\* A second request on an upload waits for the first.
LEMMA OneHolderStays ==
    ASSUME TypeOK, RequestsFit, OneHolder, [Next]_vars
    PROVE  OneHolder'
<1> SUFFICES ASSUME NEW q \in Request, NEW r \in Request,
                    request'[q].at \in Holding, request'[r].at \in Holding,
                    request'[q].upload = request'[r].upload, q # r
             PROVE  FALSE
  BY DEF OneHolder
<1>1. ASSUME NEW a \in Request, NEW b \in Request, a # b, request'[b].at \in Holding,
             request'[a].upload = request'[b].upload, ~Locked(request'[a].upload),
             request'[b] = request[b]
      PROVE  FALSE
  BY <1>1 DEF Locked, Holding
<1>2. CASE request[q].at \in Holding /\ request[r].at \in Holding
             /\ request'[q].upload = request[q].upload /\ request'[r].upload = request[r].upload
  BY <1>2 DEF OneHolder
<1> QED BY <1>1, <1>2, Holders

\* An upload that is not late is written by nobody else while a request keeps it.
LEMMA KeptUpload ==
    ASSUME IInv, [Next]_vars, NEW r \in Request, request[r].at \in Holding,
           request[r].upload \notin late,
           uploads'[request[r].upload] # uploads[request[r].upload]
    PROVE  LET u == request[r].upload IN
           \/ /\ RecordPart(r) /\ request[r].at = "record"
              /\ Becomes(u, request[r].row.status, uploads[u].parts \union request[r].part, Nothing)
           \/ /\ MarkCompleting(r) /\ request[r].at = "mark"
              /\ Becomes(u, "completing", uploads[u].parts, Nothing)
           \/ /\ Reopen(r) /\ request[r].at = "reopen"
              /\ Becomes(u, "open", uploads[u].parts, Nothing)
           \/ /\ WriteCancelled(r) /\ request[r].at = "cancel"
              /\ Becomes(u, "cancelled", uploads[u].parts, Nothing)
           \/ /\ Commit(r) \/ CommitFails(r)
              /\ request[r].at = "commit"
              /\ uploads[u].status = "completing"
              /\ Becomes(u, "complete", uploads[u].parts, request[r].object)
<1>0. IInv!1 /\ IInv!2 /\ IInv!3 /\ IInv!4
  BY DEF IInv
<1>1. PICK u \in Upload : u = request[r].upload /\ uploads[u].status # "none"
  BY <1>0 DEF RequestsFit, OnUpload
<1>2. PICK v \in Upload : Written(v)
  BY <1>0, <1>1, UploadsWritten
<1>3. v = u
  BY <1>1, <1>2 DEF Written, Becomes
<1>4. \A q \in Request : Holds(q, u) => q = r
  BY <1>0, <1>1 DEF Holds, OneHolder
<1> QED BY <1>1, <1>2, <1>3, <1>4, ZenonT(60) DEF Written

\* An upload that nobody holds, and that is not late, changes only from "none".
LEMMA FreeUpload ==
    ASSUME IInv, [Next]_vars, NEW u \in Upload, ~Locked(u), u \notin late,
           uploads[u].status # "none"
    PROVE  uploads'[u] = uploads[u]
<1>0. IInv!1 /\ IInv!2 /\ IInv!3 /\ IInv!4
  BY DEF IInv
<1>1. \A r \in Request : ~Holds(r, u)
  BY DEF Locked, Holds, Holding
<1> QED BY <1>0, <1>1, UploadsWritten DEF Written, Becomes

\* A request that holds an upload before and after a step, and what it did.
Passes(r) ==
    \/ request'[r] = request[r]
    \/ /\ request'[r].object = request[r].object
       /\ \/ StorePart(r) /\ request[r].at = "store" /\ request'[r].at = "record"
          \/ MarkCompleting(r) /\ request[r].at = "mark" /\ request'[r].at = "assemble"
          \/ AssembleFails(r) /\ request[r].at = "assemble" /\ request'[r].at = "reopen"
          \/ Commit(r) /\ request[r].at = "commit" /\ request'[r].at = "deleteParts"
          \/ CommitFails(r) /\ request[r].at = "commit" /\ request'[r].at = "reopen"
          \/ Reopen(r) /\ request[r].at = "reopen" /\ request'[r].at = "discard"
          \/ WriteCancelled(r) /\ request[r].at = "cancel" /\ request'[r].at = "deleteParts"
    \/ /\ Assemble(r) /\ request[r].at = "assemble" /\ request'[r].at = "commit"
       /\ request'[r].object \in Object \ taken

\* The stages between the first and the last step on an upload.
LEMMA HeldPasses ==
    ASSUME TypeOK, [Next]_vars, NEW r \in Request,
           request[r].at \in Holding, request'[r].at \in Holding
    PROVE  Passes(r)
<1>1. request'[r] = request[r] \/ Moves(r)
  BY OneMoves DEF Idle, Holding, InMemory
<1>2. request[r].at # "idle" /\ request'[r].at \notin {"insert", "expire"} \union InTransaction
  BY DEF Holding, InMemory, InTransaction
<1>3. [Idle EXCEPT !.at = "insert"].at = "insert"
  BY DEF Idle
<1> QED BY <1>1, <1>2, <1>3, ZenonT(60) DEF Moves, Passes, GoesOn, Begins

\* A commit that goes through completes the upload, and a cancellation cancels it.
LEMMA Closes ==
    ASSUME TypeOK, RequestsFit, NEW r \in Request
    PROVE  /\ Commit(r) => uploads'[request[r].upload].status = "complete"
           /\ WriteCancelled(r) => uploads'[request[r].upload].status = "cancelled"
<1>0. uploads \in [Upload -> UploadRow] /\ request \in [Request -> RequestRow]
  BY DEF TypeOK
<1>1. ASSUME Commit(r) PROVE uploads'[request[r].upload].status = "complete"
  <2>1. request[r].upload \in Upload
    BY <1>1 DEF Commit, Step, RequestsFit, OnUpload, Holding, InMemory
  <2>2. uploads[request[r].upload] \in UploadRow
    BY <1>0, <2>1
  <2> QED BY <1>0, <1>1, <2>1, <2>2 DEF Commit, CommitObject, UploadRow
<1>2. ASSUME WriteCancelled(r) PROVE uploads'[request[r].upload].status = "cancelled"
  <2>1. request[r].upload \in Upload /\ request[r].row \in UploadRow
    BY <1>0, <1>2 DEF WriteCancelled, Step, RequestsFit, OnUpload, Holding, InMemory, RequestRow
  <2>2. PICK row \in UploadRow : row = [request[r].row EXCEPT !.status = "cancelled"]
    BY <2>1, UploadWith
  <2>3. row.status = "cancelled"
    BY <2>1, <2>2, UploadWith
  <2> QED BY <1>0, <1>2, <2>1, <2>2, <2>3, WrittenBack DEF WriteCancelled
<1> QED BY <1>1, <1>2

\* What the status of an upload becomes that is kept and is not late.
LEMMA KeptStatus ==
    ASSUME IInv, [Next]_vars, NEW r \in Request, request[r].at \in Holding,
           request[r].upload \notin late
    PROVE  LET u == request[r].upload IN
           \/ uploads'[u].status = uploads[u].status
           \/ uploads'[u].status \in Begun
           \/ uploads'[u].status = "cancelled" /\ request[r].at = "cancel"
           \/ uploads'[u].status = "complete" /\ request[r].at = "commit"
<1>1. request[r].at = "record" => request[r].row.status \in Begun
  BY DEF IInv, RequestsFit, OnUpload, Holding, InMemory
<1> QED BY <1>1, KeptUpload DEF Becomes, Begun

\* An upload keeps the status its holder left it with.
LEMMA StatusStays ==
    ASSUME IInv, [Next]_vars
    PROVE  StatusWhileHeld'
<1>0. /\ TypeOK /\ RequestsFit /\ CleanerFits /\ OneHolder /\ StatusWhileHeld
      /\ late \subseteq late'
  BY BlobsTyped DEF IInv
<1> DEFINE Right(at, u, status) ==
             /\ at \in {"store", "record", "mark", "assemble", "commit", "cancel"}
                  /\ u \notin late => status \in Begun
             /\ at = "reopen" /\ u \notin late => status \in Begun \union {"complete"}
             /\ at = "deleteParts" => status \notin Begun
<1> SUFFICES ASSUME NEW r \in Request, request'[r].at \in Holding
             PROVE  Right(request'[r].at, request'[r].upload, uploads'[request'[r].upload].status)
  BY <1>0 DEF StatusWhileHeld, Holding, InMemory
<1>1. PICK u \in Upload : u = request'[r].upload
  BY <1>0, OnUploads DEF OnUpload
<1>2. CASE request[r].at \in Holding /\ request[r].upload = u
  <2>1. Right(request[r].at, u, uploads[u].status)
    BY <1>0, <1>2 DEF StatusWhileHeld
  <2>2. Passes(r)
    BY <1>0, <1>2, HeldPasses
  <2>3. CASE request'[r].at = "deleteParts" /\ request[r].at # "deleteParts"
    <3>1. Commit(r) \/ WriteCancelled(r)
      BY <2>2, <2>3 DEF Passes
    <3> QED BY <1>0, <1>1, <1>2, <2>3, <3>1, Closes DEF Begun
  <2>4. CASE request'[r].at = "deleteParts" /\ request[r].at = "deleteParts"
    <3>1. uploads[u].status \notin Begun /\ uploads[u].status # "none"
      BY <1>0, <1>2, <2>1, <2>4 DEF RequestsFit, OnUpload
    <3>2. ASSUME NEW q \in Request, Holds(q, u) PROVE q = r
      BY <1>0, <1>2, <3>2 DEF Holds, OneHolder
    <3>3. uploads'[u] = uploads[u] \/ (u \in late /\ uploads'[u].status = "expired")
      BY <1>0, <2>4, <3>1, <3>2, UploadsWritten DEF Written, Becomes
    <3> QED BY <1>1, <2>4, <3>1, <3>3 DEF Begun
  <2>5. CASE request'[r].at # "deleteParts" /\ u \notin late
    <3>1. \/ uploads'[u].status = uploads[u].status
          \/ uploads'[u].status \in Begun
          \/ uploads'[u].status = "cancelled" /\ request[r].at = "cancel"
          \/ uploads'[u].status = "complete" /\ request[r].at = "commit"
      BY <1>2, <2>5, KeptStatus
    <3>2. request'[r] # request[r]
            \/ uploads'[u].status = uploads[u].status
            \/ uploads'[u].status \in Begun
      <4>1. ASSUME request[r].at \in {"cancel", "commit"}, uploads'[u] # uploads[u]
            PROVE  request'[r] # request[r]
        <5>1. \/ WriteCancelled(r) /\ request[r].at = "cancel"
              \/ (Commit(r) \/ CommitFails(r)) /\ request[r].at = "commit"
          BY <1>2, <2>5, <4>1, KeptUpload
        <5>2. PICK to \in {"deleteParts", "reopen"} :
                Step(r, request[r].at, [request[r] EXCEPT !.at = to])
          BY <5>1 DEF WriteCancelled, Commit, CommitFails
        <5>3. request[r] \in RequestRow /\ request'[r] = [request[r] EXCEPT !.at = to]
          BY <1>0, <5>2 DEF TypeOK, Step
        <5>4. request'[r].at = to
          BY <5>3 DEF RequestRow
        <5> QED BY <4>1, <5>4
      <4> QED BY <3>1, <4>1
    <3> QED BY <1>1, <2>1, <2>2, <2>5, <3>1, <3>2 DEF Passes
  <2>6. CASE request'[r].at # "deleteParts" /\ u \in late
    BY <1>1, <2>6
  <2> QED BY <2>3, <2>4, <2>5, <2>6
<1>3. CASE Entered(r, u)
  BY <1>0, <1>1, <1>3, FreeUpload DEF Entered, Begins, Begun
<1> QED BY <1>1, <1>2, <1>3, OnUploads, <1>0 DEF OnUpload

\* What an upload is answered with changes when it is committed, and when it is
\* complete and asked for again.
LEMMA AnswersWritten ==
    ASSUME IInv, [Next]_vars, NEW u \in Upload, answered'[u] # answered[u]
    PROVE  \/ /\ uploads[u].status = "complete" /\ ~Locked(u)
              /\ UNCHANGED <<uploads, request>>
              /\ answered'[u] = answered[u] \union {uploads[u].object}
           \/ \E r \in Request :
                /\ Commit(r) /\ Holds(r, u) /\ request[r].at = "commit"
                /\ request'[r].at = "deleteParts"
                /\ uploads'[u].status = "complete" /\ uploads'[u].object = request[r].object
                /\ answered'[u] = answered[u] \union {request[r].object}
<1>0. /\ TypeOK /\ RequestsFit /\ answered \in [Upload -> SUBSET Object]
      /\ uploads \in [Upload -> UploadRow] /\ request \in [Request -> RequestRow]
  BY DEF IInv, TypeOK
<1>1. ASSUME NEW r \in Request, AnswerAgain(r)
      PROVE  /\ uploads[u].status = "complete" /\ ~Locked(u)
             /\ UNCHANGED <<uploads, request>>
             /\ answered'[u] = answered[u] \union {uploads[u].object}
  BY <1>0, <1>1 DEF AnswerAgain, rows
<1>2. ASSUME NEW r \in Request, Commit(r)
      PROVE  /\ Commit(r) /\ Holds(r, u) /\ request[r].at = "commit"
             /\ request'[r].at = "deleteParts"
             /\ uploads'[u].status = "complete" /\ uploads'[u].object = request[r].object
             /\ answered'[u] = answered[u] \union {request[r].object}
  <2>1. request[r].at = "commit" /\ request[r].at \in Holding
    BY <1>2 DEF Commit, Step, Holding, InMemory
  <2>2. /\ request[r].upload = u
        /\ answered'[u] = answered[u] \union {request[r].object}
    BY <1>0, <1>2 DEF Commit
  <2>3. request'[r].at = "deleteParts"
    <3>1. request[r] \in RequestRow /\ request'[r] = [request[r] EXCEPT !.at = "deleteParts"]
      BY <1>0, <1>2 DEF Commit, Step
    <3> QED BY <3>1 DEF RequestRow
  <2>4. uploads'[u].status = "complete" /\ uploads'[u].object = request[r].object
    <3>1. uploads[u] \in UploadRow
      BY <1>0
    <3> QED BY <1>0, <1>2, <2>2, <3>1 DEF Commit, CommitObject, UploadRow
  <2> QED BY <1>2, <2>1, <2>2, <2>3, <2>4 DEF Holds
<1> QED BY <1>1, <1>2, Writers

\* An upload is answered with one object, and not while it may still be completed.
LEMMA AnswersStayFit ==
    ASSUME IInv, [Next]_vars
    PROVE  AnswersFit'
<1>0. /\ TypeOK /\ RequestsFit /\ CleanerFits /\ OneHolder /\ StatusWhileHeld /\ AnswersFit
      /\ \A u \in Upload : uploads[u].status # "none" => uploads'[u].status # "none"
  BY UploadsTyped DEF IInv
<1>1. ASSUME NEW u \in Upload
      PROVE  /\ uploads'[u].status \in Begun \union {"none"} => answered'[u] = {}
             /\ uploads'[u].status = "complete" => answered'[u] \subseteq {uploads'[u].object}
             /\ \E o : answered'[u] \subseteq {o}
  <2>1. CASE answered'[u] = answered[u]
    <3>1. /\ uploads[u].status \in Begun \union {"none"} => answered[u] = {}
          /\ uploads[u].status = "complete" => answered[u] \subseteq {uploads[u].object}
          /\ \E o : answered[u] \subseteq {o}
      BY <1>0 DEF AnswersFit
    <3>2. CASE uploads'[u] = uploads[u]
      BY <2>1, <3>1, <3>2
    <3>3. CASE uploads'[u] # uploads[u]
      <4>1. Written(u)
        BY <1>0, <3>3, UploadsWritten DEF Written, Becomes
      <4>2. CASE uploads[u].status = "none" /\ uploads'[u].status = "open"
        BY <2>1, <3>1, <4>2
      <4>3. CASE uploads'[u].status = "expired"
        BY <2>1, <3>1, <4>3 DEF Begun
      <4>4. CASE \E r \in Request : Holds(r, u) /\ request[r].at \in {"record", "mark", "reopen", "cancel", "commit"}
        <5>1. answered[u] = {}
          BY <1>0, <4>4 DEF AnswersFit, Holds
        <5> QED BY <2>1, <5>1
      <4> QED BY <4>1, <4>2, <4>3, <4>4 DEF Written, Becomes
    <3> QED BY <3>2, <3>3
  <2>2. CASE /\ uploads[u].status = "complete" /\ UNCHANGED <<uploads, request>>
             /\ answered'[u] = answered[u] \union {uploads[u].object}
    <3>1. answered'[u] \subseteq {uploads[u].object}
      BY <1>0, <2>2 DEF AnswersFit
    <3> QED BY <2>2, <3>1 DEF Begun
  <2>3. CASE \E r \in Request :
               /\ Holds(r, u) /\ request[r].at = "commit"
               /\ uploads'[u].status = "complete" /\ uploads'[u].object = request[r].object
               /\ answered'[u] = answered[u] \union {request[r].object}
    <3>1. PICK r \in Request :
               /\ Holds(r, u) /\ request[r].at = "commit"
               /\ uploads'[u].status = "complete" /\ uploads'[u].object = request[r].object
               /\ answered'[u] = answered[u] \union {request[r].object}
      BY <2>3
    <3>2. answered[u] = {}
      BY <1>0, <3>1 DEF AnswersFit, Holds
    <3> QED BY <3>1, <3>2 DEF Begun
  <2> QED BY <2>1, <2>2, <2>3, AnswersWritten
<1>2. ASSUME NEW r \in Request, request'[r].at \in Holding \ {"deleteParts", "discard"}
      PROVE  answered'[request'[r].upload] = {}
  <2>1. PICK u \in Upload : u = request'[r].upload
    BY <1>0, <1>2, OnUploads DEF OnUpload
  <2>2. request'[r].at \in OnUpload /\ request'[r].at # "expire"
    BY <1>2 DEF OnUpload, Holding, InMemory
  <2>3. CASE request[r].at \in Holding /\ request[r].upload = u
    <3>1. request[r].at \notin {"deleteParts", "discard"}
      <4>1. Passes(r)
        BY <1>0, <1>2, <2>3, HeldPasses
      <4> QED BY <1>2, <4>1 DEF Passes
    <3>2. answered[u] = {}
      BY <1>0, <2>3, <3>1 DEF AnswersFit
    <3>3. Locked(u)
      BY <2>3 DEF Locked, Holding
    <3>4. ASSUME NEW q \in Request, Holds(q, u) PROVE q = r
      BY <1>0, <2>3, <3>4 DEF OneHolder, Holds
    <3> QED BY <1>2, <2>1, <3>2, <3>3, <3>4, AnswersWritten
  <2>4. CASE Entered(r, u)
    <3>1. ~Locked(u) /\ uploads[u].status \in Begun
      BY <2>1, <2>2, <2>4 DEF Entered, Begins
    <3>2. answered[u] = {}
      BY <1>0, <3>1 DEF AnswersFit
    <3>3. answered'[u] = answered[u]
      BY <3>1, AnswersWritten DEF Begun, Locked, Holds, Holding
    <3> QED BY <2>1, <3>2, <3>3
  <2> QED BY <1>0, <2>1, <2>2, <2>3, <2>4, <1>2, OnUploads
<1> QED BY <1>1, <1>2 DEF AnswersFit

\* The parts of an upload are taken away by who closed it, and when it is late.
LEMMA PartsTaken ==
    ASSUME IInv, [Next]_vars, NEW u \in Upload \ late
    PROVE  \/ partBlobs[u] \subseteq partBlobs'[u]
           \/ \E r \in Request : DeleteParts(r) /\ Holds(r, u) /\ request[r].at = "deleteParts"
<1>0. /\ TypeOK /\ CleanerFits /\ partBlobs \in [Upload -> SUBSET Part]
  BY DEF IInv, TypeOK
<1>1. ASSUME NEW r \in Request, StorePart(r) PROVE partBlobs[u] \subseteq partBlobs'[u]
  BY <1>0, <1>1 DEF StorePart
<1>2. ASSUME NEW r \in Request, DeleteParts(r), request[r].upload # u
      PROVE  partBlobs'[u] = partBlobs[u]
  BY <1>0, <1>2 DEF DeleteParts
<1>3. ASSUME NEW r \in Request, DeleteParts(r), request[r].upload = u
      PROVE  Holds(r, u) /\ request[r].at = "deleteParts"
  BY <1>3 DEF DeleteParts, Step, Holds, Holding, InMemory
<1>4. ASSUME DeleteExpiredParts PROVE partBlobs'[u] = partBlobs[u]
  <2>1. cleaner.expired.upload # u
    BY <1>0, <1>4 DEF DeleteExpiredParts, CleanerFits
  <2> QED BY <1>0, <1>4, <2>1 DEF DeleteExpiredParts
<1> QED BY <1>1, <1>2, <1>3, <1>4, Writers

\* The parts of an upload that goes on, or may be reopened, stay there.
LEMMA PartsStay ==
    ASSUME IInv, [Next]_vars
    PROVE  PartsAreThere'
<1>0. /\ TypeOK /\ RequestsFit /\ CleanerFits /\ OneHolder /\ StatusWhileHeld /\ PartsAreThere
      /\ late \subseteq late'
      /\ request \in [Request -> RequestRow] /\ partBlobs \in [Upload -> SUBSET Part]
  BY BlobsTyped DEF IInv, TypeOK
<1> SUFFICES ASSUME NEW u \in Upload, u \notin late, u \notin late'
             PROVE  /\ uploads'[u].status \in Begun \union {"none"}
                         \/ (\E r \in Request : Holds(r, u)' /\ request'[r].at = "reopen")
                         => uploads'[u].parts \subseteq partBlobs'[u]
                    /\ \A r \in Request : Holds(r, u)' /\ request'[r].at = "record" =>
                         request'[r].part \subseteq partBlobs'[u]
  BY <1>0 DEF PartsAreThere
<1>1. \A q, r \in Request : Holds(q, u) /\ Holds(r, u) => q = r
  BY <1>0 DEF Holds, OneHolder
<1>2. ASSUME NEW r \in Request, Holds(r, u), request[r].at = "deleteParts"
      PROVE  uploads[u].status \notin Begun \union {"none"}
  BY <1>0, <1>2 DEF Holds, StatusWhileHeld, RequestsFit, OnUpload
<1>3. ASSUME NEW r \in Request, Holds(r, u), request[r].at \in {"assemble", "commit"}
      PROVE  uploads[u].status \in Begun
  BY <1>0, <1>3 DEF Holds, StatusWhileHeld
<1>4. ASSUME NEW r \in Request, Holds(r, u)', request'[r].at \in {"reopen", "record"}
      PROVE  Holds(r, u) /\ Passes(r) /\ request'[r].part = request[r].part
  <2>1. request'[r].at \in OnUpload /\ request'[r].upload = u /\ request'[r].at \in Holding
    BY <1>4 DEF OnUpload, Holds
  <2>2. ~Entered(r, u)
    BY <1>4 DEF Entered, Begins
  <2>3. request[r].at \in Holding /\ request[r].upload = u /\ request'[r].part = request[r].part
    BY <1>0, <2>1, <2>2, OnUploads
  <2> QED BY <1>0, <2>1, <2>3, HeldPasses DEF Holds
<1>5. ASSUME \/ uploads'[u].status \in Begun \union {"none"}
             \/ \E r \in Request : Holds(r, u)' /\ request'[r].at = "reopen"
      PROVE  uploads'[u].parts \subseteq partBlobs'[u]
  <2>1. ASSUME NEW r \in Request, Holds(r, u)', request'[r].at = "reopen"
        PROVE  Holds(r, u) /\ request[r].at \in {"reopen", "assemble", "commit"}
    BY <1>4, <2>1 DEF Passes
  <2>2. CASE uploads'[u] = uploads[u]
    <3>1. \/ uploads[u].status \in Begun \union {"none"}
          \/ \E r \in Request : Holds(r, u) /\ request[r].at = "reopen"
      BY <1>3, <1>5, <2>1, <2>2
    <3>2. uploads[u].parts \subseteq partBlobs[u]
      BY <1>0, <3>1 DEF PartsAreThere
    <3>3. \A r \in Request : Holds(r, u) => request[r].at # "deleteParts"
      BY <1>1, <1>2, <3>1
    <3> QED BY <2>2, <3>2, <3>3, PartsTaken
  <2>3. CASE uploads'[u] # uploads[u]
    <3>1. Written(u)
      BY <1>0, <2>3, UploadsWritten DEF Written, Becomes
    <3>2. CASE uploads[u].status = "none" /\ uploads'[u].parts = uploads[u].parts
      <4>1. uploads[u].parts \subseteq partBlobs[u]
        BY <1>0, <3>2 DEF PartsAreThere
      <4> QED BY <1>2, <3>2, <4>1, PartsTaken
    <3>3. ASSUME NEW r \in Request, Holds(r, u),
                 request[r].at \in {"mark", "reopen", "cancel", "commit"},
                 uploads'[u].parts = uploads[u].parts
          PROVE  uploads'[u].parts \subseteq partBlobs'[u]
      <4>1. uploads[u].status \in Begun \/ request[r].at = "reopen"
        BY <1>0, <3>3 DEF StatusWhileHeld, Holds
      <4>2. uploads[u].parts \subseteq partBlobs[u]
        BY <1>0, <3>3, <4>1 DEF PartsAreThere
      <4> QED BY <1>1, <3>3, <4>2, PartsTaken
    <3>4. ASSUME NEW r \in Request, Holds(r, u), request[r].at = "record",
                 uploads'[u].parts = uploads[u].parts \union request[r].part
          PROVE  uploads'[u].parts \subseteq partBlobs'[u]
      <4>1. uploads[u].status \in Begun
        BY <1>0, <3>4 DEF StatusWhileHeld, Holds
      <4>2. uploads[u].parts \subseteq partBlobs[u] /\ request[r].part \subseteq partBlobs[u]
        BY <1>0, <3>4, <4>1 DEF PartsAreThere
      <4> QED BY <1>1, <3>4, <4>2, PartsTaken
    <3> QED BY <3>1, <3>2, <3>3, <3>4 DEF Written, Becomes
  <2> QED BY <2>2, <2>3
<1>6. ASSUME NEW r \in Request, Holds(r, u)', request'[r].at = "record"
      PROVE  request'[r].part \subseteq partBlobs'[u]
  <2>1. Holds(r, u) /\ request'[r].part = request[r].part
          /\ (request'[r] = request[r] \/ StorePart(r))
    BY <1>4, <1>6 DEF Passes
  <2>2. CASE request'[r] = request[r]
    BY <1>0, <1>1, <1>6, <2>1, <2>2, PartsTaken DEF PartsAreThere
  <2>3. CASE StorePart(r)
    BY <1>0, <2>1, <2>3 DEF StorePart, Holds
  <2> QED BY <2>1, <2>2, <2>3
<1> QED BY <1>5, <1>6

-----------------------------------------------------------------------------
(* The count of the uploads under way *)

\* Whoever is to insert, now, has counted just before or was to already.
LEMMA Inserters ==
    ASSUME TypeOK, [Next]_vars, NEW r \in Request, request'[r].at = "insert"
    PROVE  \/ request'[r] = request[r]
           \/ CountActive(r) /\ \A q \in Request \ {r} : request'[q] = request[q]
<1>1. CASE request'[r] # request[r]
  <2>1. (\A q \in Request \ {r} : request'[q] = request[q]) /\ Moves(r)
    BY <1>1, OneMoves DEF Idle
  <2> QED BY <2>1 DEF Moves, GoesOn, Begins, InTransaction
<1> QED BY <1>1

\* Only an insertion adds to what is counted: a status that a request puts back was
\* counted all along, or its upload is late, or counted no more for being reopened.
LEMMA CountGrows ==
    ASSUME IInv, [Next]_vars
    PROVE  /\ \E u : Active' \subseteq Active \union {u}
           /\ \/ Counted' \subseteq Counted
              \/ /\ \E r \in Request : InsertUpload(r)
                 /\ \E u \in Upload : Counted' \subseteq Counted \union {u}
<1>0. /\ TypeOK /\ RequestsFit /\ CleanerFits /\ OneHolder /\ StatusWhileHeld
      /\ late \subseteq late' /\ reopened \subseteq reopened'
  BY BlobsTyped DEF IInv
<1>1. CASE UNCHANGED uploads
  <2>1. Active' \subseteq Active /\ Counted' \subseteq Counted
    BY <1>0, <1>1 DEF Active, Counted
  <2>2. \A u : Active' \subseteq Active \union {u}
    BY <2>1
  <2> QED BY <2>1, <2>2
<1>2. ASSUME NEW u \in Upload, Written(u)
      PROVE  /\ Active' \subseteq Active \union {u}
             /\ \/ Counted' \subseteq Counted
                \/ (\E r \in Request : InsertUpload(r)) /\ Counted' \subseteq Counted \union {u}
  <2>1. \A v \in Upload \ {u} : uploads'[v] = uploads[v]
    BY <1>2 DEF Written, Becomes
  <2>2. Active' \subseteq Active \union {u} /\ Counted' \subseteq Counted \union {u}
    BY <1>0, <2>1 DEF Active, Counted
  <2>3. ASSUME u \notin Counted' \/ u \in Counted PROVE Counted' \subseteq Counted
    BY <2>2, <2>3
  <2>4. ASSUME u \in late \/ uploads'[u].status \notin Begun \/ uploads[u].status \in Begun
        PROVE  u \notin Counted' \/ u \in Counted
    BY <1>0, <2>4 DEF Active, Counted
  <2>5. CASE u \notin late /\ \E r \in Request : Holds(r, u) /\
               (\/ request[r].at \in {"record", "mark"}
                \/ request[r].at = "reopen" /\ Reopen(r))
    <3>1. PICK r \in Request : Holds(r, u) /\
               (\/ request[r].at \in {"record", "mark"}
                \/ request[r].at = "reopen" /\ Reopen(r))
      BY <2>5
    <3>2. uploads[u].status \in Begun \/ (uploads[u].status = "complete" /\ Reopen(r))
      BY <1>0, <2>5, <3>1 DEF StatusWhileHeld, Holds
    <3>3. CASE uploads[u].status = "complete" /\ Reopen(r)
      <4>1. u \in reopened'
        BY <1>0, <3>1, <3>3 DEF Reopen, Holds
      <4> QED BY <2>2, <2>3, <4>1 DEF Counted
    <3> QED BY <2>2, <2>3, <2>4, <3>2, <3>3
  <2>6. \/ \E r \in Request : InsertUpload(r)
        \/ u \in late
        \/ uploads'[u].status \notin Begun
        \/ \E r \in Request : Holds(r, u) /\
               (\/ request[r].at \in {"record", "mark"}
                \/ request[r].at = "reopen" /\ Reopen(r))
    BY <1>2 DEF Written, Becomes, Begun
  <2> QED BY <2>2, <2>3, <2>4, <2>5, <2>6
<1> QED BY <1>0, <1>1, <1>2, UploadsWritten

\* The bound on the uploads under way holds, and whoever is to insert may.
LEMMA CountStays ==
    ASSUME IInv, [Next]_vars
    PROVE  CountHolds'
<1>0. /\ TypeOK /\ CountHolds /\ MaxTransfers \in Nat
      /\ late \subseteq late' /\ reopened \subseteq reopened'
  BY BlobsTyped, ObjectAssumption DEF IInv
<1>1. IsFiniteSet(Active')
  <2>1. PICK u : Active' \subseteq Active \union {u}
    BY CountGrows
  <2> QED BY <1>0, <2>1, FS_AddElement, FS_Subset DEF CountHolds
<1>2. IsFiniteSet(Counted) /\ IsFiniteSet(Counted')
  BY <1>0, <1>1, FS_Subset DEF CountHolds, Counted
<1>3. Cardinality(Counted) \in Nat /\ Cardinality(Counted') \in Nat
  BY <1>2, FS_CardinalityType
<1>4. CASE Counted' \subseteq Counted
  <2>1. Cardinality(Counted') <= Cardinality(Counted)
    BY <1>2, <1>4, FS_Subset
  <2>2. Cardinality(Counted') <= MaxTransfers
    BY <1>0, <1>3, <2>1 DEF CountHolds
  <2>3. ASSUME NEW r \in Request, request[r].at = "insert"
        PROVE  Cardinality(Counted') < MaxTransfers
    BY <1>0, <1>3, <2>1, <2>3 DEF CountHolds
  <2>4. ASSUME NEW r \in Request, CountActive(r) PROVE Cardinality(Counted') < MaxTransfers
    <3>1. Cardinality(Active) < MaxTransfers
      BY <2>4 DEF CountActive
    <3>2. Counted \subseteq Active /\ IsFiniteSet(Active)
      BY <1>0 DEF CountHolds, Counted
    <3>3. Cardinality(Counted) <= Cardinality(Active) /\ Cardinality(Active) \in Nat
      BY <3>2, FS_Subset, FS_CardinalityType
    <3> QED BY <1>0, <1>3, <2>1, <3>1, <3>3
  <2>5. ASSUME NEW r \in Request, request'[r].at = "insert"
        PROVE  Cardinality(Counted') < MaxTransfers
    BY <1>0, <2>3, <2>4, <2>5, Inserters
  <2>6. ASSUME NEW q \in Request, NEW r \in Request, request'[q].at = "insert", request'[r].at = "insert"
        PROVE  q = r
    BY <1>0, <2>6, Inserters DEF CountActive, NoOtherInsert, CountHolds
  <2> QED BY <1>1, <2>2, <2>5, <2>6 DEF CountHolds
<1>5. CASE /\ \E r \in Request : InsertUpload(r)
           /\ \E u \in Upload : Counted' \subseteq Counted \union {u}
  <2>1. PICK r \in Request : InsertUpload(r)
    BY <1>5
  <2>2. request[r].at = "insert" /\ Cardinality(Counted) < MaxTransfers
    BY <1>0, <2>1 DEF InsertUpload, Step, CountHolds
  <2>3. PICK u \in Upload : Counted' \subseteq Counted \union {u}
    BY <1>5
  <2>4. Cardinality(Counted') <= MaxTransfers
    <3>1. /\ IsFiniteSet(Counted \union {u})
          /\ Cardinality(Counted \union {u}) <= Cardinality(Counted) + 1
      <4>1. /\ IsFiniteSet(Counted \union {u})
            /\ \/ Cardinality(Counted \union {u}) = Cardinality(Counted)
               \/ Cardinality(Counted \union {u}) = Cardinality(Counted) + 1
        BY <1>2, FS_AddElement
      <4> QED BY <1>3, <4>1
    <3>2. Cardinality(Counted') <= Cardinality(Counted \union {u})
            /\ Cardinality(Counted \union {u}) \in Nat
      BY <2>3, <3>1, FS_Subset, FS_CardinalityType
    <3> QED BY <1>0, <1>3, <2>2, <3>1, <3>2
  <2>5. ASSUME NEW q \in Request PROVE request'[q].at # "insert"
    <3>1. request'[r] = Idle /\ \A p \in Request \ {r} : request'[p] = request[p]
      BY <1>0, <2>1 DEF InsertUpload, Step, TypeOK
    <3>2. CASE q = r
      BY <3>1, <3>2 DEF Idle
    <3>3. CASE q # r
      BY <1>0, <2>2, <3>1, <3>3 DEF CountHolds
    <3> QED BY <3>2, <3>3
  <2> QED BY <1>1, <2>4, <2>5 DEF CountHolds
<1> QED BY <1>4, <1>5, CountGrows

-----------------------------------------------------------------------------
(* Objects *)

\* An object that is owned was owned before, or is new.
LEMMA Owners ==
    ASSUME IInv, [Next]_vars, NEW r \in Request, Owned(r)'
    PROVE  /\ request[r].at \in Holding /\ request'[r].upload = request[r].upload
           /\ \/ /\ Owned(r) /\ request'[r].object = request[r].object
                 /\ request'[r] = request[r] \/ CommitFails(r) \/ Reopen(r)
              \/ Assemble(r) /\ request'[r].object \in Object \ taken
                   /\ \A q \in Request \ {r} : request'[q] = request[q]
<1>0. TypeOK /\ RequestsFit
  BY DEF IInv
<1>1. request'[r].at \in {"commit", "reopen", "discard"} /\ request'[r].object # Nothing
  BY DEF Owned
<1>2. request'[r].at \in OnUpload /\ request'[r].at \in Holding
  BY <1>1 DEF OnUpload, Holding, InMemory
<1>3. request[r].at \in Holding /\ request'[r].upload = request[r].upload
  BY <1>0, <1>1, <1>2, OnUploads DEF Entered, Begins, OnUpload
<1>4. Passes(r)
  BY <1>0, <1>2, <1>3, HeldPasses
<1>5. request[r].at = "assemble" => request[r].object = Nothing
  BY <1>0 DEF RequestsFit
<1>6. \A q \in Request \ {r} : request'[q] = request[q] \/ request'[r] = request[r]
  BY <1>0, OneMoves
<1>7. ASSUME Assemble(r) PROVE \A q \in Request \ {r} : request'[q] = request[q]
  BY <1>0, <1>7 DEF Assemble, Step, TypeOK
<1> QED BY <1>1, <1>3, <1>4, <1>5, <1>7 DEF Passes, Owned

\* What cleanup has read, it had read before or reads as it is.
LEMMA ReadBefore ==
    ASSUME TypeOK, [Next]_vars, NEW x \in cleaner'.read
    PROVE  x \in cleaner.read \/ \E u \in Upload : x.upload = u /\ x.row = uploads[u]
<1>0. cleaner \in CleanerRow
  BY DEF TypeOK
<1>1. ASSUME ReadListed
      PROVE  x \in cleaner.read \/ \E u \in Upload : x.upload = u /\ x.row = uploads[u]
  <2>1. PICK u \in cleaner.unread :
          cleaner' = [cleaner EXCEPT !.unread = @ \ {u},
                                     !.read = @ \union {[upload |-> u, row |-> uploads[u]]}]
    BY <1>1 DEF ReadListed
  <2>2. u \in Upload /\ cleaner'.read = cleaner.read \union {[upload |-> u, row |-> uploads[u]]}
    BY <1>0, <2>1 DEF CleanerRow
  <2> QED BY <2>2
<1>2. ASSUME ExpireUpload PROVE x \in cleaner.read
  <2>1. PICK y \in cleaner.read :
          cleaner' = [cleaner EXCEPT !.at = "deleteParts", !.expired = y, !.read = @ \ {y}]
    BY <1>2 DEF ExpireUpload
  <2>2. cleaner'.read = cleaner.read \ {y}
    BY <1>0, <2>1 DEF CleanerRow
  <2> QED BY <2>2
<1>3. ASSUME ListExpired \/ EndCleanup PROVE cleaner'.read = {}
  <2>1. CASE ListExpired
    BY <2>1 DEF ListExpired, Resting
  <2>2. CASE EndCleanup
    BY <2>2 DEF EndCleanup, Resting
  <2> QED BY <1>3, <2>1, <2>2
<1>4. ASSUME Look PROVE cleaner'.read = cleaner.read
  <2>1. PICK o \in cleaner.listed :
          cleaner' = IF o \in Referred(references)
                     THEN [cleaner EXCEPT !.listed = @ \ {o}]
                     ELSE [cleaner EXCEPT !.listed = @ \ {o}, !.object = o, !.at = "delete"]
    BY <1>4 DEF Look
  <2> QED BY <1>0, <2>1 DEF CleanerRow
<1>5. ASSUME \/ \E r \in Request : CommitReferences(r)
             \/ DeleteExpiredParts \/ ListObjects \/ DeleteBlob \/ DeleteRow
      PROVE  cleaner'.read = cleaner.read
  BY <1>0, <1>5 DEF CommitReferences, DeleteExpiredParts, ListObjects, DeleteBlob, DeleteRow,
                    CleanerRow
<1> QED BY <1>1, <1>2, <1>3, <1>4, <1>5, Writers

\* The object of a completion stays its own until it is answered or discarded.
LEMMA ObjectsStayOwned ==
    ASSUME IInv, [Next]_vars
    PROVE  ObjectsOwned'
<1>0. /\ TypeOK /\ RequestsFit /\ CleanerFits /\ OneHolder /\ ObjectsOwned
      /\ taken \subseteq taken' /\ taken \subseteq Object
      /\ Nothing \notin Object
  BY BlobsTyped, ObjectAssumption DEF IInv, TypeOK
<1>a. ASSUME NEW r \in Request, request[r].at = "commit" PROVE Owned(r)
  BY <1>0, <1>a DEF RequestsFit, Owned
<1>b. ASSUME NEW u \in Upload, uploads'[u].object # uploads[u].object
      PROVE  \/ uploads'[u].object = Nothing
             \/ \E x \in cleaner.read : x.upload = u /\ uploads'[u].object = x.row.object
             \/ \E r \in Request : /\ request[r].at = "commit" /\ Holds(r, u)
                                   /\ uploads'[u].object = request[r].object
  BY <1>0, <1>b, UploadsWritten DEF Written, Becomes
<1>c. ASSUME NEW u \in Upload, NEW o \in answered'[u]
      PROVE  \/ o \in answered[u]
             \/ /\ uploads[u].status = "complete" /\ ~Locked(u) /\ UNCHANGED <<uploads, request>>
                /\ o = uploads[u].object
             \/ \E r \in Request : /\ request[r].at = "commit" /\ request'[r].at = "deleteParts"
                                   /\ o = request[r].object
  BY <1>c, AnswersWritten
<1>d. ASSUME NEW x \in cleaner'.read
      PROVE  x \in cleaner.read \/ \E u \in Upload : x.upload = u /\ x.row = uploads[u]
  BY <1>0, ReadBefore
<1>1. ASSUME NEW u \in Upload
      PROVE  answered'[u] \subseteq taken' /\ uploads'[u].object \in taken' \union {Nothing}
  <2>1. \A r \in Request : request[r].at = "commit" => request[r].object \in taken
    BY <1>0, <1>a DEF ObjectsOwned
  <2>2. uploads[u].status = "complete" => uploads[u].object # Nothing
    BY <1>0 DEF TypeOK, StatusTells
  <2>3. answered[u] \subseteq taken /\ uploads[u].object \in taken \union {Nothing}
    BY <1>0 DEF ObjectsOwned
  <2>4. uploads'[u].object \in taken \union {Nothing}
    <3>1. \A x \in cleaner.read : x.row.object \in taken \union {Nothing}
      BY <1>0 DEF ObjectsOwned
    <3> QED BY <1>b, <2>1, <2>3, <3>1
  <2>5. answered'[u] \subseteq taken
    BY <1>c, <2>1, <2>2, <2>3
  <2> QED BY <1>0, <2>4, <2>5
<1>2. ASSUME NEW r \in Request, Owned(r), Owned(r)', request'[r].object = request[r].object,
             request'[r].upload = request[r].upload, request[r].at \in Holding,
             request'[r] = request[r] \/ CommitFails(r) \/ Reopen(r)
      PROVE  /\ request'[r].object \in taken'
             /\ \A u \in Upload : request'[r].object \notin answered'[u]
             /\ \A u \in Upload : uploads'[u].object = request'[r].object => u = request'[r].upload
             /\ \A x \in cleaner'.read :
                  x.row.object = request'[r].object => x.upload = request'[r].upload
             /\ \A q \in Request : Owned(q)' /\ request'[q].object = request'[r].object => q = r
  <2> DEFINE o == request[r].object
  <2>0. /\ o \in taken /\ o # Nothing
        /\ \A u \in Upload : o \notin answered[u]
        /\ \A u \in Upload : uploads[u].object = o => u = request[r].upload
        /\ \A x \in cleaner.read : x.row.object = o => x.upload = request[r].upload
        /\ \A q \in Request : Owned(q) /\ request[q].object = o => q = r
    BY <1>0, <1>2 DEF ObjectsOwned, Owned
  <2>1. ASSUME NEW u \in Upload PROVE o \notin answered'[u]
    <3>1. o = uploads[u].object => Locked(u)
      BY <1>2, <2>0 DEF Locked, Holding
    <3>2. request'[r].at # "deleteParts"
      BY <1>2 DEF Owned
    <3> QED BY <1>a, <1>c, <2>0, <3>1, <3>2
  <2>2. ASSUME NEW u \in Upload, uploads'[u].object = o PROVE u = request[r].upload
    BY <1>a, <1>b, <2>0, <2>2 DEF Holds
  <2>3. ASSUME NEW q \in Request, Owned(q)', request'[q].object = o PROVE q = r
    <3>1. Owned(q) /\ request'[q].object = request[q].object
      BY <2>0, <2>3, Owners
    <3> QED BY <2>0, <2>3, <3>1
  <2>4. ASSUME NEW x \in cleaner'.read, x.row.object = o PROVE x.upload = request[r].upload
    BY <1>d, <2>0, <2>4
  <2> QED BY <1>0, <1>2, <2>0, <2>1, <2>2, <2>3, <2>4
<1>3. ASSUME NEW r \in Request, Assemble(r), request'[r].object \in Object \ taken,
             request'[r].upload = request[r].upload,
             \A q \in Request \ {r} : request'[q] = request[q]
      PROVE  /\ request'[r].object \in taken'
             /\ \A u \in Upload : request'[r].object \notin answered'[u]
             /\ \A u \in Upload : uploads'[u].object = request'[r].object => u = request'[r].upload
             /\ \A x \in cleaner'.read :
                  x.row.object = request'[r].object => x.upload = request'[r].upload
             /\ \A q \in Request : Owned(q)' /\ request'[q].object = request'[r].object => q = r
  <2>1. UNCHANGED <<uploads, answered, cleaner>>
    BY <1>3 DEF Assemble, rows
  <2>2. request'[r].object \in taken'
    <3>1. PICK o \in Object \ taken :
            /\ request' = [request EXCEPT ![r] = [request[r] EXCEPT !.at = "commit", !.object = o]]
            /\ taken' = taken \union {o}
      BY <1>3 DEF Assemble, Step
    <3>2. request[r] \in RequestRow /\ request'[r] = [request[r] EXCEPT !.at = "commit", !.object = o]
      BY <1>0, <3>1 DEF TypeOK
    <3>3. request'[r].object = o
      BY <3>2 DEF RequestRow
    <3> QED BY <3>1, <3>3
  <2>3. /\ \A u \in Upload :
             answered[u] \subseteq taken /\ uploads[u].object \in taken \union {Nothing}
        /\ \A x \in cleaner.read : x.row.object \in taken \union {Nothing}
    BY <1>0 DEF ObjectsOwned
  <2>4. ASSUME NEW q \in Request, q # r, Owned(q)' PROVE request'[q].object \in taken
    <3>1. Owned(q) /\ request'[q].object = request[q].object
      BY <1>3, <2>4 DEF Owned
    <3> QED BY <1>0, <3>1 DEF ObjectsOwned
  <2> QED BY <1>0, <1>3, <2>1, <2>2, <2>3, <2>4
<1>4. \A x \in cleaner'.read : x.row.object \in taken' \union {Nothing}
  BY <1>0, <1>d DEF ObjectsOwned
<1> QED BY <1>1, <1>2, <1>3, <1>4, Owners DEF ObjectsOwned

\* A row of an object comes with a commit; it goes only as cleanup deletes it; and what
\* says that it may go is taken back only by a transaction that names it.
LEMMA ObjectsWritten ==
    ASSUME IInv, [Next]_vars, NEW o \in Object
    PROVE  \/ objects'[o] = objects[o]
           \/ /\ ~objects[o].exists
              /\ \E r \in Request : request[r].at = "commit" /\ request'[r].at # "commit"
                                      /\ request[r].object = o
           \/ /\ objects'[o].exists = objects[o].exists
              /\ \/ \E r \in Request : CommitReferences(r)
                 \/ objects[o].unreferenced = "long" /\ ~objects[o].retained =>
                      objects'[o].unreferenced = "long" /\ ~objects'[o].retained
           \/ DeleteRow /\ o = cleaner.object /\ ~objects'[o].exists
<1>0. /\ TypeOK /\ RequestsFit /\ CleanerFits /\ CleanerKnows
      /\ objects \in [Object -> ObjectRow] /\ request \in [Request -> RequestRow]
      /\ objects[o] \in ObjectRow
  BY DEF IInv, TypeOK
<1>1. ASSUME NEW r \in Request, Commit(r) \/ CommitFails(r), objects'[o] # objects[o]
      PROVE  /\ ~objects[o].exists
             /\ request[r].at = "commit" /\ request'[r].at # "commit" /\ request[r].object = o
  <2>1. request[r].at = "commit" /\ CommitObject(r)
    BY <1>1 DEF Commit, CommitFails, Step
  <2>2. request[r].object = o
    BY <1>0, <1>1, <2>1 DEF CommitObject
  <2>3. PICK to \in {"deleteParts", "reopen"} : Step(r, "commit", [request[r] EXCEPT !.at = to])
    BY <1>1 DEF Commit, CommitFails
  <2>4. request[r] \in RequestRow /\ request'[r] = [request[r] EXCEPT !.at = to]
    BY <1>0, <2>3 DEF Step
  <2>5. request'[r].at = to
    BY <2>4 DEF RequestRow
  <2> QED BY <1>0, <2>1, <2>2, <2>5 DEF CleanerKnows
<1>2. ASSUME NEW r \in Request, CommitReferences(r)
      PROVE  objects'[o].exists = objects[o].exists
  BY <1>0, <1>2, ReferencesCommitted
<1>3. ASSUME NEW p \in Object, GraceEnds(p) \/ RetentionEnds(p)
      PROVE  /\ objects'[o].exists = objects[o].exists
             /\ objects[o].unreferenced = "long" /\ ~objects[o].retained =>
                  objects'[o].unreferenced = "long" /\ ~objects'[o].retained
  BY <1>0, <1>3 DEF GraceEnds, RetentionEnds, ObjectRow
<1>4. ASSUME DeleteRow, objects'[o] # objects[o]
      PROVE  o = cleaner.object /\ ~objects'[o].exists
  BY <1>0, <1>4 DEF DeleteRow, NoObject
<1> QED BY <1>1, <1>2, <1>3, <1>4, Writers

\* What cleanup is about to delete stays listed or chosen for a reason.
LEMMA CleanerStaysKnowing ==
    ASSUME IInv, [Next]_vars
    PROVE  CleanerKnows'
<1>0. /\ TypeOK /\ RequestsFit /\ CleanerFits /\ ObjectsOwned /\ CleanerKnows
      /\ taken \subseteq taken' /\ cleaner \in CleanerRow
      /\ cleaner.listed \subseteq Object /\ cleaner.overtaken \subseteq Object
      /\ references \in [Reference -> SUBSET Object] /\ Nothing \notin Object
  BY BlobsTyped, ObjectAssumption DEF IInv, TypeOK, CleanerRow
<1>a. ASSUME NEW r \in Request, request[r].at = "commit"
      PROVE  Owned(r) /\ request[r].object \in Object
  BY <1>0, <1>a DEF RequestsFit, Owned
<1>b. Chosen \subseteq Object
  BY <1>0 DEF Chosen, CleanerFits
<1>1. ASSUME NEW o \in Object, objects'[o].exists PROVE o \in taken'
  <2>1. objects[o].exists \/ \E r \in Request : request[r].at = "commit" /\ request[r].object = o
    BY <1>1, ObjectsWritten
  <2> QED BY <1>0, <1>a, <2>1 DEF CleanerKnows, ObjectsOwned
<1>2. ASSUME NEW r \in Request, request'[r].at = "commit"
      PROVE  ~objects'[request'[r].object].exists
  <2>1. Owned(r)' /\ request'[r].object \in Object
    <3>1. RequestsFit'
      BY <1>0, RequestsStayFit
    <3> QED BY <1>0, <1>2, <3>1 DEF RequestsFit, Owned
  <2>2. PICK o \in Object : o = request'[r].object
    BY <2>1
  <2>3. CASE Owned(r) /\ request[r].object = o /\ request'[r] = request[r]
    <3>1. ~objects[o].exists /\ request[r].at = "commit"
      BY <1>0, <1>2, <2>3 DEF CleanerKnows
    <3>2. \A q \in Request : request[q].at = "commit" /\ request[q].object = o => q = r
      BY <1>0, <1>a, <2>3 DEF ObjectsOwned
    <3> QED BY <1>2, <2>2, <3>1, <3>2, ObjectsWritten
  <2>4. CASE Assemble(r) /\ o \notin taken
    <3>1. objects' = objects
      BY <2>4 DEF Assemble, rows
    <3> QED BY <1>0, <2>2, <2>4, <3>1 DEF CleanerKnows
  <2>5. ASSUME CommitFails(r) \/ Reopen(r) PROVE FALSE
    <3>1. PICK to \in {"reopen", "discard"} : Step(r, request[r].at, [request[r] EXCEPT !.at = to])
      BY <2>5 DEF CommitFails, Reopen, Step
    <3>2. request[r] \in RequestRow /\ request'[r] = [request[r] EXCEPT !.at = to]
      BY <1>0, <3>1 DEF Step, TypeOK
    <3>3. request'[r].at = to
      BY <3>2 DEF RequestRow
    <3> QED BY <1>2, <3>3
  <2> QED BY <2>1, <2>2, <2>3, <2>4, <2>5, Owners
<1> DEFINE Deleting == {"look", "delete", "deleteRow"}
           Gone(o) == objects[o].unreferenced = "long" /\ ~objects[o].retained
           Known == /\ cleaner.at \in {"delete", "deleteRow"} => cleaner.object \notin cleaner.listed
                    /\ cleaner.at \in Deleting =>
                         \A o \in cleaner.listed \union Chosen :
                             objects[o].exists /\ (o \notin cleaner.overtaken => Gone(o))
                    /\ \A o \in Chosen \ cleaner.overtaken : o \notin Referred(references)
<1>c. Known
  BY <1>0 DEF CleanerKnows
<1>3. ASSUME NEW r \in Request, CommitReferences(r) PROVE Known'
  <2> DEFINE names == request[r].names
  <2>2. /\ Referred(references') \subseteq Referred(references) \union names
        /\ \A o \in Object : objects'[o].exists = objects[o].exists
        /\ \A o \in Object \ names : Gone(o) => Gone(o)'
    BY <1>0, <1>3, ReferencesCommitted
  <2>3. /\ cleaner'.at = cleaner.at /\ cleaner'.listed = cleaner.listed
        /\ cleaner'.object = cleaner.object
        /\ cleaner.at \in Deleting => cleaner'.overtaken = cleaner.overtaken \union names
    BY <1>0, <1>3 DEF CommitReferences, CleanerRow
  <2>4. Chosen' = Chosen
    BY <2>3 DEF Chosen
  <2>5. \A o : o \notin names /\ o \notin Referred(references) => o \notin Referred(references)'
    BY <2>2 DEF Referred
  <2>6. Chosen # {} => cleaner.at \in Deleting
    BY DEF Chosen
  <2> HIDE DEF names
  <2> QED BY <1>0, <1>b, <1>c, <2>2, <2>3, <2>4, <2>5, <2>6
<1>4. ASSUME cleaner'.at \notin Deleting PROVE Known'
  BY <1>4 DEF Chosen
<1>5. ASSUME UNCHANGED references,
             \A o \in cleaner'.listed \union Chosen' :
                 o \in Object /\ (objects[o].exists => objects'[o].exists) /\ (Gone(o) => Gone(o)')
                   /\ (cleaner.at \in Deleting => o \in cleaner.listed \union Chosen),
             cleaner.at \in Deleting, cleaner'.overtaken = cleaner.overtaken,
             cleaner'.at \in {"delete", "deleteRow"} => cleaner'.object \notin cleaner'.listed,
             \A o \in Chosen' \ Chosen : o \notin Referred(references)
      PROVE  Known'
  <2>1. Referred(references)' = Referred(references)
    BY <1>5 DEF Referred
  <2> QED BY <1>c, <1>5, <2>1
<1>6. ASSUME UNCHANGED cleaner, UNCHANGED references,
             \A r \in Request : ~CommitReferences(r), ~DeleteRow
      PROVE  Known'
  <2>1. Chosen' = Chosen
    BY <1>6 DEF Chosen
  <2>2. CASE cleaner.at \in Deleting
    <3>1. \A o \in cleaner.listed \union Chosen : objects[o].exists /\ o \in Object
      BY <1>0, <1>b, <1>c, <2>2
    <3>2. \A o \in cleaner.listed \union Chosen :
            (objects[o].exists => objects'[o].exists) /\ (Gone(o) => Gone(o)')
      BY <1>6, <3>1, ObjectsWritten
    <3> QED BY <1>5, <1>6, <1>c, <2>1, <2>2, <3>1, <3>2
  <2>3. CASE cleaner.at \notin Deleting
    BY <1>4, <1>6, <2>3
  <2> QED BY <2>2, <2>3
<1>7. ASSUME ListObjects PROVE Known'
  <2>1. cleaner'.at = "look" /\ cleaner'.listed = Collectable
    BY <1>0, <1>7 DEF ListObjects, CleanerRow
  <2>2. Chosen' = {}
    BY <2>1 DEF Chosen
  <2>3. UNCHANGED objects
    BY <1>7 DEF ListObjects, rows
  <2> QED BY <2>1, <2>2, <2>3 DEF Collectable
<1>8. ASSUME Look PROVE Known'
  <2>1. PICK o \in cleaner.listed :
          cleaner' = IF o \in Referred(references)
                     THEN [cleaner EXCEPT !.listed = @ \ {o}]
                     ELSE [cleaner EXCEPT !.listed = @ \ {o}, !.object = o, !.at = "delete"]
    BY <1>8 DEF Look
  <2>2. cleaner.at = "look" /\ UNCHANGED <<objects, references>>
    BY <1>8 DEF Look, rows
  <2>3. CASE o \in Referred(references)
    <3>1. /\ cleaner'.at = "look" /\ cleaner'.listed = cleaner.listed \ {o}
          /\ cleaner'.overtaken = cleaner.overtaken
      BY <1>0, <2>1, <2>2, <2>3 DEF CleanerRow
    <3>2. Chosen' = {}
      BY <3>1 DEF Chosen
    <3> QED BY <1>0, <1>5, <2>2, <3>1, <3>2
  <2>4. CASE o \notin Referred(references)
    <3>1. /\ cleaner'.at = "delete" /\ cleaner'.listed = cleaner.listed \ {o}
          /\ cleaner'.overtaken = cleaner.overtaken /\ cleaner'.object = o
      <4>1. cleaner' = [cleaner EXCEPT !.listed = @ \ {o}, !.object = o, !.at = "delete"]
        BY <2>1, <2>4
      <4> QED BY <1>0, <4>1 DEF CleanerRow
    <3>2. Chosen' = {o}
      BY <3>1 DEF Chosen
    <3> QED BY <1>0, <1>5, <2>2, <2>4, <3>1, <3>2
  <2> QED BY <2>3, <2>4
<1>9. ASSUME DeleteBlob PROVE Known'
  <2>1. cleaner.at = "delete" /\ UNCHANGED <<objects, references>>
    BY <1>9 DEF DeleteBlob, rows
  <2>2. /\ cleaner'.at \in {"look", "deleteRow"} /\ cleaner'.listed = cleaner.listed
        /\ cleaner'.overtaken = cleaner.overtaken /\ cleaner'.object = cleaner.object
    BY <1>0, <1>9 DEF DeleteBlob, CleanerRow
  <2>3. Chosen' = {}
    BY <2>2 DEF Chosen
  <2> QED BY <1>0, <1>5, <1>c, <2>1, <2>2, <2>3
<1>10. ASSUME DeleteRow PROVE Known'
  <2>1. /\ cleaner.at = "deleteRow"
        /\ cleaner'.at = "look" /\ cleaner'.listed = cleaner.listed
        /\ cleaner'.overtaken = cleaner.overtaken
    BY <1>0, <1>10 DEF DeleteRow, CleanerRow
  <2>2. Chosen' = {}
    BY <2>1 DEF Chosen
  <2>3. \A o \in cleaner.listed : o \in Object /\ o # cleaner.object
    BY <1>0, <1>c, <2>1
  <2>4. \A o \in cleaner.listed : objects'[o] = objects[o]
    BY <1>0, <1>10, <2>3 DEF DeleteRow, TypeOK
  <2> QED BY <1>c, <2>1, <2>2, <2>4
<1>11. ASSUME ListExpired \/ ReadListed \/ ExpireUpload \/ DeleteExpiredParts \/ EndCleanup
       PROVE  Known'
  <2>1. cleaner'.at \in {"uploads", "deleteParts", "idle"}
    <3>1. CASE ListExpired
      <4>1. PICK old : cleaner' = [Resting EXCEPT !.at = "uploads", !.unread = old]
        BY <3>1 DEF ListExpired
      <4> QED BY <4>1 DEF Resting
    <3>2. CASE EndCleanup
      BY <3>2 DEF EndCleanup, Resting
    <3>3. CASE ReadListed \/ ExpireUpload \/ DeleteExpiredParts
      BY <1>0, <3>3 DEF ReadListed, ExpireUpload, DeleteExpiredParts, CleanerRow
    <3> QED BY <1>11, <3>1, <3>2, <3>3
  <2> QED BY <1>4, <2>1
<1>12. Known'
  BY <1>3, <1>6, <1>7, <1>8, <1>9, <1>10, <1>11, Writers
<1> QED BY <1>1, <1>2, <1>12 DEF CleanerKnows

-----------------------------------------------------------------------------
(* Theorems *)

\* The invariant holds at first: nothing is under way and no row is there.
LEMMA InitFits ==
    ASSUME Init
    PROVE  IInv
<1>0. /\ \A u \in Upload : uploads[u] = NoUpload /\ answered[u] = {} /\ partBlobs[u] = {}
      /\ \A r \in Request : request[r] = Idle
      /\ \A o \in Object : objects[o] = NoObject
      /\ \A r \in Request : found[r] = {}
      /\ cleaner = Resting /\ late = {} /\ taken = {} /\ reopened = {} /\ blobs = {}
  BY DEF Init
<1>1. /\ NoUpload.status = "none" /\ NoUpload.parts = {} /\ NoUpload.object = Nothing
      /\ Idle.at = "idle" /\ ~NoObject.exists
      /\ Resting.at = "idle" /\ Resting.listed = {}
      /\ Resting.unread = {} /\ Resting.read = {}
  BY DEF NoUpload, Idle, NoObject, Resting
<1>2. TypeOK
  BY <1>0, <1>1, Rows DEF Init, TypeOK, StatusTells
<1>3. RequestsFit /\ CleanerFits /\ OneHolder /\ StatusWhileHeld
  BY <1>0, <1>1 DEF RequestsFit, CleanerFits, OneHolder, StatusWhileHeld, OnUpload, Holding,
                      InMemory, InTransaction
<1>4. AnswersFit /\ PartsAreThere
  BY <1>0, <1>1 DEF AnswersFit, PartsAreThere, Holding, InMemory
<1>5. CountHolds
  <2>1. Active = {} /\ Counted = {}
    BY <1>0, <1>1 DEF Active, Counted, Begun
  <2>2. IsFiniteSet({}) /\ Cardinality({}) = 0
    BY FS_EmptySet
  <2> QED BY <1>0, <1>1, <2>1, <2>2, ObjectAssumption DEF CountHolds
<1>6. ObjectsOwned /\ CleanerKnows
  BY <1>0, <1>1 DEF ObjectsOwned, CleanerKnows, Owned, Chosen
<1> QED BY <1>2, <1>3, <1>4, <1>5, <1>6 DEF IInv

\* Every step keeps it.
LEMMA StepFits ==
    ASSUME IInv, [Next]_vars
    PROVE  IInv'
<1>1. TypeOK /\ RequestsFit /\ CleanerFits /\ OneHolder
  BY DEF IInv
<1> QED BY <1>1, Typed, RequestsStayFit, CleanerStaysFit, OneHolderStays, StatusStays,
           AnswersStayFit, PartsStay, CountStays, ObjectsStayOwned, CleanerStaysKnowing
        DEF IInv

\* The inductive invariant of the uploads, the objects and the cleanup.
THEOREM InductiveInvariant == Spec => []IInv
<1>1. Init => IInv
  BY InitFits
<1>2. IInv /\ [Next]_vars => IInv'
  BY StepFits
<1> QED BY <1>1, <1>2, PTL DEF Spec

\* Every variable keeps its type; an upload that is complete names its object, and one
\* that names an object is complete, or was when cleanup read it again to expire it.
THEOREM TypeCorrect == Spec => []TypeOK
<1>1. IInv => TypeOK
  BY DEF IInv
<1> QED BY <1>1, InductiveInvariant, PTL

\* completeUpload, repeated, after failures and after losing its answer, answers one
\* object for an upload.
THEOREM OneObject == Spec => []OneObjectAnswered
<1>1. ASSUME IInv PROVE OneObjectAnswered
  <2> SUFFICES ASSUME NEW u \in Upload PROVE Cardinality(answered[u]) <= 1
    BY DEF OneObjectAnswered
  <2>1. PICK o : answered[u] \subseteq {o}
    BY <1>1 DEF IInv, AnswersFit
  <2>2. IsFiniteSet({o}) /\ Cardinality({o}) = 1
    BY FS_Singleton
  <2> QED BY <2>1, <2>2, FS_Subset
<1> QED BY <1>1, InductiveInvariant, PTL

\* An upload that can go on has the blobs of the parts it says it has.
THEOREM PartsKept == Spec => []OpenUploadKeepsParts
<1>1. IInv => OpenUploadKeepsParts
  BY DEF IInv, PartsAreThere, OpenUploadKeepsParts, Open, Begun
<1> QED BY <1>1, InductiveInvariant, PTL

\* The limit of a client's uploads under way holds, whichever requests cross.
THEOREM LimitHolds == Spec => []TransferLimit
<1>1. IInv => TransferLimit
  BY DEF IInv, CountHolds, Counted, TransferLimit
<1> QED BY <1>1, InductiveInvariant, PTL

\* The conditions on which the blob of a committed object may go.
MayGo(o) ==
    \/ o \in cleaner.overtaken
    \/ /\ cleaner.at = "delete"
       /\ o \notin Referred(references)
       /\ objects[o].unreferenced = "long"
       /\ ~objects[o].retained
    \/ /\ \E r \in Request : request[r].at = "discard" /\ request[r].object = o
       /\ \A u \in Upload : o \notin answered[u]

\* A step takes a blob as cleanup does, or as the completion that made it.
LEMMA BlobTaken ==
    ASSUME IInv, [Next]_vars, NEW o \in Object, o \in blobs, o \notin blobs'
    PROVE  MayGo(o)
<1>0. ObjectsOwned /\ CleanerKnows /\ Nothing \notin Object
  BY ObjectAssumption DEF IInv
<1>1. ASSUME NEW r \in Request, Discard(r) PROVE MayGo(o)
  <2>1. request[r].at = "discard" /\ request[r].object = o
    BY <1>1 DEF Discard, Step
  <2>2. \A u \in Upload : o \notin answered[u]
    BY <1>0, <2>1 DEF ObjectsOwned, Owned
  <2> QED BY <2>1, <2>2 DEF MayGo
<1>2. ASSUME DeleteBlob PROVE MayGo(o)
  <2>1. cleaner.at = "delete" /\ Chosen = {o}
    BY <1>2 DEF DeleteBlob, Chosen
  <2> QED BY <1>0, <2>1 DEF CleanerKnows, MayGo
<1> QED BY <1>1, <1>2, Writers DEF Assemble

\* The blob of a committed object goes only as cleanup takes it, when nothing refers to it
\* and its row says so for long, or as its completion takes it back, which answered no one
\* with it.
THEOREM CommittedObjectsKept == Spec => CommittedObjectStays
<1>1. ASSUME IInv, [Next]_vars
      PROVE  [\A o \in Object :
                objects[o].exists /\ o \in blobs /\ o \notin blobs' =>
                    \/ o \in cleaner.overtaken
                    \/ /\ cleaner.at = "delete"
                       /\ o \notin Referred(references)
                       /\ objects[o].unreferenced = "long"
                       /\ ~objects[o].retained
                    \/ /\ \E r \in Request :
                            request[r].at = "discard" /\ request[r].object = o
                       /\ \A u \in Upload : o \notin answered[u]]_vars
  BY <1>1, BlobTaken DEF MayGo
<1> QED BY <1>1, InductiveInvariant, PTL DEF Spec, CommittedObjectStays
=============================================================================
