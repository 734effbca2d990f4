---------------------------- MODULE ObjectUploads ----------------------------
(***************************************************************************)
(* Uploads, objects and their references in one space: the service of      *)
(* src/objects/service.js over the PostgreSQL rows of                      *)
(* src/objects/repository.js and the blobs of src/objects/storage.js.      *)
(*                                                                         *)
(* A client's requests interleave with each other and with cleanup; each   *)
(* call of the repository or the storage is a step.  Rows are written back *)
(* as they were read.  Uploads are locked one by one, and only in memory:  *)
(* a request that fails, or whose process stops, leaves its lock.          *)
(***************************************************************************)
EXTENDS Naturals, FiniteSets

CONSTANTS
    Upload, Part, Object, Reference,
    Nothing,         \* no upload, no object, no reference
    Request,         \* requests under way,
    AtOnce,          \* and bound on how many of them, and of cleanup, are so at once
    MaxTransfers,    \* bound of the code on the uploads under way
    MaxLate          \* bound on the uploads that get past their time

ASSUME ObjectAssumption ==
    /\ Nothing \notin Upload \union Object \union Reference
    /\ MaxTransfers \in Nat
    /\ AtOnce \in Nat
    /\ MaxLate \in Nat

VARIABLES
    uploads,         \* rows of object_upload_sessions with their parts
    late,            \* uploads past their time
    partBlobs,       \* the parts of an upload whose blob is there
    objects,         \* rows of space_objects
    blobs,           \* objects whose blob is there
    references,      \* rows of object_refs: the objects of a reference
    request,
    found,           \* the rows that a transaction's DELETE found, until others delete them
    cleaner,         \* the cleanup under way
    answered,        \* history: the objects completeUpload answered with,
    taken,           \* the ids given out,
    reopened         \* and the uploads reopened after their commit went through

rows == <<uploads, objects, references>>
history == <<answered, taken, reopened>>
vars == <<uploads, late, partBlobs, objects, blobs, references, request, found, cleaner,
          history>>

-----------------------------------------------------------------------------

UploadRow == [status : {"none", "open", "completing", "complete", "cancelled", "expired"},
              parts : SUBSET Part, object : Object \union {Nothing}]

\* unreferenced says for how long nothing has referred to the object, or that
\* something does; retained that a deadline of a reference is ahead.
ObjectRow == [exists : BOOLEAN, unreferenced : {"no", "recently", "long"}, retained : BOOLEAN]

NoUpload == [status |-> "none", parts |-> {}, object |-> Nothing]
NoObject == [exists |-> FALSE, unreferenced |-> "recently", retained |-> FALSE]

InMemory == {"record", "mark", "assemble", "commit", "reopen", "discard", "deleteParts",
             "cancel"}

InTransaction == {"remove", "put", "delete", "write"}

\* A transaction on a reference has the objects it names and those it leaves.
Stage == {"idle", "insert", "store", "expire"} \union InMemory \union InTransaction

RequestRow == [at : Stage,
               upload : Upload \union {Nothing}, row : UploadRow, part : SUBSET Part,
               object : Object \union {Nothing}, reference : Reference \union {Nothing},
               names : SUBSET Object, left : SUBSET Object]

ReadUpload == [upload : Upload, row : UploadRow]

CleanerRow == [at : {"idle", "uploads", "deleteParts", "look", "delete", "deleteRow"},
               unread : SUBSET Upload, read : SUBSET ReadUpload,
               expired : ReadUpload \union {Nothing},
               listed : SUBSET Object, object : Object \union {Nothing},
               overtaken : SUBSET Object]

\* What names an object is complete, or was when it was read to be expired.
StatusTells(row) ==
    /\ row.status = "complete" => row.object # Nothing
    /\ row.object # Nothing => row.status \in {"complete", "expired"}

TypeOK ==
    /\ uploads \in [Upload -> UploadRow]
    /\ \A u \in Upload : StatusTells(uploads[u])
    /\ late \subseteq Upload
    /\ partBlobs \in [Upload -> SUBSET Part]
    /\ objects \in [Object -> ObjectRow]
    /\ blobs \subseteq Object
    /\ references \in [Reference -> SUBSET Object]
    /\ request \in [Request -> RequestRow]
    /\ found \in [Request -> SUBSET Object]
    /\ cleaner \in CleanerRow
    /\ answered \in [Upload -> SUBSET Object]
    /\ taken \subseteq Object
    /\ reopened \subseteq Upload

Idle == [at |-> "idle", upload |-> Nothing, row |-> NoUpload, part |-> {},
         object |-> Nothing, reference |-> Nothing,
         names |-> {}, left |-> {}]

Resting == [at |-> "idle", unread |-> {}, read |-> {}, expired |-> Nothing,
            listed |-> {}, object |-> Nothing, overtaken |-> {}]

Init ==
    /\ uploads = [u \in Upload |-> NoUpload]
    /\ late = {}
    /\ partBlobs = [u \in Upload |-> {}]
    /\ objects = [o \in Object |-> NoObject]
    /\ blobs = {}
    /\ references = [n \in Reference |-> {}]
    /\ request = [r \in Request |-> Idle]
    /\ found = [r \in Request |-> {}]
    /\ cleaner = Resting
    /\ answered = [u \in Upload |-> {}]
    /\ taken = {}
    /\ reopened = {}

Step(r, from, to) ==
    /\ request[r].at = from
    /\ request' = [request EXCEPT ![r] = to]

\* One more request, or cleanup, may begin.
Room == Cardinality({r \in Request : request[r].at # "idle"})
          + (IF cleaner.at = "idle" THEN 0 ELSE 1) < AtOnce

Start(r, to) == Room /\ Step(r, "idle", to)

Begun == {"open", "completing"}

\* Mutant: nothing waits.
NeverLocked(u) == FALSE

\* The lock of an upload is held by who is between its first and last step on it.
Locked(u) ==
    \E r \in Request : request[r].upload = u /\ request[r].at \in InMemory \union {"store"}

\* Mutant: the object of the row is not written.
UpdateUploadStatus(u, row) ==
    uploads' = [uploads EXCEPT ![u] = [row EXCEPT !.parts = @ \union uploads[u].parts,
                                                  !.object = uploads[u].object]]

\* updateUpload: the row as it was read, with what the caller changed.  Parts are
\* only ever added.
UpdateUpload(u, row) ==
    uploads' = [uploads EXCEPT ![u] = [row EXCEPT !.parts = @ \union uploads[u].parts]]

-----------------------------------------------------------------------------
(* createUpload *)

Active == {u \in Upload : uploads[u].status \in Begun /\ u \notin late}

\* Mutant: a client's counts are not serialised.
NobodyInserts == TRUE

\* The lock of the client's scope.
NoOtherInsert == \A r \in Request : request[r].at # "insert"

CountActive(r) ==
    /\ NoOtherInsert
    /\ Cardinality(Active) < MaxTransfers
    /\ Start(r, [Idle EXCEPT !.at = "insert"])
    /\ UNCHANGED <<rows, late, partBlobs, blobs, found, cleaner, history>>

InsertUpload(r) ==
    /\ Step(r, "insert", Idle)
    /\ \E u \in Upload :
         /\ uploads[u].status = "none"
         /\ uploads' = [uploads EXCEPT ![u].status = "open"]
    /\ UNCHANGED <<late, partBlobs, objects, blobs, references, found, cleaner, history>>

TimeToLive(u) ==
    /\ uploads[u].status \in Begun
    /\ Cardinality(late) < MaxLate
    /\ late' = late \union {u}
    /\ UNCHANGED <<rows, partBlobs, blobs, request, found, cleaner, history>>

-----------------------------------------------------------------------------
(* requireUpload *)

Reading(u, at) == [Idle EXCEPT !.at = at, !.upload = u, !.row = uploads[u]]

\* Every request on an upload may find it past its time, uploadStatus without a lock,
FindExpired(r) ==
    /\ \E u \in late :
         /\ uploads[u].status \in Begun
         /\ Start(r, Reading(u, "expire"))
    /\ UNCHANGED <<rows, late, partBlobs, blobs, found, cleaner, history>>

\* and writes that on the row it read.
WriteExpired(r) ==
    /\ Step(r, "expire", Idle)
    /\ UpdateUpload(request[r].upload, [request[r].row EXCEPT !.status = "expired"])
    /\ UNCHANGED <<late, partBlobs, objects, blobs, references, found, cleaner, history>>

Open(u) == uploads[u].status = "open" /\ u \notin late

-----------------------------------------------------------------------------
(* putPart *)

\* A part that is there already is answered, or refused, and changes nothing.
PutPart(r) ==
    /\ \E u \in Upload : \E n \in Part \ uploads[u].parts :
         /\ ~Locked(u)
         /\ Open(u)
         /\ Start(r, [Reading(u, "store") EXCEPT !.part = {n}])
    /\ UNCHANGED <<rows, late, partBlobs, blobs, found, cleaner, history>>

StorePart(r) ==
    /\ Step(r, "store", [request[r] EXCEPT !.at = "record"])
    /\ partBlobs' = [partBlobs EXCEPT ![request[r].upload] = @ \union request[r].part]
    /\ UNCHANGED <<rows, late, blobs, found, cleaner, history>>

RecordPart(r) ==
    /\ Step(r, "record", Idle)
    /\ UpdateUpload(request[r].upload,
                    [request[r].row EXCEPT !.parts = @ \union request[r].part])
    /\ UNCHANGED <<late, partBlobs, objects, blobs, references, found, cleaner, history>>

-----------------------------------------------------------------------------
(* completeUpload *)

\* One that is complete is answered again with its object.
AnswerAgain(r) ==
    /\ request[r].at = "idle"
    /\ \E u \in Upload :
         /\ ~Locked(u)
         /\ uploads[u].status = "complete"
         /\ objects[uploads[u].object].exists
         /\ answered' = [answered EXCEPT ![u] = @ \union {uploads[u].object}]
    /\ UNCHANGED <<rows, late, partBlobs, blobs, request, found, cleaner, taken, reopened>>

BeginCompletion(r) ==
    /\ \E u \in Upload :
         /\ ~Locked(u)
         /\ Open(u)
         /\ uploads[u].parts = Part
         /\ Start(r, Reading(u, "mark"))
    /\ UNCHANGED <<rows, late, partBlobs, blobs, found, cleaner, history>>

MarkCompleting(r) ==
    /\ Step(r, "mark", [request[r] EXCEPT !.at = "assemble"])
    /\ UpdateUpload(request[r].upload, [request[r].row EXCEPT !.status = "completing"])
    /\ UNCHANGED <<late, partBlobs, objects, blobs, references, found, cleaner, history>>

\* The blob is put under a key of its own, and what was written is what was announced.
Assemble(r) ==
    /\ \E o \in Object \ taken :
         /\ Step(r, "assemble", [request[r] EXCEPT !.at = "commit", !.object = o])
         /\ blobs' = blobs \union {o}
         /\ taken' = taken \union {o}
    /\ partBlobs[request[r].upload] = Part
    /\ UNCHANGED <<rows, late, partBlobs, found, cleaner, answered, reopened>>

\* A part is gone, the storage fails, or what was written does not verify.
AssembleFails(r) ==
    /\ Step(r, "assemble", [request[r] EXCEPT !.at = "reopen"])
    /\ UNCHANGED <<rows, late, partBlobs, blobs, found, cleaner, history>>

CommitObject(r) ==
    LET u == request[r].upload
        o == request[r].object
    IN  /\ uploads[u].status = "completing"
        /\ uploads' = [uploads EXCEPT ![u].status = "complete", ![u].object = o]
        /\ objects' = [objects EXCEPT ![o] =
                         [exists |-> TRUE, unreferenced |-> "recently", retained |-> FALSE]]

Commit(r) ==
    /\ Step(r, "commit", [request[r] EXCEPT !.at = "deleteParts"])
    /\ CommitObject(r)
    /\ answered' = [answered EXCEPT ![request[r].upload] = @ \union {request[r].object}]
    /\ UNCHANGED <<late, partBlobs, blobs, references, found, cleaner, taken, reopened>>

\* Another request has changed the status, or the transaction fails, or it is
\* committed and the answer to the commit is lost.
CommitFails(r) ==
    /\ Step(r, "commit", [request[r] EXCEPT !.at = "reopen"])
    /\ CommitObject(r) \/ UNCHANGED <<uploads, objects>>
    /\ UNCHANGED <<late, partBlobs, blobs, references, found, cleaner, history>>

\* After a failed commit it does not matter whether this succeeds.
Reopen(r) ==
    /\ Step(r, "reopen", [request[r] EXCEPT !.at = "discard"])
    /\ \/ UpdateUpload(request[r].upload,
                       [request[r].row EXCEPT !.status = "open", !.object = Nothing])
       \/ request[r].object # Nothing /\ UNCHANGED uploads
    /\ reopened' = IF uploads[request[r].upload].status = "complete"
                   THEN reopened \union {request[r].upload} ELSE reopened
    /\ UNCHANGED <<late, partBlobs, objects, blobs, references, found, cleaner, answered,
                   taken>>

Discard(r) ==
    /\ Step(r, "discard", Idle)
    /\ blobs' = blobs \ {request[r].object}
    /\ UNCHANGED <<rows, late, partBlobs, found, cleaner, history>>

DeleteParts(r) ==
    /\ Step(r, "deleteParts", Idle)
    /\ partBlobs' = [partBlobs EXCEPT ![request[r].upload] = @ \ request[r].row.parts]
    /\ UNCHANGED <<rows, late, blobs, found, cleaner, history>>

-----------------------------------------------------------------------------
(* cancelUpload *)

BeginCancel(r) ==
    /\ \E u \in Upload :
         /\ ~Locked(u)
         /\ uploads[u].status \in Begun
         /\ Start(r, Reading(u, "cancel"))
    /\ UNCHANGED <<rows, late, partBlobs, blobs, found, cleaner, history>>

WriteCancelled(r) ==
    /\ Step(r, "cancel", [request[r] EXCEPT !.at = "deleteParts"])
    /\ UpdateUpload(request[r].upload, [request[r].row EXCEPT !.status = "cancelled"])
    /\ UNCHANGED <<late, partBlobs, objects, blobs, references, found, cleaner, history>>

-----------------------------------------------------------------------------
(* References: transactions of several statements, READ COMMITTED *)

Referred(refs) == UNION {refs[n] : n \in Reference}

\* setReferences looks up the objects it is given, and reads what the reference names
\* so far,
BeginReference(r) ==
    /\ \E n \in Reference : \E names \in SUBSET {o \in Object : objects[o].exists} :
         Start(r, [Idle EXCEPT !.at = "remove", !.reference = n, !.names = names,
                               !.left = references[n] \ names])
    /\ UNCHANGED <<rows, late, partBlobs, blobs, found, cleaner, history>>

\* and deletes the rows it finds a statement later;
RemoveReferences(r) ==
    /\ Step(r, "remove", [request[r] EXCEPT !.at = "put"])
    /\ found' = [found EXCEPT ![r] = references[request[r].reference]]
    /\ UNCHANGED <<rows, late, partBlobs, blobs, cleaner, history>>

\* deleteReferences begins with that.
BeginRemoval(r) ==
    /\ \E n \in Reference :
         /\ references[n] # {}
         /\ Start(r, [Idle EXCEPT !.at = "delete", !.reference = n])
         /\ found' = [found EXCEPT ![r] = references[n]]
    /\ UNCHANGED <<rows, late, partBlobs, blobs, cleaner, history>>

\* The rows that r deletes, and those of the objects it names, are not another's.
RowsFree(r) ==
    \A q \in Request \ {r} : request[q].at = "write" =>
        /\ request[q].names \intersect request[r].names = {}
        /\ request[q].reference = request[r].reference => found[q] \intersect found[r] = {}

\* The references as r sees them: what others committed, with its own writes.
SeenBy(r) ==
    [references EXCEPT ![request[r].reference] = (@ \ found[r]) \union request[r].names]

\* It takes its rows, and finds which of the former objects nothing refers to now.
PutReferences(r) ==
    /\ RowsFree(r)
    /\ Step(r, "put", [request[r] EXCEPT !.at = "write", !.left = @ \ Referred(SeenBy(r))])
    /\ UNCHANGED <<rows, late, partBlobs, blobs, found, cleaner, history>>

DeleteReferences(r) ==
    /\ RowsFree(r)
    /\ Step(r, "delete", [request[r] EXCEPT !.at = "write",
                                            !.left = found[r] \ Referred(SeenBy(r))])
    /\ UNCHANGED <<rows, late, partBlobs, blobs, found, cleaner, history>>

\* The rows it inserts are not there yet, and their objects are.
KeysHold(r) ==
    \A o \in request[r].names :
        objects[o].exists /\ o \notin references[request[r].reference] \ found[r]

\* It marks those it leaves, once their rows are not another's, and is committed.  Who
\* has yet to delete the same rows finds them gone; the marks rest on what it saw.
CommitReferences(r) ==
    LET names == request[r].names
        left == request[r].left
    IN  /\ Step(r, "write", Idle)
        /\ KeysHold(r)
        /\ \A q \in Request \ {r} :
              request[q].at = "write" => request[q].names \intersect left = {}
        /\ references' = SeenBy(r)
        /\ \E retained \in BOOLEAN :
              objects' = [o \in Object |->
                CASE o \in names -> [objects[o] EXCEPT !.unreferenced = "no",
                                                       !.retained = @ \/ retained]
                  [] o \in left -> [objects[o] EXCEPT !.unreferenced =
                                      IF @ = "no" THEN "recently" ELSE @]
                  [] OTHER -> objects[o]]
        /\ found' = [q \in Request |->
              IF q = r THEN {}
              ELSE IF request[q].reference = request[r].reference
                   THEN found[q] \ found[r]
                   ELSE found[q]]
        /\ cleaner' = IF cleaner.at \in {"look", "delete", "deleteRow"}
                      THEN [cleaner EXCEPT !.overtaken = @ \union names]
                      ELSE cleaner
    /\ UNCHANGED <<uploads, late, partBlobs, blobs, history>>

GraceEnds(o) ==
    /\ objects[o].exists /\ objects[o].unreferenced = "recently"
    /\ objects' = [objects EXCEPT ![o].unreferenced = "long"]
    /\ UNCHANGED <<uploads, late, partBlobs, blobs, references, request, found, cleaner,
                   history>>

RetentionEnds(o) ==
    /\ objects[o].retained
    /\ objects' = [objects EXCEPT ![o].retained = FALSE]
    /\ UNCHANGED <<uploads, late, partBlobs, blobs, references, request, found, cleaner,
                   history>>

\* A call fails that nothing catches, or the process stops.
Fail(r) ==
    /\ request[r].at # "idle"
    /\ request' = [request EXCEPT ![r] = Idle]
    /\ found' = [found EXCEPT ![r] = {}]
    /\ UNCHANGED <<rows, late, partBlobs, blobs, cleaner, history>>

-----------------------------------------------------------------------------
(* cleanup *)

\* It lists the uploads that are past their time,
ListExpired ==
    /\ Room /\ cleaner.at = "idle"
    /\ cleaner' = [Resting EXCEPT !.at = "uploads",
                                  !.unread = {u \in late : uploads[u].status \in Begun}]
    /\ UNCHANGED <<rows, late, partBlobs, blobs, request, found, history>>

\* reads each again, whatever has become of it,
ReadListed ==
    /\ cleaner.at = "uploads"
    /\ \E u \in cleaner.unread :
         cleaner' = [cleaner EXCEPT !.unread = @ \ {u},
                                    !.read = @ \union {[upload |-> u, row |-> uploads[u]]}]
    /\ UNCHANGED <<rows, late, partBlobs, blobs, request, found, history>>

\* writes each back as expired, with the object it had when it was read,
ExpireUpload ==
    /\ cleaner.at = "uploads" /\ cleaner.unread = {}
    /\ \E x \in cleaner.read :
         /\ UpdateUpload(x.upload, [x.row EXCEPT !.status = "expired"])
         /\ cleaner' = [cleaner EXCEPT !.at = "deleteParts", !.expired = x, !.read = @ \ {x}]
    /\ UNCHANGED <<late, partBlobs, objects, blobs, references, request, found, history>>

\* and deletes the parts it had.
DeleteExpiredParts ==
    /\ cleaner.at = "deleteParts"
    /\ partBlobs' = [partBlobs EXCEPT ![cleaner.expired.upload] = @ \ cleaner.expired.row.parts]
    /\ cleaner' = [cleaner EXCEPT !.at = "uploads", !.expired = Nothing]
    /\ UNCHANGED <<rows, late, blobs, request, found, history>>

\* Mutant: the time of grace is not waited for.
CollectableAtOnce == {o \in Object : objects[o].exists /\ ~objects[o].retained}

Collectable ==
    {o \in Object : objects[o].exists /\ objects[o].unreferenced = "long" /\ ~objects[o].retained}

\* Then it lists all objects; those whose row says they may go matter,
ListObjects ==
    /\ cleaner.at = "uploads" /\ cleaner.unread = {} /\ cleaner.read = {}
    /\ cleaner' = [cleaner EXCEPT !.at = "look", !.listed = Collectable, !.overtaken = {}]
    /\ UNCHANGED <<rows, late, partBlobs, blobs, request, found, history>>

\* and of each, whether it is referred to.
Look ==
    /\ cleaner.at = "look"
    /\ \E o \in cleaner.listed :
         cleaner' = IF o \in Referred(references)
                    THEN [cleaner EXCEPT !.listed = @ \ {o}]
                    ELSE [cleaner EXCEPT !.listed = @ \ {o}, !.object = o, !.at = "delete"]
    /\ UNCHANGED <<rows, late, partBlobs, blobs, request, found, history>>

\* The blob goes first; a storage that fails leaves it for the next cleanup.
DeleteBlob ==
    /\ cleaner.at = "delete"
    /\ \/ /\ blobs' = blobs \ {cleaner.object}
          /\ cleaner' = [cleaner EXCEPT !.at = "deleteRow"]
       \/ /\ cleaner' = [cleaner EXCEPT !.at = "look"]
          /\ UNCHANGED blobs
    /\ UNCHANGED <<rows, late, partBlobs, request, found, history>>

\* The row goes with its references, unless an upload's foreign key still names it:
\* then the cleanup fails.
DeleteRow ==
    /\ cleaner.at = "deleteRow"
    /\ \A u \in Upload : uploads[u].object # cleaner.object
    /\ objects' = [objects EXCEPT ![cleaner.object] = NoObject]
    /\ references' = [n \in Reference |-> references[n] \ {cleaner.object}]
    /\ cleaner' = [cleaner EXCEPT !.at = "look", !.object = Nothing]
    /\ UNCHANGED <<uploads, late, partBlobs, blobs, request, found, history>>

\* The cleanup is through, or it fails, or its process stops.
EndCleanup ==
    /\ cleaner.at # "idle"
    /\ cleaner' = Resting
    /\ UNCHANGED <<rows, late, partBlobs, blobs, request, found, history>>

-----------------------------------------------------------------------------

Next ==
    \/ \E r \in Request :
        \/ CountActive(r) \/ InsertUpload(r) \/ FindExpired(r) \/ WriteExpired(r)
        \/ PutPart(r) \/ StorePart(r) \/ RecordPart(r)
        \/ AnswerAgain(r) \/ BeginCompletion(r) \/ MarkCompleting(r)
        \/ Assemble(r) \/ AssembleFails(r) \/ Commit(r) \/ CommitFails(r)
        \/ Reopen(r) \/ Discard(r) \/ DeleteParts(r)
        \/ BeginCancel(r) \/ WriteCancelled(r)
        \/ BeginReference(r) \/ RemoveReferences(r) \/ BeginRemoval(r)
        \/ PutReferences(r) \/ DeleteReferences(r) \/ CommitReferences(r)
        \/ Fail(r)
    \/ \E u \in Upload : TimeToLive(u)
    \/ \E o \in Object : GraceEnds(o) \/ RetentionEnds(o)
    \/ ListExpired \/ ReadListed \/ ExpireUpload \/ DeleteExpiredParts
    \/ ListObjects \/ Look \/ DeleteBlob \/ DeleteRow \/ EndCleanup

Spec == Init /\ [][Next]_vars

-----------------------------------------------------------------------------
(* Properties *)

\* A client has at most so many uploads under way, however its requests cross and
\* whichever of them put a status back.  Not counted are those that a completion put
\* back although its commit had gone through: the limit does not hold with them.
TransferLimit == Cardinality(Active \ reopened) <= MaxTransfers

\* An upload that can go on has the blob of every part it says it has: a client that
\* resumes after a crash, or after a completion that failed, sends no part again.
OpenUploadKeepsParts ==
    \A u \in Upload : Open(u) => uploads[u].parts \subseteq partBlobs[u]

\* Completing an upload, repeated or after failures, ever answers one object.
OneObjectAnswered == \A u \in Upload : Cardinality(answered[u]) <= 1

\* The blob of a committed object, of which uploadStatus tells anyone and to which
\* anything may refer, goes only when cleanup takes it, and that only when nothing refers
\* to it, its row says so for the time of grace, and none of its deadlines is ahead; unless
\* references came to it while cleanup looked, or the completion that made it takes it
\* back, which had no answer to its commit and answered no one with it.
CommittedObjectStays ==
    [][\A o \in Object :
         objects[o].exists /\ o \in blobs /\ o \notin blobs' =>
             \/ o \in cleaner.overtaken
             \/ /\ cleaner.at = "delete"
                /\ o \notin Referred(references)
                /\ objects[o].unreferenced = "long"
                /\ ~objects[o].retained
             \/ /\ \E r \in Request : request[r].at = "discard" /\ request[r].object = o
                /\ \A u \in Upload : o \notin answered[u]]_vars

=============================================================================
