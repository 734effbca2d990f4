---------------------------- MODULE PackageImport ----------------------------
(***************************************************************************)
(* Imports of downloaded packages: stageFile of src/cli/import-package.js, *)
(* over the exclusive puts and moves of src/backup/targets.js.             *)
(*                                                                         *)
(* An import takes the lease of its manifest, puts the files of the package*)
(* under a temporary prefix of its own, verifies them there, moves them one*)
(* by one to points/<manifest>, the marker last, and saves a stage.  Any   *)
(* number run side by side, on the target the points are on; every call may*)
(* fail, or on S3 take effect and lose its answer, and a process may stop. *)
(***************************************************************************)
EXTENDS SpaceExport

CONSTANTS
    Import,
    NoImport

ASSUME ImportAssumption == NoImport \notin Import

VARIABLES
    importing,
    lease,           \* imports/<manifest>.lock: the import that put it
    disturbed        \* see Publish and LoseAnswer

importVars == <<importing, lease, disturbed>>

\* pack: the package; copies: the files under the temporary prefix, and tracked those
\* of them that will be deleted; moved: the files it published; faulty: a deletion
\* failed, or a call took effect that was thought to have failed.
Fresh == [at |-> "none", pack |-> [point |-> NoPoint, files |-> {}],
          copies |-> {}, tracked |-> {}, moved |-> {}, faulty |-> FALSE]

InitImport ==
    /\ importing = [i \in Import |-> Fresh]
    /\ lease = [p \in Point |-> NoImport]
    /\ disturbed = {}

Destination(i) == importing[i].pack.point

\* The part of stageFile in which the lease is held.
Leased == {"list", "put", "verify", "move", "stage", "undo", "clean"}

Become(i, from, to) == importing[i].at = from /\ importing' = [importing EXCEPT ![i] = to]
Proceed(i, from, to) == importing[i].at = from /\ importing' = [importing EXCEPT ![i].at = to]

-----------------------------------------------------------------------------

\* What validatePackage requires of the files.
ValidPackage(pack) == {"manifest.enc.json", Marker} \subseteq pack.files

ReadPackage(i) ==
    /\ \E pack \in packages :
        /\ ValidPackage(pack)
        /\ Become(i, "none", [Fresh EXCEPT !.at = "lease", !.pack = pack])
    /\ UNCHANGED <<vars, exportVars, lease, disturbed>>

\* Mutant: the lease is put over another one.
LeaseFreeOrNot(p) == TRUE

LeaseFree(p) == lease[p] = NoImport

\* Should the answer be lost, the lease remains.
TakeLease(i) ==
    /\ Proceed(i, "lease", "list") \/ Proceed(i, "lease", "over")
    /\ LeaseFree(Destination(i))
    /\ lease' = [lease EXCEPT ![Destination(i)] = i]
    /\ UNCHANGED <<vars, exportVars, disturbed>>

\* Another import holds it, or the call fails.
Refused(i) ==
    /\ Proceed(i, "lease", "over")
    /\ UNCHANGED <<vars, exportVars, lease, disturbed>>

ListDestination(i) ==
    /\ Proceed(i, "list", IF published[Destination(i)] = {} THEN "put" ELSE "clean")
    /\ UNCHANGED <<vars, exportVars, lease, disturbed>>

\* The files are put in the order of the package, all of them or some: a put fails.
PutFiles(i) ==
    LET files == importing[i].pack.files IN
    /\ \E put \in SUBSET files, at \in {"verify", "clean"} :
        /\ \A f \in put, g \in files : Precedes(g, f) => g \in put
        /\ at = "verify" => put = files
        /\ Become(i, "put", [importing[i] EXCEPT !.copies = put, !.tracked = put, !.at = at])
    /\ UNCHANGED <<vars, exportVars, lease, disturbed>>

\* The copies read back as a point; a dry run ends here.
VerifyCopies(i) ==
    /\ \/ importing[i].copies = File /\ Proceed(i, "verify", "move")
       \/ Proceed(i, "verify", "clean")
    /\ UNCHANGED <<vars, exportVars, lease, disturbed>>

\* Mutant: the files are published in the order of the package.
NextInPackage(files) == First(files)

\* The file to publish next: the marker comes last.
NextFile(files) == IF files = {Marker} THEN Marker ELSE First(files \ {Marker})

\* Moves the next file, which must not be there; its copy may stay behind.  The
\* marker commits.  A pruning that still has the point on its list from before goes on
\* deleting it: the point is disturbed.
Publish(i) ==
    LET file == NextFile(importing[i].pack.files \ importing[i].moved)
        p == Destination(i)
    IN  /\ importing[i].at = "move"
        /\ file \notin published[p]
        /\ published' = [published EXCEPT ![p] = @ \union {file}]
        /\ \E copies \in {importing[i].copies, importing[i].copies \ {file}} :
             Become(i, "move", [importing[i] EXCEPT !.copies = copies, !.tracked = @ \ {file},
                 !.moved = @ \union {file}, !.at = IF file = Marker THEN "stage" ELSE @,
                 !.faulty = @ \/ file \in copies])
        /\ disturbed' = IF \E r \in Pruning : p \in doomed[r]
                        THEN disturbed \union {p} ELSE disturbed
    /\ UNCHANGED <<today, scope, stage, created, temporary, doomed, keys, exportVars, lease>>

\* The put of the file was carried out, but not answered: nobody will delete the file.
\* Were it the marker, what it stands for is deleted all the same.
LoseAnswer(i) ==
    LET file == NextFile(importing[i].pack.files \ importing[i].moved)
        p == Destination(i)
    IN  /\ importing[i].at = "move"
        /\ file \notin published[p]
        /\ published' = [published EXCEPT ![p] = @ \union {file}]
        /\ Become(i, "move", [importing[i] EXCEPT !.at = "undo", !.faulty = TRUE])
        /\ disturbed' = IF file = Marker THEN disturbed \union {p} ELSE disturbed
    /\ UNCHANGED <<today, scope, stage, created, temporary, doomed, keys, exportVars, lease>>

\* The file is there already, or a call fails.
PublishFails(i) ==
    /\ Proceed(i, "move", "undo")
    /\ UNCHANGED <<vars, exportVars, lease, disturbed>>

\* The stage is saved, or not: the point stays.
SaveStage(i) ==
    /\ Proceed(i, "stage", "clean")
    /\ UNCHANGED <<vars, exportVars, lease, disturbed>>

\* Mutant: what was not moved yet is deleted.
NotYetMoved(i) == importing[i].tracked

\* What a failed import deletes of its destination.
Undone(i) == importing[i].moved

\* Deletions that fail are passed over.
Undo(i) ==
    /\ importing[i].at = "undo"
    /\ \E kept \in {{}, Undone(i)} :
        /\ Become(i, "undo", [importing[i] EXCEPT !.at = "clean", !.faulty = @ \/ kept # {}])
        /\ published' = [published EXCEPT ![Destination(i)] = @ \ (Undone(i) \ kept)]
    /\ UNCHANGED <<today, scope, stage, created, temporary, doomed, keys, exportVars, lease,
                   disturbed>>

\* The copies are deleted, and the lease.
CleanUpImport(i) ==
    /\ \E kept \in {{}, importing[i].tracked}, released \in BOOLEAN :
        /\ Become(i, "clean",
               [importing[i] EXCEPT !.at = "over", !.copies = (@ \ importing[i].tracked) \union kept,
                                    !.faulty = @ \/ kept # {} \/ ~released])
        /\ lease' = IF released THEN [lease EXCEPT ![Destination(i)] = NoImport] ELSE lease
    /\ UNCHANGED <<vars, exportVars, disturbed>>

StopImport(i) ==
    /\ importing[i].at \in Leased
    /\ importing' = [importing EXCEPT ![i].at = "over", ![i].faulty = TRUE]
    /\ UNCHANGED <<vars, exportVars, lease, disturbed>>

NextImport ==
    \E i \in Import :
        \/ ReadPackage(i) \/ TakeLease(i) \/ Refused(i) \/ ListDestination(i) \/ PutFiles(i)
        \/ VerifyCopies(i) \/ Publish(i) \/ LoseAnswer(i) \/ PublishFails(i) \/ SaveStage(i)
        \/ Undo(i) \/ CleanUpImport(i) \/ StopImport(i)

=============================================================================
