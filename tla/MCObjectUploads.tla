--------------------------- MODULE MCObjectUploads --------------------------
(* Instance of ObjectUploads for TLC. *)
EXTENDS ObjectUploads, TLC

\* Two scenarios, each explored in full: uploads whose objects had no references, and references to
\* the object of one upload.
Unreferenced ==
    /\ \A n \in Reference : references[n] = {}
    /\ \A r \in Request : request[r].at \notin InTransaction
    /\ \A o \in Object : objects[o].unreferenced # "no" /\ ~objects[o].retained
    /\ cleaner.overtaken = {}

OneUpload ==
    /\ Cardinality({u \in Upload : uploads[u].status # "none"}) <= 1
    /\ Cardinality(taken) <= 1

Focus == Unreferenced \/ OneUpload

Symmetry == Permutations(Request) \union Permutations(Upload) \union Permutations(Object)
              \union Permutations(Reference)
=============================================================================
