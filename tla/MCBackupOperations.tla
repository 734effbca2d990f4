------------------------- MODULE MCBackupOperations -------------------------
(* Instance of BackupOperations for TLC. *)
EXTENDS BackupOperations, TLC

CONSTANTS server, daily, monthly

\* Days are slots of their own; all of them fall into one month.
Slots == (daily :> [day \in 0 .. LastDay |-> day]) @@ (monthly :> [day \in 0 .. LastDay |-> 0])

\* Two days and one month are kept.
TwoDaysOneMonth == (daily :> 2) @@ (monthly :> 1)

PointSymmetry ==
    Permutations(Point) \union Permutations(Pruning \ Worker) \union Permutations(Import)

NoWorker ==
    /\ \A w \in Worker : process[w] = "down" /\ doomed[w] = {}
    /\ Recorded = {}
    /\ told = "nothing"

NoPackage == \A e \in Export : exportJobs[e] = "none"

Begun == {p \in Point : stage[p] # "none"}
Making == {p \in Point : stage[p] \in UnderWay}

\* Points by themselves, made and pruned side by side by whomever.
PointsAndPrunings == NoWorker /\ NoPackage

\* A worker that makes at most two points, one for each job, on one day, and a command
\* that prunes.
WorkerAtWork ==
    /\ NoPackage
    /\ today = 0
    /\ Cardinality(Begun) <= Cardinality(Recorded)
    /\ Making \subseteq {making[w] : w \in Worker}
    /\ Cardinality({r \in Pruning \ Worker : doomed[r] # {}}) <= 1

\* At most two points of one day, made one after the other, the first of them exported;
\* a command prunes while a package is downloaded and, after that, while it is imported.
PackagesAtWork ==
    /\ NoWorker
    /\ today = 0
    /\ Cardinality(Begun) <= 2
    /\ (\A e \in Export : exporting[e].point = NoPoint) => Begun = {}
    /\ Cardinality(Making) <= 1
    /\ \A p \in Begun : stage[p] # "failed"
    /\ Cardinality({r \in Pruning : doomed[r] # {}}) <= 1
    /\ Cardinality(packages) <= 1
    /\ packages # {} => Making = {} /\ \A d \in Download : ~downloading[d].busy

Focus == PointsAndPrunings \/ WorkerAtWork \/ PackagesAtWork
=============================================================================
