--------------------------- MODULE MCBackupPoints ---------------------------
(* Instances of BackupPoints for TLC. *)
EXTENDS BackupPoints, TLC

CONSTANTS server, space, daily, monthly

\* Days are slots of their own; all of them fall into one month.
Slots == (daily :> [day \in 0 .. LastDay |-> day]) @@ (monthly :> [day \in 0 .. LastDay |-> 0])

\* Two days and one month are kept.
TwoDaysOneMonth == (daily :> 2) @@ (monthly :> 1)

PointSymmetry == Permutations(Point) \union Permutations(Pruning)
=============================================================================
