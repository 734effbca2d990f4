--------------------------- MODULE RecoveryTarget ---------------------------
(***************************************************************************)
(* What a backup target promises those who look for a recovery point: a    *)
(* set of whole points.  A point appears at once, when its creation commits;*)
(* it leaves only when, of all points ever made, newer ones have taken its *)
(* place in every tier; and an import may bring it back.                   *)
(*                                                                         *)
(* This is the abstract specification of BackupOperations.  Files, markers,*)
(* leases, lists that have grown old, failures and crashes are not seen.   *)
(***************************************************************************)
EXTENDS Naturals, FiniteSets

CONSTANTS
    Point,
    Tier,            \* daily, weekly and monthly
    Limit,           \* how many slots of a tier are kept
    SlotOf,          \* the slot of a tier that a day falls into
    LastDay          \* bound on the days that pass

VARIABLES
    made,            \* the points ever made, with the moment of each
    offered          \* those that can be restored from

targetVars == <<made, offered>>

TargetInit ==
    /\ made = [p \in {} |-> 0]
    /\ offered = {}

-----------------------------------------------------------------------------

NewerThan(p) == {q \in DOMAIN made : made[q].order > made[p].order}

SlotOfPoint(tier, p) == SlotOf[tier][made[p].day]

\* In every tier a newer point has taken the slot of p, or newer ones have taken as
\* many slots as are kept.
PlaceTaken(p) ==
    \A tier \in Tier :
        \/ \E q \in NewerThan(p) : SlotOfPoint(tier, q) = SlotOfPoint(tier, p)
        \/ Limit[tier] <= Cardinality({SlotOfPoint(tier, q) : q \in NewerThan(p)})

\* A point is made at a moment of its own.
Make(p) ==
    /\ p \notin DOMAIN made
    /\ DOMAIN made' = DOMAIN made \union {p}
    /\ \A q \in DOMAIN made : made'[q] = made[q] /\ made'[q].order # made'[p].order
    /\ made'[p] \in [day : 0 .. LastDay, order : Nat]
    /\ offered' = offered \union {p}

Withdraw(p) ==
    /\ p \in offered
    /\ PlaceTaken(p)
    /\ offered' = offered \ {p}
    /\ UNCHANGED made

BringBack(p) ==
    /\ p \in DOMAIN made \ offered
    /\ offered' = offered \union {p}
    /\ UNCHANGED made

TargetNext == \E p \in Point : Make(p) \/ Withdraw(p) \/ BringBack(p)

TargetSpec == TargetInit /\ [][TargetNext]_targetVars

=============================================================================
