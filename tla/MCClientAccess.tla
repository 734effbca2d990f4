--------------------------- MODULE MCClientAccess ---------------------------
(* Instance of ClientAccess for TLC. *)
EXTENDS ClientAccess, TLC

RequestsAndDevices == Permutations(Request) \union Permutations(Installation)
=============================================================================
