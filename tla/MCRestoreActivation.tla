------------------------ MODULE MCRestoreActivation -------------------------
(* Instance of RestoreActivation for TLC. *)
EXTENDS RestoreActivation, TLC
=============================================================================
