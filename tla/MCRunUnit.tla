----------------------------- MODULE MCRunUnit -----------------------------
(***************************************************************************)
(* RunUnit on small instances: the procedures and bounds of the .cfg.      *)
(***************************************************************************)
EXTENDS RunUnit

=============================================================================
