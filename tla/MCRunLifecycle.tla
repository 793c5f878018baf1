--------------------------- MODULE MCRunLifecycle ---------------------------
(* Small instance of RunLifecycle for TLC. *)
EXTENDS RunLifecycle, TLC
=============================================================================
