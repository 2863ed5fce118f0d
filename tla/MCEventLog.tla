----------------------------- MODULE MCEventLog -----------------------------
(***************************************************************************)
(* Small instances of EventLog; every bound is in the configurations.      *)
(***************************************************************************)
EXTENDS EventLog
=============================================================================
