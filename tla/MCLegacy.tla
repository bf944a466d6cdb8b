------------------------------ MODULE MCLegacy ------------------------------
(***************************************************************************)
(* Values for both runners, and for which of them a process has.           *)
(***************************************************************************)
EXTENDS MCSoraRunner, LegacyRunner
=============================================================================
