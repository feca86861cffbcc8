-------------------------- MODULE MCServiceManager --------------------------
(***************************************************************************)
(* Instances of ServiceManager and UnhealthyTime for TLC.                  *)
(***************************************************************************)
EXTENDS UnhealthyTime

MCTtl1 == <<1>>

=============================================================================
