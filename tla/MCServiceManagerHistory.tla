----------------------- MODULE MCServiceManagerHistory -----------------------
(***************************************************************************)
(* Instances of ServiceManagerHistory for TLC.                             *)
(***************************************************************************)
EXTENDS ServiceManagerHistory

MCTtl1 == <<1>>
MCTtl2 == <<1, 1>>

=============================================================================
