----------------------------- MODULE MCBackoff -----------------------------
(***************************************************************************)
(* Instances of Backoff for TLC.                                           *)
(***************************************************************************)
EXTENDS Backoff

MCExponential2 == [kind |-> "exponential", n |-> 2]
MCCliff0 == [kind |-> "cliff", n |-> 0]

=============================================================================
