--------------------------- MODULE MCProcessBatch ---------------------------
(***************************************************************************)
(* Instances of ProcessBatch for TLC.                                      *)
(***************************************************************************)
EXTENDS ProcessBatch, TLC

MCExponential2 == [kind |-> "exponential", n |-> 2]

Base == [poll |-> 1, maxWait |-> 1, maxChunk |-> 2, minChunk |-> 1, cooldown |-> None]

MCPlain == {Base}
MCCooldown == {[Base EXCEPT !.cooldown = 2]}

ItemSymmetry == Permutations(Item)

=============================================================================
