-------------------------- MODULE MCQueueReceiver --------------------------
(***************************************************************************)
(* Instances of QueueReceiver for TLC: the configurations of the calls.    *)
(***************************************************************************)
EXTENDS QueueReceiver

Base == [poll |-> 1, maxWait |-> 1, maxChunk |-> 1, minChunk |-> 1, cooldown |-> 2]

\* Two cooldowns and no deduplication; with and without a maximum wait, a limit
\* of the chunk and a minimum above 1.
MCOverrides ==
  {Base,
   [Base EXCEPT !.cooldown = 3, !.maxChunk = 9, !.minChunk = 2],
   [Base EXCEPT !.cooldown = None, !.maxWait = None]}

=============================================================================
