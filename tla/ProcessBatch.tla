---------------------------- MODULE ProcessBatch ----------------------------
(***************************************************************************)
(* process_batch of src/src/queue_consumer.rs, as a Dispatch job runs it   *)
(* again and again: it receives a chunk from its QueueReceiver, leaves out *)
(* the items that its BackoffTracker holds back, prepares the others in    *)
(* parallel, processes them as one batch and reports every item to the     *)
(* tracker.  All of it runs under a timeout, which can end it at any of    *)
(* its awaits.                                                             *)
(*                                                                         *)
(* The receiver and the tracker are those of QueueReceiver and Backoff.    *)
(***************************************************************************)
EXTENDS QueueReceiver

CONSTANTS
  Timeout,                      \* timeout_secs
  HasBackoff,                   \* whether there is a tracker
  MinDelay, MaxDelay, Strategy, \* its BackoffConfig
  U64Max                        \* as in Backoff

ASSUME BatchAssumption ==
  /\ Timeout \in Nat /\ HasBackoff \in BOOLEAN
  /\ MinDelay \in Nat /\ MaxDelay \in Nat /\ MinDelay <= MaxDelay
  /\ Strategy \in [kind : {"exponential", "cliff"}, n : Nat]
  /\ U64Max \in Nat

VARIABLES
  jpc,       \* the await that the job is at, or "idle"
  items,     \* what it is to prepare
  errs,      \* err_inputs; the other items are ok_inputs
  tracker,   \* the tracker's map
  failedAt,  \* history: when the last attempt at each item ended, if it
             \* failed, and 0 otherwise
  triedAt    \* history: when the last attempt at each item began, or 0

jobVars == <<jpc, items, errs, tracker, failedAt, triedAt>>
batchVars == <<vars, jobVars>>

B == INSTANCE Backoff WITH
       field <- tracker,
       exec <- [item |-> "none", singular |-> FALSE],
       ranAt <- [i \in Item |-> 0]

BatchTypeOK ==
  /\ TypeOK
  /\ jpc \in {"idle", "receive", "prepare", "batch"}
  /\ items \subseteq Item /\ errs \subseteq items
  /\ tracker \in [Item -> [count : Nat, last : 0 .. MaxTime, delay : 0 .. MaxDelay]]
  /\ failedAt \in [Item -> 0 .. MaxTime]
  /\ triedAt \in [Item -> 0 .. MaxTime]

BatchInit ==
  /\ Init
  /\ jpc = "idle"
  /\ items = {} /\ errs = {}
  /\ tracker = [i \in Item |-> B!Vacant]
  /\ failedAt = [i \in Item |-> 0]
  /\ triedAt = [i \in Item |-> 0]

-----------------------------------------------------------------------------
Begin ==
  /\ jpc = "idle"
  /\ \E c \in Configs : Recv(c)
  /\ jpc' = "receive"
  /\ UNCHANGED <<items, errs, tracker, failedAt, triedAt>>

Receive ==
  /\ jpc = "receive"
  /\ ReceiverStep
  /\ UNCHANGED jobVars

RetainedAll(S) == S
Retained(S) == IF HasBackoff THEN {i \in S : B!Ready(i)} ELSE S

\* recv has returned: what is left of the chunk is attempted.
Retain ==
  /\ jpc = "receive" /\ rpc = "idle"
  /\ items' = Retained(chunk)
  /\ errs' = {}
  /\ triedAt' = [i \in Item |-> IF i \in Retained(chunk) THEN now ELSE triedAt[i]]
  /\ jpc' = "prepare"
  /\ UNCHANGED <<vars, tracker, failedAt>>

\* join_all: the preparations are over, and failed for the items of errs'.
Prepared ==
  /\ jpc = "prepare"
  /\ errs' \in SUBSET items
  /\ jpc' = "batch"
  /\ UNCHANGED <<vars, items, tracker, failedAt, triedAt>>

\* f after one event for each item of S
Events(f, S) ==
  IF HasBackoff
  THEN [i \in Item |-> IF i \in S THEN B!Recorded(f, i)[i] ELSE f[i]]
  ELSE f

ClearedNone(f, S) == f
Cleared(f, S) == IF HasBackoff THEN B!Without(f, S) ELSE f

\* process_batch of the processor returned Ok or Err; the items of failed are
\* the ones reported as events.
Settle(failed) ==
  /\ tracker' = Events(Cleared(tracker, items \ failed), failed)
  /\ failedAt' = [i \in Item |-> IF i \in failed THEN now
                                 ELSE IF i \in items THEN 0 ELSE failedAt[i]]
  /\ jpc' = "idle"
  /\ items' = {} /\ errs' = {}
  /\ UNCHANGED <<vars, triedAt>>

BatchFailed == jpc = "batch" /\ Settle(items)
BatchSucceeded == jpc = "batch" /\ Settle(errs)

\* The timer fired first: the future is dropped at its await, with its items.
TimedOut ==
  /\ jpc # "idle"
  /\ now >= start + Timeout
  /\ \/ jpc = "receive" /\ Cancel
     \/ jpc \in {"prepare", "batch"} /\ UNCHANGED vars
  /\ jpc' = "idle"
  /\ items' = {} /\ errs' = {}
  /\ UNCHANGED <<tracker, failedAt, triedAt>>

BatchNext ==
  \/ Environment /\ UNCHANGED jobVars
  \/ Begin
  \/ Receive
  \/ Retain
  \/ Prepared
  \/ BatchFailed
  \/ BatchSucceeded
  \/ TimedOut

BatchSpec == BatchInit /\ [][BatchNext]_batchVars

-----------------------------------------------------------------------------
\* An item whose last attempt failed is not attempted again before its minimum
\* delay is over, however often it is pushed and whatever becomes of the rest
\* of its batch or of the batches between.
NoEarlyRetry ==
  [][\A i \in Item : i \in items' \ items /\ failedAt[i] # 0 =>
       now > failedAt[i] + MinDelay]_batchVars

\* The tracker holds exactly the items whose last finished attempt failed, and
\* since that failure: none is refused for a failure it has made up for, and no
\* failure is lost in the delay window of an earlier one.
TrackedSinceFailure ==
  HasBackoff =>
    \A i \in Item :
      IF failedAt[i] = 0 THEN tracker[i] = B!Vacant
      ELSE tracker[i] # B!Vacant /\ tracker[i].last = failedAt[i]

\* cooldown: "only the first one is used": an item that the cooldown throws away
\* was attempted within the cooldown.
DroppedWasUsed ==
  [][\A i \in Item : rpc # rpc' /\ i \in queue /\ i \notin queue' /\ i \notin chunk' =>
       triedAt[i] # 0 /\ now - triedAt[i] < config.cooldown]_batchVars

=============================================================================
