--------------------------- MODULE SharedReceiver ---------------------------
(***************************************************************************)
(* Several jobs call process_batch of src/src/queue_consumer.rs with one   *)
(* and the same receiver: &Mutex<QueueReceiver>.  The mutex is the one of  *)
(* parking_lot: a job that waits for it blocks the worker thread it runs   *)
(* on.  Its guard is a temporary of the statement that awaits recv_with,   *)
(* so a job keeps it while it sleeps between two polls of the queue; such  *)
(* a job needs no thread until it is to be polled again, and then it does. *)
(*                                                                         *)
(* Time is abstract: a sleep or a timeout may end at any moment.  The      *)
(* receiver has no max_wait and no cooldown, and the queue is its length.  *)
(***************************************************************************)
EXTENDS Integers, FiniteSets

CONSTANTS
  Job,       \* tasks that call process_batch with the shared receiver
  Threads,   \* worker threads of the runtime
  MinChunk,  \* QueueReceiveConfig.min_chunk_size
  MaxQueued, \* bound: length of the queue
  NoJob      \* the holder of a free mutex

ASSUME SharingAssumption ==
  /\ IsFiniteSet(Job) /\ NoJob \notin Job
  /\ Threads \in Nat \ {0}
  /\ MinChunk \in Nat /\ MaxQueued \in Nat

VARIABLES
  where,   \* where the call of each job is
  expired, \* whether its timeout has elapsed
  holder,  \* who holds the guard
  queued   \* the length of the queue

vars == <<where, expired, holder, queued>>

\* "lock", "poll": on a thread, before the mutex or behind it in recv_with;
\* "sleep": at the await of the sleeper; "process": at an await of the
\* processor, the guard is dropped; "idle": there is no call.
Where == {"idle", "lock", "poll", "sleep", "process"}

TypeOK ==
  /\ where \in [Job -> Where]
  /\ expired \in [Job -> BOOLEAN]
  /\ holder \in Job \cup {NoJob}
  /\ queued \in 0 .. MaxQueued

Init ==
  /\ where = [j \in Job |-> "idle"]
  /\ expired = [j \in Job |-> FALSE]
  /\ holder = NoJob
  /\ queued = 0

\* The jobs that occupy a thread: a sleeping one gave it back.
OnThread == {j \in Job : where[j] \in {"lock", "poll"}}
FreeThread == Cardinality(OnThread) < Threads

Goto(j, w) == where' = [where EXCEPT ![j] = w]
Return(j) == Goto(j, "idle")

-----------------------------------------------------------------------------
Push ==
  /\ queued < MaxQueued
  /\ queued' = queued + 1
  /\ UNCHANGED <<where, expired, holder>>

\* The timer of a call goes off; the task is to be polled when it may.
Expire(j) ==
  /\ where[j] # "idle" /\ ~ expired[j]
  /\ expired' = [expired EXCEPT ![j] = TRUE]
  /\ UNCHANGED <<where, holder, queued>>

\* A thread polls the new future, as far as receiver.lock().
Begin(j) ==
  /\ where[j] = "idle" /\ FreeThread
  /\ Goto(j, "lock")
  /\ expired' = [expired EXCEPT ![j] = FALSE]
  /\ UNCHANGED <<holder, queued>>

Lock(j) ==
  /\ where[j] = "lock" /\ holder = NoJob
  /\ holder' = j
  /\ Goto(j, "poll")
  /\ UNCHANGED <<expired, queued>>

TooFewOffByOne == queued < MinChunk - 1
TooFew == queued < MinChunk

\* Too few items: the sleep is pending, so the timeout looks at its timer, and
\* drops the call with its guard if it has gone off.
Wait(j) ==
  /\ where[j] = "poll" /\ TooFew
  /\ \/ expired[j] /\ Return(j) /\ holder' = NoJob
     \/ ~ expired[j] /\ Goto(j, "sleep") /\ UNCHANGED holder
  /\ UNCHANGED <<expired, queued>>

TakeOneTooMany(j) ==
  /\ where[j] = "poll" /\ ~ TooFew
  /\ queued' \in {left - 1 : left \in 0 .. queued - 1}
  /\ holder' = NoJob
  /\ Goto(j, "process")
  /\ UNCHANGED expired

\* recv_with returns items, and the guard is dropped before the processor gets
\* them.  With MinChunk = 0 the code loops on an empty queue without an await:
\* the job stays where it is.
Take(j) ==
  /\ where[j] = "poll" /\ ~ TooFew
  /\ queued' \in 0 .. queued - 1
  /\ holder' = NoJob
  /\ Goto(j, "process")
  /\ UNCHANGED expired

\* The sleep is over, and a thread polls the job, which polls the queue.
Resume(j) ==
  /\ where[j] = "sleep" /\ FreeThread
  /\ Goto(j, "poll")
  /\ UNCHANGED <<expired, holder, queued>>

CancelKeepingGuard(j) ==
  /\ where[j] \in {"sleep", "process"} /\ expired[j] /\ FreeThread
  /\ Return(j)
  /\ UNCHANGED <<expired, holder, queued>>

\* A thread polls the job because its timer went off: the call is dropped at its
\* await, and the guard with it.
Cancel(j) ==
  /\ where[j] \in {"sleep", "process"} /\ expired[j] /\ FreeThread
  /\ Return(j)
  /\ holder' = IF holder = j THEN NoJob ELSE holder
  /\ UNCHANGED <<expired, queued>>

\* The processor is done with the batch.
Finish(j) ==
  /\ where[j] = "process" /\ FreeThread
  /\ Return(j)
  /\ UNCHANGED <<expired, holder, queued>>

-----------------------------------------------------------------------------
Poll(j) == Wait(j) \/ Take(j)

JobStep(j) ==
  \/ Begin(j)
  \/ Expire(j)
  \/ Lock(j)
  \/ Poll(j)
  \/ Resume(j)
  \/ Cancel(j)
  \/ Finish(j)

Next == Push \/ \E j \in Job : JobStep(j)

Spec == Init /\ [][Next]_vars

(***************************************************************************)
(* Fairness: time passes and a thread goes on with what it runs (weak); a  *)
(* task that is woken gets one of the threads that become free, as the     *)
(* runtime's queues are first in first out, and parking_lot hands the      *)
(* mutex to the longest waiter from time to time (strong).  Nothing        *)
(* obliges the queue to fill, a processor to end or a job to begin.        *)
(***************************************************************************)
Fairness ==
  \A j \in Job :
    /\ WF_vars(Expire(j)) /\ WF_vars(Poll(j))
    /\ SF_vars(Lock(j)) /\ SF_vars(Cancel(j))

FairSpec == Spec /\ Fairness

-----------------------------------------------------------------------------
\* The mutex is locked exactly while its holder is inside recv_with: no call
\* that was cancelled or is processing its batch keeps the others out.
GuardIsReceiving ==
  \A j \in Job : holder = j <=> where[j] \in {"poll", "sleep"}

\* process_batch: "the entire job will be cancelled if it exceeds this time".
JobEnds == \A j \in Job : expired[j] /\ where[j] # "idle" ~> where[j] = "idle"

=============================================================================
