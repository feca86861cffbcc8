--------------------------- MODULE QueueReceiver ---------------------------
(***************************************************************************)
(* QueueReceiver of src/src/queue_consumer.rs: one receiver of a shared    *)
(* priority queue, which others push to and pop from.                      *)
(*                                                                         *)
(* The priority queue holds an item at most once, so it is a set; which of *)
(* its items pop() yields first is left open.  recv_with is a loop of a    *)
(* read of the length, a poll under the write lock, a look at the clock,   *)
(* and a sleep, and each of them is an action: the lock is free between    *)
(* them.                                                                   *)
(***************************************************************************)
EXTENDS Integers, FiniteSets

CONSTANTS
  Item,       \* the values that are queued
  Configs,    \* the configurations that the overrides of a call may produce
  StartTime,  \* the system time at the beginning, in units of the durations
  MaxTime     \* bound: the clock stops here

\* The None of an Option; Some(n) is n.
None == -1

\* max_chunk_size of None is usize::MAX: any number above the items there are.
\* batch_strategy has no effect: the code never reads it.
ASSUME ConfigsAssumption ==
  Configs \subseteq
    [poll : Nat, maxWait : Nat \cup {None}, maxChunk : Nat \ {0},
     minChunk : Nat, cooldown : Nat \cup {None}]

\* The time since the epoch exceeds every cooldown.
ASSUME TimeAssumption ==
  /\ StartTime \in Nat \ {0} /\ MaxTime \in Nat /\ StartTime <= MaxTime
  /\ \A c \in Configs : c.cooldown < StartTime

VARIABLES
  now,      \* SystemTime::now()
  queue,    \* the items in the priority queue
  lastSeen, \* last_appearances; UNIX_EPOCH, 0, where there is no entry
  rpc,      \* where the receiver's call is
  config,   \* the local config of that call
  start,    \* its local start
  wake,     \* when the sleeper wakes it
  chunk,    \* what it returned
  takenAt   \* history: when a deduplicating call last took each item, or 0

receiverVars == <<lastSeen, rpc, config, start, wake, chunk, takenAt>>
vars == <<now, queue, receiverVars>>

TypeOK ==
  /\ now \in StartTime .. MaxTime
  /\ queue \subseteq Item
  /\ lastSeen \in [Item -> 0 .. MaxTime]
  /\ rpc \in {"idle", "try", "length", "poll", "deadline", "sleep"}
  /\ config \in Configs
  /\ start \in StartTime .. MaxTime
  /\ wake \in 0 .. MaxTime
  /\ chunk \subseteq Item
  /\ takenAt \in [Item -> 0 .. MaxTime]

Init ==
  /\ now = StartTime
  /\ queue = {}
  /\ lastSeen = [i \in Item |-> 0]
  /\ rpc = "idle"
  /\ config \in Configs
  /\ start = StartTime
  /\ wake = 0
  /\ chunk = {}
  /\ takenAt = [i \in Item |-> 0]

-----------------------------------------------------------------------------
(* The clock and the users of the queue *)

Tick ==
  /\ now < MaxTime
  /\ now' = now + 1
  /\ UNCHANGED <<queue, receiverVars>>

\* Pushing an item that is queued already only changes its priority.
Push(i) ==
  /\ i \notin queue
  /\ queue' = queue \cup {i}
  /\ UNCHANGED <<now, receiverVars>>

\* Another receiver of the same queue pops it.
Steal(i) ==
  /\ i \in queue
  /\ queue' = queue \ {i}
  /\ UNCHANGED <<now, receiverVars>>

-----------------------------------------------------------------------------
(* try_recv_with *)

Cooling(i) == config.cooldown # None /\ now - lastSeen[i] < config.cooldown

\* The set of items that the loop pops: it ends when the chunk is full or the
\* queue is empty, and goes on past items that are cooling.
PopsUntilFull(popped) ==
  LET taken == {i \in popped : ~ Cooling(i)}
  IN  \/ Cardinality(taken) = config.maxChunk
      \/ Cardinality(taken) < config.maxChunk /\ popped = queue

SeenNever(popped) == lastSeen
SeenExpiry(popped) ==
  IF config.cooldown = None THEN lastSeen
  ELSE [i \in Item |-> IF i \in popped /\ ~ Cooling(i)
                       THEN now + config.cooldown ELSE lastSeen[i]]
SeenDropped(popped) ==
  IF config.cooldown = None THEN lastSeen
  ELSE [i \in Item |-> IF i \in popped THEN now ELSE lastSeen[i]]

\* last_appearances after a call with a cooldown popped these items: those that
\* it threw away keep their time.
Seen(popped) ==
  IF config.cooldown = None THEN lastSeen
  ELSE [i \in Item |-> IF i \in popped /\ ~ Cooling(i) THEN now ELSE lastSeen[i]]

PollOnce ==
  /\ rpc \in {"try", "poll"}
  /\ \E popped \in SUBSET queue :
       LET taken == {i \in popped : ~ Cooling(i)}
       IN  /\ PopsUntilFull(popped)
           /\ queue' = queue \ popped
           /\ lastSeen' = Seen(popped)
           /\ takenAt' = IF config.cooldown = None THEN takenAt
                         ELSE [i \in Item |-> IF i \in taken THEN now ELSE takenAt[i]]
           /\ chunk' = taken
           /\ rpc' = "idle"
  /\ UNCHANGED <<now, config, start, wake>>

Poll ==
  /\ rpc \in {"try", "poll"}
  /\ \E popped \in SUBSET queue :
       LET taken == {i \in popped : ~ Cooling(i)}
       IN  /\ PopsUntilFull(popped)
           /\ queue' = queue \ popped
           /\ lastSeen' = Seen(popped)
           /\ takenAt' = IF config.cooldown = None THEN takenAt
                         ELSE [i \in Item |-> IF i \in taken THEN now ELSE takenAt[i]]
           /\ chunk' = taken
           /\ rpc' = IF rpc = "try" \/ taken # {} THEN "idle" ELSE "deadline"
  /\ UNCHANGED <<now, config, start, wake>>

TryRecv(c) ==
  /\ rpc = "idle"
  /\ config' = c
  /\ rpc' = "try"
  /\ UNCHANGED <<now, queue, lastSeen, start, wake, chunk, takenAt>>

-----------------------------------------------------------------------------
(* recv_with *)

Recv(c) ==
  /\ rpc = "idle"
  /\ config' = c
  /\ start' = now
  /\ rpc' = "length"
  /\ UNCHANGED <<now, queue, lastSeen, wake, chunk, takenAt>>

TooFewOrJustEnough == Cardinality(queue) <= config.minChunk
TooFew == Cardinality(queue) < config.minChunk

\* Bound: a sleep does not outlast the clock.
WakeTime == IF now + config.poll <= MaxTime THEN now + config.poll ELSE MaxTime

CheckLength ==
  /\ rpc = "length"
  /\ \/ /\ TooFew
        /\ rpc' = "sleep"
        /\ wake' = WakeTime
     \/ /\ ~ TooFew
        /\ rpc' = "poll"
        /\ UNCHANGED wake
  /\ UNCHANGED <<now, queue, lastSeen, config, start, chunk, takenAt>>

\* The sleeper sleeps for at least poll_interval.
Slept ==
  /\ rpc = "sleep"
  /\ now >= wake
  /\ rpc' = "deadline"
  /\ UNCHANGED <<now, queue, lastSeen, config, start, wake, chunk, takenAt>>

LateSinceWake == config.maxWait # None /\ now - wake > config.maxWait
Late == config.maxWait # None /\ now - start > config.maxWait

CheckDeadline ==
  /\ rpc = "deadline"
  /\ \/ /\ Late
        /\ chunk' = {}
        /\ rpc' = "idle"
     \/ /\ ~ Late
        /\ rpc' = "length"
        /\ UNCHANGED chunk
  /\ UNCHANGED <<now, queue, lastSeen, config, start, wake, takenAt>>

\* The caller drops the future, which can only be at its await.
Cancel ==
  /\ rpc = "sleep"
  /\ rpc' = "idle"
  /\ chunk' = {}
  /\ UNCHANGED <<now, queue, lastSeen, config, start, wake, takenAt>>

-----------------------------------------------------------------------------
Environment == Tick \/ \E i \in Item : Push(i) \/ Steal(i)
ReceiverStep == CheckLength \/ Poll \/ Slept \/ CheckDeadline
Calls == Cancel \/ \E c \in Configs : Recv(c) \/ TryRecv(c)

Next == Environment \/ ReceiverStep \/ Calls

Spec == Init /\ [][Next]_vars

\* The runtime polls the receiver's task when it is ready, and time passes.
FairSpec == Spec /\ WF_vars(Tick) /\ WF_vars(ReceiverStep)

-----------------------------------------------------------------------------
\* "If an identical item is read from the queue multiple times within this
\* many seconds, only the first one is used": whatever the other calls of the
\* receiver do, a call with a cooldown takes no item that a call with one took
\* within its cooldown.
TakesAreSpaced ==
  [][\A i \in Item : takenAt'[i] # takenAt[i] /\ takenAt[i] # 0 =>
       takenAt'[i] - takenAt[i] >= config.cooldown]_vars

\* The receiver throws an item away only if it did return the same item within
\* the cooldown: a stream of duplicates does not put off the next use.
DropsOnlyRecent ==
  [][\A i \in Item : rpc # rpc' /\ i \in queue /\ i \notin queue' /\ i \notin chunk' =>
       takenAt[i] # 0 /\ now - takenAt[i] < config.cooldown]_vars

\* "Waits until some are available, then returns as many as possible, up to
\* max_chunk_size": a call that is not cancelled returns some items, or none
\* after more than its max_wait, although the items that it counted may be gone
\* to another receiver, or turn out to be cooling, when it pops them.
ReturnsAreEarned ==
  [][rpc \notin {"idle", "try", "sleep"} /\ rpc' = "idle" =>
       IF chunk' = {} THEN config.maxWait # None /\ now - start > config.maxWait
       ELSE Cardinality(chunk') <= config.maxChunk]_vars

\* A call with a max_wait returns, whatever happens to the queue meanwhile.
RecvReturns ==
  (rpc \notin {"idle", "try"} /\ config.maxWait # None
     /\ start + config.maxWait < MaxTime) ~> rpc = "idle"

Available ==
  Cardinality(queue) >= config.minChunk /\ \E i \in queue : ~ Cooling(i)

\* "Waits until some are available, then returns": a call does not go on for
\* ever while there are enough items, one of them not cooling.
AvailableIsReturned ==
  rpc \notin {"idle", "try"} /\ Available ~> rpc = "idle" \/ ~ Available

=============================================================================
