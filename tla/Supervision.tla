---------------------------- MODULE Supervision ----------------------------
(***************************************************************************)
(* What the service orchestrator promises about the tasks it runs, without *)
(* handles, mutexes, checks and monitors: a service has one task at most,  *)
(* a successor begins only when it has none, with a fresh sign of life,    *)
(* and nobody but its own task gives one on its behalf in between.         *)
(***************************************************************************)
EXTENDS Integers

CONSTANTS Service, StartTime, MaxTime

VARIABLES
  now,   \* the clock
  beat,  \* when each service last gave a sign of life
  task   \* the task of each service; "told": it has been told to end

avars == <<now, beat, task>>

Init ==
  /\ now = StartTime
  /\ beat = [s \in Service |-> 0]
  /\ task = [s \in Service |-> "none"]

Tick ==
  /\ now < MaxTime
  /\ now' = now + 1
  /\ UNCHANGED <<beat, task>>

Begin(s) ==
  /\ task[s] = "none"
  /\ task' = [task EXCEPT ![s] = "running"]
  /\ beat' = [beat EXCEPT ![s] = now]
  /\ UNCHANGED now

Live(s) ==
  /\ task[s] # "none"
  /\ beat' = [beat EXCEPT ![s] = now]
  /\ UNCHANGED <<now, task>>

Tell(s) ==
  /\ task[s] = "running"
  /\ task' = [task EXCEPT ![s] = "told"]
  /\ UNCHANGED <<now, beat>>

\* The task panics, or one that was told to end reaches an await.
End(s) ==
  /\ task[s] # "none"
  /\ task' = [task EXCEPT ![s] = "none"]
  /\ UNCHANGED <<now, beat>>

Next ==
  \/ Tick
  \/ \E s \in Service : Begin(s) \/ Live(s) \/ Tell(s) \/ End(s)

Spec == Init /\ [][Next]_avars

=============================================================================
