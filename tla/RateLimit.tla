----------------------------- MODULE RateLimit -----------------------------
(***************************************************************************)
(* What the rate limiter promises to the caller of its functions, without  *)
(* its map of events: after a run that registered an event, an item is not *)
(* run again for more than its period.  The period lies between MinDelay   *)
(* and MaxDelay and grows until the item is forgotten.                     *)
(***************************************************************************)
EXTENDS Integers

CONSTANTS Item, MinDelay, MaxDelay, StartTime, MaxTime, None

VARIABLES
  now,      \* the clock
  running,  \* the item whose function is running, or None
  ranAt,    \* when each item last ran and registered, 0 if that is forgotten
  period    \* how long it has to wait since then

rvars == <<now, running, ranAt, period>>

Init ==
  /\ now = StartTime
  /\ running = None
  /\ ranAt = [i \in Item |-> 0]
  /\ period = [i \in Item |-> MinDelay]

Tick ==
  /\ now < MaxTime
  /\ now' = now + 1
  /\ UNCHANGED <<running, ranAt, period>>

Run(i) ==
  /\ running = None
  /\ ranAt[i] = 0 \/ now > ranAt[i] + period[i]
  /\ running' = i
  /\ UNCHANGED <<now, ranAt, period>>

\* Events, with a run or without: the items in S are forgotten, and no period
\* of another item shrinks.
Adjust(S) ==
  period' \in {p \in [Item -> MinDelay .. MaxDelay] :
                 \A i \in Item \ S : p[i] >= period[i]}

Return(S) ==
  /\ running # None
  /\ running' = None
  /\ Adjust(S)
  /\ ranAt' = [i \in Item |-> IF i = running THEN now ELSE IF i \in S THEN 0 ELSE ranAt[i]]
  /\ UNCHANGED now

ReturnQuietly ==
  /\ running # None
  /\ running' = None
  /\ UNCHANGED <<now, ranAt, period>>

Register(S) ==
  /\ running = None
  /\ Adjust(S)
  /\ ranAt' = [i \in Item |-> IF i \in S THEN 0 ELSE ranAt[i]]
  /\ UNCHANGED <<now, running>>

Next ==
  \/ Tick
  \/ \E i \in Item : Run(i)
  \/ ReturnQuietly
  \/ \E S \in SUBSET Item : Return(S) \/ Register(S)

Spec == Init /\ [][Next]_rvars

=============================================================================
