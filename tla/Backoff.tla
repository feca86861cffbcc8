------------------------------ MODULE Backoff ------------------------------
(***************************************************************************)
(* The rate limiter of src/src/backoff.rs.                                 *)
(*                                                                         *)
(* A BackoffTracker remembers, per item, how many events it registered,    *)
(* when the last one was and how long the item is not ready afterwards.    *)
(* Its methods take &mut self, so they do not interleave; but the clock    *)
(* goes on while backoff_generic runs the caller's function, which is why  *)
(* that method is two actions, Start and Finish.                           *)
(***************************************************************************)
EXTENDS Integers

CONSTANTS
  Item,        \* the ids
  MinDelay,    \* BackoffConfig.min_delay
  MaxDelay,    \* BackoffConfig.max_delay
  Strategy,    \* BackoffConfig.strategy: [kind |-> ..., n |-> ...]
  U64Max,      \* u64::MAX; TLC uses a smaller word
  StartTime,   \* timestamp at which the tracker is made
  MaxTime      \* bound: the clock stops here

\* Configurations for which the documentation makes sense; the code accepts any.
ASSUME ConfigAssumption ==
  /\ MinDelay \in Nat /\ MaxDelay \in Nat /\ MinDelay <= MaxDelay
  /\ Strategy \in [kind : {"exponential", "cliff"}, n : Nat]
  /\ Strategy.kind = "exponential" => Strategy.n > 0
  /\ "none" \notin Item   \* the name Idle uses

ASSUME ClockAssumption ==
  /\ U64Max \in Nat /\ MaxDelay <= U64Max
  /\ StartTime \in Nat \ {0}
  /\ MaxTime \in Nat /\ StartTime <= MaxTime /\ MaxTime <= U64Max

\* No sum or product of this configuration leaves the word.
NoOverflow ==
  /\ MaxTime + MaxDelay <= U64Max
  /\ Strategy.kind = "exponential" => MaxDelay * Strategy.n <= U64Max

VARIABLES
  now,     \* clock.current_timestamp()
  field,   \* the HashMap: an entry, or Vacant, for every item
  exec,    \* the item and the flag of the backoff_generic that is running f
  ranAt    \* history: when an execution of each item last registered, 0 if
           \* never since the item was forgotten

vars == <<now, field, exec, ranAt>>

Vacant == [count |-> 0, last |-> 0, delay |-> 0]
Idle == [item |-> "none", singular |-> FALSE]

TypeOK ==
  /\ now \in StartTime .. MaxTime
  /\ field \in [Item -> [count : Nat, last : 0 .. MaxTime, delay : 0 .. MaxDelay]]
  /\ exec = Idle \/ exec \in [item : Item, singular : BOOLEAN]
  /\ ranAt \in [Item -> 0 .. MaxTime]

Init ==
  /\ now = StartTime
  /\ field = [i \in Item |-> Vacant]
  /\ exec = Idle
  /\ ranAt = [i \in Item |-> 0]

\* What is left of an unsigned 64-bit sum or product in a release build.
Wrap(n) == IF n <= U64Max THEN n ELSE n % (U64Max + 1)

Tick ==
  /\ now < MaxTime
  /\ now' = now + 1
  /\ UNCHANGED <<field, exec, ranAt>>

-----------------------------------------------------------------------------
ReadyEarly(i) == field[i] = Vacant \/ now >= Wrap(field[i].last + field[i].delay)

Ready(i) == field[i] = Vacant \/ now > Wrap(field[i].last + field[i].delay)

InitialDelay ==
  IF Strategy.kind = "cliff" /\ Strategy.n = 0 THEN MaxDelay ELSE MinDelay

NextDelayUncapped(e) ==
  IF Strategy.kind = "exponential"
  THEN Wrap(e.delay * Strategy.n)
  ELSE IF e.count > Strategy.n THEN MaxDelay ELSE MinDelay

NextDelay(e) ==
  IF Strategy.kind = "exponential"
  THEN LET d == Wrap(e.delay * Strategy.n) IN IF d < MaxDelay THEN d ELSE MaxDelay
  ELSE IF e.count > Strategy.n THEN MaxDelay ELSE MinDelay

\* f after event(i): an event inside the delay window of i changes nothing.
RecordedAlways(f, i) ==
  [f EXCEPT ![i] =
     IF @ = Vacant
     THEN [count |-> 1, last |-> now, delay |-> InitialDelay]
     ELSE [count |-> @.count + 1, last |-> now, delay |-> NextDelay(@)]]

RecordedInFirstWindow(f, i) ==
  [f EXCEPT ![i] =
     IF @ = Vacant
     THEN [count |-> 1, last |-> now, delay |-> InitialDelay]
     ELSE IF Wrap(@.last + @.delay) < now
     THEN [count |-> @.count + 1, last |-> @.last, delay |-> NextDelay(@)]
     ELSE @]

Recorded(f, i) ==
  [f EXCEPT ![i] =
     IF @ = Vacant
     THEN [count |-> 1, last |-> now, delay |-> InitialDelay]
     ELSE IF Wrap(@.last + @.delay) < now
     THEN [count |-> @.count + 1, last |-> now, delay |-> NextDelay(@)]
     ELSE @]

ErasedAll(i) == Item

\* What a singular event of i erases first: everything, unless i is tracked.
Erased(i) == IF field[i] = Vacant THEN Item ELSE {}

Without(f, S) == [i \in Item |-> IF i \in S THEN Vacant ELSE f[i]]
Forget(S) == [i \in Item |-> IF i \in S THEN 0 ELSE ranAt[i]]

-----------------------------------------------------------------------------
Event(i) ==
  /\ exec = Idle
  /\ field' = Recorded(field, i)
  /\ UNCHANGED <<now, exec, ranAt>>

SingularEvent(i) ==
  /\ exec = Idle
  /\ field' = Recorded(Without(field, Erased(i)), i)
  /\ ranAt' = Forget(Erased(i))
  /\ UNCHANGED <<now, exec>>

\* clear and clear_many
Clear(S) ==
  /\ exec = Idle
  /\ field' = Without(field, S)
  /\ ranAt' = Forget(S)
  /\ UNCHANGED <<now, exec>>

\* backoff_generic, when the item is ready: f begins.
Start(i, singular) ==
  /\ exec = Idle
  /\ Ready(i)
  /\ exec' = [item |-> i, singular |-> singular]
  /\ UNCHANGED <<now, field, ranAt>>

\* f returned a result for which the predicate is true: an event.
FinishWithEvent ==
  LET i == exec.item
      gone == IF exec.singular THEN Erased(i) ELSE {}
  IN  /\ exec # Idle
      /\ field' = Recorded(Without(field, gone), i)
      /\ ranAt' = [Forget(gone) EXCEPT ![i] = now]
      /\ exec' = Idle
      /\ UNCHANGED now

\* f returned a result for which the predicate is false.
FinishWithoutEvent ==
  /\ exec # Idle
  /\ exec' = Idle
  /\ UNCHANGED <<now, field, ranAt>>

Next ==
  \/ Tick
  \/ \E i \in Item : Event(i) \/ SingularEvent(i)
  \/ \E S \in SUBSET Item : Clear(S)
  \/ \E i \in Item, singular \in BOOLEAN : Start(i, singular)
  \/ FinishWithEvent
  \/ FinishWithoutEvent

Spec == Init /\ [][Next]_vars

-----------------------------------------------------------------------------
\* Two executions of an item are more than min_delay apart, from the end of
\* one that registered an event to the start of the next, however long the
\* function takes and whatever else is tracked, until the item is forgotten.
RateLimited ==
  [][\A i \in Item : exec = Idle /\ exec'.item = i /\ ranAt[i] # 0 =>
       now > ranAt[i] + MinDelay]_vars

\* The delay of an item: what an untracked one will have to wait at least.
Period(i) == IF field[i] = Vacant THEN MinDelay ELSE field[i].delay

Limiter ==
  INSTANCE RateLimit WITH running <- exec.item, None <- "none",
                          period <- [i \in Item |-> Period(i)]

\* The tracker implements RateLimit: bookkeeping by item and event, with its
\* singular events and clears, limits the runs as the abstract periods do.
LimitsRuns == Limiter!Spec

\* Every delay lies between min_delay and max_delay.
DelayInBounds ==
  \A i \in Item : field[i] # Vacant => field[i].delay \in MinDelay .. MaxDelay

\* The delay of an item never shrinks until the item is forgotten.
DelayNeverShrinks ==
  [][\A i \in Item : field[i] # Vacant /\ field'[i] # Vacant =>
       field'[i].delay >= field[i].delay]_vars

\* "Total quantity of registered events that occurred outside a delay window":
\* each one after the first took more than min_delay of the tracker's life.
CountsAreSpaced ==
  \A i \in Item : field[i] # Vacant =>
    (field[i].count - 1) * (MinDelay + 1) <= field[i].last - StartTime

\* BackoffConfig::once: "Once an event occurs, it will never be ready again
\* unless cleared."
NeverReadyAgain == \A i \in Item : field[i] # Vacant => ~ Ready(i)

=============================================================================
