--------------------------- MODULE BackoffProofs ---------------------------
(***************************************************************************)
(* The promises of the rate limiter, for every configuration of which no   *)
(* sum and no product overflows; its types, and what becomes of            *)
(* BackoffConfig::once, where they do.                                     *)
(***************************************************************************)
EXTENDS Backoff, TLAPS

Entry == [count : Nat, last : 0 .. MaxTime, delay : 0 .. MaxDelay]

\* What every entry of the map satisfies.  The last conjunct makes the delay
\* of a cliff monotone: once it is above the minimum it is past the cliff.
GoodEntry(e) ==
  /\ e \in Entry
  /\ e.count >= 1
  /\ e.last \in StartTime .. now
  /\ e.delay \in MinDelay .. MaxDelay
  /\ (e.count - 1) * (MinDelay + 1) <= e.last - StartTime
  /\ Strategy.kind = "cliff" /\ e.delay # MinDelay =>
       e.count > Strategy.n /\ e.delay = MaxDelay

\* A recorded execution is no later than the last event of its item, and the
\* item whose function is running stays ready.
Inv ==
  /\ TypeOK
  /\ \A i \in Item : field[i] # Vacant => GoodEntry(field[i])
  /\ \A i \in Item : ranAt[i] # 0 => field[i] # Vacant /\ ranAt[i] <= field[i].last
  /\ exec # Idle => exec.item \in Item /\ Ready(exec.item)

\* Products keep the order of their first factors.
LEMMA ProductMonotone ==
  ASSUME NEW a \in Nat, NEW b \in Nat, NEW n \in Nat, a <= b
  PROVE  a * n <= b * n
<1> DEFINE d == b - a
<1>1. d \in Nat /\ b = a + d
  OBVIOUS
<1>2. d * n \in Nat
  BY <1>1
<1>3. b * n = a * n + d * n
  BY <1>1
<1>4. QED
  BY <1>2, <1>3

\* The next delay of an entry stays in bounds and is no shorter.
LEMMA NextDelayGrows ==
  ASSUME NoOverflow, NEW e, GoodEntry(e)
  PROVE  /\ NextDelay(e) \in MinDelay .. MaxDelay
         /\ NextDelay(e) >= e.delay
         /\ Strategy.kind = "cliff" /\ NextDelay(e) # MinDelay =>
              e.count > Strategy.n /\ NextDelay(e) = MaxDelay
<1> /\ e.delay \in MinDelay .. MaxDelay
    /\ e.delay \in Nat
    /\ Strategy.n \in Nat
    /\ Strategy.kind \in {"exponential", "cliff"}
  BY ConfigAssumption DEF GoodEntry, Entry
<1>1. CASE Strategy.kind = "exponential"
  <2>1. Strategy.n >= 1
    BY <1>1, ConfigAssumption
  <2>2. e.delay * Strategy.n \in Nat /\ e.delay <= e.delay * Strategy.n
    BY <2>1
  <2>3. e.delay * Strategy.n <= U64Max
    BY <1>1, <2>1, ProductMonotone, ConfigAssumption, ClockAssumption DEF NoOverflow
  <2>4. QED
    BY <1>1, <2>2, <2>3, ConfigAssumption DEF NextDelay, Wrap
<1>2. CASE Strategy.kind = "cliff"
  BY <1>2, ConfigAssumption DEF NextDelay, GoodEntry
<1>3. QED
  BY <1>1, <1>2

\* Nothing wraps in the comparison with the clock.
LEMMA WindowIsExact ==
  ASSUME NoOverflow, NEW e \in Entry
  PROVE  Wrap(e.last + e.delay) = e.last + e.delay
  BY ConfigAssumption, ClockAssumption DEF NoOverflow, Entry, Wrap

\* event(i) on a good entry, or on none, makes a good one with no shorter
\* delay; if the item was ready, its last event is now.
LEMMA RecordedIsGood ==
  ASSUME NoOverflow, Inv, NEW f \in [Item -> Entry], NEW i \in Item,
         f[i] # Vacant => GoodEntry(f[i])
  PROVE  /\ Recorded(f, i) \in [Item -> Entry]
         /\ \A j \in Item \ {i} : Recorded(f, i)[j] = f[j]
         /\ Recorded(f, i)[i] # Vacant
         /\ GoodEntry(Recorded(f, i)[i])
         /\ f[i] # Vacant => /\ Recorded(f, i)[i].delay >= f[i].delay
                             /\ Recorded(f, i)[i].last >= f[i].last
         /\ f[i] = Vacant \/ now > Wrap(f[i].last + f[i].delay)
              => Recorded(f, i)[i].last = now
<1> DEFINE r == Recorded(f, i)
<1>1. now \in Nat /\ now \in StartTime .. MaxTime /\ now \in 0 .. MaxTime
  BY ClockAssumption DEF Inv, TypeOK
<1>2. \A j \in Item \ {i} : r[j] = f[j]
  BY DEF Recorded
<1>3. CASE f[i] = Vacant
  <2> DEFINE new == [count |-> 1, last |-> now, delay |-> InitialDelay]
  <2>1. r[i] = new
    BY <1>3 DEF Recorded
  <2>2. InitialDelay \in MinDelay .. MaxDelay /\ InitialDelay \in 0 .. MaxDelay
    BY ConfigAssumption DEF InitialDelay
  <2>3. new \in Entry
    BY <1>1, <2>2 DEF Entry
  <2>4. GoodEntry(new)
    <3>1. (1 - 1) * (MinDelay + 1) <= now - StartTime
      BY <1>1, ConfigAssumption, ClockAssumption
    <3>2. Strategy.kind = "cliff" /\ InitialDelay # MinDelay =>
            1 > Strategy.n /\ InitialDelay = MaxDelay
      BY ConfigAssumption DEF InitialDelay
    <3>3. QED
      BY <1>1, <2>2, <2>3, <3>1, <3>2, ClockAssumption DEF GoodEntry
  <2>5. new # Vacant
    BY DEF Vacant
  <2>6. r \in [Item -> Entry]
    BY <1>2, <2>1, <2>3 DEF Recorded
  <2>7. QED
    BY <1>2, <1>3, <2>1, <2>3, <2>4, <2>5, <2>6
<1>4. CASE f[i] # Vacant /\ ~ (f[i].last + f[i].delay < now)
  <2>1. r[i] = f[i] /\ GoodEntry(f[i]) /\ f[i] \in Entry
    BY <1>4, WindowIsExact DEF Recorded
  <2>2. r \in [Item -> Entry]
    BY <2>1, <1>2 DEF Recorded
  <2>3. ~ (now > Wrap(f[i].last + f[i].delay))
    BY <1>1, <1>4, <2>1, WindowIsExact DEF Entry
  <2>4. f[i].delay \in Nat /\ f[i].last \in Nat
    BY <2>1 DEF Entry
  <2>5. QED
    BY <1>2, <1>4, <2>1, <2>2, <2>3, <2>4
<1>5. CASE f[i] # Vacant /\ f[i].last + f[i].delay < now
  <2> DEFINE e == f[i]
             new == [count |-> e.count + 1, last |-> now, delay |-> NextDelay(e)]
  <2>1. GoodEntry(e) /\ e \in Entry
    BY <1>5
  <2>2. r[i] = new
    BY <1>5, <2>1, WindowIsExact DEF Recorded
  <2>3. /\ NextDelay(e) \in MinDelay .. MaxDelay
        /\ NextDelay(e) >= e.delay
        /\ Strategy.kind = "cliff" /\ NextDelay(e) # MinDelay =>
             e.count > Strategy.n /\ NextDelay(e) = MaxDelay
    BY <2>1, NextDelayGrows
  <2>4. new \in Entry
    BY <1>1, <2>1, <2>3, ConfigAssumption DEF Entry
  <2>5. GoodEntry(new)
    <3> e.count \in Nat /\ e.last \in Nat /\ e.delay \in Nat /\ MinDelay \in Nat
      BY <2>1, ConfigAssumption DEF Entry
    <3>1. ((e.count + 1) - 1) * (MinDelay + 1)
            = (e.count - 1) * (MinDelay + 1) + (MinDelay + 1)
      OBVIOUS
    <3>2. now - e.last >= MinDelay + 1
      BY <1>1, <1>5, <2>1 DEF GoodEntry
    <3>3. ((e.count + 1) - 1) * (MinDelay + 1) <= now - StartTime
      BY <1>1, <2>1, <3>1, <3>2, ClockAssumption DEF GoodEntry
    <3>4. Strategy.kind = "cliff" /\ NextDelay(e) # MinDelay =>
            e.count + 1 > Strategy.n /\ NextDelay(e) = MaxDelay
      BY <2>3, ConfigAssumption
    <3>5. QED
      BY <1>1, <2>3, <2>4, <3>3, <3>4, ClockAssumption DEF GoodEntry
  <2>6. new # Vacant
    BY <2>1 DEF Vacant, Entry
  <2>7. r \in [Item -> Entry]
    BY <1>2, <2>2, <2>4 DEF Recorded
  <2>8. new.delay >= e.delay /\ new.last >= e.last
    BY <1>1, <2>1, <2>3 DEF GoodEntry, Entry
  <2>9. QED
    BY <1>2, <2>2, <2>4, <2>5, <2>6, <2>7, <2>8
<1>6. QED
  BY <1>3, <1>4, <1>5

-----------------------------------------------------------------------------
\* An event of i, after the items in `gone` were forgotten: either all of them
\* or none.  `ran` says whether an execution of i is recorded with it.
LEMMA EventStep ==
  ASSUME NoOverflow, Inv, NEW i \in Item, NEW gone \in {{}, Item},
         field' = Recorded(Without(field, gone), i),
         gone # {} => field[i] = Vacant,
         \/ ranAt' = Forget(gone)
         \/ ranAt' = [Forget(gone) EXCEPT ![i] = now] /\ Ready(i),
         now' = now, exec' = Idle
  PROVE  /\ Inv'
         /\ \A j \in Item : field[j] # Vacant /\ field'[j] # Vacant =>
              field'[j].delay >= field[j].delay
<1> DEFINE f == Without(field, gone)
<1>0. /\ now \in 0 .. MaxTime
      /\ field \in [Item -> Entry]
      /\ Vacant \in Entry
  BY ConfigAssumption, ClockAssumption DEF Inv, TypeOK, Entry, Vacant
<1>1. f \in [Item -> Entry]
  BY <1>0 DEF Without
<1>2. \A j \in Item : f[j] # Vacant => f[j] = field[j] /\ GoodEntry(f[j])
  BY DEF Inv, Without
<1>3. f[i] = field[i]
  BY DEF Without
<1>4. /\ field' \in [Item -> Entry]
      /\ \A j \in Item \ {i} : field'[j] = f[j]
      /\ field'[i] # Vacant
      /\ GoodEntry(field'[i])
      /\ f[i] # Vacant => /\ field'[i].delay >= f[i].delay
                          /\ field'[i].last >= f[i].last
      /\ Ready(i) => field'[i].last = now
  BY <1>1, <1>2, <1>3, RecordedIsGood DEF Ready
<1>5. \A j \in Item : field'[j] # Vacant => GoodEntry(field'[j])
  BY <1>2, <1>4
<1>6. (\A j \in Item : field[j] # Vacant => GoodEntry(field[j]))'
  BY <1>5 DEF GoodEntry
<1>7. ranAt' \in [Item -> 0 .. MaxTime]
  BY <1>0, ClockAssumption DEF Inv, TypeOK, Forget
<1>8. TypeOK'
  BY <1>4, <1>7 DEF Inv, TypeOK, Entry
<1>9. \A j \in Item : ranAt'[j] # 0 => field'[j] # Vacant /\ ranAt'[j] <= field'[j].last
  <2> SUFFICES ASSUME NEW j \in Item, ranAt'[j] # 0
               PROVE  field'[j] # Vacant /\ ranAt'[j] <= field'[j].last
    OBVIOUS
  <2>1. CASE j # i
    <3>1. ranAt'[j] = ranAt[j] /\ j \notin gone
      BY <2>1 DEF Forget, Inv, TypeOK
    <3>2. field'[j] = field[j]
      BY <1>4, <2>1, <3>1 DEF Without
    <3>3. QED
      BY <3>1, <3>2 DEF Inv
  <2>2. CASE j = i /\ ranAt' = Forget(gone)
    <3>1. ranAt'[i] = ranAt[i] /\ i \notin gone
      BY <2>2 DEF Forget
    <3>2. field[i] # Vacant /\ ranAt[i] <= field[i].last
      BY <2>2, <3>1 DEF Inv
    <3>3. field'[i].last >= field[i].last /\ field'[i].last \in Nat /\ field[i].last \in Nat
      BY <1>0, <1>3, <1>4, <3>2 DEF Entry
    <3>4. ranAt[i] \in Nat
      BY DEF Inv, TypeOK
    <3>5. QED
      BY <1>4, <2>2, <3>1, <3>2, <3>3, <3>4
  <2>3. CASE j = i /\ ranAt' = [Forget(gone) EXCEPT ![i] = now] /\ Ready(i)
    <3>1. ranAt'[i] = now
      BY <2>3 DEF Forget
    <3>2. QED
      BY <1>0, <1>4, <2>3, <3>1
  <2>4. QED
    BY <2>1, <2>2, <2>3
<1>10. \A j \in Item : field[j] # Vacant /\ field'[j] # Vacant =>
         field'[j].delay >= field[j].delay
  <2> SUFFICES ASSUME NEW j \in Item, field[j] # Vacant, field'[j] # Vacant
               PROVE  field'[j].delay >= field[j].delay
    OBVIOUS
  <2>1. CASE j = i
    BY <1>3, <1>4, <2>1
  <2>2. CASE j # i
    <3>1. field'[j] = field[j]
      BY <1>2, <1>4, <2>2
    <3>2. QED
      BY <1>0, <3>1 DEF Entry
  <2>3. QED
    BY <2>1, <2>2
<1>11. QED
  BY <1>6, <1>8, <1>9, <1>10 DEF Inv

\* Every step keeps the invariant, and no step shortens a delay.
LEMMA InvStep ==
  ASSUME NoOverflow, Inv, [Next]_vars
  PROVE  /\ Inv'
         /\ \A j \in Item : field[j] # Vacant /\ field'[j] # Vacant =>
              field'[j].delay >= field[j].delay
<1> DEFINE Grows == \A j \in Item : field[j] # Vacant /\ field'[j] # Vacant =>
                      field'[j].delay >= field[j].delay
<1> SUFFICES Inv' /\ Grows
  OBVIOUS
<1> HIDE DEF Grows
<1>0. field \in [Item -> Entry]
  BY DEF Inv, TypeOK, Entry
<1>1. ASSUME UNCHANGED <<now, field, ranAt>>,
             \/ exec' = Idle
             \/ exec' = exec
             \/ exec' \in [item : Item, singular : BOOLEAN] /\ Ready(exec'.item)
      PROVE  Inv' /\ Grows
  <2>1. Grows
    BY <1>0, <1>1 DEF Entry, Grows
  <2>2. TypeOK'
    BY <1>1 DEF Inv, TypeOK
  <2>3. (\A i \in Item : field[i] # Vacant => GoodEntry(field[i]))'
    BY <1>1 DEF Inv, GoodEntry
  <2>4. (exec # Idle => exec.item \in Item /\ Ready(exec.item))'
    BY <1>1 DEF Inv, Ready
  <2>5. QED
    BY <1>1, <2>1, <2>2, <2>3, <2>4 DEF Inv
<1>2. CASE UNCHANGED vars
  <2>1. now' = now /\ field' = field /\ ranAt' = ranAt /\ exec' = exec
    BY <1>2 DEF vars
  <2>2. QED
    BY <1>1, <2>1
<1>3. CASE Tick
  <2>1. now' = now + 1 /\ now \in Nat /\ UNCHANGED <<field, exec, ranAt>>
    BY <1>3, ClockAssumption DEF Tick, Inv, TypeOK
  <2>2. Grows
    BY <1>0, <2>1 DEF Entry, Grows
  <2>3. TypeOK'
    BY <1>3, <2>1, ClockAssumption DEF Tick, Inv, TypeOK
  <2>4. (\A i \in Item : field[i] # Vacant => GoodEntry(field[i]))'
    BY <2>1, ClockAssumption DEF Inv, GoodEntry
  <2>5. (exec # Idle => exec.item \in Item /\ Ready(exec.item))'
    <3> SUFFICES ASSUME exec # Idle, field[exec.item] # Vacant
                 PROVE  Ready(exec.item)'
      BY <2>1 DEF Inv, Ready
    <3> DEFINE e == field[exec.item]
    <3>1. exec.item \in Item /\ e \in Entry /\ Ready(exec.item)
      BY <1>0 DEF Inv
    <3>2. now > e.last + e.delay /\ e.last + e.delay \in Nat
      BY <3>1, WindowIsExact DEF Ready, Entry
    <3>3. QED
      BY <2>1, <3>1, <3>2, WindowIsExact DEF Ready
  <2>6. QED
    BY <2>1, <2>2, <2>3, <2>4, <2>5 DEF Inv
<1>4. ASSUME NEW i \in Item, Event(i)
      PROVE  Inv' /\ Grows
  <2>1. Without(field, {}) = field
    BY <1>0 DEF Without
  <2>2. Forget({}) = ranAt
    BY DEF Forget, Inv, TypeOK
  <2>3. QED
    BY <1>4, <2>1, <2>2, EventStep DEF Event, Grows
<1>5. ASSUME NEW i \in Item, SingularEvent(i)
      PROVE  Inv' /\ Grows
  <2>1. Erased(i) \in {{}, Item} /\ (Erased(i) # {} => field[i] = Vacant)
    BY DEF Erased
  <2>2. QED
    BY <1>5, <2>1, EventStep DEF SingularEvent, Grows
<1>6. ASSUME NEW S \in SUBSET Item, Clear(S)
      PROVE  Inv' /\ Grows
  <2>1. /\ field' = [i \in Item |-> IF i \in S THEN Vacant ELSE field[i]]
        /\ ranAt' = [i \in Item |-> IF i \in S THEN 0 ELSE ranAt[i]]
        /\ now' = now /\ exec' = Idle
    BY <1>6 DEF Clear, Without, Forget
  <2>2. Grows
    BY <1>0, <2>1 DEF Entry, Grows
  <2>3. field' \in [Item -> Entry]
    BY <1>0, <2>1, ConfigAssumption, ClockAssumption DEF Entry, Vacant
  <2>4. TypeOK'
    BY <2>1, <2>3, ClockAssumption DEF Inv, TypeOK, Entry
  <2>5. (\A i \in Item : field[i] # Vacant => GoodEntry(field[i]))'
    BY <2>1 DEF Inv, GoodEntry
  <2>6. (\A i \in Item : ranAt[i] # 0 => field[i] # Vacant /\ ranAt[i] <= field[i].last)'
    BY <2>1 DEF Inv
  <2>7. QED
    BY <2>1, <2>2, <2>4, <2>5, <2>6 DEF Inv
<1>7. ASSUME NEW i \in Item, NEW b \in BOOLEAN, Start(i, b)
      PROVE  Inv' /\ Grows
  BY <1>1, <1>7 DEF Start
<1>8. CASE FinishWithEvent
  <2> DEFINE i == exec.item
             gone == IF exec.singular THEN Erased(i) ELSE {}
  <2>1. i \in Item /\ Ready(i)
    BY <1>8 DEF FinishWithEvent, Inv
  <2>2. gone \in {{}, Item} /\ (gone # {} => field[i] = Vacant)
    BY DEF Erased
  <2>3. /\ field' = Recorded(Without(field, gone), i)
        /\ ranAt' = [Forget(gone) EXCEPT ![i] = now]
        /\ now' = now /\ exec' = Idle
    BY <1>8 DEF FinishWithEvent
  <2> HIDE DEF gone, i
  <2>4. QED
    BY <2>1, <2>2, <2>3, EventStep DEF Grows
<1>9. CASE FinishWithoutEvent
  <2>1. now' = now /\ field' = field /\ ranAt' = ranAt /\ exec' = Idle
    BY <1>9 DEF FinishWithoutEvent
  <2>2. QED
    BY <1>1, <2>1
<1>10. QED
  BY <1>2, <1>3, <1>4, <1>5, <1>6, <1>7, <1>8, <1>9 DEF Next

LEMMA InvInit == Init => Inv
  BY ConfigAssumption, ClockAssumption DEF Init, Inv, TypeOK, Vacant, Idle

LEMMA InvAlways == ASSUME NoOverflow PROVE Spec => []Inv
<1>1. Inv /\ [Next]_vars => Inv'
  BY InvStep
<1>2. QED
  BY <1>1, InvInit, PTL DEF Spec

\* Every delay lies between the configured bounds, for both strategies.
THEOREM BackoffDelayInBounds == ASSUME NoOverflow PROVE Spec => []DelayInBounds
<1>1. Inv => DelayInBounds
  BY DEF Inv, DelayInBounds, GoodEntry
<1>2. QED
  BY <1>1, InvAlways, PTL

\* Registered events are spaced by more than min_delay each.
THEOREM BackoffCountsAreSpaced == ASSUME NoOverflow PROVE Spec => []CountsAreSpaced
<1>1. Inv => CountsAreSpaced
  BY DEF Inv, CountsAreSpaced, GoodEntry
<1>2. QED
  BY <1>1, InvAlways, PTL

\* Delays only grow, whatever mixture of events, singular events, executions
\* and clears is applied.
THEOREM BackoffDelayNeverShrinks == ASSUME NoOverflow PROVE Spec => DelayNeverShrinks
<1>1. Inv /\ [Next]_vars =>
        [\A i \in Item : field[i] # Vacant /\ field'[i] # Vacant =>
           field'[i].delay >= field[i].delay]_vars
  BY InvStep
<1>2. QED
  BY <1>1, InvAlways, PTL DEF Spec, DelayNeverShrinks

\* Executions of one item are rate limited.
THEOREM BackoffRateLimited == ASSUME NoOverflow PROVE Spec => RateLimited
<1>1. Inv /\ [Next]_vars =>
        [\A i \in Item : exec = Idle /\ exec'.item = i /\ ranAt[i] # 0 =>
           now > ranAt[i] + MinDelay]_vars
  <2> SUFFICES ASSUME Inv, Next, NEW i \in Item,
                      exec = Idle, exec'.item = i, ranAt[i] # 0
               PROVE  now > ranAt[i] + MinDelay
    BY DEF Next
  <2>1. exec' # Idle
    BY ConfigAssumption DEF Idle
  <2>2. \E j \in Item, b \in BOOLEAN : Start(j, b)
    BY <2>1 DEF Next, Tick, Event, SingularEvent, Clear, FinishWithEvent, FinishWithoutEvent
  <2>3. Ready(i)
    BY <2>2 DEF Start
  <2>4. field[i] # Vacant /\ GoodEntry(field[i]) /\ ranAt[i] <= field[i].last
    BY DEF Inv
  <2>5. now > field[i].last + field[i].delay
    BY <2>3, <2>4, WindowIsExact DEF Ready, GoodEntry
  <2>6. /\ ranAt[i] \in Nat /\ field[i].last \in Nat /\ field[i].delay \in Nat
        /\ field[i].delay >= MinDelay /\ MinDelay \in Nat /\ now \in Nat
    BY <2>4, ConfigAssumption, ClockAssumption DEF GoodEntry, Entry, Inv, TypeOK
  <2>7. QED
    BY <2>4, <2>5, <2>6
<1>2. QED
  BY <1>1, InvAlways, PTL DEF Spec, RateLimited

-----------------------------------------------------------------------------
(***************************************************************************)
(* The refinement of RateLimit.                                            *)
(***************************************************************************)
Periods == [i \in Item |-> Period(i)]

\* The abstract periods keep within the configured delays.
LEMMA PeriodsInBounds ==
  /\ Inv => Periods \in [Item -> MinDelay .. MaxDelay]
  /\ Inv' => Periods' \in [Item -> MinDelay .. MaxDelay]
<1>0. MinDelay \in MinDelay .. MaxDelay
  BY ConfigAssumption
<1>1. ASSUME Inv, NEW i \in Item PROVE Period(i) \in MinDelay .. MaxDelay
  <2>1. field[i] # Vacant => field[i].delay \in MinDelay .. MaxDelay
    BY <1>1 DEF Inv, GoodEntry
  <2>2. QED
    BY <1>0, <2>1 DEF Period
<1>2. ASSUME Inv', NEW i \in Item PROVE Period(i)' \in MinDelay .. MaxDelay
  <2>1. field'[i] # Vacant => field'[i].delay \in MinDelay .. MaxDelay
    BY <1>2 DEF Inv, GoodEntry
  <2>2. QED
    BY <1>0, <2>1 DEF Period
<1>3. QED
  BY <1>1, <1>2 DEF Periods

\* Delays that do not shrink, of items that are not forgotten.
LEMMA AdjustedUnless ==
  ASSUME Inv, Inv', NEW S \in SUBSET Item,
         \A j \in Item \ S : field[j] # Vacant => field'[j] # Vacant,
         \A j \in Item : field[j] # Vacant /\ field'[j] # Vacant =>
           field'[j].delay >= field[j].delay
  PROVE  Limiter!Adjust(S)
<1>1. \A j \in Item \ S : Periods'[j] >= Periods[j]
  <2> SUFFICES ASSUME NEW j \in Item \ S PROVE Period(j)' >= Period(j)
    BY DEF Periods
  <2>1. CASE field[j] = Vacant
    <3>1. Period(j) = MinDelay /\ Period(j)' \in MinDelay .. MaxDelay
      BY <2>1, PeriodsInBounds DEF Period, Periods
    <3>2. QED
      BY <3>1, ConfigAssumption
  <2>2. CASE field[j] # Vacant
    BY <2>2 DEF Period
  <2>3. QED
    BY <2>1, <2>2
<1>2. QED
  BY <1>1, PeriodsInBounds DEF Limiter!Adjust, Periods

\* An event of i, after the items in `gone` were forgotten.
LEMMA AdjustedByEvent ==
  ASSUME NoOverflow, Inv, Inv', NEW i \in Item, NEW gone \in {{}, Item},
         field' = Recorded(Without(field, gone), i),
         \A j \in Item : field[j] # Vacant /\ field'[j] # Vacant =>
           field'[j].delay >= field[j].delay
  PROVE  Limiter!Adjust(gone)
<1> DEFINE f == Without(field, gone)
<1>1. f \in [Item -> Entry] /\ (f[i] # Vacant => GoodEntry(f[i]))
  BY ConfigAssumption, ClockAssumption DEF Inv, TypeOK, Entry, Vacant, Without
<1>2. field'[i] # Vacant /\ \A j \in Item \ {i} : field'[j] = f[j]
  BY <1>1, RecordedIsGood
<1>3. \A j \in Item \ gone : f[j] = field[j]
  BY DEF Without
<1>4. \A j \in Item \ gone : field[j] # Vacant => field'[j] # Vacant
  BY <1>2, <1>3
<1>5. QED
  BY <1>4, AdjustedUnless

\* Every step of the tracker is a step of the limiter or invisible to it.
LEMMA LimiterStep ==
  ASSUME NoOverflow, Inv, Inv', [Next]_vars
  PROVE  \/ Limiter!Next
         \/ now' = now /\ exec'.item = exec.item /\ ranAt' = ranAt /\ Periods' = Periods
<1>0. /\ \A j \in Item : field[j] # Vacant /\ field'[j] # Vacant =>
           field'[j].delay >= field[j].delay
      /\ ranAt \in [Item -> 0 .. MaxTime]
      /\ (exec = Idle <=> exec.item = "none")
      /\ Idle.item = "none"
  BY InvStep, ConfigAssumption DEF Inv, TypeOK, Idle
<1>p. ASSUME field' = field PROVE Periods' = Periods
  BY <1>p DEF Periods, Period
<1>1. CASE UNCHANGED vars
  BY <1>1, <1>p DEF vars
<1>2. CASE Tick
  <2>1. Limiter!Tick
    BY <1>2, <1>p DEF Tick, Limiter!Tick, Periods
  <2>2. QED
    BY <2>1 DEF Limiter!Next
<1>3. ASSUME NEW i \in Item, Event(i)
      PROVE  Limiter!Next
  <2>1. Limiter!Adjust({})
    <3>1. Without(field, {}) = field
      BY DEF Without, Inv, TypeOK
    <3>2. QED
      BY <1>0, <1>3, <3>1, AdjustedByEvent DEF Event
  <2>2. Limiter!Register({})
    BY <1>0, <1>3, <2>1 DEF Event, Limiter!Register
  <2>3. QED
    BY <2>2 DEF Limiter!Next
<1>4. ASSUME NEW i \in Item, SingularEvent(i)
      PROVE  Limiter!Next
  <2>1. Erased(i) \in {{}, Item}
    BY DEF Erased
  <2>2. Limiter!Adjust(Erased(i))
    BY <1>0, <1>4, <2>1, AdjustedByEvent DEF SingularEvent
  <2>3. Limiter!Register(Erased(i))
    BY <1>0, <1>4, <2>2 DEF SingularEvent, Forget, Limiter!Register
  <2>4. QED
    BY <2>1, <2>3 DEF Limiter!Next
<1>5. ASSUME NEW S \in SUBSET Item, Clear(S)
      PROVE  Limiter!Next
  <2>1. \A j \in Item \ S : field[j] # Vacant => field'[j] # Vacant
    BY <1>5 DEF Clear, Without
  <2>2. Limiter!Adjust(S)
    BY <1>0, <2>1, AdjustedUnless
  <2>3. Limiter!Register(S)
    BY <1>0, <1>5, <2>2 DEF Clear, Forget, Limiter!Register
  <2>4. QED
    BY <2>3 DEF Limiter!Next
<1>6. ASSUME NEW i \in Item, NEW b \in BOOLEAN, Start(i, b)
      PROVE  Limiter!Next
  <2>1. /\ exec.item = "none" /\ exec'.item = i /\ now' = now /\ ranAt' = ranAt
        /\ Periods' = Periods
    BY <1>0, <1>6, <1>p DEF Start
  <2>2. ranAt[i] = 0 \/ now > ranAt[i] + Periods[i]
    <3> SUFFICES ASSUME ranAt[i] # 0 PROVE now > ranAt[i] + Period(i)
      BY DEF Periods
    <3>1. field[i] # Vacant /\ GoodEntry(field[i]) /\ ranAt[i] <= field[i].last
      BY DEF Inv
    <3>2. now > field[i].last + field[i].delay
      BY <1>6, <3>1, WindowIsExact DEF Start, Ready, GoodEntry
    <3>3. /\ ranAt[i] \in Nat /\ field[i].last \in Nat /\ field[i].delay \in Nat
          /\ now \in Nat
      BY <3>1, ClockAssumption DEF GoodEntry, Entry, Inv, TypeOK
    <3>4. QED
      BY <3>1, <3>2, <3>3 DEF Period
  <2>3. Limiter!Run(i)
    BY <2>1, <2>2 DEF Limiter!Run, Periods
  <2>4. QED
    BY <2>3 DEF Limiter!Next
<1>7. CASE FinishWithEvent
  <2> DEFINE i == exec.item
             gone == IF exec.singular THEN Erased(i) ELSE {}
  <2>1. i \in Item /\ exec.item # "none"
    BY <1>0, <1>7 DEF FinishWithEvent, Inv
  <2>2. gone \in {{}, Item}
    BY DEF Erased
  <2>3. /\ field' = Recorded(Without(field, gone), i)
        /\ ranAt' = [Forget(gone) EXCEPT ![i] = now]
        /\ now' = now /\ exec' = Idle
    BY <1>7 DEF FinishWithEvent
  <2> HIDE DEF gone
  <2>4. Limiter!Adjust(gone)
    BY <1>0, <2>1, <2>2, <2>3, AdjustedByEvent
  <2>5. ranAt' = [j \in Item |-> IF j = exec.item THEN now
                                 ELSE IF j \in gone THEN 0 ELSE ranAt[j]]
    BY <2>1, <2>3 DEF Forget
  <2>6. exec'.item = "none"
    BY <1>0, <2>3
  <2>7. Limiter!Return(gone)
    BY <2>1, <2>3, <2>4, <2>5, <2>6 DEF Limiter!Return
  <2>8. QED
    BY <2>2, <2>7 DEF Limiter!Next
<1>8. CASE FinishWithoutEvent
  <2>1. /\ exec.item # "none" /\ exec'.item = "none" /\ now' = now /\ ranAt' = ranAt
        /\ Periods' = Periods
    BY <1>0, <1>8, <1>p DEF FinishWithoutEvent
  <2>2. Limiter!ReturnQuietly
    BY <2>1 DEF Limiter!ReturnQuietly, Periods
  <2>3. QED
    BY <2>2 DEF Limiter!Next
<1>9. QED
  BY <1>1, <1>2, <1>3, <1>4, <1>5, <1>6, <1>7, <1>8 DEF Next

\* The tracker implements the abstract rate limiter.
THEOREM ImplementsRateLimit == ASSUME NoOverflow PROVE Spec => LimitsRuns
<1>1. Init => Limiter!Init
  BY DEF Init, Limiter!Init, Period, Idle
<1>2. Inv /\ Inv' /\ [Next]_vars => [Limiter!Next]_(Limiter!rvars)
  BY LimiterStep DEF Limiter!rvars, Periods
<1>3. QED
  BY <1>1, <1>2, InvAlways, PTL DEF Spec, LimitsRuns, Limiter!Spec

-----------------------------------------------------------------------------
(***************************************************************************)
(* What holds although sums and products may wrap.                         *)
(***************************************************************************)
LEMMA EntryType == field \in [Item -> Entry] <=>
                     field \in [Item -> [count : Nat, last : 0 .. MaxTime, delay : 0 .. MaxDelay]]
  BY DEF Entry

LEMMA WrapType ==
  ASSUME NEW n \in Nat
  PROVE  Wrap(n) \in Nat
<1> DEFINE w == U64Max + 1
<1>1. w \in Nat \ {0}
  BY ClockAssumption
<1> HIDE DEF w
<1>2. n % w \in 0 .. w - 1
  BY <1>1
<1>3. n % w \in Nat
  BY <1>1, <1>2
<1>4. QED
  BY <1>3 DEF Wrap, w

\* Whatever wraps, max_delay caps the next delay.
LEMMA NextDelayType ==
  ASSUME NEW e \in Entry
  PROVE  NextDelay(e) \in 0 .. MaxDelay
<1>1. e.delay * Strategy.n \in Nat
  BY ConfigAssumption DEF Entry
<1>2. Wrap(e.delay * Strategy.n) \in Nat
  BY <1>1, WrapType
<1>3. QED
  BY <1>2, ConfigAssumption DEF NextDelay

LEMMA RecordedType ==
  ASSUME TypeOK, NEW f \in [Item -> Entry], NEW i \in Item
  PROVE  /\ Recorded(f, i) \in [Item -> Entry]
         /\ \A j \in Item \ {i} : Recorded(f, i)[j] = f[j]
         /\ \/ Recorded(f, i)[i] = f[i] /\ f[i] # Vacant
            \/ /\ Recorded(f, i)[i].last = now
               /\ Recorded(f, i)[i].delay \in {InitialDelay, NextDelay(f[i])}
<1> DEFINE r == Recorded(f, i)
           e == f[i]
           first == [count |-> 1, last |-> now, delay |-> InitialDelay]
           later == [count |-> e.count + 1, last |-> now, delay |-> NextDelay(e)]
<1>1. r[i] \in {first, later} \/ (r[i] = e /\ e # Vacant)
  BY DEF Recorded
<1>2. now \in 0 .. MaxTime
  BY ClockAssumption DEF TypeOK
<1>3. first \in Entry
  BY <1>2, ConfigAssumption DEF InitialDelay, Entry
<1>4. later \in Entry
  BY <1>2, NextDelayType DEF Entry
<1>5. \A j \in Item \ {i} : r[j] = f[j]
  BY DEF Recorded
<1>6. r \in [Item -> Entry]
  BY <1>1, <1>3, <1>4, <1>5 DEF Recorded
<1>7. QED
  BY <1>1, <1>5, <1>6

\* An action forgets some items and then may record an event of one.
LEMMA FieldChanges ==
  ASSUME TypeOK, [Next]_vars
  PROVE  /\ now' = now \/ (now < MaxTime /\ now' = now + 1)
         /\ \/ field' = field
            \/ \E S \in SUBSET Item : field' = Without(field, S)
            \/ /\ now' = now
               /\ \E i \in Item, S \in SUBSET Item : field' = Recorded(Without(field, S), i)
<1>1. CASE Tick \/ FinishWithoutEvent \/ UNCHANGED vars
  BY <1>1 DEF Tick, FinishWithoutEvent, vars
<1>2. ASSUME NEW i \in Item, Event(i)
      PROVE  field' = Recorded(Without(field, {}), i) /\ now' = now
  <2>1. Without(field, {}) = field
    BY DEF Without, TypeOK
  <2>2. QED
    BY <1>2, <2>1 DEF Event
<1>3. ASSUME NEW i \in Item, SingularEvent(i)
      PROVE  /\ field' = Recorded(Without(field, Erased(i)), i) /\ now' = now
             /\ Erased(i) \in SUBSET Item
  BY <1>3 DEF SingularEvent, Erased
<1>4. CASE \E S \in SUBSET Item : Clear(S)
  BY <1>4 DEF Clear
<1>5. CASE \E i \in Item, b \in BOOLEAN : Start(i, b)
  BY <1>5 DEF Start
<1>6. CASE FinishWithEvent
  <2> DEFINE gone == IF exec.singular THEN Erased(exec.item) ELSE {}
  <2>1. /\ exec.item \in Item /\ gone \in SUBSET Item /\ now' = now
        /\ field' = Recorded(Without(field, gone), exec.item)
    BY <1>6 DEF FinishWithEvent, TypeOK, Erased
  <2>2. QED
    BY <2>1
<1>7. QED
  BY <1>1, <1>2, <1>3, <1>4, <1>5, <1>6 DEF Next

LEMMA TypeOKStep == TypeOK /\ [Next]_vars => TypeOK'
<1> SUFFICES ASSUME TypeOK, [Next]_vars PROVE TypeOK'
  OBVIOUS
<1>1. now \in 0 .. MaxTime /\ field \in [Item -> Entry] /\ Vacant \in Entry
  BY ConfigAssumption, ClockAssumption, EntryType DEF TypeOK, Entry, Vacant
<1>2. now' \in StartTime .. MaxTime
  BY FieldChanges, ClockAssumption DEF TypeOK
<1>3. \A S \in SUBSET Item : Without(field, S) \in [Item -> Entry]
  BY <1>1 DEF Without
<1>4. field' \in [Item -> Entry]
  BY <1>1, <1>3, FieldChanges, RecordedType
<1>5. exec' = Idle \/ exec' \in [item : Item, singular : BOOLEAN]
  BY DEF Next, Tick, Event, SingularEvent, Clear, Start, FinishWithEvent,
     FinishWithoutEvent, vars, TypeOK
<1>6. ranAt' \in [Item -> 0 .. MaxTime]
  <2>1. \A S \in SUBSET Item : Forget(S) \in [Item -> 0 .. MaxTime]
    BY <1>1, ClockAssumption DEF TypeOK, Forget
  <2>2. ASSUME NEW i \in Item, SingularEvent(i)
        PROVE  ranAt' = Forget(Erased(i)) /\ Erased(i) \in SUBSET Item
    BY <2>2 DEF SingularEvent, Erased
  <2>3. CASE FinishWithEvent
    <3> DEFINE gone == IF exec.singular THEN Erased(exec.item) ELSE {}
    <3>1. ranAt' = [Forget(gone) EXCEPT ![exec.item] = now] /\ gone \in SUBSET Item
      BY <2>3 DEF FinishWithEvent, Erased
    <3>2. QED
      BY <1>1, <2>1, <3>1
  <2>4. QED
    BY <2>1, <2>2, <2>3 DEF Next, Tick, Event, Clear, Start, FinishWithoutEvent, vars, TypeOK
<1>7. QED
  BY <1>2, <1>4, <1>5, <1>6 DEF TypeOK, Entry

\* The types of the tracker, for every configuration: no delay exceeds
\* max_delay, no entry is later than the clock's bound.
THEOREM BackoffTypeCorrect == Spec => []TypeOK
<1>1. Init => TypeOK
  BY ConfigAssumption, ClockAssumption DEF Init, TypeOK, Vacant, Idle
<1>2. QED
  BY <1>1, TypeOKStep, PTL DEF Spec

\* What BackoffConfig::once() promises is kept by a delay that outlasts the
\* application and with which no sum overflows.
THEOREM LongDelayIsOnce ==
  ASSUME NoOverflow, MaxTime <= StartTime + MinDelay
  PROVE  Spec => []NeverReadyAgain
<1>1. ASSUME Inv, NEW i \in Item, field[i] # Vacant
      PROVE  ~ Ready(i)
  <2> DEFINE e == field[i]
  <2>1. GoodEntry(e) /\ e \in Entry /\ Wrap(e.last + e.delay) = e.last + e.delay
    BY <1>1, WindowIsExact DEF Inv, GoodEntry
  <2>2. e.last >= StartTime /\ e.delay >= MinDelay /\ e.last \in Nat /\ e.delay \in Nat
    BY <2>1 DEF GoodEntry, Entry
  <2>3. now \in Nat /\ now <= MaxTime
    BY <1>1, ClockAssumption DEF Inv, TypeOK
  <2>4. ~ (now > e.last + e.delay)
    BY <2>2, <2>3, ConfigAssumption, ClockAssumption
  <2>5. QED
    BY <1>1, <2>1, <2>4 DEF Ready
<1>2. Inv => NeverReadyAgain
  BY <1>1 DEF NeverReadyAgain
<1>3. QED
  BY <1>2, InvAlways, PTL

\* BackoffConfig::once()
Once ==
  /\ MinDelay = U64Max /\ MaxDelay = U64Max
  /\ Strategy = [kind |-> "cliff", n |-> 0]

OnceInv ==
  /\ TypeOK
  /\ \A i \in Item : field[i] # Vacant =>
       field[i].last \in StartTime .. now /\ field[i].delay = U64Max

\* The end of the window wraps to the second before the event that opened it.
LEMMA OnceWraps ==
  ASSUME NEW t \in Nat \ {0}, t <= U64Max
  PROVE  Wrap(t + U64Max) = t - 1
<1> DEFINE w == U64Max + 1
           n == t + U64Max
<1>1. w \in Nat \ {0} /\ n \in Nat /\ n > U64Max /\ n = w + (t - 1) /\ t - 1 \in 0 .. w - 1
  BY ClockAssumption
<1> HIDE DEF w, n
<1>2. n % w = t - 1
  BY <1>1
<1>3. Wrap(n) = n % w
  BY <1>1, ClockAssumption DEF Wrap, w
<1>4. QED
  BY <1>2, <1>3 DEF n

\* In a build whose arithmetic wraps, the doc of BackoffConfig::once() is wrong
\* in every state and not only in the corner that the run shows: every item is
\* ready all the time, so that nothing is ever backed off.
THEOREM OnceNeverBacksOff ==
  ASSUME Once
  PROVE  Spec => [](\A i \in Item : Ready(i))
<1>1. Init => OnceInv
  BY ConfigAssumption, ClockAssumption DEF Init, OnceInv, TypeOK, Vacant, Idle
<1>2. ASSUME OnceInv, [Next]_vars
      PROVE  OnceInv'
  <2>1. TypeOK'
    BY <1>2, TypeOKStep DEF OnceInv
  <2> DEFINE Fresh(e, t) == e # Vacant => e.last \in StartTime .. t /\ e.delay = U64Max
  <2>2. now \in StartTime .. MaxTime /\ now' \in StartTime .. MaxTime /\ now <= now'
    BY <1>2, FieldChanges, ClockAssumption DEF OnceInv, TypeOK
  <2>3. \A i \in Item : Fresh(field[i], now)
    BY <1>2 DEF OnceInv
  <2>4. \A e : Fresh(e, now) => Fresh(e, now')
    BY <2>2, ClockAssumption
  <2>5. ASSUME NEW S \in SUBSET Item, NEW i \in Item
        PROVE  /\ Without(field, S) \in [Item -> Entry]
               /\ Fresh(Without(field, S)[i], now)
    <3>1. Vacant \in Entry /\ field \in [Item -> Entry]
      BY <1>2, ConfigAssumption, ClockAssumption, EntryType DEF OnceInv, TypeOK, Entry, Vacant
    <3>2. QED
      BY <2>3, <3>1 DEF Without
  <2>6. ASSUME NEW S \in SUBSET Item, NEW i \in Item, NEW j \in Item
        PROVE  Fresh(Recorded(Without(field, S), i)[j], now)
    <3> DEFINE f == Without(field, S)
    <3>1. f \in [Item -> Entry] /\ Fresh(f[i], now) /\ Fresh(f[j], now)
      BY <2>5
    <3>2. InitialDelay = U64Max /\ NextDelay(f[i]) = U64Max
      BY DEF Once, InitialDelay, NextDelay
    <3>3. /\ j # i => Recorded(f, i)[j] = f[j]
          /\ \/ Recorded(f, i)[i] = f[i]
             \/ Recorded(f, i)[i].last = now /\ Recorded(f, i)[i].delay = U64Max
      BY <1>2, <3>1, <3>2, RecordedType DEF OnceInv
    <3>4. now \in StartTime .. now
      BY <2>2, ClockAssumption
    <3> HIDE DEF f
    <3>5. QED
      BY <3>1, <3>3, <3>4 DEF f
  <2>7. \A i \in Item : Fresh(field'[i], now')
    <3>1. TypeOK
      BY <1>2 DEF OnceInv
    <3> HIDE DEF Fresh
    <3>2. QED
      BY <1>2, <2>3, <2>4, <2>5, <2>6, <3>1, FieldChanges
  <2>8. QED
    BY <2>1, <2>7 DEF OnceInv
<1>3. ASSUME OnceInv, NEW i \in Item
      PROVE  Ready(i)
  <2> SUFFICES ASSUME field[i] # Vacant
               PROVE  now > Wrap(field[i].last + field[i].delay)
    BY DEF Ready
  <2> DEFINE t == field[i].last
  <2>1. t \in StartTime .. now /\ field[i].delay = U64Max /\ now \in StartTime .. MaxTime
    BY <1>3 DEF OnceInv, TypeOK
  <2>2. t \in Nat \ {0} /\ t <= U64Max /\ now \in Nat /\ t <= now
    BY <2>1, ClockAssumption
  <2>3. Wrap(t + U64Max) = t - 1
    BY <2>2, OnceWraps
  <2>4. QED
    BY <2>1, <2>2, <2>3
<1>4. OnceInv => \A i \in Item : Ready(i)
  BY <1>3
<1>5. OnceInv /\ [Next]_vars => OnceInv'
  BY <1>2
<1>6. QED
  BY <1>1, <1>4, <1>5, PTL DEF Spec

=============================================================================
