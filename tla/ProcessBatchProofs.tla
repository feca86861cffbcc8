------------------------- MODULE ProcessBatchProofs -------------------------
(***************************************************************************)
(* What process_batch tells its tracker, for every configuration of the    *)
(* receiver and of the tracker, overflowing ones included.                 *)
(***************************************************************************)
EXTENDS ProcessBatch, QueueReceiverProofs

Entry == [count : Nat, last : 0 .. MaxTime, delay : 0 .. MaxDelay]

\* The job's part of the state, the receiver's in Inv.
JobTypes ==
  /\ jpc \in {"idle", "receive", "prepare", "batch"}
  /\ items \subseteq Item /\ errs \subseteq items
  /\ tracker \in [Item -> Entry]
  /\ failedAt \in [Item -> 0 .. MaxTime]
  /\ triedAt \in [Item -> 0 .. MaxTime]

Tracked(i) ==
  IF failedAt[i] = 0 THEN tracker[i] = B!Vacant
  ELSE tracker[i] # B!Vacant /\ tracker[i].last = failedAt[i]

\* An item is ready from Retain until its attempt ends: nobody else reports to
\* the tracker, and time only makes it readier.  So the event of its failure
\* is outside of every delay window, and counts.
ItemsReady == HasBackoff => \A i \in items : B!Ready(i)

BatchInv == Inv /\ JobTypes /\ TrackedSinceFailure /\ ItemsReady

-----------------------------------------------------------------------------
LEMMA ConstantFacts ==
  /\ StartTime \in Nat /\ StartTime > 0 /\ MaxTime \in Nat
  /\ MinDelay \in Nat /\ MaxDelay \in Nat /\ U64Max \in Nat
  /\ MinDelay \in 0 .. MaxDelay /\ MaxDelay \in 0 .. MaxDelay
  /\ 0 \in 0 .. MaxTime /\ 0 \in 0 .. MaxDelay
  /\ Strategy.n \in Nat
  BY TimeAssumption, BatchAssumption

LEMMA NowFacts ==
  ASSUME Inv
  PROVE  now \in Nat /\ now \in 0 .. MaxTime /\ now # 0
  BY ConstantFacts DEF Inv, TypeOK

LEMMA WrapIsNat ==
  ASSUME NEW n \in Nat
  PROVE  B!Wrap(n) \in Nat
<1>1. n % (U64Max + 1) \in Nat
  BY ConstantFacts
<1>2. QED
  BY <1>1 DEF B!Wrap

LEMMA NextDelayInRange ==
  ASSUME NEW e \in Entry
  PROVE  B!NextDelay(e) \in 0 .. MaxDelay
<1> DEFINE d == B!Wrap(e.delay * Strategy.n)
<1>1. e.delay \in Nat
  BY ConstantFacts DEF Entry
<1>2. e.delay * Strategy.n \in Nat
  BY <1>1, ConstantFacts
<1>3. d \in Nat
  BY <1>2, WrapIsNat
<1> HIDE DEF d
<1>4. (IF d < MaxDelay THEN d ELSE MaxDelay) \in 0 .. MaxDelay
  BY <1>3, ConstantFacts
<1>5. B!NextDelay(e) \in {IF d < MaxDelay THEN d ELSE MaxDelay, MaxDelay, MinDelay}
  BY DEF B!NextDelay, d
<1>6. QED
  BY <1>4, <1>5, ConstantFacts

\* An event of a ready item is entered with the time of the clock.
LEMMA RecordedEntry ==
  ASSUME Inv, NEW f \in [Item -> Entry], NEW i \in Item,
         f[i] = B!Vacant \/ now > B!Wrap(f[i].last + f[i].delay)
  PROVE  /\ B!Recorded(f, i)[i] \in Entry
         /\ B!Recorded(f, i)[i] # B!Vacant
         /\ B!Recorded(f, i)[i].last = now
<1>1. now \in 0 .. MaxTime /\ now # 0
  BY NowFacts
<1>2. CASE f[i] = B!Vacant
  <2>1. B!Recorded(f, i)[i] = [count |-> 1, last |-> now, delay |-> B!InitialDelay]
    BY <1>2 DEF B!Recorded
  <2>2. B!InitialDelay \in 0 .. MaxDelay
    BY ConstantFacts DEF B!InitialDelay
  <2>3. QED
    BY <1>1, <2>1, <2>2 DEF Entry, B!Vacant
<1>3. CASE f[i] # B!Vacant
  <2>1. f[i] \in Entry
    OBVIOUS
  <2>2. f[i].last + f[i].delay \in Nat
    BY <2>1, ConstantFacts DEF Entry
  <2>3. B!Wrap(f[i].last + f[i].delay) < now
    BY <1>1, <1>3, <2>2, WrapIsNat
  <2>4. B!Recorded(f, i)[i] =
          [count |-> f[i].count + 1, last |-> now, delay |-> B!NextDelay(f[i])]
    BY <1>3, <2>3 DEF B!Recorded
  <2>5. B!NextDelay(f[i]) \in 0 .. MaxDelay /\ f[i].count + 1 \in Nat
    BY <2>1, NextDelayInRange DEF Entry
  <2>6. QED
    BY <1>1, <2>4, <2>5 DEF Entry, B!Vacant
<1>4. QED
  BY <1>2, <1>3

-----------------------------------------------------------------------------
LEMMA BatchInitInv == BatchInit => BatchInv
<1> SUFFICES ASSUME BatchInit PROVE BatchInv
  OBVIOUS
<1>1. Inv
  BY InitEstablishesInv DEF BatchInit
<1>2. B!Vacant \in Entry
  BY ConstantFacts DEF B!Vacant, Entry
<1>3. JobTypes
  BY <1>2, ConstantFacts DEF BatchInit, JobTypes
<1>4. TrackedSinceFailure
  BY DEF BatchInit, TrackedSinceFailure
<1>5. ItemsReady
  BY DEF BatchInit, ItemsReady
<1>6. QED
  BY <1>1, <1>3, <1>4, <1>5 DEF BatchInv

\* The receiver's part of a step of the job is one of its steps.
LEMMA ReceiverPart ==
  ASSUME [BatchNext]_batchVars
  PROVE  [Next]_vars
<1>1. Begin => Next
  BY DEF Begin, Next, Calls
<1>2. Receive => Next
  BY DEF Receive, Next
<1>3. Retain \/ Prepared \/ BatchFailed \/ BatchSucceeded => UNCHANGED vars
  BY DEF Retain, Prepared, BatchFailed, BatchSucceeded, Settle
<1>4. TimedOut => Next \/ UNCHANGED vars
  BY DEF TimedOut, Next, Calls
<1>5. QED
  BY <1>1, <1>2, <1>3, <1>4 DEF BatchNext, Next, batchVars

\* The clock never goes back.
LEMMA ClockStep ==
  ASSUME Inv, [Next]_vars
  PROVE  now' \in Nat /\ now' >= now
<1>1. now \in Nat
  BY NowFacts
<1>2. ASSUME NEW i \in Item, Push(i) \/ Steal(i)
      PROVE  now' = now
  BY <1>2 DEF Push, Steal
<1>3. ASSUME NEW c \in Configs, Recv(c) \/ TryRecv(c)
      PROVE  now' = now
  BY <1>3 DEF Recv, TryRecv
<1>4. ReceiverStep \/ Cancel => now' = now
  BY DEF ReceiverStep, CheckLength, Poll, Slept, CheckDeadline, Cancel
<1>5. Tick => now' = now + 1
  BY DEF Tick
<1>6. UNCHANGED vars => now' = now
  BY DEF vars
<1>7. now' = now \/ now' = now + 1
  BY <1>2, <1>3, <1>4, <1>5, <1>6 DEF Next, Environment, Calls
<1>8. QED
  BY <1>1, <1>7

\* What is ready stays so while its entry stays.
LEMMA ReadyStays ==
  ASSUME Inv, JobTypes, [Next]_vars, NEW i \in Item, B!Ready(i),
         tracker'[i] = tracker[i]
  PROVE  B!Ready(i)'
<1>1. tracker[i] \in Entry
  BY DEF JobTypes
<1>2. tracker[i].last + tracker[i].delay \in Nat
  BY <1>1, ConstantFacts DEF Entry
<1> DEFINE due == B!Wrap(tracker[i].last + tracker[i].delay)
<1>3. due \in Nat
  BY <1>2, WrapIsNat
<1>4. tracker[i] = B!Vacant \/ now > due
  BY DEF B!Ready
<1> HIDE DEF due
<1>5. now \in Nat /\ now' \in Nat /\ now' >= now
  BY NowFacts, ClockStep
<1>6. tracker[i] = B!Vacant \/ now' > due
  BY <1>3, <1>4, <1>5
<1>7. QED
  BY <1>6 DEF B!Ready, B!Vacant, B!Wrap, due

\* Steps that report nothing keep what they attempt, or drop all of it.
LEMMA QuietStep ==
  ASSUME BatchInv, [Next]_vars, UNCHANGED <<tracker, failedAt>>,
         items' = items \/ items' = {},
         errs' \subseteq items', triedAt' = triedAt,
         jpc' \in {"idle", "receive", "prepare", "batch"}
  PROVE  BatchInv'
<1>1. Inv'
  BY StepPreservesInv DEF BatchInv
<1>2. JobTypes'
  BY DEF BatchInv, JobTypes
<1>3. TrackedSinceFailure'
  BY DEF BatchInv, TrackedSinceFailure, B!Vacant
<1>4. ItemsReady'
  <2> SUFFICES ASSUME HasBackoff, NEW i \in items' PROVE B!Ready(i)'
    BY DEF ItemsReady
  <2>1. i \in items /\ i \in Item /\ B!Ready(i)
    BY DEF BatchInv, ItemsReady, JobTypes
  <2>2. QED
    BY <2>1, ReadyStays DEF BatchInv
<1>5. QED
  BY <1>1, <1>2, <1>3, <1>4 DEF BatchInv

LEMMA RetainStep ==
  ASSUME BatchInv, Retain
  PROVE  BatchInv'
<1>1. UNCHANGED vars /\ now' = now
  BY DEF Retain, vars
<1>2. Inv'
  BY <1>1, StepPreservesInv DEF BatchInv
<1>3. items' \subseteq chunk /\ chunk \subseteq Item
  BY DEF Retain, Retained, BatchInv, Inv, TypeOK
<1>4. now \in 0 .. MaxTime
  BY NowFacts DEF BatchInv
<1>5. JobTypes'
  BY <1>3, <1>4 DEF BatchInv, JobTypes, Retain
<1>6. TrackedSinceFailure'
  BY DEF BatchInv, TrackedSinceFailure, B!Vacant, Retain
<1>7. ItemsReady'
  <2> SUFFICES ASSUME HasBackoff, NEW i \in items' PROVE B!Ready(i)'
    BY DEF ItemsReady
  <2>1. B!Ready(i) /\ tracker' = tracker
    BY DEF Retain, Retained
  <2>2. QED
    BY <1>1, <2>1 DEF B!Ready, B!Vacant, B!Wrap
<1>8. QED
  BY <1>2, <1>5, <1>6, <1>7 DEF BatchInv

\* Every item that was attempted is reported: as failed, or as forgotten.
LEMMA SettleStep ==
  ASSUME BatchInv, NEW failed \in SUBSET items, Settle(failed)
  PROVE  BatchInv'
<1> DEFINE f == Cleared(tracker, items \ failed)
<1>1. UNCHANGED vars /\ now' = now
  BY DEF Settle, vars
<1>2. Inv /\ Inv'
  BY <1>1, StepPreservesInv DEF BatchInv
<1>3. /\ tracker \in [Item -> Entry] /\ items \subseteq Item
      /\ failedAt \in [Item -> 0 .. MaxTime]
  BY DEF BatchInv, JobTypes
<1>4. now \in 0 .. MaxTime /\ now # 0
  BY <1>2, NowFacts
<1>5. B!Vacant \in Entry
  BY ConstantFacts DEF B!Vacant, Entry
<1>6. failedAt' = [i \in Item |-> IF i \in failed THEN now
                                  ELSE IF i \in items THEN 0 ELSE failedAt[i]]
  BY DEF Settle
<1>7. f \in [Item -> Entry]
  BY <1>3, <1>5 DEF Cleared, B!Without
<1>8. ASSUME HasBackoff, NEW i \in failed
      PROVE  /\ B!Recorded(f, i)[i] \in Entry
             /\ B!Recorded(f, i)[i] # B!Vacant
             /\ B!Recorded(f, i)[i].last = now
  <2>1. i \in Item /\ f[i] = tracker[i]
    BY <1>3, <1>8 DEF Cleared, B!Without
  <2>2. tracker[i] = B!Vacant \/ now > B!Wrap(tracker[i].last + tracker[i].delay)
    BY <1>8 DEF BatchInv, ItemsReady, B!Ready
  <2>3. QED
    BY <1>2, <1>7, <2>1, <2>2, RecordedEntry
<1>9. ASSUME HasBackoff
      PROVE  tracker' = [i \in Item |-> IF i \in failed THEN B!Recorded(f, i)[i] ELSE f[i]]
  BY <1>9 DEF Settle, Events
<1>10. ~ HasBackoff => tracker' = tracker
  BY DEF Settle, Events, Cleared
<1>11. tracker' \in [Item -> Entry]
  <2>1. CASE HasBackoff
    BY <1>7, <1>8, <1>9, <2>1
  <2>2. CASE ~ HasBackoff
    BY <1>3, <1>10, <2>2
  <2>3. QED
    BY <2>1, <2>2
<1>12. failedAt' \in [Item -> 0 .. MaxTime]
  BY <1>3, <1>4, <1>6, ConstantFacts
<1>13. JobTypes'
  BY <1>11, <1>12 DEF JobTypes, Settle, BatchInv
<1>14. TrackedSinceFailure'
  <2> SUFFICES ASSUME HasBackoff, NEW i \in Item PROVE Tracked(i)'
    BY DEF TrackedSinceFailure, Tracked, B!Vacant
  <2>1. CASE i \in failed
    <3>1. failedAt'[i] = now /\ tracker'[i] = B!Recorded(f, i)[i]
      BY <1>6, <1>9, <2>1
    <3>2. tracker'[i] # B!Vacant /\ tracker'[i].last = failedAt'[i]
      BY <1>8, <2>1, <3>1
    <3>3. QED
      BY <1>4, <3>1, <3>2 DEF Tracked, B!Vacant
  <2>2. CASE i \in items /\ i \notin failed
    <3>1. f[i] = B!Vacant
      BY <2>2 DEF Cleared, B!Without
    <3>2. tracker'[i] = f[i] /\ failedAt'[i] = 0
      BY <1>6, <1>9, <2>2
    <3>3. QED
      BY <3>1, <3>2 DEF Tracked, B!Vacant
  <2>3. CASE i \notin items
    <3>1. f[i] = tracker[i] /\ i \notin failed
      BY <2>3 DEF Cleared, B!Without
    <3>2. tracker'[i] = tracker[i] /\ failedAt'[i] = failedAt[i]
      BY <1>6, <1>9, <2>3, <3>1
    <3>3. Tracked(i)
      BY DEF BatchInv, TrackedSinceFailure, Tracked
    <3>4. QED
      BY <3>2, <3>3 DEF Tracked, B!Vacant
  <2>4. QED
    BY <2>1, <2>2, <2>3
<1>15. ItemsReady'
  BY DEF Settle, ItemsReady
<1>16. QED
  BY <1>2, <1>13, <1>14, <1>15 DEF BatchInv

LEMMA BatchStepInv ==
  ASSUME BatchInv, [BatchNext]_batchVars
  PROVE  BatchInv'
<1>1. [Next]_vars
  BY ReceiverPart
<1>2. CASE (Environment /\ UNCHANGED jobVars) \/ Receive \/ UNCHANGED batchVars
  <2>1. UNCHANGED jobVars
    BY <1>2 DEF Receive, batchVars
  <2>2. QED
    BY <1>1, <2>1, QuietStep DEF jobVars, BatchInv, JobTypes
<1>3. CASE Begin
  BY <1>1, <1>3, QuietStep DEF Begin, BatchInv, JobTypes
<1>4. CASE Retain
  BY <1>4, RetainStep
<1>5. CASE Prepared
  BY <1>1, <1>5, QuietStep DEF Prepared
<1>6. CASE BatchFailed \/ BatchSucceeded
  <2>1. errs \in SUBSET items /\ items \in SUBSET items
    BY DEF BatchInv, JobTypes
  <2>2. QED
    BY <1>6, <2>1, SettleStep DEF BatchFailed, BatchSucceeded
<1>7. CASE TimedOut
  BY <1>1, <1>7, QuietStep DEF TimedOut
<1>8. QED
  BY <1>2, <1>3, <1>4, <1>5, <1>6, <1>7 DEF BatchNext

LEMMA BatchInvHolds == BatchSpec => []BatchInv
<1>1. BatchInv /\ [BatchNext]_batchVars => BatchInv'
  BY BatchStepInv
<1>2. QED
  BY BatchInitInv, <1>1, PTL DEF BatchSpec

\* Type correctness of the whole batch processor.
THEOREM BatchTypeCorrect == BatchSpec => []BatchTypeOK
<1>1. BatchInv => BatchTypeOK
  BY DEF BatchInv, Inv, JobTypes, Entry, BatchTypeOK
<1>2. QED
  BY BatchInvHolds, <1>1, PTL

\* process_batch's tracker holds exactly the items whose last attempt failed,
\* each with the time of that failure.
THEOREM BatchTracksFailures == BatchSpec => []TrackedSinceFailure
<1>1. BatchInv => TrackedSinceFailure
  BY DEF BatchInv
<1>2. QED
  BY BatchInvHolds, <1>1, PTL

-----------------------------------------------------------------------------
(***************************************************************************)
(* The distance between a failure and the next attempt.  It needs more     *)
(* than the exact tracker: no delay may be shorter than the minimum, which *)
(* a strategy keeps as long as nothing overflows.                          *)
(***************************************************************************)
Limiting ==
  /\ HasBackoff
  /\ B!NoOverflow
  /\ Strategy.kind = "exponential" => Strategy.n > 0

DelaysSuffice ==
  \A i \in Item : tracker[i] # B!Vacant => tracker[i].delay >= MinDelay

LEMMA ProductGrows ==
  ASSUME NEW d \in 0 .. MaxDelay, NEW k \in Nat, k > 0
  PROVE  d * k \in Nat /\ d <= d * k /\ d * k <= MaxDelay * k
<1>1. MaxDelay - d \in Nat
  BY ConstantFacts
<1>2. MaxDelay * k = d * k + (MaxDelay - d) * k
  BY ConstantFacts
<1>3. (MaxDelay - d) * k \in Nat /\ d * k \in Nat
  BY <1>1
<1>4. d * k = d + d * (k - 1) /\ d * (k - 1) \in Nat
  OBVIOUS
<1>5. QED
  BY <1>2, <1>3, <1>4, ConstantFacts

LEMMA NextDelaySuffices ==
  ASSUME Limiting, NEW e \in Entry, e.delay >= MinDelay
  PROVE  B!NextDelay(e) >= MinDelay
<1> DEFINE p == e.delay * Strategy.n
<1>1. e.delay \in 0 .. MaxDelay /\ e.delay \in Nat
  BY ConstantFacts DEF Entry
<1>2. CASE Strategy.kind = "exponential"
  <2>1. p \in Nat /\ e.delay <= p /\ p <= MaxDelay * Strategy.n
    BY <1>1, <1>2, ProductGrows, ConstantFacts DEF Limiting
  <2>2. MaxDelay * Strategy.n <= U64Max /\ MaxDelay * Strategy.n \in Nat
    BY <1>2, ConstantFacts DEF Limiting, B!NoOverflow
  <2> HIDE DEF p
  <2>3. p <= U64Max
    BY <2>1, <2>2, ConstantFacts
  <2>4. B!Wrap(p) = p
    BY <2>3 DEF B!Wrap
  <2>5. B!NextDelay(e) = IF p < MaxDelay THEN p ELSE MaxDelay
    BY <1>2, <2>4 DEF B!NextDelay, p
  <2>6. QED
    BY <1>1, <2>1, <2>5, ConstantFacts
<1>3. CASE Strategy.kind # "exponential"
  <2>1. B!NextDelay(e) \in {MinDelay, MaxDelay}
    BY <1>3 DEF B!NextDelay
  <2>2. QED
    BY <2>1, ConstantFacts
<1>4. QED
  BY <1>2, <1>3

LEMMA RecordedSuffices ==
  ASSUME Limiting, Inv, NEW f \in [Item -> Entry], NEW i \in Item,
         f[i] # B!Vacant => f[i].delay >= MinDelay
  PROVE  B!Recorded(f, i)[i].delay >= MinDelay
<1>1. CASE f[i] = B!Vacant
  <2>1. B!Recorded(f, i)[i].delay = B!InitialDelay
    BY <1>1 DEF B!Recorded
  <2>2. QED
    BY <2>1, ConstantFacts DEF B!InitialDelay
<1>2. CASE f[i] # B!Vacant
  <2>1. B!Recorded(f, i)[i].delay \in {B!NextDelay(f[i]), f[i].delay}
    BY <1>2 DEF B!Recorded
  <2>2. B!NextDelay(f[i]) >= MinDelay
    BY <1>2, NextDelaySuffices
  <2>3. QED
    BY <1>2, <2>1, <2>2
<1>3. QED
  BY <1>1, <1>2

LEMMA DelaysStep ==
  ASSUME Limiting, BatchInv, DelaysSuffice, [BatchNext]_batchVars
  PROVE  DelaysSuffice'
<1>1. ASSUME UNCHANGED tracker
      PROVE  DelaysSuffice'
  BY <1>1 DEF DelaysSuffice, B!Vacant
<1>2. ASSUME NEW failed \in SUBSET items, Settle(failed)
      PROVE  DelaysSuffice'
  <2> DEFINE f == Cleared(tracker, items \ failed)
  <2>1. /\ f \in [Item -> Entry]
        /\ \A i \in Item : f[i] = tracker[i] \/ f[i] = B!Vacant
    BY ConstantFacts
    DEF BatchInv, JobTypes, Cleared, B!Without, B!Vacant, Entry
  <2>2. tracker' = [i \in Item |-> IF i \in failed THEN B!Recorded(f, i)[i] ELSE f[i]]
    BY <1>2 DEF Settle, Events, Limiting
  <2> HIDE DEF f
  <2> SUFFICES ASSUME NEW i \in Item, tracker'[i] # B!Vacant
               PROVE  tracker'[i].delay >= MinDelay
    BY DEF DelaysSuffice, B!Vacant
  <2>3. f[i] # B!Vacant => f[i].delay >= MinDelay
    BY <2>1 DEF DelaysSuffice
  <2>4. B!Recorded(f, i)[i].delay >= MinDelay
    BY <2>1, <2>3, RecordedSuffices DEF BatchInv
  <2>5. QED
    BY <2>2, <2>3, <2>4
<1>3. BatchFailed \/ BatchSucceeded => \E failed \in SUBSET items : Settle(failed)
  BY DEF BatchFailed, BatchSucceeded, BatchInv, JobTypes
<1>4. \/ UNCHANGED tracker
      \/ BatchFailed \/ BatchSucceeded
  BY DEF BatchNext, Begin, Receive, Retain, Prepared, TimedOut, jobVars, batchVars
<1>5. QED
  BY <1>1, <1>2, <1>3, <1>4

\* What is retained of a chunk was ready, so its failure is a delay ago.
LEMMA AttemptIsDue ==
  ASSUME Limiting, BatchInv, DelaysSuffice, BatchNext,
         NEW i \in Item, i \in items' \ items, failedAt[i] # 0
  PROVE  now > failedAt[i] + MinDelay
<1>1. Retain
  BY DEF BatchNext, Begin, Receive, Prepared, BatchFailed, BatchSucceeded, Settle,
         TimedOut, jobVars
<1>2. B!Ready(i)
  BY <1>1 DEF Retain, Retained, Limiting
<1>3. tracker[i] # B!Vacant /\ tracker[i].last = failedAt[i]
  BY DEF BatchInv, TrackedSinceFailure, Limiting
<1>4. tracker[i].last \in 0 .. MaxTime /\ tracker[i].delay \in 0 .. MaxDelay
  BY DEF BatchInv, JobTypes, Entry
<1>5. tracker[i].last + tracker[i].delay <= U64Max
  BY <1>4, ConstantFacts DEF Limiting, B!NoOverflow
<1>6. now > tracker[i].last + tracker[i].delay
  BY <1>2, <1>3, <1>5 DEF B!Ready, B!Wrap
<1>7. tracker[i].delay >= MinDelay
  BY <1>3 DEF DelaysSuffice
<1>8. now \in Nat
  BY NowFacts DEF BatchInv
<1>9. QED
  BY <1>3, <1>4, <1>6, <1>7, <1>8, ConstantFacts

\* process_batch never attempts an item again before the minimum delay since its
\* failure is over, for every tracker whose sums stay within the word.
THEOREM BatchNoEarlyRetry ==
  ASSUME Limiting
  PROVE  BatchSpec => NoEarlyRetry
<1>1. BatchInit => DelaysSuffice
  BY DEF BatchInit, DelaysSuffice
<1>2. BatchInv /\ DelaysSuffice /\ [BatchNext]_batchVars => DelaysSuffice'
  BY DelaysStep
<1>3. BatchInv /\ DelaysSuffice /\ [BatchNext]_batchVars =>
        [\A i \in Item : i \in items' \ items /\ failedAt[i] # 0 =>
           now > failedAt[i] + MinDelay]_batchVars
  BY AttemptIsDue
<1>4. QED
  BY BatchInvHolds, <1>1, <1>2, <1>3, PTL DEF BatchSpec, NoEarlyRetry

-----------------------------------------------------------------------------
(***************************************************************************)
(* What the receiver promises to process_batch.                            *)
(***************************************************************************)

\* The job uses its receiver as QueueReceiver says: what is proved of every
\* receiver, the spacing of its takes among it, holds of this one.
THEOREM BatchUsesReceiver == BatchSpec => Spec
<1>1. BatchInit => Init
  BY DEF BatchInit
<1>2. [BatchNext]_batchVars => [Next]_vars
  BY ReceiverPart
<1>3. QED
  BY <1>1, <1>2, PTL DEF BatchSpec, Spec

\* Between the return of recv and Retain the chunk has been taken, but not yet
\* attempted; the job has no await there at which the timer could end it.
Handed(i) == jpc = "receive" /\ rpc = "idle" /\ i \in chunk

UsedInv ==
  /\ rpc # "idle" => jpc = "receive" /\ rpc # "try"
  /\ \A i \in Item : takenAt[i] <= now
  /\ \A i \in Item : triedAt[i] >= takenAt[i] \/ Handed(i)

LEMMA UsedStep ==
  ASSUME ~ HasBackoff, BatchInv, UsedInv, [BatchNext]_batchVars
  PROVE  UsedInv'
<1> USE DEF UsedInv, Handed
<1>0. /\ now \in Nat /\ now' \in Nat /\ now <= now'
      /\ takenAt \in [Item -> 0 .. MaxTime] /\ triedAt \in [Item -> 0 .. MaxTime]
  BY NowFacts, ClockStep, ReceiverPart DEF BatchInv, Inv, TypeOK, JobTypes
<1>1. ASSUME UNCHANGED <<takenAt, triedAt>>, UNCHANGED <<jpc, rpc, chunk>>
      PROVE  UsedInv'
  BY <1>0, <1>1
<1>2. ASSUME UNCHANGED <<takenAt, triedAt>>,
             jpc # "receive" \/ rpc # "idle",
             rpc' # "idle" => jpc' = "receive" /\ rpc' # "try"
      PROVE  UsedInv'
  BY <1>0, <1>2
<1>3. CASE (Environment /\ UNCHANGED jobVars) \/ UNCHANGED batchVars
  BY <1>1, <1>3 DEF Environment, Tick, Push, Steal, receiverVars, vars, jobVars, batchVars
<1>4. CASE Begin
  BY <1>2, <1>4 DEF Begin, Recv
<1>5. CASE Receive
  <2>1. CASE CheckLength \/ Slept \/ CheckDeadline
    BY <1>2, <1>5, <2>1 DEF Receive, CheckLength, Slept, CheckDeadline, jobVars
  <2>2. CASE Poll
    <3>1. PICK popped \in SUBSET queue :
            LET taken == {i \in popped : ~ Cooling(i)}
            IN  /\ takenAt' = IF config.cooldown = None THEN takenAt
                              ELSE [i \in Item |-> IF i \in taken THEN now ELSE takenAt[i]]
                /\ chunk' = taken
                /\ rpc' = IF rpc = "try" \/ taken # {} THEN "idle" ELSE "deadline"
      BY <2>2 DEF Poll
    <3>2. /\ rpc = "poll" /\ jpc' = "receive" /\ triedAt' = triedAt /\ now' = now
      BY <1>5, <2>2 DEF Receive, Poll, jobVars
    <3>3. \A i \in Item : takenAt'[i] = takenAt[i] \/ (takenAt'[i] = now /\ i \in chunk')
      BY <1>0, <3>1
    <3>4. \A i \in Item : i \in chunk' => rpc' = "idle"
      BY <3>1
    <3>5. rpc' # "idle" => rpc' # "try"
      BY <3>1
    <3>6. QED
      BY <1>0, <3>2, <3>3, <3>4, <3>5
  <2>3. QED
    BY <1>5, <2>1, <2>2 DEF Receive, ReceiverStep
<1>6. CASE Retain
  <2>1. /\ triedAt' = [i \in Item |-> IF i \in chunk THEN now ELSE triedAt[i]]
        /\ jpc' = "prepare" /\ rpc = "idle" /\ UNCHANGED <<takenAt, rpc, now>>
    BY <1>6 DEF Retain, Retained, vars, receiverVars
  <2>2. \A i \in Item : triedAt'[i] >= takenAt[i]
    BY <1>0, <2>1
  <2>3. QED
    BY <1>0, <2>1, <2>2
<1>7. CASE Prepared \/ BatchFailed \/ BatchSucceeded
  BY <1>2, <1>7 DEF Prepared, BatchFailed, BatchSucceeded, Settle, vars, receiverVars
<1>8. CASE TimedOut
  BY <1>2, <1>8 DEF TimedOut, Cancel, vars, receiverVars
<1>9. QED
  BY <1>3, <1>4, <1>5, <1>6, <1>7, <1>8 DEF BatchNext

\* Without a tracker the doc of the cooldown is right, for every configuration
\* of the receiver and although the timeout may end the job at any await: an
\* item is thrown away only within a cooldown of an attempt at it.  So the
\* tracker, which leaves out items after they are taken, alone is to blame for
\* the uses that the run with a tracker shows to be lost.
THEOREM CooldownAloneLosesNothing ==
  ASSUME ~ HasBackoff
  PROVE  BatchSpec => DroppedWasUsed
<1> DEFINE Used == \A i \in Item :
                     rpc # rpc' /\ i \in queue /\ i \notin queue' /\ i \notin chunk' =>
                       triedAt[i] # 0 /\ now - triedAt[i] < config.cooldown
<1>1. BatchInit => UsedInv
  BY ConstantFacts DEF BatchInit, Init, UsedInv
<1>2. BatchInv /\ UsedInv /\ [BatchNext]_batchVars => UsedInv'
  BY UsedStep
<1>3. BatchInv /\ UsedInv /\ [BatchNext]_batchVars => [Used]_batchVars
  <2> SUFFICES ASSUME BatchInv, UsedInv, [BatchNext]_batchVars, NEW i \in Item,
                      rpc # rpc', i \in queue, i \notin queue', i \notin chunk'
               PROVE  triedAt[i] # 0 /\ now - triedAt[i] < config.cooldown
    OBVIOUS
  <2>1. Inv /\ [Next]_vars
    BY ReceiverPart DEF BatchInv
  <2>2. Poll
    BY <2>1, OtherSteps
  <2>3. takenAt[i] # 0 /\ now - takenAt[i] < config.cooldown
    BY <2>1, <2>2, PollStep
  <2>4. triedAt[i] >= takenAt[i]
    BY <2>2 DEF UsedInv, Handed, Poll
  <2>5. /\ now \in Nat /\ takenAt[i] \in Nat /\ triedAt[i] \in Nat
        /\ config.cooldown \in Int
    BY <2>1, NowFacts, ConfigFacts DEF BatchInv, Inv, TypeOK, JobTypes, None
  <2>6. QED
    BY <2>3, <2>4, <2>5
<1>4. QED
  BY BatchInvHolds, <1>1, <1>2, <1>3, PTL DEF BatchSpec, DroppedWasUsed

=============================================================================
