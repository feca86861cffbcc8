------------------------ MODULE QueueReceiverProofs ------------------------
(***************************************************************************)
(* What the cooldown of a receiver promises, for every set of overrides.   *)
(***************************************************************************)
EXTENDS QueueReceiver, FiniteSetTheorems, TLAPS

\* The labels of a call, kept folded in the proofs.
Label == {"idle", "try", "length", "poll", "deadline", "sleep"}

\* last_appearances is what it should be: the times of the takes of the calls
\* with a cooldown, untouched by the items thrown away and by the other calls.
Inv == TypeOK /\ lastSeen = takenAt

LEMMA TimeFacts ==
  /\ StartTime \in Nat /\ StartTime > 0 /\ MaxTime \in Nat
  /\ \A t \in StartTime .. MaxTime : t \in 0 .. MaxTime /\ t > 0
  BY TimeAssumption

LEMMA ConfigFacts ==
  ASSUME NEW c \in Configs
  PROVE  /\ c.poll \in Nat
         /\ c.maxWait \in Nat \cup {None}
         /\ c.cooldown \in Nat \cup {None}
         /\ c.cooldown < StartTime
  BY ConfigsAssumption, TimeAssumption

LEMMA InitEstablishesInv == Init => Inv
<1> SUFFICES ASSUME Init PROVE Inv
  OBVIOUS
<1>1. 0 \in 0 .. MaxTime /\ StartTime \in StartTime .. MaxTime
  BY TimeAssumption
<1>2. lastSeen \in [Item -> 0 .. MaxTime] /\ takenAt = lastSeen
  BY <1>1 DEF Init
<1>3. QED
  BY <1>1, <1>2 DEF Init, Inv, TypeOK

\* A poll: what it takes and what it throws away.
LEMMA PollStep ==
  ASSUME Inv, Poll
  PROVE  /\ Inv'
         /\ \A i \in Item : takenAt'[i] # takenAt[i] /\ takenAt[i] # 0 =>
              takenAt'[i] - takenAt[i] >= config.cooldown
         /\ \A i \in Item : i \in queue /\ i \notin queue' /\ i \notin chunk' =>
              takenAt[i] # 0 /\ now - takenAt[i] < config.cooldown
<1>1. PICK popped \in SUBSET queue :
        LET taken == {i \in popped : ~ Cooling(i)}
        IN  /\ queue' = queue \ popped
            /\ lastSeen' = Seen(popped)
            /\ takenAt' = IF config.cooldown = None THEN takenAt
                          ELSE [i \in Item |-> IF i \in taken THEN now ELSE takenAt[i]]
            /\ chunk' = taken
            /\ rpc' = IF rpc = "try" \/ taken # {} THEN "idle" ELSE "deadline"
  BY DEF Poll
<1> DEFINE taken == {i \in popped : ~ Cooling(i)}
<1>2. UNCHANGED <<now, config, start, wake>>
  BY DEF Poll
<1>3. /\ now \in 0 .. MaxTime /\ now > 0 /\ now >= StartTime
      /\ config \in Configs
      /\ takenAt \in [Item -> 0 .. MaxTime] /\ lastSeen = takenAt
      /\ queue \subseteq Item
  BY TimeFacts DEF Inv, TypeOK
<1>4. config.cooldown \in Nat \cup {None} /\ config.cooldown < StartTime
  BY <1>3, ConfigFacts
<1>5. takenAt' \in [Item -> 0 .. MaxTime]
  BY <1>1, <1>3
<1>6. lastSeen' = takenAt'
  <2>1. CASE config.cooldown = None
    BY <1>1, <1>3, <2>1 DEF Seen
  <2>2. CASE config.cooldown # None
    <3>1. lastSeen' = [i \in Item |-> IF i \in popped /\ ~ Cooling(i)
                                       THEN now ELSE lastSeen[i]]
      BY <1>1, <2>2 DEF Seen
    <3>2. takenAt' = [i \in Item |-> IF i \in taken THEN now ELSE takenAt[i]]
      BY <1>1, <2>2
    <3>3. \A i \in Item : i \in taken <=> i \in popped /\ ~ Cooling(i)
      OBVIOUS
    <3>4. QED
      BY <1>3, <3>1, <3>2, <3>3
  <2>3. QED
    BY <2>1, <2>2
<1>7. Inv'
  <2>1. queue' \subseteq Item /\ chunk' \subseteq Item
    BY <1>1, <1>3
  <2>2. rpc' \in Label
    BY <1>1 DEF Label
  <2>3. QED
    BY <1>2, <1>5, <1>6, <2>1, <2>2 DEF Inv, TypeOK, Label
<1>8. ASSUME NEW i \in Item, takenAt'[i] # takenAt[i], takenAt[i] # 0
      PROVE  takenAt'[i] - takenAt[i] >= config.cooldown
  <2>1. config.cooldown # None /\ i \in taken /\ takenAt'[i] = now
    BY <1>1, <1>8
  <2>2. ~ (now - takenAt[i] < config.cooldown)
    BY <1>3, <2>1 DEF Cooling
  <2>3. config.cooldown \in Nat /\ takenAt[i] \in Nat /\ now \in Nat
    BY <1>3, <1>4, <2>1
  <2>4. QED
    BY <2>1, <2>2, <2>3
<1>9. ASSUME NEW i \in Item, i \in queue, i \notin queue', i \notin chunk'
      PROVE  takenAt[i] # 0 /\ now - takenAt[i] < config.cooldown
  <2>1. i \in popped /\ i \notin taken
    BY <1>1, <1>9
  <2>2. config.cooldown # None /\ now - takenAt[i] < config.cooldown
    BY <1>3, <2>1 DEF Cooling
  <2>3. now \in Nat /\ config.cooldown \in Nat /\ StartTime \in Nat
    BY <1>3, <1>4, <2>2, TimeFacts
  <2>4. QED
    BY <1>3, <1>4, <2>2, <2>3
<1>10. QED
  BY <1>7, <1>8, <1>9

\* Every other step leaves both times alone, and keeps the types.
LEMMA OtherSteps ==
  ASSUME Inv, [Next]_vars, ~ Poll
  PROVE  /\ Inv'
         /\ takenAt' = takenAt
         /\ rpc' # rpc => queue' = queue
<1> USE DEF Inv
<1>1. now \in StartTime .. MaxTime /\ config \in Configs /\ config.poll \in Nat
  BY ConfigFacts DEF TypeOK
<1>2. CASE Tick
  BY <1>2, <1>1, TimeFacts DEF Tick, TypeOK, receiverVars
<1>3. ASSUME NEW i \in Item, Push(i) \/ Steal(i)
      PROVE  Inv' /\ takenAt' = takenAt /\ rpc' = rpc
  BY <1>3 DEF Push, Steal, TypeOK, receiverVars
<1>4. ASSUME NEW c \in Configs, Recv(c) \/ TryRecv(c)
      PROVE  Inv' /\ takenAt' = takenAt /\ queue' = queue
  BY <1>4, <1>1 DEF Recv, TryRecv, TypeOK
<1>5. CASE CheckLength
  <2>1. WakeTime \in 0 .. MaxTime
    BY <1>1, TimeFacts DEF WakeTime
  <2>2. QED
    BY <1>5, <2>1 DEF CheckLength, TypeOK
<1>6. CASE Slept \/ CheckDeadline \/ Cancel
  BY <1>6 DEF Slept, CheckDeadline, Cancel, TypeOK
<1>7. CASE UNCHANGED vars
  BY <1>7 DEF vars, receiverVars, TypeOK
<1>8. QED
  BY <1>2, <1>3, <1>4, <1>5, <1>6, <1>7
     DEF Next, Environment, ReceiverStep, Calls

LEMMA StepPreservesInv ==
  ASSUME Inv, [Next]_vars
  PROVE  Inv'
  BY PollStep, OtherSteps

LEMMA InvHolds == Spec => []Inv
<1>1. Inv /\ [Next]_vars => Inv'
  BY StepPreservesInv
<1>2. QED
  BY InitEstablishesInv, <1>1, PTL DEF Spec

\* Type correctness of the receiver, whatever its overrides and its rivals.
THEOREM ReceiverTypeCorrect == Spec => []TypeOK
<1>1. Inv => TypeOK
  BY DEF Inv
<1>2. QED
  BY InvHolds, <1>1, PTL

\* try_recv_with never returns an item twice within the cooldown of the later
\* call, for any sequence of overrides.
THEOREM ReceiverTakesAreSpaced == Spec => TakesAreSpaced
<1> DEFINE P == \A i \in Item : takenAt'[i] # takenAt[i] /\ takenAt[i] # 0 =>
                  takenAt'[i] - takenAt[i] >= config.cooldown
<1>1. Inv /\ [Next]_vars => [P]_vars
  <2> SUFFICES ASSUME Inv, [Next]_vars PROVE P
    OBVIOUS
  <2>1. CASE Poll
    BY <2>1, PollStep
  <2>2. CASE ~ Poll
    BY <2>2, OtherSteps
  <2>3. QED
    BY <2>1, <2>2
<1>2. QED
  BY InvHolds, <1>1, PTL DEF Spec, TakesAreSpaced

\* try_recv_with throws away only items that it returned within the cooldown.
THEOREM ReceiverDropsOnlyRecent == Spec => DropsOnlyRecent
<1> DEFINE P == \A i \in Item :
                  rpc # rpc' /\ i \in queue /\ i \notin queue' /\ i \notin chunk' =>
                    takenAt[i] # 0 /\ now - takenAt[i] < config.cooldown
<1>1. Inv /\ [Next]_vars => [P]_vars
  <2> SUFFICES ASSUME Inv, [Next]_vars PROVE P
    OBVIOUS
  <2>1. CASE Poll
    BY <2>1, PollStep
  <2>2. CASE ~ Poll
    BY <2>2, OtherSteps
  <2>3. QED
    BY <2>1, <2>2
<1>2. QED
  BY InvHolds, <1>1, PTL DEF Spec, DropsOnlyRecent

\* recv_with returns items, no more than the call allows, or has waited for
\* longer than its max_wait; in the memory of a program there are finitely many.
THEOREM ReceiverReturnsAreEarned ==
  ASSUME IsFiniteSet(Item) PROVE Spec => ReturnsAreEarned
<1> DEFINE Earned ==
             IF chunk' = {} THEN config.maxWait # None /\ now - start > config.maxWait
             ELSE Cardinality(chunk') <= config.maxChunk
           P == rpc \notin {"idle", "try", "sleep"} /\ rpc' = "idle" => Earned
<1>1. Inv /\ [Next]_vars => [P]_vars
  <2> SUFFICES ASSUME Inv, Next, rpc \notin {"idle", "try", "sleep"}, rpc' = "idle"
               PROVE  Earned
    OBVIOUS
  <2>1. CASE Poll
    <3>1. PICK popped \in SUBSET queue :
            LET taken == {i \in popped : ~ Cooling(i)}
            IN  /\ PopsUntilFull(popped)
                /\ chunk' = taken
                /\ rpc' = IF rpc = "try" \/ taken # {} THEN "idle" ELSE "deadline"
      BY <2>1 DEF Poll
    <3>2. chunk' # {}
      BY <3>1
    <3>3. /\ config.maxChunk \in Nat
          /\ \/ Cardinality(chunk') = config.maxChunk
             \/ Cardinality(chunk') < config.maxChunk
      BY <3>1, ConfigsAssumption DEF PopsUntilFull, Inv, TypeOK
    <3>4. Cardinality(chunk') \in Nat
      BY <3>1, FS_Subset, FS_CardinalityType DEF Inv, TypeOK
    <3>5. QED
      BY <3>2, <3>3, <3>4
  <2>2. CASE CheckDeadline
    BY <2>2 DEF CheckDeadline, Late
  <2>3. QED
    BY <2>1, <2>2 DEF Next, Environment, ReceiverStep, Calls, Tick, Push, Steal,
       CheckLength, Slept, Cancel, Recv, TryRecv, receiverVars
<1>2. QED
  BY InvHolds, <1>1, PTL DEF Spec, ReturnsAreEarned

=============================================================================
