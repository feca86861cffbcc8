----------------------- MODULE ReportPublisherProofs -----------------------
(***************************************************************************)
(* The promises of the log, for any number of services and any interval.   *)
(***************************************************************************)
EXTENDS ReportPublisher, TLAPS

\* The counters tell the last summary, or that there was none yet; the time of
\* the last healthy message is kept for as long as that is the last message.
Inv ==
  /\ TypeOK
  /\ LogIsCurrent
  /\ LogIsRecent
  /\ published.at <= now
  /\ reported.dead >= 0 => /\ lastDeadCount = reported.dead
                           /\ lastHealthyCount = NumServices - reported.dead
  /\ reported.dead = -1 => lastHealthyCount = 0 /\ lastDeadCount = 0
  /\ published.dead = 0 => lastHealthyLog = published.at

LEMMA InvInit == Init => Inv
  BY PublisherAssumption
  DEF Init, Inv, TypeOK, Never, Message, LogIsCurrent, LogIsRecent

\* Handling a summary keeps the invariant and the silence between messages.
LEMMA HandleStep ==
  ASSUME Inv, NEW dead \in 0 .. NumServices, HandleReport(dead)
  PROVE  /\ Inv'
         /\ published.dead = 0 /\ published'.dead = 0 /\ published' # published =>
              published'.at >= published.at + LogInterval
<1> USE PublisherAssumption DEF HandleReport
<1> DEFINE message == [dead |-> dead, at |-> now]
<1>1. message \in Message /\ now \in Nat /\ now \in 0 .. MaxTime
  BY DEF Inv, TypeOK, Message
<1>2. /\ reported.dead \in -1 .. NumServices /\ published.at \in Nat
      /\ reported.dead = published.dead
      /\ lastHealthyLog \in Nat
  BY DEF Inv, TypeOK, Message, LogIsCurrent
<1>3. /\ reported' = message
      /\ published' = message \/ published' = published
      /\ now' = now
  OBVIOUS
<1>4. lastHealthyLog' = lastHealthyLog \/ lastHealthyLog' = now
  OBVIOUS
<1>5. lastHealthyCount' = NumServices - dead /\ lastDeadCount' = dead
  BY DEF Count
<1>6. TypeOK'
  BY <1>1, <1>3, <1>4, <1>5 DEF Inv, TypeOK
\* A summary that is not published repeats the last one, in time.
<1>7. ASSUME published' # message
      PROVE  /\ dead = 0 /\ published.dead = 0
             /\ now < published.at + LogInterval
             /\ lastHealthyLog' = lastHealthyLog
  <2>1. dead = 0 /\ ~ News(dead) /\ lastHealthyLog' = lastHealthyLog
    BY <1>7
  <2>2. now - lastHealthyLog < LogInterval /\ lastHealthyCount = NumServices
    BY <1>1, <1>2, <2>1 DEF News, Inv, TypeOK
  <2>3. reported.dead # -1
    BY <2>2 DEF Inv
  <2>4. reported.dead = 0
    BY <1>2, <2>2, <2>3 DEF Inv
  <2>5. QED
    BY <1>1, <1>2, <2>1, <2>2, <2>4 DEF Inv
\* A healthy message is either news or due.
<1>8. ASSUME published.dead = 0, published' = message, dead = 0, published' # published
      PROVE  now >= published.at + LogInterval /\ lastHealthyLog' = now
  <2>1. News(dead)
    BY <1>8
  <2>2. lastHealthyCount = NumServices /\ lastDeadCount = 0
    BY <1>2, <1>8 DEF Inv
  <2>3. now - lastHealthyLog >= LogInterval
    BY <1>8, <2>1, <2>2 DEF News
  <2>4. QED
    BY <1>1, <1>2, <1>8, <2>1, <2>3 DEF Inv
<1>9. LogIsCurrent'
  BY <1>3, <1>7 DEF LogIsCurrent
<1>10. LogIsRecent'
  BY <1>3, <1>7 DEF LogIsRecent
<1>11. published'.at <= now
  BY <1>1, <1>3 DEF Inv
<1>12. published'.dead = 0 => lastHealthyLog' = published'.at
  <2>1. CASE published' = message
    BY <2>1, <1>1, <1>3, <1>7 DEF News, Inv
  <2>2. CASE published' # message
    BY <2>2, <1>3, <1>7 DEF Inv
  <2>3. QED
    BY <2>1, <2>2
<1>13. Inv'
  BY <1>3, <1>5, <1>6, <1>9, <1>10, <1>11, <1>12 DEF Inv
<1>14. QED
  BY <1>3, <1>8, <1>13

LEMMA InvStep ==
  ASSUME Inv, [Next]_vars
  PROVE  Inv'
<1>1. CASE UNCHANGED vars
  BY <1>1 DEF vars, state, Inv, TypeOK, LogIsCurrent, LogIsRecent
<1>2. CASE Tick
  BY <1>2, PublisherAssumption
  DEF Tick, state, Inv, TypeOK, Message, LogIsCurrent, LogIsRecent
<1>3. QED
  BY <1>1, <1>2, HandleStep DEF Next

LEMMA InvAlways == Spec => []Inv
  BY InvInit, InvStep, PTL DEF Spec

\* Type correctness: no remembered time or count leaves its range.
THEOREM PublisherTypeCorrect == Spec => []TypeOK
<1>1. Inv => TypeOK
  BY DEF Inv
<1>2. QED
  BY <1>1, InvAlways, PTL

\* The log always shows the number of dead services of the last summary.
THEOREM PublisherLogIsCurrent == Spec => []LogIsCurrent
<1>1. Inv => LogIsCurrent
  BY DEF Inv
<1>2. QED
  BY <1>1, InvAlways, PTL

\* A healthy application says so at least every log_interval.
THEOREM PublisherLogIsRecent == Spec => []LogIsRecent
<1>1. Inv => LogIsRecent
  BY DEF Inv
<1>2. QED
  BY <1>1, InvAlways, PTL

\* A healthy application says so at most every log_interval.
THEOREM PublisherHealthyIsQuiet == Spec => HealthyIsQuiet
<1>1. Inv /\ [Next]_vars =>
        [published.dead = 0 /\ published'.dead = 0 /\ published' # published =>
           published'.at >= published.at + LogInterval]_vars
  BY HandleStep DEF Next, Tick
<1>2. QED
  BY <1>1, InvAlways, PTL DEF Spec, HealthyIsQuiet

=============================================================================
