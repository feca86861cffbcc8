-------------------------- MODULE ReportPublisher --------------------------
(***************************************************************************)
(* ServiceReportPublisher of src/src/service_manager.rs: which of the      *)
(* summaries that a monitor produces are worth a log message.  A monitor   *)
(* hands it every summary of its check, in order; the number of services   *)
(* is fixed once they are spawned, so a summary is the number of dead ones *)
(* and a timestamp.                                                        *)
(***************************************************************************)
EXTENDS Integers

CONSTANTS
  NumServices,   \* number of managed services
  LogInterval,   \* log_interval, which RunConfig::validate keeps >= 0
  StartTime,     \* timestamp of the first check
  MaxTime        \* bound: the timestamps stop here

ASSUME PublisherAssumption ==
  /\ NumServices \in Nat \ {0} /\ LogInterval \in Nat
  /\ StartTime \in Nat /\ MaxTime \in Nat /\ StartTime <= MaxTime

VARIABLES
  now,               \* the clock
  lastHealthyLog,    \* last_healthy_log
  lastHealthyCount,  \* last_healthy_count
  lastDeadCount,     \* last_dead_count
  reported,          \* history: dead count and time of the last summary
  published          \* history: dead count and time of the last message

state == <<lastHealthyLog, lastHealthyCount, lastDeadCount>>
vars == <<now, state, reported, published>>

Never == [dead |-> -1, at |-> 0]
Message == [dead : -1 .. NumServices, at : 0 .. MaxTime]

TypeOK ==
  /\ now \in StartTime .. MaxTime
  /\ lastHealthyLog \in 0 .. MaxTime
  /\ lastHealthyCount \in 0 .. NumServices
  /\ lastDeadCount \in 0 .. NumServices
  /\ reported \in Message
  /\ published \in Message

Init ==
  /\ now = StartTime
  /\ lastHealthyLog = 0
  /\ lastHealthyCount = 0
  /\ lastDeadCount = 0
  /\ reported = Never
  /\ published = Never

Tick ==
  /\ now < MaxTime
  /\ now' = now + 1
  /\ UNCHANGED <<state, reported, published>>

NewsOfChanges(dead) ==
  \/ NumServices - dead # lastHealthyCount
  \/ dead # lastDeadCount

NewsAlways(dead) == now - lastHealthyLog >= 0

\* The condition of the branch for a summary without dead services.
News(dead) ==
  \/ now - lastHealthyLog >= LogInterval
  \/ NumServices - dead # lastHealthyCount
  \/ dead # lastDeadCount

CountAlive(dead) ==
  /\ lastHealthyCount' = NumServices + dead
  /\ lastDeadCount' = dead

CountOnlyHealthy(dead) ==
  /\ lastHealthyCount' = IF dead = 0 THEN NumServices ELSE lastHealthyCount
  /\ lastDeadCount' = IF dead = 0 THEN 0 ELSE lastDeadCount

Count(dead) ==
  /\ lastHealthyCount' = NumServices - dead
  /\ lastDeadCount' = dead

\* handle_report with a summary of the current time that lists `dead` services.
HandleReport(dead) ==
  /\ IF dead > 0
     THEN UNCHANGED lastHealthyLog
     ELSE lastHealthyLog' = IF News(dead) THEN now ELSE lastHealthyLog
  /\ published' = IF dead > 0 \/ News(dead)
                  THEN [dead |-> dead, at |-> now] ELSE published
  /\ Count(dead)
  /\ reported' = [dead |-> dead, at |-> now]
  /\ UNCHANGED now

Next == Tick \/ \E dead \in 0 .. NumServices : HandleReport(dead)

Spec == Init /\ [][Next]_vars

-----------------------------------------------------------------------------
\* The last message always tells how many services were dead in the last
\* summary: every failure, every change of their number and every recovery is
\* published, although a healthy summary mostly is not.
LogIsCurrent == published.dead = reported.dead

\* While everything stays healthy a message is repeated at least every
\* log_interval, counted from one check to the next.
LogIsRecent ==
  reported.dead = 0 =>
    published.at = reported.at \/ reported.at < published.at + LogInterval

\* Two messages that all services are healthy, with no failure in between,
\* are at least log_interval apart.
HealthyIsQuiet ==
  [][published.dead = 0 /\ published'.dead = 0 /\ published' # published =>
       published'.at >= published.at + LogInterval]_vars

=============================================================================
