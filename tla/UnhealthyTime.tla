---------------------------- MODULE UnhealthyTime -----------------------------
(***************************************************************************)
(* ServiceManager in the i32 arithmetic of ManagedService::check and       *)
(* monitor_with_recovery of src/src/service_manager.rs.  A clock yields    *)
(* u64 timestamps; the code cuts them to i32 ("as i32") and subtracts,     *)
(* adds and compares what is left, and a release build wraps the sums.     *)
(* The last second an i32 can hold lies in 2038 for SystemClock::default;  *)
(* the words of SystemClock::accelerated(2) are negative until then.       *)
(*                                                                         *)
(* Time t of ServiceManager is the timestamp Epoch + t, and 0 in           *)
(* failingSince and since is the literal 0 of the code (StartTime > 0).    *)
(* The heart is an AtomicUsize that keeps all of a timestamp, so its cast  *)
(* happens at every load.                                                  *)
(***************************************************************************)
EXTENDS ServiceManager

CONSTANTS
  Half, \* 2^31 in the code: an i32 lies in -Half .. Half - 1
  Epoch \* timestamp of time 0

\* Configured delays and the time that is modelled are short against the word.
ASSUME WordAssumption ==
  /\ Half \in Nat \ {0} /\ Epoch \in Nat
  /\ \A s \in Service : MaxTime + Ttl[s] + AttemptRecoveryAfter < Half

WordSaturating(n) == IF n >= Half THEN Half - 1 ELSE n

\* What "as i32" makes of a timestamp, and wrapping of the sum of two i32.
Word(n) == ((n + Half) % (2 * Half)) - Half

Stamp(t) == Word(Epoch + t)

\* The i32 that stands for a stored mark or a reported time.
WordOf(t) == IF t = 0 THEN 0 ELSE Stamp(t)

-----------------------------------------------------------------------------
(* ManagedService::check *)

\* time_since_last_beat >= ttl
WordSilent(c) == Word(Stamp(ts[c]) - Stamp(lastBeat[c])) >= Ttl[at[c]]

WordSilentSince(c) == IF WordSilent(c) THEN lastBeat[c] + Ttl[at[c]] ELSE 0

\* std::cmp::min of two i32, one of which may be the literal 0.
WordEarlier(a, b) == IF WordOf(a) < WordOf(b) THEN a ELSE b

WordClearFailing(c) ==
  /\ pc[c] = "clear"
  /\ failingSince' = [failingSince EXCEPT ![at[c]] = 0]
  /\ \/ WordSilent(c) /\ ReportDead(c, WordSilentSince(c))
     \/ ~ WordSilent(c) /\ UNCHANGED <<dead, since>>
  /\ Advance(c)
  /\ UNCHANGED <<now, heart, handle, detached, healthy, spawned, ts, answer>>

WordMarkFailingAnew(c) ==
  /\ pc[c] = "mark"
  /\ failingSince' = [failingSince EXCEPT ![at[c]] = IF Stamp(ts[c]) = 0 THEN 0 ELSE ts[c]]
  /\ ReportDead(c, WordEarlier(ts[c], WordSilentSince(c)))
  /\ Advance(c)
  /\ UNCHANGED <<now, heart, handle, detached, healthy, spawned, ts, answer>>

\* A mark whose word is 0 is stored as "not failing".
WordMarkFailing(c) ==
  LET mark == IF failingSince[at[c]] = 0 THEN ts[c] ELSE failingSince[at[c]]
  IN  /\ pc[c] = "mark"
      /\ failingSince' = [failingSince EXCEPT ![at[c]] = IF WordOf(mark) = 0 THEN 0 ELSE mark]
      /\ ReportDead(c, WordEarlier(mark, WordSilentSince(c)))
      /\ Advance(c)
      /\ UNCHANGED <<now, heart, handle, detached, healthy, spawned, ts, answer>>

-----------------------------------------------------------------------------
(* monitor_with_recovery *)

WordDueOrNow(t) == Word(WordOf(t) + AttemptRecoveryAfter) <= Stamp(now)

\* since + attempt_recovery_after < self.clock.current_timestamp() as i32
WordDue(t) == Word(WordOf(t) + AttemptRecoveryAfter) < Stamp(now)

WordDecide(m, s) ==
  /\ pc[m] = "scan" /\ NextDead(m, s)
  /\ \/ WordDue(since[m][s]) /\ Goto(m, "abort")
     \/ ~ WordDue(since[m][s]) /\ UNCHANGED pc
  /\ Consume(m, s)
  /\ UNCHANGED <<now, serviceVars, spawned, ts, lastBeat, answer>>

-----------------------------------------------------------------------------
WordCheckStep(c) ==
  \/ BeginCheck(c)
  \/ LoadHeart(c)
  \/ AskHealth(c)
  \/ WordClearFailing(c)
  \/ WordMarkFailing(c)

WordMonitorStep(m) ==
  \/ WordCheckStep(m)
  \/ \E s \in Service : WordDecide(m, s)
  \/ RoundDone(m)
  \/ Wake(m)
  \/ RestartStep(m)

WordNext ==
  \/ Tick
  \/ SpawnServices
  \/ \E m \in Monitors : OthersIdle(m) /\ WordMonitorStep(m)
  \/ \E p \in Probes : OthersIdle(p) /\ (WordCheckStep(p) \/ Respond(p))
  \/ \E s \in Service : Task(s)

WordSpec == Init /\ [][WordNext]_vars

-----------------------------------------------------------------------------
\* A check finds the same services silent as with unbounded timestamps, although
\* the last beat may lie before the wrap of the word and the check after it.
SilenceIsExact ==
  \A c \in Checkers : pc[c] \in {"clear", "mark"} => (WordSilent(c) <=> Silent(c))

\* Neither the clock nor the end of a recovery delay is beyond the largest word.
BeforeWrap ==
  /\ Epoch + now < Half
  /\ \A m \in Monitors : \A s \in dead[m] : Epoch + since[m][s] + AttemptRecoveryAfter < Half

\* Until a word wraps, the checks and restarts of the code are those of
\* ServiceManager, whose times never wrap: no mark, minimum, due time or
\* restart decision comes out differently.
ManagerUntilWrap == [][BeforeWrap => Next]_vars

=============================================================================
