------------------------ MODULE SharedReceiverProofs ------------------------
(***************************************************************************)
(* Proofs about SharedReceiver, for every set of jobs and any number of    *)
(* threads.                                                                *)
(***************************************************************************)
EXTENDS SharedReceiver, TLAPS

Inv == TypeOK /\ GuardIsReceiving

LEMMA InitInv == Init => Inv
  BY SharingAssumption DEF Init, Inv, TypeOK, GuardIsReceiving, Where

LEMMA StepInv == Inv /\ [Next]_vars => Inv'
  <1> SUFFICES ASSUME Inv, [Next]_vars PROVE Inv'
    OBVIOUS
  <1> USE SharingAssumption DEF Inv, TypeOK, GuardIsReceiving, Where, Goto, Return
  <1>1. CASE Push
    BY <1>1 DEF Push
  <1>2. ASSUME NEW j \in Job, Begin(j) PROVE Inv'
    BY <1>2 DEF Begin
  <1>3. ASSUME NEW j \in Job, Expire(j) PROVE Inv'
    BY <1>3 DEF Expire
  <1>4. ASSUME NEW j \in Job, Lock(j) PROVE Inv'
    BY <1>4 DEF Lock
  <1>5. ASSUME NEW j \in Job, Poll(j) PROVE Inv'
    <2>1. CASE Wait(j)
      BY <2>1 DEF Wait
    <2>2. CASE Take(j)
      BY <2>2 DEF Take
    <2>3. QED
      BY <1>5, <2>1, <2>2 DEF Poll
  <1>6. ASSUME NEW j \in Job, Resume(j) PROVE Inv'
    BY <1>6 DEF Resume
  <1>7. ASSUME NEW j \in Job, Cancel(j) PROVE Inv'
    BY <1>7 DEF Cancel
  <1>8. ASSUME NEW j \in Job, Finish(j) PROVE Inv'
    BY <1>8 DEF Finish
  <1>9. CASE UNCHANGED vars
    BY <1>9 DEF vars
  <1>10. QED
    BY <1>1, <1>2, <1>3, <1>4, <1>5, <1>6, <1>7, <1>8, <1>9 DEF Next, JobStep

\* The state of every job, of the mutex and of the queue keeps its type.
THEOREM SharedTypeCorrect == Spec => []TypeOK
  BY InitInv, StepInv, PTL DEF Spec, Inv

\* The mutex is locked exactly while its holder is inside recv_with: a call
\* that returns, is cancelled or processes its batch has dropped the guard.
THEOREM GuardIsDropped == Spec => []GuardIsReceiving
  BY InitInv, StepInv, PTL DEF Spec, Inv

\* The job that sleeps with the guard has no thread to go on.
Starved == \E h \in Job : holder = h /\ where[h] = "sleep" /\ ~ FreeThread

\* Once the job that holds the guard finds no thread to go on it never will, for
\* any number of jobs and threads: whoever is on a thread waits for its guard,
\* and without a thread no timeout drops a call.  The timers may go off and the
\* queue may fill, but no call proceeds.
THEOREM StarvationIsForever == Spec => [](Starved => []Starved)
  <1>1. Inv /\ Starved /\ [Next]_vars => Starved'
    <2> SUFFICES ASSUME Inv, Starved, [Next]_vars
                 PROVE  where' = where /\ holder' = holder
      BY DEF Starved, FreeThread, OnThread
    <2>1. PICK h \in Job : holder = h /\ where[h] = "sleep" /\ ~ FreeThread
      BY DEF Starved
    <2>2. \A j \in Job : where[j] # "poll"
      BY <2>1 DEF Inv, GuardIsReceiving
    <2>3. holder # NoJob
      BY <2>1, SharingAssumption
    <2>4. CASE Push \/ UNCHANGED vars
      BY <2>4 DEF Push, vars
    <2>5. ASSUME NEW j \in Job, JobStep(j)
          PROVE  where' = where /\ holder' = holder
      BY <2>1, <2>2, <2>3, <2>5 DEF JobStep, Begin, Expire, Lock, Poll, Wait, Take, Resume,
         Cancel, Finish
    <2>6. QED
      BY <2>4, <2>5 DEF Next
  <1>2. QED
    BY <1>1, InitInv, StepInv, PTL DEF Spec

=============================================================================
