--------------------------- MODULE NotifierProofs ---------------------------
(***************************************************************************)
(* Safety of Notifier for any callers, queue size, number of attempts and  *)
(* bounds.                                                                 *)
(***************************************************************************)
EXTENDS Notifier, TLAPS

(* An Update that holds the mutex has put its own settings into the file.  *)
SettingsOK ==
    /\ file \in Settings /\ config \in Settings
    /\ updating \in BOOLEAN /\ refused \subseteq 1..MaxUpdates
    /\ updating => file.version \in 1..MaxUpdates
    /\ SettingsPersisted

Behind == IF taken > lost THEN taken ELSE lost

(* The queue holds the notices behind the last one taken or lost.          *)
QueueOK ==
    /\ queue \in Seq(Notices) /\ Len(queue) <= QueueSize
    /\ queued \in 0..MaxNotices /\ lost \in 0..queued /\ taken \in 0..queued
    /\ call \in [Callers -> {"idle", "offer"}]
    /\ Len(queue) = queued - Behind
    /\ \A i \in 1..Len(queue) : queue[i] = queued - Len(queue) + i

SenderOK(s) ==
    /\ s \in Sender
    /\ s.phase = "send" => s.attempt \in 1..MaxAttempts
    /\ s.phase = "wait" => s.attempt \in 1..(MaxAttempts - 1)

(* No copy is sent without an attempt, and none of a notice not yet taken. *)
DeliveryOK ==
    /\ SenderOK(worker)
    /\ received \in [Notices -> 0..MaxAttempts]
    /\ worker.phase \in {"send", "wait"} => taken \in Notices
    /\ worker.phase = "send" => received[taken] < worker.attempt
    /\ worker.phase = "wait" => received[taken] <= worker.attempt
    /\ \A j \in Notices : j > taken => received[j] = 0

ProcessOK ==
    /\ SenderOK(test)
    /\ close \in {"open", "closed", "stopped", "returned"}
    /\ starts \in 1..MaxStarts

IInv == SettingsOK /\ QueueOK /\ DeliveryOK /\ ProcessOK

USE DEF Notices
-----------------------------------------------------------------------------
(* Senders: how an attempt begins, fails and is followed by another.       *)

(* A sender at rest. *)
LEMMA RestingOK == SenderOK(Resting) /\ Resting.phase = "idle"
BY NotifierAssumption DEF SenderOK, Sender, Resting

(* The first attempt. *)
LEMMA FirstOK == SenderOK(First) /\ First.phase = "send" /\ First.attempt = 1
BY NotifierAssumption DEF SenderOK, Sender, First

(* A failed attempt is the last, or is waited behind.                      *)
LEMMA FailureOK ==
    ASSUME NEW s, SenderOK(s), s.phase = "send"
    PROVE  /\ SenderOK(AfterFailure(s)) /\ AfterFailure(s).phase \in {"idle", "wait"}
           /\ AfterFailure(s).phase = "wait" => AfterFailure(s).attempt = s.attempt
<1>1. s \in Sender /\ s.attempt \in 1..MaxAttempts
  BY DEF SenderOK
<1>2. CASE s.attempt < MaxAttempts
  <2>1. /\ AfterFailure(s) \in Sender /\ AfterFailure(s).phase = "wait"
        /\ AfterFailure(s).attempt = s.attempt
    BY <1>1, <1>2 DEF AfterFailure, Sender
  <2>. QED
    BY <1>1, <1>2, <2>1, NotifierAssumption DEF SenderOK
<1>3. CASE ~(s.attempt < MaxAttempts)
  BY <1>3, RestingOK DEF AfterFailure
<1>. QED
  BY <1>2, <1>3

(* After the wait comes the next attempt, or none.                         *)
LEMMA WaitedOK ==
    ASSUME NEW s, SenderOK(s), s.phase = "wait", NEW t \in Waited(s)
    PROVE  /\ SenderOK(t) /\ t.phase \in {"idle", "send"}
           /\ t.phase = "send" => t.attempt = s.attempt + 1
<1>1. s \in Sender /\ s.attempt \in 1..(MaxAttempts - 1)
  BY DEF SenderOK
<1>2. CASE t = [phase |-> "send", attempt |-> s.attempt + 1]
  BY <1>1, <1>2, NotifierAssumption DEF SenderOK, Sender
<1>3. CASE t = Resting
  BY <1>3, RestingOK
<1>. QED
  BY <1>2, <1>3 DEF Waited
-----------------------------------------------------------------------------
(* One lemma for each actor.                                               *)

(* Update changes nothing but the settings.                                *)
LEMMA UpdateKeeps ==
    ASSUME SettingsOK, UpdateStep
    PROVE  SettingsOK' /\ UNCHANGED <<notices, delivery, test, process>>
<1>1. ASSUME NEW enabled \in BOOLEAN, ReplaceFile(enabled)
      PROVE  SettingsOK' /\ UNCHANGED <<notices, delivery, test, process>>
  <2>1. file.version \in 0..MaxUpdates /\ file.version < MaxUpdates
    BY <1>1 DEF SettingsOK, Settings, ReplaceFile
  <2>2. file' \in Settings /\ file'.version \in 1..MaxUpdates
    BY <1>1, <2>1, NotifierAssumption DEF ReplaceFile, Settings
  <2>. QED
    BY <1>1, <2>2 DEF ReplaceFile, SettingsOK, SettingsPersisted
<1>2. ASSUME FinishUpdate
      PROVE  SettingsOK' /\ UNCHANGED <<notices, delivery, test, process>>
  BY <1>2 DEF FinishUpdate, SettingsOK, SettingsPersisted
<1>3. ASSUME ChmodFails
      PROVE  SettingsOK' /\ UNCHANGED <<notices, delivery, test, process>>
  BY <1>3 DEF ChmodFails, SettingsOK, SettingsPersisted
<1>. QED
  BY <1>1, <1>2, <1>3 DEF UpdateStep

(* Notify only adds to the end of the queue.                               *)
LEMMA NotifyKeeps ==
    ASSUME QueueOK, NEW c \in Callers, NotifyStep(c)
    PROVE  QueueOK' /\ UNCHANGED <<settings, delivery, test, process>>
<1>1. CASE Ask(c)
  BY <1>1 DEF Ask, QueueOK, Behind, delivery, process
<1>2. CASE Drop(c)
  BY <1>2 DEF Drop, QueueOK, Behind, delivery, process
<1>3. CASE Enqueue(c)
  <2>1. /\ queued' = queued + 1 /\ queued' \in 0..MaxNotices /\ queued' \in Notices
        /\ UNCHANGED <<settings, delivery, test, process>>
    BY <1>3, NotifierAssumption DEF Enqueue, QueueOK
  <2>2. /\ queue' = Append(queue, queued') /\ queue' \in Seq(Notices)
        /\ Len(queue') = Len(queue) + 1 /\ Len(queue) \in Nat
    BY <1>3, <2>1 DEF Enqueue, QueueOK
  <2>3. Behind' = Behind /\ Behind \in 0..queued
    BY <2>1 DEF QueueOK, Behind, delivery, process
  <2>4. Len(queue') = queued' - Behind'
    BY <2>1, <2>2, <2>3 DEF QueueOK
  <2>5. \A i \in 1..Len(queue') : queue'[i] = queued' - Len(queue') + i
    <3>. TAKE i \in 1..Len(queue')
    <3>1. CASE i = Len(queue) + 1
      BY <2>1, <2>2, <3>1 DEF QueueOK
    <3>2. CASE i \in 1..Len(queue)
      <4>1. queue'[i] = queue[i]
        BY <2>1, <2>2, <3>2 DEF QueueOK
      <4>2. queue[i] = queued - Len(queue) + i /\ queued \in Nat
        BY <3>2, NotifierAssumption DEF QueueOK
      <4>. QED
        BY <2>1, <2>2, <3>2, <4>1, <4>2
    <3>. QED
      BY <2>2, <3>1, <3>2
  <2>6. Len(queue') <= QueueSize /\ call' \in [Callers -> {"idle", "offer"}]
    BY <1>3, <2>2, NotifierAssumption DEF Enqueue, QueueOK
  <2>7. lost' \in 0..queued' /\ taken' \in 0..queued'
    BY <2>1 DEF QueueOK, delivery, process
  <2>. QED
    BY <2>1, <2>2, <2>4, <2>5, <2>6, <2>7 DEF QueueOK
<1>. QED
  BY <1>1, <1>2, <1>3 DEF NotifyStep

(* The notice at the head was never sent before: it lies behind the last   *)
(* one taken.                                                              *)
LEMMA TakeKeeps ==
    ASSUME QueueOK, DeliveryOK, Take
    PROVE  QueueOK' /\ DeliveryOK' /\ received' = received
<1>1. queue \in Seq(Notices) /\ queue # <<>> /\ Len(queue) \in Nat \ {0}
  BY DEF QueueOK, Take
<1>2. /\ taken' = queue[1] /\ queue' = Tail(queue) /\ worker' = First
      /\ UNCHANGED <<queued, call, received, lost>>
  BY <1>1 DEF Take, process
<1>3. taken' = Behind + 1 /\ taken' \in Notices /\ Behind \in 0..queued
  <2>1. queue[1] = queued - Len(queue) + 1
    BY <1>1 DEF QueueOK
  <2>2. Len(queue) = queued - Behind /\ Behind \in 0..queued /\ queued \in 0..MaxNotices
    BY DEF QueueOK, Behind
  <2>. QED
    BY <1>1, <1>2, <2>1, <2>2, NotifierAssumption
<1>4. taken' \in 0..queued /\ Behind' = taken' /\ taken' > taken
  BY <1>1, <1>2, <1>3 DEF QueueOK, Behind
<1>5. /\ queue' \in Seq(Notices) /\ Len(queue') = Len(queue) - 1
      /\ \A i \in 1..Len(queue') : queue'[i] = queue[i + 1]
  BY <1>1, <1>2
<1>6. \A i \in 1..Len(queue') : queue'[i] = queued' - Len(queue') + i
  <2>. TAKE i \in 1..Len(queue')
  <2>1. i + 1 \in 1..Len(queue) /\ queue'[i] = queue[i + 1]
    BY <1>1, <1>5
  <2>2. queue[i + 1] = queued - Len(queue) + (i + 1) /\ queued \in Nat
    BY <2>1, NotifierAssumption DEF QueueOK
  <2>. QED
    BY <1>1, <1>2, <1>5, <2>1, <2>2
<1>7. QueueOK'
  BY <1>1, <1>2, <1>3, <1>4, <1>5, <1>6, NotifierAssumption DEF QueueOK
<1>8. received[taken'] = 0 /\ \A j \in Notices : j > taken' => received[j] = 0
  BY <1>3, <1>4 DEF DeliveryOK, QueueOK
<1>9. DeliveryOK'
  BY <1>2, <1>3, <1>8, FirstOK DEF DeliveryOK
<1>. QED
  BY <1>2, <1>7, <1>9

(* What one attempt adds: at most one copy, of the notice taken last.      *)
LEMMA SendKeeps ==
    ASSUME QueueOK, DeliveryOK, SendStep
    PROVE  /\ DeliveryOK' /\ taken \in Notices
           /\ UNCHANGED <<settings, notices, taken, test, process>>
           /\ \A i \in Notices : i # taken => received'[i] = received[i]
<1>1. /\ SenderOK(worker) /\ worker.phase = "send" /\ taken \in Notices
      /\ worker.attempt \in 1..MaxAttempts /\ received[taken] < worker.attempt
      /\ received \in [Notices -> 0..MaxAttempts]
      /\ UNCHANGED <<settings, notices, taken, test, process>>
  BY DEF SendStep, SendSucceeds, SendFails, DeliveryOK, SenderOK
<1>2. received' \in {received, [received EXCEPT ![taken] = @ + 1]}
  BY DEF SendStep, SendSucceeds, SendFails
<1>3. /\ received' \in [Notices -> 0..MaxAttempts]
      /\ received'[taken] <= worker.attempt
      /\ \A i \in Notices : i # taken => received'[i] = received[i]
  BY <1>1, <1>2, NotifierAssumption
<1>4. \A j \in Notices : j > taken => received'[j] = 0
  BY <1>1, <1>3 DEF DeliveryOK
<1>5. /\ SenderOK(worker') /\ worker'.phase \in {"idle", "wait"}
      /\ worker'.phase = "wait" => worker'.attempt = worker.attempt
  BY <1>1, RestingOK, FailureOK DEF SendStep, SendSucceeds, SendFails
<1>. QED
  BY <1>1, <1>3, <1>4, <1>5 DEF DeliveryOK

(* Waiting and quitting deliver nothing.                                   *)
LEMMA WaitKeeps ==
    ASSUME DeliveryOK, QueueOK, Wait \/ Quit
    PROVE  DeliveryOK' /\ UNCHANGED <<settings, notices, taken, received, test, process>>
<1>1. UNCHANGED <<settings, notices, taken, received, test, process>>
  BY DEF Wait, Quit
<1>2. CASE Quit
  <2>1. SenderOK(worker') /\ worker'.phase = "gone"
    BY <1>2, NotifierAssumption DEF Quit, Resting, SenderOK, Sender
  <2>. QED
    BY <1>1, <2>1 DEF DeliveryOK
<1>3. CASE Wait
  <2>1. /\ SenderOK(worker') /\ worker'.phase \in {"idle", "send"}
        /\ worker'.phase = "send" => worker'.attempt = worker.attempt + 1
        /\ SenderOK(worker) /\ worker.phase = "wait" /\ taken \in Notices
        /\ received[taken] <= worker.attempt
    BY <1>3, WaitedOK DEF Wait, DeliveryOK
  <2>2. worker.attempt \in Nat /\ received[taken] \in Nat
    BY <2>1, NotifierAssumption DEF SenderOK, Sender, DeliveryOK
  <2>. QED
    BY <1>1, <2>1, <2>2 DEF DeliveryOK
<1>. QED
  BY <1>1, <1>2, <1>3

(* SendTest and Close leave the queue and the worker alone.                *)
LEMMA TestKeeps ==
    ASSUME ProcessOK, TestStep \/ CloseStep
    PROVE  ProcessOK' /\ UNCHANGED <<settings, notices, delivery, lost>>
<1>1. CASE BeginTest
  BY <1>1, FirstOK DEF BeginTest, ProcessOK, process
<1>2. CASE TestSent
  BY <1>2, RestingOK, FailureOK DEF TestSent, ProcessOK, process
<1>3. CASE TestWait
  BY <1>3, WaitedOK DEF TestWait, ProcessOK, process
<1>4. CASE CloseStep
  BY <1>4 DEF CloseStep, ProcessOK
<1>. QED
  BY <1>1, <1>2, <1>3, <1>4 DEF TestStep

(* A restart loads the file and counts what was queued as lost.            *)
LEMMA RestartKeeps ==
    ASSUME IInv, Restart
    PROVE  IInv' /\ received' = received
<1>1. SettingsOK'
  BY DEF IInv, SettingsOK, Restart, SettingsPersisted
<1>2. QueueOK'
  <2>1. /\ queue' = <<>> /\ queued' = queued /\ taken' = taken /\ lost' = queued
        /\ call' \in [Callers -> {"idle", "offer"}]
    BY DEF Restart
  <2>2. queued \in Nat /\ taken \in 0..queued /\ queued \in 0..MaxNotices
    BY NotifierAssumption DEF IInv, QueueOK
  <2>3. Behind' = queued
    BY <2>1, <2>2 DEF Behind
  <2>. QED
    BY <2>1, <2>2, <2>3, NotifierAssumption DEF QueueOK
<1>3. DeliveryOK'
  BY RestingOK DEF IInv, DeliveryOK, Restart
<1>4. ProcessOK'
  BY RestingOK, NotifierAssumption DEF IInv, ProcessOK, Restart
<1>. QED
  BY <1>1, <1>2, <1>3, <1>4 DEF IInv, Restart
-----------------------------------------------------------------------------
(* The invariant holds of a notifier that was never configured.            *)
LEMMA InitOK == Init => IInv
<1>. SUFFICES ASSUME Init PROVE IInv
  OBVIOUS
<1>1. SettingsOK
  <2>1. None \in Settings
    BY NotifierAssumption DEF None, Settings
  <2>. QED
    BY <2>1 DEF Init, SettingsOK, SettingsPersisted
<1>2. QueueOK
  BY NotifierAssumption DEF Init, QueueOK, Behind
<1>3. DeliveryOK
  BY RestingOK, NotifierAssumption DEF Init, DeliveryOK
<1>4. ProcessOK
  BY RestingOK, NotifierAssumption DEF Init, ProcessOK
<1>. QED
  BY <1>1, <1>2, <1>3, <1>4 DEF IInv

(* Every step keeps the invariant, and adds copies only of the notice      *)
(* taken last.                                                             *)
LEMMA NextKeeps ==
    ASSUME IInv, [Next]_vars
    PROVE  /\ IInv'
           /\ \A i \in Notices : received'[i] > received[i] => i = taken
<1>. USE DEF IInv
<1>0. \A i \in Notices : ~(received[i] > received[i])
  BY NotifierAssumption DEF DeliveryOK
<1>1. CASE UpdateStep
  <2>1. SettingsOK' /\ UNCHANGED <<notices, delivery, test, process>>
    BY <1>1, UpdateKeeps
  <2>2. QueueOK' /\ DeliveryOK' /\ ProcessOK' /\ received' = received
    BY <2>1 DEF notices, delivery, process, QueueOK, Behind, DeliveryOK, ProcessOK
  <2>. QED
    BY <1>0, <2>1, <2>2
<1>2. ASSUME NEW c \in Callers, NotifyStep(c)
      PROVE  IInv' /\ received' = received
  <2>1. QueueOK' /\ UNCHANGED <<settings, delivery, test, process>>
    BY <1>2, NotifyKeeps
  <2>2. SettingsOK' /\ DeliveryOK' /\ ProcessOK' /\ received' = received
    BY <2>1 DEF settings, delivery, process, SettingsOK, SettingsPersisted, DeliveryOK, ProcessOK
  <2>. QED
    BY <2>1, <2>2
<1>3. CASE Take
  <2>1. QueueOK' /\ DeliveryOK' /\ received' = received
    BY <1>3, TakeKeeps
  <2>2. SettingsOK' /\ ProcessOK'
    BY <1>3 DEF Take, settings, process, SettingsOK, SettingsPersisted, ProcessOK
  <2>. QED
    BY <1>0, <2>1, <2>2
<1>4. CASE SendStep
  <2>1. /\ DeliveryOK' /\ taken \in Notices
        /\ UNCHANGED <<settings, notices, taken, test, process>>
        /\ \A i \in Notices : i # taken => received'[i] = received[i]
    BY <1>4, SendKeeps
  <2>2. SettingsOK' /\ QueueOK' /\ ProcessOK'
    BY <2>1 DEF settings, notices, process, SettingsOK, SettingsPersisted, QueueOK, Behind, ProcessOK
  <2>. QED
    BY <1>0, <2>1, <2>2
<1>5. CASE Wait \/ Quit
  <2>1. DeliveryOK' /\ UNCHANGED <<settings, notices, taken, received, test, process>>
    BY <1>5, WaitKeeps
  <2>2. SettingsOK' /\ QueueOK' /\ ProcessOK'
    BY <2>1 DEF settings, notices, process, SettingsOK, SettingsPersisted, QueueOK, Behind, ProcessOK
  <2>. QED
    BY <1>0, <2>1, <2>2
<1>6. CASE TestStep \/ CloseStep
  <2>1. ProcessOK' /\ UNCHANGED <<settings, notices, delivery, lost>>
    BY <1>6, TestKeeps
  <2>2. SettingsOK' /\ QueueOK' /\ DeliveryOK' /\ received' = received
    BY <2>1 DEF settings, notices, delivery, SettingsOK, SettingsPersisted, QueueOK, Behind, DeliveryOK
  <2>. QED
    BY <1>0, <2>1, <2>2
<1>7. CASE Restart
  BY <1>0, <1>7, RestartKeeps
<1>8. CASE UNCHANGED vars
  <2>1. UNCHANGED <<settings, notices, delivery, test, process>>
    BY <1>8 DEF vars
  <2>2. SettingsOK' /\ QueueOK'
    BY <2>1 DEF settings, notices, delivery, process, SettingsOK, SettingsPersisted, QueueOK, Behind
  <2>3. DeliveryOK' /\ ProcessOK' /\ received' = received
    BY <2>1 DEF delivery, process, DeliveryOK, ProcessOK
  <2>. QED
    BY <1>0, <2>2, <2>3
<1>. QED
  BY <1>0, <1>1, <1>2, <1>3, <1>4, <1>5, <1>6, <1>7, <1>8 DEF Next

(* The inductive invariant the theorems rest on.                           *)
THEOREM Invariance == Spec => []IInv
<1>1. IInv /\ [Next]_vars => IInv'
  BY NextKeeps
<1>. QED
  BY InitOK, <1>1, PTL DEF Spec

(* TypeOK of Notifier: the queue holds what was queued and not taken, in   *)
(* order and within its size.                                              *)
THEOREM TypeCorrect == Spec => []TypeOK
<1>1. IInv => TypeOK
  BY DEF IInv, SettingsOK, QueueOK, Behind, DeliveryOK, ProcessOK, SenderOK, TypeOK
<1>. QED
  BY Invariance, <1>1, PTL

(* Between Updates the settings in memory are those in the file, but for   *)
(* refused ones: SettingsPersisted, for Update and load.                   *)
THEOREM SettingsSurvive == Spec => []SettingsPersisted
<1>1. IInv => SettingsPersisted
  BY DEF IInv, SettingsOK
<1>. QED
  BY Invariance, <1>1, PTL

(* No notice arrives behind a later one, nor more often than it is tried:  *)
(* DeliveryOrdered, for run, sendWithRetry and Notify.                     *)
THEOREM InOrder == Spec => DeliveryOrdered
<1>1. ASSUME IInv, IInv', [Next]_vars, NEW i \in Notices, received'[i] > received[i]
      PROVE  /\ received'[i] <= MaxAttempts
             /\ \A j \in Notices : j > i => received[j] = 0
  <2>1. i = taken
    BY <1>1, NextKeeps
  <2>. QED
    BY <1>1, <2>1, NotifierAssumption DEF IInv, DeliveryOK
<1>2. IInv /\ IInv' /\ [Next]_vars =>
        [\A i \in Notices : received'[i] > received[i] =>
           /\ received'[i] <= MaxAttempts
           /\ \A j \in Notices : j > i => received[j] = 0]_vars
  BY <1>1
<1>. QED
  BY Invariance, <1>2, PTL DEF Spec, DeliveryOrdered
=============================================================================
