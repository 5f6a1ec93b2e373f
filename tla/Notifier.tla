------------------------------ MODULE Notifier ------------------------------
(***************************************************************************)
(* One external notifier: the webhook of src/internal/notification/        *)
(* webhook.go or the mail of email.go, which have the same queue, worker,  *)
(* retries, settings and Close.  The server owns one of each; they share   *)
(* nothing.                                                                *)
(*                                                                         *)
(* Settings are numbered in the order in which Updates supply them; 0 is   *)
(* a notifier that was never configured.  A notice is known by its place   *)
(* among all that were ever queued; its text and the settings it is sent   *)
(* with, which are those of the moment it was queued, are left out.        *)
(***************************************************************************)
EXTENDS Naturals, Sequences

CONSTANTS
    Callers,     \* runs and handlers that call Notify
    QueueSize,   \* webhookQueueSize, queueSize
    MaxAttempts, \* webhookMaxAttempts, maxAttempts
    MaxNotices,  \* bound: notices ever queued
    MaxUpdates,  \* bound: Updates that reach the file
    MaxStarts    \* bound: starts of the process

ASSUME NotifierAssumption ==
    /\ QueueSize \in Nat \ {0} /\ MaxAttempts \in Nat \ {0}
    /\ MaxNotices \in Nat /\ MaxUpdates \in Nat /\ MaxStarts \in Nat \ {0}

VARIABLES
    file,     \* the stored settings
    config,   \* the settings in memory
    updating, \* an Update holds the mutex and has replaced the file
    refused,  \* settings an Update was refused with
    queue,    \* the channel: numbers of notices
    queued,   \* notices queued so far
    call,     \* the local state of each Notify
    worker,   \* the local state of run, deliver and sendWithRetry
    taken,    \* the last notice the worker took
    received, \* copies of each notice that reached the other side
    test,     \* the local state of a SendTest
    close,    \* how far Close has come
    lost,     \* notices up to here were queued before the last start
    starts    \* starts so far

settings == <<file, config, updating, refused>>
notices  == <<queue, queued, call>>
delivery == <<worker, taken, received>>
process  == <<close, lost, starts>>
vars == <<settings, notices, delivery, test, process>>

Settings == [version : 0..MaxUpdates, enabled : BOOLEAN]
None     == [version |-> 0, enabled |-> FALSE]
Notices  == 1..MaxNotices
Sender   == [phase : {"idle", "send", "wait", "gone"}, attempt : 0..MaxAttempts]
Resting  == [phase |-> "idle", attempt |-> 0]
First    == [phase |-> "send", attempt |-> 1]

Closed  == close # "open"                    \* n.closed
Stopped == close \in {"stopped", "returned"} \* n.stop is closed

Init ==
    /\ file = None /\ config = None /\ updating = FALSE /\ refused = {}
    /\ queue = <<>> /\ queued = 0
    /\ call = [c \in Callers |-> "idle"]
    /\ worker = Resting /\ taken = 0
    /\ received = [i \in Notices |-> 0]
    /\ test = Resting
    /\ close = "open" /\ lost = 0 /\ starts = 1
-----------------------------------------------------------------------------
(* Update, with the mutex held from its first look to its answer.          *)

(* An Update that is not valid, or fails before the rename, changes        *)
(* nothing.                                                                *)
ReplaceFile(enabled) ==
    /\ ~updating /\ ~Closed
    /\ file.version < MaxUpdates
    /\ file' = [version |-> file.version + 1, enabled |-> enabled]
    /\ updating' = TRUE
    /\ UNCHANGED <<config, refused, notices, delivery, test, process>>

(* Broken variant: the memory keeps the old settings. *)
FinishUpdateForgetting ==
    /\ updating /\ updating' = FALSE
    /\ UNCHANGED <<file, config, refused, notices, delivery, test, process>>

FinishUpdate ==
    /\ updating /\ updating' = FALSE
    /\ config' = file
    /\ UNCHANGED <<file, refused, notices, delivery, test, process>>

(* The rename was done, the permissions cannot be set: the Update is       *)
(* refused and the new file stays.                                         *)
ChmodFails ==
    /\ updating /\ updating' = FALSE
    /\ refused' = refused \cup {file.version}
    /\ UNCHANGED <<file, config, notices, delivery, test, process>>
-----------------------------------------------------------------------------
(* Notify: the settings are looked at under the mutex, the queue after it. *)

Ask(c) ==
    /\ call[c] = "idle"
    /\ ~updating /\ ~Closed /\ config.enabled
    /\ call' = [call EXCEPT ![c] = "offer"]
    /\ UNCHANGED <<settings, queue, queued, delivery, test, process>>

(* Room in the queue and a closed stop channel are both ready: either may  *)
(* be chosen.                                                              *)
Enqueue(c) ==
    /\ call[c] = "offer"
    /\ Len(queue) < QueueSize
    /\ queued < MaxNotices
    /\ queued' = queued + 1
    /\ queue' = Append(queue, queued')
    /\ call' = [call EXCEPT ![c] = "idle"]
    /\ UNCHANGED <<settings, delivery, test, process>>

Drop(c) ==
    /\ call[c] = "offer"
    /\ Len(queue) = QueueSize \/ Stopped \/ queued = MaxNotices
    /\ call' = [call EXCEPT ![c] = "idle"]
    /\ UNCHANGED <<settings, queue, queued, delivery, test, process>>
-----------------------------------------------------------------------------
(* The worker and SendTest.                                                *)

(* The select of run, where a notice and the stop channel may both be      *)
(* ready.                                                                  *)
Take ==
    /\ worker.phase = "idle"
    /\ queue # <<>>
    /\ taken' = Head(queue)
    /\ queue' = Tail(queue)
    /\ worker' = First
    /\ UNCHANGED <<settings, queued, call, received, test, process>>

Quit ==
    /\ worker.phase = "idle"
    /\ Stopped
    /\ worker' = [Resting EXCEPT !.phase = "gone"]
    /\ UNCHANGED <<settings, notices, taken, received, test, process>>

(* Broken variant: one attempt too many. *)
AfterFailureLate(s) ==
    IF s.attempt <= MaxAttempts THEN [s EXCEPT !.phase = "wait"] ELSE Resting

(* Broken variant: it never gives up. *)
AfterFailureAgain(s) == [phase |-> "wait", attempt |-> 1]

(* Broken variant: a failed delivery ends the worker. *)
AfterFailureGone(s) ==
    IF s.attempt < MaxAttempts THEN [s EXCEPT !.phase = "wait"]
                               ELSE [Resting EXCEPT !.phase = "gone"]

AfterFailure(s) ==
    IF s.attempt < MaxAttempts THEN [s EXCEPT !.phase = "wait"] ELSE Resting

(* Broken variant: a notice that failed is queued again behind the others. *)
SendFailsRequeueing(arrived) ==
    /\ worker.phase = "send"
    /\ received' = IF arrived THEN [received EXCEPT ![taken] = @ + 1] ELSE received
    /\ worker' = Resting
    /\ queue' = Append(queue, taken)
    /\ UNCHANGED <<settings, queued, call, taken, test, process>>

SendSucceeds ==
    /\ worker.phase = "send"
    /\ received' = [received EXCEPT ![taken] = @ + 1]
    /\ worker' = Resting
    /\ UNCHANGED <<settings, notices, taken, test, process>>

(* The answer is an error, or lost: then the notice has arrived and is     *)
(* sent again all the same.  The environment is assumed to drop a request  *)
(* that timed out: it has arrived by then, or never does.                  *)
SendFails(arrived) ==
    /\ worker.phase = "send"
    /\ received' = IF arrived THEN [received EXCEPT ![taken] = @ + 1] ELSE received
    /\ worker' = AfterFailure(worker)
    /\ UNCHANGED <<settings, notices, taken, test, process>>

(* The wait before the next attempt ends by its timer or by stop.          *)
Waited(s) ==
    {[phase |-> "send", attempt |-> s.attempt + 1]} \cup (IF Stopped THEN {Resting} ELSE {})

Wait ==
    /\ worker.phase = "wait"
    /\ worker' \in Waited(worker)
    /\ UNCHANGED <<settings, notices, taken, received, test, process>>

(* SendTest sends for itself, with the saved settings, whether they are    *)
(* enabled or not and whether the notifier is closed or not.               *)
BeginTest ==
    /\ test = Resting
    /\ ~updating /\ config # None
    /\ test' = First
    /\ UNCHANGED <<settings, notices, delivery, process>>

TestSent ==
    /\ test.phase = "send"
    /\ test' \in {Resting, AfterFailure(test)}
    /\ UNCHANGED <<settings, notices, delivery, process>>

TestWait ==
    /\ test.phase = "wait"
    /\ test' \in Waited(test)
    /\ UNCHANGED <<settings, notices, delivery, process>>
-----------------------------------------------------------------------------
(* Close, and a restart, which loads the file.                             *)

CloseStep ==
    /\ \/ close = "open" /\ ~updating /\ close' = "closed"
       \/ close = "closed" /\ close' = "stopped"
       \/ close = "stopped" /\ worker.phase = "gone" /\ close' = "returned"
    /\ UNCHANGED <<settings, notices, delivery, test, lost, starts>>

Restart ==
    /\ starts < MaxStarts
    /\ starts' = starts + 1
    /\ config' = file /\ updating' = FALSE
    /\ queue' = <<>> /\ lost' = queued
    /\ call' = [c \in Callers |-> "idle"]
    /\ worker' = Resting /\ test' = Resting
    /\ close' = "open"
    /\ UNCHANGED <<file, refused, queued, taken, received>>

UpdateStep == (\E enabled \in BOOLEAN : ReplaceFile(enabled)) \/ FinishUpdate \/ ChmodFails
NotifyStep(c) == Ask(c) \/ Enqueue(c) \/ Drop(c)
SendStep   == SendSucceeds \/ \E arrived \in BOOLEAN : SendFails(arrived)
TestStep   == BeginTest \/ TestSent \/ TestWait

Next ==
    \/ UpdateStep
    \/ \E c \in Callers : NotifyStep(c)
    \/ Take \/ Quit \/ SendStep \/ Wait
    \/ TestStep
    \/ CloseStep
    \/ Restart

(* Goroutines run on, and of the two channels of the worker's select stop  *)
(* is chosen in the end.  That a Send returns is an assumption of its own: *)
(* the HTTP client has a timeout for it, the SMTP session only for the     *)
(* dial.                                                                   *)
Fairness ==
    /\ WF_vars(FinishUpdate \/ ChmodFails)
    /\ \A c \in Callers : WF_vars(Enqueue(c) \/ Drop(c))
    /\ WF_vars(Take \/ Quit) /\ WF_vars(Wait)
    /\ WF_vars(close # "open" /\ CloseStep)

SendsReturn == WF_vars(SendStep)

Spec == Init /\ [][Next]_vars /\ Fairness
-----------------------------------------------------------------------------
(* Every variable keeps its type and bounds, and the queue holds, in order *)
(* and without gaps, the notices that were queued and not taken.           *)
TypeOK ==
    /\ file \in Settings /\ config \in Settings
    /\ updating \in BOOLEAN /\ refused \subseteq 1..MaxUpdates
    /\ queue \in Seq(Notices) /\ Len(queue) <= QueueSize
    /\ queued \in 0..MaxNotices /\ lost \in 0..queued /\ taken \in 0..queued
    /\ call \in [Callers -> {"idle", "offer"}]
    /\ worker \in Sender /\ test \in Sender
    /\ received \in [Notices -> 0..MaxAttempts]
    /\ close \in {"open", "closed", "stopped", "returned"}
    /\ starts \in 1..MaxStarts
    /\ \A i \in 1..Len(queue) : queue[i] = queued - Len(queue) + i
    /\ Len(queue) = queued - (IF taken > lost THEN taken ELSE lost)

(* A notice never arrives behind a later one, and in no more copies than   *)
(* there are attempts, through failed sends, lost answers, Close and       *)
(* restarts.                                                               *)
DeliveryOrdered ==
    [][\A i \in Notices : received'[i] > received[i] =>
         /\ received'[i] <= MaxAttempts
         /\ \A j \in Notices : j > i => received[j] = 0]_vars

(* Between Updates the settings in use are those a restart would load,     *)
(* unless the last ones in the file were refused for want of permissions.  *)
SettingsPersisted == ~updating => config = file \/ file.version \in refused

(* A notice that was accepted is tried in the end, unless the notifier is  *)
(* closed or the process restarted: no failure of an earlier one, however  *)
(* often, keeps the worker from it.                                        *)
AcceptedAttempted ==
    SendsReturn => \A i \in Notices :
        queued >= i ~> (taken >= i \/ lost >= i \/ Closed)

(* Close returns, whatever is queued, waits to be retried or is offered    *)
(* meanwhile, once the Send under way does.                                *)
CloseReturns == SendsReturn => (close = "closed" ~> close \in {"returned", "open"})
=============================================================================
