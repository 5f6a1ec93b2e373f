----------------------- MODULE AutomationSchedulerProofs -----------------------
(***************************************************************************)
(* Safety of AutomationScheduler for any accounts, requests, runs and      *)
(* pollers.                                                                *)
(***************************************************************************)
EXTENDS AutomationScheduler, TLAPS

(* A Stop has a poller in hand from taking it out to seeing it end; its    *)
(* stop channel is closed while the Stop waits for it, and only then.      *)
StopsOK ==
    /\ \A c \in Callers : held[c] # NoPoller <=> pc[c] \in {"close", "wait"}
    /\ \A c \in Callers : pc[c] = "wait" => held[c] \in stopped
    /\ \A g \in stopped : \E c \in Callers : pc[c] = "wait" /\ held[c] = g
    /\ current # NoPoller => \A c \in Callers : held[c] # current

(* Nobody is about to stop the poller while there are enabled rules, and   *)
(* where there is none for them, a Start is on its way.                    *)
PolledOK ==
    ~raced /\ ~closed =>
      /\ enabled # {} => \A c \in Callers : pc[c] # "swap"
      /\ enabled # {} /\ current = NoPoller => \E c \in Callers : pc[c] \in {"read", "ensure"}

IInv == TypeOK /\ StopsOK /\ OnePoller /\ PolledOK

USE SchedulerAssumption

Labels == {"idle", "run", "read", "ensure", "swap", "close", "wait"}
Stopping == {"close", "wait"}

(* A caller goes on to another label. *)
LEMMA GotoOK ==
    ASSUME TypeOK, NEW c \in Callers, NEW label \in Labels, Goto(c, label)
    PROVE  /\ pc' \in [Callers -> Labels] /\ pc'[c] = label
           /\ \A d \in Callers : d # c => pc'[d] = pc[d]
BY DEF TypeOK, Goto, Labels

(* What concerns pollers and those who stop them is untouched by the steps *)
(* that start, stop and hold none.                                         *)
LEMMA PollersKept ==
    ASSUME StopsOK, OnePoller, UNCHANGED <<current, stopped, held>>,
           \A g \in Pollers : Alive(g)' <=> Alive(g),
           current \in Pollers \cup {NoPoller},
           \A c \in Callers : \/ pc'[c] = pc[c]
                              \/ pc[c] \notin Stopping /\ pc'[c] \notin Stopping
    PROVE  StopsOK' /\ OnePoller'
<1>. USE DEF Stopping
<1>1. \A c \in Callers : pc'[c] \in Stopping \/ pc[c] \in Stopping => pc'[c] = pc[c]
  OBVIOUS
<1>2. StopsOK'
  BY <1>1 DEF StopsOK
<1>3. \A c \in Callers : pc'[c] = "close" => held'[c] \notin stopped'
  BY <1>1 DEF OnePoller
<1>4. /\ \A c, d \in Callers : held'[c] = held'[d] /\ held'[c] # NoPoller => c = d
      /\ current' # NoPoller => Alive(current)' /\ current' \notin stopped'
      /\ \A g \in Pollers : Alive(g)' /\ g # current' => \E c \in Callers : held'[c] = g
  BY DEF OnePoller
<1>. QED
  BY <1>2, <1>3, <1>4 DEF OnePoller
-----------------------------------------------------------------------------
(* Start and Stop.                                                         *)

(* Start reads the list: what it will do agrees with it. *)
LEMMA ReadListKeeps ==
    ASSUME IInv, NEW c \in Callers, ReadList(c)
    PROVE  IInv'
<1>1. /\ pc[c] = "read" /\ Goto(c, IF enabled = {} THEN "swap" ELSE "ensure")
      /\ UNCHANGED <<rules, current, loop, stopped, held, target, closed, raced>>
  BY DEF ReadList
<1>2. /\ pc' \in [Callers -> Labels] /\ pc'[c] = IF enabled = {} THEN "swap" ELSE "ensure"
      /\ \A d \in Callers : d # c => pc'[d] = pc[d]
  BY <1>1, GotoOK DEF IInv, Labels
<1>3. TypeOK'
  BY <1>1, <1>2 DEF IInv, TypeOK, Labels, rules, loop
<1>4. StopsOK' /\ OnePoller'
  <2>1. \A g \in Pollers : Alive(g)' <=> Alive(g)
    BY <1>1 DEF Alive, loop
  <2>. QED
    BY <1>1, <1>2, <2>1, PollersKept DEF IInv, TypeOK, Stopping
<1>5. PolledOK'
  BY <1>1, <1>2 DEF IInv, PolledOK, rules
<1>. QED
  BY <1>3, <1>4, <1>5 DEF IInv

(* Start ends: there is a poller then, and a new one is nobody's to stop.  *)
LEMMA EnsureKeeps ==
    ASSUME IInv, NEW c \in Callers, Ensure(c)
    PROVE  IInv' /\ current' # NoPoller
<1>1. /\ pc[c] = "ensure" /\ Goto(c, "idle")
      /\ UNCHANGED <<rules, queue, stopped, held, target, closed, raced>>
  BY DEF Ensure
<1>2. /\ pc' \in [Callers -> Labels] /\ pc'[c] = "idle"
      /\ \A d \in Callers : d # c => pc'[d] = pc[d]
  BY <1>1, GotoOK DEF IInv, Labels
<1>3. current' # NoPoller => PolledOK'
  <2>1. \A d \in Callers : pc'[d] = "swap" => pc[d] = "swap"
    BY <1>2
  <2>. QED
    BY <1>1, <2>1 DEF IInv, PolledOK, rules
<1>4. CASE current # NoPoller
  <2>1. UNCHANGED <<current, poller>>
    BY <1>4 DEF Ensure
  <2>2. TypeOK'
    BY <1>1, <1>2, <2>1 DEF IInv, TypeOK, Labels, rules
  <2>3. StopsOK' /\ OnePoller'
    <3>1. \A g \in Pollers : Alive(g)' <=> Alive(g)
      BY <2>1 DEF Alive
    <3>. QED
      BY <1>1, <1>2, <2>1, <3>1, PollersKept DEF IInv, TypeOK, Stopping
  <2>. QED
    BY <1>3, <1>4, <2>1, <2>2, <2>3 DEF IInv
<1>5. CASE current = NoPoller
  <2>1. PICK g \in Pollers : /\ ~Alive(g) /\ \A d \in Callers : held[d] # g
                             /\ current' = g
                             /\ poller' = [poller EXCEPT ![g] = "select"]
    BY <1>5 DEF Ensure
  <2>2. TypeOK'
    BY <1>1, <1>2, <2>1 DEF IInv, TypeOK, Labels, rules
  <2>3. g \notin stopped
    BY <2>1 DEF IInv, StopsOK
  <2>4. Alive(g)' /\ \A h \in Pollers : h # g => (Alive(h)' <=> Alive(h))
    BY <2>1 DEF IInv, TypeOK, Alive
  <2>5. \A d \in Callers : pc'[d] \in Stopping \/ pc[d] \in Stopping => pc'[d] = pc[d]
    BY <1>1, <1>2 DEF Stopping
  <2>6. StopsOK'
    BY <1>1, <2>1, <2>5 DEF IInv, StopsOK, Stopping
  <2>7. OnePoller'
    <3>1. /\ \A d \in Callers : pc'[d] = "close" => held'[d] \notin stopped'
          /\ \A d, e \in Callers : held'[d] = held'[e] /\ held'[d] # NoPoller => d = e
      BY <1>1, <2>5 DEF IInv, OnePoller, Stopping
    <3>2. current' # NoPoller => Alive(current)' /\ current' \notin stopped'
      BY <1>1, <2>1, <2>3, <2>4 DEF Alive
    <3>3. \A h \in Pollers : Alive(h)' /\ h # current' => \E d \in Callers : held'[d] = h
      BY <1>1, <1>5, <2>1, <2>4 DEF IInv, OnePoller
    <3>. QED
      BY <3>1, <3>2, <3>3 DEF OnePoller
  <2>. QED
    BY <1>3, <2>1, <2>2, <2>6, <2>7 DEF IInv
<1>. QED
  BY <1>4, <1>5

(* Stop takes the poller out, if there is one.                             *)
LEMMA SwapHolds ==
    ASSUME IInv, NEW c \in Callers, Swap(c)
    PROVE  IInv'
<1>1. /\ pc[c] = "swap"
      /\ UNCHANGED <<rules, loop, stopped, target, closed, raced>>
  BY DEF Swap
<1>2. PolledOK'
  <2>1. ~raced /\ ~closed => enabled = {}
    BY <1>1 DEF IInv, PolledOK
  <2>. QED
    BY <1>1, <2>1 DEF PolledOK, rules
<1>3. \A g \in Pollers : Alive(g)' <=> Alive(g)
  BY <1>1 DEF Alive, loop
<1>4. CASE current = NoPoller
  <2>1. /\ pc' \in [Callers -> Labels] /\ pc'[c] = "idle"
        /\ \A d \in Callers : d # c => pc'[d] = pc[d]
        /\ UNCHANGED <<held, current>>
    BY <1>4, GotoOK DEF Swap, IInv, Labels
  <2>2. TypeOK'
    BY <1>1, <2>1 DEF IInv, TypeOK, Labels, rules, loop
  <2>3. StopsOK' /\ OnePoller'
    BY <1>1, <1>3, <2>1, PollersKept DEF IInv, TypeOK, Stopping
  <2>. QED
    BY <1>2, <2>2, <2>3 DEF IInv
<1>5. CASE current # NoPoller
  <2>1. /\ pc' \in [Callers -> Labels] /\ pc'[c] = "close"
        /\ \A d \in Callers : d # c => pc'[d] = pc[d]
    BY <1>5, GotoOK DEF Swap, IInv, Labels
  <2>2. /\ held' = [held EXCEPT ![c] = current] /\ current' = NoPoller
        /\ current \in Pollers
    BY <1>5 DEF Swap, IInv, TypeOK
  <2>3. TypeOK'
    BY <1>1, <2>1, <2>2 DEF IInv, TypeOK, Labels, rules, loop
  <2>4. held'[c] = current /\ \A d \in Callers : d # c => held'[d] = held[d]
    BY <2>2 DEF IInv, TypeOK
  <2>5. StopsOK'
    <3>1. \A d \in Callers : held'[d] # NoPoller <=> pc'[d] \in {"close", "wait"}
      BY <1>5, <2>1, <2>4 DEF IInv, StopsOK
    <3>2. \A g \in stopped' : \E d \in Callers : pc'[d] = "wait" /\ held'[d] = g
      BY <1>1, <2>1, <2>4 DEF IInv, StopsOK
    <3>3. \A d \in Callers : pc'[d] = "wait" => held'[d] \in stopped'
      BY <1>1, <2>1, <2>4 DEF IInv, StopsOK
    <3>. QED
      BY <2>2, <3>1, <3>2, <3>3 DEF StopsOK
  <2>6. OnePoller'
    <3>1. \A d \in Callers : pc'[d] = "close" => held'[d] \notin stopped'
      BY <1>1, <1>5, <2>1, <2>4 DEF IInv, OnePoller
    <3>2. \A d, e \in Callers : held'[d] = held'[e] /\ held'[d] # NoPoller => d = e
      BY <1>5, <2>4 DEF IInv, StopsOK, OnePoller
    <3>3. \A h \in Pollers : Alive(h)' /\ h # current' => \E d \in Callers : held'[d] = h
      <4>1. ASSUME NEW h \in Pollers, Alive(h), h # current PROVE \E d \in Callers : held'[d] = h
        <5>1. PICK d \in Callers : held[d] = h
          BY <4>1 DEF IInv, OnePoller
        <5>2. d # c
          BY <1>1, <5>1 DEF IInv, StopsOK
        <5>. QED
          BY <2>4, <5>1, <5>2
      <4>. QED
        BY <1>3, <2>4, <4>1
    <3>. QED
      BY <2>2, <3>1, <3>2, <3>3 DEF OnePoller
  <2>. QED
    BY <1>2, <2>3, <2>5, <2>6 DEF IInv
<1>. QED
  BY <1>4, <1>5

(* Stop closes the channel of the poller it has in hand, for the first time. *)
LEMMA CloseStopKeeps ==
    ASSUME IInv, NEW c \in Callers, CloseStop(c)
    PROVE  IInv'
<1>1. /\ pc[c] = "close" /\ stopped' = stopped \cup {held[c]}
      /\ UNCHANGED <<rules, current, loop, held, target, closed, raced>>
  BY DEF CloseStop
<1>2. /\ pc' \in [Callers -> Labels] /\ pc'[c] = "wait"
      /\ \A d \in Callers : d # c => pc'[d] = pc[d]
  BY GotoOK DEF CloseStop, IInv, Labels
<1>3. held[c] \in Pollers /\ held[c] # NoPoller
  BY <1>1 DEF IInv, TypeOK, StopsOK
<1>4. TypeOK'
  BY <1>1, <1>2, <1>3 DEF IInv, TypeOK, Labels, rules, loop
<1>5. StopsOK'
  <2>1. \A d \in Callers : held'[d] # NoPoller <=> pc'[d] \in {"close", "wait"}
    BY <1>1, <1>2 DEF IInv, StopsOK
  <2>2. \A g \in stopped' : \E d \in Callers : pc'[d] = "wait" /\ held'[d] = g
    BY <1>1, <1>2 DEF IInv, StopsOK
  <2>3. \A d \in Callers : pc'[d] = "wait" => held'[d] \in stopped'
    BY <1>1, <1>2 DEF IInv, StopsOK
  <2>. QED
    BY <1>1, <2>1, <2>2, <2>3 DEF IInv, StopsOK
<1>6. OnePoller'
  <2>1. \A d \in Callers : pc'[d] = "close" => held'[d] \notin stopped'
    <3>. SUFFICES ASSUME NEW d \in Callers, pc'[d] = "close" PROVE held'[d] \notin stopped'
      OBVIOUS
    <3>1. d # c /\ pc[d] = "close" /\ held[d] \notin stopped /\ held'[d] = held[d]
      BY <1>1, <1>2 DEF IInv, OnePoller
    <3>2. held[d] # held[c]
      BY <1>3, <3>1 DEF IInv, OnePoller
    <3>. QED
      BY <1>1, <3>1, <3>2
  <2>2. current' # NoPoller => Alive(current)' /\ current' \notin stopped'
    BY <1>1 DEF IInv, StopsOK, OnePoller, Alive, loop
  <2>3. \A h \in Pollers : Alive(h)' /\ h # current' => \E d \in Callers : held'[d] = h
    BY <1>1 DEF IInv, OnePoller, Alive, loop
  <2>. QED
    BY <1>1, <2>1, <2>2, <2>3 DEF IInv, OnePoller
<1>7. PolledOK'
  <2>1. \A d \in Callers : pc'[d] \in {"swap", "read", "ensure"} \/ pc[d] \in {"swap", "read", "ensure"}
                             => pc'[d] = pc[d]
    BY <1>1, <1>2
  <2>. QED
    BY <1>1, <2>1 DEF IInv, PolledOK, rules
<1>. QED
  BY <1>4, <1>5, <1>6, <1>7 DEF IInv

(* Stop returns when its poller is gone. *)
LEMMA WaitDoneKeeps ==
    ASSUME IInv, NEW c \in Callers, WaitDone(c)
    PROVE  IInv'
<1>1. /\ pc[c] = "wait" /\ ~Alive(held[c])
      /\ held' = [held EXCEPT ![c] = NoPoller] /\ stopped' = stopped \ {held[c]}
      /\ UNCHANGED <<rules, current, loop, target, closed, raced>>
  BY DEF WaitDone
<1>2. /\ pc' \in [Callers -> Labels] /\ pc'[c] = "idle"
      /\ \A d \in Callers : d # c => pc'[d] = pc[d]
  BY GotoOK DEF WaitDone, IInv, Labels
<1>3. /\ held[c] # NoPoller /\ held'[c] = NoPoller
      /\ \A d \in Callers : d # c => held'[d] = held[d] /\ held[d] # held[c]
  BY <1>1 DEF IInv, TypeOK, StopsOK, OnePoller
<1>4. TypeOK'
  BY <1>1, <1>2 DEF IInv, TypeOK, Labels, rules, loop
<1>5. StopsOK'
  <2>1. \A d \in Callers : held'[d] # NoPoller <=> pc'[d] \in {"close", "wait"}
    BY <1>2, <1>3 DEF IInv, StopsOK
  <2>2. \A g \in stopped' : \E d \in Callers : pc'[d] = "wait" /\ held'[d] = g
    BY <1>1, <1>2, <1>3 DEF IInv, StopsOK
  <2>3. current' # NoPoller => \A d \in Callers : held'[d] # current'
    BY <1>1, <1>3 DEF IInv, StopsOK
  <2>4. \A d \in Callers : pc'[d] = "wait" => held'[d] \in stopped'
    BY <1>1, <1>2, <1>3 DEF IInv, StopsOK
  <2>. QED
    BY <2>1, <2>2, <2>3, <2>4 DEF StopsOK
<1>6. OnePoller'
  <2>1. \A d \in Callers : pc'[d] = "close" => held'[d] \notin stopped'
    BY <1>1, <1>2, <1>3 DEF IInv, OnePoller
  <2>2. \A d, e \in Callers : held'[d] = held'[e] /\ held'[d] # NoPoller => d = e
    BY <1>3 DEF IInv, OnePoller
  <2>3. current' # NoPoller => Alive(current)' /\ current' \notin stopped'
    BY <1>1 DEF IInv, OnePoller, Alive, loop
  <2>4. \A h \in Pollers : Alive(h)' /\ h # current' => \E d \in Callers : held'[d] = h
    BY <1>1, <1>3 DEF IInv, OnePoller, Alive, loop
  <2>. QED
    BY <2>1, <2>2, <2>3, <2>4 DEF OnePoller
<1>7. PolledOK'
  <2>1. \A d \in Callers : pc'[d] \in {"swap", "read", "ensure"} \/ pc[d] \in {"swap", "read", "ensure"}
                             => pc'[d] = pc[d]
    BY <1>1, <1>2
  <2>. QED
    BY <1>1, <2>1 DEF IInv, PolledOK, rules
<1>. QED
  BY <1>4, <1>5, <1>6, <1>7 DEF IInv
-----------------------------------------------------------------------------
(* The poller and the runs.                                                *)

(* A poller polls, or goes back to wait for the ticker: it stays alive.    *)
LEMMA PollKeeps ==
    ASSUME IInv, NEW g \in Pollers, Poll(g) \/ PollDone(g)
    PROVE  IInv'
<1>1. /\ UNCHANGED <<rules, current, stopped, pc, held, target, closed, raced>>
      /\ poller[g] \in {"select", "polling"}
      /\ \E s \in {"select", "polling"} : poller' = [poller EXCEPT ![g] = s]
      /\ queue' = queue \/ queue' = [queue EXCEPT ![g] = enabled \cap due]
  BY DEF Poll, PollDone
<1>2. TypeOK'
  BY <1>1 DEF IInv, TypeOK, rules
<1>3. \A h \in Pollers : Alive(h)' <=> Alive(h)
  BY <1>1 DEF IInv, TypeOK, Alive
<1>4. StopsOK' /\ OnePoller'
  BY <1>1, <1>3, PollersKept DEF IInv, TypeOK
<1>5. PolledOK'
  BY <1>1 DEF IInv, PolledOK, rules
<1>. QED
  BY <1>2, <1>4, <1>5 DEF IInv

(* A poller ends only when its channel is closed: it is not the current one. *)
LEMMA QuitKeeps ==
    ASSUME IInv, NEW g \in Pollers, Quit(g)
    PROVE  IInv'
<1>1. /\ UNCHANGED <<rules, current, queue, stopped, pc, held, target, closed, raced>>
      /\ g \in stopped /\ poller' = [poller EXCEPT ![g] = "gone"]
  BY DEF Quit
<1>2. TypeOK'
  BY <1>1 DEF IInv, TypeOK, rules
<1>3. \A h \in Pollers : /\ Alive(h)' => Alive(h)
                         /\ h # g /\ Alive(h) => Alive(h)'
  BY <1>1 DEF IInv, TypeOK, Alive
<1>4. StopsOK'
  BY <1>1 DEF IInv, StopsOK
<1>5. OnePoller'
  <2>1. current' # NoPoller => Alive(current)' /\ current' \notin stopped'
    BY <1>1, <1>3 DEF IInv, TypeOK, OnePoller
  <2>2. \A h \in Pollers : Alive(h)' /\ h # current' => \E d \in Callers : held'[d] = h
    BY <1>1, <1>3 DEF IInv, OnePoller
  <2>. QED
    BY <1>1, <2>1, <2>2 DEF IInv, OnePoller
<1>6. PolledOK'
  BY <1>1 DEF IInv, PolledOK, rules
<1>. QED
  BY <1>2, <1>4, <1>5, <1>6 DEF IInv

(* RunDue spawns a run or puts a rule off.                                 *)
LEMMA DispatchKeeps ==
    ASSUME IInv, NEW g \in Pollers, NEW a \in Accounts, Dispatch(g, a)
    PROVE  IInv'
<1>1. /\ UNCHANGED <<enabled, current, poller, stopped, held, closed, raced>>
      /\ queue' = [queue EXCEPT ![g] = @ \ {a}] /\ due' \in {due, due \ {a}}
  BY DEF Dispatch
<1>2. \/ UNCHANGED <<pc, target>>
      \/ \E r \in Runs : pc[r] = "idle" /\ Goto(r, "run") /\ target' = [target EXCEPT ![r] = a]
  BY DEF Dispatch
<1>3. /\ pc' \in [Callers -> Labels] /\ target' \in [Runs -> Accounts \cup {NoAccount}]
      /\ \A c \in Callers : pc'[c] = pc[c] \/ (pc[c] = "idle" /\ pc'[c] = "run")
  <2>1. CASE UNCHANGED <<pc, target>>
    BY <2>1 DEF IInv, TypeOK, Labels
  <2>2. CASE \E r \in Runs : pc[r] = "idle" /\ Goto(r, "run") /\ target' = [target EXCEPT ![r] = a]
    <3>1. PICK r \in Runs : pc[r] = "idle" /\ Goto(r, "run") /\ target' = [target EXCEPT ![r] = a]
      BY <2>2
    <3>2. target' \in [Runs -> Accounts \cup {NoAccount}]
      BY <3>1 DEF IInv, TypeOK
    <3>3. r \in Callers
      BY DEF Callers
    <3>. QED
      BY <3>1, <3>2, <3>3, GotoOK DEF IInv, Labels
  <2>. QED
    BY <1>2, <2>1, <2>2
<1>4. TypeOK'
  BY <1>1, <1>3 DEF IInv, TypeOK, Labels
<1>5. StopsOK' /\ OnePoller'
  <2>1. \A h \in Pollers : Alive(h)' <=> Alive(h)
    BY <1>1 DEF Alive
  <2>. QED
    BY <1>1, <1>3, <2>1, PollersKept DEF IInv, TypeOK, Stopping
<1>6. PolledOK'
  BY <1>1, <1>3 DEF IInv, PolledOK
<1>. QED
  BY <1>4, <1>5, <1>6 DEF IInv

(* A run begins, or ends and leaves its rule as it is or switches it off,  *)
(* and calls Start or does not; a Start that acts on an older list is      *)
(* overtaken then.                                                         *)
RunStep(r) == RunUnsaved(r) \/ \E a \in Accounts : RunEnds(r, a) \/ RunNow(r, a)

LEMMA RunKeeps ==
    ASSUME IInv, NEW r \in Runs, RunStep(r)
    PROVE  IInv'
<1>1. /\ UNCHANGED <<current, loop, stopped, held, closed>>
      /\ target' \in [Runs -> Accounts \cup {NoAccount}]
      /\ due' \in SUBSET Accounts /\ pc[r] \in {"idle", "run"} /\ r \in Callers
  BY DEF RunStep, RunUnsaved, RunEnds, RunNow, Settle, rules, IInv, TypeOK, Callers
<1>2. /\ Goto(r, "idle") \/ Goto(r, "read") \/ Goto(r, "run")
      /\ \/ UNCHANGED <<enabled, raced>>
         \/ raced' = (raced \/ Overtakes) /\ \E a \in Accounts : enabled' = enabled \ {a}
  BY DEF RunStep, RunUnsaved, RunEnds, RunNow, Settle, rules
<1>3. pc' \in [Callers -> Labels] /\ \A d \in Callers : d # r => pc'[d] = pc[d]
  BY <1>1, <1>2, GotoOK DEF IInv, Labels
<1>4. pc'[r] \in {"idle", "read", "run"}
  BY <1>1, <1>2, GotoOK DEF IInv, Labels
<1>5. raced' \in BOOLEAN
  BY <1>2 DEF IInv, TypeOK
<1>6. TypeOK'
  BY <1>1, <1>2, <1>3, <1>5 DEF IInv, TypeOK, Labels, loop
<1>7. StopsOK' /\ OnePoller'
  <2>1. \A h \in Pollers : Alive(h)' <=> Alive(h)
    BY <1>1 DEF Alive, loop
  <2>. QED
    BY <1>1, <1>3, <1>4, <2>1, PollersKept DEF IInv, TypeOK, Stopping
<1>8. PolledOK'
  <2>. SUFFICES ASSUME ~raced', ~closed', enabled' # {}
                PROVE  /\ \A c \in Callers : pc'[c] # "swap"
                       /\ current' = NoPoller => \E c \in Callers : pc'[c] \in {"read", "ensure"}
    BY DEF PolledOK
  <2>1. ~raced /\ ~closed /\ enabled # {}
    <3>1. ~raced
      BY <1>2
    <3>2. ~closed /\ enabled # {}
      BY <1>1, <1>2
    <3>. QED
      BY <3>1, <3>2
  <2>2. \A c \in Callers : pc[c] # "swap"
    BY <2>1 DEF IInv, PolledOK
  <2>3. current = NoPoller => \E c \in Callers : pc[c] \in {"read", "ensure"} /\ c # r
    BY <1>1, <2>1 DEF IInv, PolledOK
  <2>. QED
    BY <1>1, <1>3, <1>4, <2>2, <2>3
<1>. QED
  BY <1>6, <1>7, <1>8 DEF IInv
-----------------------------------------------------------------------------
(* Requests.                                                               *)

(* The rules change, and a Start follows.                                  *)
LEMMA ChangeRulesKeeps ==
    ASSUME IInv, NEW c \in Clients, ChangeRules(c)
    PROVE  IInv'
<1>1. /\ pc[c] = "idle" /\ c \in Callers /\ Goto(c, "read") /\ raced' = (raced \/ Overtakes)
      /\ UNCHANGED <<current, loop, stopped, held, target, closed>>
      /\ enabled' \in SUBSET Accounts /\ due' \in SUBSET Accounts
  BY DEF ChangeRules, IInv, TypeOK, Callers
<1>2. /\ pc' \in [Callers -> Labels] /\ pc'[c] = "read"
      /\ \A d \in Callers : d # c => pc'[d] = pc[d]
  BY <1>1, GotoOK DEF IInv, Labels
<1>3. raced' \in BOOLEAN
  BY <1>1 DEF IInv, TypeOK
<1>4. TypeOK'
  BY <1>1, <1>2, <1>3 DEF IInv, TypeOK, Labels, loop
<1>5. StopsOK' /\ OnePoller'
  <2>1. \A h \in Pollers : Alive(h)' <=> Alive(h)
    BY <1>1 DEF Alive, loop
  <2>. QED
    BY <1>1, <1>2, <2>1, PollersKept DEF IInv, TypeOK, Stopping
<1>6. PolledOK'
  <2>1. ~raced' => \A d \in Callers : pc[d] # "swap"
    BY <1>1 DEF Overtakes, Acting
  <2>. QED
    BY <1>2, <2>1, <1>1 DEF PolledOK
<1>. QED
  BY <1>4, <1>5, <1>6 DEF IInv

(* The server closes. *)
LEMMA CloseKeeps ==
    ASSUME IInv, NEW c \in Clients, Close(c)
    PROVE  IInv'
<1>1. /\ pc[c] = "idle" /\ c \in Callers /\ Goto(c, "swap") /\ closed' = TRUE
      /\ UNCHANGED <<rules, current, loop, stopped, held, target, raced>>
  BY DEF Close, Callers
<1>2. /\ pc' \in [Callers -> Labels] /\ pc'[c] = "swap"
      /\ \A d \in Callers : d # c => pc'[d] = pc[d]
  BY <1>1, GotoOK DEF IInv, Labels
<1>3. TypeOK'
  BY <1>1, <1>2 DEF IInv, TypeOK, Labels, loop, rules
<1>4. StopsOK' /\ OnePoller'
  <2>1. \A h \in Pollers : Alive(h)' <=> Alive(h)
    BY <1>1 DEF Alive, loop
  <2>. QED
    BY <1>1, <1>2, <2>1, PollersKept DEF IInv, TypeOK, Stopping
<1>5. PolledOK'
  BY <1>1 DEF PolledOK
<1>. QED
  BY <1>3, <1>4, <1>5 DEF IInv

(* An account goes, with its rule, or a rule becomes due.                  *)
LEMMA AccountKeeps ==
    ASSUME IInv, NEW a \in Accounts, RemoveAccount(a) \/ BecomesDue(a)
    PROVE  IInv'
<1>1. /\ UNCHANGED <<current, loop, stopped, pc, held, target, closed>>
      /\ due' \in SUBSET Accounts
      /\ \/ enabled' = enabled \ {a} /\ raced' = (raced \/ Overtakes)
         \/ UNCHANGED <<enabled, raced>>
  BY DEF RemoveAccount, BecomesDue, IInv, TypeOK
<1>2. raced' \in BOOLEAN /\ (~raced' => ~raced) /\ (enabled' # {} => enabled # {})
  <2>1. raced' \in BOOLEAN
    BY <1>1 DEF IInv, TypeOK
  <2>2. ~raced' => ~raced
    BY <1>1
  <2>3. enabled' # {} => enabled # {}
    BY <1>1
  <2>. QED
    BY <2>1, <2>2, <2>3
<1>3. TypeOK'
  BY <1>1, <1>2 DEF IInv, TypeOK, loop
<1>4. StopsOK' /\ OnePoller'
  <2>1. \A h \in Pollers : Alive(h)' <=> Alive(h)
    BY <1>1 DEF Alive, loop
  <2>. QED
    BY <1>1, <2>1, PollersKept DEF IInv, TypeOK
<1>5. PolledOK'
  BY <1>1, <1>2 DEF IInv, PolledOK
<1>. QED
  BY <1>3, <1>4, <1>5 DEF IInv
-----------------------------------------------------------------------------
(* The theorems.                                                           *)

(* What newServer leaves behind.                                           *)
LEMMA InitOK == Init => IInv
<1>. SUFFICES ASSUME Init PROVE IInv
  OBVIOUS
<1>1. \A c \in Callers : pc[c] = "idle" /\ held[c] = NoPoller
  BY DEF Init
<1>2. CASE enabled = {}
  <2>1. current = NoPoller /\ poller = [g \in Pollers |-> "gone"]
    BY <1>2 DEF Init
  <2>2. TypeOK
    BY <2>1 DEF Init, TypeOK
  <2>3. StopsOK /\ OnePoller
    BY <1>1, <2>1 DEF Init, StopsOK, OnePoller, Alive
  <2>. QED
    BY <1>2, <2>2, <2>3 DEF IInv, PolledOK
<1>3. CASE enabled # {}
  <2>1. PICK g \in Pollers : /\ current = g
                             /\ poller = [h \in Pollers |-> IF h = g THEN "select" ELSE "gone"]
    BY <1>3 DEF Init
  <2>2. TypeOK
    BY <2>1 DEF Init, TypeOK
  <2>3. Alive(g) /\ \A h \in Pollers : h # g => ~Alive(h)
    BY <2>1 DEF Alive
  <2>4. StopsOK /\ OnePoller
    BY <1>1, <2>1, <2>3 DEF Init, StopsOK, OnePoller
  <2>5. PolledOK
    BY <1>1, <2>1 DEF PolledOK
  <2>. QED
    BY <2>2, <2>4, <2>5 DEF IInv
<1>. QED
  BY <1>2, <1>3

(* The inductive invariant.                                                *)
THEOREM Invariance == Spec => []IInv
<1>1. ASSUME IInv, [Next]_vars PROVE IInv'
  <2>1. ASSUME NEW c \in Callers, StartStep(c) PROVE IInv'
    BY <1>1, <2>1, ReadListKeeps, EnsureKeeps, SwapHolds, CloseStopKeeps, WaitDoneKeeps DEF StartStep
  <2>2. ASSUME NEW g \in Pollers, Poll(g) \/ PollDone(g) \/ Quit(g) PROVE IInv'
    BY <1>1, <2>2, PollKeeps, QuitKeeps
  <2>3. ASSUME NEW g \in Pollers, NEW a \in Accounts, Dispatch(g, a) PROVE IInv'
    BY <1>1, <2>3, DispatchKeeps
  <2>4. ASSUME NEW r \in Runs, RunStep(r) PROVE IInv'
    BY <1>1, <2>4, RunKeeps
  <2>5. ASSUME NEW c \in Clients, ChangeRules(c) \/ Close(c) PROVE IInv'
    BY <1>1, <2>5, ChangeRulesKeeps, CloseKeeps
  <2>6. ASSUME NEW a \in Accounts, RemoveAccount(a) \/ BecomesDue(a) PROVE IInv'
    BY <1>1, <2>6, AccountKeeps
  <2>7. CASE UNCHANGED vars
    BY <1>1, <2>7 DEF vars, IInv, TypeOK, StopsOK, OnePoller, PolledOK, Alive
  <2>. QED
    BY <1>1, <2>1, <2>2, <2>3, <2>4, <2>5, <2>6, <2>7 DEF Next, RunStep
<1>. QED
  BY InitOK, <1>1, PTL DEF Spec

(* Every variable keeps its type: a Stop never has the channels of no      *)
(* poller in hand.                                                         *)
THEOREM TypeCorrect == Spec => []TypeOK
<1>1. IInv => TypeOK
  BY DEF IInv
<1>. QED
  BY Invariance, <1>1, PTL

(* However many Starts and Stops overlap, no stop channel is closed twice, *)
(* the poller the scheduler points to runs on, and every other is in the   *)
(* hands of the one Stop that ends it.                                     *)
THEOREM SinglePoller == Spec => []OnePoller
<1>1. IInv => OnePoller
  BY DEF IInv
<1>. QED
  BY Invariance, <1>1, PTL

(* A Stop waits only for a poller whose channel is closed: the step that   *)
(* ends the poller is always there to be taken once its round is over.     *)
THEOREM WaitedIsStopped == Spec => [](\A c \in Callers : pc[c] = "wait" => held[c] \in stopped)
<1>1. IInv => \A c \in Callers : pc[c] = "wait" => held[c] \in stopped
  BY DEF IInv, StopsOK
<1>. QED
  BY Invariance, <1>1, PTL

(* Without a race, nothing but the enabled rules decides whether there is  *)
(* a poller when no Start is under way.                                    *)
THEOREM Reconciled == Spec => []ReconciledUnlessRaced
<1>1. IInv => ReconciledUnlessRaced
  BY DEF IInv, PolledOK, ReconciledUnlessRaced
<1>. QED
  BY Invariance, <1>1, PTL
=============================================================================
