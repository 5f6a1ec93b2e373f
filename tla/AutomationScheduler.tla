------------------------- MODULE AutomationScheduler -------------------------
(***************************************************************************)
(* The in-process scheduler of the alias automation: Start, Stop, the      *)
(* poller goroutine and RunDue of src/internal/server/alias_automation.go, *)
(* with the requests of server.go that change the rules and then call      *)
(* Start.  A run itself is one step here; AutomationRun has its detail.    *)
(*                                                                         *)
(* Start is not atomic.  It reads the enabled rules under the manager's    *)
(* lock, then takes the scheduler's own mutex, and a Stop closes the       *)
(* channel of the poller it took out and waits for that poller to end.     *)
(***************************************************************************)
EXTENDS Naturals, FiniteSets

CONSTANTS
    Accounts,
    Clients,   \* requests that change rules; each calls Start when it has
    Runs,      \* goroutines of automation runs
    Pollers    \* identities of poller goroutines, reused once they are gone

NoPoller  == "no poller"
NoAccount == "no account"

ASSUME SchedulerAssumption ==
    /\ Clients \cap Runs = {}
    /\ NoPoller \notin Pollers
    /\ NoAccount \notin Accounts
    /\ IsFiniteSet(Accounts)

Callers == Clients \cup Runs

VARIABLES
    enabled,  \* accounts whose stored rule is enabled and configured
    due,      \* enabled accounts whose next run time has come
    current,  \* s.started, s.stop and s.done: the poller they belong to
    poller,   \* what each poller goroutine is doing
    queue,    \* the accounts a RunDue still has to look at
    stopped,  \* pollers whose stop channel is closed, until the Stop that closed it returns
    pc,       \* what each caller is doing
    held,     \* the poller whose channels a Stop has in hand
    target,   \* the account a run executes
    closed,   \* Server.Close was called
    raced     \* history: a rule changed while a Start acted on an older list

vars == <<enabled, due, current, poller, queue, stopped, pc, held, target, closed, raced>>

rules == <<enabled, due>>
loop  == <<poller, queue>>

(* A caller that has read the list of rules and not yet acted on it. *)
Acting(c) == pc[c] \in {"ensure", "swap"}

Alive(g) == poller[g] \in {"select", "polling"}

(* The state newServer leaves behind: its Start has returned. *)
Init ==
    /\ enabled \in SUBSET Accounts
    /\ due \in SUBSET enabled
    /\ IF enabled = {}
       THEN current = NoPoller /\ poller = [g \in Pollers |-> "gone"]
       ELSE \E g \in Pollers :
               /\ current = g
               /\ poller = [h \in Pollers |-> IF h = g THEN "select" ELSE "gone"]
    /\ queue = [g \in Pollers |-> {}]
    /\ stopped = {}
    /\ pc = [c \in Callers |-> "idle"]
    /\ held = [c \in Callers |-> NoPoller]
    /\ target = [r \in Runs |-> NoAccount]
    /\ closed = FALSE /\ raced = FALSE
-----------------------------------------------------------------------------
(* Start and Stop, as any caller runs them.                                *)

Goto(c, label) == pc' = [pc EXCEPT ![c] = label]

(* Start reads the enabled rules. *)
ReadList(c) ==
    /\ pc[c] = "read"
    /\ Goto(c, IF enabled = {} THEN "swap" ELSE "ensure")
    /\ UNCHANGED <<rules, current, loop, stopped, held, target, closed, raced>>

(* The rest of Start: a poller is started unless there is one. *)
Ensure(c) ==
    /\ pc[c] = "ensure"
    /\ Goto(c, "idle")
    /\ IF current # NoPoller THEN UNCHANGED <<current, poller>>
       ELSE \E g \in Pollers :
               /\ ~Alive(g) /\ \A d \in Callers : held[d] # g
               /\ current' = g
               /\ poller' = [poller EXCEPT ![g] = "select"]
    /\ UNCHANGED <<rules, queue, stopped, held, target, closed, raced>>

(* Broken variant: Stop leaves s.started and the channels in place. *)
SwapKeeps(c) ==
    /\ pc[c] = "swap"
    /\ IF current = NoPoller THEN Goto(c, "idle") /\ UNCHANGED held
       ELSE Goto(c, "close") /\ held' = [held EXCEPT ![c] = current]
    /\ UNCHANGED <<rules, current, loop, stopped, target, closed, raced>>

(* Broken variant: Stop does not ask whether a poller was started. *)
SwapUnguarded(c) ==
    /\ pc[c] = "swap"
    /\ Goto(c, "close")
    /\ held' = [held EXCEPT ![c] = current]
    /\ current' = NoPoller
    /\ UNCHANGED <<rules, loop, stopped, target, closed, raced>>

(* Stop takes the channels out under the mutex ... *)
Swap(c) ==
    /\ pc[c] = "swap"
    /\ IF current = NoPoller THEN Goto(c, "idle") /\ UNCHANGED <<held, current>>
       ELSE /\ Goto(c, "close")
            /\ held' = [held EXCEPT ![c] = current]
            /\ current' = NoPoller
    /\ UNCHANGED <<rules, loop, stopped, target, closed, raced>>

(* ... closes the stop channel ... *)
CloseStop(c) ==
    /\ pc[c] = "close"
    /\ stopped' = stopped \cup {held[c]}
    /\ Goto(c, "wait")
    /\ UNCHANGED <<rules, current, loop, held, target, closed, raced>>

(* ... and waits until the poller has closed its done channel. *)
WaitDone(c) ==
    /\ pc[c] = "wait"
    /\ ~Alive(held[c])
    /\ Goto(c, "idle")
    /\ held' = [held EXCEPT ![c] = NoPoller]
    /\ stopped' = stopped \ {held[c]}
    /\ UNCHANGED <<rules, current, loop, target, closed, raced>>
-----------------------------------------------------------------------------
(* The poller and the runs it spawns.                                      *)

(* The ticker fires and RunDue lists the enabled rules. *)
Poll(g) ==
    /\ poller[g] = "select"
    /\ poller' = [poller EXCEPT ![g] = "polling"]
    /\ queue' = [queue EXCEPT ![g] = enabled \cap due]
    /\ UNCHANGED <<rules, current, stopped, pc, held, target, closed, raced>>

(* RunDue goes on to the next due rule: it spawns a run, or puts a rule    *)
(* whose schedule is closed off to its next permitted time.                *)
Dispatch(g, a) ==
    /\ poller[g] = "polling" /\ a \in queue[g]
    /\ queue' = [queue EXCEPT ![g] = @ \ {a}]
    /\ \/ /\ \E r \in Runs :
                /\ pc[r] = "idle"
                /\ Goto(r, "run")
                /\ target' = [target EXCEPT ![r] = a]
          /\ UNCHANGED due
       \/ due' = due \ {a} /\ UNCHANGED <<pc, target>>
    /\ UNCHANGED <<enabled, current, poller, stopped, held, closed, raced>>

PollDone(g) ==
    /\ poller[g] = "polling" /\ queue[g] = {}
    /\ poller' = [poller EXCEPT ![g] = "select"]
    /\ UNCHANGED <<rules, current, queue, stopped, pc, held, target, closed, raced>>

(* Broken variants of Quit: the poller waits for the runs it spawned; the  *)
(* poller ends by itself. *)
QuitAfterRuns(g) ==
    /\ poller[g] = "select" /\ g \in stopped
    /\ \A r \in Runs : pc[r] = "idle"
    /\ poller' = [poller EXCEPT ![g] = "gone"]
    /\ UNCHANGED <<rules, current, queue, stopped, pc, held, target, closed, raced>>

QuitAnyTime(g) ==
    /\ poller[g] = "select"
    /\ poller' = [poller EXCEPT ![g] = "gone"]
    /\ UNCHANGED <<rules, current, queue, stopped, pc, held, target, closed, raced>>

Quit(g) ==
    /\ poller[g] = "select" /\ g \in stopped
    /\ poller' = [poller EXCEPT ![g] = "gone"]
    /\ UNCHANGED <<rules, current, queue, stopped, pc, held, target, closed, raced>>

(* A rule is switched off while some Start acts on the list it has read.   *)
Overtakes == \E c \in Callers : Acting(c)

(* What a run that ends may do to the rule of a: a rule that is still due  *)
(* may be switched off by a safety limit, any other is left enabled or not.*)
Settle(r, a) ==
    /\ pc[r] = "run" /\ target[r] = a
    /\ target' = [target EXCEPT ![r] = NoAccount]
    /\ due' = due \ {a}
    /\ \/ UNCHANGED <<enabled, raced>>
       \/ /\ a \in enabled \cap due
          /\ enabled' = enabled \ {a}
          /\ raced' = (raced \/ Overtakes)
    /\ UNCHANGED <<current, loop, stopped, held, closed>>

(* Broken variant: a run that finds its rule off calls Stop, not Start.    *)
RunStops(r, a) ==
    /\ Settle(r, a)
    /\ Goto(r, "idle") \/ (a \notin enabled' /\ Goto(r, "swap"))

(* A run ends.  When the rule it has recorded is not enabled, whoever      *)
(* switched it off, the run itself calls Start; it does not when it found  *)
(* nothing to execute or could not save the history.                       *)
RunEnds(r, a) ==
    /\ Settle(r, a)
    /\ Goto(r, "idle") \/ (a \notin enabled' /\ Goto(r, "read"))

(* The result of the run cannot be saved: the rule stays due. *)
RunUnsaved(r) ==
    /\ pc[r] = "run"
    /\ target' = [target EXCEPT ![r] = NoAccount]
    /\ Goto(r, "idle")
    /\ UNCHANGED <<rules, current, loop, stopped, held, closed, raced>>
-----------------------------------------------------------------------------
(* Requests.                                                               *)

(* PUT, pause and resume of a rule, and POST /reload: the stored rules     *)
(* change and Start follows.  A rule that is switched on or off is not due. *)
ChangeRules(c) ==
    /\ pc[c] = "idle" /\ ~closed
    /\ \/ \E a \in Accounts : \/ enabled' = enabled \cup {a} /\ due' = due \ {a}
                              \/ enabled' = enabled \ {a} /\ due' = due \ {a}
       \/ enabled' \in SUBSET Accounts /\ due' \in SUBSET enabled'
    /\ raced' = (raced \/ Overtakes)
    /\ Goto(c, "read")
    /\ UNCHANGED <<current, loop, stopped, held, target, closed>>

(* POST /alias-automation/run: a run of a rule that need not be enabled.   *)
RunNow(r, a) ==
    /\ pc[r] = "idle" /\ ~closed
    /\ target' = [target EXCEPT ![r] = a]
    /\ Goto(r, "run")
    /\ UNCHANGED <<rules, current, loop, stopped, held, closed, raced>>

(* DELETE /accounts/:id takes the rule away and does not call Start.       *)
RemoveAccount(a) ==
    /\ ~closed
    /\ a \in enabled
    /\ enabled' = enabled \ {a}
    /\ due' = due \ {a}
    /\ raced' = (raced \/ Overtakes)
    /\ UNCHANGED <<current, loop, stopped, pc, held, target, closed>>

(* Server.Close stops the scheduler; runs that are in flight go on. *)
Close(c) ==
    /\ pc[c] = "idle" /\ ~closed
    /\ closed' = TRUE
    /\ Goto(c, "swap")
    /\ UNCHANGED <<rules, current, loop, stopped, held, target, raced>>

BecomesDue(a) ==
    /\ a \in enabled \ due
    /\ due' = due \cup {a}
    /\ UNCHANGED <<enabled, current, loop, stopped, pc, held, target, closed, raced>>
-----------------------------------------------------------------------------
StartStep(c) == ReadList(c) \/ Ensure(c) \/ Swap(c) \/ CloseStop(c) \/ WaitDone(c)

Next ==
    \/ \E c \in Callers : StartStep(c)
    \/ \E g \in Pollers : Poll(g) \/ PollDone(g) \/ Quit(g) \/ \E a \in Accounts : Dispatch(g, a)
    \/ \E r \in Runs : RunUnsaved(r) \/ \E a \in Accounts : RunEnds(r, a) \/ RunNow(r, a)
    \/ \E c \in Clients : ChangeRules(c) \/ Close(c)
    \/ \E a \in Accounts : RemoveAccount(a) \/ BecomesDue(a)

(* The Go scheduler runs every goroutine that can run, the ticker fires,   *)
(* select is fair between the ticker and a closed stop channel, and the    *)
(* saves of a rule do not fail for ever.  Requests are never forced.       *)
Fairness ==
    /\ \A c \in Callers : WF_vars(StartStep(c))
    /\ \A g \in Pollers : /\ WF_vars(Poll(g) \/ PollDone(g))
                          /\ SF_vars(Quit(g))
                          /\ \A a \in Accounts : WF_vars(Dispatch(g, a))
    /\ \A r \in Runs, a \in Accounts : SF_vars(RunEnds(r, a))

Spec == Init /\ [][Next]_vars
FairSpec == Spec /\ Fairness
-----------------------------------------------------------------------------
(* Properties.                                                             *)

TypeOK ==
    /\ enabled \in SUBSET Accounts
    /\ due \in SUBSET Accounts
    /\ current \in Pollers \cup {NoPoller}
    /\ poller \in [Pollers -> {"select", "polling", "gone"}]
    /\ queue \in [Pollers -> SUBSET Accounts]
    /\ stopped \in SUBSET Pollers
    /\ pc \in [Callers -> {"idle", "run", "read", "ensure", "swap", "close", "wait"}]
    /\ held \in [Callers -> Pollers \cup {NoPoller}]
    /\ target \in [Runs -> Accounts \cup {NoAccount}]
    /\ closed \in BOOLEAN /\ raced \in BOOLEAN

(* Whatever Starts and Stops overlap: no stop channel is closed twice      *)
(* (which would panic), the poller the scheduler points to runs and has    *)
(* not been told to stop, and any other poller that still runs is in the   *)
(* hands of exactly one Stop, so that it ends and no rule is polled by     *)
(* two pollers for good.                                                   *)
OnePoller ==
    /\ \A c \in Callers : pc[c] = "close" => held[c] \notin stopped
    /\ \A c, d \in Callers : held[c] = held[d] /\ held[c] # NoPoller => c = d
    /\ current # NoPoller => Alive(current) /\ current \notin stopped
    /\ \A g \in Pollers : Alive(g) /\ g # current => \E c \in Callers : held[c] = g

(* When no Start is under way, enabled rules are polled -- unless a rule   *)
(* was changed while some Start acted on the list it had read before.      *)
ReconciledUnlessRaced ==
    ~raced /\ ~closed /\ enabled # {} /\ (\A c \in Callers : pc[c] \in {"idle", "run"})
        => current # NoPoller

(* A Stop never hangs: the poller it waits for ends even while runs that   *)
(* this poller spawned call Start and Stop themselves.                     *)
StopReturns == \A c \in Callers : pc[c] = "wait" ~> pc[c] = "idle"

(* A due rule is executed, put off or switched off in the end, whatever    *)
(* requests start and stop the scheduler around it and however often the   *)
(* save of a result fails -- unless the scheduler was closed or raced.     *)
DueRuleRuns ==
    \A a \in Accounts :
        a \in enabled \cap due ~> (a \notin enabled \cap due \/ closed \/ raced)
=============================================================================
