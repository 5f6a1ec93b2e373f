---------------------------- MODULE AutomationRun ----------------------------
(***************************************************************************)
(* Runs of the alias automation of one account, with everything that races *)
(* with them: aliasAutomationService.run of                                *)
(* src/internal/server/alias_automation.go, the account operation lock of  *)
(* alias_operations.go, the batch creation handler, and the operator's     *)
(* requests that change the rule.  A process is one goroutine: a scheduled *)
(* run the poller spawned, a "run now" request, or a direct creation       *)
(* request.  The run reads the rule twice, before and under the lock, and  *)
(* writes its result back only after it has released the lock: that is     *)
(* where the interesting interleavings are.                                *)
(*                                                                         *)
(* accounts.json is not a variable of its own: every mutator of            *)
(* account.Manager saves before it returns and undoes its change when the  *)
(* save fails, so memory and file agree in every state of this module.  A  *)
(* failed save of an operator's request is therefore no step at all.  The  *)
(* account stays: AccountSession is about its removal, after which a run   *)
(* under way ends as with RecordFails or BookFails.                        *)
(***************************************************************************)
EXTENDS AutomationRule, FiniteSets, Sequences, Functions

CONSTANTS
    Runs,           \* the processes (goroutines)
    Configs,        \* the rule configurations an operator may store
    InitialAliases, \* aliases the account has at the start, all active
    DirectCounts,   \* how many aliases a direct creation request may ask for
    MaxHistory,     \* MaxAliasCreationHistory: batches the history keeps
    MaxTime,        \* bound: the last tick of the clock
    MaxRuns,        \* bound: how many runs and direct requests ever begin
    MaxChanges,     \* bound: how often the operator acts or the server restarts
    MaxMade,        \* bound: aliases that processes know they created
    MaxLost,        \* bound: answers to a reserve that get lost
    Faults          \* whether saves may fail, replies get lost and the server restarts

NoOne == "no one"   \* the lock is free
MaxAttempts == 5    \* attempts of one CreateAlias

ASSUME RunAssumption ==
    /\ IsFiniteSet(Runs) /\ NoOne \notin Runs
    /\ Configs # {}
    /\ \A c \in Configs : c \in Config /\ ValidConfig(c)
    /\ InitialAliases \in Nat
    /\ DirectCounts \subseteq 1..20
    /\ MaxHistory \in Nat \ {0}
    /\ MaxTime \in Nat
    /\ MaxRuns \in Nat /\ MaxChanges \in Nat
    /\ MaxMade \in Nat /\ MaxLost \in Nat
    /\ Faults \in BOOLEAN

VARIABLES
    rule,     \* the stored rule: accounts[id].AliasAutomation
    lock,     \* holder of the account operation lock
    run,      \* the local state of each process
    aliases,  \* the upstream service: [total, active] aliases of the account
    late,     \* reserve requests without an answer that may still take effect
    history,  \* the creation history, see below
    clock,    \* time.Now
    spent     \* what is used of the bounds MaxRuns, MaxChanges and MaxLost

(* History variables: what an observer of the upstream service has counted. *)
VARIABLES
    made,       \* aliases all processes know they created
    cycleMade,  \* of automation, come into being since the target last changed
    cycleStray, \* those of them whose creation was never answered
    dayMade,    \* of automation, come into being today, while a daily limit applied
    dayStray,   \* those of them whose creation was never answered
    exact,      \* FALSE once an event the counters cannot survive has happened
    lost        \* TRUE once a save after a creation failed or the server restarted

upstream == <<aliases, late>>
limits == <<cycleMade, cycleStray, dayMade, dayStray>>
ghosts == <<made, limits, exact, lost>>
vars == <<rule, lock, run, upstream, history, clock, spent, ghosts>>

Phases == {"idle", "wait", "list", "create", "release", "leave", "record", "book"}
Triggers == {"manual", "scheduled", "direct"}

RunState == [phase     : Phases,
             trigger   : Triggers,
             runAt     : Nat,        \* the clock when the run began
             snap      : Rule,       \* the rule as read under the lock
             requested : Nat,
             created   : Nat,
             attempt   : Nat,        \* attempts of the CreateAlias under way that failed
             unknown   : Nat,        \* history: aliases the loop under way does not count
             status    : Statuses,
             pause     : PauseReasons \cup {NoReason},
             next      : Nat \cup {Never}]

(* A process with nothing to do; its snapshot is not looked at. *)
IdleRun(r) == [phase |-> "idle", trigger |-> "direct", runAt |-> 0, snap |-> r,
               requested |-> 0, created |-> 0, attempt |-> 0, unknown |-> 0,
               status |-> "skipped", pause |-> NoReason, next |-> Never]

BlankRule == NewRule(CHOOSE c \in Configs : TRUE)
Idle == IdleRun(BlankRule)

Creators      == {"automation", "direct"}
Automated(p)  == run[p].trigger # "direct"
Creator(p)    == IF Automated(p) THEN "automation" ELSE "direct"
InFlight(p)   == run[p].phase # "idle"
Holding(p)    == run[p].phase \in {"list", "create", "release", "leave"}
(* p executes the rule, or has executed it and not yet written the result. *)
Executing(p)  == Automated(p) /\ run[p].phase \in {"list", "create", "release", "record"}

-----------------------------------------------------------------------------
Init ==
    /\ \E c \in Configs, on \in BOOLEAN :
          /\ on => HasConfiguration(c)
          /\ rule = FirstRule(c, on, 0)
    /\ lock = NoOne
    /\ run = [p \in Runs |-> Idle]
    /\ aliases = [total |-> InitialAliases, active |-> InitialAliases]
    /\ late = [by \in Creators |-> 0]
    /\ history = [batches |-> <<>>, kept |-> {}, loaded |-> 0]
    /\ clock = 0
    /\ spent = [runs |-> 0, changes |-> 0, answers |-> 0]
    /\ made = 0 /\ cycleMade = 0 /\ cycleStray = 0 /\ dayMade = 0 /\ dayStray = 0
    /\ exact = TRUE /\ lost = FALSE
-----------------------------------------------------------------------------
(* A run.                                                                  *)

Begin(p, trigger) ==
    /\ spent.runs < MaxRuns
    /\ spent' = [spent EXCEPT !.runs = @ + 1]
    /\ run' = [run EXCEPT ![p] = [Idle EXCEPT
               !.phase = IF trigger # "direct" /\ TargetReached(rule) THEN "record" ELSE "wait",
               !.trigger = trigger,
               !.runAt = clock]]

(* RunDue finds the rule due and permitted and spawns a goroutine, or the  *)
(* run endpoint is called; both look at the rule before they queue for the *)
(* lock.  A request that is refused here changes nothing.                  *)
StartScheduled(p) ==
    /\ run[p].phase = "idle"
    /\ HasConfiguration(rule.cfg)
    /\ Due(rule, clock)
    /\ ScheduleAllowed(rule.cfg, clock)
    /\ Begin(p, "scheduled")
    /\ UNCHANGED <<rule, lock, upstream, history, clock, ghosts>>

StartManual(p) ==
    /\ run[p].phase = "idle"
    /\ HasConfiguration(rule.cfg)
    /\ ~Paused(rule)
    /\ Begin(p, "manual")
    /\ UNCHANGED <<rule, lock, upstream, history, clock, ghosts>>

(* POST /aliases and POST /aliases/batch: any number of aliases, no rule.  *)
StartDirect(p) ==
    /\ run[p].phase = "idle"
    /\ Begin(p, "direct")
    /\ UNCHANGED <<rule, lock, upstream, history, clock, ghosts>>

(* withClient cannot build a client: the operation never runs, the lock is *)
(* released at once and the failure is recorded like any other.            *)
ClientFails(p) ==
    /\ run[p].phase = "wait"
    /\ lock = NoOne
    /\ run' = [run EXCEPT ![p].phase = IF Automated(p) THEN "record" ELSE "book",
                          ![p].status = "error"]
    /\ UNCHANGED <<rule, lock, upstream, history, clock, spent, ghosts>>

(* Broken variant: the second look is left out. *)
StillDueUnchecked(p) == TRUE

(* A scheduled run looks again before it calls upstream. *)
StillDue(p) ==
    run[p].trigger = "scheduled" =>
        /\ Due(rule, run[p].runAt)
        /\ ScheduleAllowed(rule.cfg, run[p].runAt)

(* A process takes the lock and reads the rule again.                      *)
LockedPhase(p) ==
    IF ~HasConfiguration(rule.cfg) \/ ~StillDue(p) THEN "leave"
    ELSE IF TargetReached(rule) THEN "release" ELSE "list"

(* The counters p reads miss what another process has created and not      *)
(* recorded, or belong to a later day than the one p began on.             *)
ReadsStale(p) ==
    \/ \E q \in Runs \ {p} : Executing(q)
    \/ rule.dailyDate > DayOf(run[p].runAt)

(* Broken variant: the account lock is not taken. *)
AcquireUnlocked(p) ==
    /\ run[p].phase = "wait"
    /\ Automated(p)
    /\ lock' = lock
    /\ run' = [run EXCEPT ![p].phase = LockedPhase(p), ![p].snap = rule]
    /\ exact' = (exact /\ ~ReadsStale(p))
    /\ UNCHANGED <<rule, upstream, history, clock, spent, made, limits, lost>>

Acquire(p) ==
    /\ run[p].phase = "wait"
    /\ Automated(p)
    /\ lock = NoOne
    /\ lock' = p
    /\ run' = [run EXCEPT ![p].phase = LockedPhase(p), ![p].snap = rule]
    /\ exact' = (exact /\ ~ReadsStale(p))
    /\ UNCHANGED <<rule, upstream, history, clock, spent, made, limits, lost>>

AcquireDirect(p) ==
    /\ run[p].phase = "wait"
    /\ ~Automated(p)
    /\ lock = NoOne
    /\ lock' = p
    /\ \E n \in DirectCounts : run' = [run EXCEPT ![p].phase = "create", ![p].requested = n]
    /\ UNCHANGED <<rule, upstream, history, clock, spent, ghosts>>

ListFails(p) ==
    /\ run[p].phase = "list"
    /\ run' = [run EXCEPT ![p].phase = "release", ![p].status = "error"]
    /\ UNCHANGED <<rule, lock, upstream, history, clock, spent, ghosts>>

(* What the run decides to do with the list it has read, of which it takes *)
(* the length and the number of active aliases: how many to create, the    *)
(* pause to ask for afterwards and the next time to run.                   *)
RoomLeft(r, seen) == r.cfg.maxTotal - seen.total

Plan(p, seen) ==
    LET r        == run[p].snap
        room     == RoomLeft(r, seen)
        wanted   == CreateCount(r, seen.active)
        fitting  == AtMost(wanted, room)
        today    == DailyRemaining(r, run[p].runAt)
        tomorrow == NextAllowedAt(r.cfg, NextDayStart(run[p].runAt))
        limited  == r.cfg.dailyLimit > 0
        stop     == [run[p] EXCEPT !.phase = "release"]
    IN  IF wanted = 0 THEN stop
        ELSE IF room <= 0 THEN [stop EXCEPT !.pause = "alias_limit"]
        ELSE IF limited /\ today = 0 THEN [stop EXCEPT !.next = tomorrow]
        ELSE [run[p] EXCEPT
                !.phase = "create",
                !.requested = IF limited THEN AtMost(fitting, today) ELSE fitting,
                !.unknown = aliases.total - seen.total,
                !.pause = IF wanted > room THEN "alias_limit" ELSE NoReason,
                !.next = IF limited /\ fitting >= today THEN tomorrow ELSE Never]

ListSucceeds(p) ==
    /\ run[p].phase = "list"
    /\ run' = [run EXCEPT ![p] = Plan(p, aliases)]
    /\ UNCHANGED <<rule, lock, upstream, history, clock, spent, ghosts>>

(* The answer breaks off: it is no JSON any more, and the client takes it  *)
(* for a list without aliases.                                             *)
ListBreaksOff(p) ==
    /\ run[p].phase = "list"
    /\ run' = [run EXCEPT ![p] = Plan(p, [total |-> 0, active |-> 0])]
    /\ UNCHANGED <<rule, lock, upstream, history, clock, spent, ghosts>>

NewAlias == aliases' = [total |-> aliases.total + 1, active |-> aliases.active + 1]

CreateSucceeds(p) ==
    /\ run[p].phase = "create"
    /\ made < MaxMade
    /\ LET last == run[p].created + 1 = run[p].requested IN
       run' = [run EXCEPT ![p].created = @ + 1,
                          ![p].attempt = 0,
                          ![p].unknown = IF last THEN 0 ELSE @,
                          ![p].phase = IF last THEN "release" ELSE "create",
                          ![p].status = IF last THEN "success" ELSE @]
    /\ NewAlias
    /\ UNCHANGED late
    /\ made' = made + 1
    /\ cycleMade' = IF Automated(p) THEN cycleMade + 1 ELSE cycleMade
    /\ dayMade' = IF Automated(p) /\ run[p].snap.cfg.dailyLimit > 0
                  THEN dayMade + 1 ELSE dayMade
    /\ UNCHANGED <<rule, lock, history, clock, spent, cycleStray, dayStray, exact, lost>>

(* The answer to a reserve is lost: what the service does about the        *)
(* request, and when, is open.                                             *)
LoseAnswer(p) ==
    /\ spent.answers < MaxLost
    /\ spent' = [spent EXCEPT !.answers = @ + 1]
    /\ late' = [late EXCEPT ![Creator(p)] = @ + 1]
    /\ UNCHANGED aliases

(* The service carries out such a request, at once or at any later time,   *)
(* and nobody is told: an alias the loop under way does not count either.  *)
ArrivesLate(by) ==
    /\ late[by] > 0
    /\ late' = [late EXCEPT ![by] = @ - 1]
    /\ NewAlias
    /\ run' = [p \in Runs |-> IF run[p].phase = "create"
                              THEN [run[p] EXCEPT !.unknown = @ + 1] ELSE run[p]]
    /\ LET one   == IF by = "automation" THEN 1 ELSE 0
           today == IF rule.cfg.dailyLimit > 0 THEN one ELSE 0
       IN  /\ cycleMade' = cycleMade + one /\ cycleStray' = cycleStray + one
           /\ dayMade' = dayMade + today /\ dayStray' = dayStray + today
    /\ UNCHANGED <<rule, lock, history, clock, spent, made, exact, lost>>

(* CreateAlias tries again with another address, MaxAttempts times in all. *)
(* An attempt that fails and leaves nothing upstream is no step.           *)
Retry(p) ==
    /\ run[p].phase = "create"
    /\ run[p].attempt + 1 < MaxAttempts
    /\ LoseAnswer(p)
    /\ run' = [run EXCEPT ![p].attempt = @ + 1]
    /\ UNCHANGED <<rule, lock, history, clock, ghosts>>

(* The loop stops at the first error.  With `ghost` it is the answer to    *)
(* the last reserve that was lost.                                         *)
CreateFails(p, ghost) ==
    /\ run[p].phase = "create"
    /\ IF ghost THEN LoseAnswer(p) ELSE UNCHANGED <<spent, upstream>>
    /\ run' = [run EXCEPT ![p].phase = "release",
                          ![p].attempt = 0,
                          ![p].unknown = 0,
                          ![p].status = IF run[p].created > 0 THEN "partial" ELSE "error",
                          ![p].pause = NoReason,
                          ![p].next = Never]
    /\ UNCHANGED <<rule, lock, history, clock, ghosts>>

(* withClient saves the session cookies and releases the lock.  A save     *)
(* that fails turns a run that had nothing to do into a failed one.        *)
Release(p, saved) ==
    /\ run[p].phase = "release"
    /\ lock' = NoOne
    /\ run' = [run EXCEPT
                 ![p].phase = IF Automated(p) THEN "record" ELSE "book",
                 ![p].status = IF ~saved /\ @ = "skipped" THEN "error" ELSE @,
                 ![p].next = IF ~saved /\ run[p].status = "skipped" THEN Never ELSE @]
    /\ UNCHANGED <<rule, upstream, history, clock, spent, ghosts>>

(* The run that found nothing to execute leaves without a record. *)
Leave(p) ==
    /\ run[p].phase = "leave"
    /\ lock' = NoOne
    /\ run' = [run EXCEPT ![p] = Idle]
    /\ UNCHANGED <<rule, upstream, history, clock, spent, ghosts>>
-----------------------------------------------------------------------------
(* What follows after the lock is released.                                *)

(* Broken variant: only a complete run counts what it created. *)
ResultOfSuccess(p) ==
    [created |-> IF run[p].status = "success" THEN run[p].created ELSE 0,
     status |-> run[p].status, pauseReason |-> run[p].pause, nextRunAt |-> run[p].next]

ResultOf(p) == [created |-> run[p].created, status |-> run[p].status,
                pauseReason |-> run[p].pause, nextRunAt |-> run[p].next]

(* Broken variant: the result is applied to the rule the run executed. *)
RecordedOnSnapshot(p) == RecordRun(run[p].snap, ResultOf(p), run[p].runAt)

Recorded(p) == RecordRun(rule, ResultOf(p), run[p].runAt)

Record(p) ==
    /\ run[p].phase = "record"
    /\ rule' = Recorded(p)
    /\ run' = [run EXCEPT ![p] = [Idle EXCEPT !.phase = "book",
                                             !.trigger = run[p].trigger,
                                             !.runAt = run[p].runAt,
                                             !.created = run[p].created]]
    /\ UNCHANGED <<lock, upstream, history, clock, spent, ghosts>>

(* The rule cannot be saved: run returns before it writes the history.     *)
RecordFails(p) ==
    /\ run[p].phase = "record"
    /\ run' = [run EXCEPT ![p] = Idle]
    /\ exact' = (exact /\ run[p].created = 0)
    /\ lost' = (lost \/ run[p].created > 0)
    /\ UNCHANGED <<rule, lock, upstream, history, clock, spent, made, limits>>

Batch   == [at : Nat, created : Nat]
History == [batches : Seq(Batch), kept : SUBSET Nat, loaded : Nat]

(* The creation history: every batch ever booked, in that order, the       *)
(* numbers of those still kept, and how many there were when accounts.json *)
(* was last read.  The list itself begins with the batch booked last, but  *)
(* reading the file sorts it by the time its batches carry, the start of   *)
(* the run: x stands before y.                                             *)
Precedes(h, x, y) ==
    LET timed == x <= h.loaded /\ y <= h.loaded /\ h.batches[x].at # h.batches[y].at
    IN  IF timed THEN h.batches[x].at > h.batches[y].at ELSE x > y

(* Broken variant: the new batch does not count. *)
KeptBesides(h) ==
    {x \in h.kept : Cardinality({y \in h.kept : Precedes(h, y, x)}) < MaxHistory - 1}

(* The first MaxHistory batches of the list. *)
Kept(h) == {x \in h.kept : Cardinality({y \in h.kept : Precedes(h, y, x)}) < MaxHistory}

WithBatch(h, b) ==
    LET longer == [h EXCEPT !.batches = Append(@, b), !.kept = @ \cup {Len(h.batches) + 1}]
    IN  [longer EXCEPT !.kept = Kept(longer)]

(* Decoding accounts.json.  What it cuts off beyond MaxHistory was cut off *)
(* when it was written.                                                    *)
Reread(h) == [h EXCEPT !.loaded = Len(h.batches)]

(* RecordAliasCreation.  A run's batch carries the start of the run, that  *)
(* of a direct request the time of booking.                                *)
Book(p) ==
    /\ run[p].phase = "book"
    /\ history' = WithBatch(history, [at      |-> IF Automated(p) THEN run[p].runAt ELSE clock,
                                      created |-> run[p].created])
    /\ run' = [run EXCEPT ![p] = Idle]
    /\ UNCHANGED <<rule, lock, upstream, clock, spent, ghosts>>

BookFails(p) ==
    /\ run[p].phase = "book"
    /\ run' = [run EXCEPT ![p] = Idle]
    /\ lost' = (lost \/ run[p].created > 0)
    /\ UNCHANGED <<rule, lock, upstream, history, clock, spent, made, limits, exact>>
-----------------------------------------------------------------------------
(* The operator, the clock and the upstream service.                       *)

Change == /\ spent.changes < MaxChanges
          /\ spent' = [spent EXCEPT !.changes = @ + 1]

AnyExecuting == \E p \in Runs : Executing(p)

(* PUT /alias-automation with a valid configuration. *)
SetAutomation(c, on) ==
    /\ on => HasConfiguration(c)
    /\ rule' = SetRule(rule, c, on, clock)
    /\ IF c.target = rule.cfg.target THEN UNCHANGED <<cycleMade, cycleStray>>
                                     ELSE cycleMade' = 0 /\ cycleStray' = 0
    /\ IF c.dailyLimit = 0 THEN dayMade' = 0 /\ dayStray' = 0
                            ELSE UNCHANGED <<dayMade, dayStray>>
    /\ exact' = (exact /\ ~AnyExecuting /\ rule'.daily <= c.dailyLimit)
    /\ Change
    /\ UNCHANGED <<lock, run, upstream, history, clock, made, lost>>

Pause ==
    /\ rule' = PauseRule(rule, clock)
    /\ Change
    /\ UNCHANGED <<lock, run, upstream, history, clock, ghosts>>

Resume ==
    /\ HasConfiguration(rule.cfg)
    /\ ~TargetReached(rule)
    /\ rule' = ResumeRule(rule, clock)
    /\ Change
    /\ UNCHANGED <<lock, run, upstream, history, clock, ghosts>>

(* RunDue, or a run that finds the schedule closed, puts the rule off.     *)
Defer ==
    /\ Due(rule, clock)
    /\ ~ScheduleAllowed(rule.cfg, clock)
    /\ rule' = DeferRule(rule, clock)
    /\ UNCHANGED <<lock, run, upstream, history, clock, spent, ghosts>>

(* The deactivate, reactivate and delete requests, under the same lock.  A *)
(* delete deactivates first when the service refuses, and may end there.   *)
ChangeAlias ==
    /\ lock = NoOne
    /\ \/ /\ aliases.active > 0
          /\ aliases' = [aliases EXCEPT !.active = @ - 1]
       \/ /\ aliases.active < aliases.total
          /\ aliases' = [aliases EXCEPT !.active = @ + 1]
       \/ /\ aliases.active < aliases.total
          /\ aliases' = [aliases EXCEPT !.total = @ - 1]
       \/ /\ aliases.active > 0
          /\ aliases' = [total |-> aliases.total - 1, active |-> aliases.active - 1]
    /\ Change
    /\ UNCHANGED <<rule, lock, run, late, history, clock, ghosts>>

(* A run that is in flight at midnight counts its aliases on the day it    *)
(* began.                                                                  *)
Tick ==
    /\ clock < MaxTime
    /\ clock' = clock + 1
    /\ LET midnight == DayOf(clock + 1) # DayOf(clock) IN
       /\ IF midnight THEN dayMade' = 0 /\ dayStray' = 0 ELSE UNCHANGED <<dayMade, dayStray>>
       /\ exact' = (exact /\ ~(midnight /\ \E p \in Runs : Automated(p) /\ InFlight(p)))
    /\ UNCHANGED <<rule, lock, run, upstream, history, spent, made, cycleMade, cycleStray, lost>>

(* POST /reload reads accounts.json again, whatever runs are under way:    *)
(* the rule in it must be one the loader accepts.                          *)
Reload ==
    /\ Loadable(rule)
    /\ history' = Reread(history)
    /\ Change
    /\ UNCHANGED <<rule, lock, run, upstream, clock, ghosts>>

(* The process stops and starts again: every goroutine is gone, rule and   *)
(* history come back from accounts.json.                                   *)
Restart ==
    /\ Loadable(rule)
    /\ history' = Reread(history)
    /\ lock' = NoOne
    /\ run' = [p \in Runs |-> Idle]
    /\ exact' = (exact /\ \A p \in Runs : run[p].created = 0)
    /\ lost' = (lost \/ \E p \in Runs : run[p].created > 0)
    /\ Change
    /\ UNCHANGED <<rule, upstream, clock, made, limits>>
-----------------------------------------------------------------------------
RunStep(p) ==
    \/ StartScheduled(p) \/ StartManual(p) \/ StartDirect(p)
    \/ ClientFails(p) \/ Acquire(p) \/ AcquireDirect(p)
    \/ ListFails(p) \/ ListSucceeds(p)
    \/ CreateSucceeds(p) \/ CreateFails(p, FALSE)
    \/ Release(p, TRUE) \/ Leave(p)
    \/ Record(p) \/ Book(p)

FaultStep(p) ==
    \/ ListBreaksOff(p) \/ Retry(p) \/ CreateFails(p, TRUE) \/ Release(p, FALSE)
    \/ RecordFails(p) \/ BookFails(p)

Operator ==
    \/ \E c \in Configs, on \in BOOLEAN : SetAutomation(c, on)
    \/ Pause \/ Resume \/ Reload

Next ==
    \/ \E p \in Runs : RunStep(p)
    \/ Operator \/ Defer \/ ChangeAlias \/ Tick
    \/ \E by \in Creators : ArrivesLate(by)
    \/ Faults /\ (Restart \/ \E p \in Runs : FaultStep(p))

Spec == Init /\ [][Next]_vars
-----------------------------------------------------------------------------
(* Properties.                                                             *)

TypeOK ==
    /\ rule \in Rule
    /\ lock \in Runs \cup {NoOne}
    /\ run \in [Runs -> RunState]
    /\ aliases \in [total : Nat, active : Nat]
    /\ late \in [Creators -> Nat]
    /\ history \in History
    /\ clock \in Nat
    /\ spent \in [runs : Nat, changes : Nat, answers : Nat]
    /\ made \in Nat
    /\ cycleMade \in Nat /\ cycleStray \in Nat /\ dayMade \in Nat /\ dayStray \in Nat
    /\ exact \in BOOLEAN /\ lost \in BOOLEAN

(* While a run creates aliases, those it still has to create fit under the *)
(* total limit of the rule it executes, whatever other runs, direct        *)
(* creations and deletions were going on when it read the list.  The limit *)
(* is exceeded by no more than the aliases the loop cannot know of: those  *)
(* missing from a list that broke off, and those that come into being      *)
(* during the loop although nobody was told, by a lost answer.             *)
TotalLimitHonoured ==
    \A p \in Runs :
        Automated(p) /\ run[p].phase = "create" =>
            aliases.total + (run[p].requested - run[p].created)
                <= run[p].snap.cfg.maxTotal + run[p].unknown

(* The flags of the stored rule tell one story, whatever the operator, the *)
(* runs and the scheduler did to it in whatever order: see Coherent.       *)
RuleCoherent == Coherent(rule)

(* The creation limits hold from end to end, over any number of runs, of   *)
(* the aliases automation brings into being at the service: since the      *)
(* target was last changed no more than the target, and, in the run going  *)
(* on, since midnight no more than the daily limit, each with one more for *)
(* every alias whose creation was never answered, because its answer was   *)
(* lost -- unless one of the events happened that the counters cannot      *)
(* survive (`exact`): a run read the rule while another had not recorded   *)
(* yet, a run was in flight at midnight or while the operator changed the  *)
(* rule, the operator lowered the daily limit below today's count (the     *)
(* next record cuts the counter), or the process could not record what it  *)
(* had created.                                                            *)
LimitsHonoured ==
    exact =>
        /\ rule.cfg.target > 0 => cycleMade <= rule.cfg.target + cycleStray
        /\ \A p \in Runs :
              Executing(p) /\ run[p].created > 0 /\ run[p].snap.cfg.dailyLimit > 0
                => dayMade <= run[p].snap.cfg.dailyLimit + dayStray

(* A finished run never switches a rule on: a rule that was paused, or     *)
(* replaced by a disabled one, while the run was under way stays off, and  *)
(* the operator's configuration is never replaced by the one it executed.  *)
RunsNeverEnable ==
    [][(\E p \in Runs : Record(p)) =>
          /\ rule'.enabled => rule.enabled
          /\ rule'.cfg = rule.cfg]_vars

(* What has been recorded is not executed again: a scheduled goroutine     *)
(* that was spawned for the same due time, and queued for the lock while   *)
(* another executed and recorded it, finds a rule last run before its own  *)
(* start and leaves.                                                       *)
NoReplay ==
    \A p \in Runs :
        run[p].trigger = "scheduled" /\ run[p].phase \in {"list", "create"} =>
            run[p].snap.lastRunAt < run[p].runAt

(* Every alias the server knows it created is in a batch that was booked,  *)
(* or still in the hands of the process that created it, unless a save     *)
(* failed or the server restarted in between; and a batch leaves the       *)
(* history only for MaxHistory others, each booked later than it or of a   *)
(* run that began no earlier -- through any order in which runs end, and   *)
(* although reading the file reorders the list.                            *)
HistoryComplete ==
    LET batches == history.batches
        numbers == DOMAIN batches
    IN  /\ ~lost => made = FoldFunction(+, 0, [n \in numbers |-> batches[n].created])
                            + FoldFunction(+, 0, [p \in Runs |-> run[p].created])
        /\ \A n \in numbers \ history.kept :
              MaxHistory <= Cardinality({m \in numbers \ {n} :
                                          m > n \/ batches[m].at >= batches[n].at})

(* The README on "run now": it is still protected by the pause state.  A   *)
(* run that takes the lock while the rule is paused creates nothing.       *)
PauseHonoured ==
    [][\A p \in Runs : Acquire(p) /\ Paused(rule) => run'[p].phase # "list"]_vars

(* The README: the server continues from the stored state after a restart: *)
(* what it stores is always something its loader accepts.                  *)
StoredRuleLoadable == Loadable(rule)
=============================================================================
