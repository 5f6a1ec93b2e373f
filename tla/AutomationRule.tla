--------------------------- MODULE AutomationRule ---------------------------
(***************************************************************************)
(* The automation rule of one account, as a value: the pure part of        *)
(* src/internal/account/automation.go.  A rule is what accounts.json holds *)
(* under "alias_automation"; every operator below maps a rule (and the     *)
(* time at which the code reads its clock) to what the method of the same  *)
(* name stores or answers.  Nothing here has state: AutomationRun owns the *)
(* variable that holds the rule.                                           *)
(*                                                                         *)
(* Time is a natural number of ticks.  A calendar day has TicksPerDay      *)
(* ticks, day 0 is a Sunday (weekday 0 of Go's time.Weekday) and the empty *)
(* strings of next_run_at and daily_created_date are Never.                *)
(***************************************************************************)
EXTENDS Integers

CONSTANTS
    TicksPerDay,      \* ticks of one calendar day
    MaxRetryDelay     \* maxAliasAutomationRetryDelay (7 days), in ticks

ASSUME TimeAssumption ==
    /\ TicksPerDay \in Nat \ {0}
    /\ MaxRetryDelay \in Nat \ {0}

Never    == -1        \* an empty time or date string
NoReason == "none"    \* an empty pause_reason

Statuses     == {"success", "partial", "skipped", "error"}
PauseReasons == {"target_reached", "alias_limit", "failure_limit", "manual"}

(* The part of a rule that PUT /alias-automation sets.  An execution       *)
(* window with from >= to is an empty one: the whole day is allowed.       *)
Config == [interval   : 1..MaxRetryDelay,  \* interval_minutes
           days       : SUBSET (0..6),     \* allowed_weekdays, {} is every day
           from       : 0..TicksPerDay,    \* execution_window_start
           to         : 0..TicksPerDay,    \* execution_window_end
           batch      : Nat,               \* scheduled_batch_size
           minActive  : Nat,               \* minimum_active
           targetActive : Nat,
           maxBatch   : Nat,               \* max_batch_size
           maxTotal   : Nat,               \* max_total_aliases
           maxFail    : Nat,               \* max_failure_count
           dailyLimit : Nat,               \* daily_creation_limit, 0 is none
           target     : Nat]               \* target_created, 0 is none

(* The rule: the configuration and the progress the server writes.         *)
Rule == [cfg         : Config,
         enabled     : BOOLEAN,
         lastRunAt   : Nat \cup {Never},
         nextRunAt   : Nat \cup {Never},
         created     : Nat,                \* created_total
         failures    : Nat,                \* consecutive_failure
         daily       : Nat,                \* daily_created
         dailyDate   : Nat \cup {Never},   \* daily_created_date
         pauseReason : PauseReasons \cup {NoReason}]

(* What a finished run asks RecordAliasAutomationRun to write back.        *)
RunResult == [created     : Nat,
              status      : Statuses,
              pauseReason : PauseReasons \cup {NoReason},
              nextRunAt   : Nat \cup {Never}]

AtMost(a, b)  == IF a < b THEN a ELSE b
AtLeast(a, b) == IF a > b THEN a ELSE b
-----------------------------------------------------------------------------
(* The schedule: weekdays and the daily execution window.                  *)

DayOf(t) == t \div TicksPerDay

DayAllowed(c, d) == c.days = {} \/ d % 7 \in c.days

HasWindow(c) == c.from < c.to

ScheduleAllowed(c, t) ==
    /\ DayAllowed(c, DayOf(t))
    /\ HasWindow(c) => c.from <= t % TicksPerDay /\ t % TicksPerDay < c.to

(* Broken variant: on the first day, the opening even when it has passed. *)
OpensTooEarly(c, t, offset) ==
    LET midnight == (DayOf(t) + offset) * TicksPerDay IN
    IF DayAllowed(c, DayOf(t) + offset)
    THEN IF HasWindow(c) THEN midnight + c.from ELSE midnight
    ELSE Never

(* The earliest permitted tick on the day `offset` days after t's, not     *)
(* before t; Never when that day has none left.                            *)
OpensAt(c, t, offset) ==
    LET midnight == (DayOf(t) + offset) * TicksPerDay
        opens    == IF HasWindow(c) THEN midnight + c.from ELSE midnight
        closes   == IF HasWindow(c) THEN midnight + c.to ELSE midnight + TicksPerDay
    IN  IF ~DayAllowed(c, DayOf(t) + offset) THEN Never
        ELSE IF offset > 0 THEN opens
        ELSE IF t < closes THEN AtLeast(t, opens) ELSE Never

NextAllowedAt(c, t) ==
    LET open == {k \in 0..7 : OpensAt(c, t, k) # Never} IN
    IF open = {} THEN t + 7 * TicksPerDay
    ELSE OpensAt(c, t, CHOOSE k \in open : \A j \in open : k <= j)

NextDayStart(t) == (DayOf(t) + 1) * TicksPerDay

(* The retry delay: the interval doubled once per consecutive failure and  *)
(* cut at MaxRetryDelay, the value the doubling loop of the code ends with. *)
RetryDelay(c, failures) ==
    LET delay == c.interval * 2^failures IN
    IF delay \in 1..MaxRetryDelay THEN delay ELSE MaxRetryDelay

NextRunAt(c, failures, now) == NextAllowedAt(c, now + RetryDelay(c, failures))
-----------------------------------------------------------------------------
(* Tests on a rule.                                                        *)

HasConfiguration(c) == c.batch > 0 \/ c.minActive > 0 \/ c.target > 0

TargetReached(r) == r.cfg.target > 0 /\ r.created >= r.cfg.target

Due(r, now) == r.enabled /\ (r.nextRunAt = Never \/ r.nextRunAt <= now)

(* A rule an operator or a safety limit stopped, as the run endpoint tests it. *)
Paused(r) == ~r.enabled /\ r.pauseReason # NoReason

(* Broken variant: a limit lowered below the count of the day goes negative. *)
DailyRemainingUncut(r, now) ==
    r.cfg.dailyLimit - IF r.dailyDate = DayOf(now) THEN r.daily ELSE 0

DailyRemaining(r, now) ==
    AtLeast(0, r.cfg.dailyLimit - IF r.dailyDate = DayOf(now) THEN r.daily ELSE 0)

(* What ValidateAliasAutomation demands of the configured fields.          *)
ValidConfig(c) ==
    /\ c.maxBatch \in 1..20
    /\ c.maxTotal \in 1..1000
    /\ c.maxFail \in 1..10
    /\ c.dailyLimit \in 0..1000
    /\ c.batch <= c.maxBatch
    /\ c.minActive \in 0..100
    /\ c.targetActive \in 0..100
    /\ c.minActive = 0 => c.targetActive = 0
    /\ c.minActive > 0 => c.targetActive >= c.minActive
    /\ c.target \in 0..1000

(* What normalizeStoredAliasAutomation demands of a rule read back from    *)
(* accounts.json; a rule outside it makes the whole file unreadable.       *)
Loadable(r) ==
    /\ ValidConfig(r.cfg)
    /\ r.daily <= r.cfg.dailyLimit
    /\ r.cfg.dailyLimit = 0 => r.daily = 0 /\ r.dailyDate = Never
    /\ r.daily > 0 => r.dailyDate # Never
    /\ r.created <= r.cfg.target
    /\ r.enabled => HasConfiguration(r.cfg)
    /\ r.failures <= r.cfg.maxFail

(* The fields of a rule agree: an enabled rule has work to do, a time to   *)
(* run that is later than its last run, no reason to be paused and a       *)
(* target it has not reached; a disabled rule has no time to run; one that *)
(* reached its target says so; daily progress exists only under a limit.   *)
Coherent(r) ==
    /\ r.enabled => /\ HasConfiguration(r.cfg)
                    /\ r.lastRunAt < r.nextRunAt
                    /\ r.pauseReason = NoReason
                    /\ ~TargetReached(r)
    /\ ~r.enabled => r.nextRunAt = Never
    /\ TargetReached(r) => r.pauseReason = "target_reached"
    /\ r.created <= r.cfg.target
    /\ r.daily > 0 => r.dailyDate # Never
    /\ r.cfg.dailyLimit = 0 => r.daily = 0 /\ r.dailyDate = Never

(* How many aliases a run on rule r creates when `active` are active.      *)
CreateCount(r, active) ==
    LET c      == r.cfg
        refill == IF c.minActive > 0 /\ active < c.minActive
                  THEN AtLeast(c.batch, c.targetActive - active) ELSE c.batch
        wanted == IF refill = 0 /\ c.target > r.created THEN c.maxBatch ELSE refill
        capped == AtMost(wanted, c.maxBatch)
    IN  IF c.target > 0 THEN AtLeast(0, AtMost(capped, c.target - r.created)) ELSE capped
-----------------------------------------------------------------------------
(* Updates of a rule.                                                      *)

(* Broken variant: the count starts anew at every update of the rule. *)
ResetDailyAlways(r, now) ==
    IF r.cfg.dailyLimit = 0 THEN [r EXCEPT !.daily = 0, !.dailyDate = Never]
    ELSE [r EXCEPT !.daily = 0, !.dailyDate = DayOf(now)]

ResetDaily(r, now) ==
    IF r.cfg.dailyLimit = 0 THEN [r EXCEPT !.daily = 0, !.dailyDate = Never]
    ELSE IF r.dailyDate # DayOf(now) THEN [r EXCEPT !.daily = 0, !.dailyDate = DayOf(now)]
    ELSE r

NewRule(c) == [cfg |-> c, enabled |-> FALSE, lastRunAt |-> Never, nextRunAt |-> Never,
               created |-> 0, failures |-> 0, daily |-> 0, dailyDate |-> Never,
               pauseReason |-> NoReason]

(* SetAliasAutomation on an account without a rule. *)
FirstRule(c, on, now) ==
    [NewRule(c) EXCEPT !.enabled = on,
                       !.nextRunAt = IF on THEN NextRunAt(c, 0, now) ELSE Never]

(* SetAliasAutomation: the operator stores configuration c, switched on or *)
(* off, over the rule `old`.  Progress survives unless the target changes. *)
SetRule(old, c, on, now) ==
    LET kept     == ResetDaily([old EXCEPT !.cfg = c], now)
        same     == c.target = old.cfg.target
        created  == IF same THEN old.created ELSE 0
        reached  == c.target > 0 /\ created >= c.target
        enabled  == on /\ ~reached
        failures == IF same /\ old.enabled = on THEN old.failures ELSE 0
    IN  [kept EXCEPT
           !.enabled = enabled,
           !.created = created,
           !.failures = failures,
           !.nextRunAt = IF enabled THEN NextRunAt(c, failures, now) ELSE Never,
           !.pauseReason = IF reached THEN "target_reached"
                           ELSE IF same /\ ~old.enabled /\ ~on THEN old.pauseReason
                           ELSE NoReason]

(* RecordAliasAutomationRun: a finished run writes its result to the rule  *)
(* that is stored now, which need not be the one it executed.              *)
RecordRun(r, res, now) ==
    LET c        == r.cfg
        failed   == res.status \in {"partial", "error"}
        fresh    == ResetDaily(r, now)
        failures == IF failed THEN r.failures + 1
                    ELSE IF res.status = "success" THEN 0 ELSE r.failures
        created  == IF c.target > 0 THEN AtMost(r.created + res.created, c.target) ELSE r.created
        daily    == IF c.dailyLimit > 0 THEN AtMost(fresh.daily + res.created, c.dailyLimit)
                    ELSE fresh.daily
        reason   == IF c.target > 0 /\ created >= c.target THEN "target_reached"
                    ELSE IF res.pauseReason # NoReason THEN res.pauseReason
                    ELSE IF failed /\ failures >= c.maxFail THEN "failure_limit"
                    ELSE NoReason
        enabled  == r.enabled /\ reason = NoReason
    IN  [fresh EXCEPT
           !.lastRunAt = now,
           !.created = created,
           !.failures = failures,
           !.daily = daily,
           !.enabled = enabled,
           !.pauseReason = IF reason # NoReason THEN reason
                           ELSE IF enabled THEN NoReason ELSE r.pauseReason,
           !.nextRunAt = IF ~enabled THEN Never
                         ELSE IF res.nextRunAt # Never THEN res.nextRunAt
                         ELSE NextRunAt(c, failures, now)]

(* PauseAliasAutomation. *)
PauseRule(r, now) ==
    [ResetDaily(r, now) EXCEPT
        !.enabled = FALSE,
        !.nextRunAt = Never,
        !.pauseReason = IF TargetReached(r) THEN "target_reached" ELSE "manual"]

(* ResumeAliasAutomation, past its two early returns. *)
ResumeRule(r, now) ==
    [ResetDaily(r, now) EXCEPT
        !.failures = 0,
        !.enabled = TRUE,
        !.nextRunAt = NextRunAt(r.cfg, 0, now),
        !.pauseReason = NoReason]

(* DeferAliasAutomationToNextAllowedTime, past its two early returns. *)
DeferRule(r, now) == [r EXCEPT !.nextRunAt = NextAllowedAt(r.cfg, now)]
=============================================================================
