------------------------- MODULE AutomationRunProofs -------------------------
(***************************************************************************)
(* Proofs about AutomationRun, for any number of runs, any configurations  *)
(* and any bounds.  The inductive invariant IInv adds to the properties    *)
(* what makes them inductive: who holds the lock, how far the loop of a    *)
(* run has come, and that nothing the rule or a run remembers lies in the  *)
(* future.                                                                 *)
(***************************************************************************)
EXTENDS AutomationRun, FiniteSetTheorems, WellFoundedInduction, TLAPS
-----------------------------------------------------------------------------
(* Facts about the operators of AutomationRule: what an update of a rule   *)
(* preserves and bounds.                                                   *)

(* A tick lies before the end of its day and not before its beginning.     *)
LEMMA DayBounds ==
    ASSUME NEW t \in Nat
    PROVE  /\ DayOf(t) \in Nat
           /\ DayOf(t) * TicksPerDay <= t
           /\ t < NextDayStart(t)
           /\ NextDayStart(t) \in Nat
  <1>1. TicksPerDay \in Nat \ {0}
    BY TimeAssumption
  <1> DEFINE d == t \div TicksPerDay
             m == t % TicksPerDay
  <1>2. d \in Nat /\ m \in 0..(TicksPerDay - 1) /\ t = d * TicksPerDay + m
    BY <1>1, SMTT(30)
  <1>3. (d + 1) * TicksPerDay = d * TicksPerDay + TicksPerDay
    BY <1>1, <1>2, SMTT(30)
  <1>4. d * TicksPerDay \in Nat
    BY <1>1, <1>2, SMTT(30)
  <1>5. t < (d + 1) * TicksPerDay /\ d * TicksPerDay <= t /\ (d + 1) * TicksPerDay \in Nat
    BY <1>1, <1>2, <1>3, <1>4
  <1> QED
    BY <1>2, <1>5 DEF DayOf, NextDayStart

(* A later day begins after t. *)
LEMMA LaterDay ==
    ASSUME NEW t \in Nat, NEW k \in 1..7
    PROVE  /\ (DayOf(t) + k) * TicksPerDay \in Nat
           /\ t < (DayOf(t) + k) * TicksPerDay
  <1>1. TicksPerDay \in Nat \ {0} /\ DayOf(t) \in Nat
    BY TimeAssumption, DayBounds
  <1>2. (DayOf(t) + k) * TicksPerDay = NextDayStart(t) + (k - 1) * TicksPerDay
    BY <1>1, SMTT(30) DEF NextDayStart
  <1>3. (k - 1) * TicksPerDay \in Nat
    BY <1>1, SMTT(30)
  <1> QED
    BY <1>1, <1>2, <1>3, DayBounds

(* The loop over the days has a first hit. *)
LEMMA LeastOffset ==
    ASSUME NEW S \in SUBSET (0..7), S # {}
    PROVE  \E k \in S : \A j \in S : k <= j
  <1>0. CASE 0 \in S
    BY <1>0
  <1>1. CASE 0 \notin S
           /\ 1 \in S
    BY <1>1
  <1>2. CASE 0 \notin S /\ 1 \notin S
           /\ 2 \in S
    BY <1>2
  <1>3. CASE 0 \notin S /\ 1 \notin S /\ 2 \notin S
           /\ 3 \in S
    BY <1>3
  <1>4. CASE 0 \notin S /\ 1 \notin S /\ 2 \notin S /\ 3 \notin S
           /\ 4 \in S
    BY <1>4
  <1>5. CASE 0 \notin S /\ 1 \notin S /\ 2 \notin S /\ 3 \notin S /\ 4 \notin S
           /\ 5 \in S
    BY <1>5
  <1>6. CASE 0 \notin S /\ 1 \notin S /\ 2 \notin S /\ 3 \notin S /\ 4 \notin S /\ 5 \notin S
           /\ 6 \in S
    BY <1>6
  <1>7. CASE 0 \notin S /\ 1 \notin S /\ 2 \notin S /\ 3 \notin S /\ 4 \notin S /\ 5 \notin S /\ 6 \notin S
           /\ 7 \in S
    BY <1>7
  <1>8. \E k \in 0..7 : k \in S
    OBVIOUS
  <1> QED
    BY <1>0, <1>1, <1>2, <1>3, <1>4, <1>5, <1>6, <1>7, <1>8

(* The next permitted time is a time, and not an earlier one.              *)
LEMMA NextAllowedBound ==
    ASSUME NEW c \in Config, NEW t \in Nat
    PROVE  NextAllowedAt(c, t) \in Nat /\ NextAllowedAt(c, t) >= t
  <1> DEFINE open == {k \in 0..7 : OpensAt(c, t, k) # Never}
  <1>1. TicksPerDay \in Nat \ {0} /\ c.from \in Nat /\ c.to \in Nat
    BY TimeAssumption DEF Config
  <1>2. ASSUME NEW k \in open
        PROVE  OpensAt(c, t, k) \in Nat /\ OpensAt(c, t, k) >= t
    <2>1. CASE k = 0
      <3>1. DayOf(t) * TicksPerDay \in Nat /\ (DayOf(t) + k) * TicksPerDay = DayOf(t) * TicksPerDay
        BY <2>1, <1>1, DayBounds, SMTT(30)
      <3>2. OpensAt(c, t, k) \in {AtLeast(t, DayOf(t) * TicksPerDay + c.from),
                                  AtLeast(t, DayOf(t) * TicksPerDay)}
        BY <3>1, <2>1 DEF OpensAt
      <3> QED
        BY <3>1, <3>2, <1>1 DEF AtLeast
    <2>2. CASE k # 0
      <3>1. OpensAt(c, t, k) \in {(DayOf(t) + k) * TicksPerDay + c.from,
                                  (DayOf(t) + k) * TicksPerDay}
        BY <2>2 DEF OpensAt
      <3>2. k \in 1..7
        BY <2>2
      <3> DEFINE midnight == (DayOf(t) + k) * TicksPerDay
      <3>3. midnight \in Nat /\ t < midnight
        BY <3>2, LaterDay
      <3>4. OpensAt(c, t, k) \in {midnight + c.from, midnight}
        BY <3>1
      <3> HIDE DEF midnight
      <3> QED
        BY <3>3, <3>4, <1>1
    <2> QED
      BY <2>1, <2>2
  <1>3. CASE open = {}
    <2>1. NextAllowedAt(c, t) = t + 7 * TicksPerDay
      BY <1>3 DEF NextAllowedAt
    <2> QED
      BY <2>1, <1>1
  <1>4. CASE open # {}
    <2> DEFINE first == CHOOSE k \in open : \A j \in open : k <= j
    <2>1. \E k \in open : \A j \in open : k <= j
      BY <1>4, LeastOffset
    <2>2. first \in open
      BY <2>1
    <2>3. NextAllowedAt(c, t) = OpensAt(c, t, first)
      BY <1>4 DEF NextAllowedAt
    <2> QED
      BY <1>2, <2>2, <2>3
  <1> QED
    BY <1>3, <1>4

(* The next run after now is later than now. *)
LEMMA NextRunLater ==
    ASSUME NEW c \in Config, NEW failures \in Nat, NEW now \in Nat
    PROVE  NextRunAt(c, failures, now) \in Nat /\ NextRunAt(c, failures, now) > now
  <1>1. RetryDelay(c, failures) \in 1..MaxRetryDelay
    BY TimeAssumption DEF RetryDelay
  <1>2. RetryDelay(c, failures) \in Nat /\ RetryDelay(c, failures) > 0
    BY <1>1, TimeAssumption
  <1>3. now + RetryDelay(c, failures) \in Nat
    BY <1>2
  <1> QED
    BY <1>2, <1>3, NextAllowedBound DEF NextRunAt
-----------------------------------------------------------------------------
(* What the updates of a rule do to its type and to Coherent.              *)

LEMMA FirstRuleOK ==
    ASSUME NEW c \in Config, NEW on \in BOOLEAN, NEW now \in Nat,
           on => HasConfiguration(c)
    PROVE  FirstRule(c, on, now) \in Rule /\ Coherent(FirstRule(c, on, now))
  <1> DEFINE n    == NewRule(c)
             next == IF on THEN NextRunAt(c, 0, now) ELSE Never
             r    == [n EXCEPT !.enabled = on, !.nextRunAt = next]
  <1>1. n \in Rule
    BY DEF NewRule, Rule
  <1>2. /\ n.cfg = c /\ n.lastRunAt = Never /\ n.created = 0 /\ n.daily = 0
        /\ n.dailyDate = Never /\ n.pauseReason = NoReason
    BY DEF NewRule
  <1>3. next \in Nat \cup {Never} /\ (on => next \in Nat) /\ (~on => next = Never)
    BY NextRunLater
  <1>4. FirstRule(c, on, now) = r
    BY DEF FirstRule
  <1>5. c.target \in Nat
    BY DEF Config
  <1> HIDE DEF n, next
  <1>6. r \in Rule
    BY <1>1, <1>3 DEF Rule
  <1>7. /\ r.cfg = c /\ r.lastRunAt = Never /\ r.created = 0 /\ r.daily = 0
        /\ r.dailyDate = Never /\ r.pauseReason = NoReason
        /\ r.enabled = on /\ r.nextRunAt = next
    BY <1>1, <1>2 DEF Rule
  <1> HIDE DEF r
  <1>8. Coherent(r)
    BY <1>3, <1>5, <1>7 DEF Coherent, TargetReached, Never
  <1> QED
    BY <1>4, <1>6, <1>8

(* The daily counter is the only thing the daily reset touches. *)
LEMMA ResetDailyOK ==
    ASSUME NEW r \in Rule, NEW now \in Nat
    PROVE  LET n == ResetDaily(r, now) IN
           /\ n \in Rule
           /\ n.cfg = r.cfg /\ n.enabled = r.enabled /\ n.lastRunAt = r.lastRunAt
           /\ n.nextRunAt = r.nextRunAt /\ n.created = r.created
           /\ n.failures = r.failures /\ n.pauseReason = r.pauseReason
           /\ r.cfg.dailyLimit = 0 => n.daily = 0 /\ n.dailyDate = Never
           /\ r.cfg.dailyLimit # 0 => n.dailyDate = DayOf(now)
           /\ r.cfg.dailyLimit # 0 => n.daily = IF r.dailyDate = DayOf(now) THEN r.daily ELSE 0
  <1>1. DayOf(now) \in Nat
    BY DayBounds
  <1> QED
    BY <1>1 DEF ResetDaily, Rule

(* The daily part of Coherent holds of a rule that was just reset. *)
LEMMA ResetDailyCoherent ==
    ASSUME NEW r \in Rule, NEW now \in Nat
    PROVE  LET n == ResetDaily(r, now) IN
           /\ n.daily > 0 => n.dailyDate # Never
           /\ n.cfg.dailyLimit = 0 => n.daily = 0 /\ n.dailyDate = Never
  <1>1. DayOf(now) \in Nat
    BY DayBounds
  <1> QED
    BY <1>1, ResetDailyOK DEF Never

LEMMA SetRuleOK ==
    ASSUME NEW old \in Rule, Coherent(old), NEW c \in Config, NEW on \in BOOLEAN,
           NEW now \in Nat, old.lastRunAt <= now, on => HasConfiguration(c)
    PROVE  /\ SetRule(old, c, on, now) \in Rule /\ Coherent(SetRule(old, c, on, now))
           /\ SetRule(old, c, on, now).lastRunAt = old.lastRunAt
  <1> DEFINE base     == [old EXCEPT !.cfg = c]
             n        == ResetDaily(base, now)
             same     == c.target = old.cfg.target
             created  == IF same THEN old.created ELSE 0
             reached  == c.target > 0 /\ created >= c.target
             enabled  == on /\ ~reached
             failures == IF same /\ old.enabled = on THEN old.failures ELSE 0
             next     == IF enabled THEN NextRunAt(c, failures, now) ELSE Never
             reason   == IF reached THEN "target_reached"
                         ELSE IF same /\ ~old.enabled /\ ~on THEN old.pauseReason
                         ELSE NoReason
             r        == [n EXCEPT !.enabled = enabled, !.created = created,
                                   !.failures = failures, !.nextRunAt = next,
                                   !.pauseReason = reason]
  <1>1. SetRule(old, c, on, now) = r
    BY DEF SetRule
  <1>2. base \in Rule /\ base.cfg = c /\ base.lastRunAt = old.lastRunAt
    BY DEF Rule
  <1> HIDE DEF base
  <1>3. n \in Rule /\ n.cfg = c /\ n.lastRunAt = old.lastRunAt
    BY <1>2, ResetDailyOK
  <1>4. (n.daily > 0 => n.dailyDate # Never)
        /\ (n.cfg.dailyLimit = 0 => n.daily = 0 /\ n.dailyDate = Never)
    BY <1>2, ResetDailyCoherent
  <1>5. c.target \in Nat /\ old.created \in Nat /\ old.created <= old.cfg.target
        /\ old.lastRunAt \in Nat \cup {Never} /\ old.failures \in Nat
        /\ old.pauseReason \in PauseReasons \cup {NoReason}
    BY DEF Rule, Config, Coherent
  <1>6. created \in Nat /\ created <= c.target /\ failures \in Nat
        /\ reached \in BOOLEAN /\ enabled \in BOOLEAN
    BY <1>5
  <1> HIDE DEF failures, n
  <1>7. next \in Nat \cup {Never} /\ (enabled => next > now) /\ (~enabled => next = Never)
    BY <1>6, NextRunLater
  <1>8. reason \in PauseReasons \cup {NoReason} /\ (enabled => reason = NoReason)
        /\ (reached => reason = "target_reached")
    BY <1>5, <1>6 DEF PauseReasons, NoReason
  <1>9. enabled => HasConfiguration(c) /\ ~reached
    OBVIOUS
  <1>10. reached <=> c.target > 0 /\ created >= c.target
    OBVIOUS
  <1> HIDE DEF created, reached, enabled, next, reason
  <1>11. r \in Rule
    BY <1>3, <1>6, <1>7, <1>8 DEF Rule
  <1>12. /\ r.cfg = c /\ r.lastRunAt = old.lastRunAt /\ r.created = created
         /\ r.daily = n.daily /\ r.dailyDate = n.dailyDate /\ r.pauseReason = reason
         /\ r.enabled = enabled /\ r.nextRunAt = next
    BY <1>3 DEF Rule
  <1> HIDE DEF r
  <1>13. Coherent(r)
    BY <1>3, <1>4, <1>5, <1>6, <1>7, <1>8, <1>9, <1>10, <1>12 DEF Coherent, TargetReached, Never
  <1> QED
    BY <1>1, <1>11, <1>12, <1>13

(* The result of a run, recorded on whatever rule is stored: the next run  *)
(* it asks for must lie after its own start.                               *)
LEMMA RecordRunOK ==
    ASSUME NEW r \in Rule, Coherent(r), NEW res \in RunResult, NEW now \in Nat,
           res.nextRunAt # Never => res.nextRunAt > now
    PROVE  LET s == RecordRun(r, res, now) IN
           /\ s \in Rule
           /\ Coherent(s)
           /\ s.lastRunAt = now
           /\ s.cfg = r.cfg
           /\ s.enabled => r.enabled
           /\ s.created = IF r.cfg.target > 0 THEN AtMost(r.created + res.created, r.cfg.target)
                          ELSE r.created
  <1> DEFINE c        == r.cfg
             n        == ResetDaily(r, now)
             failed   == res.status \in {"partial", "error"}
             failures == IF failed THEN r.failures + 1
                         ELSE IF res.status = "success" THEN 0 ELSE r.failures
             created  == IF c.target > 0 THEN AtMost(r.created + res.created, c.target)
                         ELSE r.created
             daily    == IF c.dailyLimit > 0 THEN AtMost(n.daily + res.created, c.dailyLimit)
                         ELSE n.daily
             reason   == IF c.target > 0 /\ created >= c.target THEN "target_reached"
                         ELSE IF res.pauseReason # NoReason THEN res.pauseReason
                         ELSE IF failed /\ failures >= c.maxFail THEN "failure_limit"
                         ELSE NoReason
             enabled  == r.enabled /\ reason = NoReason
             stored   == IF reason # NoReason THEN reason
                         ELSE IF enabled THEN NoReason ELSE r.pauseReason
             next     == IF ~enabled THEN Never
                         ELSE IF res.nextRunAt # Never THEN res.nextRunAt
                         ELSE NextRunAt(c, failures, now)
             s        == [n EXCEPT !.lastRunAt = now, !.created = created,
                                   !.failures = failures, !.daily = daily,
                                   !.enabled = enabled, !.pauseReason = stored,
                                   !.nextRunAt = next]
  <1>1. RecordRun(r, res, now) = s
    BY DEF RecordRun
  <1>2. /\ n \in Rule /\ n.cfg = c /\ n.lastRunAt = r.lastRunAt
        /\ (n.daily > 0 => n.dailyDate # Never)
        /\ (c.dailyLimit = 0 => n.daily = 0 /\ n.dailyDate = Never)
        /\ (c.dailyLimit # 0 => n.dailyDate = DayOf(now))
    BY ResetDailyOK, ResetDailyCoherent
  <1>3. /\ c \in Config /\ c.target \in Nat /\ c.dailyLimit \in Nat /\ c.maxFail \in Nat
        /\ r.created \in Nat /\ r.created <= c.target /\ r.failures \in Nat
        /\ r.pauseReason \in PauseReasons \cup {NoReason} /\ r.enabled \in BOOLEAN
        /\ n.daily \in Nat /\ DayOf(now) \in Nat
    BY <1>2, DayBounds DEF Rule, Config, Coherent
  <1>4. /\ res.created \in Nat /\ res.nextRunAt \in Nat \cup {Never}
        /\ res.pauseReason \in PauseReasons \cup {NoReason}
    BY DEF RunResult
  <1>5. failures \in Nat
    BY <1>3
  <1>6. created \in Nat /\ created <= c.target
    BY <1>3, <1>4 DEF AtMost
  <1>7. /\ daily \in Nat
        /\ daily > 0 => n.dailyDate # Never
        /\ c.dailyLimit = 0 => daily = 0 /\ n.dailyDate = Never
    BY <1>2, <1>3, <1>4 DEF AtMost, Never
  <1>8. reason \in PauseReasons \cup {NoReason}
    BY <1>4 DEF PauseReasons
  <1>9. c.target > 0 /\ created >= c.target => reason = "target_reached"
    OBVIOUS
  <1>10. enabled => r.enabled /\ reason = NoReason
    OBVIOUS
  <1>11. enabled \in BOOLEAN
    BY <1>3
  <1> HIDE DEF created, failures, reason, daily, n
  <1>12. next \in Nat \cup {Never} /\ (enabled => next > now) /\ (~enabled => next = Never)
    BY <1>3, <1>4, <1>5, NextRunLater
  <1>13. /\ stored \in PauseReasons \cup {NoReason}
         /\ enabled => stored = NoReason
         /\ reason # NoReason => stored = reason
    BY <1>3, <1>8
  <1> HIDE DEF enabled, next, stored
  <1>14. s \in Rule
    BY <1>2, <1>5, <1>6, <1>7, <1>11, <1>12, <1>13 DEF Rule
  <1>15. /\ s.cfg = c /\ s.lastRunAt = now /\ s.created = created
         /\ s.daily = daily /\ s.dailyDate = n.dailyDate /\ s.pauseReason = stored
         /\ s.enabled = enabled /\ s.nextRunAt = next
    BY <1>2 DEF Rule
  <1> HIDE DEF s
  <1>16. enabled => HasConfiguration(c) /\ ~TargetReached(s)
    BY <1>3, <1>6, <1>9, <1>10, <1>15 DEF Coherent, TargetReached, NoReason
  <1>17. TargetReached(s) => stored = "target_reached"
    BY <1>9, <1>13, <1>15 DEF TargetReached, NoReason
  <1>18. Coherent(s)
    BY <1>3, <1>6, <1>7, <1>12, <1>13, <1>15, <1>16, <1>17 DEF Coherent
  <1> QED
    BY <1>1, <1>10, <1>14, <1>15, <1>18 DEF created

LEMMA PauseRuleOK ==
    ASSUME NEW r \in Rule, Coherent(r), NEW now \in Nat
    PROVE  /\ PauseRule(r, now) \in Rule /\ Coherent(PauseRule(r, now))
           /\ PauseRule(r, now).lastRunAt = r.lastRunAt
  <1> DEFINE n      == ResetDaily(r, now)
             reason == IF TargetReached(r) THEN "target_reached" ELSE "manual"
             p      == [n EXCEPT !.enabled = FALSE, !.nextRunAt = Never,
                                 !.pauseReason = reason]
  <1>1. PauseRule(r, now) = p
    BY DEF PauseRule
  <1>2. /\ n \in Rule /\ n.cfg = r.cfg /\ n.created = r.created /\ n.lastRunAt = r.lastRunAt
        /\ (n.daily > 0 => n.dailyDate # Never)
        /\ (n.cfg.dailyLimit = 0 => n.daily = 0 /\ n.dailyDate = Never)
    BY ResetDailyOK, ResetDailyCoherent
  <1>3. reason \in PauseReasons /\ (TargetReached(r) => reason = "target_reached")
    BY DEF PauseReasons
  <1> HIDE DEF n, reason
  <1>4. p \in Rule
    BY <1>2, <1>3 DEF Rule
  <1>5. /\ p.cfg = r.cfg /\ p.created = r.created /\ p.enabled = FALSE /\ p.nextRunAt = Never
        /\ p.pauseReason = reason /\ p.daily = n.daily /\ p.dailyDate = n.dailyDate
        /\ p.lastRunAt = r.lastRunAt
    BY <1>2 DEF Rule
  <1> HIDE DEF p
  <1>6. Coherent(p)
    BY <1>2, <1>3, <1>5 DEF Coherent, TargetReached
  <1> QED
    BY <1>1, <1>4, <1>5, <1>6

LEMMA ResumeRuleOK ==
    ASSUME NEW r \in Rule, Coherent(r), NEW now \in Nat, r.lastRunAt <= now,
           HasConfiguration(r.cfg), ~TargetReached(r)
    PROVE  /\ ResumeRule(r, now) \in Rule /\ Coherent(ResumeRule(r, now))
           /\ ResumeRule(r, now).lastRunAt = r.lastRunAt
  <1> DEFINE n    == ResetDaily(r, now)
             next == NextRunAt(r.cfg, 0, now)
             p    == [n EXCEPT !.failures = 0, !.enabled = TRUE, !.nextRunAt = next,
                               !.pauseReason = NoReason]
  <1>1. ResumeRule(r, now) = p
    BY DEF ResumeRule
  <1>2. /\ n \in Rule /\ n.cfg = r.cfg /\ n.created = r.created /\ n.lastRunAt = r.lastRunAt
        /\ (n.daily > 0 => n.dailyDate # Never)
        /\ (n.cfg.dailyLimit = 0 => n.daily = 0 /\ n.dailyDate = Never)
    BY ResetDailyOK, ResetDailyCoherent
  <1>3. r.cfg \in Config /\ r.lastRunAt \in Nat \cup {Never}
    BY DEF Rule
  <1>4. next \in Nat /\ next > now
    BY <1>3, NextRunLater
  <1> HIDE DEF n, next
  <1>0. r.lastRunAt < next
    BY <1>3, <1>4 DEF Never
  <1>5. p \in Rule
    BY <1>2, <1>4 DEF Rule
  <1>6. /\ p.cfg = r.cfg /\ p.created = r.created /\ p.enabled = TRUE /\ p.nextRunAt = next
        /\ p.pauseReason = NoReason /\ p.daily = n.daily /\ p.dailyDate = n.dailyDate
        /\ p.lastRunAt = r.lastRunAt
    BY <1>2 DEF Rule
  <1> HIDE DEF p
  <1>7. Coherent(p)
    BY <1>0, <1>2, <1>4, <1>6 DEF Coherent, TargetReached
  <1> QED
    BY <1>1, <1>5, <1>6, <1>7

LEMMA DeferRuleOK ==
    ASSUME NEW r \in Rule, Coherent(r), NEW now \in Nat, Due(r, now)
    PROVE  /\ DeferRule(r, now) \in Rule /\ Coherent(DeferRule(r, now))
           /\ DeferRule(r, now).lastRunAt = r.lastRunAt
  <1> DEFINE next == NextAllowedAt(r.cfg, now)
             p    == [r EXCEPT !.nextRunAt = next]
  <1>1. r.cfg \in Config /\ r.lastRunAt \in Int /\ r.nextRunAt \in Int
    BY DEF Rule, Never
  <1>2. next \in Nat /\ next >= now
    BY <1>1, NextAllowedBound
  <1>3. r.enabled /\ r.lastRunAt < r.nextRunAt /\ r.nextRunAt <= now
    BY <1>1 DEF Coherent, Due, Never, Rule
  <1> HIDE DEF next
  <1>4. DeferRule(r, now) = p
    BY DEF DeferRule, next
  <1>5. p \in Rule
    BY <1>2 DEF Rule
  <1>6. /\ p.cfg = r.cfg /\ p.created = r.created /\ p.enabled = r.enabled
        /\ p.nextRunAt = next /\ p.lastRunAt = r.lastRunAt
        /\ p.pauseReason = r.pauseReason /\ p.daily = r.daily /\ p.dailyDate = r.dailyDate
    BY DEF Rule
  <1> HIDE DEF p
  <1>7. Coherent(p)
    BY <1>1, <1>2, <1>3, <1>6 DEF Coherent, TargetReached, Never
  <1> QED
    BY <1>4, <1>5, <1>6, <1>7
-----------------------------------------------------------------------------
(* What the updates of a rule do to its two counters.                      *)

(* What the rule has recorded of day d. *)
CountedOn(r, d) == IF r.dailyDate = d THEN r.daily ELSE 0

(* s has the configuration and the counters of r, as seen on day d. *)
SameCounts(r, s, d) ==
    /\ s.cfg = r.cfg /\ s.created = r.created
    /\ CountedOn(s, d) = CountedOn(r, d)
    /\ r.daily <= r.cfg.dailyLimit => s.daily <= s.cfg.dailyLimit

LEMMA CountedType ==
    ASSUME NEW r \in Rule, NEW d
    PROVE  /\ CountedOn(r, d) \in Nat
           /\ r.daily \in Nat /\ r.created \in Nat
           /\ r.cfg.dailyLimit \in Nat /\ r.cfg.target \in Nat
           /\ r.daily <= r.cfg.dailyLimit => CountedOn(r, d) <= r.cfg.dailyLimit
  BY DEF CountedOn, Rule, Config

LEMMA ResetCounts ==
    ASSUME NEW r \in Rule, Coherent(r), NEW now \in Nat
    PROVE  SameCounts(r, ResetDaily(r, now), DayOf(now))
  <1> DEFINE n == ResetDaily(r, now)
  <1>1. /\ n \in Rule /\ n.cfg = r.cfg /\ n.created = r.created
        /\ r.cfg.dailyLimit = 0 => n.daily = 0 /\ n.dailyDate = Never
        /\ r.cfg.dailyLimit # 0 => n.dailyDate = DayOf(now)
        /\ r.cfg.dailyLimit # 0 => n.daily = IF r.dailyDate = DayOf(now) THEN r.daily ELSE 0
    BY ResetDailyOK
  <1>2. /\ DayOf(now) \in Nat /\ r.daily \in Nat /\ r.cfg.dailyLimit \in Nat
        /\ r.cfg.dailyLimit = 0 => r.daily = 0 /\ r.dailyDate = Never
    BY DayBounds DEF Rule, Config, Coherent
  <1> HIDE DEF n
  <1>3. SameCounts(r, n, DayOf(now))
    BY <1>1, <1>2 DEF SameCounts, CountedOn, Never
  <1> QED
    BY <1>3 DEF n

(* The operator's pause and resume and a deferral count nothing. *)
LEMMA OperatorCounts ==
    ASSUME NEW r \in Rule, Coherent(r), NEW now \in Nat
    PROVE  /\ SameCounts(r, PauseRule(r, now), DayOf(now))
           /\ SameCounts(r, ResumeRule(r, now), DayOf(now))
           /\ SameCounts(r, DeferRule(r, now), DayOf(now))
  <1> DEFINE n == ResetDaily(r, now)
  <1>1. n \in Rule /\ SameCounts(r, n, DayOf(now))
    BY ResetDailyOK, ResetCounts
  <1> HIDE DEF n
  <1>2. ASSUME NEW a, NEW b, NEW e
        PROVE  SameCounts(r, [n EXCEPT !.enabled = a, !.nextRunAt = b, !.pauseReason = e],
                          DayOf(now))
    BY <1>1 DEF SameCounts, CountedOn, Rule
  <1>3. ASSUME NEW a, NEW b, NEW e, NEW f
        PROVE  SameCounts(r, [n EXCEPT !.failures = f, !.enabled = a, !.nextRunAt = b,
                                       !.pauseReason = e], DayOf(now))
    BY <1>1 DEF SameCounts, CountedOn, Rule
  <1>4. SameCounts(r, PauseRule(r, now), DayOf(now))
    BY <1>2 DEF PauseRule, n
  <1>5. SameCounts(r, ResumeRule(r, now), DayOf(now))
    BY <1>3 DEF ResumeRule, n
  <1>6. SameCounts(r, DeferRule(r, now), DayOf(now))
    BY DEF SameCounts, CountedOn, DeferRule, Rule
  <1> QED
    BY <1>4, <1>5, <1>6

(* A new configuration keeps what was created under the same target and    *)
(* what the day has counted.                                               *)
LEMMA SetRuleCounts ==
    ASSUME NEW old \in Rule, NEW c \in Config, NEW on \in BOOLEAN, NEW now \in Nat
    PROVE  LET s == SetRule(old, c, on, now) IN
           /\ s.cfg = c
           /\ s.created = IF c.target = old.cfg.target THEN old.created ELSE 0
           /\ c.dailyLimit > 0 => CountedOn(s, DayOf(now)) = CountedOn(old, DayOf(now))
  <1> DEFINE base == [old EXCEPT !.cfg = c]
             n    == ResetDaily(base, now)
  <1>1. /\ base \in Rule /\ base.cfg = c /\ base.daily = old.daily
        /\ base.dailyDate = old.dailyDate
    BY DEF Rule
  <1> HIDE DEF base
  <1>2. /\ n \in Rule /\ n.cfg = c
        /\ c.dailyLimit # 0 => n.dailyDate = DayOf(now)
        /\ c.dailyLimit # 0 => n.daily = CountedOn(old, DayOf(now))
    BY <1>1, ResetDailyOK DEF CountedOn
  <1> HIDE DEF n
  <1>3. ASSUME NEW a, NEW m, NEW f, NEW x, NEW e
        PROVE  LET s == [n EXCEPT !.enabled = a, !.created = m, !.failures = f,
                                  !.nextRunAt = x, !.pauseReason = e] IN
               s.cfg = n.cfg /\ s.created = m /\ s.daily = n.daily /\ s.dailyDate = n.dailyDate
    BY <1>2 DEF Rule
  <1> DEFINE s == SetRule(old, c, on, now)
  <1>4. /\ s.cfg = n.cfg /\ s.daily = n.daily /\ s.dailyDate = n.dailyDate
        /\ s.created = IF c.target = old.cfg.target THEN old.created ELSE 0
    BY <1>3 DEF SetRule, n, base
  <1> HIDE DEF s
  <1>5. c.dailyLimit > 0 => CountedOn(s, DayOf(now)) = CountedOn(old, DayOf(now))
    BY <1>2, <1>4 DEF CountedOn, Config
  <1> QED
    BY <1>2, <1>4, <1>5 DEF s

(* A recorded run adds what it created to both counters, which the limits  *)
(* cut.                                                                    *)
LEMMA RecordCounts ==
    ASSUME NEW r \in Rule, Coherent(r), NEW res \in RunResult, NEW now \in Nat,
           res.nextRunAt # Never => res.nextRunAt > now
    PROVE  LET s == RecordRun(r, res, now)
               d == DayOf(now)
           IN
           /\ r.cfg.target > 0 => s.created = AtMost(r.created + res.created, r.cfg.target)
           /\ r.cfg.dailyLimit > 0 =>
                 /\ s.daily = AtMost(CountedOn(r, d) + res.created, r.cfg.dailyLimit)
                 /\ CountedOn(s, d) = s.daily
           /\ s.daily <= s.cfg.dailyLimit
           /\ res.created = 0 /\ r.daily <= r.cfg.dailyLimit => SameCounts(r, s, d)
  <1> DEFINE d     == DayOf(now)
             c     == r.cfg
             n     == ResetDaily(r, now)
             daily == IF c.dailyLimit > 0 THEN AtMost(n.daily + res.created, c.dailyLimit)
                      ELSE n.daily
             s     == RecordRun(r, res, now)
  <1>1. /\ s.cfg = c
        /\ s.created = IF c.target > 0 THEN AtMost(r.created + res.created, c.target)
                       ELSE r.created
    BY RecordRunOK
  <1>2. /\ n \in Rule
        /\ c.dailyLimit = 0 => n.daily = 0 /\ n.dailyDate = Never
        /\ c.dailyLimit # 0 => n.dailyDate = d
        /\ c.dailyLimit # 0 => n.daily = CountedOn(r, d)
    BY ResetDailyOK DEF CountedOn
  <1>3. ASSUME NEW a, NEW m, NEW f, NEW x, NEW e, NEW y, NEW z
        PROVE  LET w == [n EXCEPT !.lastRunAt = z, !.created = m, !.failures = f, !.daily = y,
                                  !.enabled = a, !.pauseReason = e, !.nextRunAt = x] IN
               w.daily = y /\ w.dailyDate = n.dailyDate
    <2> HIDE DEF n
    <2> QED
      BY <1>2 DEF Rule
  <1>4. s.daily = daily /\ s.dailyDate = n.dailyDate
    BY <1>3 DEF RecordRun
  <1>5. /\ c.dailyLimit \in Nat /\ c.target \in Nat /\ r.created \in Nat /\ res.created \in Nat
        /\ r.created <= c.target /\ d \in Nat /\ CountedOn(r, d) \in Nat
        /\ c.dailyLimit = 0 => r.dailyDate = Never
        /\ r.daily <= c.dailyLimit => CountedOn(r, d) <= c.dailyLimit
        /\ r.daily \in Nat
    BY DayBounds, CountedType DEF Rule, Config, RunResult, Coherent
  <1> HIDE DEF s, n, d
  <1>6. c.dailyLimit > 0 => /\ s.daily = AtMost(CountedOn(r, d) + res.created, c.dailyLimit)
                            /\ CountedOn(s, d) = s.daily
    BY <1>2, <1>4, <1>5 DEF CountedOn
  <1>7. s.daily <= s.cfg.dailyLimit
    BY <1>1, <1>2, <1>4, <1>5, <1>6 DEF AtMost
  <1>8. c.dailyLimit = 0 => CountedOn(s, d) = CountedOn(r, d)
    BY <1>2, <1>4, <1>5 DEF CountedOn, Never
  <1>9. ASSUME res.created = 0, r.daily <= c.dailyLimit
        PROVE  SameCounts(r, s, d)
    <2>1. s.created = r.created
      BY <1>1, <1>5, <1>9 DEF AtMost
    <2>2. CountedOn(s, d) = CountedOn(r, d)
      BY <1>5, <1>6, <1>8, <1>9 DEF AtMost
    <2> QED
      BY <1>1, <1>7, <2>1, <2>2 DEF SameCounts
  <1> QED
    BY <1>1, <1>6, <1>7, <1>9 DEF s, d
-----------------------------------------------------------------------------
(* The inductive invariant of a run.                                       *)

(* The lock is held by exactly the process that is inside withClient. *)
LockInv == \A p \in Runs : Holding(p) <=> lock = p

(* What is true of one process with local state q, at time now and with    *)
(* `total` aliases upstream: before its loop it has created nothing, in    *)
(* the loop it has something left to create, which fits under the limit    *)
(* but for the aliases it does not know of, only automation records, its   *)
(* next run comes after this one, and it does not replay.                  *)
RunOK(q, now, total) ==
    /\ q.phase \in {"idle", "wait", "list", "leave"} => q.created = 0
    /\ q.phase = "create" => q.created < q.requested
    /\ q.phase = "record" => q.trigger # "direct"
    /\ q.runAt <= now
    /\ q.next # Never => q.next > q.runAt
    /\ q.trigger # "direct" /\ q.phase = "create" =>
          total + (q.requested - q.created) <= q.snap.cfg.maxTotal + q.unknown
    /\ q.trigger = "scheduled" /\ q.phase \in {"list", "create"} =>
          q.snap.lastRunAt < q.runAt

IInv ==
    /\ TypeOK
    /\ RuleCoherent
    /\ rule.lastRunAt <= clock
    /\ aliases.active <= aliases.total
    /\ LockInv
    /\ \A p \in Runs : RunOK(run[p], clock, aliases.total)
-----------------------------------------------------------------------------
(* Typing of the small operators. *)

LEMMA IdleType == Idle \in RunState
  <1>1. BlankRule \in Rule
    <2>1. (CHOOSE d \in Configs : TRUE) \in Configs
      BY RunAssumption
    <2>2. (CHOOSE d \in Configs : TRUE) \in Config
      BY <2>1, RunAssumption
    <2> QED
      BY <2>2 DEF BlankRule, NewRule, Rule
  <1> QED
    BY <1>1 DEF Idle, IdleRun, RunState, Phases, Triggers, Statuses

LEMMA CreateCountType ==
    ASSUME NEW r \in Rule, NEW active \in Nat
    PROVE  CreateCount(r, active) \in Nat
  <1>1. /\ r.cfg.batch \in Nat /\ r.cfg.minActive \in Nat /\ r.cfg.targetActive \in Nat
        /\ r.cfg.maxBatch \in Nat /\ r.cfg.target \in Nat /\ r.created \in Nat
    BY DEF Rule, Config
  <1> QED
    BY <1>1 DEF CreateCount, AtLeast, AtMost

LEMMA DailyRemainingType ==
    ASSUME NEW r \in Rule, NEW t \in Nat
    PROVE  DailyRemaining(r, t) \in Nat
  <1>1. r.cfg.dailyLimit \in Nat /\ r.daily \in Nat
    BY DEF Rule, Config
  <1> QED
    BY <1>1 DEF DailyRemaining, AtLeast

(* What a run plans: a plan to create asks for at least one alias and for  *)
(* no more than the total limit leaves room for, but for the aliases it    *)
(* has not seen.                                                           *)
LEMMA PlanOK ==
    ASSUME TypeOK, NEW p \in Runs, run[p].phase = "list", run[p].created = 0,
           run[p].next # Never => run[p].next > run[p].runAt,
           NEW seen \in [total : Nat, active : Nat], seen.total <= aliases.total
    PROVE  LET q == Plan(p, seen) IN
           /\ q \in RunState
           /\ q.phase \in {"release", "create"}
           /\ q.created = 0 /\ q.runAt = run[p].runAt
           /\ q.trigger = run[p].trigger /\ q.snap = run[p].snap
           /\ q.next # Never => q.next > q.runAt
           /\ q.phase = "create" =>
                 /\ q.requested > 0
                 /\ aliases.total + q.requested <= q.snap.cfg.maxTotal + q.unknown
  <1> DEFINE o        == run[p]
             r        == o.snap
             wanted   == CreateCount(r, seen.active)
             room     == RoomLeft(r, seen)
             unseen   == aliases.total - seen.total
             fitting  == AtMost(wanted, room)
             today    == DailyRemaining(r, o.runAt)
             tomorrow == NextAllowedAt(r.cfg, NextDayStart(o.runAt))
             limited  == r.cfg.dailyLimit > 0
             stop     == [o EXCEPT !.phase = "release"]
             asked    == IF limited THEN AtMost(fitting, today) ELSE fitting
             pause    == IF wanted > room THEN "alias_limit" ELSE NoReason
             next     == IF limited /\ fitting >= today THEN tomorrow ELSE Never
             go       == [o EXCEPT !.phase = "create", !.requested = asked,
                                   !.unknown = unseen, !.pause = pause, !.next = next]
  <1>1. /\ o \in RunState /\ r \in Rule /\ o.runAt \in Nat /\ r.cfg \in Config
        /\ r.cfg.maxTotal \in Nat /\ r.cfg.dailyLimit \in Nat
        /\ aliases.total \in Nat /\ seen.total \in Nat /\ seen.active \in Nat
        /\ unseen \in Nat
    BY DEF TypeOK, RunState, Rule, Config
  <1>2. wanted \in Nat /\ today \in Nat /\ room = r.cfg.maxTotal - seen.total
    BY <1>1, CreateCountType, DailyRemainingType DEF RoomLeft
  <1>3. tomorrow \in Nat /\ tomorrow > o.runAt
    <2>1. NextDayStart(o.runAt) \in Nat /\ NextDayStart(o.runAt) > o.runAt
      BY <1>1, DayBounds
    <2>2. tomorrow \in Nat /\ tomorrow >= NextDayStart(o.runAt)
      BY <1>1, <2>1, NextAllowedBound
    <2> QED
      BY <1>1, <2>1, <2>2
  <1>4. Plan(p, seen) = IF wanted = 0 THEN stop
                  ELSE IF room <= 0 THEN [stop EXCEPT !.pause = "alias_limit"]
                  ELSE IF limited /\ today = 0 THEN [stop EXCEPT !.next = tomorrow]
                  ELSE go
    BY DEF Plan
  <1> HIDE DEF wanted, room, today, tomorrow, r
  <1>5. CASE wanted = 0
    <2>1. Plan(p, seen) = stop
      BY <1>4, <1>5
    <2> QED
      BY <1>1, <2>1 DEF RunState, Phases, r
  <1>6. CASE wanted # 0 /\ room <= 0
    <2>1. Plan(p, seen) = [stop EXCEPT !.pause = "alias_limit"]
      BY <1>4, <1>6
    <2> QED
      BY <1>1, <2>1 DEF RunState, Phases, PauseReasons, r
  <1>7. CASE wanted # 0 /\ ~(room <= 0) /\ limited /\ today = 0
    <2>1. Plan(p, seen) = [stop EXCEPT !.next = tomorrow]
      BY <1>4, <1>7
    <2> QED
      BY <1>1, <1>3, <2>1 DEF RunState, Phases, r
  <1>8. CASE wanted # 0 /\ ~(room <= 0) /\ ~(limited /\ today = 0)
    <2>1. Plan(p, seen) = go
      BY <1>4, <1>8
    <2>2. fitting \in Nat /\ fitting > 0 /\ fitting <= room
      BY <1>1, <1>2, <1>8 DEF AtMost
    <2>3. asked \in Nat /\ asked > 0 /\ asked <= room
      BY <1>1, <1>2, <1>8, <2>2 DEF AtMost
    <2>4. aliases.total + asked <= r.cfg.maxTotal + unseen
      BY <1>1, <1>2, <2>3
    <2>5. pause \in PauseReasons \cup {NoReason}
      BY DEF PauseReasons
    <2>6. next \in Nat \cup {Never} /\ (next # Never => next > o.runAt)
      BY <1>3
    <2> HIDE DEF asked, pause, next
    <2>7. go \in RunState
      BY <1>1, <2>3, <2>5, <2>6 DEF RunState, Phases
    <2>8. /\ go.phase = "create" /\ go.created = o.created /\ go.runAt = o.runAt
          /\ go.trigger = o.trigger /\ go.snap = o.snap /\ go.next = next
          /\ go.requested = asked /\ go.unknown = unseen
      BY <1>1 DEF RunState
    <2> HIDE DEF go
    <2> QED
      BY <2>1, <2>3, <2>4, <2>6, <2>7, <2>8 DEF r
  <1> QED
    BY <1>5, <1>6, <1>7, <1>8
-----------------------------------------------------------------------------
(* A step of one process: p goes on with local state q, and takes the      *)
(* lock, keeps it, gives it back or leaves it alone.  Only a process that  *)
(* holds the lock changes the number of aliases.                           *)
LEMMA OneRun ==
    ASSUME IInv, NEW p \in Runs, NEW q \in RunState,
           run' = [run EXCEPT ![p] = q],
           clock' = clock,
           aliases'.total = aliases.total \/ lock = p,
           RunOK(q, clock, aliases'.total),
           \/ q.phase \in {"list", "create", "release", "leave"}
              /\ lock \in {p, NoOne} /\ lock' = p
           \/ q.phase \notin {"list", "create", "release", "leave"}
              /\ lock = p /\ lock' = NoOne
           \/ q.phase \notin {"list", "create", "release", "leave"}
              /\ ~Holding(p) /\ lock' = lock
    PROVE  /\ run' \in [Runs -> RunState]
           /\ lock' \in Runs \cup {NoOne}
           /\ LockInv'
           /\ \A x \in Runs : RunOK(run'[x], clock', aliases'.total)
  <1>1. run \in [Runs -> RunState] /\ lock \in Runs \cup {NoOne} /\ NoOne \notin Runs
    BY RunAssumption DEF IInv, TypeOK
  <1>2. run'[p] = q /\ \A x \in Runs \ {p} : run'[x] = run[x]
    BY <1>1
  <1>3. LockInv'
    <2> SUFFICES ASSUME NEW x \in Runs
                 PROVE  Holding(x)' <=> lock' = x
      BY DEF LockInv
    <2>1. Holding(x) <=> lock = x
      BY DEF IInv, LockInv
    <2>2. Holding(p) <=> lock = p
      BY DEF IInv, LockInv
    <2>3. CASE x = p
      BY <1>1, <1>2, <2>2, <2>3 DEF Holding
    <2>4. CASE x # p
      BY <1>1, <1>2, <2>1, <2>2, <2>4 DEF Holding
    <2> QED
      BY <2>3, <2>4
  <1>4. ASSUME NEW x \in Runs
        PROVE  RunOK(run'[x], clock', aliases'.total)
    <2>1. CASE x = p
      BY <1>2, <2>1
    <2>2. CASE x # p
      <3>1. RunOK(run[x], clock, aliases.total)
        BY DEF IInv
      <3>2. CASE aliases'.total = aliases.total
        BY <1>2, <2>2, <3>1, <3>2
      <3>3. CASE lock = p
        <4>1. run[x].phase # "create"
          BY <2>2, <3>3 DEF IInv, LockInv, Holding
        <4> QED
          BY <1>2, <2>2, <3>1, <4>1 DEF RunOK
      <3> QED
        BY <3>2, <3>3
    <2> QED
      BY <2>1, <2>2
  <1> QED
    BY <1>1, <1>3, <1>4

(* A step of no process, with the lock left alone: only the clock or the   *)
(* rule moves, or the number of aliases while nobody holds the lock.       *)
LEMMA NoRun ==
    ASSUME IInv, run' = run, lock' = lock, clock' \in Nat, clock <= clock',
           aliases'.total = aliases.total \/ lock = NoOne
    PROVE  /\ LockInv'
           /\ \A x \in Runs : RunOK(run'[x], clock', aliases'.total)
  <1>1. LockInv'
    BY DEF IInv, LockInv, Holding
  <1>2. ASSUME NEW x \in Runs
        PROVE  RunOK(run'[x], clock', aliases'.total)
    <2>1. RunOK(run[x], clock, aliases.total) /\ run[x].runAt \in Nat /\ clock \in Nat
      BY DEF IInv, TypeOK, RunState
    <2>2. lock = NoOne => run[x].phase # "create"
      BY RunAssumption DEF IInv, LockInv, Holding
    <2> QED
      BY <2>1, <2>2 DEF RunOK
  <1> QED
    BY <1>1, <1>2
-----------------------------------------------------------------------------
(* Every step preserves the invariant: one lemma per action.               *)

LEMMA BeginStep ==
    ASSUME IInv, NEW p \in Runs, NEW trigger \in Triggers, run[p].phase = "idle",
           Begin(p, trigger), UNCHANGED <<rule, lock, upstream, history, clock, ghosts>>
    PROVE  IInv'
  <1> DEFINE q == [Idle EXCEPT
                     !.phase = IF trigger # "direct" /\ TargetReached(rule) THEN "record" ELSE "wait",
                     !.trigger = trigger, !.runAt = clock]
  <1>1. clock \in Nat
    BY DEF IInv, TypeOK
  <1>2. q \in RunState
    BY <1>1, IdleType DEF RunState, Phases, Triggers
  <1>3. /\ q.phase \in {"record", "wait"} /\ q.trigger = trigger /\ q.runAt = clock
        /\ q.created = 0 /\ q.next = Never /\ (q.phase = "record" => q.trigger # "direct")
    BY IdleType DEF RunState, Idle, IdleRun
  <1>4. run' = [run EXCEPT ![p] = q]
    BY DEF Begin
  <1> HIDE DEF q
  <1>5. RunOK(q, clock, aliases'.total)
    BY <1>1, <1>3 DEF RunOK
  <1>6. ~Holding(p)
    BY DEF Holding
  <1>7. /\ run' \in [Runs -> RunState] /\ LockInv'
        /\ \A x \in Runs : RunOK(run'[x], clock', aliases'.total)
    BY <1>2, <1>3, <1>4, <1>5, <1>6, OneRun DEF upstream
  <1>8. spent' \in [runs : Nat, changes : Nat, answers : Nat]
    BY DEF Begin, IInv, TypeOK
  <1> QED
    BY <1>7, <1>8 DEF IInv, TypeOK, RuleCoherent, ghosts, limits, upstream

LEMMA ClientFailsStep ==
    ASSUME IInv, NEW p \in Runs, ClientFails(p)
    PROVE  IInv'
  <1> DEFINE q == [run[p] EXCEPT !.phase = IF Automated(p) THEN "record" ELSE "book",
                                 !.status = "error"]
  <1>1. run[p] \in RunState /\ run \in [Runs -> RunState] /\ RunOK(run[p], clock, aliases.total)
    BY DEF IInv, TypeOK
  <1>2. q \in RunState
    BY <1>1 DEF RunState, Phases, Statuses
  <1>3. /\ q.phase \in {"record", "book"} /\ q.runAt = run[p].runAt /\ q.next = run[p].next
        /\ (q.phase = "record" => q.trigger # "direct")
    BY <1>1 DEF RunState, Automated
  <1>4. run' = [run EXCEPT ![p] = q]
    BY <1>1 DEF ClientFails
  <1> HIDE DEF q
  <1>5. RunOK(q, clock, aliases'.total)
    BY <1>1, <1>3 DEF RunOK
  <1>6. /\ run' \in [Runs -> RunState] /\ LockInv'
        /\ \A x \in Runs : RunOK(run'[x], clock', aliases'.total)
    BY <1>2, <1>3, <1>4, <1>5, OneRun DEF ClientFails, Holding, upstream
  <1> QED
    BY <1>6 DEF IInv, TypeOK, RuleCoherent, ClientFails, ghosts, limits, upstream

(* A scheduled run that passes the second look reads a rule that was last  *)
(* run before it began: the rule is due, and a coherent rule is due later  *)
(* than its last run.                                                      *)
LEMMA AcquireStep ==
    ASSUME IInv, NEW p \in Runs, Acquire(p)
    PROVE  IInv'
  <1> DEFINE q == [run[p] EXCEPT !.phase = LockedPhase(p), !.snap = rule]
  <1>1. /\ run[p] \in RunState /\ run \in [Runs -> RunState] /\ rule \in Rule
        /\ run[p].runAt \in Nat /\ RunOK(run[p], clock, aliases.total)
        /\ Coherent(rule)
    BY DEF IInv, TypeOK, RunState, RuleCoherent
  <1>2. LockedPhase(p) \in {"leave", "release", "list"}
    BY DEF LockedPhase
  <1>3. q \in RunState
    BY <1>1, <1>2 DEF RunState, Phases
  <1>4. /\ q.phase = LockedPhase(p) /\ q.runAt = run[p].runAt /\ q.next = run[p].next
        /\ q.created = run[p].created /\ q.trigger = run[p].trigger /\ q.snap = rule
    BY <1>1 DEF RunState
  <1>5. ASSUME q.trigger = "scheduled", q.phase = "list"
        PROVE  rule.lastRunAt < run[p].runAt
    <2>1. Due(rule, run[p].runAt)
      BY <1>4, <1>5 DEF LockedPhase, StillDue
    <2>2. rule.lastRunAt \in Nat \cup {Never} /\ rule.nextRunAt \in Nat \cup {Never}
      BY <1>1 DEF Rule
    <2>3. rule.lastRunAt < rule.nextRunAt
      BY <1>1, <2>1 DEF Coherent, Due
    <2> QED
      BY <1>1, <2>1, <2>2, <2>3 DEF Due, Never
  <1>6. run' = [run EXCEPT ![p] = q]
    BY <1>1 DEF Acquire
  <1> HIDE DEF q
  <1>7. RunOK(q, clock, aliases'.total)
    BY <1>1, <1>2, <1>4, <1>5 DEF RunOK, Acquire
  <1>8. /\ run' \in [Runs -> RunState] /\ LockInv' /\ lock' \in Runs \cup {NoOne}
        /\ \A x \in Runs : RunOK(run'[x], clock', aliases'.total)
    BY <1>2, <1>3, <1>4, <1>6, <1>7, OneRun DEF Acquire, upstream
  <1>9. exact' \in BOOLEAN
    BY DEF Acquire, IInv, TypeOK
  <1> QED
    BY <1>8, <1>9 DEF IInv, TypeOK, RuleCoherent, Acquire, limits, upstream

LEMMA AcquireDirectStep ==
    ASSUME IInv, NEW p \in Runs, AcquireDirect(p)
    PROVE  IInv'
  <1>1. PICK n \in DirectCounts : run' = [run EXCEPT ![p].phase = "create", ![p].requested = n]
    BY DEF AcquireDirect
  <1> DEFINE q == [run[p] EXCEPT !.phase = "create", !.requested = n]
  <1>2. /\ run[p] \in RunState /\ run \in [Runs -> RunState]
        /\ RunOK(run[p], clock, aliases.total) /\ n \in 1..20 /\ n \in Nat
    BY RunAssumption DEF IInv, TypeOK
  <1>3. q \in RunState
    BY <1>2 DEF RunState, Phases
  <1>4. /\ q.phase = "create" /\ q.runAt = run[p].runAt /\ q.next = run[p].next
        /\ q.created = run[p].created /\ q.trigger = "direct" /\ q.requested = n
    BY <1>2 DEF RunState, AcquireDirect, Automated
  <1>5. run' = [run EXCEPT ![p] = q]
    BY <1>1, <1>2
  <1> HIDE DEF q
  <1>6. RunOK(q, clock, aliases'.total)
    BY <1>2, <1>4 DEF RunOK, AcquireDirect
  <1>7. /\ run' \in [Runs -> RunState] /\ LockInv' /\ lock' \in Runs \cup {NoOne}
        /\ \A x \in Runs : RunOK(run'[x], clock', aliases'.total)
    BY <1>3, <1>4, <1>5, <1>6, OneRun DEF AcquireDirect, upstream
  <1> QED
    BY <1>7 DEF IInv, TypeOK, RuleCoherent, AcquireDirect, ghosts, limits, upstream

LEMMA ListFailsStep ==
    ASSUME IInv, NEW p \in Runs, ListFails(p)
    PROVE  IInv'
  <1> DEFINE q == [run[p] EXCEPT !.phase = "release", !.status = "error"]
  <1>1. run[p] \in RunState /\ run \in [Runs -> RunState] /\ RunOK(run[p], clock, aliases.total)
    BY DEF IInv, TypeOK
  <1>2. q \in RunState
    BY <1>1 DEF RunState, Phases, Statuses
  <1>3. q.phase = "release" /\ q.runAt = run[p].runAt /\ q.next = run[p].next
    BY <1>1 DEF RunState
  <1>4. run' = [run EXCEPT ![p] = q]
    BY <1>1 DEF ListFails
  <1>5. lock = p
    BY DEF ListFails, IInv, LockInv, Holding
  <1> HIDE DEF q
  <1>6. RunOK(q, clock, aliases'.total)
    BY <1>1, <1>3 DEF RunOK
  <1>7. /\ run' \in [Runs -> RunState] /\ LockInv'
        /\ \A x \in Runs : RunOK(run'[x], clock', aliases'.total)
    BY <1>2, <1>3, <1>4, <1>5, <1>6, OneRun DEF ListFails
  <1> QED
    BY <1>7 DEF IInv, TypeOK, RuleCoherent, ListFails, ghosts, limits, upstream

(* Both ways to read the list: as it is, or as one without aliases. *)
Lists(p) == ListSucceeds(p) \/ ListBreaksOff(p)

LEMMA ListReads ==
    ASSUME IInv, NEW p \in Runs, Lists(p)
    PROVE  \E seen \in [total : Nat, active : Nat] :
              /\ seen.total <= aliases.total
              /\ run' = [run EXCEPT ![p] = Plan(p, seen)]
  <1> DEFINE none == [total |-> 0, active |-> 0]
  <1>1. /\ aliases \in [total : Nat, active : Nat] /\ aliases.total \in Nat
        /\ none \in [total : Nat, active : Nat] /\ none.total <= aliases.total
    BY DEF IInv, TypeOK
  <1> QED
    BY <1>1 DEF Lists, ListSucceeds, ListBreaksOff

LEMMA ListStep ==
    ASSUME IInv, NEW p \in Runs, Lists(p)
    PROVE  IInv'
  <1>0. PICK seen \in [total : Nat, active : Nat] :
           seen.total <= aliases.total /\ run' = [run EXCEPT ![p] = Plan(p, seen)]
    BY ListReads
  <1> DEFINE q == Plan(p, seen)
  <1>1. /\ run[p] \in RunState /\ run \in [Runs -> RunState]
        /\ RunOK(run[p], clock, aliases.total) /\ run[p].phase = "list"
        /\ run[p].created = 0 /\ TypeOK
        /\ (run[p].next # Never => run[p].next > run[p].runAt)
    BY DEF IInv, TypeOK, RunOK, Lists, ListSucceeds, ListBreaksOff
  <1>2. /\ q \in RunState /\ q.phase \in {"release", "create"}
        /\ q.created = 0 /\ q.runAt = run[p].runAt
        /\ q.trigger = run[p].trigger /\ q.snap = run[p].snap
        /\ (q.next # Never => q.next > q.runAt)
        /\ (q.phase = "create" =>
              /\ q.requested > 0
              /\ aliases.total + q.requested <= q.snap.cfg.maxTotal + q.unknown)
    BY <1>0, <1>1, PlanOK
  <1>3. /\ run' = [run EXCEPT ![p] = q] /\ lock' = lock /\ clock' = clock
        /\ aliases' = aliases
    BY <1>0 DEF Lists, ListSucceeds, ListBreaksOff, upstream
  <1>4. lock = p
    BY <1>1 DEF IInv, LockInv, Holding
  <1>5. /\ q.requested \in Nat /\ q.unknown \in Nat /\ aliases.total \in Nat
        /\ q.snap.cfg.maxTotal \in Nat
    BY <1>1, <1>2 DEF RunState, Rule, Config, TypeOK
  <1> HIDE DEF q
  <1>6. q.requested - q.created = q.requested
    BY <1>2, <1>5
  <1>7. q.phase = "create" =>
            aliases.total + (q.requested - q.created) <= q.snap.cfg.maxTotal + q.unknown
    BY <1>2, <1>5, <1>6
  <1>8. RunOK(q, clock, aliases'.total)
    BY <1>1, <1>2, <1>3, <1>5, <1>7 DEF RunOK
  <1>9. /\ run' \in [Runs -> RunState] /\ LockInv'
        /\ \A x \in Runs : RunOK(run'[x], clock', aliases'.total)
    BY <1>2, <1>3, <1>4, <1>8, OneRun
  <1> QED
    BY <1>3, <1>9 DEF IInv, TypeOK, RuleCoherent, Lists, ListSucceeds, ListBreaksOff,
                      ghosts, limits, upstream

(* One alias more upstream, one less to create: the sum stays.             *)
LEMMA CreateSucceedsStep ==
    ASSUME IInv, NEW p \in Runs, CreateSucceeds(p)
    PROVE  IInv'
  <1> DEFINE o    == run[p]
             last == o.created + 1 = o.requested
             after == IF last THEN "release" ELSE "create"
             status == IF last THEN "success" ELSE o.status
             unknown == IF last THEN 0 ELSE o.unknown
             q    == [o EXCEPT !.created = o.created + 1, !.attempt = 0, !.unknown = unknown,
                               !.phase = after, !.status = status]
  <1>1. /\ o \in RunState /\ run \in [Runs -> RunState] /\ o.phase = "create"
        /\ RunOK(o, clock, aliases.total) /\ o.created \in Nat /\ o.requested \in Nat
        /\ o.unknown \in Nat /\ o.snap \in Rule /\ o.snap.cfg.maxTotal \in Nat
        /\ aliases.total \in Nat /\ aliases.active \in Nat /\ aliases.active <= aliases.total
        /\ made \in Nat /\ cycleMade \in Nat /\ dayMade \in Nat
    BY DEF IInv, TypeOK, RunState, CreateSucceeds, Rule, Config
  <1>2. q \in RunState
    <2>1. /\ o.created + 1 \in Nat /\ after \in Phases /\ status \in Statuses
          /\ unknown \in Nat
      BY <1>1 DEF RunState, Phases, Statuses
    <2> HIDE DEF after, status, unknown, o
    <2> QED
      BY <1>1, <2>1 DEF RunState
  <1>3. /\ q.phase = (IF last THEN "release" ELSE "create")
        /\ q.runAt = o.runAt /\ q.next = o.next /\ q.created = o.created + 1
        /\ q.requested = o.requested /\ q.trigger = o.trigger /\ q.snap = o.snap
        /\ q.unknown = unknown /\ (~last => unknown = o.unknown)
    BY <1>1 DEF RunState
  <1>4. run' = [run EXCEPT ![p] = q]
    BY <1>1 DEF CreateSucceeds
  <1>5. lock = p
    BY <1>1 DEF IInv, LockInv, Holding
  <1>6. /\ aliases' \in [total : Nat, active : Nat] /\ aliases'.total = aliases.total + 1
        /\ aliases'.active <= aliases'.total
    BY <1>1 DEF CreateSucceeds, NewAlias
  <1>7. (aliases.total + 1) + (o.requested - (o.created + 1))
          = aliases.total + (o.requested - o.created)
    BY <1>1
  <1>8. q.phase = "create" => q.created < q.requested
    BY <1>1, <1>3 DEF RunOK
  <1> HIDE DEF q, o
  <1>9. RunOK(q, clock, aliases'.total)
    BY <1>1, <1>3, <1>6, <1>7, <1>8 DEF RunOK
  <1>10. /\ run' \in [Runs -> RunState] /\ LockInv'
         /\ \A x \in Runs : RunOK(run'[x], clock', aliases'.total)
    BY <1>2, <1>3, <1>4, <1>5, <1>9, OneRun DEF CreateSucceeds
  <1>11. made' \in Nat /\ cycleMade' \in Nat /\ dayMade' \in Nat
    BY <1>1 DEF CreateSucceeds
  <1> QED
    BY <1>6, <1>10, <1>11 DEF IInv, TypeOK, RuleCoherent, CreateSucceeds

(* A request is on its way that nobody waits for any more. *)
LEMMA LoseAnswerType ==
    ASSUME IInv, NEW p \in Runs, LoseAnswer(p)
    PROVE  /\ late' \in [Creators -> Nat] /\ aliases' = aliases
           /\ spent' \in [runs : Nat, changes : Nat, answers : Nat]
  <1>1. /\ late \in [Creators -> Nat] /\ spent \in [runs : Nat, changes : Nat, answers : Nat]
        /\ Creator(p) \in Creators
    BY DEF IInv, TypeOK, Creator, Creators
  <1> QED
    BY <1>1 DEF LoseAnswer

LEMMA RetryStep ==
    ASSUME IInv, NEW p \in Runs, Retry(p)
    PROVE  IInv'
  <1> DEFINE q == [run[p] EXCEPT !.attempt = run[p].attempt + 1]
  <1>1. /\ run[p] \in RunState /\ run \in [Runs -> RunState] /\ run[p].phase = "create"
        /\ RunOK(run[p], clock, aliases.total) /\ run[p].attempt \in Nat
    BY DEF IInv, TypeOK, RunState, Retry
  <1>2. q \in RunState
    BY <1>1 DEF RunState
  <1>3. /\ q.phase = "create" /\ q.runAt = run[p].runAt /\ q.next = run[p].next
        /\ q.created = run[p].created /\ q.requested = run[p].requested
        /\ q.trigger = run[p].trigger /\ q.snap = run[p].snap /\ q.unknown = run[p].unknown
    BY <1>1 DEF RunState
  <1>4. run' = [run EXCEPT ![p] = q]
    BY <1>1 DEF Retry
  <1>5. lock = p
    BY <1>1 DEF IInv, LockInv, Holding
  <1>6. /\ late' \in [Creators -> Nat] /\ aliases' = aliases
        /\ spent' \in [runs : Nat, changes : Nat, answers : Nat]
    BY LoseAnswerType DEF Retry
  <1> HIDE DEF q
  <1>7. RunOK(q, clock, aliases'.total)
    BY <1>1, <1>3, <1>6 DEF RunOK
  <1>8. /\ run' \in [Runs -> RunState] /\ LockInv'
        /\ \A x \in Runs : RunOK(run'[x], clock', aliases'.total)
    BY <1>2, <1>3, <1>4, <1>5, <1>6, <1>7, OneRun DEF Retry
  <1> QED
    BY <1>6, <1>8 DEF IInv, TypeOK, RuleCoherent, Retry, ghosts, limits

(* One alias more upstream, and one more that the loop does not know of.   *)
LEMMA ArrivesLateStep ==
    ASSUME IInv, NEW by \in Creators, ArrivesLate(by)
    PROVE  IInv'
  <1> DEFINE after(x) == [run[x] EXCEPT !.unknown = run[x].unknown + 1]
  <1>1. /\ run \in [Runs -> RunState] /\ lock \in Runs \cup {NoOne}
        /\ aliases.total \in Nat /\ aliases.active \in Nat /\ aliases.active <= aliases.total
        /\ late \in [Creators -> Nat] /\ rule \in Rule
        /\ cycleMade \in Nat /\ cycleStray \in Nat /\ dayMade \in Nat /\ dayStray \in Nat
    BY DEF IInv, TypeOK
  <1>2. ASSUME NEW x \in Runs
        PROVE  /\ after(x) \in RunState /\ after(x).unknown = run[x].unknown + 1
               /\ after(x).phase = run[x].phase /\ after(x).created = run[x].created
               /\ after(x).requested = run[x].requested /\ after(x).runAt = run[x].runAt
               /\ after(x).next = run[x].next /\ after(x).trigger = run[x].trigger
               /\ after(x).snap = run[x].snap
    <2>1. run[x] \in RunState /\ run[x].unknown \in Nat
      BY <1>1 DEF RunState
    <2> QED
      BY <2>1 DEF RunState
  <1>3. /\ run' = [x \in Runs |-> IF run[x].phase = "create" THEN after(x) ELSE run[x]]
        /\ lock' = lock /\ clock' = clock /\ rule' = rule
        /\ aliases' = [total |-> aliases.total + 1, active |-> aliases.active + 1]
    BY DEF ArrivesLate, NewAlias
  <1> HIDE DEF after
  <1>4. run' \in [Runs -> RunState]
    BY <1>1, <1>2, <1>3
  <1>5. \A x \in Runs : run'[x].phase = run[x].phase
    BY <1>2, <1>3
  <1>6. LockInv'
    BY <1>3, <1>5 DEF IInv, LockInv, Holding
  <1>7. ASSUME NEW x \in Runs
        PROVE  RunOK(run'[x], clock', aliases'.total)
    <2>1. /\ RunOK(run[x], clock, aliases.total)
          /\ run[x].created \in Nat /\ run[x].requested \in Nat /\ run[x].unknown \in Nat
          /\ run[x].snap.cfg.maxTotal \in Nat
      BY <1>1 DEF IInv, RunState, Rule, Config
    <2>2. CASE run[x].phase = "create"
      BY <1>1, <1>2, <1>3, <2>1, <2>2 DEF RunOK
    <2>3. CASE run[x].phase # "create"
      BY <1>3, <2>1, <2>3 DEF RunOK
    <2> QED
      BY <2>2, <2>3
  <1>8. /\ aliases' \in [total : Nat, active : Nat] /\ aliases'.active <= aliases'.total
    BY <1>1, <1>3
  <1>9. late' \in [Creators -> Nat]
    BY <1>1 DEF ArrivesLate
  <1>10. cycleMade' \in Nat /\ cycleStray' \in Nat /\ dayMade' \in Nat /\ dayStray' \in Nat
    BY <1>1 DEF ArrivesLate
  <1> QED
    BY <1>3, <1>4, <1>6, <1>7, <1>8, <1>9, <1>10 DEF IInv, TypeOK, RuleCoherent, ArrivesLate

LEMMA CreateFailsStep ==
    ASSUME IInv, NEW p \in Runs, NEW ghost \in BOOLEAN, CreateFails(p, ghost)
    PROVE  IInv'
  <1> DEFINE status == IF run[p].created > 0 THEN "partial" ELSE "error"
             q      == [run[p] EXCEPT !.phase = "release", !.attempt = 0, !.unknown = 0,
                                      !.status = status, !.pause = NoReason, !.next = Never]
  <1>1. /\ run[p] \in RunState /\ run \in [Runs -> RunState]
        /\ RunOK(run[p], clock, aliases.total)
        /\ late \in [Creators -> Nat]
        /\ spent \in [runs : Nat, changes : Nat, answers : Nat]
    BY DEF IInv, TypeOK
  <1>2. status \in Statuses
    BY DEF Statuses
  <1>3. run' = [run EXCEPT ![p] = q]
    BY <1>1 DEF CreateFails
  <1> HIDE DEF status
  <1>4. q \in RunState
    BY <1>1, <1>2 DEF RunState, Phases
  <1>5. q.phase = "release" /\ q.runAt = run[p].runAt /\ q.next = Never
    BY <1>1 DEF RunState
  <1>6. lock = p
    BY DEF CreateFails, IInv, LockInv, Holding
  <1>7. /\ late' \in [Creators -> Nat] /\ aliases' = aliases
        /\ spent' \in [runs : Nat, changes : Nat, answers : Nat]
    BY <1>1, LoseAnswerType DEF CreateFails, upstream
  <1> HIDE DEF q
  <1>8. RunOK(q, clock, aliases'.total)
    BY <1>1, <1>5 DEF RunOK
  <1>9. /\ run' \in [Runs -> RunState] /\ LockInv'
        /\ \A x \in Runs : RunOK(run'[x], clock', aliases'.total)
    BY <1>3, <1>4, <1>5, <1>6, <1>7, <1>8, OneRun DEF CreateFails
  <1> QED
    BY <1>7, <1>9 DEF IInv, TypeOK, RuleCoherent, CreateFails, ghosts, limits

LEMMA ReleaseStep ==
    ASSUME IInv, NEW p \in Runs, NEW saved \in BOOLEAN, Release(p, saved)
    PROVE  IInv'
  <1> DEFINE o      == run[p]
             phase  == IF Automated(p) THEN "record" ELSE "book"
             status == IF ~saved /\ o.status = "skipped" THEN "error" ELSE o.status
             next   == IF ~saved /\ o.status = "skipped" THEN Never ELSE o.next
             q      == [o EXCEPT !.phase = phase, !.status = status, !.next = next]
  <1>1. o \in RunState /\ run \in [Runs -> RunState] /\ RunOK(o, clock, aliases.total)
    BY DEF IInv, TypeOK
  <1>2. /\ phase \in {"record", "book"} /\ status \in Statuses
        /\ next \in Nat \cup {Never} /\ (next # Never => next > o.runAt)
        /\ (phase = "record" => o.trigger # "direct")
    BY <1>1 DEF RunState, Statuses, RunOK, Automated
  <1>3. run' = [run EXCEPT ![p] = q]
    BY <1>1 DEF Release
  <1>4. lock = p
    BY DEF Release, IInv, LockInv, Holding
  <1> HIDE DEF phase, status, next, o
  <1>5. q \in RunState
    BY <1>1, <1>2 DEF RunState, Phases
  <1>6. q.phase = phase /\ q.runAt = o.runAt /\ q.next = next /\ q.trigger = o.trigger
    BY <1>1 DEF RunState
  <1> HIDE DEF q
  <1>7. RunOK(q, clock, aliases'.total)
    BY <1>1, <1>2, <1>6 DEF RunOK
  <1>8. /\ run' \in [Runs -> RunState] /\ LockInv' /\ lock' \in Runs \cup {NoOne}
        /\ \A x \in Runs : RunOK(run'[x], clock', aliases'.total)
    BY <1>2, <1>3, <1>4, <1>5, <1>6, <1>7, OneRun DEF Release
  <1> QED
    BY <1>8 DEF IInv, TypeOK, RuleCoherent, Release, ghosts, limits, upstream

(* A process that has nothing left to do is idle again, or only books.     *)
LEMMA RestingOK ==
    ASSUME IInv
    PROVE  /\ RunOK(Idle, clock, aliases.total)
           /\ Idle.phase = "idle" /\ Idle \in RunState
           /\ \A t \in Triggers, n \in Nat, at \in Nat :
                LET q == [Idle EXCEPT !.phase = "book", !.trigger = t, !.runAt = at,
                                      !.created = n] IN
                /\ q \in RunState /\ q.phase = "book" /\ q.created = n
                /\ at <= clock => RunOK(q, clock, aliases.total)
  <1>1. Idle \in RunState
    BY IdleType
  <1>2. /\ Idle.phase = "idle" /\ Idle.runAt = 0 /\ Idle.next = Never /\ Idle.created = 0
    BY DEF Idle, IdleRun
  <1>3. clock \in Nat
    BY DEF IInv, TypeOK
  <1>4. RunOK(Idle, clock, aliases.total)
    BY <1>2, <1>3 DEF RunOK
  <1>5. ASSUME NEW t \in Triggers, NEW n \in Nat, NEW at \in Nat
        PROVE  LET q == [Idle EXCEPT !.phase = "book", !.trigger = t, !.runAt = at,
                                     !.created = n] IN
               /\ q \in RunState /\ q.phase = "book" /\ q.created = n
               /\ at <= clock => RunOK(q, clock, aliases.total)
    <2> DEFINE q == [Idle EXCEPT !.phase = "book", !.trigger = t, !.runAt = at, !.created = n]
    <2>1. q \in RunState
      BY <1>1 DEF RunState, Phases
    <2>2. q.phase = "book" /\ q.runAt = at /\ q.next = Never /\ q.created = n
      BY <1>1, <1>2 DEF RunState
    <2> HIDE DEF q
    <2>3. at <= clock => RunOK(q, clock, aliases.total)
      BY <1>3, <2>2 DEF RunOK
    <2> QED
      BY <2>1, <2>2, <2>3 DEF q
  <1> QED
    BY <1>1, <1>2, <1>4, <1>5

LEMMA LeaveStep ==
    ASSUME IInv, NEW p \in Runs, Leave(p)
    PROVE  IInv'
  <1>1. lock = p
    BY DEF Leave, IInv, LockInv, Holding
  <1>2. RunOK(Idle, clock, aliases'.total) /\ Idle.phase = "idle" /\ Idle \in RunState
    BY RestingOK DEF Leave, upstream
  <1>3. /\ run' \in [Runs -> RunState] /\ LockInv' /\ lock' \in Runs \cup {NoOne}
        /\ \A x \in Runs : RunOK(run'[x], clock', aliases'.total)
    BY <1>1, <1>2, OneRun DEF Leave
  <1> QED
    BY <1>3 DEF IInv, TypeOK, RuleCoherent, Leave, ghosts, limits, upstream

(* What a run hands to the store is a result, for a time after its start.  *)
LEMMA ResultType ==
    ASSUME IInv, NEW p \in Runs
    PROVE  /\ ResultOf(p) \in RunResult
           /\ ResultOf(p).nextRunAt # Never => ResultOf(p).nextRunAt > run[p].runAt
           /\ run[p].runAt \in Nat /\ run[p].runAt <= clock
  <1>1. run[p] \in RunState /\ RunOK(run[p], clock, aliases.total)
    BY DEF IInv, TypeOK
  <1> QED
    BY <1>1 DEF ResultOf, RunResult, RunState, RunOK

LEMMA RecordStep ==
    ASSUME IInv, NEW p \in Runs, Record(p)
    PROVE  IInv' /\ (rule'.enabled => rule.enabled) /\ rule'.cfg = rule.cfg
  <1> DEFINE q == [Idle EXCEPT !.phase = "book", !.trigger = run[p].trigger,
                               !.runAt = run[p].runAt, !.created = run[p].created]
  <1>1. rule \in Rule /\ Coherent(rule) /\ run[p] \in RunState /\ run[p].runAt <= clock
    BY DEF IInv, TypeOK, RuleCoherent, RunOK
  <1>2. /\ rule' \in Rule /\ Coherent(rule') /\ rule'.lastRunAt = run[p].runAt
        /\ (rule'.enabled => rule.enabled) /\ rule'.cfg = rule.cfg
    BY <1>1, ResultType, RecordRunOK DEF Record, Recorded
  <1>3. q \in RunState /\ q.phase = "book" /\ RunOK(q, clock, aliases.total)
    BY <1>1, RestingOK DEF RunState
  <1>4. run' = [run EXCEPT ![p] = q]
    BY DEF Record
  <1>5. ~Holding(p)
    BY DEF Holding, Record
  <1> HIDE DEF q
  <1>6. /\ run' \in [Runs -> RunState] /\ LockInv'
        /\ \A x \in Runs : RunOK(run'[x], clock', aliases'.total)
    BY <1>3, <1>4, <1>5, OneRun DEF Record, upstream
  <1>7. rule'.lastRunAt <= clock'
    BY <1>2, ResultType DEF Record
  <1> QED
    BY <1>2, <1>6, <1>7 DEF IInv, TypeOK, RuleCoherent, Record, ghosts, limits, upstream

(* One batch more, and no more of them kept than those and the new one.    *)
LEMMA WithBatchType ==
    ASSUME NEW h \in History, NEW b \in Batch
    PROVE  /\ WithBatch(h, b) \in History
           /\ WithBatch(h, b).batches = Append(h.batches, b)
           /\ WithBatch(h, b).loaded = h.loaded
  <1> DEFINE n == Len(h.batches) + 1
             longer == [h EXCEPT !.batches = Append(@, b), !.kept = @ \cup {n}]
  <1>1. /\ Append(h.batches, b) \in Seq(Batch) /\ n \in Nat
        /\ h.kept \cup {n} \in SUBSET Nat
    BY DEF History
  <1>2. /\ longer \in History /\ longer.batches = Append(h.batches, b)
        /\ longer.loaded = h.loaded
    BY <1>1 DEF History
  <1>3. WithBatch(h, b) = [longer EXCEPT !.kept = Kept(longer)]
    BY DEF WithBatch
  <1> HIDE DEF longer
  <1>4. Kept(longer) \in SUBSET Nat
    BY <1>2 DEF Kept, History
  <1> QED
    BY <1>2, <1>3, <1>4 DEF History

(* The three ways a process becomes idle without touching the rule.        *)
LEMMA ReturnStep ==
    ASSUME IInv, NEW p \in Runs, RecordFails(p) \/ Book(p) \/ BookFails(p)
    PROVE  IInv'
  <1>1. /\ ~Holding(p) /\ run' = [run EXCEPT ![p] = Idle]
        /\ lock' = lock /\ clock' = clock /\ aliases' = aliases /\ rule' = rule
        /\ late' = late /\ spent' = spent /\ made' = made
        /\ cycleMade' = cycleMade /\ cycleStray' = cycleStray
        /\ dayMade' = dayMade /\ dayStray' = dayStray
    BY DEF RecordFails, Book, BookFails, Holding, ghosts, limits, upstream
  <1>2. history' \in History
    <2>1. history \in History /\ clock \in Nat /\ run[p].runAt \in Nat /\ run[p].created \in Nat
      BY DEF IInv, TypeOK, RunState
    <2>2. CASE Book(p)
      <3> DEFINE b == [at |-> IF Automated(p) THEN run[p].runAt ELSE clock,
                       created |-> run[p].created]
      <3>1. b \in Batch /\ history' = WithBatch(history, b)
        BY <2>1, <2>2 DEF Batch, Book
      <3> QED
        BY <2>1, <3>1, WithBatchType
    <2> QED
      BY <2>1, <2>2 DEF RecordFails, BookFails
  <1>5. exact' \in BOOLEAN /\ lost' \in BOOLEAN
    <2>1. exact \in BOOLEAN /\ lost \in BOOLEAN
      BY DEF IInv, TypeOK
    <2> QED
      BY <2>1, Zenon DEF RecordFails, Book, BookFails, ghosts, limits, upstream
  <1>3. RunOK(Idle, clock, aliases'.total) /\ Idle.phase = "idle" /\ Idle \in RunState
    BY <1>1, RestingOK
  <1>4. /\ run' \in [Runs -> RunState] /\ LockInv'
        /\ \A x \in Runs : RunOK(run'[x], clock', aliases'.total)
    BY <1>1, <1>3, OneRun
  <1> QED
    BY <1>1, <1>2, <1>4, <1>5 DEF IInv, TypeOK, RuleCoherent
-----------------------------------------------------------------------------
(* Steps of the operator, the clock and the server.                        *)

LEMMA RereadType ==
    ASSUME NEW h \in History
    PROVE  /\ Reread(h) \in History
           /\ Reread(h).batches = h.batches /\ Reread(h).kept = h.kept
  BY DEF Reread, History

LEMMA OperatorStep ==
    ASSUME IInv, Operator \/ Defer
    PROVE  IInv'
  <1>1. /\ rule \in Rule /\ Coherent(rule) /\ clock \in Nat /\ rule.lastRunAt <= clock
        /\ rule.lastRunAt \in Nat \cup {Never}
    BY DEF IInv, TypeOK, RuleCoherent, Rule
  <1>2. /\ run' = run /\ lock' = lock /\ clock' = clock /\ aliases' = aliases
        /\ late' = late /\ made' = made /\ lost' = lost
    BY DEF Operator, Defer, SetAutomation, Pause, Resume, Reload, ghosts, limits, upstream
  <1>3. spent' \in [runs : Nat, changes : Nat, answers : Nat]
    BY DEF Operator, Defer, SetAutomation, Pause, Resume, Reload, Change, IInv, TypeOK
  <1>6. cycleMade' \in Nat /\ cycleStray' \in Nat /\ dayMade' \in Nat /\ dayStray' \in Nat
    BY DEF Operator, Defer, SetAutomation, Pause, Resume, Reload, ghosts, limits, IInv, TypeOK
  <1>8. history' \in History
    BY RereadType DEF Operator, Defer, SetAutomation, Pause, Resume, Reload, IInv, TypeOK
  <1>7. exact' \in BOOLEAN
    <2>1. exact \in BOOLEAN
      BY DEF IInv, TypeOK
    <2> QED
      BY <2>1, Zenon DEF Operator, Defer, SetAutomation, Pause, Resume, Reload, ghosts
  <1>4. LockInv' /\ \A x \in Runs : RunOK(run'[x], clock', aliases'.total)
    BY <1>1, <1>2, NoRun
  <1>5. rule' \in Rule /\ Coherent(rule') /\ rule'.lastRunAt = rule.lastRunAt
    <2>1. ASSUME NEW c \in Configs, NEW on \in BOOLEAN, SetAutomation(c, on)
          PROVE  rule' \in Rule /\ Coherent(rule') /\ rule'.lastRunAt = rule.lastRunAt
      <3>1. c \in Config
        BY RunAssumption
      <3> QED
        BY <1>1, <2>1, <3>1, SetRuleOK DEF SetAutomation
    <2>2. ASSUME Pause
          PROVE  rule' \in Rule /\ Coherent(rule') /\ rule'.lastRunAt = rule.lastRunAt
      BY <1>1, <2>2, PauseRuleOK DEF Pause
    <2>3. ASSUME Resume
          PROVE  rule' \in Rule /\ Coherent(rule') /\ rule'.lastRunAt = rule.lastRunAt
      BY <1>1, <2>3, ResumeRuleOK DEF Resume
    <2>4. ASSUME Defer
          PROVE  rule' \in Rule /\ Coherent(rule') /\ rule'.lastRunAt = rule.lastRunAt
      BY <1>1, <2>4, DeferRuleOK DEF Defer
    <2>5. ASSUME Reload
          PROVE  rule' \in Rule /\ Coherent(rule') /\ rule'.lastRunAt = rule.lastRunAt
      BY <1>1, <2>5 DEF Reload
    <2> QED
      BY <2>1, <2>2, <2>3, <2>4, <2>5 DEF Operator
  <1> QED
    BY <1>1, <1>2, <1>3, <1>4, <1>5, <1>6, <1>7, <1>8 DEF IInv, TypeOK, RuleCoherent

LEMMA ChangeAliasStep ==
    ASSUME IInv, ChangeAlias
    PROVE  IInv'
  <1>1. /\ aliases.total \in Nat /\ aliases.active \in Nat /\ clock \in Nat
        /\ aliases \in [total : Nat, active : Nat] /\ aliases.active <= aliases.total
    BY DEF IInv, TypeOK
  <1>2. aliases' \in [total : Nat, active : Nat] /\ aliases'.active <= aliases'.total
    <2>1. CASE aliases.active > 0 /\ aliases' = [aliases EXCEPT !.active = @ - 1]
      BY <1>1, <2>1
    <2>2. CASE aliases.active < aliases.total /\ aliases' = [aliases EXCEPT !.active = @ + 1]
      BY <1>1, <2>2
    <2>3. CASE aliases.active < aliases.total /\ aliases' = [aliases EXCEPT !.total = @ - 1]
      BY <1>1, <2>3
    <2>4. CASE /\ aliases.active > 0
               /\ aliases' = [total |-> aliases.total - 1, active |-> aliases.active - 1]
      BY <1>1, <2>4
    <2> QED
      BY <2>1, <2>2, <2>3, <2>4 DEF ChangeAlias
  <1>3. LockInv' /\ \A x \in Runs : RunOK(run'[x], clock', aliases'.total)
    BY <1>1, NoRun DEF ChangeAlias
  <1>4. spent' \in [runs : Nat, changes : Nat, answers : Nat]
    BY DEF ChangeAlias, Change, IInv, TypeOK
  <1> QED
    BY <1>2, <1>3, <1>4 DEF IInv, TypeOK, RuleCoherent, ChangeAlias, ghosts, limits, upstream

LEMMA TickStep ==
    ASSUME IInv, Tick
    PROVE  IInv'
  <1>1. clock \in Nat /\ clock' = clock + 1 /\ rule.lastRunAt \in Nat \cup {Never}
    BY DEF IInv, TypeOK, Tick, Rule
  <1>2. LockInv' /\ \A x \in Runs : RunOK(run'[x], clock', aliases'.total)
    BY <1>1, NoRun DEF Tick, upstream
  <1>3. rule'.lastRunAt <= clock'
    BY <1>1 DEF IInv, Tick, Never
  <1>4. dayMade' \in Nat /\ dayStray' \in Nat /\ exact' \in BOOLEAN
    BY DEF Tick, IInv, TypeOK
  <1> QED
    BY <1>1, <1>2, <1>3, <1>4 DEF IInv, TypeOK, RuleCoherent, Tick, upstream

LEMMA RestartStep ==
    ASSUME IInv, Restart
    PROVE  IInv'
  <1>1. RunOK(Idle, clock, aliases.total) /\ Idle.phase = "idle" /\ Idle \in RunState
    BY RestingOK
  <1>2. /\ run' \in [Runs -> RunState] /\ \A x \in Runs : run'[x] = Idle
        /\ lock' = NoOne /\ clock' = clock /\ aliases' = aliases
    BY <1>1 DEF Restart, upstream
  <1>3. LockInv'
    BY <1>1, <1>2, RunAssumption DEF LockInv, Holding
  <1>4. \A x \in Runs : RunOK(run'[x], clock', aliases'.total)
    BY <1>1, <1>2
  <1>5. /\ spent' \in [runs : Nat, changes : Nat, answers : Nat]
        /\ exact' \in BOOLEAN /\ lost' \in BOOLEAN
    BY DEF Restart, Change, IInv, TypeOK
  <1>6. history' \in History
    BY RereadType DEF Restart, IInv, TypeOK
  <1> QED
    BY <1>2, <1>3, <1>4, <1>5, <1>6 DEF IInv, TypeOK, RuleCoherent, Restart, limits, upstream

LEMMA Stutter ==
    ASSUME IInv, UNCHANGED vars
    PROVE  IInv'
  BY DEF IInv, TypeOK, RuleCoherent, LockInv, Holding, vars, ghosts, limits, upstream
-----------------------------------------------------------------------------
LEMMA InitIInv == Init => IInv
  <1> SUFFICES ASSUME Init PROVE IInv
    OBVIOUS
  <1>1. PICK c \in Configs, on \in BOOLEAN :
           (on => HasConfiguration(c)) /\ rule = FirstRule(c, on, 0)
    BY DEF Init
  <1>2. c \in Config
    BY RunAssumption
  <1>3. rule \in Rule /\ Coherent(rule)
    BY <1>1, <1>2, FirstRuleOK
  <1>4. rule.lastRunAt = Never
    BY <1>1 DEF FirstRule, NewRule
  <1>5. /\ run \in [Runs -> RunState] /\ \A p \in Runs : run[p] = Idle
        /\ clock = 0 /\ aliases.total \in Nat /\ lock = NoOne
        /\ aliases \in [total : Nat, active : Nat] /\ aliases.active <= aliases.total
    BY IdleType, RunAssumption DEF Init
  <1>6. Idle.phase = "idle" /\ Idle.runAt = 0 /\ Idle.next = Never /\ Idle.created = 0
    BY DEF Idle, IdleRun
  <1>7. LockInv
    BY <1>5, <1>6, RunAssumption DEF LockInv, Holding
  <1>8. \A p \in Runs : RunOK(run[p], clock, aliases.total)
    BY <1>5, <1>6 DEF RunOK
  <1>9. TypeOK
    <2>1. /\ clock \in Nat /\ made \in Nat /\ late \in [Creators -> Nat]
          /\ cycleMade \in Nat /\ cycleStray \in Nat /\ dayMade \in Nat /\ dayStray \in Nat
      BY DEF Init
    <2>4. history \in History
      <3>1. <<>> \in Seq(Batch)
        OBVIOUS
      <3> QED
        BY <3>1 DEF Init, History
    <2>2. spent \in [runs : Nat, changes : Nat, answers : Nat]
      BY DEF Init
    <2>3. exact \in BOOLEAN /\ lost \in BOOLEAN
      BY Zenon DEF Init
    <2> QED
      BY <1>3, <1>5, <2>1, <2>2, <2>3, <2>4 DEF TypeOK
  <1> QED
    BY <1>3, <1>4, <1>5, <1>7, <1>8, <1>9 DEF IInv, RuleCoherent, Never

LEMMA NextIInv == IInv /\ [Next]_vars => IInv'
  <1> SUFFICES ASSUME IInv, [Next]_vars PROVE IInv'
    OBVIOUS
  <1>1. CASE UNCHANGED vars
    BY <1>1, Stutter
  <1>2. ASSUME NEW p \in Runs, RunStep(p)
        PROVE  IInv'
    <2>1. CASE StartScheduled(p)
      BY <2>1, BeginStep DEF StartScheduled, Triggers
    <2>2. CASE StartManual(p)
      BY <2>2, BeginStep DEF StartManual, Triggers
    <2>3. CASE StartDirect(p)
      BY <2>3, BeginStep DEF StartDirect, Triggers
    <2>4. CASE ClientFails(p)
      BY <2>4, ClientFailsStep
    <2>5. CASE Acquire(p)
      BY <2>5, AcquireStep
    <2>6. CASE AcquireDirect(p)
      BY <2>6, AcquireDirectStep
    <2>7. CASE ListFails(p)
      BY <2>7, ListFailsStep
    <2>8. CASE ListSucceeds(p)
      BY <2>8, ListStep DEF Lists
    <2>9. CASE CreateSucceeds(p)
      BY <2>9, CreateSucceedsStep
    <2>10. CASE CreateFails(p, FALSE)
      BY <2>10, CreateFailsStep
    <2>11. CASE Release(p, TRUE)
      BY <2>11, ReleaseStep
    <2>12. CASE Leave(p)
      BY <2>12, LeaveStep
    <2>13. CASE Record(p)
      BY <2>13, RecordStep
    <2>14. CASE Book(p)
      BY <2>14, ReturnStep
    <2> QED
      BY <1>2, <2>1, <2>2, <2>3, <2>4, <2>5, <2>6, <2>7, <2>8, <2>9, <2>10, <2>11, <2>12,
         <2>13, <2>14 DEF RunStep
  <1>3. ASSUME NEW p \in Runs, FaultStep(p)
        PROVE  IInv'
    BY <1>3, ListStep, RetryStep, CreateFailsStep, ReleaseStep, ReturnStep
       DEF FaultStep, Lists
  <1>4. CASE Operator \/ Defer
    BY <1>4, OperatorStep
  <1>5. CASE ChangeAlias
    BY <1>5, ChangeAliasStep
  <1>6. CASE Tick
    BY <1>6, TickStep
  <1>7. CASE Restart
    BY <1>7, RestartStep
  <1>8. ASSUME NEW by \in Creators, ArrivesLate(by)
        PROVE  IInv'
    BY <1>8, ArrivesLateStep
  <1> QED
    BY <1>1, <1>2, <1>3, <1>4, <1>5, <1>6, <1>7, <1>8 DEF Next

THEOREM Invariance == Spec => []IInv
  BY InitIInv, NextIInv, PTL DEF Spec

(* Type correctness of AutomationRun. *)
THEOREM TypeCorrect == Spec => []TypeOK
  <1>1. IInv => TypeOK
    BY DEF IInv
  <1> QED
    BY <1>1, Invariance, PTL

(* The flags of the stored rule always tell one story: whatever the        *)
(* operator, the runs and the scheduler did to it, in whatever order, an   *)
(* enabled rule has work, a next run after its last one, and no reason to  *)
(* be paused (automation.go: Set, Record, Pause, Resume and Defer).        *)
THEOREM RuleStaysCoherent == Spec => []RuleCoherent
  <1>1. IInv => RuleCoherent
    BY DEF IInv
  <1> QED
    BY <1>1, Invariance, PTL

(* max_total_aliases holds throughout a creation loop, for any number of   *)
(* concurrent runs, direct creations and deletions: the account lock keeps *)
(* the number of aliases read before the loop true but for requests nobody *)
(* waits for any more.  On top come the aliases missing from a list that   *)
(* broke off, and those that such requests add during the loop.            *)
THEOREM TotalLimitAlwaysHonoured == Spec => []TotalLimitHonoured
  <1>1. IInv => TotalLimitHonoured
    BY DEF IInv, RunOK, TotalLimitHonoured, Automated
  <1> QED
    BY <1>1, Invariance, PTL

(* A scheduled run never executes a rule that was run after it began: the  *)
(* second look at the rule, under the lock, is enough once the earlier run *)
(* has been recorded.                                                      *)
THEOREM NothingReplayed == Spec => []NoReplay
  <1>1. IInv => NoReplay
    BY DEF IInv, RunOK, NoReplay
  <1> QED
    BY <1>1, Invariance, PTL

(* RecordAliasAutomationRun never switches a rule on and never replaces    *)
(* its configuration, whatever happened to the rule since the run read it. *)
THEOREM RecordNeverEnables == Spec => RunsNeverEnable
  <1>1. IInv /\ [Next]_vars =>
           [(\E p \in Runs : Record(p)) =>
               /\ rule'.enabled => rule.enabled
               /\ rule'.cfg = rule.cfg]_vars
    BY RecordStep
  <1> QED
    BY <1>1, Invariance, PTL DEF Spec, RunsNeverEnable
-----------------------------------------------------------------------------
(* The counters and the limits.  A process acts on the rule from the time  *)
(* it took the lock until it has nothing left to record.                   *)
Acting(q) ==
    /\ q.trigger # "direct"
    /\ q.phase \in {"list", "create", "release"} \/ (q.phase = "record" /\ q.created > 0)

(* An automated process that has begun and not yet recorded. *)
Underway(q) == q.trigger # "direct" /\ q.phase \notin {"idle", "book"}

(* What an acting process adds to the counters at most. *)
Asked(q) == IF q.phase = "create" THEN q.requested ELSE q.created

(* On day d, a process that acts on rule r executes its configuration,     *)
(* adds no more than fits, and has read the counters that are stored.      *)
ActingOK(q, r, d) ==
    /\ q.snap.cfg = r.cfg
    /\ r.cfg.target > 0 => r.created + Asked(q) <= r.cfg.target
    /\ r.cfg.dailyLimit > 0 => CountedOn(r, d) + Asked(q) <= r.cfg.dailyLimit
    /\ q.phase = "list" => /\ q.snap.created = r.created
                           /\ CountedOn(q.snap, d) = CountedOn(r, d)

(* What was created in the cycle and on day d, and answered.               *)
cycleCount == cycleMade - cycleStray
dayCount   == dayMade - dayStray

(* What was created in the cycle and on day d is what the rule has counted *)
(* and n aliases more.                                                     *)
Balanced(r, cycle, day, d, n) ==
    /\ r.cfg.target > 0 => cycle <= r.created + n
    /\ IF r.cfg.dailyLimit > 0 THEN day <= CountedOn(r, d) + n ELSE day = 0

LEMMA CountTypes ==
    ASSUME IInv
    PROVE  /\ cycleMade \in Nat /\ cycleStray \in Nat /\ cycleCount \in Int
           /\ dayMade \in Nat /\ dayStray \in Nat /\ dayCount \in Int
  BY DEF IInv, TypeOK, cycleCount, dayCount

(* At most one process acts; what is not recorded yet is what it created,  *)
(* and nothing when nobody acts.                                           *)
OneActs == \A x, y \in Runs : Acting(run[x]) /\ Acting(run[y]) => x = y
ActingFits == \A x \in Runs : Acting(run[x]) => ActingOK(run[x], rule, DayOf(clock))
Outstanding ==
    \A x \in Runs : Acting(run[x]) =>
        Balanced(rule, cycleCount, dayCount, DayOf(clock), run[x].created)
Settled ==
    (\A x \in Runs : ~Acting(run[x])) => Balanced(rule, cycleCount, dayCount, DayOf(clock), 0)

SameDay == \A x \in Runs : Underway(run[x]) => DayOf(run[x].runAt) = DayOf(clock)

(* The counters of the rule can be relied on while `exact` holds.  This is *)
(* inductive together with IInv.                                           *)
CountersOK ==
    exact => /\ OneActs
             /\ ActingFits
             /\ Outstanding
             /\ Settled
             /\ SameDay
             /\ rule.daily <= rule.cfg.dailyLimit

(* One process goes on and nothing is counted. *)
LEMMA Uncounted ==
    ASSUME IInv, CountersOK, NEW p \in Runs, NEW q,
           run' = [run EXCEPT ![p] = q],
           rule' = rule, clock' = clock, cycleCount' = cycleCount, dayCount' = dayCount,
           exact' => exact,
           exact /\ exact' /\ Underway(q) => DayOf(q.runAt) = DayOf(clock),
           exact /\ exact' /\ Acting(q) =>
               /\ Acting(run[p]) /\ q.created = run[p].created
               /\ ActingOK(q, rule, DayOf(clock)),
           exact /\ exact' /\ Acting(run[p]) /\ ~Acting(q) => run[p].created = 0
    PROVE  CountersOK'
  <1> SUFFICES ASSUME exact'
               PROVE  /\ OneActs' /\ ActingFits' /\ Outstanding' /\ Settled' /\ SameDay'
                      /\ rule'.daily <= rule'.cfg.dailyLimit
    BY DEF CountersOK
  <1>1. /\ exact /\ OneActs /\ ActingFits /\ Outstanding /\ Settled /\ SameDay
        /\ rule.daily <= rule.cfg.dailyLimit
    BY DEF CountersOK
  <1>2. run'[p] = q /\ \A x \in Runs \ {p} : run'[x] = run[x]
    BY DEF IInv, TypeOK
  <1>3. \A x \in Runs : Acting(run'[x]) => /\ Acting(run[x]) /\ run'[x].created = run[x].created
                                           /\ ActingOK(run'[x], rule, DayOf(clock))
    BY <1>1, <1>2 DEF ActingFits
  <1>4. OneActs'
    BY <1>1, <1>3 DEF OneActs
  <1>5. ActingFits'
    BY <1>3 DEF ActingFits
  <1>6. Outstanding'
    BY <1>1, <1>3 DEF Outstanding
  <1>7. Settled'
    <2> SUFFICES ASSUME \A x \in Runs : ~Acting(run'[x])
                 PROVE  Balanced(rule, cycleCount, dayCount, DayOf(clock), 0)
      BY DEF Settled
    <2>1. CASE \A x \in Runs : ~Acting(run[x])
      BY <1>1, <2>1 DEF Settled
    <2>2. CASE \E x \in Runs : Acting(run[x])
      <3>1. Acting(run[p]) /\ ~Acting(q)
        BY <1>2, <2>2
      <3> QED
        BY <1>1, <3>1 DEF Outstanding
    <2> QED
      BY <2>1, <2>2
  <1>8. SameDay'
    BY <1>1, <1>2 DEF SameDay
  <1> QED
    BY <1>1, <1>4, <1>5, <1>6, <1>7, <1>8

(* Who is not acting: what a process does outside the loop. *)
LEMMA BeginCounts ==
    ASSUME IInv, CountersOK, NEW p \in Runs, NEW trigger \in Triggers, run[p].phase = "idle",
           Begin(p, trigger), UNCHANGED <<rule, lock, upstream, history, clock, ghosts>>
    PROVE  CountersOK'
  <1> DEFINE q == [Idle EXCEPT
                     !.phase = IF trigger # "direct" /\ TargetReached(rule) THEN "record" ELSE "wait",
                     !.trigger = trigger, !.runAt = clock]
  <1>1. /\ q.phase \in {"record", "wait"} /\ q.runAt = clock /\ q.created = 0
    BY IdleType DEF RunState, Idle, IdleRun
  <1>2. run' = [run EXCEPT ![p] = q]
    BY DEF Begin
  <1> HIDE DEF q
  <1>3. ~Acting(q) /\ ~Acting(run[p])
    BY <1>1 DEF Acting
  <1> QED
    BY <1>1, <1>2, <1>3, Uncounted DEF ghosts, limits, upstream, cycleCount, dayCount

LEMMA ClientFailsCounts ==
    ASSUME IInv, CountersOK, NEW p \in Runs, ClientFails(p)
    PROVE  CountersOK'
  <1> DEFINE q == [run[p] EXCEPT !.phase = IF Automated(p) THEN "record" ELSE "book",
                                 !.status = "error"]
  <1>1. run[p] \in RunState /\ run \in [Runs -> RunState] /\ run[p].created = 0
        /\ run[p].phase = "wait"
    BY DEF IInv, TypeOK, RunOK, ClientFails
  <1>2. /\ q.phase \in {"record", "book"} /\ q.runAt = run[p].runAt /\ q.created = 0
        /\ q.trigger = run[p].trigger
    BY <1>1 DEF RunState
  <1>3. run' = [run EXCEPT ![p] = q]
    BY <1>1 DEF ClientFails
  <1> HIDE DEF q
  <1>4. ~Acting(q) /\ ~Acting(run[p])
    BY <1>1, <1>2 DEF Acting
  <1>5. exact /\ Underway(q) => DayOf(q.runAt) = DayOf(clock)
    BY <1>1, <1>2 DEF Underway, CountersOK, SameDay
  <1> QED
    BY <1>3, <1>4, <1>5, Uncounted DEF ghosts, limits, upstream, ClientFails, cycleCount, dayCount

(* The run that takes the lock while nobody else executes the rule finds   *)
(* everything recorded.                                                    *)
LEMMA AcquireCounts ==
    ASSUME IInv, CountersOK, NEW p \in Runs, Acquire(p)
    PROVE  CountersOK'
  <1> DEFINE q == [run[p] EXCEPT !.phase = LockedPhase(p), !.snap = rule]
             d == DayOf(clock)
  <1> SUFFICES ASSUME exact'
               PROVE  /\ OneActs' /\ ActingFits' /\ Outstanding' /\ Settled' /\ SameDay'
                      /\ rule'.daily <= rule'.cfg.dailyLimit
    BY DEF CountersOK
  <1>1. /\ exact /\ OneActs /\ ActingFits /\ Outstanding /\ Settled /\ SameDay
        /\ rule.daily <= rule.cfg.dailyLimit /\ ~ReadsStale(p)
    BY DEF CountersOK, Acquire
  <1>2. /\ run[p] \in RunState /\ run \in [Runs -> RunState] /\ rule \in Rule
        /\ run[p].created = 0 /\ run[p].phase = "wait" /\ Coherent(rule)
    BY DEF IInv, TypeOK, RunOK, Acquire, RuleCoherent
  <1>3. /\ q.phase = LockedPhase(p) /\ q.runAt = run[p].runAt /\ q.trigger = run[p].trigger
        /\ q.created = 0 /\ q.snap = rule
    BY <1>2 DEF RunState
  <1>4. q.phase \in {"leave", "list", "release"}
    BY <1>3 DEF LockedPhase
  <1>5. /\ rule' = rule /\ clock' = clock /\ cycleCount' = cycleCount /\ dayCount' = dayCount
        /\ run' = [run EXCEPT ![p] = q]
    BY <1>2 DEF Acquire, limits, cycleCount, dayCount
  <1> HIDE DEF q
  <1>6. run'[p] = q /\ \A x \in Runs \ {p} : run'[x] = run[x]
    BY <1>2, <1>5
  <1>7. \A x \in Runs : ~Acting(run[x])
    <2>1. ~Acting(run[p])
      BY <1>2 DEF Acting
    <2>2. ASSUME NEW x \in Runs \ {p} PROVE ~Acting(run[x])
      BY <1>1 DEF ReadsStale, Executing, Automated, Acting
    <2> QED
      BY <2>1, <2>2
  <1>8. Balanced(rule, cycleCount, dayCount, d, 0)
    BY <1>1, <1>7 DEF Settled
  <1>9. ActingOK(q, rule, d)
    <2>1. /\ rule.created \in Nat /\ rule.created <= rule.cfg.target
          /\ CountedOn(rule, d) \in Nat /\ CountedOn(rule, d) <= rule.cfg.dailyLimit
      BY <1>1, <1>2, CountedType DEF Coherent
    <2>2. Asked(q) = 0
      BY <1>3, <1>4 DEF Asked
    <2> QED
      BY <1>3, <2>1, <2>2 DEF ActingOK
  <1>10. OneActs'
    BY <1>6, <1>7 DEF OneActs
  <1>11. ActingFits'
    BY <1>5, <1>6, <1>7, <1>9 DEF ActingFits
  <1>12. Outstanding'
    BY <1>3, <1>5, <1>6, <1>7, <1>8 DEF Outstanding
  <1>13. Settled'
    BY <1>5, <1>8 DEF Settled
  <1>14. SameDay'
    BY <1>1, <1>2, <1>3, <1>5, <1>6 DEF SameDay, Underway
  <1> QED
    BY <1>1, <1>5, <1>10, <1>11, <1>12, <1>13, <1>14

LEMMA AcquireDirectCounts ==
    ASSUME IInv, CountersOK, NEW p \in Runs, AcquireDirect(p)
    PROVE  CountersOK'
  <1>1. PICK n \in DirectCounts : run' = [run EXCEPT ![p].phase = "create", ![p].requested = n]
    BY DEF AcquireDirect
  <1> DEFINE q == [run[p] EXCEPT !.phase = "create", !.requested = n]
  <1>2. run[p] \in RunState /\ run \in [Runs -> RunState] /\ run[p].trigger = "direct"
    BY DEF IInv, TypeOK, AcquireDirect, Automated
  <1>3. q.trigger = "direct"
    BY <1>2 DEF RunState
  <1>4. run' = [run EXCEPT ![p] = q]
    BY <1>1, <1>2
  <1> HIDE DEF q
  <1>5. ~Acting(q) /\ ~Acting(run[p]) /\ ~Underway(q)
    BY <1>2, <1>3 DEF Acting, Underway
  <1> QED
    BY <1>4, <1>5, Uncounted DEF AcquireDirect, ghosts, limits, upstream, cycleCount, dayCount

(* A run that goes on as it was, inside the loop or just after it: its     *)
(* counts, its rule and its start are the same.                            *)
LEMMA GoesOn ==
    ASSUME IInv, CountersOK, NEW p \in Runs, NEW q,
           run' = [run EXCEPT ![p] = q],
           rule' = rule, clock' = clock, cycleCount' = cycleCount, dayCount' = dayCount,
           exact' = exact,
           run[p].phase \in {"list", "create", "release"},
           q.trigger = run[p].trigger, q.runAt = run[p].runAt, q.snap = run[p].snap,
           q.created = run[p].created,
           \/ q.phase = run[p].phase /\ q.requested = run[p].requested
           \/ q.phase = "release"
           \/ q.phase = "record" /\ q.trigger # "direct"
           \/ q.phase = "book" /\ q.trigger = "direct"
    PROVE  CountersOK'
  <1>1. /\ run[p] \in RunState /\ run[p].created \in Nat /\ run[p].requested \in Nat
        /\ run[p].phase = "create" => run[p].created < run[p].requested
        /\ rule.created \in Nat /\ rule.cfg.target \in Nat /\ rule.cfg.dailyLimit \in Nat
        /\ CountedOn(rule, DayOf(clock)) \in Nat
    BY CountedType, CountTypes DEF IInv, TypeOK, RunState, RunOK
  <1>2. exact /\ Underway(q) => DayOf(q.runAt) = DayOf(clock)
    BY DEF Underway, CountersOK, SameDay
  <1>3. Acting(q) => Acting(run[p])
    BY DEF Acting
  <1>4. exact /\ Acting(q) => ActingOK(q, rule, DayOf(clock))
    <2> SUFFICES ASSUME exact, Acting(q) PROVE ActingOK(q, rule, DayOf(clock))
      OBVIOUS
    <2>1. ActingOK(run[p], rule, DayOf(clock))
      BY <1>3 DEF CountersOK, ActingFits
    <2>2. Asked(q) \in Nat /\ Asked(run[p]) \in Nat /\ Asked(q) <= Asked(run[p])
      BY <1>1 DEF Asked
    <2>3. q.phase = "list" => run[p].phase = "list"
      OBVIOUS
    <2> HIDE DEF Asked
    <2> QED
      BY <1>1, <2>1, <2>2, <2>3 DEF ActingOK
  <1>5. Acting(run[p]) /\ ~Acting(q) => run[p].created = 0
    BY <1>1 DEF Acting
  <1> QED
    BY <1>2, <1>3, <1>4, <1>5, Uncounted

LEMMA ListFailsCounts ==
    ASSUME IInv, CountersOK, NEW p \in Runs, ListFails(p)
    PROVE  CountersOK'
  <1> DEFINE q == [run[p] EXCEPT !.phase = "release", !.status = "error"]
  <1>1. run[p] \in RunState /\ run \in [Runs -> RunState]
    BY DEF IInv, TypeOK
  <1>2. /\ q.phase = "release" /\ q.runAt = run[p].runAt /\ q.created = run[p].created
        /\ q.trigger = run[p].trigger /\ q.snap = run[p].snap
    BY <1>1 DEF RunState
  <1>3. run' = [run EXCEPT ![p] = q]
    BY <1>1 DEF ListFails
  <1> HIDE DEF q
  <1> QED
    BY <1>2, <1>3, GoesOn DEF ListFails, ghosts, limits, upstream, cycleCount, dayCount

LEMMA RetryCounts ==
    ASSUME IInv, CountersOK, NEW p \in Runs, Retry(p)
    PROVE  CountersOK'
  <1> DEFINE q == [run[p] EXCEPT !.attempt = run[p].attempt + 1]
  <1>1. run[p] \in RunState /\ run \in [Runs -> RunState]
    BY DEF IInv, TypeOK
  <1>2. /\ q.phase = run[p].phase /\ q.runAt = run[p].runAt /\ q.created = run[p].created
        /\ q.trigger = run[p].trigger /\ q.snap = run[p].snap /\ q.requested = run[p].requested
    BY <1>1 DEF RunState
  <1>3. run' = [run EXCEPT ![p] = q]
    BY <1>1 DEF Retry
  <1> HIDE DEF q
  <1> QED
    BY <1>2, <1>3, GoesOn DEF Retry, ghosts, limits, upstream, cycleCount, dayCount

LEMMA CreateFailsCounts ==
    ASSUME IInv, CountersOK, NEW p \in Runs, NEW ghost \in BOOLEAN, CreateFails(p, ghost)
    PROVE  CountersOK'
  <1> DEFINE status == IF run[p].created > 0 THEN "partial" ELSE "error"
             q      == [run[p] EXCEPT !.phase = "release", !.attempt = 0, !.unknown = 0,
                                      !.status = status, !.pause = NoReason, !.next = Never]
  <1>1. run[p] \in RunState /\ run \in [Runs -> RunState]
    BY DEF IInv, TypeOK
  <1>2. run' = [run EXCEPT ![p] = q]
    BY <1>1 DEF CreateFails
  <1> HIDE DEF status
  <1>3. /\ q.phase = "release" /\ q.runAt = run[p].runAt /\ q.created = run[p].created
        /\ q.trigger = run[p].trigger /\ q.snap = run[p].snap
    BY <1>1 DEF RunState
  <1> HIDE DEF q
  <1> QED
    BY <1>2, <1>3, GoesOn DEF CreateFails, ghosts, limits, upstream, cycleCount, dayCount

LEMMA ReleaseCounts ==
    ASSUME IInv, CountersOK, NEW p \in Runs, NEW saved \in BOOLEAN, Release(p, saved)
    PROVE  CountersOK'
  <1> DEFINE o      == run[p]
             phase  == IF Automated(p) THEN "record" ELSE "book"
             status == IF ~saved /\ o.status = "skipped" THEN "error" ELSE o.status
             next   == IF ~saved /\ o.status = "skipped" THEN Never ELSE o.next
             q      == [o EXCEPT !.phase = phase, !.status = status, !.next = next]
  <1>1. o \in RunState /\ run \in [Runs -> RunState]
    BY DEF IInv, TypeOK
  <1>2. phase = IF o.trigger # "direct" THEN "record" ELSE "book"
    BY DEF Automated
  <1>3. run' = [run EXCEPT ![p] = q]
    BY <1>1 DEF Release
  <1> HIDE DEF phase, status, next, o
  <1>4. /\ q.phase = phase /\ q.runAt = o.runAt /\ q.created = o.created
        /\ q.trigger = o.trigger /\ q.snap = o.snap
    BY <1>1 DEF RunState
  <1> HIDE DEF q
  <1>5. /\ run[p].phase = "release" /\ q.runAt = run[p].runAt /\ q.created = run[p].created
        /\ q.trigger = run[p].trigger /\ q.snap = run[p].snap
        /\ q.phase = IF q.trigger # "direct" THEN "record" ELSE "book"
    BY <1>2, <1>4 DEF Release, o
  <1> QED
    BY <1>3, <1>5, GoesOn DEF Release, ghosts, limits, upstream, cycleCount, dayCount

LEMMA CreateCountFits ==
    ASSUME NEW r \in Rule, NEW active \in Nat, r.cfg.target > 0, CreateCount(r, active) > 0
    PROVE  r.created + CreateCount(r, active) <= r.cfg.target
  <1> DEFINE c      == r.cfg
             refill == IF c.minActive > 0 /\ active < c.minActive
                       THEN AtLeast(c.batch, c.targetActive - active) ELSE c.batch
             wanted == IF refill = 0 /\ c.target > r.created THEN c.maxBatch ELSE refill
             capped == AtMost(wanted, c.maxBatch)
             left   == AtMost(capped, c.target - r.created)
  <1>1. /\ c.batch \in Nat /\ c.minActive \in Nat /\ c.targetActive \in Nat
        /\ c.maxBatch \in Nat /\ c.target \in Nat /\ r.created \in Nat
    BY DEF Rule, Config
  <1>2. CreateCount(r, active) = AtLeast(0, left)
    BY DEF CreateCount
  <1>3. capped \in Int
    BY <1>1 DEF AtLeast, AtMost
  <1> HIDE DEF capped
  <1>4. left \in Int /\ left <= c.target - r.created
    BY <1>1, <1>3 DEF AtMost
  <1> HIDE DEF left
  <1> QED
    BY <1>1, <1>2, <1>4 DEF AtLeast

(* A plan to create stays within what the counters of the rule, as it was  *)
(* read, leave of the target and of the day.                               *)
LEMMA PlanCounts ==
    ASSUME TypeOK, NEW p \in Runs, run[p].phase = "list",
           NEW seen \in [total : Nat, active : Nat], Plan(p, seen).phase = "create"
    PROVE  LET r == run[p].snap
               n == Plan(p, seen).requested
           IN  /\ r.cfg.target > 0 => r.created + n <= r.cfg.target
               /\ r.cfg.dailyLimit > 0 =>
                     CountedOn(r, DayOf(run[p].runAt)) + n <= r.cfg.dailyLimit
  <1> DEFINE o        == run[p]
             r        == o.snap
             wanted   == CreateCount(r, seen.active)
             room     == RoomLeft(r, seen)
             unseen   == aliases.total - seen.total
             fitting  == AtMost(wanted, room)
             today    == DailyRemaining(r, o.runAt)
             tomorrow == NextAllowedAt(r.cfg, NextDayStart(o.runAt))
             limited  == r.cfg.dailyLimit > 0
             stop     == [o EXCEPT !.phase = "release"]
             asked    == IF limited THEN AtMost(fitting, today) ELSE fitting
             pause    == IF wanted > room THEN "alias_limit" ELSE NoReason
             next     == IF limited /\ fitting >= today THEN tomorrow ELSE Never
             go       == [o EXCEPT !.phase = "create", !.requested = asked,
                                   !.unknown = unseen, !.pause = pause, !.next = next]
             counted  == CountedOn(r, DayOf(o.runAt))
  <1>1. /\ o \in RunState /\ r \in Rule /\ o.runAt \in Nat /\ o.phase = "list"
        /\ r.cfg \in Config /\ r.cfg.maxTotal \in Nat /\ r.cfg.dailyLimit \in Nat
        /\ r.cfg.target \in Nat /\ r.created \in Nat /\ r.cfg.maxBatch \in Nat
        /\ r.cfg.batch \in Nat /\ r.cfg.targetActive \in Nat
        /\ seen.total \in Nat /\ seen.active \in Nat /\ counted \in Nat
    BY CountedType, CountTypes DEF TypeOK, RunState, Rule, Config
  <1>2. wanted \in Nat /\ today \in Nat /\ room = r.cfg.maxTotal - seen.total
    BY <1>1, CreateCountType, DailyRemainingType DEF RoomLeft
  <1>3. r.cfg.target > 0 /\ wanted > 0 => r.created + wanted <= r.cfg.target
    BY <1>1, CreateCountFits
  <1>4. today > 0 => counted + today = r.cfg.dailyLimit
    BY <1>1 DEF DailyRemaining, CountedOn, AtLeast
  <1>5. Plan(p, seen) = IF wanted = 0 THEN stop
                  ELSE IF room <= 0 THEN [stop EXCEPT !.pause = "alias_limit"]
                  ELSE IF limited /\ today = 0 THEN [stop EXCEPT !.next = tomorrow]
                  ELSE go
    BY DEF Plan
  <1> HIDE DEF wanted, room, today, tomorrow, r, counted, limited, asked, pause, next, unseen
  <1>6. /\ stop.phase = "release"
        /\ [stop EXCEPT !.pause = "alias_limit"].phase = "release"
        /\ [stop EXCEPT !.next = tomorrow].phase = "release"
        /\ go.requested = asked
    BY <1>1 DEF RunState
  <1>7. wanted # 0 /\ ~(room <= 0) /\ ~(limited /\ today = 0) /\ Plan(p, seen) = go
    <2> HIDE DEF stop, go
    <2> QED
      BY <1>5, <1>6
  <1>8. fitting \in Nat /\ fitting > 0 /\ fitting <= wanted
    BY <1>1, <1>2, <1>7 DEF AtMost
  <1>9. asked \in Nat /\ asked <= wanted /\ (limited => asked <= today)
    BY <1>1, <1>2, <1>8 DEF AtMost, asked
  <1>10. r.cfg.target > 0 => r.created + asked <= r.cfg.target
    BY <1>1, <1>2, <1>3, <1>7, <1>9
  <1>11. limited => counted + asked <= r.cfg.dailyLimit
    BY <1>1, <1>2, <1>4, <1>7, <1>9
  <1> QED
    BY <1>6, <1>7, <1>10, <1>11 DEF r, limited, counted

LEMMA ListCounts ==
    ASSUME IInv, CountersOK, NEW p \in Runs, Lists(p)
    PROVE  CountersOK'
  <1>0. PICK seen \in [total : Nat, active : Nat] :
           seen.total <= aliases.total /\ run' = [run EXCEPT ![p] = Plan(p, seen)]
    BY ListReads
  <1> DEFINE q == Plan(p, seen)
             d == DayOf(clock)
  <1>1. /\ run[p] \in RunState /\ run \in [Runs -> RunState]
        /\ RunOK(run[p], clock, aliases.total) /\ run[p].phase = "list"
        /\ run[p].created = 0 /\ TypeOK
        /\ (run[p].next # Never => run[p].next > run[p].runAt)
    BY DEF IInv, TypeOK, RunOK, Lists, ListSucceeds, ListBreaksOff
  <1>2. /\ q \in RunState /\ q.phase \in {"release", "create"}
        /\ q.created = 0 /\ q.runAt = run[p].runAt
        /\ q.trigger = run[p].trigger /\ q.snap = run[p].snap
    BY <1>0, <1>1, PlanOK
  <1>3. /\ run' = [run EXCEPT ![p] = q]
        /\ rule' = rule /\ clock' = clock /\ cycleCount' = cycleCount /\ dayCount' = dayCount
        /\ exact' = exact
    BY <1>0 DEF Lists, ListSucceeds, ListBreaksOff, ghosts, limits, cycleCount, dayCount
  <1>4. q.phase = "create" =>
          LET r == run[p].snap IN
          /\ r.cfg.target > 0 => r.created + q.requested <= r.cfg.target
          /\ r.cfg.dailyLimit > 0 =>
                CountedOn(r, DayOf(run[p].runAt)) + q.requested <= r.cfg.dailyLimit
    BY <1>1, PlanCounts
  <1> HIDE DEF q
  <1>5. CASE q.phase = "release"
    BY <1>1, <1>2, <1>3, <1>5, GoesOn
  <1>6. CASE q.phase = "create"
    <2>1. exact /\ Underway(q) => DayOf(q.runAt) = d
      BY <1>1, <1>2 DEF Underway, CountersOK, SameDay
    <2>2. Acting(q) <=> Acting(run[p])
      BY <1>1, <1>2, <1>6 DEF Acting
    <2>3. exact /\ Acting(q) => ActingOK(q, rule, d)
      <3> SUFFICES ASSUME exact, Acting(q) PROVE ActingOK(q, rule, d)
        OBVIOUS
      <3>1. ActingOK(run[p], rule, d)
        BY <2>2 DEF CountersOK, ActingFits
      <3>2. DayOf(run[p].runAt) = d
        BY <1>2, <1>6, <2>1 DEF Acting, Underway
      <3> QED
        BY <1>1, <1>2, <1>4, <1>6, <3>1, <3>2 DEF ActingOK, Asked
    <2> QED
      BY <1>1, <1>2, <1>3, <2>1, <2>2, <2>3, Uncounted
  <1> QED
    BY <1>2, <1>5, <1>6

(* A process that is done with the rule holds nothing that is to be        *)
(* recorded, or could not record it.                                       *)
LEMMA ReturnCounts ==
    ASSUME IInv, CountersOK, NEW p \in Runs,
           Leave(p) \/ RecordFails(p) \/ Book(p) \/ BookFails(p)
    PROVE  CountersOK'
  <1>1. /\ run' = [run EXCEPT ![p] = Idle]
        /\ rule' = rule /\ clock' = clock /\ cycleCount' = cycleCount /\ dayCount' = dayCount
    BY DEF Leave, RecordFails, Book, BookFails, ghosts, limits, upstream, cycleCount, dayCount
  <1>2. ~Acting(Idle) /\ ~Underway(Idle)
    BY DEF Idle, IdleRun, Acting, Underway
  <1>3. exact' => exact
    BY DEF Leave, RecordFails, Book, BookFails, ghosts, limits, upstream
  <1>4. exact' /\ Acting(run[p]) => run[p].created = 0
    BY DEF Leave, RecordFails, Book, BookFails, Acting
  <1> QED
    BY <1>1, <1>2, <1>3, <1>4, Uncounted

(* One alias more, counted by the observer and by the run that created it. *)
LEMMA CreateSucceedsCounts ==
    ASSUME IInv, CountersOK, NEW p \in Runs, CreateSucceeds(p)
    PROVE  CountersOK'
  <1> DEFINE o    == run[p]
             last == o.created + 1 = o.requested
             after == IF last THEN "release" ELSE "create"
             status == IF last THEN "success" ELSE o.status
             unknown == IF last THEN 0 ELSE o.unknown
             q    == [o EXCEPT !.created = o.created + 1, !.attempt = 0, !.unknown = unknown,
                               !.phase = after, !.status = status]
             d == DayOf(clock)
  <1>1. /\ o \in RunState /\ run \in [Runs -> RunState] /\ o.phase = "create"
        /\ o.created \in Nat /\ o.requested \in Nat /\ o.created < o.requested
        /\ rule.created \in Nat /\ rule.cfg.target \in Nat /\ rule.cfg.dailyLimit \in Nat
        /\ CountedOn(rule, d) \in Nat /\ cycleCount \in Int /\ dayCount \in Int
    BY CountedType, CountTypes DEF IInv, TypeOK, RunState, RunOK, CreateSucceeds, cycleCount, dayCount
  <1>2. /\ q.phase = (IF last THEN "release" ELSE "create")
        /\ q.runAt = o.runAt /\ q.created = o.created + 1
        /\ q.requested = o.requested /\ q.trigger = o.trigger /\ q.snap = o.snap
    BY <1>1 DEF RunState
  <1>3. /\ run' = [run EXCEPT ![p] = q]
        /\ rule' = rule /\ clock' = clock /\ exact' = exact
        /\ cycleCount' = IF o.trigger # "direct" THEN cycleCount + 1 ELSE cycleCount
        /\ dayCount' = IF o.trigger # "direct" /\ o.snap.cfg.dailyLimit > 0
                      THEN dayCount + 1 ELSE dayCount
    <2>1. /\ run' = [run EXCEPT ![p] = q]
          /\ rule' = rule /\ clock' = clock /\ exact' = exact
          /\ cycleStray' = cycleStray /\ dayStray' = dayStray
          /\ cycleMade' = IF o.trigger # "direct" THEN cycleMade + 1 ELSE cycleMade
          /\ dayMade' = IF o.trigger # "direct" /\ o.snap.cfg.dailyLimit > 0
                        THEN dayMade + 1 ELSE dayMade
      BY <1>1 DEF CreateSucceeds, Automated
    <2> HIDE DEF q, o
    <2> QED
      BY <2>1, CountTypes DEF cycleCount, dayCount
  <1> HIDE DEF q
  <1>4. exact /\ Underway(q) => DayOf(q.runAt) = d
    BY <1>1, <1>2 DEF Underway, CountersOK, SameDay
  <1>5. CASE o.trigger = "direct"
    <2>1. ~Acting(q) /\ ~Acting(run[p])
      BY <1>2, <1>5 DEF Acting
    <2> QED
      BY <1>3, <1>4, <1>5, <2>1, Uncounted
  <1>6. CASE o.trigger # "direct"
    <2> SUFFICES ASSUME exact
                 PROVE  /\ OneActs' /\ ActingFits' /\ Outstanding' /\ Settled' /\ SameDay'
                        /\ rule'.daily <= rule'.cfg.dailyLimit
      BY <1>3 DEF CountersOK
    <2>1. /\ OneActs /\ ActingFits /\ Outstanding /\ SameDay
          /\ rule.daily <= rule.cfg.dailyLimit
      BY DEF CountersOK
    <2>2. Acting(o) /\ Acting(q)
      BY <1>1, <1>2, <1>6 DEF Acting
    <2>3. run'[p] = q /\ \A x \in Runs \ {p} : run'[x] = run[x]
      BY <1>1, <1>3
    <2>4. \A x \in Runs : Acting(run'[x]) => x = p
      BY <2>1, <2>2, <2>3 DEF OneActs
    <2>5. ActingOK(o, rule, d) /\ Balanced(rule, cycleCount, dayCount, d, o.created)
      BY <2>1, <2>2 DEF ActingFits, Outstanding
    <2>6. ActingOK(q, rule, d)
      <3>1. Asked(q) = Asked(o)
        BY <1>1, <1>2 DEF Asked
      <3> QED
        BY <1>2, <2>5, <3>1 DEF ActingOK
    <2>7. Balanced(rule, cycleCount', dayCount', d, q.created)
      BY <1>1, <1>2, <1>3, <1>6, <2>5 DEF ActingOK, Balanced
    <2>8. OneActs'
      BY <2>4 DEF OneActs
    <2>9. ActingFits'
      BY <1>3, <2>3, <2>4, <2>6 DEF ActingFits
    <2>10. Outstanding'
      BY <1>3, <2>3, <2>4, <2>7 DEF Outstanding
    <2>11. Settled'
      BY <2>2, <2>3 DEF Settled
    <2>12. SameDay'
      BY <1>3, <1>4, <2>1, <2>3 DEF SameDay
    <2> QED
      BY <1>3, <2>1, <2>8, <2>9, <2>10, <2>11, <2>12
  <1> QED
    BY <1>5, <1>6

(* The rule changes and its counters do not, and nobody starts or stops to *)
(* act on it.                                                              *)
LEMMA RuleMoves ==
    ASSUME IInv, CountersOK, SameCounts(rule, rule', DayOf(clock)) \/ ~exact,
           clock' = clock, cycleCount' = cycleCount, dayCount' = dayCount, exact' = exact,
           \A x \in Runs : (Acting(run'[x]) \/ Acting(run[x]) \/ Underway(run'[x])
                              => run'[x] = run[x])
    PROVE  CountersOK'
  <1> DEFINE d == DayOf(clock)
  <1> SUFFICES ASSUME exact
               PROVE  /\ OneActs' /\ ActingFits' /\ Outstanding' /\ Settled' /\ SameDay'
                      /\ rule'.daily <= rule'.cfg.dailyLimit
    BY DEF CountersOK
  <1>1. /\ OneActs /\ ActingFits /\ Outstanding /\ Settled /\ SameDay
        /\ rule.daily <= rule.cfg.dailyLimit
    BY DEF CountersOK
  <1>2. /\ rule'.cfg = rule.cfg /\ rule'.created = rule.created
        /\ CountedOn(rule', d) = CountedOn(rule, d)
        /\ rule'.daily <= rule'.cfg.dailyLimit
    BY <1>1 DEF SameCounts
  <1>3. OneActs'
    BY <1>1 DEF OneActs
  <1>4. ActingFits'
    BY <1>1, <1>2 DEF ActingFits, ActingOK
  <1>5. \A n : Balanced(rule, cycleCount, dayCount, d, n) => Balanced(rule', cycleCount, dayCount, d, n)
    BY <1>2 DEF Balanced
  <1>6. Outstanding'
    BY <1>1, <1>5 DEF Outstanding
  <1>7. Settled'
    BY <1>1, <1>5 DEF Settled
  <1>8. SameDay'
    BY <1>1 DEF SameDay
  <1> QED
    BY <1>2, <1>3, <1>4, <1>6, <1>7, <1>8

(* Recording moves what the one acting run has created from its hands to   *)
(* the counters of the rule, and nothing is cut.                           *)
LEMMA RecordCountsStep ==
    ASSUME IInv, CountersOK, NEW p \in Runs, Record(p)
    PROVE  CountersOK'
  <1> DEFINE o == run[p]
             q == [Idle EXCEPT !.phase = "book", !.trigger = o.trigger, !.runAt = o.runAt,
                               !.created = o.created]
             d == DayOf(clock)
             n == o.created
  <1>1. /\ run \in [Runs -> RunState] /\ o \in RunState /\ n \in Nat /\ rule \in Rule
        /\ Coherent(rule) /\ o.phase = "record"
        /\ rule.created \in Nat /\ rule.cfg.target \in Nat /\ rule.cfg.dailyLimit \in Nat
        /\ CountedOn(rule, d) \in Nat /\ cycleCount \in Int /\ dayCount \in Int
    BY CountedType, CountTypes DEF IInv, TypeOK, RuleCoherent, RunState, Record, cycleCount, dayCount
  <1>2. /\ run' = [run EXCEPT ![p] = q]
        /\ clock' = clock /\ exact' = exact /\ cycleCount' = cycleCount /\ dayCount' = dayCount
        /\ rule' = RecordRun(rule, ResultOf(p), o.runAt)
    BY DEF Record, Recorded, ghosts, limits, upstream, cycleCount, dayCount
  <1>3. q.phase = "book"
    BY IdleType DEF RunState
  <1> HIDE DEF q
  <1>4. ~Acting(q) /\ ~Underway(q)
    BY <1>3 DEF Acting, Underway
  <1>5. run'[p] = q /\ \A x \in Runs \ {p} : run'[x] = run[x]
    BY <1>1, <1>2
  <1>6. ResultOf(p).created = n
    BY DEF ResultOf
  <1>7. /\ rule'.cfg = rule.cfg
        /\ rule.cfg.target > 0 => rule'.created = AtMost(rule.created + n, rule.cfg.target)
        /\ rule.cfg.dailyLimit > 0 =>
              /\ rule'.daily = AtMost(CountedOn(rule, DayOf(o.runAt)) + n, rule.cfg.dailyLimit)
              /\ CountedOn(rule', DayOf(o.runAt)) = rule'.daily
        /\ rule'.daily <= rule'.cfg.dailyLimit
        /\ n = 0 /\ rule.daily <= rule.cfg.dailyLimit =>
              SameCounts(rule, rule', DayOf(o.runAt))
    <2>1. /\ ResultOf(p) \in RunResult /\ o.runAt \in Nat
          /\ ResultOf(p).nextRunAt # Never => ResultOf(p).nextRunAt > o.runAt
      BY ResultType
    <2>2. rule'.cfg = rule.cfg
      BY <1>1, <1>2, <2>1, RecordRunOK
    <2> HIDE DEF o, n
    <2> QED
      BY <1>1, <1>2, <1>6, <2>1, <2>2, RecordCounts
  <1>8. CASE o.trigger = "direct"
    BY <1>1, <1>8 DEF IInv, RunOK
  <1>9. exact /\ o.trigger # "direct" => DayOf(o.runAt) = d
    BY <1>1 DEF CountersOK, SameDay, Underway
  <1>10. CASE o.trigger # "direct" /\ n = 0
    <2>1. ~Acting(o)
      BY <1>1, <1>10 DEF Acting
    <2>2. \A x \in Runs : (Acting(run'[x]) \/ Acting(run[x]) \/ Underway(run'[x])
                              => run'[x] = run[x])
      BY <1>4, <1>5, <2>1
    <2>3. SameCounts(rule, rule', d) \/ ~exact
      BY <1>7, <1>9, <1>10 DEF CountersOK
    <2> QED
      BY <1>2, <2>2, <2>3, RuleMoves
  <1>11. CASE o.trigger # "direct" /\ n > 0
    <2> SUFFICES ASSUME exact
                 PROVE  /\ OneActs' /\ ActingFits' /\ Outstanding' /\ Settled' /\ SameDay'
                        /\ rule'.daily <= rule'.cfg.dailyLimit
      BY <1>2 DEF CountersOK
    <2>1. /\ OneActs /\ ActingFits /\ Outstanding /\ SameDay
      BY DEF CountersOK
    <2>2. Acting(o)
      BY <1>1, <1>11 DEF Acting
    <2>3. \A x \in Runs : ~Acting(run'[x])
      BY <1>4, <1>5, <2>1, <2>2 DEF OneActs
    <2>4. ActingOK(o, rule, d) /\ Balanced(rule, cycleCount, dayCount, d, n)
      BY <2>1, <2>2 DEF ActingFits, Outstanding
    <2>5. Asked(o) = n
      BY <1>1 DEF Asked
    <2>6. rule.cfg.target > 0 => rule'.created = rule.created + n
      BY <1>1, <1>7, <2>4, <2>5 DEF ActingOK, AtMost
    <2>7. rule.cfg.dailyLimit > 0 => CountedOn(rule', d) = CountedOn(rule, d) + n
      BY <1>1, <1>7, <1>9, <1>11, <2>4, <2>5 DEF ActingOK, AtMost
    <2>8. Balanced(rule', cycleCount, dayCount, d, 0)
      BY <1>1, <1>7, <2>4, <2>6, <2>7 DEF Balanced
    <2>9. OneActs' /\ ActingFits' /\ Outstanding'
      BY <2>3 DEF OneActs, ActingFits, Outstanding
    <2>10. Settled'
      BY <1>2, <2>8 DEF Settled
    <2>11. SameDay'
      BY <1>2, <1>4, <1>5, <2>1 DEF SameDay
    <2> QED
      BY <1>7, <2>9, <2>10, <2>11
  <1> QED
    BY <1>1, <1>8, <1>10, <1>11

(* A new configuration, while no run has the old one in hand. *)
LEMMA SetAutomationCounts ==
    ASSUME IInv, CountersOK, NEW c \in Configs, NEW on \in BOOLEAN, SetAutomation(c, on)
    PROVE  CountersOK'
  <1> DEFINE d == DayOf(clock)
  <1> SUFFICES ASSUME exact'
               PROVE  /\ OneActs' /\ ActingFits' /\ Outstanding' /\ Settled' /\ SameDay'
                      /\ rule'.daily <= rule'.cfg.dailyLimit
    BY DEF CountersOK
  <1>1. /\ exact /\ ~AnyExecuting /\ rule'.daily <= c.dailyLimit
        /\ run' = run /\ clock' = clock /\ rule' = SetRule(rule, c, on, clock)
        /\ cycleCount' = IF c.target = rule.cfg.target THEN cycleCount ELSE 0
        /\ dayCount' = IF c.dailyLimit = 0 THEN 0 ELSE dayCount
    <2>1. /\ cycleMade' = (IF c.target = rule.cfg.target THEN cycleMade ELSE 0)
          /\ cycleStray' = (IF c.target = rule.cfg.target THEN cycleStray ELSE 0)
          /\ dayMade' = (IF c.dailyLimit = 0 THEN 0 ELSE dayMade)
          /\ dayStray' = (IF c.dailyLimit = 0 THEN 0 ELSE dayStray)
      BY DEF SetAutomation
    <2>2. /\ cycleCount' = IF c.target = rule.cfg.target THEN cycleCount ELSE 0
          /\ dayCount' = IF c.dailyLimit = 0 THEN 0 ELSE dayCount
      BY <2>1, CountTypes DEF cycleCount, dayCount
    <2> QED
      BY <2>2 DEF SetAutomation
  <1>2. Settled /\ SameDay
    BY <1>1 DEF CountersOK
  <1>3. /\ rule \in Rule /\ c \in Config /\ clock \in Nat /\ c.target \in Nat
        /\ c.dailyLimit \in Nat /\ rule.cfg.dailyLimit \in Nat
        /\ cycleCount \in Int /\ dayCount \in Int /\ CountedOn(rule, d) \in Nat
    BY RunAssumption, CountedType, CountTypes DEF IInv, TypeOK, Config, cycleCount, dayCount
  <1>4. /\ rule'.cfg = c
        /\ rule'.created = IF c.target = rule.cfg.target THEN rule.created ELSE 0
        /\ c.dailyLimit > 0 => CountedOn(rule', d) = CountedOn(rule, d)
    BY <1>1, <1>3, SetRuleCounts
  <1>5. \A x \in Runs : ~Acting(run[x])
    BY <1>1 DEF AnyExecuting, Executing, Automated, Acting
  <1>6. Balanced(rule, cycleCount, dayCount, d, 0)
    BY <1>2, <1>5 DEF Settled
  <1>7. Balanced(rule', cycleCount', dayCount', d, 0)
    BY <1>1, <1>3, <1>4, <1>6 DEF Balanced
  <1>8. OneActs' /\ ActingFits' /\ Outstanding'
    BY <1>1, <1>5 DEF OneActs, ActingFits, Outstanding
  <1>9. Settled'
    BY <1>1, <1>7 DEF Settled
  <1>10. SameDay'
    BY <1>1, <1>2 DEF SameDay
  <1> QED
    BY <1>1, <1>4, <1>8, <1>9, <1>10

LEMMA OperatorCountsStep ==
    ASSUME IInv, CountersOK, Operator \/ Defer
    PROVE  CountersOK'
  <1>1. rule \in Rule /\ Coherent(rule) /\ clock \in Nat
    BY DEF IInv, TypeOK, RuleCoherent
  <1>2. ASSUME NEW c \in Configs, NEW on \in BOOLEAN, SetAutomation(c, on)
        PROVE  CountersOK'
    BY <1>2, SetAutomationCounts
  <1>4. ASSUME Reload
        PROVE  CountersOK'
    <2>1. /\ run' = run /\ rule' = rule /\ clock' = clock /\ exact' = exact
          /\ cycleCount' = cycleCount /\ dayCount' = dayCount
      BY <1>4 DEF Reload, ghosts, limits, cycleCount, dayCount
    <2> QED
      BY <2>1 DEF CountersOK, OneActs, ActingFits, Outstanding, Settled, SameDay
  <1>3. ASSUME Pause \/ Resume \/ Defer
        PROVE  CountersOK'
    <2>1. SameCounts(rule, rule', DayOf(clock))
      BY <1>1, <1>3, OperatorCounts DEF Pause, Resume, Defer
    <2>2. /\ run' = run /\ clock' = clock /\ cycleCount' = cycleCount /\ dayCount' = dayCount
          /\ exact' = exact
      BY <1>3 DEF Pause, Resume, Defer, ghosts, limits, upstream, cycleCount, dayCount
    <2> QED
      BY <2>1, <2>2, RuleMoves
  <1> QED
    BY <1>2, <1>3, <1>4 DEF Operator

(* Midnight clears the count of the day, unless a run is under way.        *)
LEMMA TickCounts ==
    ASSUME IInv, CountersOK, Tick
    PROVE  CountersOK'
  <1> SUFFICES ASSUME exact'
               PROVE  /\ OneActs' /\ ActingFits' /\ Outstanding' /\ Settled' /\ SameDay'
                      /\ rule'.daily <= rule'.cfg.dailyLimit
    BY DEF CountersOK
  <1>1. /\ exact /\ run' = run /\ rule' = rule /\ cycleCount' = cycleCount
        /\ clock' = clock + 1
    BY DEF Tick, cycleCount, dayCount
  <1>2. /\ OneActs /\ ActingFits /\ Outstanding /\ Settled /\ SameDay
        /\ rule.daily <= rule.cfg.dailyLimit
    BY <1>1 DEF CountersOK
  <1>3. CASE DayOf(clock') = DayOf(clock)
    <2>1. dayCount' = dayCount
      BY <1>1, <1>3 DEF Tick, cycleCount, dayCount
    <2>2. OneActs' /\ SameDay'
      BY <1>1, <1>2, <1>3 DEF OneActs, SameDay
    <2>3. ActingFits'
      BY <1>1, <1>2, <1>3 DEF ActingFits
    <2>4. Outstanding' /\ Settled'
      BY <1>1, <1>2, <1>3, <2>1 DEF Outstanding, Settled
    <2> QED
      BY <1>1, <1>2, <2>2, <2>3, <2>4
  <1>4. CASE DayOf(clock') # DayOf(clock)
    <2>1. dayCount' = 0 /\ \A p \in Runs : ~(Automated(p) /\ InFlight(p))
      <3>1. dayMade' = 0 /\ dayStray' = 0
        BY <1>1, <1>4 DEF Tick
      <3>2. dayCount' = 0
        BY <3>1 DEF dayCount
      <3> QED
        BY <1>1, <1>4, <3>2 DEF Tick
    <2>2. \A x \in Runs : ~Acting(run[x]) /\ ~Underway(run[x])
      BY <2>1 DEF Acting, Underway, Automated, InFlight
    <2>3. /\ rule \in Rule /\ rule.cfg.dailyLimit \in Nat /\ CountedOn(rule, DayOf(clock')) \in Nat
      BY CountedType, CountTypes DEF IInv, TypeOK
    <2>4. Balanced(rule, cycleCount, dayCount, DayOf(clock), 0)
      BY <1>2, <2>2 DEF Settled
    <2>5. Balanced(rule, cycleCount, 0, DayOf(clock'), 0)
      BY <2>3, <2>4 DEF Balanced
    <2>6. OneActs' /\ SameDay' /\ ActingFits' /\ Outstanding'
      BY <1>1, <2>2 DEF OneActs, SameDay, ActingFits, Outstanding
    <2>7. Settled'
      BY <1>1, <2>1, <2>5 DEF Settled
    <2> QED
      BY <1>1, <1>2, <2>6, <2>7
  <1> QED
    BY <1>3, <1>4

LEMMA RestartCounts ==
    ASSUME IInv, CountersOK, Restart
    PROVE  CountersOK'
  <1> SUFFICES ASSUME exact'
               PROVE  /\ OneActs' /\ ActingFits' /\ Outstanding' /\ Settled' /\ SameDay'
                      /\ rule'.daily <= rule'.cfg.dailyLimit
    BY DEF CountersOK
  <1>1. /\ exact /\ rule' = rule /\ cycleCount' = cycleCount /\ dayCount' = dayCount
        /\ clock' = clock /\ \A x \in Runs : run[x].created = 0
        /\ \A x \in Runs : run'[x] = Idle
    BY DEF Restart, limits, cycleCount, dayCount
  <1>2. Outstanding /\ Settled /\ rule.daily <= rule.cfg.dailyLimit
    BY <1>1 DEF CountersOK
  <1>3. ~Acting(Idle) /\ ~Underway(Idle)
    BY DEF Idle, IdleRun, Acting, Underway
  <1>4. Balanced(rule, cycleCount, dayCount, DayOf(clock), 0)
    BY <1>1, <1>2 DEF Outstanding, Settled
  <1>5. OneActs' /\ SameDay' /\ ActingFits' /\ Outstanding'
    BY <1>1, <1>3 DEF OneActs, SameDay, ActingFits, Outstanding
  <1>6. Settled'
    BY <1>1, <1>4 DEF Settled
  <1> QED
    BY <1>1, <1>2, <1>5, <1>6

(* A late alias is created and stray at once, and no process acts on it.   *)
LEMMA ArrivesLateCounts ==
    ASSUME IInv, CountersOK, NEW by \in Creators, ArrivesLate(by)
    PROVE  CountersOK'
  <1> DEFINE after(x) == [run[x] EXCEPT !.unknown = run[x].unknown + 1]
  <1>1. /\ run \in [Runs -> RunState] /\ rule' = rule /\ clock' = clock /\ exact' = exact
        /\ run' = [x \in Runs |-> IF run[x].phase = "create" THEN after(x) ELSE run[x]]
    BY DEF ArrivesLate, IInv, TypeOK
  <1>2. cycleCount' = cycleCount /\ dayCount' = dayCount
    <2>1. /\ cycleMade \in Nat /\ cycleStray \in Nat /\ dayMade \in Nat /\ dayStray \in Nat
      BY DEF IInv, TypeOK
    <2> QED
      BY <2>1 DEF ArrivesLate, cycleCount, dayCount
  <1>3. ASSUME NEW x \in Runs
        PROVE  /\ run'[x].phase = run[x].phase /\ run'[x].trigger = run[x].trigger
               /\ run'[x].created = run[x].created /\ run'[x].requested = run[x].requested
               /\ run'[x].snap = run[x].snap /\ run'[x].runAt = run[x].runAt
    <2>1. /\ after(x).phase = run[x].phase /\ after(x).trigger = run[x].trigger
          /\ after(x).created = run[x].created /\ after(x).requested = run[x].requested
          /\ after(x).snap = run[x].snap /\ after(x).runAt = run[x].runAt
      BY <1>1 DEF RunState
    <2> HIDE DEF after
    <2> QED
      BY <1>1, <2>1
  <1>4. \A x \in Runs : /\ Acting(run'[x]) <=> Acting(run[x])
                        /\ Underway(run'[x]) <=> Underway(run[x])
                        /\ ActingOK(run[x], rule, DayOf(clock))
                              => ActingOK(run'[x], rule, DayOf(clock))
    BY <1>3 DEF Acting, Underway, ActingOK, Asked
  <1> QED
    BY <1>1, <1>2, <1>3, <1>4
       DEF CountersOK, OneActs, ActingFits, Outstanding, Settled, SameDay

(* The alias requests and a stuttering step touch no counter. *)
LEMMA CountsUntouched ==
    ASSUME IInv, CountersOK, ChangeAlias \/ UNCHANGED vars
    PROVE  CountersOK'
  <1>1. /\ run' = run /\ rule' = rule /\ clock' = clock /\ cycleCount' = cycleCount
        /\ dayCount' = dayCount /\ exact' = exact
    BY DEF ChangeAlias, vars, ghosts, limits, upstream, cycleCount, dayCount
  <1> QED
    BY <1>1 DEF CountersOK, OneActs, ActingFits, Outstanding, Settled, SameDay

LEMMA InitCounters == Init => CountersOK
  <1> SUFFICES ASSUME Init PROVE CountersOK
    OBVIOUS
  <1>1. PICK c \in Configs, on \in BOOLEAN :
           (on => HasConfiguration(c)) /\ rule = FirstRule(c, on, 0)
    BY DEF Init
  <1>2. c \in Config /\ c.dailyLimit \in Nat /\ c.target \in Nat
    BY RunAssumption DEF Config
  <1>3. rule.cfg = c /\ rule.created = 0 /\ rule.daily = 0 /\ rule.dailyDate = Never
    BY <1>1 DEF FirstRule, NewRule
  <1>4. /\ \A p \in Runs : run[p] = Idle
        /\ cycleCount = 0 /\ dayCount = 0 /\ clock = 0
    BY DEF Init, cycleCount, dayCount
  <1>5. ~Acting(Idle) /\ ~Underway(Idle)
    BY DEF Idle, IdleRun, Acting, Underway
  <1>6. Balanced(rule, cycleCount, dayCount, DayOf(clock), 0)
    <2>1. CountedOn(rule, DayOf(clock)) = 0
      BY <1>3 DEF CountedOn
    <2> QED
      BY <1>2, <1>3, <1>4, <2>1 DEF Balanced
  <1>7. rule.daily <= rule.cfg.dailyLimit
    BY <1>2, <1>3
  <1> QED
    BY <1>4, <1>5, <1>6, <1>7 DEF CountersOK, OneActs, ActingFits, Outstanding, Settled, SameDay

LEMMA NextCounters == IInv /\ CountersOK /\ [Next]_vars => CountersOK'
  <1> SUFFICES ASSUME IInv, CountersOK, [Next]_vars PROVE CountersOK'
    OBVIOUS
  <1>1. ASSUME NEW p \in Runs, RunStep(p)
        PROVE  CountersOK'
    <2>1. CASE StartScheduled(p)
      BY <2>1, BeginCounts DEF StartScheduled, Triggers
    <2>2. CASE StartManual(p)
      BY <2>2, BeginCounts DEF StartManual, Triggers
    <2>3. CASE StartDirect(p)
      BY <2>3, BeginCounts DEF StartDirect, Triggers
    <2>4. CASE ClientFails(p)
      BY <2>4, ClientFailsCounts
    <2>5. CASE Acquire(p)
      BY <2>5, AcquireCounts
    <2>6. CASE AcquireDirect(p)
      BY <2>6, AcquireDirectCounts
    <2>7. CASE ListFails(p)
      BY <2>7, ListFailsCounts
    <2>8. CASE ListSucceeds(p)
      BY <2>8, ListCounts DEF Lists
    <2>9. CASE CreateSucceeds(p)
      BY <2>9, CreateSucceedsCounts
    <2>10. CASE CreateFails(p, FALSE)
      BY <2>10, CreateFailsCounts
    <2>11. CASE Release(p, TRUE)
      BY <2>11, ReleaseCounts
    <2>12. CASE Record(p)
      BY <2>12, RecordCountsStep
    <2>13. CASE Leave(p) \/ Book(p)
      BY <2>13, ReturnCounts
    <2> QED
      BY <1>1, <2>1, <2>2, <2>3, <2>4, <2>5, <2>6, <2>7, <2>8, <2>9, <2>10, <2>11, <2>12,
         <2>13 DEF RunStep
  <1>2. ASSUME NEW p \in Runs, FaultStep(p)
        PROVE  CountersOK'
    BY <1>2, ListCounts, RetryCounts, CreateFailsCounts, ReleaseCounts, ReturnCounts
       DEF FaultStep, Lists
  <1>3. CASE Operator \/ Defer
    BY <1>3, OperatorCountsStep
  <1>4. CASE ChangeAlias \/ UNCHANGED vars
    BY <1>4, CountsUntouched
  <1>5. CASE Tick
    BY <1>5, TickCounts
  <1>6. CASE Restart
    BY <1>6, RestartCounts
  <1>7. ASSUME NEW by \in Creators, ArrivesLate(by)
        PROVE  CountersOK'
    BY <1>7, ArrivesLateCounts
  <1> QED
    BY <1>1, <1>2, <1>3, <1>4, <1>5, <1>6, <1>7 DEF Next

(* The counters leave as much as the limits, and no more is in hand.       *)
LEMMA CountersHonourLimits == IInv /\ CountersOK => LimitsHonoured
  <1> SUFFICES ASSUME IInv, CountersOK, exact
               PROVE  /\ rule.cfg.target > 0 => cycleMade <= rule.cfg.target + cycleStray
                      /\ \A p \in Runs :
                            Executing(p) /\ run[p].created > 0 /\ run[p].snap.cfg.dailyLimit > 0
                              => dayMade <= run[p].snap.cfg.dailyLimit + dayStray
    BY DEF LimitsHonoured
  <1> DEFINE d == DayOf(clock)
  <1>1. /\ rule.created \in Nat /\ rule.cfg.target \in Nat /\ rule.cfg.dailyLimit \in Nat
        /\ CountedOn(rule, d) \in Nat /\ cycleCount \in Int /\ dayCount \in Int
        /\ rule.created <= rule.cfg.target
    BY CountedType, CountTypes DEF IInv, TypeOK, RuleCoherent, Coherent, cycleCount, dayCount
  <1>2. ASSUME NEW x \in Runs, Acting(run[x])
        PROVE  /\ run[x].snap.cfg = rule.cfg
               /\ rule.cfg.target > 0 => cycleCount <= rule.cfg.target
               /\ rule.cfg.dailyLimit > 0 => dayCount <= rule.cfg.dailyLimit
    <2>1. /\ ActingOK(run[x], rule, d)
          /\ Balanced(rule, cycleCount, dayCount, d, run[x].created)
      BY <1>2 DEF CountersOK, ActingFits, Outstanding
    <2>2. /\ run[x].created \in Nat /\ Asked(run[x]) \in Nat
          /\ run[x].created <= Asked(run[x])
      BY DEF IInv, TypeOK, RunState, RunOK, Asked
    <2> QED
      BY <1>1, <2>1, <2>2 DEF ActingOK, Balanced
  <1>3. rule.cfg.target > 0 => cycleCount <= rule.cfg.target
    <2>1. CASE \A x \in Runs : ~Acting(run[x])
      BY <1>1, <2>1 DEF CountersOK, Settled, Balanced
    <2> QED
      BY <1>2, <2>1
  <1>4. ASSUME NEW p \in Runs, Executing(p), run[p].created > 0,
               run[p].snap.cfg.dailyLimit > 0
        PROVE  dayCount <= run[p].snap.cfg.dailyLimit
    <2>1. Acting(run[p])
      BY <1>4 DEF Acting, Executing, Automated
    <2> QED
      BY <1>2, <1>4, <2>1
  <1>5. /\ rule.cfg.target > 0 => cycleMade <= rule.cfg.target + cycleStray
    BY <1>1, <1>3, CountTypes DEF cycleCount
  <1>6. ASSUME NEW p \in Runs, Executing(p), run[p].created > 0,
               run[p].snap.cfg.dailyLimit > 0
        PROVE  dayMade <= run[p].snap.cfg.dailyLimit + dayStray
    <2>1. dayCount <= run[p].snap.cfg.dailyLimit /\ run[p].snap.cfg.dailyLimit \in Nat
      BY <1>4, <1>6 DEF IInv, TypeOK, RunState, Rule, Config
    <2> QED
      BY <2>1, CountTypes DEF dayCount
  <1> QED
    BY <1>5, <1>6

(* The creation limits hold from end to end: however many runs, requests   *)
(* and changes of the rule there are, the aliases that automation brings   *)
(* into being are no more than target_created in one cycle and, in a run,  *)
(* no more than daily_creation_limit in a day, with one more for each that *)
(* came into being without an answer, as long as none of the events        *)
(* happens that the two counters of the rule cannot survive                *)
(* (RecordAliasAutomationRun, aliasAutomationService).                     *)
THEOREM LimitsAlwaysHonoured == Spec => []LimitsHonoured
  <1>1. Spec => []CountersOK
    BY InitCounters, NextCounters, Invariance, PTL DEF Spec
  <1> QED
    BY <1>1, CountersHonourLimits, Invariance, PTL
-----------------------------------------------------------------------------
(* Sums over the processes.                                                *)

(* Every non-empty set of natural numbers has a least element. *)
LEMMA LeastNat ==
    ASSUME NEW T, T \subseteq Nat, T # {}
    PROVE  \E n \in T : \A m \in T : n <= m
  <1> DEFINE R == OpToRel(<, Nat)
  <1>1. IsWellFoundedOn(R, Nat)
    BY NatLessThanWellFounded
  <1>2. \A m, n \in Nat : m < n => <<m, n>> \in R
    BY DEF OpToRel
  <1> HIDE DEF R
  <1>3. PICK n \in T : \A m \in T : ~ (<<m, n>> \in R)
    BY <1>1, WFMin
  <1>4. ASSUME NEW m \in T PROVE n <= m
    <2>1. n \in Nat /\ m \in Nat
      OBVIOUS
    <2>2. ~(m < n)
      BY <1>2, <1>3, <2>1
    <2> QED
      BY <2>1, <2>2
  <1> QED
    BY <1>4

(* Induction over the subsets of a finite set, without an operator for the *)
(* statement: a non-empty family of subsets has a member that leaves the   *)
(* family with each of its elements.                                       *)
LEMMA LeastSubset ==
    ASSUME NEW D, IsFiniteSet(D), NEW T, T \subseteq SUBSET D, T # {}
    PROVE  \E s \in T : \A x \in s : s \ {x} \notin T
  <1> DEFINE C == {Cardinality(s) : s \in T}
  <1>1. ASSUME NEW s \in SUBSET D
        PROVE  IsFiniteSet(s) /\ Cardinality(s) \in Nat
    BY FS_Subset, FS_CardinalityType
  <1>2. C \subseteq Nat /\ C # {}
    BY <1>1
  <1>3. PICK n \in C : \A m \in C : n <= m
    <2> HIDE DEF C
    <2> QED
      BY <1>2, LeastNat
  <1>4. PICK s \in T : Cardinality(s) = n
    BY <1>3
  <1>5. ASSUME NEW x \in s PROVE s \ {x} \notin T
    <2>1. Cardinality(s \ {x}) = Cardinality(s) - 1
      BY <1>1, FS_RemoveElement
    <2>2. CASE s \ {x} \in T
      <3>1. Cardinality(s \ {x}) \in C
        BY <2>2
      <3>2. n <= Cardinality(s) - 1
        <4> HIDE DEF C
        <4> QED
          BY <1>3, <2>1, <3>1
      <3> QED
        BY <1>1, <1>4, <3>2
    <2> QED
      BY <2>2
  <1> QED
    BY <1>5

(* The recursion that FoldFunction unfolds to, with + and 0: g gives the   *)
(* sum of f over every subset of D.                                        *)
Chosen(s) == CHOOSE x \in s : TRUE
SumsOn(g, f, S) ==
    g = [s \in S |-> IF s = {} THEN 0 ELSE f[Chosen(s)] + g[s \ {Chosen(s)}]]

LEMMA SumsExist ==
    ASSUME NEW D, IsFiniteSet(D), NEW f
    PROVE  \E g : SumsOn(g, f, SUBSET D)
  <1> DEFINE Good(n) == \E g : SumsOn(g, f, {s \in SUBSET D : Cardinality(s) <= n})
             T == {n \in Nat : ~Good(n)}
  <1>1. ASSUME NEW s \in SUBSET D
        PROVE  IsFiniteSet(s) /\ Cardinality(s) \in Nat /\ Cardinality(s) <= Cardinality(D)
    BY FS_Subset, FS_CardinalityType
  <1>2. \A n \in Nat : Good(n)
    <2> SUFFICES ASSUME T # {} PROVE FALSE
      OBVIOUS
    <2>1. PICK n \in T : \A m \in T : n <= m
      <3>1. T \subseteq Nat
        OBVIOUS
      <3> HIDE DEF T
      <3> QED
        BY <3>1, LeastNat
    <2> DEFINE S == {s \in SUBSET D : Cardinality(s) <= n}
               R == {s \in SUBSET D : Cardinality(s) <= n - 1}
    <2>2. n \in Nat /\ ~ \E g : SumsOn(g, f, S)
      OBVIOUS
    <2>3. CASE n = 0
      <3> DEFINE g == [s \in S |-> 0]
      <3>1. \A s \in S : s = {}
        BY <1>1, <2>3, FS_EmptySet
      <3>2. SumsOn(g, f, S)
        BY <3>1 DEF SumsOn
      <3> QED
        BY <2>2, <3>2
    <2>4. CASE n > 0
      <3>1. n - 1 \in Nat /\ n - 1 \notin T
        <4>1. n - 1 \in Nat /\ ~(n <= n - 1)
          BY <2>2, <2>4
        <4> HIDE DEF T
        <4> QED
          BY <2>1, <4>1
      <3>2. PICK g : SumsOn(g, f, R)
        BY <3>1
      <3> DEFINE h == [s \in S |-> IF s = {} THEN 0 ELSE f[Chosen(s)] + g[s \ {Chosen(s)}]]
      <3>3. ASSUME NEW s \in S, s # {}
            PROVE  h[s \ {Chosen(s)}] = g[s \ {Chosen(s)}]
        <4>1. Chosen(s) \in s
          BY <3>3 DEF Chosen
        <4>2. Cardinality(s \ {Chosen(s)}) = Cardinality(s) - 1
          BY <1>1, <4>1, FS_RemoveElement
        <4>3. s \ {Chosen(s)} \in R /\ s \ {Chosen(s)} \in S
          BY <1>1, <2>2, <4>2
        <4> HIDE DEF S, R
        <4> QED
          BY <3>2, <4>3 DEF SumsOn
      <3>4. SumsOn(h, f, S)
        <4> HIDE DEF S
        <4> QED
          BY <3>3 DEF SumsOn
      <3> QED
        BY <2>2, <3>4
    <2> QED
      BY <2>2, <2>3, <2>4
  <1>3. Good(Cardinality(D)) /\ {s \in SUBSET D : Cardinality(s) <= Cardinality(D)} = SUBSET D
    BY <1>1, <1>2, FS_CardinalityType
  <1> QED
    BY <1>3

Sum(f) == FoldFunction(+, 0, f)

(* What Sum(f) is: the value of such a g at the domain. *)
LEMMA SumUnfolds ==
    ASSUME NEW D, IsFiniteSet(D), NEW f \in [D -> Nat]
    PROVE  \E g : SumsOn(g, f, SUBSET D) /\ Sum(f) = g[D]
  <1> DEFINE g == CHOOSE h : SumsOn(h, f, SUBSET D)
  <1>1. SumsOn(g, f, SUBSET D)
    BY SumsExist
  <1>2. Sum(f) = g[D]
    BY DEF Sum, FoldFunction, FoldFunctionOnSet, MapThenFoldSet, SumsOn, Chosen
  <1> QED
    BY <1>1, <1>2

LEMMA SumZero ==
    ASSUME NEW D, IsFiniteSet(D), NEW f \in [D -> Nat], \A x \in D : f[x] = 0
    PROVE  Sum(f) = 0
  <1>1. PICK g : SumsOn(g, f, SUBSET D) /\ Sum(f) = g[D]
    BY SumUnfolds
  <1> DEFINE T == {s \in SUBSET D : g[s] # 0}
  <1>2. T = {}
    <2> SUFFICES ASSUME T # {} PROVE FALSE
      OBVIOUS
    <2>1. PICK s \in T : \A x \in s : s \ {x} \notin T
      <3>1. T \subseteq SUBSET D
        OBVIOUS
      <3> HIDE DEF T
      <3> QED
        BY <3>1, LeastSubset
    <2>2. g[s] = IF s = {} THEN 0 ELSE f[Chosen(s)] + g[s \ {Chosen(s)}]
      BY <1>1 DEF SumsOn
    <2> DEFINE c == Chosen(s)
    <2>3. s # {}
      BY <2>1, <2>2
    <2>4. c \in s
      BY <2>3 DEF Chosen
    <2>5. f[c] = 0 /\ g[s \ {c}] = 0
      BY <2>1, <2>4
    <2> HIDE DEF c
    <2> QED
      BY <2>1, <2>2, <2>3, <2>5 DEF c
  <1> QED
    BY <1>1, <1>2

(* One summand changes, and the sum by as much. *)
LEMMA SumChange ==
    ASSUME NEW D, IsFiniteSet(D), NEW f \in [D -> Nat], NEW h \in [D -> Nat], NEW p \in D,
           \A x \in D \ {p} : h[x] = f[x]
    PROVE  /\ Sum(f) \in Nat
           /\ Sum(h) = Sum(f) + h[p] - f[p]
  <1>1. PICK u : SumsOn(u, f, SUBSET D) /\ Sum(f) = u[D]
    BY SumUnfolds
  <1>2. PICK v : SumsOn(v, h, SUBSET D) /\ Sum(h) = v[D]
    BY SumUnfolds
  <1> DEFINE Ok(s) == /\ u[s] \in Nat
                      /\ v[s] = u[s] + IF p \in s THEN h[p] - f[p] ELSE 0
             T == {s \in SUBSET D : ~Ok(s)}
  <1>3. T = {}
    <2> SUFFICES ASSUME T # {} PROVE FALSE
      OBVIOUS
    <2>1. PICK s \in T : \A x \in s : s \ {x} \notin T
      <3>1. T \subseteq SUBSET D
        OBVIOUS
      <3> HIDE DEF T
      <3> QED
        BY <3>1, LeastSubset
    <2> DEFINE c == Chosen(s)
               r == s \ {c}
    <2>2. /\ u[s] = IF s = {} THEN 0 ELSE f[c] + u[r]
          /\ v[s] = IF s = {} THEN 0 ELSE h[c] + v[r]
      BY <1>1, <1>2 DEF SumsOn
    <2>3. CASE s = {}
      BY <2>1, <2>2, <2>3
    <2>4. CASE s # {}
      <3>1. c \in s /\ c \in D /\ c \notin r
        BY <2>4 DEF Chosen
      <3>2. Ok(r)
        BY <2>1, <3>1
      <3>3. f[c] \in Nat /\ h[c] \in Nat /\ f[p] \in Nat /\ h[p] \in Nat
        BY <3>1
      <3>4. p \in s <=> (p = c \/ p \in r)
        BY <3>1
      <3>5. c # p => h[c] = f[c]
        BY <3>1
      <3> HIDE DEF c, r
      <3>6. Ok(s)
        BY <2>2, <2>4, <3>1, <3>2, <3>3, <3>4, <3>5
      <3> QED
        BY <2>1, <3>6
    <2> QED
      BY <2>3, <2>4
  <1>4. Ok(D)
    BY <1>3
  <1> QED
    BY <1>1, <1>2, <1>4

LEMMA SumsNat ==
    ASSUME NEW D, IsFiniteSet(D), NEW f \in [D -> Nat], NEW u, SumsOn(u, f, SUBSET D)
    PROVE  \A s \in SUBSET D : u[s] \in Nat
  <1> DEFINE T == {s \in SUBSET D : u[s] \notin Nat}
  <1>1. T = {}
    <2> SUFFICES ASSUME T # {} PROVE FALSE
      OBVIOUS
    <2>1. PICK s \in T : \A x \in s : s \ {x} \notin T
      <3>1. T \subseteq SUBSET D
        OBVIOUS
      <3> HIDE DEF T
      <3> QED
        BY <3>1, LeastSubset
    <2> DEFINE c == Chosen(s)
               r == s \ {c}
    <2>2. s \in SUBSET D /\ u[s] = IF s = {} THEN 0 ELSE f[c] + u[r]
      BY DEF SumsOn
    <2>3. CASE s # {}
      <3>1. c \in s /\ f[c] \in Nat
        BY <2>2, <2>3 DEF Chosen
      <3>2. u[r] \in Nat
        BY <2>1, <2>2, <3>1
      <3> HIDE DEF c, r
      <3> QED
        BY <2>1, <2>2, <2>3, <3>1, <3>2
    <2> QED
      BY <2>1, <2>2, <2>3
  <1> QED
    BY <1>1

(* Any element of a set may be taken out of the sum over it.               *)
LEMMA SumTakes ==
    ASSUME NEW D, NEW f, NEW u, NEW t, NEW y,
           IsFiniteSet(D), f \in [D -> Nat], SumsOn(u, f, SUBSET D),
           t \in SUBSET D, y \in t
    PROVE  u[t] = f[y] + u[t \ {y}]
  <1> DEFINE Ok(s) == \A x \in s : u[s] = f[x] + u[s \ {x}]
             T == {s \in SUBSET D : ~Ok(s)}
  <1>0. \A s \in SUBSET D : u[s] \in Nat
    BY SumsNat
  <1>1. T = {}
    <2> SUFFICES ASSUME T # {} PROVE FALSE
      OBVIOUS
    <2>1. PICK s \in T : \A x \in s : s \ {x} \notin T
      <3>1. T \subseteq SUBSET D
        OBVIOUS
      <3> HIDE DEF T
      <3> QED
        BY <3>1, LeastSubset
    <2> DEFINE c == Chosen(s)
               r == s \ {c}
    <2>2. s \in SUBSET D /\ u[s] = IF s = {} THEN 0 ELSE f[c] + u[r]
      BY DEF SumsOn
    <2>3. CASE s = {}
      BY <2>1, <2>2, <2>3
    <2>4. CASE s # {}
      <3>1. c \in s
        BY <2>4 DEF Chosen
      <3>2. \A x \in s : Ok(s \ {x})
        BY <2>1, <2>2
      <3> HIDE DEF c
      <3>3. u[s] = f[c] + u[r] /\ u[r] \in Nat /\ f[c] \in Nat
        BY <1>0, <2>2, <2>4, <3>1
      <3>4. ASSUME NEW x \in s, x # c
            PROVE  u[s] = f[x] + u[s \ {x}]
        <4>1. x \in r /\ c \in s \ {x} /\ r \ {x} = (s \ {x}) \ {c}
          BY <3>1, <3>4
        <4>2. u[r] = f[x] + u[r \ {x}] /\ u[s \ {x}] = f[c] + u[(s \ {x}) \ {c}]
          BY <3>1, <3>2, <4>1
        <4>3. u[s \ {x}] \in Nat /\ u[r \ {x}] \in Nat /\ f[x] \in Nat
          BY <1>0, <2>2, <3>4
        <4>4. u[s \ {x}] = f[c] + u[r \ {x}]
          BY <4>1, <4>2
        <4>5. u[s] = f[c] + (f[x] + u[r \ {x}])
          BY <3>3, <4>2
        <4> HIDE DEF r
        <4> QED
          BY <3>3, <4>3, <4>4, <4>5
      <3>5. Ok(s)
        BY <2>2, <3>3, <3>4
      <3> QED
        BY <2>1, <3>5
    <2> QED
      BY <2>3, <2>4
  <1> QED
    BY <1>0, <1>1

(* u holds the sums of f over the subsets of D. *)
SumTable(u, f, D) == IsFiniteSet(D) /\ f \in [D -> Nat] /\ SumsOn(u, f, SUBSET D)

(* y may be taken out of the sum over D. *)
Takes(u, f, D, y) == u[D] = f[y] + u[D \ {y}]

LEMMA SumTakesLast ==
    ASSUME NEW D, NEW f, NEW u, NEW y, SumTable(u, f, D), y \in D
    PROVE  Takes(u, f, D, y)
  <1>1. D \in SUBSET D
    OBVIOUS
  <1> QED
    BY <1>1, SumTakes, Z3 DEF SumTable, Takes

(* E is D and one more element. *)
Extends(E, D, p) == p \notin D /\ E = D \cup {p}

(* A summand more. *)
LEMMA SumExtend ==
    ASSUME NEW D, NEW E, NEW p, NEW f, NEW h,
           IsFiniteSet(D), Extends(E, D, p),
           f \in [D -> Nat], h \in [E -> Nat], \A x \in D : h[x] = f[x]
    PROVE  Sum(f) \in Nat /\ Sum(h) = Sum(f) + h[p]
  <1>1. IsFiniteSet(E)
    BY FS_AddElement DEF Extends
  <1>2. PICK u : SumsOn(u, f, SUBSET D) /\ Sum(f) = u[D]
    BY SumUnfolds
  <1>3. PICK v : SumsOn(v, h, SUBSET E) /\ Sum(h) = v[E]
    BY <1>1, SumUnfolds
  <1> DEFINE T == {s \in SUBSET D : v[s] # u[s]}
  <1>4. T = {}
    <2> SUFFICES ASSUME T # {} PROVE FALSE
      OBVIOUS
    <2>1. PICK s \in T : \A x \in s : s \ {x} \notin T
      <3>1. T \subseteq SUBSET D
        OBVIOUS
      <3> HIDE DEF T
      <3> QED
        BY <3>1, LeastSubset
    <2> DEFINE c == Chosen(s)
               r == s \ {c}
    <2>2. s \in SUBSET D /\ s \in SUBSET E
      BY DEF Extends
    <2>3. /\ u[s] = IF s = {} THEN 0 ELSE f[c] + u[r]
          /\ v[s] = IF s = {} THEN 0 ELSE h[c] + v[r]
      BY <1>2, <1>3, <2>2 DEF SumsOn
    <2>4. CASE s # {}
      <3>1. c \in s /\ c \in D
        BY <2>2, <2>4 DEF Chosen
      <3>2. v[r] = u[r]
        BY <2>1, <2>2, <3>1
      <3> HIDE DEF c, r
      <3> QED
        BY <2>1, <2>3, <2>4, <3>1, <3>2
    <2> QED
      BY <2>1, <2>3, <2>4
  <1>5. v[D] = u[D]
    BY <1>4
  <1>6. v[E] = h[p] + v[D] /\ h[p] \in Nat
    <2>1. h \in [E -> Nat] /\ p \in E /\ E \ {p} = D
      BY DEF Extends
    <2>2. SumTable(v, h, E) /\ p \in E
      BY <1>1, <1>3, <2>1 DEF SumTable
    <2>3. Takes(v, h, E, p)
      BY <2>2, SumTakesLast
    <2> QED
      BY <2>1, <2>3 DEF Takes
  <1>7. u[D] \in Nat
    BY <1>2, SumsNat
  <1> QED
    BY <1>2, <1>3, <1>5, <1>6, <1>7

-----------------------------------------------------------------------------
(* The creation history.                                                   *)

(* What the processes have created and not yet written down, and the same  *)
(* with the local states of f.                                             *)
CreatedBy(f) == [x \in Runs |-> f[x].created]
InHand(f) == Sum(CreatedBy(f))

(* A step of one process changes what is in hand by what it has created.   *)
LEMMA InHandStep ==
    ASSUME IInv, IInv', NEW p \in Runs, NEW q, run' = [run EXCEPT ![p] = q]
    PROVE  /\ InHand(run) \in Nat /\ run[p].created \in Nat /\ q.created \in Nat
           /\ InHand(run') = InHand(run) + q.created - run[p].created
  <1> DEFINE f == CreatedBy(run)
             h == CreatedBy(run')
  <1>1. /\ run \in [Runs -> RunState] /\ run' \in [Runs -> RunState] /\ IsFiniteSet(Runs)
        /\ run'[p] = q /\ \A x \in Runs \ {p} : run'[x] = run[x]
    BY RunAssumption DEF IInv, TypeOK
  <1>2. f \in [Runs -> Nat] /\ h \in [Runs -> Nat]
    BY <1>1 DEF CreatedBy, RunState
  <1>3. h[p] = q.created /\ f[p] = run[p].created /\ \A x \in Runs \ {p} : h[x] = f[x]
    BY <1>1 DEF CreatedBy
  <1>4. run[p].created \in Nat /\ q.created \in Nat
    BY <1>2, <1>3
  <1> HIDE DEF f, h
  <1>5. Sum(f) \in Nat /\ Sum(h) = Sum(f) + h[p] - f[p]
    BY <1>1, <1>2, <1>3, SumChange
  <1> QED
    BY <1>3, <1>4, <1>5 DEF InHand, f, h

LEMMA InHandZero ==
    ASSUME NEW f \in [Runs -> RunState], \A x \in Runs : f[x].created = 0
    PROVE  InHand(f) = 0
  <1>1. CreatedBy(f) \in [Runs -> Nat] /\ \A x \in Runs : CreatedBy(f)[x] = 0
    BY DEF CreatedBy
  <1> QED
    BY <1>1, RunAssumption, SumZero DEF InHand

(* What is in the batches ever booked. *)
Created(batches) == [n \in DOMAIN batches |-> batches[n].created]
Booked(h) == Sum(Created(h.batches))

(* The batches that stand for a batch n which is not kept any more. *)
Successors(batches, n) ==
    {m \in DOMAIN batches \ {n} : m > n \/ batches[m].at >= batches[n].at}

Replaced(h) ==
    /\ h.kept \subseteq DOMAIN h.batches
    /\ \A n \in DOMAIN h.batches \ h.kept :
          MaxHistory <= Cardinality(Successors(h.batches, n))

(* HistoryComplete, in terms of what is booked and what is in hand. *)
HistoryInv ==
    /\ ~lost => made = Booked(history) + InHand(run)
    /\ Replaced(history)

LEMMA HistoryIsInv == HistoryInv => HistoryComplete
  BY DEF HistoryInv, HistoryComplete, InHand, CreatedBy, Booked, Created, Replaced,
         Successors, Sum

(* A sequence and its batches. *)
LEMMA BatchesOf ==
    ASSUME NEW h \in History
    PROVE  /\ h.batches \in Seq(Batch) /\ Len(h.batches) \in Nat
           /\ DOMAIN h.batches = 1..Len(h.batches) /\ IsFiniteSet(DOMAIN h.batches)
           /\ \A n \in DOMAIN h.batches : h.batches[n] \in Batch
           /\ Created(h.batches) \in [1..Len(h.batches) -> Nat]
  <1>1. h.batches \in Seq(Batch)
    BY DEF History
  <1> DEFINE s == h.batches
  <1>2. /\ Len(s) \in Nat /\ DOMAIN s = 1..Len(s) /\ \A n \in 1..Len(s) : s[n] \in Batch
    BY <1>1
  <1> HIDE DEF s
  <1>3. IsFiniteSet(1..Len(s))
    BY <1>2, FS_Interval
  <1>4. Created(s) \in [1..Len(s) -> Nat]
    BY <1>2 DEF Created, Batch
  <1> QED
    BY <1>1, <1>2, <1>3, <1>4 DEF s

LEMMA BookedType ==
    ASSUME NEW h \in History
    PROVE  Booked(h) \in Nat
  <1> DEFINE D == 1..Len(h.batches)
             f == Created(h.batches)
  <1>1. IsFiniteSet(D) /\ f \in [D -> Nat]
    BY BatchesOf
  <1> HIDE DEF D, f
  <1>2. PICK u : SumsOn(u, f, SUBSET D) /\ Sum(f) = u[D]
    BY <1>1, SumUnfolds
  <1>3. u[D] \in Nat
    BY <1>1, <1>2, SumsNat
  <1> QED
    BY <1>2, <1>3 DEF Booked, f

(* Reading the file again changes the order only. *)
LEMMA RereadKeeps ==
    ASSUME NEW h \in History, Replaced(h)
    PROVE  Booked(Reread(h)) = Booked(h) /\ Replaced(Reread(h))
  <1>1. Reread(h).batches = h.batches /\ Reread(h).kept = h.kept
    BY RereadType
  <1> QED
    BY <1>1 DEF Booked, Replaced

(* A new batch adds its aliases to what is booked.                         *)
LEMMA BookedGrows ==
    ASSUME NEW h \in History, NEW b \in Batch
    PROVE  Booked(h) \in Nat /\ Booked(WithBatch(h, b)) = Booked(h) + b.created
  <1> DEFINE n == Len(h.batches) + 1
             s == Append(h.batches, b)
             D == 1..Len(h.batches)
             f == Created(h.batches)
             g == Created(s)
  <1>1. /\ h.batches \in Seq(Batch) /\ Len(h.batches) \in Nat /\ IsFiniteSet(D)
        /\ f \in [D -> Nat] /\ DOMAIN h.batches = D /\ n \in Nat /\ n \notin D
    BY BatchesOf
  <1>2. /\ DOMAIN s = D \cup {n} /\ s[n] = b /\ \A x \in D : s[x] = h.batches[x]
    BY <1>1
  <1>3. /\ g \in [D \cup {n} -> Nat] /\ g[n] = b.created /\ \A x \in D : g[x] = f[x]
    <2>1. WithBatch(h, b) \in History /\ WithBatch(h, b).batches = s
      BY WithBatchType
    <2>2. g \in [DOMAIN s -> Nat]
      BY <2>1, BatchesOf
    <2>3. \A x \in DOMAIN s : g[x] = s[x].created
      BY DEF Created
    <2>4. \A x \in D : f[x] = h.batches[x].created
      BY <1>1 DEF Created
    <2> HIDE DEF g, f, s, D, n
    <2> QED
      BY <1>2, <2>2, <2>3, <2>4
  <1>4. WithBatch(h, b).batches = s
    BY WithBatchType
  <1> HIDE DEF f, g, s, D, n
  <1>5. Sum(f) \in Nat /\ Sum(g) = Sum(f) + g[n]
    <2> DEFINE E == D \cup {n}
    <2>1. IsFiniteSet(D) /\ f \in [D -> Nat] /\ \A x \in D : g[x] = f[x]
      BY <1>1, <1>3
    <2>2. Extends(E, D, n) /\ g \in [E -> Nat]
      BY <1>1, <1>3 DEF Extends
    <2> HIDE DEF E
    <2> QED
      BY <2>1, <2>2, SumExtend
  <1> QED
    BY <1>3, <1>4, <1>5 DEF Booked, f, g

(* A batch that was not kept keeps its successors, and one that is dropped *)
(* for the new one has those that stand before it.                         *)
LEMMA ReplacedStays ==
    ASSUME NEW h \in History, NEW b \in Batch, Replaced(h)
    PROVE  Replaced(WithBatch(h, b))
  <1> DEFINE n == Len(h.batches) + 1
             s == Append(h.batches, b)
             D == DOMAIN h.batches
             longer == [h EXCEPT !.batches = s, !.kept = h.kept \cup {n}]
             w == WithBatch(h, b)
  <1>1. /\ h.batches \in Seq(Batch) /\ Len(h.batches) \in Nat /\ IsFiniteSet(D)
        /\ D = 1..Len(h.batches) /\ n \in Nat /\ n \notin D
        /\ h.kept \subseteq D
    BY BatchesOf DEF Replaced
  <1>2. DOMAIN s = D \cup {n} /\ s[n] = b /\ \A x \in D : s[x] = h.batches[x]
    BY <1>1
  <1>3. IsFiniteSet(DOMAIN s) /\ DOMAIN s \subseteq Nat
    <2>1. w \in History /\ w.batches = s
      BY WithBatchType
    <2>2. IsFiniteSet(DOMAIN s) /\ DOMAIN s = 1..Len(s) /\ Len(s) \in Nat
      BY <2>1, BatchesOf
    <2> QED
      BY <2>2
  <1>4. longer.batches = s /\ longer.kept = h.kept \cup {n}
    BY DEF History
  <1>5. w.batches = s /\ w.kept = Kept(longer)
    <2>1. w = [longer EXCEPT !.kept = Kept(longer)]
      BY DEF WithBatch
    <2>2. longer \in [batches : Seq(Batch), kept : SUBSET Nat, loaded : Nat]
      <3>1. s \in Seq(Batch) /\ h.kept \cup {n} \in SUBSET Nat
        BY <1>1
      <3> HIDE DEF s, n
      <3> QED
        BY <3>1 DEF History
    <2> HIDE DEF longer
    <2>3. w.kept = Kept(longer) /\ w.batches = longer.batches
      BY <2>1, <2>2
    <2> QED
      BY <1>4, <2>3
  <1> HIDE DEF n, s, D, longer, w
  <1>6. Kept(longer) \subseteq h.kept \cup {n}
    BY <1>4 DEF Kept
  <1>7. ASSUME NEW x \in DOMAIN s, x \notin Kept(longer)
        PROVE  MaxHistory <= Cardinality(Successors(s, x))
    <2>1. /\ IsFiniteSet(Successors(s, x)) /\ Cardinality(Successors(s, x)) \in Nat
      BY <1>3, FS_Subset, FS_CardinalityType DEF Successors
    <2>2. CASE x \in h.kept \cup {n}
      <3> DEFINE B == {y \in longer.kept : Precedes(longer, y, x)}
      <3>1. B \subseteq Successors(s, x)
        <4> SUFFICES ASSUME NEW y \in B PROVE y \in Successors(s, x)
          OBVIOUS
        <4>1. y \in DOMAIN s /\ Precedes(longer, y, x)
          BY <1>1, <1>2, <1>4
        <4>2. x \in Nat /\ y \in Nat
          BY <1>3, <4>1
        <4>3. s[x].at \in Nat /\ s[y].at \in Nat
          <5>1. \A z \in DOMAIN s : s[z].at \in Nat
            <6>1. WithBatch(h, b) \in History /\ WithBatch(h, b).batches = s
              BY WithBatchType DEF s
            <6> QED
              BY <6>1, BatchesOf DEF Batch
          <5> QED
            BY <4>1, <5>1
        <4>4. y # x /\ (y > x \/ s[y].at >= s[x].at)
          BY <1>4, <4>1, <4>2, <4>3 DEF Precedes
        <4> QED
          BY <4>1, <4>4 DEF Successors
      <3>2. IsFiniteSet(B) /\ Cardinality(B) \in Nat
            /\ Cardinality(B) <= Cardinality(Successors(s, x))
        BY <2>1, <3>1, FS_Subset, FS_CardinalityType
      <3>3. ~(Cardinality(B) < MaxHistory)
        BY <1>4, <1>7, <2>2 DEF Kept
      <3> HIDE DEF B
      <3> QED
        BY <2>1, <3>2, <3>3, RunAssumption
    <2>3. CASE x \notin h.kept \cup {n}
      <3>1. x \in D \ h.kept
        BY <1>2, <2>3
      <3>2. MaxHistory <= Cardinality(Successors(h.batches, x))
        BY <3>1 DEF Replaced, D
      <3>3. Successors(h.batches, x) \subseteq Successors(s, x)
        BY <1>2, <3>1 DEF Successors, D
      <3>4. /\ Cardinality(Successors(h.batches, x)) <= Cardinality(Successors(s, x))
            /\ Cardinality(Successors(h.batches, x)) \in Nat
        BY <2>1, <3>3, FS_Subset, FS_CardinalityType
      <3> QED
        BY <2>1, <3>2, <3>4, RunAssumption
    <2> QED
      BY <2>2, <2>3
  <1>8. w.kept \subseteq DOMAIN w.batches
    BY <1>1, <1>2, <1>5, <1>6
  <1> QED
    BY <1>5, <1>7, <1>8 DEF Replaced, w

(* Nothing is created or written down, and p keeps what it has in hand.    *)
LEMMA HandKept ==
    ASSUME IInv, IInv', HistoryInv, NEW p \in Runs, NEW q,
           run' = [run EXCEPT ![p] = q], q.created = run[p].created,
           made' = made, history' = history, lost' = lost
    PROVE  HistoryInv'
  <1>1. /\ InHand(run) \in Nat /\ InHand(run') = InHand(run) + q.created - run[p].created
        /\ run[p].created \in Nat
    BY InHandStep
  <1>2. InHand(run') = InHand(run)
    BY <1>1
  <1> QED
    BY <1>2 DEF HistoryInv

(* The steps of a run that create nothing and write nothing down: each     *)
(* replaces the local state of p by one with the same `created`.           *)
LEMMA QuietStep ==
    ASSUME IInv, IInv', HistoryInv, NEW p \in Runs,
           \/ StartScheduled(p) \/ StartManual(p) \/ StartDirect(p) \/ ClientFails(p)
           \/ Acquire(p) \/ AcquireDirect(p) \/ ListFails(p) \/ Lists(p)
           \/ Retry(p) \/ Leave(p) \/ Record(p)
           \/ \E b \in BOOLEAN : CreateFails(p, b) \/ Release(p, b)
    PROVE  HistoryInv'
  <1>1. run \in [Runs -> RunState] /\ run[p] \in RunState /\ RunOK(run[p], clock, aliases.total)
    BY DEF IInv, TypeOK
  <1>2. Idle.created = 0 /\ Idle \in RunState
    BY IdleType DEF Idle, IdleRun
  <1>3. made' = made /\ history' = history /\ lost' = lost
    BY DEF StartScheduled, StartManual, StartDirect, ClientFails, Acquire, AcquireDirect,
           ListFails, Lists, ListSucceeds, ListBreaksOff, Retry, Leave, Record, CreateFails,
           Release, ghosts
  <1>4. \E q : run' = [run EXCEPT ![p] = q] /\ q.created = run[p].created
    <2>1. ASSUME NEW t \in Triggers, run[p].phase = "idle", Begin(p, t)
          PROVE  \E q : run' = [run EXCEPT ![p] = q] /\ q.created = run[p].created
      <3> DEFINE q == [Idle EXCEPT
                         !.phase = IF t # "direct" /\ TargetReached(rule) THEN "record" ELSE "wait",
                         !.trigger = t, !.runAt = clock]
      <3>1. q.created = 0 /\ run[p].created = 0
        BY <1>1, <1>2, <2>1 DEF RunOK, RunState
      <3>2. run' = [run EXCEPT ![p] = q]
        BY <2>1 DEF Begin
      <3> QED
        BY <3>1, <3>2
    <2>2. CASE StartScheduled(p) \/ StartManual(p) \/ StartDirect(p)
      BY <2>1, <2>2 DEF StartScheduled, StartManual, StartDirect, Triggers
    <2>3. CASE ClientFails(p)
      <3> DEFINE q == [run[p] EXCEPT !.phase = IF Automated(p) THEN "record" ELSE "book",
                                     !.status = "error"]
      <3>1. run' = [run EXCEPT ![p] = q] /\ q.created = run[p].created
        BY <1>1, <2>3 DEF ClientFails, RunState
      <3> QED
        BY <3>1
    <2>4. CASE Acquire(p)
      <3> DEFINE q == [run[p] EXCEPT !.phase = LockedPhase(p), !.snap = rule]
      <3>1. run' = [run EXCEPT ![p] = q] /\ q.created = run[p].created
        BY <1>1, <2>4 DEF Acquire, RunState
      <3> QED
        BY <3>1
    <2>5. CASE AcquireDirect(p)
      <3>1. PICK n \in DirectCounts :
               run' = [run EXCEPT ![p].phase = "create", ![p].requested = n]
        BY <2>5 DEF AcquireDirect
      <3> DEFINE q == [run[p] EXCEPT !.phase = "create", !.requested = n]
      <3>2. run' = [run EXCEPT ![p] = q] /\ q.created = run[p].created
        BY <1>1, <3>1 DEF RunState
      <3> QED
        BY <3>2
    <2>6. CASE ListFails(p)
      <3> DEFINE q == [run[p] EXCEPT !.phase = "release", !.status = "error"]
      <3>1. run' = [run EXCEPT ![p] = q] /\ q.created = run[p].created
        BY <1>1, <2>6 DEF ListFails, RunState
      <3> QED
        BY <3>1
    <2>7. CASE Lists(p)
      <3>0. PICK seen \in [total : Nat, active : Nat] :
               seen.total <= aliases.total /\ run' = [run EXCEPT ![p] = Plan(p, seen)]
        BY <2>7, ListReads
      <3>1. run[p].phase = "list" /\ run[p].created = 0
        BY <1>1, <2>7 DEF Lists, ListSucceeds, ListBreaksOff, RunOK
      <3>2. Plan(p, seen).created = 0
        BY <1>1, <3>0, <3>1, PlanOK DEF IInv, RunOK
      <3> QED
        BY <3>0, <3>1, <3>2
    <2>8. CASE Retry(p)
      <3> DEFINE q == [run[p] EXCEPT !.attempt = run[p].attempt + 1]
      <3>1. run' = [run EXCEPT ![p] = q] /\ q.created = run[p].created
        BY <1>1, <2>8 DEF Retry, RunState
      <3> QED
        BY <3>1
    <2>9. CASE Leave(p)
      BY <1>1, <1>2, <2>9 DEF Leave, RunOK
    <2>10. CASE Record(p)
      <3> DEFINE q == [Idle EXCEPT !.phase = "book", !.trigger = run[p].trigger,
                                   !.runAt = run[p].runAt, !.created = run[p].created]
      <3>1. run' = [run EXCEPT ![p] = q] /\ q.created = run[p].created
        BY <1>2, <2>10 DEF Record, RunState
      <3> QED
        BY <3>1
    <2>11. ASSUME NEW b \in BOOLEAN, CreateFails(p, b)
           PROVE  \E q : run' = [run EXCEPT ![p] = q] /\ q.created = run[p].created
      <3> DEFINE status == IF run[p].created > 0 THEN "partial" ELSE "error"
                 q == [run[p] EXCEPT !.phase = "release", !.attempt = 0, !.unknown = 0,
                                     !.status = status, !.pause = NoReason, !.next = Never]
      <3>1. run' = [run EXCEPT ![p] = q]
        BY <1>1, <2>11 DEF CreateFails
      <3> HIDE DEF status
      <3>2. q.created = run[p].created
        BY <1>1 DEF RunState
      <3> QED
        BY <3>1, <3>2
    <2>12. ASSUME NEW b \in BOOLEAN, Release(p, b)
           PROVE  \E q : run' = [run EXCEPT ![p] = q] /\ q.created = run[p].created
      <3> DEFINE phase  == IF Automated(p) THEN "record" ELSE "book"
                 status == IF ~b /\ run[p].status = "skipped" THEN "error" ELSE run[p].status
                 next   == IF ~b /\ run[p].status = "skipped" THEN Never ELSE run[p].next
                 q      == [run[p] EXCEPT !.phase = phase, !.status = status, !.next = next]
      <3>1. run' = [run EXCEPT ![p] = q]
        BY <1>1, <2>12 DEF Release
      <3> HIDE DEF phase, status, next
      <3>2. q.created = run[p].created
        BY <1>1 DEF RunState
      <3> QED
        BY <3>1, <3>2
    <2> QED
      BY <2>2, <2>3, <2>4, <2>5, <2>6, <2>7, <2>8, <2>9, <2>10, <2>11, <2>12
  <1> QED
    BY <1>3, <1>4, HandKept

LEMMA CreatedHistory ==
    ASSUME IInv, IInv', HistoryInv, NEW p \in Runs, CreateSucceeds(p)
    PROVE  HistoryInv'
  <1> DEFINE o    == run[p]
             last == o.created + 1 = o.requested
             after == IF last THEN "release" ELSE "create"
             status == IF last THEN "success" ELSE o.status
             unknown == IF last THEN 0 ELSE o.unknown
             q    == [o EXCEPT !.created = o.created + 1, !.attempt = 0, !.unknown = unknown,
                               !.phase = after, !.status = status]
  <1>1. /\ o \in RunState /\ run \in [Runs -> RunState] /\ made \in Nat
        /\ history \in History /\ Booked(history) \in Nat
    BY BookedType DEF IInv, TypeOK
  <1>2. run' = [run EXCEPT ![p] = q] /\ made' = made + 1 /\ history' = history /\ lost' = lost
    BY <1>1 DEF CreateSucceeds
  <1> HIDE DEF after, status, unknown
  <1>3. q.created = o.created + 1
    BY <1>1 DEF RunState
  <1> HIDE DEF q
  <1>4. /\ InHand(run) \in Nat /\ InHand(run') = InHand(run) + q.created - run[p].created
        /\ run[p].created \in Nat
    BY <1>2, InHandStep
  <1>5. InHand(run') = InHand(run) + 1
    BY <1>3, <1>4
  <1> QED
    BY <1>1, <1>2, <1>4, <1>5 DEF HistoryInv

(* What p had in hand is in the history, or lost with the failed save.     *)
LEMMA ReturnHistory ==
    ASSUME IInv, IInv', HistoryInv, NEW p \in Runs,
           RecordFails(p) \/ Book(p) \/ BookFails(p)
    PROVE  HistoryInv'
  <1>1. /\ run' = [run EXCEPT ![p] = Idle] /\ made' = made /\ made \in Nat
        /\ history \in History /\ Booked(history) \in Nat
    BY BookedType DEF RecordFails, Book, BookFails, ghosts, IInv, TypeOK
  <1>2. Idle.created = 0
    BY DEF Idle, IdleRun
  <1>3. /\ InHand(run) \in Nat /\ InHand(run') = InHand(run) + Idle.created - run[p].created
        /\ run[p].created \in Nat
    BY <1>1, InHandStep
  <1>4. CASE Book(p)
    <2> DEFINE b == [at |-> IF Automated(p) THEN run[p].runAt ELSE clock,
                     created |-> run[p].created]
    <2>1. history' = WithBatch(history, b) /\ lost' = lost
      BY <1>4 DEF Book, ghosts
    <2>2. b \in Batch /\ b.created = run[p].created
      BY DEF Batch, IInv, TypeOK, RunState
    <2> HIDE DEF b
    <2>3. Booked(history') = Booked(history) + run[p].created
      BY <1>1, <2>1, <2>2, BookedGrows
    <2>4. Replaced(history')
      BY <1>1, <2>1, <2>2, ReplacedStays DEF HistoryInv
    <2> QED
      BY <1>1, <1>2, <1>3, <2>1, <2>3, <2>4 DEF HistoryInv
  <1>5. CASE RecordFails(p) \/ BookFails(p)
    <2>1. history' = history /\ (~lost' => ~lost /\ ~(run[p].created > 0))
      BY <1>5 DEF RecordFails, BookFails
    <2>2. ~lost' => run[p].created = 0
      BY <1>3, <2>1
    <2> QED
      BY <1>1, <1>2, <1>3, <2>1, <2>2 DEF HistoryInv
  <1> QED
    BY <1>4, <1>5

(* A restart empties every hand, and loses nothing when all were empty.    *)
LEMMA RestartHistory ==
    ASSUME IInv, IInv', HistoryInv, Restart
    PROVE  HistoryInv'
  <1>0. Booked(history') = Booked(history) /\ Replaced(history')
    <2>1. history' = Reread(history)
      BY DEF Restart
    <2> QED
      BY <2>1, RereadKeeps DEF HistoryInv, IInv, TypeOK
  <1> SUFFICES ASSUME ~lost'
               PROVE  made' = Booked(history') + InHand(run')
    BY <1>0 DEF HistoryInv
  <1>1. /\ ~lost /\ made' = made
        /\ \A x \in Runs : ~(run[x].created > 0)
        /\ \A x \in Runs : run'[x] = Idle
    BY DEF Restart
  <1>2. /\ run \in [Runs -> RunState] /\ run' \in [Runs -> RunState] /\ Idle.created = 0
    BY DEF IInv, TypeOK, Idle, IdleRun
  <1>3. \A x \in Runs : run[x].created = 0 /\ run'[x].created = 0
    BY <1>1, <1>2 DEF RunState
  <1>4. InHand(run) = 0 /\ InHand(run') = 0
    BY <1>2, <1>3, InHandZero
  <1> QED
    BY <1>0, <1>1, <1>4 DEF HistoryInv

LEMMA InitHistory == Init => HistoryInv
  <1> SUFFICES ASSUME Init PROVE HistoryInv
    OBVIOUS
  <1>1. /\ run \in [Runs -> RunState] /\ \A p \in Runs : run[p] = Idle
        /\ made = 0 /\ history = [batches |-> <<>>, kept |-> {}, loaded |-> 0]
    BY IdleType DEF Init
  <1>2. \A p \in Runs : run[p].created = 0
    BY <1>1 DEF Idle, IdleRun
  <1>3. InHand(run) = 0
    BY <1>1, <1>2, InHandZero
  <1>4. history \in History /\ history.batches = <<>> /\ history.kept = {}
    <2>1. <<>> \in Seq(Batch)
      OBVIOUS
    <2> QED
      BY <1>1, <2>1 DEF History
  <1>5. DOMAIN history.batches = {}
    BY <1>4
  <1>6. Booked(history) = 0
    <2>1. Created(history.batches) \in [{} -> Nat]
      BY <1>5 DEF Created
    <2> QED
      BY <2>1, SumZero, FS_EmptySet DEF Booked
  <1>7. Replaced(history)
    BY <1>4, <1>5 DEF Replaced
  <1> QED
    BY <1>1, <1>3, <1>6, <1>7 DEF HistoryInv

LEMMA NextHistory == IInv /\ IInv' /\ HistoryInv /\ [Next]_vars => HistoryInv'
  <1> SUFFICES ASSUME IInv, IInv', HistoryInv, [Next]_vars PROVE HistoryInv'
    OBVIOUS
  <1>1. ASSUME NEW p \in Runs, RunStep(p) \/ FaultStep(p)
        PROVE  HistoryInv'
    <2>1. CASE CreateSucceeds(p)
      BY <2>1, CreatedHistory
    <2>2. CASE RecordFails(p) \/ Book(p) \/ BookFails(p)
      BY <2>2, ReturnHistory
    <2>3. CASE \/ StartScheduled(p) \/ StartManual(p) \/ StartDirect(p) \/ ClientFails(p)
               \/ Acquire(p) \/ AcquireDirect(p) \/ ListFails(p) \/ Lists(p)
               \/ Retry(p) \/ Leave(p) \/ Record(p)
               \/ \E b \in BOOLEAN : CreateFails(p, b) \/ Release(p, b)
      BY <2>3, QuietStep
    <2> QED
      BY <1>1, <2>1, <2>2, <2>3 DEF RunStep, FaultStep, Lists
  <1>2. CASE (Operator /\ ~Reload) \/ Defer \/ ChangeAlias \/ Tick \/ UNCHANGED vars
    <2>1. run' = run /\ made' = made /\ history' = history /\ lost' = lost
      BY <1>2 DEF Operator, Defer, SetAutomation, Pause, Resume, ChangeAlias, Tick, ghosts, vars
    <2> QED
      BY <2>1 DEF HistoryInv
  <1>3. CASE Restart
    BY <1>3, RestartHistory
  <1>4. CASE Reload
    <2>1. run' = run /\ made' = made /\ history' = Reread(history) /\ lost' = lost
      BY <1>4 DEF Reload, ghosts
    <2>2. Booked(history') = Booked(history) /\ Replaced(history')
      BY <2>1, RereadKeeps DEF HistoryInv, IInv, TypeOK
    <2> QED
      BY <2>1, <2>2 DEF HistoryInv
  <1>5. ASSUME NEW by \in Creators, ArrivesLate(by)
        PROVE  HistoryInv'
    <2>1. made' = made /\ history' = history /\ lost' = lost
      BY <1>5 DEF ArrivesLate
    <2>2. InHand(run') = InHand(run)
      <3>1. ASSUME NEW x \in Runs PROVE run'[x].created = run[x].created
        BY <1>5 DEF ArrivesLate, IInv, TypeOK, RunState
      <3> QED
        BY <3>1 DEF InHand, CreatedBy
    <2> QED
      BY <2>1, <2>2 DEF HistoryInv
  <1> QED
    BY <1>1, <1>2, <1>3, <1>4, <1>5 DEF Next

(* Every alias the server knows it created is in a batch that was booked   *)
(* or in the hands of the process that created it, for any number of       *)
(* processes, unless a save failed or the server restarted in between; and *)
(* a batch is dropped from the history only when MaxHistory others stand   *)
(* for it, each booked later or of a run that began no earlier             *)
(* (RecordAliasCreation after the lock is released).                       *)
THEOREM HistoryStaysComplete == Spec => []HistoryComplete
  <1>1. IInv /\ HistoryInv /\ [Next]_vars => HistoryInv'
    BY NextIInv, NextHistory
  <1>2. Spec => []HistoryInv
    BY <1>1, InitHistory, Invariance, PTL DEF Spec
  <1> QED
    BY <1>2, HistoryIsInv, PTL
=============================================================================
