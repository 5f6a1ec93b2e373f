--------------------------- MODULE MCAutomationRun ---------------------------
(* Small instances of AutomationRun.                                       *)
EXTENDS AutomationRun, TLC

Plain == [interval |-> 1, days |-> {}, from |-> 0, to |-> 0, batch |-> 1,
          minActive |-> 0, targetActive |-> 0, maxBatch |-> 2, maxTotal |-> 4,
          maxFail |-> 1, dailyLimit |-> 0, target |-> 0]

(* Create until the target is reached, two at a time. *)
Targeted == [Plain EXCEPT !.batch = 0, !.target = 2]
(* Refill up to three active aliases, two a day, in the second half of the day. *)
Limited == [Plain EXCEPT !.batch = 0, !.minActive = 2, !.targetActive = 3, !.dailyLimit = 2,
                         !.from = 1, !.to = 2]
(* One a day at any time, and at most two aliases in the account. *)
Tighter == [Plain EXCEPT !.dailyLimit = 1, !.maxTotal = 2, !.maxFail = 2]

(* The same at any time of the day. *)
Refilling == [Limited EXCEPT !.from = 0, !.to = 0]

MCConfigs == {Targeted, Limited}
MCAnytimeConfigs == {Targeted, Refilling}
MCDailyConfigs == {Limited, Tighter}
MCDirect == {2}
Symmetry == Permutations(Runs)

(* No action reads the history: in a run that asks nothing of it, states   *)
(* that differ in the history alone count as one.                          *)
WithoutHistory == <<rule, lock, run, upstream, clock, spent, ghosts>>
=============================================================================
