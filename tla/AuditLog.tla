------------------------------ MODULE AuditLog ------------------------------
(***************************************************************************)
(* The operation log of src/internal/auditlog/store.go: one file of lines  *)
(* per UTC day, appended to by requests and scheduled runs, cleaned of     *)
(* what has expired by every operation, by an hourly ticker and at the     *)
(* start.  A write may fail half-way and the process may stop at any       *)
(* point; what is on disk stays.                                           *)
(*                                                                         *)
(* A record is known by its number and the time its Record read from the   *)
(* clock.  A line that cannot be decoded is Damaged.  A file without lines *)
(* and no file are the same here: both read as no entries.                 *)
(***************************************************************************)
EXTENDS Naturals, Sequences, FiniteSets, SequencesExt

CONSTANTS
    MaxRecords, \* bound: calls of Record
    DayLength,  \* hours of a day
    Retention,  \* retention, in hours
    Limit,      \* limit of a List
    MaxTime,    \* bound: the clock
    MaxStarts   \* bound: starts of the process

ASSUME AuditAssumption ==
    /\ MaxRecords \in Nat /\ MaxTime \in Nat /\ Retention \in Nat
    /\ DayLength \in Nat \ {0} /\ Limit \in Nat \ {0} /\ MaxStarts \in Nat \ {0}

VARIABLES
    now,
    file,     \* the log file of each day
    mu,       \* the operation that holds the store's mutex
    op,       \* the local state of each operation
    acked,    \* the records Record answered without an error, with their times
    spoiled,  \* records whose line was joined with another one
    store,    \* whether New is still running, succeeded or failed
    starts    \* starts so far

vars == <<now, file, mu, op, acked, spoiled, store, starts>>
disk == <<file, acked, spoiled>>

Records  == 1..MaxRecords
Ticker   == MaxRecords + 1   \* Cleanup, from New and from runCleanup, or a List
Ops      == Records \cup {Ticker}
NoOne    == 0
DayOf(t) == t \div DayLength
Days     == 0..DayOf(MaxTime)

Line    == [id : Records \cup {0}, at : Nat, whole : BOOLEAN]
Damaged == [id |-> 0, at |-> 0, whole |-> FALSE]
File    == [lines : Seq(Line), open : BOOLEAN]   \* open: the last newline is missing
NoFile  == [lines |-> <<>>, open |-> FALSE]
Phases  == {"idle", "lock", "clean", "append", "done"}
OpState == [phase : Phases, at : Nat]
Idle    == [phase |-> "idle", at |-> 0]
Done    == [phase |-> "done", at |-> 0]

At(p, phase)   == op[p].phase = phase
Goto(p, phase) == op' = [op EXCEPT ![p].phase = phase]
Finish(p)      == op' = [op EXCEPT ![p] = IF p \in Records THEN Done ELSE Idle]

Init ==
    /\ now = 0
    /\ file = [d \in Days |-> NoFile]
    /\ mu = NoOne
    /\ op = [p \in Ops |-> Idle]
    /\ acked = {} /\ spoiled = {}
    /\ store = "starting" /\ starts = 1
-----------------------------------------------------------------------------
(* Cleaning and reading, with the mutex held.                              *)

Entries(f)   == {l \in ToSet(f.lines) : l.whole}                 \* readEntries
Expired(l, t) == l.at + Retention < t                    \* Timestamp.Before(cutoff)

(* startOfDay(cutoff), counted from a day that no cutoff precedes.         *)
CutoffDay(t) == IF t < Retention THEN 0 ELSE DayOf(t - Retention)

(* Broken variant: the day of the cutoff counts as retained. *)
StaleFromEarlierDays(t) ==
    {d \in Days : d < CutoffDay(t) /\ \E l \in Entries(file[d]) : Expired(l, t)}

(* The files cleanupLocked rewrites: it looks at no later day, and leaves  *)
(* a file alone that has lost no entry.                                    *)
Stale(t) == {d \in Days : d <= CutoffDay(t) /\ \E l \in Entries(file[d]) : Expired(l, t)}

(* Broken variant: a file of a past day goes as a whole. *)
RewrittenByDay(f, t) == NoFile

(* The elements of s at the places in I, in their order.                   *)
Picked(s, I) ==
    LET place == CHOOSE g \in [1..Cardinality(I) -> I] : \A j, k \in DOMAIN g : j < k => g[j] < g[k]
    IN  [k \in 1..Cardinality(I) |-> s[place[k]]]

(* writeEntries: what was not decoded is not written again.                *)
Kept(f, t)      == {i \in DOMAIN f.lines : f.lines[i].whole /\ ~Expired(f.lines[i], t)}
Rewritten(f, t) == [lines |-> Picked(f.lines, Kept(f, t)), open |-> FALSE]

CleanFile(p) ==
    /\ At(p, "clean")
    /\ Stale(op[p].at) # {}
    /\ LET d == CHOOSE d \in Stale(op[p].at) : \A e \in Stale(op[p].at) : d <= e IN
         file' = [file EXCEPT ![d] = Rewritten(@, op[p].at)]
    /\ UNCHANGED <<now, mu, op, acked, spoiled, store, starts>>

(* Record goes on to append; what List does now changes nothing.           *)
CleanDone(p) ==
    /\ At(p, "clean")
    /\ Stale(op[p].at) = {}
    /\ IF p \in Records
       THEN Goto(p, "append") /\ UNCHANGED mu
       ELSE Finish(p) /\ mu' = NoOne
    /\ store' = IF store = "starting" THEN "on" ELSE store
    /\ UNCHANGED <<now, disk, starts>>

(* Broken variant: the error is returned with the mutex held. *)
CleanFailsLocked(p) ==
    /\ At(p, "clean")
    /\ Finish(p)
    /\ store' = IF store = "starting" THEN "off" ELSE store
    /\ UNCHANGED <<now, mu, disk, starts>>

(* A file that cannot be read or replaced fails the operation.  newServer  *)
(* ignores the error of New and goes on without a log.                     *)
CleanFails(p) ==
    /\ At(p, "clean")
    /\ Finish(p) /\ mu' = NoOne
    /\ store' = IF store = "starting" THEN "off" ELSE store
    /\ UNCHANGED <<now, disk, starts>>
-----------------------------------------------------------------------------
(* The operations.                                                         *)

(* Record, List and Cleanup read the clock before they take the mutex.     *)
Begin(p) ==
    /\ At(p, "idle")
    /\ store = "on" \/ (store = "starting" /\ p = Ticker)
    /\ p \in Records => \A q \in Records : q < p => ~At(q, "idle")
    /\ op' = [op EXCEPT ![p] = [phase |-> "lock", at |-> now]]
    /\ UNCHANGED <<now, mu, disk, store, starts>>

Lock(p) ==
    /\ At(p, "lock")
    /\ mu = NoOne
    /\ mu' = p
    /\ Goto(p, "clean")
    /\ UNCHANGED <<now, disk, store, starts>>

LineOf(p) == [id |-> p, at |-> op[p].at, whole |-> TRUE]

(* What a write adds: behind an open line it continues that line, and the  *)
(* two decode as neither.                                                  *)
Extended(f, l, open) ==
    [lines |-> IF f.open THEN Append(Front(f.lines), Damaged) ELSE Append(f.lines, l),
     open  |-> open]

JoinedBy(f, l) == IF f.open THEN {l.id, Last(f.lines).id} \ {0} ELSE {}

WriteLine(p, l, open) ==
    LET d == DayOf(op[p].at) IN
    /\ file' = [file EXCEPT ![d] = Extended(@, l, open)]
    /\ spoiled' = spoiled \cup JoinedBy(file[d], LineOf(p))

AppendLine(p) ==
    /\ At(p, "append")
    /\ WriteLine(p, LineOf(p), FALSE)
    /\ acked' = acked \cup {[id |-> p, at |-> op[p].at]}
    /\ Finish(p) /\ mu' = NoOne
    /\ UNCHANGED <<now, store, starts>>

(* appendEntry fails, or the process stops in it, before the write, after  *)
(* a part of the line, after all of it but the newline, or behind it.      *)
AppendFails(p) ==
    /\ At(p, "append")
    /\ \/ UNCHANGED disk
       \/ WriteLine(p, Damaged, TRUE) /\ UNCHANGED acked
       \/ WriteLine(p, LineOf(p), TRUE) /\ UNCHANGED acked
       \/ WriteLine(p, LineOf(p), FALSE) /\ UNCHANGED acked
    /\ Finish(p) /\ mu' = NoOne
    /\ UNCHANGED <<now, store, starts>>

(* Close or a crash, and the next New.                                     *)
Restart ==
    /\ starts < MaxStarts
    /\ starts' = starts + 1
    /\ mu' = NoOne
    /\ op' = [p \in Ops |-> IF At(p, "idle") \/ p \notin Records THEN Idle ELSE Done]
    /\ store' = "starting"
    /\ UNCHANGED <<now, disk>>

Tick ==
    /\ now < MaxTime
    /\ now' = now + 1
    /\ UNCHANGED <<mu, op, disk, store, starts>>

Step(p) ==
    \/ Begin(p)
    \/ Lock(p)
    \/ CleanFile(p)
    \/ CleanDone(p)
    \/ CleanFails(p)
    \/ AppendLine(p)
    \/ AppendFails(p)

Next ==
    \/ \E p \in Ops : Step(p)
    \/ Restart
    \/ Tick

(* Operations run on, the ticker fires again and again, and cleaning does  *)
(* not fail for ever.                                                      *)
Fairness ==
    /\ \A p \in Ops : WF_vars(CleanFile(p) \/ CleanDone(p) \/ AppendLine(p) \/ AppendFails(p))
    /\ WF_vars(Begin(Ticker))
    /\ SF_vars(Lock(Ticker))
    /\ SF_vars(CleanFile(Ticker))

Spec == Init /\ [][Next]_vars /\ Fairness
-----------------------------------------------------------------------------
(* Every variable keeps its type, the mutex is held by the operation that  *)
(* cleans or appends, and a record is in one place at most.                *)
TypeOK ==
    /\ now \in 0..MaxTime
    /\ file \in [Days -> File]
    /\ mu \in Ops \cup {NoOne}
    /\ op \in [Ops -> OpState]
    /\ acked \subseteq [id : Records, at : 0..MaxTime] /\ spoiled \subseteq Records
    /\ store \in {"starting", "on", "off"}
    /\ starts \in 1..MaxStarts
    /\ \A p \in Ops : (mu = p) <=> op[p].phase \in {"clean", "append"}
    /\ \A d \in Days : file[d].open => file[d].lines # <<>>
    /\ \A d, e \in Days : \A l \in Entries(file[d]), k \in Entries(file[e]) :
         l.id = k.id => d = e /\ l = k

AllEntries == UNION {Entries(file[d]) : d \in Days}

(* List at this moment: the retained entries, newest first and among       *)
(* equals in the order of their lines, up to the limit.                    *)
Places    == UNION {{d} \X DOMAIN file[d].lines : d \in Days}
LineAt(x) == file[x[1]].lines[x[2]]
Retained  == {x \in Places : LineAt(x).whole /\ ~Expired(LineAt(x), now)}
Before(x, y) == \/ LineAt(x).at > LineAt(y).at
                \/ LineAt(x).at = LineAt(y).at /\ x[2] < y[2]
Listing   == {LineAt(x) : x \in {y \in Retained :
                  Cardinality({z \in Retained : Before(z, y)}) < Limit}}

(* A record that was acknowledged stays in the listing until it expires,   *)
(* or as many that are no older fill it, through failed and torn writes of *)
(* others, cleanings at any boundary of the day and restarts.  It is lost  *)
(* only when its own line continues, or is continued by, another one.      *)
AcknowledgedListed ==
    \A a \in acked : a.id \notin spoiled /\ ~Expired(a, now) =>
      \/ \E l \in Listing : l.id = a.id /\ l.at = a.at
      \/ Cardinality({l \in Listing : l.at >= a.at}) = Limit

(* Nothing expired outlives the cleaning: while the log is in use every    *)
(* expired entry is removed in the end.                                    *)
ExpiredRemoved ==
    \A p \in Records :
      (\E l \in AllEntries : l.id = p /\ Expired(l, now))
        ~> (store = "off" \/ ~\E l \in AllEntries : l.id = p)
=============================================================================
