------------------------------ MODULE InboxProofs ------------------------------
(***************************************************************************)
(* Safety of the inbox: of InboxPool for any number of entries, requests   *)
(* and credentials, and of InboxPaging for any mailbox and any limits.     *)
(***************************************************************************)
EXTENDS InboxPool, InboxPaging, FiniteSetTheorems, WellFoundedInduction, TLAPS

(***************************************************************************)
(* The pool.  An entry that the pool has lost sight of is either retired,  *)
(* and then without a connection, or in the hands of a request that is     *)
(* about to retire it; what is in the pool has the stored credentials, or  *)
(* a request is about to throw it out.                                     *)
(***************************************************************************)

(* The phases in which a request knows an entry, those in which it means   *)
(* to use the entry, and those in which it has the entry's mutex.          *)
HasEntry  == {"lock", "drop", "connect", "operate", "give up", "retire"}
Refers(q) == q.phase \in {"lock", "connect", "operate"}
Holds(q)  == q.phase \in {"connect", "operate"}

(* What the local state q of request p says of the entry x. *)
Fits(p, q, x) ==
    /\ q.phase \in {"drop", "give up"} => x.retired
    /\ q.phase = "connect" => x.mu = p /\ x.client = Nothing /\ ~x.retired
    /\ q.phase = "operate" => x.mu = p /\ x.client = q.conn /\ ~x.retired

(* An entry out of the pool is about to be retired; a change of the        *)
(* credentials has not reached the pool yet.                               *)
Leaving(e) == \E p \in Requests : At(p, "retire") /\ req[p].entry = e
Forgetting == \E p \in Requests : At(p, "forget")

RefsOK ==
    \A p \in Requests :
        /\ req[p].phase \in HasEntry <=> req[p].entry # NoEntry
        /\ req[p].phase \in HasEntry => Fits(p, req[p], entry[req[p].entry])

DropsOK == \A e \in Entries : expiry[e] = "drop" => entry[e].retired

(* A connection that is open, or may still be opened, is in the pool or on *)
(* its way out.                                                            *)
OpenOwned ==
    \A e \in Entries : entry[e].client # Nothing /\ current # e => Leaving(e)
UsedOwned ==
    \A p \in Requests :
        Refers(req[p]) /\ ~Mine(p).retired /\ current # req[p].entry => Leaving(req[p].entry)

(* What is in the pool has the stored credentials, or the pool will forget it. *)
OpenFresh ==
    current # NoEntry /\ entry[current].client \notin {Nothing, secret} => Forgetting
UsedFresh ==
    \A p \in Requests :
        Holds(req[p]) /\ current = req[p].entry /\ req[p].conn # secret => Forgetting
CacheOK == cached.of # Nothing /\ ~cached.full /\ cached.of # secret => AnyChanging

PoolOK == RefsOK /\ DropsOK /\ OpenOwned /\ UsedOwned /\ OpenFresh /\ UsedFresh

IInv == TypeOK /\ PoolOK /\ CacheOK

USE InboxAssumption
-----------------------------------------------------------------------------
(* Entries and local states.                                               *)

EntryOK(x) == /\ x \in EntryState
              /\ x.retired => x.client = Nothing
              /\ x.idle => x.client # Nothing

Pool   == [Entries -> EntryState]
Locals == [Requests -> ReqState]

LEMMA NewEntryOK == EntryOK(NewEntry) /\ NewEntry.client = Nothing /\ ~NewEntry.retired
BY DEF EntryOK, NewEntry, EntryState, Timers, NoOne, Nothing

LEMMA IdleOK ==
    /\ Idle \in ReqState /\ Idle.phase = "idle" /\ Idle.entry = NoEntry
    /\ Idle.conn = Nothing
BY DEF Idle, ReqState, Nothing

(* A connection is closed, and an entry is retired. *)
LEMMA DisconnectedOK ==
    ASSUME NEW x, EntryOK(x)
    PROVE  /\ EntryOK(Disconnected(x)) /\ Disconnected(x).client = Nothing
           /\ Disconnected(x).mu = x.mu /\ Disconnected(x).retired = x.retired
<1>1. StopTimer(x.timer) \in Timers
  BY DEF EntryOK, EntryState, StopTimer, Timers
<1>. DEFINE c == [x EXCEPT !.client = Nothing]
            d == [c EXCEPT !.idle = FALSE]
            t == StopTimer(x.timer)
<1>2. c \in EntryState /\ c.client = Nothing /\ c.mu = x.mu /\ c.retired = x.retired
  BY DEF EntryOK, EntryState, Nothing
<1>3. c.timer = x.timer
  BY DEF EntryOK, EntryState
<1>4. Disconnected(x) = [d EXCEPT !.timer = t]
  BY DEF Disconnected, EntryOK, EntryState
<1>. HIDE DEF c, t
<1>5. /\ d \in EntryState /\ d.client = Nothing /\ d.mu = x.mu /\ d.retired = x.retired
      /\ d.idle = FALSE
  BY <1>2 DEF EntryState
<1>. HIDE DEF d
<1>6. t \in Timers
  BY <1>1 DEF t
<1>7. /\ Disconnected(x) \in EntryState /\ Disconnected(x).client = Nothing
      /\ Disconnected(x).mu = x.mu /\ Disconnected(x).retired = x.retired
      /\ Disconnected(x).idle = FALSE
  BY <1>4, <1>5, <1>6 DEF EntryState
<1>. QED
  BY <1>7 DEF EntryOK

LEMMA RetiredOK ==
    ASSUME NEW x, EntryOK(x)
    PROVE  /\ EntryOK(Retired(x)) /\ Retired(x).client = Nothing
           /\ Retired(x).mu = x.mu /\ Retired(x).retired
<1>. DEFINE d == Disconnected(x)
<1>1. EntryOK(d) /\ d.client = Nothing /\ d.mu = x.mu
  BY DisconnectedOK
<1>2. Retired(x) = [d EXCEPT !.retired = TRUE]
  BY DEF Retired
<1>. HIDE DEF d
<1>. QED
  BY <1>1, <1>2 DEF EntryOK, EntryState

(* An entry's mutex is taken or given back. *)
LEMMA MutexOK ==
    ASSUME NEW x, EntryOK(x), NEW m \in Requests \cup {NoOne}
    PROVE  LET y == [x EXCEPT !.mu = m] IN
             EntryOK(y) /\ y.mu = m /\ y.client = x.client /\ y.retired = x.retired
BY DEF EntryOK, EntryState

(* One entry, one local state is replaced. *)
LEMMA EntryReplaced ==
    ASSUME entry \in Pool, NEW e \in Entries, NEW x \in EntryState,
           entry' = [entry EXCEPT ![e] = x]
    PROVE  entry' \in Pool /\ entry'[e] = x /\ \A f \in Entries : f # e => entry'[f] = entry[f]
BY DEF Pool

LEMMA LocalReplaced ==
    ASSUME req \in Locals, NEW p \in Requests, NEW q \in ReqState, req' = [req EXCEPT ![p] = q]
    PROVE  req' \in Locals /\ req'[p] = q /\ \A r \in Requests : r # p => req'[r] = req[r]
BY DEF Locals

(* The parts of the type invariant. *)
LEMMA Typed ==
    ASSUME TypeOK
    PROVE  /\ secret \in Nat /\ supplied \in Nat /\ current \in Entries \cup {NoEntry}
           /\ entry \in Pool /\ req \in Locals
           /\ \A e \in Entries : EntryOK(entry[e])
           /\ cached \in [of : Nat, full : BOOLEAN] /\ begun \in Nat
           /\ expiry \in [Entries -> {"none", "waiting", "drop"}]
BY DEF TypeOK, Pool, Locals, EntryOK

LEMMA TypedNext ==
    ASSUME secret' \in Nat, supplied' \in Nat, current' \in Entries \cup {NoEntry},
           entry' \in Pool, \A e \in Entries : EntryOK(entry'[e]),
           req' \in Locals, expiry' \in [Entries -> {"none", "waiting", "drop"}],
           cached' \in [of : Nat, full : BOOLEAN], begun' \in Nat
    PROVE  TypeOK'
BY DEF TypeOK, Pool, Locals, EntryOK

(* A request that changes nothing before a step, and nothing after it, is  *)
(* no reason for any other to be sure of a change.                         *)
LEMMA ReaderChangesNothing ==
    ASSUME NEW p \in Requests, NEW s, NEW t, s \notin ChangePhases, t \notin ChangePhases,
           req[p].phase = s, req'[p].phase = t, \A r \in Requests : r # p => req'[r] = req[r]
    PROVE  /\ \A e : Leaving(e) => Leaving(e)'
           /\ Forgetting => Forgetting'
           /\ AnyChanging => AnyChanging'
BY DEF Leaving, Forgetting, AnyChanging, Changing, At, ChangePhases
-----------------------------------------------------------------------------
(* Steps of readers and of timers.                                         *)

(* A reader's step on the entry e: it goes to the local state q and leaves *)
(* the entry as x.  The pool loses e only when e is retired.               *)
ReadStep(p, e, q, x) ==
    /\ req[p].phase \notin ChangePhases /\ q.phase \notin ChangePhases
    /\ q \in ReqState /\ EntryOK(x)
    /\ req' = [req EXCEPT ![p] = q]
    /\ entry' = [entry EXCEPT ![e] = x]
    /\ current' = current \/ (x.retired /\ current' = RemoveEntry(e))
    /\ UNCHANGED <<secret, expiry>>

LEMMA ReadStepOK ==
    ASSUME TypeOK, PoolOK, NEW p \in Requests, NEW e \in Entries, NEW q, NEW x,
           ReadStep(p, e, q, x),
           x = entry[e] \/ \A r \in Requests : r # p /\ Holds(req[r]) => req[r].entry # e,
           entry[e].retired => x.retired,
           q.entry \in {e, NoEntry}, q.phase \in HasEntry <=> q.entry = e,
           q.phase \in HasEntry => Fits(p, q, x),
           x.client # Nothing =>
              \/ x.client = entry[e].client
              \/ Holds(req[p]) /\ req[p].entry = e /\ x.client = req[p].conn,
           Refers(q) => current = e \/ (Refers(req[p]) /\ req[p].entry = e),
           Holds(q) => \/ q.conn = secret
                       \/ q.conn # Nothing /\ q.conn = entry[e].client
                       \/ Holds(req[p]) /\ req[p].entry = e /\ q.conn = req[p].conn
    PROVE  PoolOK'
<1>1. /\ req' \in Locals /\ req'[p] = q /\ \A r \in Requests : r # p => req'[r] = req[r]
      /\ entry' \in Pool /\ entry'[e] = x /\ \A f \in Entries : f # e => entry'[f] = entry[f]
  <2>1. x \in EntryState /\ q \in ReqState /\ entry \in Pool /\ req \in Locals
    BY Typed DEF ReadStep, EntryOK
  <2>2. req' \in Locals /\ req'[p] = q /\ \A r \in Requests : r # p => req'[r] = req[r]
    BY <2>1, LocalReplaced DEF ReadStep
  <2>3. entry' \in Pool /\ entry'[e] = x /\ \A f \in Entries : f # e => entry'[f] = entry[f]
    BY <2>1, EntryReplaced DEF ReadStep
  <2>. QED
    BY <2>2, <2>3
<1>2. /\ \A f : Leaving(f) => Leaving(f)'
      /\ Forgetting => Forgetting'
  BY <1>1, ReaderChangesNothing DEF ReadStep
<1>3. \A r \in Requests : req[r].phase \in HasEntry => req[r].entry \in Entries
  BY Typed DEF PoolOK, RefsOK, Locals, ReqState
<1>4. current' # current => current = e /\ current' = NoEntry /\ x.retired
  BY DEF ReadStep, RemoveEntry
<1>5. EntryOK(x) /\ secret' = secret /\ expiry' = expiry
  BY DEF ReadStep
<1>6. RefsOK'
  <2>. SUFFICES ASSUME NEW r \in Requests
                PROVE  /\ req'[r].phase \in HasEntry <=> req'[r].entry # NoEntry
                       /\ req'[r].phase \in HasEntry => Fits(r, req'[r], entry'[req'[r].entry])
    BY DEF RefsOK, Fits
  <2>0. e # NoEntry
    OBVIOUS
  <2>1. CASE r = p
    <3>1. req'[r] = q
      BY <2>1, <1>1
    <3>2. q.phase \in HasEntry <=> q.entry # NoEntry
      BY <2>0
    <3>3. q.phase \in HasEntry => Fits(p, q, entry'[q.entry])
      BY <1>1
    <3>. QED
      BY <2>1, <3>1, <3>2, <3>3
  <2>2. CASE r # p
    <3>1. req'[r] = req[r] /\ (req[r].phase \in HasEntry <=> req[r].entry # NoEntry)
      BY <2>2, <1>1 DEF PoolOK, RefsOK
    <3>2. CASE req[r].phase \in HasEntry
      <4>1. req[r].entry \in Entries /\ Fits(r, req[r], entry[req[r].entry])
        BY <3>2, <1>3 DEF PoolOK, RefsOK
      <4>2. CASE req[r].entry = e
        <5>1. x = entry[e] \/ ~Holds(req[r])
          BY <2>2, <4>2
        <5>2. Fits(r, req[r], x)
          BY <4>1, <4>2, <5>1 DEF Fits, Holds
        <5>. QED
          BY <3>1, <4>2, <5>2, <1>1
      <4>3. CASE req[r].entry # e
        BY <3>1, <4>1, <4>3, <1>1
      <4>. QED
        BY <4>2, <4>3
    <3>. QED
      BY <3>1, <3>2
  <2>. QED
    BY <2>1, <2>2
<1>7. DropsOK'
  BY <1>1, <1>5 DEF PoolOK, DropsOK
<1>8. OpenOwned'
  <2>. SUFFICES ASSUME NEW f \in Entries, entry'[f].client # Nothing, current' # f
                PROVE  Leaving(f)'
    BY DEF OpenOwned
  <2>1. CASE f # e
    BY <2>1, <1>1, <1>2, <1>4 DEF PoolOK, OpenOwned
  <2>2. CASE f = e
    <3>1. x.client # Nothing /\ ~x.retired /\ current # e
      BY <2>2, <1>1, <1>4, <1>5 DEF EntryOK
    <3>2. Leaving(e)
      BY <3>1 DEF PoolOK, OpenOwned, UsedOwned, Mine, Holds, Refers
    <3>. QED
      BY <2>2, <3>2, <1>2
  <2>. QED
    BY <2>1, <2>2
<1>9. UsedOwned'
  <2>. SUFFICES ASSUME NEW r \in Requests, NEW f, f = req'[r].entry, Refers(req'[r]),
                       ~entry'[f].retired, current' # f
                PROVE  Leaving(f)'
    BY DEF UsedOwned, Mine, Refers, Leaving, At
  <2>1. CASE r = p
    <3>1. q.entry = e
      BY <2>1, <1>1 DEF Refers, HasEntry
    <3>2. current # e /\ ~entry[e].retired
      BY <2>1, <3>1, <1>1, <1>4
    <3>3. Refers(req[p]) /\ req[p].entry = e
      BY <2>1, <3>2, <1>1
    <3>4. Leaving(e)
      BY <3>2, <3>3 DEF PoolOK, UsedOwned, Mine
    <3>. QED
      BY <2>1, <3>1, <3>4, <1>1, <1>2
  <2>2. CASE r # p
    <3>1. req'[r] = req[r] /\ req[r].entry \in Entries
      BY <2>2, <1>1, <1>3 DEF Refers, HasEntry
    <3>2. ~entry[req[r].entry].retired /\ current # req[r].entry
      <4>1. CASE req[r].entry = e
        BY <4>1, <3>1, <1>1, <1>4
      <4>2. CASE req[r].entry # e
        BY <4>2, <3>1, <1>1, <1>4
      <4>. QED
        BY <4>1, <4>2
    <3>3. Leaving(req[r].entry)
      BY <3>1, <3>2 DEF PoolOK, UsedOwned, Mine
    <3>. QED
      BY <3>1, <3>3, <1>2
  <2>. QED
    BY <2>1, <2>2
<1>10. OpenFresh'
  <2>. SUFFICES ASSUME current' # NoEntry, entry'[current'].client \notin {Nothing, secret}
                PROVE  Forgetting'
    BY <1>5 DEF OpenFresh
  <2>1. current' = current /\ current \in Entries
    BY <1>4, Typed
  <2>2. CASE current # e
    BY <2>1, <2>2, <1>1, <1>2 DEF PoolOK, OpenFresh
  <2>3. CASE current = e
    <3>1. x.client \notin {Nothing, secret}
      BY <2>1, <2>3, <1>1
    <3>2. Forgetting
      BY <2>1, <2>3, <3>1 DEF PoolOK, OpenFresh, UsedFresh
    <3>. QED
      BY <3>2, <1>2
  <2>. QED
    BY <2>2, <2>3
<1>11. UsedFresh'
  <2>. SUFFICES ASSUME NEW r \in Requests, Holds(req'[r]), current' = req'[r].entry,
                       req'[r].conn # secret
                PROVE  Forgetting'
    BY <1>5 DEF UsedFresh, Holds
  <2>1. CASE r = p
    <3>1. q.entry = e /\ current = e /\ q.conn # secret /\ Holds(q)
      BY <2>1, <1>1, <1>4 DEF Holds, HasEntry
    <3>2. Forgetting
      BY <3>1 DEF PoolOK, OpenFresh, UsedFresh
    <3>. QED
      BY <3>2, <1>2
  <2>2. CASE r # p
    <3>1. req'[r] = req[r] /\ req[r].entry \in Entries
      BY <2>2, <1>1, <1>3 DEF Holds, HasEntry
    <3>2. current = req[r].entry
      BY <3>1, <1>4
    <3>. QED
      BY <3>1, <3>2, <1>2 DEF PoolOK, UsedFresh
  <2>. QED
    BY <2>1, <2>2
<1>. QED
  BY <1>6, <1>7, <1>8, <1>9, <1>10, <1>11 DEF PoolOK

(* A timer's step: the entry is only ever closed, while nobody uses it. *)
LEMMA TimerStepOK ==
    ASSUME TypeOK, PoolOK, NEW e \in Entries, NEW x, EntryOK(x),
           entry' = [entry EXCEPT ![e] = x], UNCHANGED <<secret, req>>,
           x.mu = entry[e].mu, entry[e].retired => x.retired,
           x.client = entry[e].client \/ x.client = Nothing,
           x.client # entry[e].client \/ x.retired # entry[e].retired => entry[e].mu = NoOne,
           current' = current \/ (x.retired /\ current' = RemoveEntry(e)),
           \A f \in Entries : expiry'[f] = "drop" => \/ expiry[f] = "drop"
                                                     \/ f = e /\ x.retired
    PROVE  PoolOK'
<1>1. entry' \in Pool /\ entry'[e] = x /\ \A f \in Entries : f # e => entry'[f] = entry[f]
  BY Typed, EntryReplaced DEF EntryOK
<1>2. (\A f : Leaving(f)' <=> Leaving(f)) /\ (Forgetting' <=> Forgetting)
  BY DEF Leaving, Forgetting, At
<1>3. \A r \in Requests : req[r].phase \in HasEntry => req[r].entry \in Entries
  BY Typed DEF PoolOK, RefsOK, Locals, ReqState
<1>4. current' # current => current = e /\ current' = NoEntry /\ x.retired
  BY DEF RemoveEntry
<1>5. RefsOK'
  <2>. SUFFICES ASSUME NEW r \in Requests, req[r].phase \in HasEntry
                PROVE  Fits(r, req[r], entry'[req[r].entry])
    BY DEF PoolOK, RefsOK, Fits
  <2>1. Fits(r, req[r], entry[req[r].entry]) /\ req[r].entry \in Entries /\ r # NoOne
    BY <1>3 DEF PoolOK, RefsOK, Requests, NoOne
  <2>2. CASE req[r].entry = e
    BY <2>1, <2>2, <1>1 DEF Fits
  <2>3. CASE req[r].entry # e
    BY <2>1, <2>3, <1>1
  <2>. QED
    BY <2>2, <2>3
<1>6. DropsOK'
  BY <1>1 DEF PoolOK, DropsOK
<1>7. OpenOwned'
  <2>. SUFFICES ASSUME NEW f \in Entries, entry'[f].client # Nothing, current' # f
                PROVE  Leaving(f)
    BY <1>2 DEF OpenOwned
  <2>1. entry[f].client # Nothing /\ current # f
    BY <1>1, <1>4 DEF EntryOK
  <2>. QED
    BY <2>1 DEF PoolOK, OpenOwned
<1>8. UsedOwned'
  <2>. SUFFICES ASSUME NEW r \in Requests, NEW f, f = req[r].entry, Refers(req[r]),
                       ~entry'[f].retired, current' # f
                PROVE  Leaving(f)
    BY <1>2 DEF UsedOwned, Mine, Refers
  <2>1. f \in Entries
    BY <1>3 DEF Refers, HasEntry
  <2>2. ~entry[f].retired /\ current # f
    BY <1>1, <1>4, <2>1
  <2>. QED
    BY <2>2 DEF PoolOK, UsedOwned, Mine
<1>9. OpenFresh'
  <2>. SUFFICES ASSUME current' # NoEntry, entry'[current'].client \notin {Nothing, secret}
                PROVE  Forgetting
    BY <1>2 DEF OpenFresh
  <2>1. current' = current /\ current \in Entries
    BY <1>4, Typed
  <2>2. entry[current].client \notin {Nothing, secret}
    BY <2>1, <1>1
  <2>. QED
    BY <2>1, <2>2 DEF PoolOK, OpenFresh
<1>10. UsedFresh'
  <2>. SUFFICES ASSUME NEW r \in Requests, Holds(req[r]), current' = req[r].entry,
                       req[r].conn # secret
                PROVE  Forgetting
    BY <1>2 DEF UsedFresh, Holds
  <2>1. req[r].entry \in Entries
    BY <1>3 DEF Holds, HasEntry
  <2>2. current = req[r].entry
    BY <2>1, <1>4
  <2>. QED
    BY <2>2 DEF PoolOK, UsedFresh
<1>. QED
  BY <1>5, <1>6, <1>7, <1>8, <1>9, <1>10 DEF PoolOK

(* What a reader's step does to the types and to the cache. *)
LEMMA ReadStepTyped ==
    ASSUME TypeOK, NEW p \in Requests, NEW e \in Entries, NEW q, NEW x,
           ReadStep(p, e, q, x), UNCHANGED <<supplied, begun>>,
           cached' \in [of : Nat, full : BOOLEAN]
    PROVE  TypeOK'
<1>1. /\ req' \in Locals /\ entry' \in Pool /\ entry'[e] = x
      /\ \A f \in Entries : f # e => entry'[f] = entry[f]
  BY Typed, EntryReplaced, LocalReplaced DEF ReadStep, EntryOK
<1>2. \A f \in Entries : EntryOK(entry'[f])
  <2>. TAKE f \in Entries
  <2>1. CASE f = e
    BY <2>1, <1>1 DEF ReadStep
  <2>2. CASE f # e
    BY <2>2, <1>1, Typed
  <2>. QED
    BY <2>1, <2>2
<1>3. current' \in Entries \cup {NoEntry}
  BY Typed DEF ReadStep, RemoveEntry
<1>4. secret' \in Nat /\ supplied' \in Nat /\ begun' \in Nat
      /\ expiry' \in [Entries -> {"none", "waiting", "drop"}]
  BY Typed DEF ReadStep
<1>. QED
  BY <1>1, <1>2, <1>3, <1>4, TypedNext

LEMMA ReadStepCached ==
    ASSUME CacheOK, NEW p \in Requests, NEW e \in Entries, NEW q, NEW x, req \in Locals,
           ReadStep(p, e, q, x), UNCHANGED cached
    PROVE  CacheOK'
<1>1. req'[p] = q /\ \A r \in Requests : r # p => req'[r] = req[r]
  BY LocalReplaced DEF ReadStep
<1>2. AnyChanging => AnyChanging'
  BY <1>1, ReaderChangesNothing DEF ReadStep
<1>. QED
  BY <1>2 DEF CacheOK, ReadStep

(* The mutex of an entry keeps everybody else out of it. *)
LEMMA Alone ==
    ASSUME TypeOK, PoolOK, NEW p \in Requests, NEW e \in Entries, entry[e].mu \in {NoOne, p}
    PROVE  \A r \in Requests : r # p /\ Holds(req[r]) => req[r].entry # e
<1>1. \A r \in Requests : r # NoOne
  BY DEF Requests, NoOne
<1>2. \A r \in Requests : Holds(req[r]) => entry[req[r].entry].mu = r
  BY DEF PoolOK, RefsOK, Fits, Holds, HasEntry
<1>. QED
  BY <1>1, <1>2

(* A request that has an entry is in the phase for it. *)
LEMMA MineOK ==
    ASSUME TypeOK, PoolOK, NEW p \in Requests, req[p].phase \in HasEntry
    PROVE  /\ req[p].entry \in Entries /\ EntryOK(Mine(p)) /\ Fits(p, req[p], Mine(p))
           /\ req[p] \in ReqState
<1>1. req[p].entry \in Entries /\ req[p] \in ReqState
  BY Typed DEF PoolOK, RefsOK, Locals, ReqState
<1>. QED
  BY <1>1, Typed DEF PoolOK, RefsOK, Mine
-----------------------------------------------------------------------------
(* The requests that read.                                                 *)

(* The local state t with some of its fields replaced. *)
Becomes(t, phase, e, conn, reused) ==
    [t EXCEPT !.phase = phase, !.entry = e, !.conn = conn, !.reused = reused]

IsAt(q, phase, e, conn) ==
    q \in ReqState /\ q.phase = phase /\ q.entry = e /\ q.conn = conn

Phases == {"idle"} \cup ReadPhases \cup ChangePhases

LEMMA BecomesOK ==
    ASSUME NEW t \in ReqState, NEW phase \in Phases, NEW e \in Entries \cup {NoEntry},
           NEW conn \in Nat, NEW reused \in BOOLEAN
    PROVE  IsAt(Becomes(t, phase, e, conn, reused), phase, e, conn)
<1>. DEFINE a == [t EXCEPT !.phase = phase]
            b == [a EXCEPT !.entry = e]
            c == [b EXCEPT !.conn = conn]
            d == [c EXCEPT !.reused = reused]
<1>1. a \in ReqState /\ a.phase = phase
  BY DEF ReqState, Phases
<1>2. Becomes(t, phase, e, conn, reused) = d
  BY DEF Becomes
<1>. HIDE DEF a
<1>3. b \in ReqState /\ b.phase = phase /\ b.entry = e
  BY <1>1 DEF ReqState
<1>. HIDE DEF b
<1>4. c \in ReqState /\ c.phase = phase /\ c.entry = e /\ c.conn = conn
  BY <1>3 DEF ReqState
<1>. HIDE DEF c
<1>5. d \in ReqState /\ d.phase = phase /\ d.entry = e /\ d.conn = conn
  BY <1>4 DEF ReqState
<1>. QED
  BY <1>2, <1>5 DEF IsAt

LEMMA SameEntry ==
    ASSUME entry \in Pool, NEW e \in Entries
    PROVE  entry = [entry EXCEPT ![e] = entry[e]]
BY DEF Pool

(* A request that knows no entry goes on without one; the credentials      *)
(* change only together with the announcement that the pool will forget.   *)
LEMMA OutsideOK ==
    ASSUME TypeOK, PoolOK, NEW p \in Requests, NEW q \in ReqState,
           req[p].phase \notin HasEntry, q.phase \notin HasEntry, q.entry = NoEntry,
           At(p, "forget") => q.phase = "forget",
           req' = [req EXCEPT ![p] = q], UNCHANGED <<current, entry, expiry>>,
           secret' = secret \/ q.phase = "forget",
           secret' \in Nat, supplied' \in Nat,
           cached' \in [of : Nat, full : BOOLEAN], begun' \in Nat
    PROVE  /\ TypeOK' /\ PoolOK'
           /\ \A r \in Requests : r # p => req'[r] = req[r]
           /\ req'[p] = q
<1>1. req' \in Locals /\ req'[p] = q /\ \A r \in Requests : r # p => req'[r] = req[r]
  BY Typed, LocalReplaced
<1>2. TypeOK'
  <2>1. /\ current' \in Entries \cup {NoEntry}
        /\ entry' \in Pool /\ expiry' \in [Entries -> {"none", "waiting", "drop"}]
        /\ \A e \in Entries : EntryOK(entry'[e])
    BY Typed
  <2>. QED
    BY <1>1, <2>1, TypedNext
<1>3. \A f : Leaving(f) => Leaving(f)'
  BY <1>1 DEF Leaving, At, HasEntry
<1>4. (Forgetting => Forgetting') /\ (secret' # secret => Forgetting')
  BY <1>1 DEF Forgetting, At
<1>5. RefsOK'
  BY <1>1 DEF PoolOK, RefsOK, Fits
<1>6. DropsOK' /\ OpenOwned'
  BY <1>3 DEF PoolOK, DropsOK, OpenOwned
<1>7. OpenFresh'
  BY <1>4 DEF PoolOK, OpenFresh
<1>8. UsedOwned'
  <2>. SUFFICES ASSUME NEW r \in Requests, NEW f, f = req'[r].entry, Refers(req'[r]),
                       ~entry[f].retired, current # f
                PROVE  Leaving(f)'
    BY DEF UsedOwned, Mine, Refers
  <2>1. r # p
    BY <1>1 DEF Refers, HasEntry
  <2>2. req'[r] = req[r]
    BY <1>1, <2>1
  <2>3. Leaving(f)
    BY <2>2 DEF PoolOK, UsedOwned, Mine
  <2>. QED
    BY <2>3, <1>3
<1>9. UsedFresh'
  BY <1>1, <1>4 DEF PoolOK, UsedFresh, Holds, HasEntry
<1>. QED
  BY <1>1, <1>2, <1>5, <1>6, <1>7, <1>8, <1>9 DEF PoolOK

LEMMA BeginReadKeeps ==
    ASSUME IInv, NEW p \in Requests, NEW full \in BOOLEAN, BeginRead(p, full)
    PROVE  IInv'
<1>. DEFINE q == [Idle EXCEPT !.phase = "entry", !.full = full]
<1>1. q \in ReqState /\ q.phase = "entry" /\ q.entry = NoEntry
  BY DEF Idle, ReqState, ReadPhases, Nothing
<1>2. req[p].phase = "idle" /\ begun' \in Nat /\ req' = [req EXCEPT ![p] = q]
  BY DEF BeginRead, Begin, At, Requests
<1>3. UNCHANGED <<secret, supplied, current, entry, expiry, cached>>
  BY DEF BeginRead, store
<1>. HIDE DEF q
<1>4. TypeOK' /\ PoolOK' /\ (\A r \in Requests : r # p => req'[r] = req[r]) /\ req'[p] = q
  <2>1. secret' \in Nat /\ supplied' \in Nat /\ cached' \in [of : Nat, full : BOOLEAN]
    BY <1>3, Typed DEF IInv
  <2>. QED
    BY <1>1, <1>2, <1>3, <2>1, OutsideOK DEF IInv, At, HasEntry
<1>5. AnyChanging => AnyChanging'
  BY <1>1, <1>2, <1>4, ReaderChangesNothing DEF ChangePhases
<1>. QED
  BY <1>3, <1>4, <1>5 DEF IInv, CacheOK

LEMMA SetFullKeeps ==
    ASSUME IInv, NEW p \in Requests, SetFull(p)
    PROVE  IInv'
<1>1. req[p].phase = "cache" /\ req' = [req EXCEPT ![p] = Idle]
  BY DEF SetFull, At, Finish
<1>2. UNCHANGED <<secret, supplied, current, entry, expiry, begun>>
  BY DEF SetFull, store
<1>3. cached' = cached \/ cached' = [of |-> req[p].conn, full |-> TRUE]
  BY DEF SetFull
<1>4. cached' \in [of : Nat, full : BOOLEAN]
  <2>1. req[p].conn \in Nat
    BY Typed DEF IInv, Locals, ReqState
  <2>2. cached \in [of : Nat, full : BOOLEAN]
    BY Typed DEF IInv
  <2>3. [of |-> req[p].conn, full |-> TRUE] \in [of : Nat, full : BOOLEAN]
    BY <2>1
  <2>. QED
    BY <1>3, <2>2, <2>3
<1>5. TypeOK' /\ PoolOK' /\ (\A r \in Requests : r # p => req'[r] = req[r]) /\ req'[p] = Idle
  <2>1. secret' \in Nat /\ supplied' \in Nat /\ begun' \in Nat
    BY <1>2, Typed DEF IInv
  <2>. QED
    BY <1>1, <1>2, <1>4, <2>1, IdleOK, OutsideOK DEF IInv, At, HasEntry
<1>6. AnyChanging => AnyChanging'
  BY <1>1, <1>5, IdleOK, ReaderChangesNothing DEF ChangePhases
<1>. QED
  BY <1>2, <1>3, <1>5, <1>6 DEF IInv, CacheOK

(* A reader's step keeps the invariant when the cache is not touched. *)
LEMMA ReadStepKeeps ==
    ASSUME IInv, NEW p \in Requests, NEW e \in Entries, NEW q, NEW x,
           ReadStep(p, e, q, x), UNCHANGED <<supplied, begun, cached>>, PoolOK'
    PROVE  IInv'
<1>1. cached' \in [of : Nat, full : BOOLEAN] /\ req \in Locals
  BY Typed DEF IInv
<1>2. TypeOK'
  BY <1>1, ReadStepTyped DEF IInv
<1>3. CacheOK'
  BY <1>1, ReadStepCached DEF IInv
<1>. QED
  BY <1>2, <1>3 DEF IInv

(* A new entry is in nobody's hands. *)
LEMMA NewEntryKeeps ==
    ASSUME IInv, NEW p \in Requests, NEW e \in Entries, NEW q \in ReqState,
           At(p, "entry"), current = NoEntry, Unreferenced(e),
           q.phase = "lock", q.entry = e,
           current' = e, entry' = [entry EXCEPT ![e] = NewEntry],
           req' = [req EXCEPT ![p] = q],
           UNCHANGED <<secret, supplied, expiry, cached, begun>>
    PROVE  IInv'
<1>. USE DEF IInv
<1>1. /\ req' \in Locals /\ req'[p] = q /\ \A r \in Requests : r # p => req'[r] = req[r]
      /\ entry' \in Pool /\ entry'[e] = NewEntry
      /\ \A f \in Entries : f # e => entry'[f] = entry[f]
  <2>1. NewEntry \in EntryState /\ entry \in Pool /\ req \in Locals
    BY Typed, NewEntryOK DEF EntryOK
  <2>2. req' \in Locals /\ req'[p] = q /\ \A r \in Requests : r # p => req'[r] = req[r]
    BY <2>1, LocalReplaced
  <2>3. /\ entry' \in Pool /\ entry'[e] = NewEntry
        /\ \A f \in Entries : f # e => entry'[f] = entry[f]
    BY <2>1, EntryReplaced
  <2>. QED
    BY <2>2, <2>3
<1>2. \A f \in Entries : EntryOK(entry'[f])
  BY <1>1, Typed, NewEntryOK
<1>3. TypeOK'
  BY <1>1, <1>2, Typed, TypedNext
<1>4. \A r \in Requests : req[r].phase \in HasEntry => req[r].entry \in Entries /\ req[r].entry # e
  BY Typed DEF PoolOK, RefsOK, Locals, ReqState, Unreferenced
<1>5. req[p].phase = "entry"
  BY DEF At
<1>6. /\ \A f : Leaving(f) => Leaving(f)'
      /\ Forgetting => Forgetting'
      /\ AnyChanging => AnyChanging'
  BY <1>1, <1>5, ReaderChangesNothing DEF ChangePhases
<1>7. RefsOK'
  <2>1. ASSUME NEW r \in Requests, r # p
        PROVE  /\ req'[r].phase \in HasEntry <=> req'[r].entry # NoEntry
               /\ req'[r].phase \in HasEntry => Fits(r, req'[r], entry'[req'[r].entry])
    BY <2>1, <1>1, <1>4 DEF PoolOK, RefsOK
  <2>2. /\ req'[p].phase \in HasEntry <=> req'[p].entry # NoEntry
        /\ req'[p].phase \in HasEntry => Fits(p, req'[p], entry'[req'[p].entry])
    BY <1>1 DEF Fits, HasEntry
  <2>. QED
    BY <2>1, <2>2 DEF RefsOK, Fits
<1>8. DropsOK'
  BY <1>1, Typed DEF PoolOK, DropsOK, Unreferenced
<1>9. OpenOwned'
  BY <1>1, <1>6, NewEntryOK DEF PoolOK, OpenOwned
<1>10. UsedOwned'
  <2>. SUFFICES ASSUME NEW r \in Requests, NEW f, f = req'[r].entry, Refers(req'[r]),
                       ~entry'[f].retired, e # f
                PROVE  Leaving(f)'
    BY DEF UsedOwned, Mine, Refers, Leaving, At
  <2>1. r # p /\ req'[r] = req[r] /\ f \in Entries
    BY <1>1, <1>4 DEF Refers, HasEntry
  <2>2. ~entry[f].retired /\ current # f
    BY <2>1, <1>1
  <2>3. Leaving(f)
    BY <2>1, <2>2 DEF PoolOK, UsedOwned, Mine
  <2>. QED
    BY <2>3, <1>6
<1>11. OpenFresh'
  BY <1>1, NewEntryOK DEF OpenFresh
<1>12. UsedFresh'
  <2>1. \A r \in Requests : Holds(req'[r]) => req'[r].entry # e
    BY <1>1, <1>4 DEF Holds, HasEntry
  <2>. QED
    BY <2>1 DEF UsedFresh
<1>13. CacheOK'
  BY <1>6 DEF CacheOK
<1>. QED
  BY <1>3, <1>7, <1>8, <1>9, <1>10, <1>11, <1>12, <1>13 DEF PoolOK

LEMMA EntryForKeeps ==
    ASSUME IInv, NEW p \in Requests, EntryFor(p)
    PROVE  IInv'
<1>. USE DEF IInv
<1>1. req[p].phase = "entry" /\ req \in Locals /\ req[p] \in ReqState /\ entry \in Pool
  BY Typed DEF EntryFor, At, Locals
<1>2. UNCHANGED <<secret, supplied, expiry, cached, begun>>
  BY DEF EntryFor, store
<1>3. "lock" \in Phases /\ req[p].conn \in Nat /\ req[p].reused \in BOOLEAN
  BY <1>1 DEF Phases, ReadPhases, ReqState
<1>4. CASE current # NoEntry
  <2>. DEFINE e == current
              q == Becomes(req[p], "lock", e, req[p].conn, req[p].reused)
  <2>1. e \in Entries /\ EntryOK(entry[e])
    BY <1>4, Typed
  <2>2. q \in ReqState /\ q.phase = "lock" /\ q.entry = e
    BY <1>1, <1>3, <2>1, BecomesOK DEF IsAt
  <2>3. /\ req' = [req EXCEPT ![p] = q]
        /\ entry' = [entry EXCEPT ![e] = entry[e]]
        /\ current' = current
    <3>1. req' = [req EXCEPT ![p].phase = "lock", ![p].entry = e]
      BY <1>4 DEF EntryFor
    <3>2. req' = [req EXCEPT ![p] = q]
      BY <1>1, <3>1 DEF Becomes, Locals, ReqState
    <3>3. entry' = [entry EXCEPT ![e] = entry[e]] /\ current' = current
      BY <1>1, <1>4, <2>1, SameEntry DEF EntryFor
    <3>. QED
      BY <3>2, <3>3
  <2>. HIDE DEF q
  <2>4. ReadStep(p, e, q, entry[e])
    BY <1>1, <1>2, <2>1, <2>2, <2>3 DEF ReadStep, ChangePhases
  <2>5. PoolOK'
    <3>1. q.entry \in {e, NoEntry} /\ (q.phase \in HasEntry <=> q.entry = e) /\ ~Holds(q)
      BY <2>2 DEF HasEntry, Holds
    <3>2. Fits(p, q, entry[e])
      BY <2>2 DEF Fits
    <3>. QED
      BY <2>1, <2>4, <3>1, <3>2, ReadStepOK
  <2>. QED
    BY <1>2, <2>1, <2>4, <2>5, ReadStepKeeps
<1>5. CASE current = NoEntry
  <2>. DEFINE e == CHOOSE f \in Entries : Unreferenced(f)
              q == Becomes(req[p], "lock", e, req[p].conn, req[p].reused)
  <2>1. e \in Entries /\ Unreferenced(e)
    BY <1>5, Zenon DEF EntryFor
  <2>2. /\ current' = e /\ entry' = [entry EXCEPT ![e] = NewEntry]
        /\ req' = [req EXCEPT ![p].phase = "lock", ![p].entry = e]
    BY <1>5 DEF EntryFor
  <2>. HIDE DEF e
  <2>3. q \in ReqState /\ q.phase = "lock" /\ q.entry = e
    BY <1>1, <1>3, <2>1, BecomesOK DEF IsAt
  <2>4. req' = [req EXCEPT ![p] = q]
    BY <1>1, <2>2 DEF Becomes, Locals, ReqState
  <2>. HIDE DEF q
  <2>. QED
    BY <1>1, <1>2, <1>5, <2>1, <2>2, <2>3, <2>4, NewEntryKeeps DEF At
<1>. QED
  BY <1>4, <1>5

(* A request that has an entry takes its next step on it; the entry's      *)
(* mutex is its own or free, or the entry stays as it is.                  *)
LEMMA MineStepKeeps ==
    ASSUME IInv, NEW p \in Requests, req[p].phase \in HasEntry \ {"retire"}, NEW q, NEW x,
           ReadStep(p, req[p].entry, q, x), UNCHANGED <<supplied, begun>>,
           UNCHANGED cached \/ CacheOK',
           cached' \in [of : Nat, full : BOOLEAN],
           x = Mine(p) \/ Mine(p).mu \in {NoOne, p},
           Mine(p).retired => x.retired,
           \/ q.phase \in HasEntry /\ q.entry = req[p].entry /\ Fits(p, q, x)
           \/ q.phase \notin HasEntry /\ q.entry = NoEntry,
           x.client # Nothing => \/ x.client = Mine(p).client
                                 \/ Holds(req[p]) /\ x.client = req[p].conn,
           Refers(q) => Refers(req[p]),
           Holds(q) => \/ q.conn = secret
                       \/ q.conn # Nothing /\ q.conn = Mine(p).client
                       \/ Holds(req[p]) /\ q.conn = req[p].conn
    PROVE  IInv'
<1>. USE DEF IInv
<1>. DEFINE e == req[p].entry
<1>1. e \in Entries /\ e # NoEntry /\ Mine(p) = entry[e]
  BY MineOK DEF Mine
<1>2. x = entry[e] \/ \A r \in Requests : r # p /\ Holds(req[r]) => req[r].entry # e
  BY <1>1, Alone
<1>3. req[p].entry = e /\ ReadStep(p, e, q, x)
  OBVIOUS
<1>. HIDE DEF e
<1>4. q.entry \in {e, NoEntry} /\ (q.phase \in HasEntry <=> q.entry = e)
      /\ (q.phase \in HasEntry => Fits(p, q, x))
  BY <1>1, <1>3
<1>5. PoolOK'
  BY <1>1, <1>2, <1>3, <1>4, ReadStepOK
<1>6. TypeOK'
  BY <1>1, <1>3, ReadStepTyped
<1>7. CacheOK'
  BY <1>1, <1>3, Typed, ReadStepCached
<1>. QED
  BY <1>5, <1>6, <1>7

LEMMA DropKeeps ==
    ASSUME IInv, NEW p \in Requests, Drop(p)
    PROVE  IInv'
<1>. DEFINE q == IF At(p, "drop") THEN Becomes(req[p], "entry", NoEntry, req[p].conn, req[p].reused)
                 ELSE Idle
<1>1. req[p].phase \in {"drop", "give up"} /\ req[p].phase \in HasEntry \ {"retire"}
  BY DEF Drop, HasEntry
<1>2. /\ req[p].entry \in Entries /\ EntryOK(Mine(p)) /\ Mine(p).retired
      /\ req[p] \in ReqState /\ req \in Locals /\ entry \in Pool
  BY <1>1, MineOK, Typed DEF IInv, Fits
<1>3. q \in ReqState /\ q.phase \in {"entry", "idle"} /\ q.entry = NoEntry
  <2>1. "entry" \in Phases /\ req[p].conn \in Nat /\ req[p].reused \in BOOLEAN
    BY <1>2 DEF Phases, ReadPhases, ReqState
  <2>2. LET b == Becomes(req[p], "entry", NoEntry, req[p].conn, req[p].reused) IN
          b \in ReqState /\ b.phase = "entry" /\ b.entry = NoEntry
    BY <1>2, <2>1, BecomesOK DEF IsAt
  <2>. QED
    BY <2>2, IdleOK
<1>4. req' = [req EXCEPT ![p] = q]
  <2>1. CASE At(p, "drop")
    <3>1. req' = [req EXCEPT ![p].phase = "entry", ![p].entry = NoEntry]
      BY <2>1 DEF Drop
    <3>. QED
      BY <1>2, <2>1, <3>1 DEF Becomes, Locals, ReqState
  <2>2. CASE ~At(p, "drop")
    BY <2>2 DEF Drop, Finish
  <2>. QED
    BY <2>1, <2>2
<1>. HIDE DEF q
<1>5. /\ entry' = [entry EXCEPT ![req[p].entry] = Mine(p)]
      /\ current' = RemoveEntry(req[p].entry)
      /\ UNCHANGED <<secret, supplied, expiry, cached, begun>>
  BY <1>2, SameEntry DEF Drop, Mine, store
<1>6. ReadStep(p, req[p].entry, q, Mine(p))
  BY <1>1, <1>2, <1>3, <1>4, <1>5 DEF ReadStep, ChangePhases
<1>7. ~Refers(q) /\ ~Holds(q) /\ q.phase \notin HasEntry
  BY <1>3 DEF Refers, Holds, HasEntry
<1>8. cached' \in [of : Nat, full : BOOLEAN]
  BY <1>5, Typed DEF IInv
<1>. QED
  BY <1>1, <1>3, <1>5, <1>6, <1>7, <1>8, MineStepKeeps

LEMMA LockKeeps ==
    ASSUME IInv, NEW p \in Requests, Lock(p)
    PROVE  IInv'
<1>. DEFINE m == Mine(p)
            d == IF m.idle THEN Disconnected(m) ELSE m
            e == req[p].entry
<1>1. req[p].phase = "lock" /\ m.mu = NoOne /\ req[p].phase \in HasEntry \ {"retire"}
  BY DEF Lock, HasEntry, At
<1>2. e \in Entries /\ EntryOK(m) /\ req[p] \in ReqState /\ req \in Locals /\ entry \in Pool
  BY <1>1, MineOK, Typed DEF IInv
<1>3. /\ EntryOK(d) /\ d.mu = NoOne /\ d.retired = m.retired
      /\ d.client = m.client \/ d.client = Nothing
  BY <1>1, <1>2, DisconnectedOK
<1>4. UNCHANGED <<secret, supplied, current, expiry, cached, begun>>
  BY DEF Lock, store
<1>5. /\ req[p].conn \in Nat /\ req[p].reused \in BOOLEAN
      /\ secret \in Nat /\ d.client \in Nat /\ p \in Requests \cup {NoOne}
      /\ cached' \in [of : Nat, full : BOOLEAN]
  BY <1>2, <1>3, <1>4, Typed DEF IInv, ReqState, EntryOK, EntryState
<1>6. Refers(req[p])
  BY <1>1 DEF Refers
<1>. DEFINE own == [d EXCEPT !.mu = p]
<1>7. EntryOK(own) /\ own.mu = p /\ own.client = d.client /\ own.retired = d.retired
  <2>. HIDE DEF d
  <2>. QED
    BY <1>3, <1>5, MutexOK
<1>12. e \in Entries \cup {NoEntry} /\ TRUE \in BOOLEAN /\ FALSE \in BOOLEAN
  BY <1>2
<1>8. CASE m.retired
  <2>. DEFINE q == Becomes(req[p], "drop", e, req[p].conn, req[p].reused)
  <2>1. q \in ReqState /\ q.phase = "drop" /\ q.entry = e
    <3>1. "drop" \in Phases
      BY DEF Phases, ReadPhases
    <3>. HIDE DEF d, e
    <3>2. req[p] \in ReqState /\ e \in Entries \cup {NoEntry} /\ req[p].conn \in Nat
      BY <1>2, <1>5, <1>12
    <3>3. req[p].reused \in BOOLEAN
      BY <1>5
    <3>4. IsAt(q, "drop", e, req[p].conn)
      BY <3>1, <3>2, <3>3, <1>12, BecomesOK
    <3>. HIDE DEF q
    <3>. QED
      BY <3>4 DEF IsAt
  <2>2. req' = [req EXCEPT ![p].phase = "drop"] /\ entry' = [entry EXCEPT ![e] = m]
    BY <1>2, <1>8, SameEntry DEF Lock, Goto, Mine
  <2>3. req' = [req EXCEPT ![p] = q]
    BY <1>2, <2>2 DEF Becomes, Locals, ReqState
  <2>. HIDE DEF q
  <2>4. ReadStep(p, e, q, m)
    BY <1>1, <1>2, <1>4, <2>1, <2>2, <2>3 DEF ReadStep, ChangePhases
  <2>5. ~Refers(q) /\ ~Holds(q) /\ q.phase \in HasEntry /\ Fits(p, q, m)
    BY <1>8, <2>1 DEF Refers, Holds, HasEntry, Fits
  <2>. QED
    BY <1>1, <1>4, <1>5, <2>1, <2>4, <2>5, MineStepKeeps
<1>9. CASE ~m.retired /\ d.client # Nothing
  <2>. DEFINE q == Becomes(req[p], "operate", e, d.client, TRUE)
  <2>1. q \in ReqState /\ q.phase = "operate" /\ q.entry = e /\ q.conn = d.client
    <3>1. "operate" \in Phases
      BY DEF Phases, ReadPhases
    <3>. HIDE DEF d, e
    <3>2. req[p] \in ReqState /\ e \in Entries \cup {NoEntry} /\ d.client \in Nat
      BY <1>2, <1>5, <1>12
    <3>3. req[p].reused \in BOOLEAN
      BY <1>5
    <3>4. IsAt(q, "operate", e, d.client)
      BY <3>1, <3>2, <3>3, <1>12, BecomesOK
    <3>. HIDE DEF q
    <3>. QED
      BY <3>4 DEF IsAt
  <2>2. /\ req' = [req EXCEPT ![p].phase = "operate", ![p].conn = d.client, ![p].reused = TRUE]
        /\ entry' = [entry EXCEPT ![e] = own]
    BY <1>9 DEF Lock
  <2>. HIDE DEF d, own
  <2>3. req' = [req EXCEPT ![p] = q]
    BY <1>2, <2>2 DEF Becomes, Locals, ReqState
  <2>. HIDE DEF q
  <2>4. ReadStep(p, e, q, own)
    BY <1>1, <1>2, <1>4, <1>7, <2>1, <2>2, <2>3 DEF ReadStep, ChangePhases
  <2>5. q.phase \in HasEntry /\ Fits(p, q, own)
    BY <1>3, <1>7, <1>9, <2>1 DEF HasEntry, Fits
  <2>6. own.client = m.client /\ q.conn = m.client /\ q.conn # Nothing /\ own.retired = m.retired
    BY <1>3, <1>7, <1>9, <2>1
  <2>. QED
    BY <1>1, <1>4, <1>5, <1>6, <2>1, <2>4, <2>5, <2>6, MineStepKeeps
<1>10. CASE ~m.retired /\ d.client = Nothing /\ secret = Nothing
  <2>. DEFINE q == Becomes(req[p], "give up", e, req[p].conn, req[p].reused)
              x == Retired(d)
  <2>1. q \in ReqState /\ q.phase = "give up" /\ q.entry = e
    <3>1. "give up" \in Phases
      BY DEF Phases, ReadPhases
    <3>. HIDE DEF d, e
    <3>2. req[p] \in ReqState /\ e \in Entries \cup {NoEntry} /\ req[p].conn \in Nat
      BY <1>2, <1>5, <1>12
    <3>3. req[p].reused \in BOOLEAN
      BY <1>5
    <3>4. IsAt(q, "give up", e, req[p].conn)
      BY <3>1, <3>2, <3>3, <1>12, BecomesOK
    <3>. HIDE DEF q
    <3>. QED
      BY <3>4 DEF IsAt
  <2>2. req' = [req EXCEPT ![p].phase = "give up"] /\ entry' = [entry EXCEPT ![e] = x]
    BY <1>10 DEF Lock, Goto
  <2>3. EntryOK(x) /\ x.client = Nothing /\ x.retired
    BY <1>3, RetiredOK
  <2>. HIDE DEF d, x
  <2>4. req' = [req EXCEPT ![p] = q]
    BY <1>2, <2>2 DEF Becomes, Locals, ReqState
  <2>. HIDE DEF q
  <2>5. ReadStep(p, e, q, x)
    BY <1>1, <1>2, <1>4, <2>1, <2>2, <2>3, <2>4 DEF ReadStep, ChangePhases
  <2>6. ~Refers(q) /\ ~Holds(q) /\ q.phase \in HasEntry /\ Fits(p, q, x)
    BY <2>1, <2>3 DEF Refers, Holds, HasEntry, Fits
  <2>. QED
    BY <1>1, <1>4, <1>5, <2>1, <2>3, <2>5, <2>6, MineStepKeeps
<1>11. CASE ~m.retired /\ d.client = Nothing /\ secret # Nothing
  <2>. DEFINE q == Becomes(req[p], "connect", e, secret, FALSE)
  <2>1. q \in ReqState /\ q.phase = "connect" /\ q.entry = e /\ q.conn = secret
    <3>1. "connect" \in Phases
      BY DEF Phases, ReadPhases
    <3>. HIDE DEF d, e
    <3>2. req[p] \in ReqState /\ e \in Entries \cup {NoEntry} /\ secret \in Nat
      BY <1>2, <1>5, <1>12
    <3>3. req[p].reused \in BOOLEAN
      BY <1>5
    <3>4. IsAt(q, "connect", e, secret)
      BY <3>1, <3>2, <3>3, <1>12, BecomesOK
    <3>. HIDE DEF q
    <3>. QED
      BY <3>4 DEF IsAt
  <2>2. /\ req' = [req EXCEPT ![p].phase = "connect", ![p].conn = secret, ![p].reused = FALSE]
        /\ entry' = [entry EXCEPT ![e] = own]
    BY <1>11 DEF Lock
  <2>. HIDE DEF d, own
  <2>3. req' = [req EXCEPT ![p] = q]
    BY <1>2, <2>2 DEF Becomes, Locals, ReqState
  <2>. HIDE DEF q
  <2>4. ReadStep(p, e, q, own)
    BY <1>1, <1>2, <1>4, <1>7, <2>1, <2>2, <2>3 DEF ReadStep, ChangePhases
  <2>5. q.phase \in HasEntry /\ Fits(p, q, own)
    BY <1>3, <1>7, <1>11, <2>1 DEF HasEntry, Fits
  <2>6. own.client = Nothing /\ own.retired = m.retired
    BY <1>3, <1>7, <1>11
  <2>. QED
    BY <1>1, <1>4, <1>5, <1>6, <2>1, <2>4, <2>5, <2>6, MineStepKeeps
<1>. QED
  BY <1>8, <1>9, <1>10, <1>11

LEMMA ConnectKeeps ==
    ASSUME IInv, NEW p \in Requests, Connect(p)
    PROVE  IInv'
<1>. DEFINE m == Mine(p)
            e == req[p].entry
            c == req[p].conn
<1>1. req[p].phase = "connect" /\ req[p].phase \in HasEntry \ {"retire"}
  BY DEF Connect, HasEntry, At
<1>2. /\ e \in Entries /\ EntryOK(m) /\ req[p] \in ReqState /\ req \in Locals /\ entry \in Pool
      /\ m.mu = p /\ m.client = Nothing /\ ~m.retired
  BY <1>1, MineOK, Typed DEF IInv, Fits
<1>3. UNCHANGED <<secret, supplied, current, expiry, cached, begun>>
  BY DEF Connect, store
<1>4. /\ c \in Nat /\ req[p].reused \in BOOLEAN /\ Nothing \in Nat
      /\ cached' \in [of : Nat, full : BOOLEAN]
  BY <1>2, <1>3, Typed DEF IInv, ReqState, Nothing
<1>5. Refers(req[p]) /\ Holds(req[p])
  BY <1>1 DEF Refers, Holds
<1>6. CASE entry' = [entry EXCEPT ![e].client = c] /\ Goto(p, "operate")
  <2>. DEFINE q == Becomes(req[p], "operate", e, c, req[p].reused)
              x == [m EXCEPT !.client = c]
  <2>1. IsAt(q, "operate", e, c)
    BY <1>2, <1>4, BecomesOK DEF Phases, ReadPhases
  <2>2. EntryOK(x) /\ x.client = c /\ x.mu = p /\ ~x.retired
    <3>. HIDE DEF m, c
    <3>1. x \in EntryState /\ x.client = c /\ x.mu = p /\ x.retired = m.retired
      BY <1>2, <1>4 DEF EntryOK, EntryState
    <3>2. x.idle = m.idle
      BY <1>2 DEF EntryOK, EntryState
    <3>. QED
      BY <1>2, <3>1, <3>2 DEF EntryOK
  <2>3. entry' = [entry EXCEPT ![e] = x]
    BY <1>2, <1>6 DEF Mine
  <2>4. req' = [req EXCEPT ![p] = q]
    BY <1>2, <1>6 DEF Goto, Becomes, Locals, ReqState
  <2>. HIDE DEF q, x
  <2>5. ReadStep(p, e, q, x)
    BY <1>1, <1>3, <2>1, <2>2, <2>3, <2>4 DEF ReadStep, ChangePhases, IsAt
  <2>6. q.phase \in HasEntry /\ q.entry = e /\ Fits(p, q, x) /\ q.conn = c
    BY <2>1, <2>2 DEF HasEntry, Fits, IsAt
  <2>. QED
    BY <1>1, <1>2, <1>3, <1>4, <1>5, <2>2, <2>5, <2>6, MineStepKeeps
<1>7. CASE /\ entry' = [entry EXCEPT ![e] = [Retired(m) EXCEPT !.mu = NoOne]]
           /\ req' = [req EXCEPT ![p].phase = "give up", ![p].conn = Nothing]
  <2>. DEFINE q == Becomes(req[p], "give up", e, Nothing, req[p].reused)
              x == [Retired(m) EXCEPT !.mu = NoOne]
  <2>1. IsAt(q, "give up", e, Nothing)
    BY <1>2, <1>4, BecomesOK DEF Phases, ReadPhases
  <2>2. EntryOK(x) /\ x.client = Nothing /\ x.retired
    <3>1. EntryOK(Retired(m)) /\ Retired(m).client = Nothing /\ Retired(m).retired
      BY <1>2, RetiredOK
    <3>. QED
      BY <3>1, MutexOK
  <2>3. req' = [req EXCEPT ![p] = q]
    BY <1>2, <1>7 DEF Becomes, Locals, ReqState
  <2>. HIDE DEF q
  <2>4. ReadStep(p, e, q, x)
    <3>. HIDE DEF x
    <3>. QED
      BY <1>1, <1>3, <1>7, <2>1, <2>2, <2>3 DEF ReadStep, ChangePhases, IsAt, x
  <2>. HIDE DEF x
  <2>5. q.phase \in HasEntry /\ q.entry = e /\ Fits(p, q, x) /\ ~Refers(q) /\ ~Holds(q)
    BY <2>1, <2>2 DEF HasEntry, Fits, IsAt, Refers, Holds
  <2>. QED
    BY <1>1, <1>2, <1>3, <1>4, <2>2, <2>4, <2>5, MineStepKeeps
<1>. QED
  BY <1>6, <1>7 DEF Connect, Mine

(* What an operation cached is stale only while a change is on its way: in *)
(* the pool its connection has the stored credentials or is about to be    *)
(* forgotten, out of it its entry is about to be retired.                  *)
LEMMA OperationFresh ==
    ASSUME IInv, NEW p \in Requests, req[p].phase = "operate", req[p].conn # secret
    PROVE  AnyChanging
<1>1. ~Mine(p).retired
  BY MineOK DEF IInv, HasEntry, Fits
<1>2. Holds(req[p]) /\ Refers(req[p])
  BY DEF Holds, Refers
<1>3. Forgetting \/ Leaving(req[p].entry)
  BY <1>1, <1>2 DEF IInv, PoolOK, UsedOwned, UsedFresh
<1>. QED
  BY <1>3 DEF Forgetting, Leaving, At, AnyChanging, Changing, ChangePhases

LEMMA OperationSucceedsKeeps ==
    ASSUME IInv, NEW p \in Requests, NEW preview \in BOOLEAN, OperationSucceeds(p, preview)
    PROVE  IInv'
<1>. DEFINE m == Mine(p)
            e == req[p].entry
            c == req[p].conn
            x == [m EXCEPT !.mu = NoOne, !.idle = FALSE, !.timer = "armed"]
            q == IF req[p].full THEN Becomes(req[p], "cache", NoEntry, c, req[p].reused) ELSE Idle
<1>1. req[p].phase = "operate" /\ req[p].phase \in HasEntry \ {"retire"}
  BY DEF OperationSucceeds, HasEntry, At
<1>2. /\ e \in Entries /\ EntryOK(m) /\ req[p] \in ReqState /\ req \in Locals /\ entry \in Pool
      /\ m.mu = p /\ ~m.retired /\ secret \in Nat /\ cached \in [of : Nat, full : BOOLEAN]
  BY <1>1, MineOK, Typed DEF IInv, Fits
<1>3. UNCHANGED <<secret, supplied, current, expiry, begun>>
  BY DEF OperationSucceeds, store
<1>4. c \in Nat /\ req[p].reused \in BOOLEAN
  BY <1>2 DEF ReqState
<1>5. q \in ReqState /\ q.phase \in {"cache", "idle"} /\ q.entry = NoEntry
  <2>1. IsAt(Becomes(req[p], "cache", NoEntry, c, req[p].reused), "cache", NoEntry, c)
    BY <1>2, <1>4, BecomesOK DEF Phases, ReadPhases
  <2>. QED
    BY <2>1, IdleOK DEF IsAt
<1>6. EntryOK(x) /\ x.client = m.client /\ x.retired = m.retired
  <2>. DEFINE a == [m EXCEPT !.mu = NoOne]
              b == [a EXCEPT !.idle = FALSE]
  <2>1. EntryOK(a) /\ a.client = m.client /\ a.retired = m.retired
    BY <1>2, MutexOK
  <2>2. x = [b EXCEPT !.timer = "armed"]
    OBVIOUS
  <2>. HIDE DEF a, m
  <2>3. EntryOK(b) /\ b.client = a.client /\ b.retired = a.retired
    BY <2>1 DEF EntryOK, EntryState
  <2>. HIDE DEF b, x
  <2>4. EntryOK(x) /\ x.client = b.client /\ x.retired = b.retired
    BY <2>2, <2>3 DEF EntryOK, EntryState, Timers
  <2>. QED
    BY <2>1, <2>3, <2>4
<1>7. entry' = [entry EXCEPT ![e] = x]
  BY <1>2 DEF OperationSucceeds, Mine
<1>8. req' = [req EXCEPT ![p] = q]
  <2>1. CASE req[p].full
    <3>1. req' = [req EXCEPT ![p].phase = "cache", ![p].entry = NoEntry]
      BY <2>1 DEF OperationSucceeds
    <3>. QED
      BY <1>2, <2>1, <3>1 DEF Becomes, Locals, ReqState
  <2>2. CASE ~req[p].full
    BY <2>2 DEF OperationSucceeds, Finish
  <2>. QED
    BY <2>1, <2>2
<1>. HIDE DEF q, x
<1>9. ReadStep(p, e, q, x)
  BY <1>1, <1>3, <1>5, <1>6, <1>7, <1>8 DEF ReadStep, ChangePhases
<1>10. q.phase \notin HasEntry /\ ~Refers(q) /\ ~Holds(q)
  BY <1>5 DEF HasEntry, Refers, Holds
<1>11. cached' = cached \/ cached' = [of |-> c, full |-> FALSE]
  BY DEF OperationSucceeds, SetPreview
<1>12. cached' \in [of : Nat, full : BOOLEAN]
  <2>1. [of |-> c, full |-> FALSE] \in [of : Nat, full : BOOLEAN]
    BY <1>4
  <2>. QED
    BY <1>2, <1>11, <2>1
<1>13. UNCHANGED cached \/ CacheOK'
  <2>. SUFFICES ASSUME cached' = [of |-> c, full |-> FALSE] PROVE CacheOK'
    BY <1>11
  <2>1. req'[p] = q /\ \A r \in Requests : r # p => req'[r] = req[r]
    BY <1>2, <1>5, <1>8, LocalReplaced
  <2>2. AnyChanging => AnyChanging'
    BY <1>1, <1>5, <2>1, ReaderChangesNothing DEF ChangePhases
  <2>3. c # secret => AnyChanging
    BY <1>1, OperationFresh
  <2>. QED
    BY <1>3, <2>2, <2>3 DEF CacheOK
<1>. QED
  BY <1>1, <1>2, <1>3, <1>5, <1>6, <1>9, <1>10, <1>12, <1>13, MineStepKeeps

LEMMA OperationFailsKeeps ==
    ASSUME IInv, NEW p \in Requests, OperationFails(p)
    PROVE  IInv'
<1>. DEFINE m == Mine(p)
            e == req[p].entry
            again == [Idle EXCEPT !.phase = "entry", !.full = req[p].full, !.retry = FALSE]
            x == [Disconnected(m) EXCEPT !.mu = NoOne]
            q == IF req[p].reused /\ req[p].retry THEN again ELSE Idle
<1>1. req[p].phase = "operate" /\ req[p].phase \in HasEntry \ {"retire"}
  BY DEF OperationFails, HasEntry, At
<1>2. /\ e \in Entries /\ EntryOK(m) /\ req[p] \in ReqState /\ req \in Locals /\ entry \in Pool
      /\ m.mu = p /\ ~m.retired
  BY <1>1, MineOK, Typed DEF IInv, Fits
<1>3. UNCHANGED <<secret, supplied, current, expiry, cached, begun>>
  BY DEF OperationFails, store
<1>4. q \in ReqState /\ q.phase \in {"entry", "idle"} /\ q.entry = NoEntry
  <2>. DEFINE f == req[p].full
              g == [Idle EXCEPT !.phase = "entry", !.full = f]
  <2>1. f \in BOOLEAN
    BY <1>2 DEF ReqState
  <2>2. again = [g EXCEPT !.retry = FALSE]
    OBVIOUS
  <2>. HIDE DEF f
  <2>4. g \in ReqState /\ g.phase = "entry" /\ g.entry = NoEntry
    BY <2>1, IdleOK DEF ReqState, ReadPhases
  <2>. HIDE DEF g, again
  <2>3. again \in ReqState /\ again.phase = "entry" /\ again.entry = NoEntry
    BY <2>2, <2>4 DEF ReqState
  <2>. QED
    BY <2>3, IdleOK
<1>5. EntryOK(x) /\ x.client = Nothing
  <2>1. EntryOK(Disconnected(m)) /\ Disconnected(m).client = Nothing
    BY <1>2, DisconnectedOK
  <2>. QED
    BY <2>1, MutexOK
<1>6. entry' = [entry EXCEPT ![e] = x]
  BY <1>2 DEF OperationFails, Mine
<1>7. req' = [req EXCEPT ![p] = q]
  BY DEF OperationFails, Finish
<1>. HIDE DEF q, x
<1>8. ReadStep(p, e, q, x)
  BY <1>1, <1>3, <1>4, <1>5, <1>6, <1>7 DEF ReadStep, ChangePhases
<1>9. q.phase \notin HasEntry /\ ~Refers(q) /\ ~Holds(q)
  BY <1>4 DEF HasEntry, Refers, Holds
<1>10. cached' \in [of : Nat, full : BOOLEAN]
  BY <1>3, Typed DEF IInv
<1>. QED
  BY <1>1, <1>2, <1>3, <1>4, <1>5, <1>8, <1>9, <1>10, MineStepKeeps
-----------------------------------------------------------------------------
(* The requests that change credentials.                                   *)

LEMMA ChangeKeeps ==
    ASSUME IInv, NEW p \in Requests, NEW new \in {Nothing, secret, supplied + 1}, Change(p, new)
    PROVE  IInv'
<1>. DEFINE q == [Idle EXCEPT !.phase = "forget"]
<1>1. q \in ReqState /\ q.phase = "forget" /\ q.entry = NoEntry
  BY IdleOK DEF ReqState, ChangePhases
<1>2. req[p].phase = "idle" /\ begun' \in Nat /\ req' = [req EXCEPT ![p] = q]
  BY DEF Change, Begin, At, Requests
<1>3. UNCHANGED <<current, entry, expiry, cached>>
  BY DEF Change
<1>. HIDE DEF q
<1>4. secret' \in Nat /\ supplied' \in Nat /\ cached' \in [of : Nat, full : BOOLEAN]
  BY <1>3, Typed DEF IInv, Change, Nothing
<1>5. TypeOK' /\ PoolOK' /\ req'[p] = q
  BY <1>1, <1>2, <1>3, <1>4, OutsideOK DEF IInv, At, HasEntry
<1>6. AnyChanging'
  BY <1>1, <1>5 DEF AnyChanging, Changing, ChangePhases
<1>. QED
  BY <1>5, <1>6 DEF IInv, CacheOK

LEMMA ForgetKeeps ==
    ASSUME IInv, NEW p \in Requests, Forget(p)
    PROVE  IInv'
<1>. USE DEF IInv
<1>. DEFINE q == IF current = NoEntry
                 THEN Becomes(req[p], "clear", req[p].entry, req[p].conn, req[p].reused)
                 ELSE Becomes(req[p], "retire", current, req[p].conn, req[p].reused)
<1>1. req[p].phase = "forget" /\ current' = NoEntry
  BY DEF Forget, At
<1>2. UNCHANGED <<secret, supplied, entry, expiry, cached, begun>>
  BY DEF Forget, store
<1>3. /\ req \in Locals /\ req[p] \in ReqState /\ current \in Entries \cup {NoEntry}
      /\ req[p].entry = NoEntry
  BY <1>1, Typed DEF Locals, PoolOK, RefsOK, HasEntry
<1>4. /\ q \in ReqState
      /\ current = NoEntry => q.phase = "clear" /\ q.entry = NoEntry
      /\ current # NoEntry => q.phase = "retire" /\ q.entry = current
  <2>1. req[p].conn \in Nat /\ req[p].reused \in BOOLEAN
    BY <1>3 DEF ReqState
  <2>2. CASE current = NoEntry
    <3>1. IsAt(Becomes(req[p], "clear", req[p].entry, req[p].conn, req[p].reused),
               "clear", req[p].entry, req[p].conn)
      BY <1>3, <2>1, BecomesOK DEF Phases, ChangePhases
    <3>. QED
      BY <1>3, <2>2, <3>1 DEF IsAt
  <2>3. CASE current # NoEntry
    <3>1. IsAt(Becomes(req[p], "retire", current, req[p].conn, req[p].reused),
               "retire", current, req[p].conn)
      BY <1>3, <2>1, BecomesOK DEF Phases, ChangePhases
    <3>. QED
      BY <2>3, <3>1 DEF IsAt
  <2>. QED
    BY <2>2, <2>3
<1>5. req' = [req EXCEPT ![p] = q]
  <2>1. CASE current = NoEntry
    <3>1. req' = [req EXCEPT ![p].phase = "clear"]
      BY <2>1 DEF Forget, Goto
    <3>. QED
      BY <1>3, <2>1, <3>1 DEF Becomes, Locals, ReqState
  <2>2. CASE current # NoEntry
    <3>1. req' = [req EXCEPT ![p].phase = "retire", ![p].entry = current]
      BY <2>2 DEF Forget
    <3>. QED
      BY <1>3, <2>2, <3>1 DEF Becomes, Locals, ReqState
  <2>. QED
    BY <2>1, <2>2
<1>. HIDE DEF q
<1>6. req' \in Locals /\ req'[p] = q /\ \A r \in Requests : r # p => req'[r] = req[r]
  BY <1>3, <1>4, <1>5, LocalReplaced
<1>7. TypeOK'
  <2>1. /\ secret' \in Nat /\ supplied' \in Nat /\ entry' \in Pool /\ begun' \in Nat
        /\ current' \in Entries \cup {NoEntry} /\ \A e \in Entries : EntryOK(entry'[e])
    BY <1>1, <1>2, Typed
  <2>2. /\ expiry' \in [Entries -> {"none", "waiting", "drop"}]
        /\ cached' \in [of : Nat, full : BOOLEAN]
    BY <1>2, Typed
  <2>. QED
    BY <1>6, <2>1, <2>2, TypedNext
<1>8. \A f : Leaving(f) => Leaving(f)'
  BY <1>1, <1>6 DEF Leaving, At
<1>9. \A f : current = f /\ f # NoEntry => Leaving(f)'
  BY <1>4, <1>6 DEF Leaving, At
<1>10. RefsOK'
  <2>1. ASSUME NEW r \in Requests, r # p
        PROVE  /\ req'[r].phase \in HasEntry <=> req'[r].entry # NoEntry
               /\ req'[r].phase \in HasEntry => Fits(r, req'[r], entry'[req'[r].entry])
    BY <2>1, <1>2, <1>6 DEF PoolOK, RefsOK
  <2>2. /\ req'[p].phase \in HasEntry <=> req'[p].entry # NoEntry
        /\ req'[p].phase \in HasEntry => Fits(p, req'[p], entry'[req'[p].entry])
    BY <1>4, <1>6 DEF Fits, HasEntry
  <2>. QED
    BY <2>1, <2>2 DEF RefsOK, Fits
<1>11. DropsOK'
  BY <1>2 DEF PoolOK, DropsOK
<1>12. OpenOwned'
  <2>. SUFFICES ASSUME NEW f \in Entries, entry[f].client # Nothing PROVE Leaving(f)'
    BY <1>2 DEF OpenOwned
  <2>1. current = f \/ Leaving(f)
    BY DEF PoolOK, OpenOwned
  <2>. QED
    BY <2>1, <1>8, <1>9
<1>13. UsedOwned'
  <2>. SUFFICES ASSUME NEW r \in Requests, NEW f, f = req'[r].entry, Refers(req'[r]),
                       ~entry[f].retired
                PROVE  Leaving(f)'
    BY <1>2 DEF UsedOwned, Mine, Refers, Leaving, At
  <2>1. r # p
    BY <1>4, <1>6 DEF Refers
  <2>2. req'[r] = req[r] /\ f # NoEntry
    BY <1>6, <2>1 DEF PoolOK, RefsOK, Refers, HasEntry
  <2>3. current = f \/ Leaving(f)
    BY <2>2 DEF PoolOK, UsedOwned, Mine
  <2>. QED
    BY <2>2, <2>3, <1>8, <1>9
<1>14. OpenFresh'
  BY <1>1 DEF OpenFresh
<1>15. UsedFresh'
  <2>1. \A r \in Requests : Holds(req'[r]) => req'[r].entry # NoEntry
    BY <1>10 DEF RefsOK, Holds, HasEntry
  <2>. QED
    BY <1>1, <2>1 DEF UsedFresh
<1>16. AnyChanging'
  BY <1>4, <1>6 DEF AnyChanging, Changing, ChangePhases
<1>. QED
  BY <1>7, <1>10, <1>11, <1>12, <1>13, <1>14, <1>15, <1>16 DEF PoolOK, CacheOK

LEMMA RetireKeeps ==
    ASSUME IInv, NEW p \in Requests, Retire(p)
    PROVE  IInv'
<1>. USE DEF IInv
<1>. DEFINE m == Mine(p)
            e == req[p].entry
            x == IF m.retired THEN m ELSE Retired(m)
            q == IF m.retired THEN Becomes(req[p], "clear", NoEntry, req[p].conn, req[p].reused)
                 ELSE Becomes(req[p], "disconnect", NoEntry, m.client, req[p].reused)
<1>1. req[p].phase = "retire" /\ req[p].phase \in HasEntry /\ m.mu = NoOne
  BY DEF Retire, At, HasEntry
<1>2. UNCHANGED <<secret, supplied, current, expiry, cached, begun>>
  BY DEF Retire, store
<1>3. e \in Entries /\ EntryOK(m) /\ req[p] \in ReqState /\ req \in Locals /\ entry \in Pool
  BY <1>1, MineOK, Typed
<1>4. EntryOK(x) /\ x.retired /\ x.client = Nothing
  <2>1. EntryOK(Retired(m)) /\ Retired(m).retired
    BY <1>3, RetiredOK
  <2>. QED
    BY <1>3, <2>1 DEF EntryOK
<1>5. q \in ReqState /\ q.phase \in {"clear", "disconnect"} /\ q.entry = NoEntry
  <2>1. req[p].conn \in Nat /\ req[p].reused \in BOOLEAN /\ m.client \in Nat
    BY <1>3 DEF ReqState, EntryOK, EntryState
  <2>2. /\ IsAt(Becomes(req[p], "clear", NoEntry, req[p].conn, req[p].reused),
                "clear", NoEntry, req[p].conn)
        /\ IsAt(Becomes(req[p], "disconnect", NoEntry, m.client, req[p].reused),
                "disconnect", NoEntry, m.client)
    BY <1>3, <2>1, BecomesOK DEF Phases, ChangePhases
  <2>. QED
    BY <2>2 DEF IsAt
<1>6. req' = [req EXCEPT ![p] = q]
  <2>1. CASE m.retired
    <3>1. req' = [req EXCEPT ![p].phase = "clear", ![p].entry = NoEntry]
      BY <2>1 DEF Retire
    <3>. QED
      BY <1>3, <2>1, <3>1 DEF Becomes, Locals, ReqState
  <2>2. CASE ~m.retired
    <3>1. req' = [req EXCEPT ![p].phase = "disconnect", ![p].entry = NoEntry, ![p].conn = m.client]
      BY <2>2 DEF Retire
    <3>. HIDE DEF m
    <3>. QED
      BY <1>3, <2>2, <3>1 DEF Becomes, Locals, ReqState
  <2>. QED
    BY <2>1, <2>2
<1>7. entry' = [entry EXCEPT ![e] = x]
  BY <1>3, SameEntry DEF Retire, Mine
<1>. HIDE DEF q, x
<1>8. /\ req' \in Locals /\ req'[p] = q /\ \A r \in Requests : r # p => req'[r] = req[r]
      /\ entry' \in Pool /\ entry'[e] = x /\ \A f \in Entries : f # e => entry'[f] = entry[f]
  <2>1. x \in EntryState
    BY <1>4 DEF EntryOK
  <2>2. req' \in Locals /\ req'[p] = q /\ \A r \in Requests : r # p => req'[r] = req[r]
    BY <1>3, <1>5, <1>6, LocalReplaced
  <2>3. entry' \in Pool /\ entry'[e] = x /\ \A f \in Entries : f # e => entry'[f] = entry[f]
    BY <1>3, <1>7, <2>1, EntryReplaced
  <2>. QED
    BY <2>2, <2>3
<1>9. TypeOK'
  <2>1. \A f \in Entries : EntryOK(entry'[f])
    BY <1>4, <1>8, Typed
  <2>. QED
    BY <1>2, <1>8, <2>1, Typed, TypedNext
<1>10. (\A f : f # e /\ Leaving(f) => Leaving(f)') /\ (Forgetting => Forgetting')
  BY <1>1, <1>8 DEF Leaving, Forgetting, At
<1>11. \A r \in Requests : req[r].phase \in HasEntry => req[r].entry \in Entries
  BY Typed DEF PoolOK, RefsOK, Locals, ReqState
<1>12. \A r \in Requests : r # p /\ Holds(req[r]) => req[r].entry # e
  BY <1>1, <1>3, Alone DEF Mine
<1>13. RefsOK'
  <2>1. ASSUME NEW r \in Requests, r # p, req[r].phase \in HasEntry
        PROVE  Fits(r, req[r], entry'[req[r].entry])
    <3>1. Fits(r, req[r], entry[req[r].entry]) /\ req[r].entry \in Entries
      BY <2>1, <1>11 DEF PoolOK, RefsOK
    <3>2. CASE req[r].entry = e
      BY <2>1, <3>2, <1>4, <1>8, <1>12 DEF Fits, Holds
    <3>3. CASE req[r].entry # e
      BY <3>1, <3>3, <1>8
    <3>. QED
      BY <3>2, <3>3
  <2>2. req'[p].phase \notin HasEntry /\ req'[p].entry = NoEntry
    BY <1>5, <1>8 DEF HasEntry
  <2>3. \A r \in Requests : r # p => (req[r].phase \in HasEntry <=> req[r].entry # NoEntry)
    BY DEF PoolOK, RefsOK
  <2>. QED
    BY <2>1, <2>2, <2>3, <1>8 DEF RefsOK
<1>14. DropsOK'
  BY <1>2, <1>4, <1>8 DEF PoolOK, DropsOK
<1>15. OpenOwned'
  <2>. SUFFICES ASSUME NEW f \in Entries, entry'[f].client # Nothing, current # f
                PROVE  Leaving(f)'
    BY <1>2 DEF OpenOwned
  <2>1. f # e
    BY <1>4, <1>8
  <2>. QED
    BY <2>1, <1>8, <1>10 DEF PoolOK, OpenOwned
<1>16. UsedOwned'
  <2>. SUFFICES ASSUME NEW r \in Requests, NEW f, f = req'[r].entry, Refers(req'[r]),
                       ~entry'[f].retired, current # f
                PROVE  Leaving(f)'
    BY <1>2 DEF UsedOwned, Mine, Refers, Leaving, At
  <2>1. r # p
    BY <1>5, <1>8 DEF Refers
  <2>2. req'[r] = req[r] /\ f \in Entries /\ f # e
    BY <1>4, <1>8, <1>11, <2>1 DEF Refers, HasEntry
  <2>3. Leaving(f)
    BY <1>8, <2>2 DEF PoolOK, UsedOwned, Mine
  <2>. QED
    BY <2>2, <2>3, <1>10
<1>17. OpenFresh'
  <2>. SUFFICES ASSUME current # NoEntry, entry'[current].client \notin {Nothing, secret}
                PROVE  Forgetting'
    BY <1>2 DEF OpenFresh
  <2>1. current \in Entries /\ current # e
    BY <1>4, <1>8, Typed
  <2>. QED
    BY <2>1, <1>8, <1>10 DEF PoolOK, OpenFresh
<1>18. UsedFresh'
  <2>1. ~Holds(req'[p])
    BY <1>5, <1>8 DEF Holds
  <2>. QED
    BY <2>1, <1>2, <1>8, <1>10 DEF PoolOK, UsedFresh
<1>19. AnyChanging'
  BY <1>5, <1>8 DEF AnyChanging, Changing, ChangePhases
<1>. QED
  BY <1>9, <1>13, <1>14, <1>15, <1>16, <1>17, <1>18, <1>19 DEF PoolOK, CacheOK

(* A change that has thrown the entry away goes on; it stays a change, or  *)
(* leaves an empty cache behind.                                           *)
LEMMA DisconnectKeeps ==
    ASSUME IInv, NEW p \in Requests, Disconnect(p)
    PROVE  IInv'
<1>. DEFINE q == Becomes(req[p], "clear", req[p].entry, Nothing, req[p].reused)
<1>1. req[p].phase = "disconnect" /\ UNCHANGED <<secret, supplied, current, entry, expiry, cached, begun>>
  BY DEF Disconnect, At, store
<1>2. req \in Locals /\ req[p] \in ReqState /\ req[p].entry = NoEntry
  BY <1>1, Typed DEF IInv, Locals, PoolOK, RefsOK, HasEntry
<1>3. q \in ReqState /\ q.phase = "clear" /\ q.entry = NoEntry
  <2>1. Nothing \in Nat /\ req[p].reused \in BOOLEAN
    BY <1>2 DEF ReqState, Nothing
  <2>2. IsAt(q, "clear", req[p].entry, Nothing)
    BY <1>2, <2>1, BecomesOK DEF Phases, ChangePhases
  <2>. QED
    BY <1>2, <2>2 DEF IsAt
<1>4. req' = [req EXCEPT ![p] = q]
  <2>1. req' = [req EXCEPT ![p].phase = "clear", ![p].conn = Nothing]
    BY DEF Disconnect
  <2>. QED
    BY <1>2, <2>1 DEF Becomes, Locals, ReqState
<1>. HIDE DEF q
<1>5. TypeOK' /\ PoolOK' /\ req'[p] = q
  <2>1. /\ secret' \in Nat /\ supplied' \in Nat /\ begun' \in Nat
        /\ cached' \in [of : Nat, full : BOOLEAN]
    BY <1>1, Typed DEF IInv
  <2>. QED
    BY <1>1, <1>3, <1>4, <2>1, OutsideOK DEF IInv, At, HasEntry
<1>6. AnyChanging'
  BY <1>3, <1>5 DEF AnyChanging, Changing, ChangePhases
<1>. QED
  BY <1>5, <1>6 DEF IInv, CacheOK

LEMMA ClearKeeps ==
    ASSUME IInv, NEW p \in Requests, Clear(p)
    PROVE  IInv'
<1>1. /\ req[p].phase = "clear" /\ req' = [req EXCEPT ![p] = Idle]
      /\ UNCHANGED <<secret, supplied, current, entry, expiry, begun>>
      /\ cached' = [of |-> Nothing, full |-> FALSE]
  BY DEF Clear, At, Finish, store
<1>2. /\ secret' \in Nat /\ supplied' \in Nat /\ begun' \in Nat
      /\ cached' \in [of : Nat, full : BOOLEAN]
  BY <1>1, Typed DEF IInv, Nothing
<1>3. TypeOK' /\ PoolOK'
  BY <1>1, <1>2, IdleOK, OutsideOK DEF IInv, At, HasEntry
<1>. QED
  BY <1>1, <1>3 DEF IInv, CacheOK
-----------------------------------------------------------------------------
(* Timers and the cache.                                                   *)

LEMMA TimerKeeps ==
    ASSUME IInv, NEW e \in Entries, TimerStep(e)
    PROVE  IInv'
<1>. USE DEF IInv
<1>. DEFINE m == entry[e]
<1>1. /\ EntryOK(m) /\ m \in EntryState /\ entry \in Pool /\ "armed" \in Timers /\ "stopped" \in Timers
      /\ expiry \in [Entries -> {"none", "waiting", "drop"}]
  BY Typed DEF EntryOK, Timers
<1>2. UNCHANGED <<secret, supplied, req, cached, begun>>
  BY DEF TimerStep, GrowIdle, Fire, Expire, DropExpired, store
<1>3. ASSUME NEW x, EntryOK(x), entry' = [entry EXCEPT ![e] = x],
             x.mu = m.mu, m.retired => x.retired, x.client = m.client \/ x.client = Nothing,
             x.client # m.client \/ x.retired # m.retired => m.mu = NoOne,
             current' = current \/ (x.retired /\ current' = RemoveEntry(e)),
             expiry' = expiry \/ \E d \in {"none", "waiting", "drop"} :
                                     /\ expiry' = [expiry EXCEPT ![e] = d]
                                     /\ d = "drop" => x.retired
      PROVE  IInv'
  <2>1. /\ \A f \in Entries : expiry'[f] = "drop" => expiry[f] = "drop" \/ (f = e /\ x.retired)
        /\ expiry' \in [Entries -> {"none", "waiting", "drop"}]
    BY <1>1, <1>3
  <2>2. PoolOK'
    BY <1>2, <1>3, <2>1, TimerStepOK
  <2>3. entry' \in Pool /\ \A f \in Entries : EntryOK(entry'[f])
    <3>1. entry' \in Pool /\ entry'[e] = x /\ \A f \in Entries : f # e => entry'[f] = entry[f]
      BY <1>1, <1>3, EntryReplaced DEF EntryOK
    <3>. QED
      BY <1>3, <3>1, Typed
  <2>4. current' \in Entries \cup {NoEntry}
    BY <1>3, Typed DEF RemoveEntry
  <2>5. TypeOK'
    BY <1>2, <2>1, <2>3, <2>4, Typed, TypedNext
  <2>6. CacheOK'
    BY <1>2 DEF CacheOK, AnyChanging, Changing
  <2>. QED
    BY <2>2, <2>5, <2>6
<1>4. CASE GrowIdle(e)
  <2>. DEFINE x == [m EXCEPT !.idle = TRUE]
  <2>1. EntryOK(x) /\ x.mu = m.mu /\ x.retired = m.retired /\ x.client = m.client
    BY <1>1, <1>4 DEF GrowIdle, EntryOK, EntryState
  <2>2. entry' = [entry EXCEPT ![e] = x] /\ current' = current /\ expiry' = expiry
    BY <1>4 DEF GrowIdle
  <2>. HIDE DEF x, m
  <2>. QED
    BY <1>3, <2>1, <2>2
<1>5. CASE Fire(e)
  <2>. DEFINE x == [m EXCEPT !.timer = "stopped"]
  <2>1. EntryOK(x) /\ x.mu = m.mu /\ x.retired = m.retired /\ x.client = m.client
    BY <1>1 DEF EntryOK, EntryState
  <2>2. /\ entry' = [entry EXCEPT ![e] = x] /\ current' = current
        /\ expiry' = [expiry EXCEPT ![e] = "waiting"]
    BY <1>5 DEF Fire
  <2>. HIDE DEF x, m
  <2>. QED
    BY <1>3, <2>1, <2>2
<1>6. CASE Expire(e)
  <2>0. current' = current
    BY <1>6 DEF Expire
  <2>1. CASE m.retired
    <3>1. entry' = [entry EXCEPT ![e] = m] /\ expiry' = [expiry EXCEPT ![e] = "none"]
      BY <1>1, <1>6, <2>1, SameEntry DEF Expire
    <3>. HIDE DEF m
    <3>. QED
      BY <1>1, <1>3, <2>0, <3>1
  <2>2. CASE ~m.retired /\ m.client # Nothing /\ ~m.idle
    <3>. DEFINE x == [m EXCEPT !.timer = "armed"]
    <3>1. EntryOK(x) /\ x.mu = m.mu /\ x.retired = m.retired /\ x.client = m.client
      BY <1>1 DEF EntryOK, EntryState
    <3>2. entry' = [entry EXCEPT ![e] = x] /\ expiry' = [expiry EXCEPT ![e] = "none"]
      BY <1>6, <2>2 DEF Expire
    <3>. HIDE DEF x, m
    <3>. QED
      BY <1>3, <2>0, <3>1, <3>2
  <2>3. CASE ~m.retired /\ ~(m.client # Nothing /\ ~m.idle)
    <3>. DEFINE x == [m EXCEPT !.retired = TRUE, !.client = Nothing, !.idle = FALSE]
    <3>1. EntryOK(x) /\ x.mu = m.mu /\ x.retired /\ x.client = Nothing
      <4>. DEFINE a == [m EXCEPT !.retired = TRUE]
                  b == [a EXCEPT !.client = Nothing]
      <4>1. x = [b EXCEPT !.idle = FALSE]
        OBVIOUS
      <4>. HIDE DEF m
      <4>2. a \in EntryState /\ a.retired /\ a.mu = m.mu
        BY <1>1 DEF EntryState
      <4>. HIDE DEF a
      <4>3. b \in EntryState /\ b.retired /\ b.mu = a.mu /\ b.client = Nothing
        BY <4>2 DEF EntryState, Nothing
      <4>. HIDE DEF b, x
      <4>. QED
        BY <4>1, <4>2, <4>3 DEF EntryOK, EntryState
    <3>2. /\ entry' = [entry EXCEPT ![e] = x] /\ expiry' = [expiry EXCEPT ![e] = "drop"]
          /\ m.mu = NoOne
      BY <1>6, <2>3 DEF Expire
    <3>. HIDE DEF x, m
    <3>. QED
      BY <1>3, <2>0, <3>1, <3>2
  <2>. QED
    BY <2>1, <2>2, <2>3
<1>7. CASE DropExpired(e)
  <2>1. /\ entry' = [entry EXCEPT ![e] = m] /\ current' = RemoveEntry(e)
        /\ expiry' = [expiry EXCEPT ![e] = "none"] /\ expiry[e] = "drop"
    BY <1>1, <1>7, SameEntry DEF DropExpired
  <2>2. m.retired
    BY <2>1 DEF PoolOK, DropsOK
  <2>. HIDE DEF m
  <2>. QED
    BY <1>1, <1>3, <2>1, <2>2
<1>. QED
  BY <1>4, <1>5, <1>6, <1>7 DEF TimerStep

LEMMA EvictKeeps ==
    ASSUME IInv, Evict
    PROVE  IInv'
<1>1. /\ UNCHANGED <<secret, supplied, current, entry, expiry, req, begun>>
      /\ cached' = [of |-> Nothing, full |-> FALSE]
  BY DEF Evict, store
<1>2. cached' \in [of : Nat, full : BOOLEAN]
  BY <1>1 DEF Nothing
<1>3. TypeOK'
  BY <1>1, <1>2 DEF IInv, TypeOK
<1>4. PoolOK'
  BY <1>1 DEF IInv, PoolOK, RefsOK, DropsOK, OpenOwned, UsedOwned, OpenFresh, UsedFresh,
              Leaving, Forgetting, Mine, At
<1>. QED
  BY <1>1, <1>3, <1>4 DEF IInv, CacheOK
-----------------------------------------------------------------------------
(* The invariant.                                                          *)

LEMMA InitOK == Init => IInv
<1>. SUFFICES ASSUME Init PROVE IInv
  OBVIOUS
<1>1. secret = 1 /\ supplied = 1 /\ current = NoEntry /\ begun = 0
      /\ cached = [of |-> Nothing, full |-> FALSE]
      /\ (\A e \in Entries : entry[e] = NewEntry /\ expiry[e] = "none")
      /\ (\A p \in Requests : req[p] = Idle)
  BY DEF Init
<1>2. TypeOK
  <2>1. entry \in [Entries -> EntryState] /\ req \in [Requests -> ReqState]
        /\ expiry \in [Entries -> {"none", "waiting", "drop"}]
    BY NewEntryOK, IdleOK DEF Init, EntryOK
  <2>2. \A e \in Entries : /\ entry[e].retired => entry[e].client = Nothing
                           /\ entry[e].idle => entry[e].client # Nothing
    BY <1>1, NewEntryOK DEF EntryOK
  <2>. QED
    BY <1>1, <2>1, <2>2 DEF TypeOK, Nothing
<1>3. PoolOK
  BY <1>1, NewEntryOK, IdleOK DEF PoolOK, RefsOK, DropsOK, OpenOwned, UsedOwned, OpenFresh,
                                  UsedFresh, Refers, Holds, HasEntry, Fits
<1>4. CacheOK
  BY <1>1 DEF CacheOK
<1>. QED
  BY <1>2, <1>3, <1>4 DEF IInv

LEMMA StepOK == IInv /\ [Next]_vars => IInv'
<1>. SUFFICES ASSUME IInv, [Next]_vars PROVE IInv'
  OBVIOUS
<1>1. ASSUME NEW p \in Requests, Arrive(p) PROVE IInv'
  BY <1>1, BeginReadKeeps, ChangeKeeps DEF Arrive
<1>2. ASSUME NEW p \in Requests, Proceed(p) PROVE IInv'
  <2>1. CASE EntryFor(p)
    BY <2>1, EntryForKeeps
  <2>2. CASE Lock(p)
    BY <2>2, LockKeeps
  <2>3. CASE Drop(p)
    BY <2>3, DropKeeps
  <2>4. CASE Connect(p)
    BY <2>4, ConnectKeeps
  <2>5. CASE \E preview \in BOOLEAN : OperationSucceeds(p, preview)
    BY <2>5, OperationSucceedsKeeps
  <2>6. CASE OperationFails(p)
    BY <2>6, OperationFailsKeeps
  <2>7. CASE SetFull(p)
    BY <2>7, SetFullKeeps
  <2>8. CASE Forget(p)
    BY <2>8, ForgetKeeps
  <2>9. CASE Retire(p)
    BY <2>9, RetireKeeps
  <2>10. CASE Disconnect(p)
    BY <2>10, DisconnectKeeps
  <2>11. CASE Clear(p)
    BY <2>11, ClearKeeps
  <2>. QED
    BY <1>2, <2>1, <2>2, <2>3, <2>4, <2>5, <2>6, <2>7, <2>8, <2>9, <2>10, <2>11 DEF Proceed
<1>3. ASSUME NEW e \in Entries, TimerStep(e) PROVE IInv'
  BY <1>3, TimerKeeps
<1>4. CASE Evict
  BY <1>4, EvictKeeps
<1>5. CASE UNCHANGED vars
  BY <1>5 DEF IInv, TypeOK, PoolOK, CacheOK, RefsOK, DropsOK, OpenOwned, UsedOwned, OpenFresh,
              UsedFresh, Leaving, Forgetting, AnyChanging, Changing, Mine, At, vars, store
<1>. QED
  BY <1>1, <1>2, <1>3, <1>4, <1>5 DEF Next, Running

(* The parts of the invariant hold in every reachable state. *)
THEOREM Invariance == Spec => []IInv
BY InitOK, StepOK, PTL DEF Spec

(* Every variable keeps its shape, for every bound of the specification; a *)
(* retired entry has no connection, and only a connection grows idle.      *)
THEOREM TypeCorrect == Spec => []TypeOK
BY Invariance, PTL DEF IInv

(* The pool orphans no connection, and closes or replaces none under the   *)
(* hands of the request that works on it.                                  *)
THEOREM ConnectionsAlwaysOwned == Spec => []ConnectionsOwned
<1>1. IInv => ConnectionsOwned
  BY DEF IInv, PoolOK, RefsOK, OpenOwned, Fits, HasEntry, ConnectionsOwned, Leaving, At, Mine
<1>. QED
  BY <1>1, Invariance, PTL

(* Once every change of the credentials is answered, no connection and no  *)
(* cached preview is of older ones.                                        *)
THEOREM NothingStaysStale == Spec => []NothingStale
<1>1. ASSUME IInv, ~AnyChanging PROVE ~Forgetting /\ \A f : ~Leaving(f)
  BY <1>1 DEF AnyChanging, Changing, ChangePhases, Forgetting, Leaving, At
<1>2. ASSUME IInv, ~AnyChanging, NEW e \in Entries PROVE entry[e].client \in {Nothing, secret}
  <2>1. entry[e].client # Nothing => current = e
    BY <1>1, <1>2 DEF IInv, PoolOK, OpenOwned
  <2>. QED
    BY <1>1, <1>2, <2>1 DEF IInv, PoolOK, OpenFresh
<1>3. ASSUME IInv, ~AnyChanging, NEW p \in Requests, Holds(req[p]) PROVE req[p].conn = secret
  <2>1. ~Mine(p).retired /\ Refers(req[p])
    BY <1>3, MineOK DEF IInv, Holds, Refers, HasEntry, Fits
  <2>2. current = req[p].entry
    BY <1>1, <1>3, <2>1 DEF IInv, PoolOK, UsedOwned
  <2>. QED
    BY <1>1, <1>3, <2>2 DEF IInv, PoolOK, UsedFresh
<1>4. IInv => NothingStale
  BY <1>2, <1>3 DEF NothingStale, Holds, IInv, CacheOK
<1>. QED
  BY <1>4, Invariance, PTL
-----------------------------------------------------------------------------
(***************************************************************************)
(* The pages.  What the pages above the cursor have shown, what a request  *)
(* under way still owes, and the facts about the highest of a set of UIDs  *)
(* that this rests on.                                                     *)
(***************************************************************************)

USE PagingAssumption
-----------------------------------------------------------------------------
(* Sets of UIDs.                                                           *)

LEMMA UIDNumbers ==
    /\ \A u \in UIDs : u \in Nat /\ 0 < u /\ u <= MaxUID
    /\ \A s \in SUBSET UIDs : \A u \in s : u \in Nat /\ 0 < u /\ u <= MaxUID
BY DEF UIDs

(* They are finite, and a part of one has no more elements. *)
LEMMA UIDSets ==
    /\ \A s \in SUBSET UIDs : IsFiniteSet(s) /\ Cardinality(s) \in Nat
    /\ \A s, t \in SUBSET UIDs : s \subseteq t => Cardinality(s) <= Cardinality(t)
    /\ \A s \in SUBSET UIDs : \A u \in s : Cardinality(s \ {u}) = Cardinality(s) - 1
<1>1. IsFiniteSet(UIDs)
  BY FS_Interval DEF UIDs
<1>2. \A s \in SUBSET UIDs : IsFiniteSet(s) /\ Cardinality(s) \in Nat
  BY <1>1, FS_Subset, FS_CardinalityType
<1>. QED
  BY <1>2, FS_Subset, FS_RemoveElement

LEMMA LeastNat ==
    ASSUME NEW T, T \subseteq Nat, T # {}
    PROVE  \E n \in T : \A m \in T : n <= m
<1>. DEFINE R == OpToRel(<, Nat)
<1>1. IsWellFoundedOn(R, Nat) /\ \A m, n \in Nat : m < n => <<m, n>> \in R
  BY NatLessThanWellFounded DEF OpToRel
<1>. HIDE DEF R
<1>2. PICK n \in T : \A m \in T : ~(<<m, n>> \in R)
  BY <1>1, WFMin
<1>3. ASSUME NEW m \in T PROVE n <= m
  <2>1. n \in Nat /\ m \in Nat /\ ~(m < n)
    BY <1>1, <1>2
  <2>. QED
    BY <2>1
<1>. QED
  BY <1>3

LEMMA LowestOK ==
    ASSUME NEW s \in SUBSET UIDs, s # {}
    PROVE  Lowest(s) \in s /\ \A v \in s : Lowest(s) <= v
<1>1. s \subseteq Nat
  BY UIDNumbers
<1>2. \E u \in s : \A v \in s : u <= v
  BY <1>1, LeastNat
<1>. QED
  BY <1>2, Zenon DEF Lowest

LEMMA MaximumExists ==
    ASSUME NEW s \in SUBSET UIDs, s # {}
    PROVE  \E u \in s : \A v \in s : v <= u
<1>. DEFINE T == {MaxUID - u : u \in s}
<1>1. T \subseteq Nat /\ T # {}
  BY UIDNumbers
<1>2. PICK n \in T : \A m \in T : n <= m
  <2>. HIDE DEF T
  <2>. QED
    BY <1>1, LeastNat
<1>3. PICK u \in s : n = MaxUID - u
  BY <1>2
<1>4. \A v \in s : MaxUID - u <= MaxUID - v
  BY <1>2, <1>3
<1>5. ASSUME NEW v \in s PROVE v <= u
  <2>1. u \in Nat /\ v \in Nat /\ MaxUID - u <= MaxUID - v
    BY <1>4, UIDNumbers
  <2>. QED
    BY <2>1
<1>. QED
  BY <1>5

Above(s, u) == {v \in s : v > u}

LEMMA AboveOK ==
    ASSUME NEW s \in SUBSET UIDs, NEW n \in Nat
    PROVE  /\ Highest(s, n) = {u \in s : Cardinality(Above(s, u)) < n}
           /\ Highest(s, n) \in SUBSET UIDs
           /\ \A u \in s : Above(s, u) \in SUBSET UIDs /\ Cardinality(Above(s, u)) \in Nat
<1>1. \A u : Above(s, u) \in SUBSET UIDs
  BY DEF Above
<1>. QED
  BY <1>1, UIDSets DEF Highest, Above

(* With a UID, every higher one is among the highest. *)
LEMMA HighestUp ==
    ASSUME NEW s \in SUBSET UIDs, NEW n \in Nat, NEW u \in Highest(s, n), NEW v \in s, v >= u
    PROVE  v \in Highest(s, n)
<1>1. u \in s /\ Cardinality(Above(s, u)) < n
  BY AboveOK
<1>2. Above(s, v) \subseteq Above(s, u)
  <2>1. u \in Nat /\ v \in Nat /\ v >= u
    BY <1>1, UIDNumbers
  <2>2. \A w \in s : w > v => w > u
    BY <2>1, UIDNumbers
  <2>. QED
    BY <2>2 DEF Above
<1>3. Cardinality(Above(s, v)) <= Cardinality(Above(s, u))
  BY <1>1, <1>2, AboveOK, UIDSets
<1>. QED
  BY <1>1, <1>3, AboveOK

(* Few UIDs are all among the highest. *)
LEMMA HighestAll ==
    ASSUME NEW s \in SUBSET UIDs, NEW n \in Nat, Cardinality(s) <= n
    PROVE  Highest(s, n) = s
<1>1. ASSUME NEW u \in s PROVE Cardinality(Above(s, u)) < n
  <2>1. Above(s, u) \subseteq s \ {u} /\ s \ {u} \in SUBSET UIDs
    BY UIDNumbers DEF Above
  <2>2. Cardinality(Above(s, u)) <= Cardinality(s \ {u}) /\ Cardinality(s \ {u}) = Cardinality(s) - 1
    BY <2>1, UIDSets, AboveOK
  <2>. QED
    <3>1. Cardinality(s) \in Nat /\ Cardinality(Above(s, u)) \in Nat
      BY UIDSets, AboveOK
    <3>. QED
      BY <2>2, <3>1
<1>2. Highest(s, n) = {u \in s : Cardinality(Above(s, u)) < n}
  BY AboveOK
<1>. QED
  BY <1>1, <1>2

LEMMA HighestSome ==
    ASSUME NEW s \in SUBSET UIDs, s # {}, NEW n \in Nat \ {0}
    PROVE  Highest(s, n) # {}
<1>1. PICK u \in s : \A v \in s : v <= u
  BY MaximumExists
<1>2. Above(s, u) = {}
  BY <1>1, UIDNumbers DEF Above
<1>3. Cardinality(Above(s, u)) < n
  BY <1>2, FS_EmptySet
<1>. QED
  BY <1>3, AboveOK

(* They are no more than asked for ... *)
LEMMA HighestBound ==
    ASSUME NEW s \in SUBSET UIDs, NEW n \in Nat
    PROVE  Cardinality(Highest(s, n)) <= n
<1>. DEFINE h == Highest(s, n)
<1>1. h \in SUBSET UIDs
  BY AboveOK
<1>2. CASE h = {}
  BY <1>2, FS_EmptySet
<1>3. CASE h # {}
  <2>. DEFINE l == Lowest(h)
  <2>1. l \in h /\ \A v \in h : l <= v
    BY <1>1, <1>3, LowestOK
  <2>2. l \in s /\ Cardinality(Above(s, l)) < n
    BY <2>1, AboveOK
  <2>3. h \ {l} \subseteq Above(s, l)
    <3>. HIDE DEF h, l
    <3>1. \A v \in h \ {l} : v \in s /\ v \in Nat /\ l \in Nat /\ l <= v /\ v # l
      <4>1. h \subseteq s
        BY DEF h, Highest
      <4>. QED
        BY <4>1, <1>1, <2>1, UIDNumbers
    <3>2. \A v \in h \ {l} : v \in s /\ v > l
      BY <3>1
    <3>. QED
      BY <3>2 DEF Above
  <2>4. Cardinality(h \ {l}) <= Cardinality(Above(s, l)) /\ Cardinality(h \ {l}) = Cardinality(h) - 1
    <3>. HIDE DEF h, l
    <3>1. h \ {l} \in SUBSET UIDs /\ Above(s, l) \in SUBSET UIDs
      BY <1>1, <2>2, AboveOK
    <3>. QED
      BY <1>1, <2>1, <2>3, <3>1, UIDSets
  <2>5. Cardinality(h) \in Nat /\ Cardinality(Above(s, l)) \in Nat /\ Cardinality(h \ {l}) \in Nat
    <3>. HIDE DEF h, l
    <3>1. h \ {l} \in SUBSET UIDs
      BY <1>1
    <3>. QED
      BY <1>1, <2>2, <3>1, UIDSets, AboveOK
  <2>. HIDE DEF h, l
  <2>6. Cardinality(h) <= n
    BY <2>2, <2>4, <2>5
  <2>. QED
    BY <2>6 DEF h
<1>. QED
  BY <1>2, <1>3

(* ... and as many as that as soon as one is left out. *)
LEMMA HighestFull ==
    ASSUME NEW s \in SUBSET UIDs, NEW n \in Nat, NEW w \in s \ Highest(s, n)
    PROVE  n <= Cardinality(Highest(s, n))
<1>. DEFINE h == Highest(s, n)
<1>1. h \in SUBSET UIDs /\ s \ h \in SUBSET UIDs /\ s \ h # {}
  BY AboveOK
<1>2. PICK u \in s \ h : \A v \in s \ h : v <= u
  <2>. HIDE DEF h
  <2>. QED
    BY <1>1, MaximumExists
<1>3. Above(s, u) \subseteq h
  <2>. HIDE DEF h
  <2>1. \A v \in s : v > u => v \in h
    <3>. SUFFICES ASSUME NEW v \in s, v > u, v \notin h PROVE FALSE
      OBVIOUS
    <3>1. v <= u /\ v \in Nat /\ u \in Nat
      BY <1>2, UIDNumbers
    <3>. QED
      BY <3>1
  <2>. QED
    BY <2>1 DEF Above
<1>4. n <= Cardinality(Above(s, u)) /\ Above(s, u) \in SUBSET UIDs
  <2>1. Above(s, u) \in SUBSET UIDs /\ Cardinality(Above(s, u)) \in Nat
    BY AboveOK
  <2>2. ~(Cardinality(Above(s, u)) < n)
    BY <1>2, AboveOK
  <2>. HIDE DEF h
  <2>. QED
    BY <2>1, <2>2
<1>5. Cardinality(Above(s, u)) <= Cardinality(h)
  <2>. HIDE DEF h
  <2>. QED
    BY <1>1, <1>3, <1>4, UIDSets
<1>. HIDE DEF h
<1>6. Cardinality(Above(s, u)) \in Nat /\ Cardinality(h) \in Nat
  BY <1>1, <1>4, UIDSets
<1>7. n <= Cardinality(h)
  BY <1>4, <1>5, <1>6
<1>. QED
  BY <1>7 DEF h

(* What is left out lies below all that are kept. *)
LEMMA LeftOutBelow ==
    ASSUME NEW s \in SUBSET UIDs, NEW n \in Nat, NEW w \in s \ Highest(s, n),
           NEW u \in Highest(s, n)
    PROVE  w < u
<1>1. u \in s /\ u \in Nat /\ w \in Nat
  BY UIDNumbers DEF Highest
<1>2. ~(w >= u)
  BY HighestUp
<1>. QED
  BY <1>1, <1>2
-----------------------------------------------------------------------------
(* The invariant.                                                          *)

InReach(u) == reader.before = 0 \/ u < reader.before
Owed(u)    == u \in box /\ Wanted(u) /\ u <= top

(* Nothing below the cursor was shown yet, nothing was shown twice, and    *)
(* above the cursor nothing is missing.                                    *)
ShownOK ==
    /\ reader.phase \notin {"done", "web"} =>
         \A u \in UIDs : InReach(u) => times[u] = 0
    /\ \A u \in UIDs : times[u] <= 1
    /\ reader.before > 0 \/ reader.phase = "done" =>
         \A u \in UIDs : Owed(u) /\ u >= reader.before => times[u] = 1

(* The page is cut from `uids', and what is owed is among them or, when    *)
(* there are more than a page of them, below them all.                     *)
Covers(uids) ==
    /\ \A u \in uids : InReach(u)
    /\ \A u \in UIDs : Owed(u) /\ InReach(u) =>
         u \in uids \/ (Cardinality(uids) > Limit /\ \A v \in uids : u < v)

(* A scan goes down: it has found what it kept above what is left of it.   *)
ScanOK ==
    /\ \A u \in reader.rest \cup reader.found : InReach(u)
    /\ \A u \in reader.rest, v \in reader.found : u < v
    /\ \A u \in UIDs : Owed(u) /\ InReach(u) =>
         \/ u \in reader.rest \cup reader.found
         \/ Cardinality(reader.found) > Limit /\ \A v \in reader.found : u < v

RequestOK ==
    /\ reader.phase \in {"search", "scan"} => reader.alias
    /\ reader.phase # "scan" => reader.found = {}
    /\ reader.phase = "page" => Covers(reader.rest)
    /\ reader.phase = "scan" => ScanOK

PagingInv == PagingTypeOK /\ ShownOK /\ RequestOK

(* The parts of the local state. *)
LEMMA ReaderTyped ==
    ASSUME reader \in Reader
    PROVE  /\ reader.before \in Cursor /\ reader.before \in Nat /\ reader.alias \in BOOLEAN
           /\ reader.rest \in SUBSET UIDs /\ reader.found \in SUBSET UIDs
BY DEF Reader, Cursor

(* The reader goes on with the same page. *)
Proceeds(phase, rest, found) ==
    /\ reader' \in Reader
    /\ reader'.phase = phase /\ reader'.rest = rest /\ reader'.found = found
    /\ reader'.alias = reader.alias /\ reader'.before = reader.before

LEMMA PhaseOK ==
    ASSUME reader \in Reader, NEW phase \in PagingPhases, reader' = [reader EXCEPT !.phase = phase]
    PROVE  Proceeds(phase, reader.rest, reader.found)
BY DEF Reader, Proceeds

LEMMA RestOK ==
    ASSUME reader \in Reader, NEW phase \in PagingPhases, NEW rest \in SUBSET UIDs,
           reader' = [reader EXCEPT !.phase = phase, !.rest = rest]
    PROVE  Proceeds(phase, rest, reader.found)
<1>. DEFINE a == [reader EXCEPT !.phase = phase]
<1>1. /\ a \in Reader /\ a.phase = phase /\ a.rest = reader.rest /\ a.found = reader.found
      /\ a.alias = reader.alias /\ a.before = reader.before
  BY DEF Reader
<1>2. reader' = [a EXCEPT !.rest = rest]
  OBVIOUS
<1>. HIDE DEF a
<1>. QED
  BY <1>1, <1>2 DEF Reader, Proceeds

(* What is shown does not change with the request under way: the pages so  *)
(* far keep their promise.                                                 *)
LEMMA SamePages ==
    ASSUME PagingTypeOK, ShownOK, reader.phase \notin {"done", "web"},
           reader'.before = reader.before, reader'.alias = reader.alias,
           reader'.phase # "done",
           UNCHANGED <<mailbox, top, times>>
    PROVE  ShownOK'
BY DEF ShownOK, InReach, Owed, Wanted, mailbox

(* A page is answered from a set of UIDs that covers what is owed.         *)
LEMMA AnswerOK ==
    ASSUME PagingInv, reader.phase \in {"page", "scan"}, NEW uids \in SUBSET UIDs, Covers(uids),
           NEW shown, shown \subseteq Highest(uids, Limit),
           \A u \in Highest(uids, Limit) : u \in box => u \in shown,
           Answer(shown, NextCursor(uids)), UNCHANGED <<mailbox, top, failed>>
    PROVE  PagingInv'
<1>. DEFINE h == Highest(uids, Limit)
            next == NextCursor(uids)
            B == reader.before
<1>1. /\ reader \in Reader /\ times \in [UIDs -> 0..2] /\ box \subseteq UIDs /\ B \in Nat
      /\ uids \subseteq UIDs /\ h \in SUBSET UIDs
  <2>1. arrived \in Nat /\ arrived <= MaxUID /\ box \subseteq 1..arrived
    BY DEF PagingInv, PagingTypeOK, Cursor
  <2>2. box \subseteq UIDs
    BY <2>1 DEF UIDs
  <2>. QED
    BY <2>2, ReaderTyped, AboveOK DEF PagingInv, PagingTypeOK
<1>2. \/ Cardinality(uids) <= Limit /\ next = 0 /\ h = uids
      \/ Cardinality(uids) > Limit /\ next \in h /\ \A v \in h : next <= v
  <2>0. Cardinality(uids) \in Nat
    BY UIDSets
  <2>1. CASE Cardinality(uids) <= Limit
    BY <2>1, HighestAll DEF NextCursor
  <2>2. CASE ~(Cardinality(uids) <= Limit)
    <3>1. uids # {}
      BY <2>2, FS_EmptySet
    <3>2. h # {}
      BY <3>1, HighestSome
    <3>3. next = Lowest(h)
      BY <2>2 DEF NextCursor
    <3>. HIDE DEF h, next
    <3>. QED
      BY <1>1, <2>0, <2>2, <3>2, <3>3, LowestOK
  <2>. QED
    BY <2>1, <2>2
<1>3. next \in Cursor /\ next \in Nat /\ (next # 0 => next \in uids)
  <2>1. h \subseteq uids
    BY DEF Highest
  <2>. HIDE DEF next, h
  <2>. QED
    BY <1>1, <1>2, <2>1, UIDNumbers DEF Cursor
<1>4. /\ reader' \in Reader /\ reader'.before = next /\ reader'.alias = reader.alias
      /\ reader'.rest = {} /\ reader'.found = {}
      /\ reader'.phase = IF next = 0 THEN "done" ELSE "ask"
  <2>. DEFINE ph == IF next = 0 THEN "done" ELSE "ask"
              a == [reader EXCEPT !.phase = ph]
              b == [a EXCEPT !.before = next]
              c == [b EXCEPT !.rest = {}]
  <2>1. reader' = [c EXCEPT !.found = {}]
    BY DEF Answer
  <2>2. ph \in PagingPhases
    BY DEF PagingPhases
  <2>. HIDE DEF next, ph
  <2>3. a \in Reader /\ a.phase = ph /\ a.alias = reader.alias
    BY <1>1, <2>2 DEF Reader
  <2>. HIDE DEF a
  <2>4. b \in Reader /\ b.phase = ph /\ b.alias = reader.alias /\ b.before = next
    BY <1>3, <2>3 DEF Reader
  <2>. HIDE DEF b
  <2>5. c \in Reader /\ c.phase = ph /\ c.alias = reader.alias /\ c.before = next /\ c.rest = {}
    BY <2>4 DEF Reader
  <2>. HIDE DEF c
  <2>6. /\ reader' \in Reader /\ reader'.before = next /\ reader'.alias = reader.alias
        /\ reader'.rest = {} /\ reader'.found = {} /\ reader'.phase = ph
    BY <2>1, <2>5 DEF Reader
  <2>. QED
    BY <2>6 DEF ph
<1>5. \A u \in UIDs : times'[u] = IF u \in shown /\ times[u] < 2 THEN times[u] + 1 ELSE times[u]
  BY DEF Answer
<1>6. \A u \in shown : u \in UIDs /\ u \in uids /\ times[u] = 0
  BY <1>1, AboveOK DEF PagingInv, ShownOK, Covers, Highest
<1>7. \A u \in UIDs : times'[u] = IF u \in shown THEN 1 ELSE times[u]
  BY <1>5, <1>6
<1>8. PagingTypeOK'
  <2>1. times' \in [UIDs -> 0..2]
    <3>1. times' = [u \in UIDs |-> IF u \in shown /\ times[u] < 2 THEN times[u] + 1 ELSE times[u]]
      BY DEF Answer
    <3>2. \A u \in UIDs : (IF u \in shown /\ times[u] < 2 THEN times[u] + 1 ELSE times[u]) \in 0..2
      BY <1>1
    <3>. QED
      BY <3>1, <3>2
  <2>2. Cardinality(reader'.found) <= Limit + 1
    BY <1>4, FS_EmptySet
  <2>. QED
    BY <1>4, <2>1, <2>2 DEF PagingInv, PagingTypeOK, mailbox
<1>. HIDE DEF next, h
<1>9. \A u \in UIDs : times'[u] <= 1
  BY <1>7 DEF PagingInv, ShownOK
<1>10. reader'.phase \notin {"done", "web"} => \A u \in UIDs : InReach(u)' => times'[u] = 0
  <2>. SUFFICES ASSUME next # 0, NEW u \in UIDs, u < next PROVE times'[u] = 0
    BY <1>3, <1>4 DEF InReach
  <2>1. next \in uids /\ \A v \in h : next <= v
    BY <1>2, <1>3
  <2>2. u \in Nat /\ next \in Nat
    BY <1>3, UIDNumbers
  <2>3. u \notin shown
    BY <2>1, <2>2, UIDNumbers DEF h
  <2>4. B = 0 \/ next < B
    BY <2>1 DEF Covers, InReach
  <2>5. B = 0 \/ u < B
    BY <1>1, <2>2, <2>4
  <2>6. times[u] = 0
    BY <2>5 DEF PagingInv, ShownOK, InReach
  <2>. QED
    BY <2>3, <2>6, <1>7
<1>11. \A u \in UIDs : Owed(u)' /\ u >= next => times'[u] = 1
  <2>. SUFFICES ASSUME NEW u \in UIDs, Owed(u), u >= next PROVE times'[u] = 1
    BY <1>4 DEF Owed, Wanted, mailbox
  <2>0. u \in Nat /\ u \in box
    BY UIDNumbers DEF Owed
  <2>1. CASE InReach(u)
    <3>1. u \in uids \/ (Cardinality(uids) > Limit /\ \A v \in uids : u < v)
      BY <2>1 DEF Covers
    <3>2. u \in h
      <4>1. CASE next = 0
        <5>1. h = uids /\ ~(Cardinality(uids) > Limit)
          <6>1. next \notin UIDs /\ h \subseteq UIDs /\ Cardinality(uids) \in Nat
            BY <1>1, <4>1, UIDNumbers, UIDSets
          <6>. QED
            BY <6>1, <1>2
        <5>. QED
          BY <3>1, <5>1
      <4>2. CASE next # 0
        <5>1. next \in h /\ next \in uids /\ next \in Nat
          BY <4>2, <1>2, <1>3
        <5>2. u \in uids
          BY <2>0, <3>1, <5>1
        <5>. QED
          BY <5>1, <5>2, HighestUp DEF h
      <4>. QED
        BY <4>1, <4>2
    <3>3. u \in shown
      BY <2>0, <3>2 DEF h
    <3>. QED
      BY <3>3, <1>7
  <2>2. CASE ~InReach(u)
    <3>1. B > 0 /\ u >= B
      BY <1>1, <2>0, <2>2 DEF InReach
    <3>2. times[u] = 1
      BY <3>1 DEF PagingInv, ShownOK
    <3>. QED
      BY <3>2, <1>7
  <2>. QED
    BY <2>1, <2>2
<1>12. ShownOK'
  BY <1>4, <1>9, <1>10, <1>11 DEF ShownOK
<1>13. RequestOK'
  BY <1>4 DEF RequestOK
<1>. QED
  BY <1>8, <1>12, <1>13 DEF PagingInv
-----------------------------------------------------------------------------
(* The steps of a request.                                                 *)

(* A request under way goes on, with fewer than a page found or none. *)
LEMMA ProceedsOK ==
    ASSUME PagingInv, NEW phase \in {"search", "page", "scan"}, NEW rest, NEW found,
           reader.phase \in {"ask", "search", "scan"},
           Proceeds(phase, rest, found), Cardinality(found) <= Limit + 1,
           phase \in {"search", "scan"} => reader.alias, phase # "scan" => found = {},
           RequestOK', UNCHANGED <<mailbox, top, failed, times>>
    PROVE  PagingInv'
<1>1. PagingTypeOK'
  BY DEF PagingInv, PagingTypeOK, Proceeds, mailbox
<1>2. ShownOK'
  BY SamePages DEF PagingInv, Proceeds
<1>. QED
  BY <1>1, <1>2 DEF PagingInv

LEMMA EmptyFound == PagingInv /\ reader.phase # "scan" =>
                      reader.found = {} /\ Cardinality(reader.found) <= Limit + 1
BY DEF PagingInv, PagingTypeOK, RequestOK

LEMMA BoxOK ==
    PagingTypeOK => box \in SUBSET UIDs /\ arrived \in Nat /\ top \in Nat /\ top <= arrived
<1>. SUFFICES ASSUME PagingTypeOK
              PROVE  box \in SUBSET UIDs /\ arrived \in Nat /\ top \in Nat /\ top <= arrived
  OBVIOUS
<1>1. arrived \in Nat /\ arrived <= MaxUID /\ box \subseteq 1..arrived /\ top \in 0..arrived
  BY DEF PagingTypeOK, Cursor
<1>. QED
  BY <1>1 DEF UIDs

(* No search is under way that finds nothing more, and no scan has begun. *)
LEMMA SearchesOn ==
    ASSUME PagingInv, reader.phase = "ask", reader.alias,
           reader' = [reader EXCEPT !.phase = "search"], UNCHANGED <<mailbox, top, failed, times>>
    PROVE  PagingInv'
<1>1. Proceeds("search", reader.rest, {}) /\ Cardinality({}) <= Limit + 1
  BY PhaseOK, EmptyFound DEF PagingInv, PagingTypeOK, PagingPhases
<1>2. RequestOK'
  BY <1>1 DEF RequestOK, Proceeds
<1>. QED
  BY <1>1, <1>2, ProceedsOK

LEMMA SearchKeeps ==
    ASSUME PagingInv, Search
    PROVE  PagingInv'
<1>. DEFINE hits == {u \in box : Wanted(u)}
            rest == Eligible(hits, reader.before)
<1>1. reader.phase = "ask" /\ UNCHANGED <<mailbox, top, failed, times>>
  BY DEF Search
<1>2. CASE reader.alias /\ hits = {}
  BY <1>1, <1>2, SearchesOn DEF Search
<1>3. CASE ~(reader.alias /\ hits = {})
  <2>1. reader' = [reader EXCEPT !.phase = "page", !.rest = rest]
    BY <1>3 DEF Search
  <2>2. rest \in SUBSET UIDs
    BY BoxOK DEF PagingInv, Eligible
  <2>3. \A u : u \in rest <=> u \in box /\ Wanted(u) /\ InReach(u)
    BY DEF Eligible, InReach
  <2>. HIDE DEF rest
  <2>4. Proceeds("page", rest, {}) /\ Cardinality({}) <= Limit + 1
    BY <1>1, <2>1, <2>2, RestOK, EmptyFound DEF PagingInv, PagingTypeOK, PagingPhases
  <2>5. RequestOK'
    BY <1>1, <2>3, <2>4 DEF RequestOK, Proceeds, Covers, Owed, Wanted, InReach, mailbox
  <2>. QED
    BY <1>1, <2>4, <2>5, ProceedsOK
<1>. QED
  BY <1>2, <1>3

LEMMA SearchAllKeeps ==
    ASSUME PagingInv, SearchAll
    PROVE  PagingInv'
<1>. DEFINE rest == Eligible(box, reader.before)
<1>1. /\ reader.phase = "search" /\ UNCHANGED <<mailbox, top, failed, times>> /\ reader.alias
      /\ reader' = [reader EXCEPT !.phase = "scan", !.rest = rest]
  BY DEF SearchAll, PagingInv, RequestOK
<1>2. rest \in SUBSET UIDs
  BY BoxOK DEF PagingInv, Eligible
<1>3. \A u : u \in rest <=> u \in box /\ InReach(u)
  BY DEF Eligible, InReach
<1>. HIDE DEF rest
<1>4. Proceeds("scan", rest, {}) /\ Cardinality({}) <= Limit + 1
  BY <1>1, <1>2, RestOK, EmptyFound DEF PagingInv, PagingTypeOK, PagingPhases
<1>5. RequestOK'
  BY <1>1, <1>3, <1>4 DEF RequestOK, Proceeds, ScanOK, Owed, Wanted, InReach, mailbox
<1>. QED
  BY <1>1, <1>4, <1>5, ProceedsOK

LEMMA FetchPageKeeps ==
    ASSUME PagingInv, FetchPage
    PROVE  PagingInv'
<1>1. reader.phase = "page" /\ Covers(reader.rest) /\ reader.rest \in SUBSET UIDs
  BY ReaderTyped DEF FetchPage, PagingInv, PagingTypeOK, RequestOK
<1>. QED
  BY <1>1, AnswerOK DEF FetchPage

(* A chunk of the scan: what matches joins what was found, and what no     *)
(* longer fits on one more than a page lies below that.                    *)
LEMMA ScanChunkKeeps ==
    ASSUME PagingInv, ScanChunk
    PROVE  PagingInv'
<1>. DEFINE chunk   == Highest(reader.rest, ScanLimit)
            all     == reader.found \cup (chunk \cap box \cap mine)
            rest    == reader.rest \ chunk
            found   == Highest(all, Limit + 1)
<1>1. /\ reader.phase = "scan" /\ UNCHANGED <<mailbox, top, failed, times>> /\ reader.alias
      /\ reader' = [reader EXCEPT !.rest = rest, !.found = found]
      /\ Cardinality(reader.found) <= Limit
  <2>1. Cardinality(reader.found) \in Nat /\ ~(Cardinality(reader.found) > Limit)
    BY ReaderTyped, UIDSets DEF PagingInv, PagingTypeOK, ScanChunk, Scanned
  <2>. QED
    BY <2>1 DEF ScanChunk, PagingInv, RequestOK
<1>2. /\ chunk \subseteq reader.rest /\ reader.rest \in SUBSET UIDs /\ all \in SUBSET UIDs
      /\ rest \in SUBSET UIDs /\ found \in SUBSET UIDs /\ found \subseteq all
      /\ Cardinality(found) <= Limit + 1
  <2>1. chunk \subseteq reader.rest /\ reader.rest \in SUBSET UIDs /\ all \in SUBSET UIDs
    BY ReaderTyped DEF PagingInv, PagingTypeOK, Highest
  <2>2. found \subseteq all
    BY DEF Highest
  <2>. HIDE DEF chunk, all
  <2>. QED
    BY <2>1, <2>2, HighestBound
<1>3. \A u \in rest, v \in chunk : u < v
  BY <1>2, LeftOutBelow
<1>4. /\ \A u \in reader.rest \cup reader.found : InReach(u)
      /\ \A u \in reader.rest, v \in reader.found : u < v
      /\ \A u \in UIDs : Owed(u) /\ InReach(u) => u \in reader.rest \cup reader.found
  BY <1>1, ReaderTyped, UIDSets DEF PagingInv, PagingTypeOK, RequestOK, ScanOK
<1>5. \A u \in all \ found : Cardinality(found) > Limit /\ \A v \in found : u < v
  <2>. SUFFICES ASSUME NEW u \in all \ found
                PROVE  Cardinality(found) > Limit /\ \A v \in found : u < v
    OBVIOUS
  <2>. HIDE DEF all, rest, chunk
  <2>1. Limit + 1 <= Cardinality(found)
    BY <1>2, HighestFull
  <2>2. \A v \in found : u < v
    BY <1>2, LeftOutBelow
  <2>3. Cardinality(found) \in Nat
    BY <1>2, UIDSets
  <2>. HIDE DEF found
  <2>. QED
    BY <2>1, <2>2, <2>3
<1>6. \A u \in UIDs : Owed(u) /\ InReach(u) => u \in rest \/ u \in all
  BY <1>1, <1>4 DEF Owed, Wanted
<1>7. \A u \in all : u \in reader.found \/ u \in chunk
  OBVIOUS
<1>8. rest \subseteq reader.rest
  OBVIOUS
<1>. HIDE DEF chunk, all, rest, found
<1>9. Proceeds("scan", rest, found)
  <2>. DEFINE a == [reader EXCEPT !.rest = rest]
  <2>1. /\ a \in Reader /\ a.phase = "scan" /\ a.rest = rest
        /\ a.alias = reader.alias /\ a.before = reader.before
    BY <1>1, <1>2 DEF PagingInv, PagingTypeOK, Reader
  <2>2. reader' = [a EXCEPT !.found = found]
    BY <1>1
  <2>. HIDE DEF a
  <2>. QED
    BY <1>2, <2>1, <2>2 DEF Reader, Proceeds
<1>10. \A u \in rest \cup found : InReach(u)
  BY <1>2, <1>4, <1>7, <1>8
<1>11. \A u \in rest, v \in found : u < v
  BY <1>2, <1>3, <1>4, <1>7, <1>8
<1>12. \A u \in UIDs : Owed(u) /\ InReach(u) =>
         u \in rest \cup found \/ (Cardinality(found) > Limit /\ \A v \in found : u < v)
  BY <1>5, <1>6
<1>13. \A u : (Owed(u)' <=> Owed(u)) /\ (InReach(u)' <=> InReach(u))
  BY <1>1, <1>9 DEF Owed, Wanted, InReach, Proceeds, mailbox
<1>14. ScanOK'
  BY <1>9, <1>10, <1>11, <1>12, <1>13 DEF ScanOK, Proceeds
<1>15. RequestOK'
  BY <1>1, <1>9, <1>14 DEF RequestOK, Proceeds
<1>. QED
  BY <1>1, <1>2, <1>9, <1>15, ProceedsOK

LEMMA AnswerScanKeeps ==
    ASSUME PagingInv, NEW previews \in BOOLEAN, AnswerScan(previews)
    PROVE  PagingInv'
<1>. DEFINE uids  == reader.found
            page  == Highest(uids, Limit)
            shown == IF previews THEN page \cap box ELSE page
<1>1. /\ reader.rest = {} \/ Cardinality(uids) > Limit
      /\ Answer(shown, NextCursor(uids)) /\ UNCHANGED <<mailbox, top, failed>>
  BY DEF AnswerScan, Scanned
<1>2. uids \in SUBSET UIDs /\ ScanOK
  BY <1>1, ReaderTyped DEF AnswerScan, PagingInv, PagingTypeOK, RequestOK
<1>3. Covers(uids)
  <2>1. \A u \in uids : InReach(u)
    BY <1>2 DEF ScanOK
  <2>2. \A u \in UIDs : Owed(u) /\ InReach(u) =>
          u \in uids \/ (Cardinality(uids) > Limit /\ \A v \in uids : u < v)
    BY <1>1, <1>2 DEF ScanOK
  <2>. QED
    BY <2>1, <2>2 DEF Covers
<1>4. shown \subseteq page /\ \A u \in page : u \in box => u \in shown
  OBVIOUS
<1>5. reader.phase = "scan"
  BY DEF AnswerScan
<1>. HIDE DEF shown
<1>. QED
  BY <1>1, <1>2, <1>3, <1>4, <1>5, AnswerOK

(* A request that fails is given up or will be asked again. *)
LEMMA RequestFailsKeeps ==
    ASSUME PagingInv, NEW refused \in BOOLEAN, RequestFails(refused)
    PROVE  PagingInv'
<1>. DEFINE phase == IF refused THEN "ask" ELSE "web"
<1>1. /\ reader.phase \notin {"done", "web"}
      /\ UNCHANGED <<mailbox, top, times>> /\ failed' \in 0..MaxFailures
      /\ reader' = [reader EXCEPT !.phase = phase, !.rest = {}, !.found = {}]
  BY DEF RequestFails, PagingInv, PagingTypeOK
<1>2. Proceeds(phase, {}, {})
  <2>. DEFINE a == [reader EXCEPT !.phase = phase]
              b == [a EXCEPT !.rest = {}]
  <2>1. phase \in PagingPhases
    BY DEF PagingPhases
  <2>2. reader' = [b EXCEPT !.found = {}]
    BY <1>1
  <2>. HIDE DEF phase
  <2>3. a \in Reader /\ a.phase = phase /\ a.alias = reader.alias /\ a.before = reader.before
    BY <2>1 DEF PagingInv, PagingTypeOK, Reader
  <2>. HIDE DEF a
  <2>4. /\ b \in Reader /\ b.phase = phase /\ b.rest = {}
        /\ b.alias = reader.alias /\ b.before = reader.before
    BY <2>3 DEF Reader
  <2>. HIDE DEF b
  <2>. QED
    BY <2>2, <2>4 DEF Reader, Proceeds
<1>3. phase \in {"web", "ask"}
  OBVIOUS
<1>. HIDE DEF phase
<1>4. PagingTypeOK'
  BY <1>1, <1>2, FS_EmptySet DEF PagingInv, PagingTypeOK, Proceeds, mailbox
<1>5. ShownOK'
  BY <1>1, <1>2, <1>3, SamePages DEF PagingInv, Proceeds
<1>6. RequestOK'
  BY <1>2, <1>3 DEF RequestOK, Proceeds
<1>. QED
  BY <1>4, <1>5, <1>6 DEF PagingInv
-----------------------------------------------------------------------------
(* The mailbox.                                                            *)

(* When mail arrives or is expunged, nothing more is owed. *)
LEMMA MailboxKeeps ==
    ASSUME PagingInv, PagingTypeOK', UNCHANGED <<mine, reader, top, times>>,
           \A u \in UIDs : u \in box' /\ u <= top => u \in box
    PROVE  PagingInv'
<1>1. \A u \in UIDs : Owed(u)' => Owed(u)
  BY DEF Owed, Wanted
<1>2. ShownOK'
  BY <1>1 DEF PagingInv, ShownOK, InReach
<1>3. RequestOK'
  BY <1>1 DEF PagingInv, RequestOK, Covers, ScanOK, InReach
<1>. QED
  BY <1>2, <1>3 DEF PagingInv

LEMMA ArriveKeeps ==
    ASSUME PagingInv, MailArrives
    PROVE  PagingInv'
<1>1. /\ arrived \in Nat /\ top \in Nat /\ top <= arrived /\ box \subseteq 1..arrived
      /\ arrived < MaxUID /\ arrived' = arrived + 1 /\ box' = box \cup {arrived'}
      /\ UNCHANGED <<mine, reader, top, failed, times>>
  BY BoxOK DEF PagingInv, PagingTypeOK, MailArrives
<1>2. PagingTypeOK'
  <2>1. arrived' \in Cursor /\ top' \in 0..arrived' /\ box' \subseteq 1..arrived'
    BY <1>1 DEF Cursor
  <2>. QED
    BY <1>1, <2>1 DEF PagingInv, PagingTypeOK
<1>3. \A u \in UIDs : u \in box' /\ u <= top => u \in box
  BY <1>1, UIDNumbers
<1>. QED
  BY <1>1, <1>2, <1>3, MailboxKeeps

LEMMA ExpungeKeeps ==
    ASSUME PagingInv, NEW u \in UIDs, Expunge(u)
    PROVE  PagingInv'
<1>1. PagingTypeOK'
  BY DEF Expunge, PagingInv, PagingTypeOK
<1>. QED
  BY <1>1, MailboxKeeps DEF Expunge
-----------------------------------------------------------------------------
LEMMA PagingInitOK == PagingInit => PagingInv
<1>. SUFFICES ASSUME PagingInit PROVE PagingInv
  OBVIOUS
<1>1. PICK alias \in BOOLEAN :
        reader = [phase |-> "ask", alias |-> alias, before |-> 0, rest |-> {}, found |-> {}]
  BY DEF PagingInit
<1>2. reader \in Reader /\ Cardinality(reader.found) <= Limit + 1
  BY <1>1, FS_EmptySet DEF Reader, PagingPhases, Cursor
<1>3. top \in 0..arrived
  BY DEF PagingInit, Cursor
<1>4. PagingTypeOK
  BY <1>2, <1>3 DEF PagingInit, PagingTypeOK
<1>5. ShownOK /\ RequestOK
  BY <1>1 DEF PagingInit, ShownOK, RequestOK
<1>. QED
  BY <1>4, <1>5 DEF PagingInv

LEMMA PagingStepOK == PagingInv /\ [PagingNext]_pagingVars => PagingInv'
<1>. SUFFICES ASSUME PagingInv, [PagingNext]_pagingVars PROVE PagingInv'
  OBVIOUS
<1>1. CASE Request
  <2>1. CASE Search
    BY <2>1, SearchKeeps
  <2>2. CASE SearchFindsNothing
    BY <2>2, SearchesOn DEF SearchFindsNothing
  <2>3. CASE FetchPage
    BY <2>3, FetchPageKeeps
  <2>4. CASE SearchAll
    BY <2>4, SearchAllKeeps
  <2>5. CASE ScanChunk
    BY <2>5, ScanChunkKeeps
  <2>6. CASE \E previews \in BOOLEAN : AnswerScan(previews)
    BY <2>6, AnswerScanKeeps
  <2>. QED
    BY <1>1, <2>1, <2>2, <2>3, <2>4, <2>5, <2>6 DEF Request
<1>2. CASE \E refused \in BOOLEAN : RequestFails(refused)
  BY <1>2, RequestFailsKeeps
<1>3. CASE MailArrives
  BY <1>3, ArriveKeeps
<1>4. CASE \E u \in UIDs : Expunge(u)
  BY <1>4, ExpungeKeeps
<1>5. CASE UNCHANGED pagingVars
  BY <1>5 DEF pagingVars, mailbox, PagingInv, PagingTypeOK, ShownOK, RequestOK, Covers,
            ScanOK, InReach, Owed, Wanted
<1>. QED
  BY <1>1, <1>2, <1>3, <1>4, <1>5 DEF PagingNext

(* The parts of the invariant hold in every reachable state. *)
THEOREM PagingInvariance == PagingSpec => []PagingInv
BY PagingInitOK, PagingStepOK, PTL DEF PagingSpec

(* Every variable keeps its shape, and a scan holds at most one message    *)
(* more than a page.                                                       *)
THEOREM PagingTypeCorrect == PagingSpec => []PagingTypeOK
BY PagingInvariance, PTL DEF PagingInv

(* No message is shown twice, and none that stayed in the mailbox is left  *)
(* out between the pages, for any limits, arrivals and expunges, and       *)
(* whichever way each page was found.                                      *)
THEOREM PagesComplete == PagingSpec => []NoDuplicateNoGap
<1>1. PagingInv => NoDuplicateNoGap
  BY BoxOK DEF PagingInv, ShownOK, Owed, NoDuplicateNoGap
<1>. QED
  BY <1>1, PagingInvariance, PTL
=============================================================================
