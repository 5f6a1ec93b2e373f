------------------------------ MODULE InboxPool ------------------------------
(***************************************************************************)
(* Reading mail of one account: the pool of IMAP connections of            *)
(* src/internal/server/inbox_imap_session_pool.go with its idle timer, the *)
(* inbox handlers of server.go that use it and fill the preview cache, and *)
(* the requests that change the App password, remove the account or reload *)
(* the configuration and then throw connections and cached mail away.      *)
(*                                                                         *)
(* Credentials are numbered in the order in which they are supplied; 0 is  *)
(* an account without an App password or no account at all.  A connection  *)
(* is known by the credentials it was opened with, and so is a message in  *)
(* the cache.  The pool's mutex protects single steps; an entry's mutex is *)
(* held during upstream calls.                                             *)
(***************************************************************************)
EXTENDS Naturals

CONSTANTS
    Entries,     \* identities of pool entries, reused once nothing refers to them
    MaxRequests, \* bound: requests that ever begin
    MaxSecret    \* bound: credentials ever supplied

Requests == 1..MaxRequests   \* numbered as they begin
NoOne   == 0
NoEntry == "no entry"
Nothing == 0          \* no credentials, no connection, no cached message

ASSUME InboxAssumption ==
    /\ NoEntry \notin Entries
    /\ MaxRequests \in Nat /\ MaxSecret \in Nat \ {0}

VARIABLES
    secret,   \* the stored App password
    supplied, \* App passwords supplied so far
    current,  \* p.entries[account]
    entry,    \* the inboxIMAPSession values
    expiry,   \* the goroutine of each entry's timer
    req,      \* the local state of each request
    cached,   \* the cached message: whose it is and whether its body is there
    begun     \* requests begun so far

vars == <<secret, supplied, current, entry, expiry, req, cached, begun>>
store == <<secret, supplied>>

Timers == {"none", "stopped", "armed"}
EntryState == [mu      : Requests \cup {NoOne},
               client  : Nat,
               idle    : BOOLEAN,    \* lastUsed lies idleTTL or more in the past
               retired : BOOLEAN,
               timer   : Timers]
NewEntry == [mu |-> NoOne, client |-> Nothing, idle |-> FALSE, retired |-> FALSE,
             timer |-> "none"]

ReadPhases   == {"entry", "lock", "drop", "connect", "operate", "give up", "cache"}
ChangePhases == {"forget", "retire", "disconnect", "clear"}
ReqState == [phase  : {"idle"} \cup ReadPhases \cup ChangePhases,
             full   : BOOLEAN,                 \* reads one message, not a list
             entry  : Entries \cup {NoEntry},
             conn   : Nat,                     \* credentials of the connection in hand
             reused : BOOLEAN,
             retry  : BOOLEAN]                 \* retryReusedConnection
Idle == [phase |-> "idle", full |-> FALSE, entry |-> NoEntry, conn |-> Nothing,
         reused |-> FALSE, retry |-> TRUE]

Changing(p) == req[p].phase \in ChangePhases
AnyChanging == \E p \in Requests : Changing(p)

Init ==
    /\ secret = 1 /\ supplied = 1
    /\ current = NoEntry
    /\ entry = [e \in Entries |-> NewEntry]
    /\ expiry = [e \in Entries |-> "none"]
    /\ req = [p \in Requests |-> Idle]
    /\ cached = [of |-> Nothing, full |-> FALSE]
    /\ begun = 0

At(p, phase)   == req[p].phase = phase
Goto(p, phase) == req' = [req EXCEPT ![p].phase = phase]
Finish(p)      == req' = [req EXCEPT ![p] = Idle]
Mine(p)        == entry[req[p].entry]

Begin(p) == /\ At(p, "idle")
            /\ p = begun + 1
            /\ begun' = p
-----------------------------------------------------------------------------
(* Use, one round of its loop after the other.                             *)

(* listInbox always goes to the pool, getInboxMessage when its message is  *)
(* not in the cache.                                                       *)
BeginRead(p, full) ==
    /\ Begin(p)
    /\ full => ~cached.full
    /\ req' = [req EXCEPT ![p] = [Idle EXCEPT !.phase = "entry", !.full = full]]
    /\ UNCHANGED <<store, current, entry, expiry, cached>>

(* A new entry may be any identity that nothing refers to: they are alike. *)
Unreferenced(e) ==
    /\ e # current /\ expiry[e] = "none" /\ entry[e].client = Nothing
    /\ entry[e].timer # "armed"
    /\ \A p \in Requests : req[p].entry # e

EntryFor(p) ==
    /\ At(p, "entry")
    /\ IF current # NoEntry
       THEN /\ req' = [req EXCEPT ![p].phase = "lock", ![p].entry = current]
            /\ UNCHANGED <<current, entry>>
       ELSE /\ \E e \in Entries : Unreferenced(e)
            /\ LET e == CHOOSE e \in Entries : Unreferenced(e) IN
                 /\ current' = e
                 /\ entry' = [entry EXCEPT ![e] = NewEntry]
                 /\ req' = [req EXCEPT ![p].phase = "lock", ![p].entry = e]
    /\ UNCHANGED <<store, expiry, cached, begun>>

StopTimer(timer) == IF timer = "armed" THEN "stopped" ELSE timer

(* Broken variant: lastUsed keeps its value. *)
DisconnectedDated(e) == [e EXCEPT !.client = Nothing, !.timer = StopTimer(@)]

Disconnected(e) == [e EXCEPT !.client = Nothing, !.idle = FALSE, !.timer = StopTimer(@)]
Retired(e) == [Disconnected(e) EXCEPT !.retired = TRUE]

(* The entry's mutex is taken.  A retired entry is given back; an idle     *)
(* connection is closed first; without a connection the factory reads the  *)
(* stored credentials, and fails when there are none.                      *)
Lock(p) ==
    LET e == IF Mine(p).idle THEN Disconnected(Mine(p)) ELSE Mine(p) IN
    /\ At(p, "lock")
    /\ Mine(p).mu = NoOne
    /\ IF Mine(p).retired
       THEN Goto(p, "drop") /\ UNCHANGED entry
       ELSE IF e.client # Nothing
       THEN /\ entry' = [entry EXCEPT ![req[p].entry] = [e EXCEPT !.mu = p]]
            /\ req' = [req EXCEPT ![p].phase = "operate", ![p].conn = e.client,
                                  ![p].reused = TRUE]
       ELSE IF secret = Nothing
       THEN /\ entry' = [entry EXCEPT ![req[p].entry] = Retired(e)]
            /\ Goto(p, "give up")
       ELSE /\ entry' = [entry EXCEPT ![req[p].entry] = [e EXCEPT !.mu = p]]
            /\ req' = [req EXCEPT ![p].phase = "connect", ![p].conn = secret,
                                  ![p].reused = FALSE]
    /\ UNCHANGED <<store, current, expiry, cached, begun>>

(* Broken variant: whatever entry the account has now is removed. *)
RemoveAnyEntry(e) == NoEntry

(* Broken variant: a retired entry stays in the pool. *)
RemoveNoEntry(e) == current

(* removeEntry: only the entry that is expected. *)
RemoveEntry(e) == IF current = e THEN NoEntry ELSE current

(* Back to the head of the loop, or out of it after a failed connection.   *)
Drop(p) ==
    /\ req[p].phase \in {"drop", "give up"}
    /\ current' = RemoveEntry(req[p].entry)
    /\ IF At(p, "drop")
       THEN req' = [req EXCEPT ![p].phase = "entry", ![p].entry = NoEntry]
       ELSE Finish(p)
    /\ UNCHANGED <<store, entry, expiry, cached, begun>>

Connect(p) ==
    /\ At(p, "connect")
    /\ \/ /\ entry' = [entry EXCEPT ![req[p].entry].client = req[p].conn]
          /\ Goto(p, "operate")
       \/ /\ entry' = [entry EXCEPT ![req[p].entry] = [Retired(Mine(p)) EXCEPT !.mu = NoOne]]
          /\ req' = [req EXCEPT ![p].phase = "give up", ![p].conn = Nothing]
    /\ UNCHANGED <<store, current, expiry, cached, begun>>

(* Set keeps the body of a complete message. *)
SetPreview(secretOf) == IF cached.full THEN cached ELSE [of |-> secretOf, full |-> FALSE]

(* loadFirstInboxPreview runs inside the operation: a message that is not  *)
(* cached yet may be fetched, and is cached before the entry is unlocked.  *)
OperationSucceeds(p, preview) ==
    /\ At(p, "operate")
    /\ preview => ~req[p].full
    /\ entry' = [entry EXCEPT ![req[p].entry] =
                   [@ EXCEPT !.mu = NoOne, !.idle = FALSE, !.timer = "armed"]]
    /\ cached' = IF preview THEN SetPreview(req[p].conn) ELSE cached
    /\ IF req[p].full THEN req' = [req EXCEPT ![p].phase = "cache", ![p].entry = NoEntry]
       ELSE Finish(p)
    /\ UNCHANGED <<store, current, expiry, begun>>

(* A reused connection that fails is replaced, once. *)
OperationFails(p) ==
    /\ At(p, "operate")
    /\ entry' = [entry EXCEPT ![req[p].entry] = [Disconnected(@) EXCEPT !.mu = NoOne]]
    /\ IF req[p].reused /\ req[p].retry
       THEN req' = [req EXCEPT ![p] = [Idle EXCEPT !.phase = "entry", !.full = req[p].full,
                                                   !.retry = FALSE]]
       ELSE Finish(p)
    /\ UNCHANGED <<store, current, expiry, cached, begun>>

(* getInboxMessage caches the message after it has left the pool, unless   *)
(* its body is too large.                                                  *)
SetFull(p) ==
    /\ At(p, "cache")
    /\ cached' \in {cached, [of |-> req[p].conn, full |-> TRUE]}
    /\ Finish(p)
    /\ UNCHANGED <<store, current, entry, expiry, begun>>
-----------------------------------------------------------------------------
(* The idle timer.                                                         *)

GrowIdle(e) ==
    /\ entry[e].client # Nothing /\ entry[e].timer = "armed" /\ ~entry[e].idle
    /\ entry' = [entry EXCEPT ![e].idle = TRUE]
    /\ UNCHANGED <<store, current, expiry, req, cached, begun>>

(* The timer fires idleTTL after lastUsed; one that was armed again before *)
(* its entry was retired fires for nothing.  A call of expireIfIdle that is *)
(* still waiting for the mutex stands for a second one.                    *)
Fire(e) ==
    /\ entry[e].timer = "armed" /\ (entry[e].idle \/ entry[e].retired)
    /\ entry' = [entry EXCEPT ![e].timer = "stopped"]
    /\ expiry' = [expiry EXCEPT ![e] = "waiting"]
    /\ UNCHANGED <<store, current, req, cached, begun>>

(* expireIfIdle: an entry that was used in between gets the rest of its    *)
(* time; one without a connection, or idle, is retired.                    *)
Expire(e) ==
    /\ expiry[e] = "waiting" /\ entry[e].mu = NoOne
    /\ IF entry[e].retired
       THEN expiry' = [expiry EXCEPT ![e] = "none"] /\ UNCHANGED entry
       ELSE IF entry[e].client # Nothing /\ ~entry[e].idle
       THEN /\ expiry' = [expiry EXCEPT ![e] = "none"]
            /\ entry' = [entry EXCEPT ![e].timer = "armed"]
       ELSE /\ expiry' = [expiry EXCEPT ![e] = "drop"]
            /\ entry' = [entry EXCEPT ![e] = [@ EXCEPT !.retired = TRUE, !.client = Nothing,
                                                       !.idle = FALSE]]
    /\ UNCHANGED <<store, current, req, cached, begun>>

DropExpired(e) ==
    /\ expiry[e] = "drop"
    /\ expiry' = [expiry EXCEPT ![e] = "none"]
    /\ current' = RemoveEntry(e)
    /\ UNCHANGED <<store, entry, req, cached, begun>>
-----------------------------------------------------------------------------
(* Requests that change credentials: the store first, then the pool, then  *)
(* the cache.                                                              *)

(* setAppPassword stores new credentials, removeAccount removes all, and   *)
(* reloadConfig may do either or nothing.                                  *)
Change(p, new) ==
    /\ Begin(p)
    /\ new = supplied + 1 => new <= MaxSecret
    /\ secret' = new
    /\ supplied' = IF new > supplied THEN new ELSE supplied
    /\ req' = [req EXCEPT ![p] = [Idle EXCEPT !.phase = "forget"]]
    /\ UNCHANGED <<current, entry, expiry, cached>>

(* Broken variant: an entry that is in use is left to its user. *)
ForgetUnused(p) ==
    /\ At(p, "forget")
    /\ current' = NoEntry
    /\ IF current = NoEntry \/ (current # NoEntry /\ entry[current].mu # NoOne)
       THEN Goto(p, "clear")
       ELSE req' = [req EXCEPT ![p].phase = "retire", ![p].entry = current]
    /\ UNCHANGED <<store, entry, expiry, cached, begun>>

(* InvalidateAccount and Clear take the entry out of the pool ... *)
Forget(p) ==
    /\ At(p, "forget")
    /\ current' = NoEntry
    /\ IF current = NoEntry THEN Goto(p, "clear")
       ELSE req' = [req EXCEPT ![p].phase = "retire", ![p].entry = current]
    /\ UNCHANGED <<store, entry, expiry, cached, begun>>

(* ... retire it behind whoever uses it ... *)
Retire(p) ==
    /\ At(p, "retire")
    /\ Mine(p).mu = NoOne
    /\ IF Mine(p).retired
       THEN req' = [req EXCEPT ![p].phase = "clear", ![p].entry = NoEntry] /\ UNCHANGED entry
       ELSE /\ entry' = [entry EXCEPT ![req[p].entry] = Retired(@)]
            /\ req' = [req EXCEPT ![p].phase = "disconnect", ![p].entry = NoEntry,
                                  ![p].conn = Mine(p).client]
    /\ UNCHANGED <<store, current, expiry, cached, begun>>

(* ... and close its connection.  *)
Disconnect(p) ==
    /\ At(p, "disconnect")
    /\ req' = [req EXCEPT ![p].phase = "clear", ![p].conn = Nothing]
    /\ UNCHANGED <<store, current, entry, expiry, cached, begun>>

Clear(p) ==
    /\ At(p, "clear")
    /\ cached' = [of |-> Nothing, full |-> FALSE]
    /\ Finish(p)
    /\ UNCHANGED <<store, current, entry, expiry, begun>>

(* The cache forgets the message after its ten minutes, or for another one. *)
Evict ==
    /\ cached.of # Nothing
    /\ cached' = [of |-> Nothing, full |-> FALSE]
    /\ UNCHANGED <<store, current, entry, expiry, req, begun>>
-----------------------------------------------------------------------------
Arrive(p) == \/ \E full \in BOOLEAN : BeginRead(p, full)
             \/ \E new \in {Nothing, secret, supplied + 1} : Change(p, new)

Proceed(p) ==
    \/ EntryFor(p) \/ Lock(p) \/ Drop(p) \/ Connect(p)
    \/ \E preview \in BOOLEAN : OperationSucceeds(p, preview)
    \/ OperationFails(p) \/ SetFull(p)
    \/ Forget(p) \/ Retire(p) \/ Disconnect(p) \/ Clear(p)

TimerStep(e) == GrowIdle(e) \/ Fire(e) \/ Expire(e) \/ DropExpired(e)

Running == (\E p \in Requests : Proceed(p)) \/ (\E e \in Entries : TimerStep(e))

Next == (\E p \in Requests : Arrive(p)) \/ Running \/ Evict

(* Handlers and timer goroutines run on, upstream calls time out, and time *)
(* passes: as long as one of them can take a step, one of them does.       *)
Fairness == WF_vars(Running)

Spec == Init /\ [][Next]_vars
FairSpec == Spec /\ Fairness
-----------------------------------------------------------------------------
(* Properties.                                                             *)

(* An entry that is retired has no connection, and one without is not idle. *)
TypeOK ==
    /\ secret \in Nat /\ supplied \in Nat
    /\ current \in Entries \cup {NoEntry}
    /\ entry \in [Entries -> EntryState]
    /\ \A e \in Entries :
          /\ entry[e].retired => entry[e].client = Nothing
          /\ entry[e].idle => entry[e].client # Nothing
    /\ expiry \in [Entries -> {"none", "waiting", "drop"}]
    /\ req \in [Requests -> ReqState]
    /\ cached \in [of : Nat, full : BOOLEAN]
    /\ begun \in Nat

(* The pool "keeps one short-lived authenticated connection per account":  *)
(* a connection that is open is in the entry the pool knows, or an         *)
(* invalidation that took its entry out is about to close it -- none is    *)
(* orphaned by invalidations, expiry and failures that overlap -- and a    *)
(* request never works on one that was closed or replaced under its hands, *)
(* nor two requests on one ("a session is never used concurrently").       *)
ConnectionsOwned ==
    /\ \A e \in Entries :
          entry[e].client # Nothing /\ current # e =>
              \E p \in Requests : At(p, "retire") /\ req[p].entry = e
    /\ \A p \in Requests :
          At(p, "operate") => /\ Mine(p).mu = p
                              /\ Mine(p).client = req[p].conn
                              /\ ~Mine(p).retired

(* Once every credential change is answered, no connection is open, or     *)
(* being opened, with other credentials than the stored ones, and a cached *)
(* preview belongs to them: previews are cached before the entry is        *)
(* unlocked, and the change clears the cache only after it had the entry.  *)
(* Whole messages are not covered: getInboxMessage caches one after it has *)
(* left the pool, when a change of credentials may have come in between.   *)
NothingStale ==
    ~AnyChanging =>
        /\ \A e \in Entries : entry[e].client \in {Nothing, secret}
        /\ \A p \in Requests : req[p].phase \in {"connect", "operate"} => req[p].conn = secret
        /\ cached.of # Nothing /\ ~cached.full => cached.of = secret

(* Every request is answered, through retired entries and retries, and     *)
(* when requests stop coming the pool closes every connection: none loses  *)
(* the timer that bounds its idle life.                                    *)
PoolQuiesces ==
    /\ \A p \in Requests : req[p].phase # "idle" ~> req[p].phase = "idle"
    /\ <>[](\A e \in Entries : entry[e].client = Nothing)
=============================================================================
