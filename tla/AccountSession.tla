---------------------------- MODULE AccountSession ----------------------------
(***************************************************************************)
(* The iCloud session of one account and everything that replaces, uses,   *)
(* refreshes or drops it: the account operation lock and the cached HME    *)
(* client of src/internal/server/alias_operations.go, the cookie update,   *)
(* password login, account removal and reload handlers of the server, and  *)
(* the account record of src/internal/account/manager.go, in memory and in *)
(* accounts.json.                                                          *)
(*                                                                         *)
(* A session is [gen, rev]: gen grows with each set of credentials that    *)
(* somebody supplies, rev with each cookie rotation by the upstream        *)
(* service; gen 0 is an account without cookies.  A request is a process.  *)
(* Only the operation lock spans steps; the mutexes of the manager, of the *)
(* client cache and of the challenge store protect one step each.          *)
(***************************************************************************)
EXTENDS Naturals, FiniteSets

CONSTANTS
    Requests,    \* processes: requests being handled, scheduled runs
    Challenges,  \* identities of login challenges, reused once they are closed
    NoAccount, NoClient,
    MaxRequests, \* bound: requests that ever begin
    MaxGen,      \* bound: no edit of the file once as many credentials were supplied
    MaxRev       \* bound: rotations of one set of credentials

NoOne       == "no one"
NoChallenge == "no challenge"

Session == [gen : Nat, rev : Nat]

ASSUME SessionAssumption ==
    /\ NoAccount \notin Session
    /\ NoClient \notin Session
    /\ NoOne \notin Requests
    /\ NoChallenge \notin Challenges
    /\ IsFiniteSet(Challenges)
    /\ MaxRequests \in Nat /\ MaxGen \in Nat /\ MaxRev \in Nat

Older(s, t) == s.gen < t.gen \/ (s.gen = t.gen /\ s.rev < t.rev)

VARIABLES
    stored,   \* the account in memory: its session, or NoAccount
    file,     \* the same in accounts.json
    cached,   \* the session of the cached HME client, or NoClient
    lock,     \* holder of the account operation lock
    req,      \* the local state of each request
    pending,  \* the challenge store: sessions waiting for an OTP
    expired,  \* those of them whose five minutes are over
    open,     \* password login sessions that hold a client of their own
    orphans,  \* history: challenges stored when the account was already gone
    gens,     \* credentials supplied so far
    begun     \* requests begun so far

vars == <<stored, file, cached, lock, req, pending, expired, open, orphans, gens, begun>>
account == <<stored, file>>
logins  == <<pending, expired, open, orphans>>

Phases == {"idle", "queue", "operate", "save",
           "update queue", "login queue", "verify queue", "update", "login", "verify",
           "put", "drop challenges",
           "remove challenges", "remove client",
           "reload snapshot", "reload client", "reload challenges"}

ReqState == [phase     : Phases,
             failed    : BOOLEAN,   \* the operation met a confirmed session error
             found     : BOOLEAN,   \* a credential update read the account as it began
             supplied  : Session,   \* the session it will commit
             challenge : Challenges \cup {NoChallenge},
             overtaken : BOOLEAN]   \* history: a reload came in between

Idle == [phase |-> "idle", failed |-> FALSE, found |-> FALSE, supplied |-> [gen |-> 0, rev |-> 0],
         challenge |-> NoChallenge, overtaken |-> FALSE]

(* The window of a reload: memory is new, the old client may still be cached. *)
Reloading(p) == req[p].phase \in {"reload snapshot", "reload client"}
Removing(p)  == req[p].phase \in {"remove challenges", "remove client"}
AnyReloading == \E p \in Requests : Reloading(p)
TakingAway(p) == Removing(p) \/ Reloading(p) \/ req[p].phase = "reload challenges"

Init ==
    /\ stored \in {[gen |-> g, rev |-> 0] : g \in {0, 1}}
    /\ file = stored
    /\ cached = NoClient
    /\ lock = NoOne
    /\ req = [p \in Requests |-> Idle]
    /\ pending = {} /\ expired = {} /\ open = {} /\ orphans = {}
    /\ gens = 1
    /\ begun = 0

Begin(p, phase) ==
    /\ req[p].phase = "idle"
    /\ begun < MaxRequests
    /\ begun' = begun + 1
    /\ req' = [req EXCEPT ![p] = [Idle EXCEPT !.phase = phase]]

Goto(p, phase) == req' = [req EXCEPT ![p].phase = phase]
Finish(p)      == req' = [req EXCEPT ![p] = Idle]

(* Every save of the manager writes memory to the file as a whole. *)
Store(s) == stored' = s /\ file' = s
-----------------------------------------------------------------------------
(* withClient: an alias operation, from a request or an automation run.    *)

BeginOperation(p) ==
    /\ Begin(p, "queue")
    /\ UNCHANGED <<account, cached, lock, logins, gens>>

(* Broken variant: nobody asks whether the account exists. *)
EnterUnchecked(p) ==
    /\ req[p].phase = "queue"
    /\ lock = NoOne
    /\ lock' = p
    /\ cached' = IF cached = NoClient THEN stored ELSE cached
    /\ req' = [req EXCEPT ![p].phase = "operate", ![p].overtaken = AnyReloading]
    /\ UNCHANGED <<account, logins, gens, begun>>

(* clientForLocked reuses the cached client or builds one from the stored  *)
(* session; without an account or without cookies the operation fails.     *)
Enter(p) ==
    /\ req[p].phase = "queue"
    /\ lock = NoOne
    /\ IF cached = NoClient /\ (stored = NoAccount \/ stored.gen = 0)
       THEN Finish(p) /\ UNCHANGED <<lock, cached>>
       ELSE /\ lock' = p
            /\ cached' = IF cached = NoClient THEN stored ELSE cached
            /\ req' = [req EXCEPT ![p].phase = "operate", ![p].overtaken = AnyReloading]
    /\ UNCHANGED <<account, logins, gens, begun>>

(* The upstream calls, during which the service may rotate the cookies.    *)
Operate(p, rotates, failed) ==
    /\ req[p].phase = "operate"
    /\ rotates => cached.rev < MaxRev
    /\ cached' = IF rotates THEN [cached EXCEPT !.rev = @ + 1] ELSE cached
    /\ req' = [req EXCEPT ![p].phase = "save", ![p].failed = failed]
    /\ UNCHANGED <<account, lock, logins, gens, begun>>

(* Broken variant: the client is dropped by the method that takes the lock *)
(* once more.                                                              *)
SaveAndInvalidate(p) ==
    /\ req[p].phase = "save"
    /\ stored # NoAccount
    /\ Store(cached)
    /\ IF req[p].failed
       THEN Goto(p, "remove client") /\ UNCHANGED <<lock>>
       ELSE Finish(p) /\ lock' = NoOne
    /\ UNCHANGED <<cached, logins, gens, begun>>

(* The session is saved whether or not the operation succeeded; after a    *)
(* confirmed session error the client is dropped.                          *)
Save(p) ==
    /\ req[p].phase = "save"
    /\ stored # NoAccount
    /\ Store(cached)
    /\ cached' = IF req[p].failed THEN NoClient ELSE cached
    /\ Finish(p) /\ lock' = NoOne
    /\ UNCHANGED <<logins, gens, begun>>

(* The account is gone or the file cannot be written: withClient returns   *)
(* before it looks at the operation's error, and keeps the client.         *)
SaveFails(p) ==
    /\ req[p].phase = "save"
    /\ Finish(p) /\ lock' = NoOne
    /\ UNCHANGED <<account, cached, logins, gens, begun>>
-----------------------------------------------------------------------------
(* withCredentialUpdate: cookies, password and OTP.                        *)

(* A challenge leaves the store and the client of its session is closed.   *)
Discard(cs) ==
    /\ pending' = pending \ cs
    /\ expired' = expired \ cs
    /\ open' = open \ cs
    /\ orphans' = orphans \ cs

BeginUpdate(p) ==
    /\ Begin(p, "update queue")
    /\ UNCHANGED <<account, cached, lock, logins, gens>>

(* login/start first drops what an earlier start has left. *)
BeginLogin(p) ==
    /\ Begin(p, "login queue")
    /\ Discard(pending)
    /\ UNCHANGED <<account, cached, lock, gens>>

(* login/verify takes the challenge out of the store, with the expired ones. *)
Take(p, c) ==
    /\ req[p].phase = "idle" /\ begun < MaxRequests
    /\ begun' = begun + 1
    /\ IF c \in pending \ expired
       THEN /\ req' = [req EXCEPT ![p] = [Idle EXCEPT !.phase = "verify queue", !.challenge = c]]
            /\ pending' = pending \ (expired \cup {c})
       ELSE /\ UNCHANGED req
            /\ pending' = pending \ expired
    /\ open' = open \ expired
    /\ expired' = {}
    /\ orphans' = orphans \cap pending'
    /\ UNCHANGED <<account, cached, lock, gens>>

Queues == {"update queue", "login queue", "verify queue"}
AfterQueue(phase) == CASE phase = "update queue" -> "update"
                       [] phase = "login queue"  -> "login"
                       [] phase = "verify queue" -> "verify"

(* Broken variant: the cached client survives the credential update. *)
EnterUpdateKeeping(p) ==
    /\ req[p].phase \in Queues
    /\ lock = NoOne
    /\ lock' = p
    /\ gens' = gens + 1
    /\ req' = [req EXCEPT ![p].phase = AfterQueue(@),
                          ![p].found = (stored # NoAccount),
                          ![p].supplied = [gen |-> gens + 1, rev |-> 0],
                          ![p].overtaken = AnyReloading]
    /\ UNCHANGED <<account, cached, logins, begun>>

(* The lock is taken, the cached client is dropped, the account is read    *)
(* and the new session is under validation; nothing is stored yet.         *)
EnterUpdate(p) ==
    /\ req[p].phase \in Queues
    /\ lock = NoOne
    /\ lock' = p
    /\ cached' = NoClient
    /\ gens' = gens + 1
    /\ req' = [req EXCEPT ![p].phase = AfterQueue(@),
                          ![p].found = (stored # NoAccount),
                          ![p].supplied = [gen |-> gens + 1, rev |-> 0],
                          ![p].overtaken = AnyReloading]
    /\ UNCHANGED <<account, logins, begun>>

Updating(p) == req[p].phase \in {"update", "login", "verify"}

(* A verified session has given its client up: it is used once. *)
CloseOwn(p) == /\ open' = open \ {req[p].challenge}
               /\ UNCHANGED <<pending, expired, orphans>>

(* Broken variant: the new session is written without asking whether the   *)
(* account still exists.                                                   *)
CommitBlindly(p) ==
    /\ Updating(p)
    /\ req[p].found
    /\ Store(req[p].supplied)
    /\ lock' = NoOne
    /\ IF req[p].phase = "login" THEN Goto(p, "drop challenges") ELSE Finish(p)
    /\ CloseOwn(p)
    /\ UNCHANGED <<cached, gens, begun>>

(* The update is stored, if the account still exists.  UpdateCookies also  *)
(* stores cookies that turned out invalid.  A login without a second       *)
(* factor commits in its first phase.                                      *)
Commit(p) ==
    /\ Updating(p)
    /\ req[p].found
    /\ stored # NoAccount
    /\ Store(req[p].supplied)
    /\ lock' = NoOne
    /\ IF req[p].phase = "login" THEN Goto(p, "drop challenges") ELSE Finish(p)
    /\ CloseOwn(p)
    /\ UNCHANGED <<cached, gens, begun>>

(* The credentials, the validation or the save fail, or the account is gone. *)
UpdateFails(p) ==
    /\ Updating(p)
    /\ lock' = NoOne
    /\ Finish(p)
    /\ CloseOwn(p)
    /\ UNCHANGED <<account, cached, gens, begun>>

(* The password is right and the service asks for an OTP.  Whether the     *)
(* account is still there is not asked again.                              *)
NeedsOTP(p, c) ==
    /\ req[p].phase = "login"
    /\ req[p].found
    /\ c \notin open
    /\ open' = open \cup {c}
    /\ lock' = NoOne
    /\ req' = [req EXCEPT ![p].phase = "put", ![p].challenge = c]
    /\ UNCHANGED <<account, cached, pending, expired, orphans, gens, begun>>

(* What a login stores that had read the account before it was taken away. *)
Orphaned(p) == IF stored = NoAccount /\ req[p].found THEN {req[p].challenge} ELSE {}

(* Broken variant: put overwrites the map without closing what it replaces. *)
PutForgets(p) ==
    /\ req[p].phase = "put"
    /\ pending' = {req[p].challenge}
    /\ expired' = {}
    /\ orphans' = Orphaned(p)
    /\ Finish(p)
    /\ UNCHANGED <<account, cached, lock, open, gens, begun>>

(* put replaces every expired challenge and those of the same account. *)
Put(p) ==
    /\ req[p].phase = "put"
    /\ pending' = {req[p].challenge}
    /\ expired' = {}
    /\ open' = open \ pending
    /\ orphans' = Orphaned(p)
    /\ Finish(p)
    /\ UNCHANGED <<account, cached, lock, gens, begun>>

PutFails(p) ==
    /\ req[p].phase = "put"
    /\ CloseOwn(p)
    /\ Finish(p)
    /\ UNCHANGED <<account, cached, lock, gens, begun>>

(* A completed login drops other challenges; a reload drops all of them.   *)
DropChallenges(p) ==
    /\ req[p].phase \in {"drop challenges", "reload challenges"}
    /\ Discard(pending)
    /\ Finish(p)
    /\ UNCHANGED <<account, cached, lock, gens, begun>>

Expire(c) ==
    /\ c \in pending \ expired
    /\ expired' = expired \cup {c}
    /\ UNCHANGED <<account, cached, lock, req, pending, open, orphans, gens, begun>>
-----------------------------------------------------------------------------
(* DELETE /accounts/:id, POST /reload and the file.                        *)

Remove(p) ==
    /\ stored # NoAccount
    /\ Begin(p, "remove challenges")
    /\ Store(NoAccount)
    /\ UNCHANGED <<cached, lock, logins, gens>>

RemoveChallenges(p) ==
    /\ req[p].phase = "remove challenges"
    /\ Discard(pending)
    /\ Goto(p, "remove client")
    /\ UNCHANGED <<account, cached, lock, gens, begun>>

(* invalidateAccount, behind whatever operation is under way. *)
RemoveClient(p) ==
    /\ req[p].phase = "remove client"
    /\ lock = NoOne
    /\ cached' = NoClient
    /\ Finish(p)
    /\ UNCHANGED <<account, lock, logins, gens, begun>>

(* Reload takes only the manager's mutex. *)
Reload(p) ==
    /\ req[p].phase = "idle" /\ begun < MaxRequests
    /\ begun' = begun + 1
    /\ stored' = file
    /\ req' = [q \in Requests |->
                 IF q = p THEN [Idle EXCEPT !.phase = "reload snapshot"]
                 ELSE [req[q] EXCEPT !.overtaken = @ \/ lock = q]]
    /\ UNCHANGED <<file, cached, lock, logins, gens>>

(* invalidateAll lists the accounts that have a client ... *)
ReloadSnapshot(p) ==
    /\ req[p].phase = "reload snapshot"
    /\ Goto(p, IF cached = NoClient THEN "reload challenges" ELSE "reload client")
    /\ UNCHANGED <<account, cached, lock, logins, gens, begun>>

(* ... and waits for the operation lock of each. *)
ReloadClient(p) ==
    /\ req[p].phase = "reload client"
    /\ lock = NoOne
    /\ cached' = NoClient
    /\ Goto(p, "reload challenges")
    /\ UNCHANGED <<account, lock, logins, gens, begun>>

(* The operator edits accounts.json; a save for another account writes     *)
(* memory over it.                                                         *)
EditFile ==
    /\ gens < MaxGen
    /\ gens' = gens + 1
    /\ file' \in {[gen |-> gens + 1, rev |-> 0], NoAccount}
    /\ UNCHANGED <<stored, cached, lock, req, logins, begun>>

SaveElsewhere ==
    /\ file # stored
    /\ file' = stored
    /\ UNCHANGED <<stored, cached, lock, req, logins, gens, begun>>
-----------------------------------------------------------------------------
Arrive(p) ==
    \/ BeginOperation(p) \/ BeginUpdate(p) \/ BeginLogin(p)
    \/ Remove(p) \/ Reload(p)
    \/ \E c \in Challenges : Take(p, c)

Queued(p) == Enter(p) \/ EnterUpdate(p) \/ RemoveClient(p) \/ ReloadClient(p)

Proceed(p) ==
    \/ \E rotates, failed \in BOOLEAN : Operate(p, rotates, failed)
    \/ Save(p) \/ SaveFails(p)
    \/ Commit(p) \/ UpdateFails(p) \/ \E c \in Challenges : NeedsOTP(p, c)
    \/ Put(p) \/ PutFails(p) \/ DropChallenges(p)
    \/ RemoveChallenges(p) \/ ReloadSnapshot(p)

Next ==
    \/ \E p \in Requests : Arrive(p) \/ Queued(p) \/ Proceed(p)
    \/ \E c \in Challenges : Expire(c)
    \/ EditFile \/ SaveElsewhere

(* Handlers run on once they have begun and upstream calls time out; a Go  *)
(* mutex hands itself to a waiter that has been passed over.               *)
Fairness == \A p \in Requests : WF_vars(Proceed(p)) /\ SF_vars(Queued(p))

Spec == Init /\ [][Next]_vars
FairSpec == Spec /\ Fairness
-----------------------------------------------------------------------------
(* Properties.                                                             *)

TypeOK ==
    /\ stored \in Session \cup {NoAccount}
    /\ file \in Session \cup {NoAccount}
    /\ cached \in Session \cup {NoClient}
    /\ lock \in Requests \cup {NoOne}
    /\ req \in [Requests -> ReqState]
    /\ pending \in SUBSET Challenges /\ expired \in SUBSET pending /\ open \in SUBSET Challenges
    /\ orphans \in SUBSET Challenges
    /\ gens \in Nat /\ begun \in Nat

(* Between operations the cached client is never behind the stored         *)
(* session: what a login, a cookie update or a finished reload has put     *)
(* there is what the next operation uses.                                  *)
ClientNotBehind ==
    lock = NoOne /\ cached # NoClient /\ stored # NoAccount /\ ~AnyReloading
        => ~Older(cached, stored)

(* The comment on aliasOperationService: operations on one account never   *)
(* "persist stale cookies over a fresher session", nor does one of them    *)
(* persist its old session over newly committed credentials, or leave a    *)
(* client behind that would, whatever operations, updates, logins and      *)
(* removals overlap.  The exception is an operation that a reload overtook. *)
SessionNeverRegresses ==
    [][/\ ClientNotBehind'
       /\ stored # NoAccount /\ stored' # NoAccount /\ Older(stored', stored)
            => \E p \in Requests : lock = p /\ req[p].overtaken]_vars

(* Once the requests that take the account away -- removals and reloads -- *)
(* are answered, no client is left for it, no operation is under way on    *)
(* it, however many were queued for the lock at that time, and the         *)
(* challenge store holds nothing of it but `orphans`: the challenge of a   *)
(* login that had read the account before it was taken away, still asked   *)
(* the service for a code, and stores what it got although the account has *)
(* gone (its client stays open until somebody collects the challenge).     *)
RemovalComplete ==
    stored = NoAccount /\ (\A p \in Requests : ~TakingAway(p))
        => /\ cached = NoClient
           /\ \A p \in Requests : req[p].phase \notin {"operate", "save"}
           /\ pending \subseteq orphans

(* A removal is final: once it is answered nothing of the account is left  *)
(* but what RemovalComplete excepts, and no request that was under way     *)
(* brings the account back -- only a reload of the file adds one.          *)
RemovalFinal ==
    [][/\ RemovalComplete'
       /\ stored = NoAccount /\ stored' # NoAccount => \E p \in Requests : Reload(p)]_vars

(* Every open login session is either in the challenge store or in the     *)
(* hands of one request, never of two: none leaks its connection when      *)
(* starts, verifications, expiry, removal and reload overlap, and none is  *)
(* verified twice.                                                         *)
ChallengesOwned ==
    /\ \A c \in open : c \in pending \/ \E p \in Requests : req[p].challenge = c
    /\ \A p, q \in Requests : req[p].challenge = req[q].challenge /\ p # q
                                => req[p].challenge = NoChallenge
    /\ \A p \in Requests : req[p].challenge \notin pending

(* Every request is answered in the end: no handler waits for a lock that  *)
(* is never released.                                                      *)
RequestsFinish ==
    \A p \in Requests : req[p].phase # "idle" ~> req[p].phase = "idle"
=============================================================================
