---------------------------- MODULE PlatformAuth ----------------------------
(***************************************************************************)
(* The platform's own login: the administrator of                          *)
(* src/internal/platformauth/store.go, who is set up once and kept in a    *)
(* file and in memory, and the sessions of                                 *)
(* src/internal/server/platform_auth.go, kept in memory only.              *)
(*                                                                         *)
(* A user name and its password are one name here.  The store's mutex is   *)
(* held while the file is written; the session store's mutex protects      *)
(* single steps.  The service may crash, and start again, at any point.    *)
(***************************************************************************)
EXTENDS Naturals, FiniteSets

CONSTANTS
    Requests,    \* setup and login requests under way at a time
    Names,       \* credentials that requests present
    NoAdmin, NoOne,
    MaxSessions, \* maxPlatformSessions
    Duration,    \* platformSessionDuration
    MaxTime,     \* bound: the clock
    MaxIssued    \* bound: session tokens ever issued

ASSUME PlatformAssumption ==
    /\ NoAdmin \notin Names /\ NoOne \notin Requests
    /\ MaxSessions \in Nat \ {0} /\ Duration \in Nat \ {0}
    /\ MaxTime \in Nat /\ MaxIssued \in Nat

VARIABLES
    stored,   \* platform-auth.json
    admin,    \* username and passwordHash of the Store
    writer,   \* the request that holds the Store's mutex for writing
    sessions, \* the session store
    req,      \* the local state of each request
    now,
    issued    \* tokens issued so far

vars == <<stored, admin, writer, sessions, req, now, issued>>

MaybeAdmin == Names \cup {NoAdmin}
Session == [token : Nat, user : Names, by : Names, expires : Nat]
Phases == {"idle", "setup", "write", "memory", "issue", "insert"}
ReqState == [phase : Phases,
             by      : MaybeAdmin,   \* the credentials the request presented
             user    : MaybeAdmin,   \* platformAuth.Username() of issuePlatformSession
             expires : Nat]
Idle == [phase |-> "idle", by |-> NoAdmin, user |-> NoAdmin, expires |-> 0]

At(p, phase)   == req[p].phase = phase
Goto(p, phase) == req' = [req EXCEPT ![p].phase = phase]
Finish(p)      == req' = [req EXCEPT ![p] = Idle]

Init ==
    /\ stored \in MaybeAdmin
    /\ admin = stored
    /\ writer = NoOne
    /\ sessions = {}
    /\ req = [p \in Requests |-> Idle]
    /\ now = 0 /\ issued = 0
-----------------------------------------------------------------------------
(* The administrator.                                                      *)

Configured == admin # NoAdmin
Readable   == writer = NoOne      \* the read lock can be had

(* Broken variant: the handler's look at Configured is the only one. *)
LockSetupUnchecked(p) ==
    /\ At(p, "setup")
    /\ writer = NoOne
    /\ writer' = p
    /\ Goto(p, "write")
    /\ UNCHANGED <<stored, admin, sessions, now, issued>>

(* Broken variant: the memory is written before the file. *)
LockSetupEagerly(p) ==
    /\ At(p, "setup")
    /\ writer = NoOne
    /\ IF Configured
       THEN Finish(p) /\ UNCHANGED <<writer, admin>>
       ELSE Goto(p, "write") /\ writer' = p /\ admin' = req[p].by
    /\ UNCHANGED <<stored, sessions, now, issued>>

(* setupPlatformAuth: refused at once when there is an administrator.      *)
BeginSetup(p, n) ==
    /\ At(p, "idle")
    /\ Readable /\ ~Configured
    /\ req' = [req EXCEPT ![p] = [Idle EXCEPT !.phase = "setup", !.by = n]]
    /\ UNCHANGED <<stored, admin, writer, sessions, now, issued>>

(* Setup hashes the password before it takes the mutex, and looks again.   *)
LockSetup(p) ==
    /\ At(p, "setup")
    /\ writer = NoOne
    /\ IF Configured
       THEN Finish(p) /\ UNCHANGED writer
       ELSE Goto(p, "write") /\ writer' = p
    /\ UNCHANGED <<stored, admin, sessions, now, issued>>

(* writeFileAtomic: the rename is its last step, what fails fails before   *)
(* it and leaves the old file, or none.                                    *)
WriteFile(p) ==
    /\ At(p, "write")
    /\ stored' = req[p].by
    /\ Goto(p, "memory")
    /\ UNCHANGED <<admin, writer, sessions, now, issued>>

(* Broken variant: the failure is answered with the mutex held. *)
WriteFailsLocked(p) ==
    /\ At(p, "write")
    /\ Finish(p)
    /\ UNCHANGED <<stored, admin, writer, sessions, now, issued>>

WriteFails(p) ==
    /\ At(p, "write")
    /\ writer' = NoOne
    /\ Finish(p)
    /\ UNCHANGED <<stored, admin, sessions, now, issued>>

SetMemory(p) ==
    /\ At(p, "memory")
    /\ admin' = req[p].by
    /\ writer' = NoOne
    /\ Goto(p, "issue")
    /\ UNCHANGED <<stored, sessions, now, issued>>

(* loginPlatform, with the right credentials: the others change nothing.   *)
Login(p, n) ==
    /\ At(p, "idle")
    /\ Readable /\ Configured /\ n = admin
    /\ req' = [req EXCEPT ![p] = [Idle EXCEPT !.phase = "issue", !.by = n]]
    /\ UNCHANGED <<stored, admin, writer, sessions, now, issued>>
-----------------------------------------------------------------------------
(* The sessions.                                                           *)

(* issuePlatformSession, up to the mutex of the session store: Create      *)
(* reads the clock for the expiry before it waits.                         *)
Stamp(p) ==
    /\ At(p, "issue")
    /\ Readable
    /\ req' = [req EXCEPT ![p].phase = "insert", ![p].user = admin,
                          ![p].expires = now + Duration]
    /\ UNCHANGED <<stored, admin, writer, sessions, now, issued>>

Live(at)  == {s \in sessions : s.expires > at}             \* cleanupLocked
Oldest(S) == {s \in S : \A t \in S : s.expires <= t.expires}

(* Broken variant: room is only made above the limit. *)
RoomAbove(S) == IF Cardinality(S) > MaxSessions
                THEN {S \ {s} : s \in Oldest(S)}
                ELSE {S}

(* removeOldestLocked: among equals the order of the map decides.          *)
RoomIn(S) == IF Cardinality(S) >= MaxSessions
             THEN {S \ {s} : s \in Oldest(S)}
             ELSE {S}

Insert(p) ==
    /\ At(p, "insert")
    /\ issued < MaxIssued
    /\ issued' = issued + 1
    /\ \E S \in RoomIn(Live(now)) :
         sessions' = S \cup {[token |-> issued', user |-> req[p].user,
                              by |-> req[p].by, expires |-> req[p].expires]}
    /\ Finish(p)
    /\ UNCHANGED <<stored, admin, writer, now>>

(* Lookup, from requirePlatformAccess or platformAuthSession: the clock is *)
(* read before the mutex is taken, so the time may be an earlier one.      *)
Lookup(at) ==
    /\ sessions' = Live(at)
    /\ UNCHANGED <<stored, admin, writer, req, now, issued>>

Logout(s) ==
    /\ sessions' = sessions \ {s}
    /\ UNCHANGED <<stored, admin, writer, req, now, issued>>
-----------------------------------------------------------------------------
(* Close, or a crash, and the next start: NewStore loads what was stored.  *)
Restart ==
    /\ admin' = stored
    /\ writer' = NoOne
    /\ sessions' = {}
    /\ req' = [p \in Requests |-> Idle]
    /\ UNCHANGED <<stored, now, issued>>

Tick ==
    /\ now < MaxTime
    /\ now' = now + 1
    /\ UNCHANGED <<stored, admin, writer, sessions, req, issued>>

SetupStep(p) ==
    \/ \E n \in Names : BeginSetup(p, n)
    \/ LockSetup(p)
    \/ WriteFile(p)
    \/ WriteFails(p)
    \/ SetMemory(p)

SessionStep(p) ==
    \/ \E n \in Names : Login(p, n)
    \/ Stamp(p)
    \/ Insert(p)

Next ==
    \/ \E p \in Requests : SetupStep(p) \/ SessionStep(p)
    \/ \E at \in 0..now : Lookup(at)
    \/ \E s \in sessions : Logout(s)
    \/ Restart
    \/ Tick

Spec == Init /\ [][Next]_vars
-----------------------------------------------------------------------------
(* Every variable keeps its type, and the mutex is held by the one request *)
(* that is writing.                                                        *)
TypeOK ==
    /\ stored \in MaybeAdmin /\ admin \in MaybeAdmin
    /\ writer \in Requests \cup {NoOne}
    /\ sessions \subseteq Session /\ IsFiniteSet(sessions)
    /\ req \in [Requests -> ReqState]
    /\ now \in Nat /\ issued \in Nat
    /\ \A p \in Requests : (writer = p) <=> req[p].phase \in {"write", "memory"}

(* Whoever holds a session presented the credentials of the administrator  *)
(* that is on disk, and is listed under his name: a setup that lost the    *)
(* race, or failed to save, leaves nobody signed in.                       *)
SessionsOwned == \A s \in sessions : s.by = stored /\ s.user = stored

(* The session store never exceeds its limit, however many logins wait for *)
(* its mutex and whatever has expired meanwhile.                           *)
SessionsBounded == Cardinality(sessions) <= MaxSessions

(* The store keeps the promise of Administrator: one appointment, never    *)
(* taken back by a failed save, a second setup or a restart, and nothing   *)
(* in memory that is not on disk.                                          *)
Promise == INSTANCE Administrator WITH appointed <- stored, known <- admin
AppointedOnce == Promise!Spec
=============================================================================
