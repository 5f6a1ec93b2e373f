-------------------------- MODULE AccountSessionProofs --------------------------
(***************************************************************************)
(* Safety of AccountSession for any requests, challenges and bounds.  The  *)
(* inductive invariant says who holds the operation lock, who owns each    *)
(* login client, how the copies of the session are ordered, and what a     *)
(* removal has left.                                                       *)
(***************************************************************************)
EXTENDS AccountSession, TLAPS

(* The phases that run under the operation lock, those that have a client, *)
(* and those of a verification that has a challenge in its hands.          *)
UsesClient(p)   == req[p].phase \in {"operate", "save"}
Holds(p)        == UsesClient(p) \/ Updating(p)
HasChallenge(p) == req[p].phase \in {"verify queue", "verify", "put"}

(* The lock has the holder that the phases say; an operation has a client, *)
(* and an update has none beside the one it is about to replace.           *)
LockOK ==
    /\ \A p \in Requests : Holds(p) <=> lock = p
    /\ \A p \in Requests : UsesClient(p) => cached # NoClient
    /\ \A p \in Requests : Updating(p) => cached = NoClient

(* A challenge in the store has an open client, and so has one that a      *)
(* request has taken from the store or not yet put there.                  *)
ChallengesOK ==
    /\ pending \subseteq open
    /\ \A p \in Requests : HasChallenge(p) => req[p].challenge \in open
    /\ \A p \in Requests : ~HasChallenge(p) => req[p].challenge = NoChallenge
    /\ ChallengesOwned

(* Nothing was supplied later than the last credentials, and what an       *)
(* operator writes into the file is newer than the memory.                 *)
GensOK ==
    /\ file # NoAccount /\ stored # NoAccount => ~Older(file, stored)
    /\ stored # NoAccount => stored.gen <= gens
    /\ file # NoAccount => file.gen <= gens
    /\ cached # NoClient => cached.gen <= gens
    /\ \A p \in Requests : Updating(p) => req[p].supplied.gen <= gens

(* The client is not behind the account, even while it is used, unless a   *)
(* reload has yet to drop it; who holds the lock meanwhile is overtaken.   *)
(* What an update will commit is newer than what is stored.                *)
OrderOK ==
    /\ cached # NoClient /\ stored # NoAccount /\ ~AnyReloading => ~Older(cached, stored)
    /\ AnyReloading => \A p \in Requests : Holds(p) => req[p].overtaken
    /\ \A p \in Requests : Updating(p) /\ stored # NoAccount /\ ~req[p].overtaken
                              => stored.gen < req[p].supplied.gen

(* While an account is gone and nobody is busy dropping its client, there  *)
(* is none and nothing uses one.                                           *)
ClientGone ==
    stored = NoAccount /\ (\A p \in Requests : ~Removing(p) /\ ~Reloading(p))
        => cached = NoClient /\ \A p \in Requests : ~UsesClient(p)

SessionOK == LockOK /\ GensOK /\ OrderOK /\ ClientGone

IInv == TypeOK /\ ChallengesOK /\ SessionOK

USE SessionAssumption
-----------------------------------------------------------------------------
(* What a step of one request does to the local states.                    *)

Locals == [Requests -> ReqState]

(* The other requests stay where they are. *)
Alone(p) == req' \in Locals /\ \A q \in Requests : q # p => req'[q] = req[q]

LEMMA IdleOK == Idle \in ReqState
BY DEF Idle, ReqState, Phases, Session

(* The local state as a whole is replaced.                                 *)
LEMMA ReplacedOK ==
    ASSUME req \in Locals, NEW p \in Requests, NEW t \in ReqState, req' = [req EXCEPT ![p] = t]
    PROVE  Alone(p) /\ req'[p] = t
BY DEF Locals, Alone

(* No session is older than itself. *)
LEMMA NotOlderThanItself == \A s \in Session : ~Older(s, s)
BY DEF Session, Older

(* A request is answered.                                                  *)
LEMMA FinishOK ==
    ASSUME req \in Locals, NEW p \in Requests, Finish(p)
    PROVE  Alone(p) /\ req'[p].phase = "idle" /\ req'[p].challenge = NoChallenge
<1>1. Alone(p) /\ req'[p] = Idle
  BY IdleOK, ReplacedOK DEF Finish
<1>. QED
  BY <1>1 DEF Idle

(* A request begins.                                                       *)
LEMMA BeginOK ==
    ASSUME req \in Locals, begun \in Nat, NEW p \in Requests, NEW phase \in Phases, Begin(p, phase)
    PROVE  /\ Alone(p) /\ req'[p].phase = phase /\ req'[p].challenge = NoChallenge
           /\ req[p].phase = "idle" /\ begun' \in Nat
<1>. DEFINE t == [Idle EXCEPT !.phase = phase]
<1>1. t \in ReqState /\ t.phase = phase /\ t.challenge = NoChallenge
  BY IdleOK DEF Idle, ReqState
<1>2. req' = [req EXCEPT ![p] = t] /\ req[p].phase = "idle" /\ begun' = begun + 1
  BY DEF Begin
<1>. HIDE DEF t
<1>3. Alone(p) /\ req'[p] = t
  BY <1>1, <1>2, ReplacedOK
<1>. QED
  BY <1>1, <1>2, <1>3

(* A request goes on to another phase.                                     *)
LEMMA PhaseOK ==
    ASSUME req \in Locals, NEW p \in Requests, NEW phase \in Phases, Goto(p, phase)
    PROVE  /\ Alone(p) /\ req'[p].phase = phase
           /\ req'[p].challenge = req[p].challenge /\ req'[p].supplied = req[p].supplied
           /\ req'[p].overtaken = req[p].overtaken
<1>1. req' \in Locals /\ \A q \in Requests : q # p => req'[q] = req[q]
  BY DEF Goto, Locals, ReqState
<1>2. req'[p].phase = phase /\ req'[p].challenge = req[p].challenge
  BY DEF Goto, Locals, ReqState
<1>3. req'[p].supplied = req[p].supplied
  BY DEF Goto, Locals, ReqState
<1>4. req'[p].overtaken = req[p].overtaken
  BY DEF Goto, Locals, ReqState
<1>. QED
  BY <1>1, <1>2, <1>3, <1>4 DEF Alone

(* An operation has got the lock.                                          *)
LEMMA EnteredOK ==
    ASSUME req \in Locals, NEW p \in Requests,
           req' = [req EXCEPT ![p].phase = "operate", ![p].overtaken = AnyReloading]
    PROVE  /\ Alone(p) /\ req'[p].phase = "operate"
           /\ req'[p].challenge = req[p].challenge /\ req'[p].overtaken = AnyReloading
<1>1. AnyReloading \in BOOLEAN /\ req[p] \in ReqState
  BY Zenon DEF AnyReloading, Locals
<1>2. [req EXCEPT ![p].phase = "operate"] \in Locals
  BY DEF Locals, ReqState, Phases
<1>3. ASSUME NEW f \in Locals PROVE [f EXCEPT ![p].overtaken = AnyReloading] \in Locals
  BY <1>1 DEF Locals, ReqState
<1>4. req' \in Locals
  BY <1>2, <1>3, Zenon
<1>5. \A q \in Requests : q # p => req'[q] = req[q]
  BY DEF Locals
<1>6. req'[p].phase = "operate" /\ req'[p].challenge = req[p].challenge
  BY <1>1 DEF Locals, ReqState
<1>7. req'[p].overtaken = AnyReloading
  BY <1>1 DEF Locals, ReqState
<1>. QED
  BY <1>4, <1>5, <1>6, <1>7, Zenon DEF Alone

(* The calls of an operation are over.                                     *)
LEMMA OperatedOK ==
    ASSUME req \in Locals, NEW p \in Requests, NEW failed \in BOOLEAN,
           req' = [req EXCEPT ![p].phase = "save", ![p].failed = failed]
    PROVE  /\ Alone(p) /\ req'[p].phase = "save"
           /\ req'[p].challenge = req[p].challenge /\ req'[p].overtaken = req[p].overtaken
BY DEF Locals, ReqState, Phases, Alone

(* A credential update has got the lock.                                   *)
LEMMA UpdateEnteredOK ==
    ASSUME req \in Locals, gens \in Nat, NEW p \in Requests, EnterUpdate(p)
    PROVE  /\ Alone(p) /\ req'[p].phase = AfterQueue(req[p].phase)
           /\ req'[p].challenge = req[p].challenge
           /\ req'[p].supplied = [gen |-> gens + 1, rev |-> 0]
           /\ req'[p].overtaken = AnyReloading
<1>1. AnyReloading \in BOOLEAN /\ req[p] \in ReqState
  BY DEF AnyReloading, Locals
<1>2. [gen |-> gens + 1, rev |-> 0] \in Session
  BY DEF Session
<1>3. AfterQueue(req[p].phase) \in Phases
  BY DEF EnterUpdate, Queues, AfterQueue, Phases
<1>4. [req EXCEPT ![p].phase = AfterQueue(@)] \in Locals
  BY <1>3 DEF Locals, ReqState
<1>5. ASSUME NEW f \in Locals PROVE [f EXCEPT ![p].supplied = [gen |-> gens + 1, rev |-> 0]] \in Locals
  BY <1>2 DEF Locals, ReqState
<1>6. ASSUME NEW f \in Locals PROVE [f EXCEPT ![p].overtaken = AnyReloading] \in Locals
  BY <1>1 DEF Locals, ReqState
<1>12. ASSUME NEW f \in Locals PROVE [f EXCEPT ![p].found = (stored # NoAccount)] \in Locals
  BY DEF Locals, ReqState
<1>7. req' \in Locals
  BY <1>4, <1>5, <1>6, <1>12, Zenon DEF EnterUpdate
<1>8. \A q \in Requests : q # p => req'[q] = req[q]
  BY DEF EnterUpdate, Locals
<1>9. req'[p].phase = AfterQueue(req[p].phase) /\ req'[p].challenge = req[p].challenge
  BY <1>1 DEF EnterUpdate, Locals, ReqState
<1>10. req'[p].supplied = [gen |-> gens + 1, rev |-> 0]
  BY <1>1 DEF EnterUpdate, Locals, ReqState
<1>11. req'[p].overtaken = AnyReloading
  BY <1>1 DEF EnterUpdate, Locals, ReqState
<1>. QED
  BY <1>7, <1>8, <1>9, <1>10, <1>11, Zenon DEF Alone

(* A verification has taken its challenge.                                 *)
LEMMA TakenOK ==
    ASSUME req \in Locals, NEW p \in Requests, NEW c \in Challenges,
           req' = [req EXCEPT ![p] = [Idle EXCEPT !.phase = "verify queue", !.challenge = c]]
    PROVE  Alone(p) /\ req'[p].phase = "verify queue" /\ req'[p].challenge = c
<1>. DEFINE t == [Idle EXCEPT !.phase = "verify queue", !.challenge = c]
<1>1. t \in ReqState /\ t.phase = "verify queue" /\ t.challenge = c
  BY IdleOK DEF Idle, ReqState, Phases
<1>. QED
  BY <1>1, ReplacedOK

(* The service asks for an OTP.                                            *)
LEMMA AskedOK ==
    ASSUME req \in Locals, NEW p \in Requests, NEW c \in Challenges,
           req' = [req EXCEPT ![p].phase = "put", ![p].challenge = c]
    PROVE  Alone(p) /\ req'[p].phase = "put" /\ req'[p].challenge = c /\ req'[p].found = req[p].found
BY DEF Locals, ReqState, Phases, Alone

(* A reload marks who holds the lock.                                      *)
LEMMA ReloadOK ==
    ASSUME req \in Locals, NEW p \in Requests, Reload(p)
    PROVE  /\ req' \in Locals /\ req[p].phase = "idle"
           /\ req'[p].phase = "reload snapshot" /\ req'[p].challenge = NoChallenge
           /\ \A q \in Requests : q # p =>
                /\ req'[q].phase = req[q].phase /\ req'[q].challenge = req[q].challenge
                /\ req'[q].supplied = req[q].supplied /\ req'[q].found = req[q].found
                /\ req'[q].overtaken = (req[q].overtaken \/ lock = q)
<1>. DEFINE t == [Idle EXCEPT !.phase = "reload snapshot"]
            r(q) == [req[q] EXCEPT !.overtaken = @ \/ lock = q]
<1>1. t \in ReqState /\ t.phase = "reload snapshot" /\ t.challenge = NoChallenge
  BY IdleOK DEF Idle, ReqState, Phases
<1>2. ASSUME NEW q \in Requests
      PROVE  /\ r(q) \in ReqState
             /\ r(q).phase = req[q].phase /\ r(q).challenge = req[q].challenge
             /\ r(q).supplied = req[q].supplied /\ r(q).found = req[q].found
             /\ r(q).overtaken = (req[q].overtaken \/ lock = q)
  BY DEF Locals, ReqState
<1>3. req' = [q \in Requests |-> IF q = p THEN t ELSE r(q)] /\ req[p].phase = "idle"
  BY DEF Reload
<1>. HIDE DEF t, r
<1>. QED
  BY <1>1, <1>2, <1>3 DEF Locals
-----------------------------------------------------------------------------
(* What the parts of the invariant do not see.                             *)

USE DEF UsesClient, Updating, Holds, Removing, Reloading, AnyReloading

Elsewhere == Phases \ {"operate", "save", "update", "login", "verify"}

(* The session is safe from the steps of a request outside the lock.       *)
LEMMA SessionKept ==
    ASSUME SessionOK, UNCHANGED <<account, cached, lock, gens>>,
           NEW p \in Requests, Alone(p),
           req[p].phase \in Elsewhere, req'[p].phase \in Elsewhere,
           Removing(p)' <=> Removing(p), Reloading(p)' <=> Reloading(p)
    PROVE  SessionOK'
<1>. USE DEF Elsewhere, Alone, account
<1>1. /\ AnyReloading' <=> AnyReloading
      /\ \A q \in Requests : /\ UsesClient(q)' <=> UsesClient(q)
                             /\ Updating(q)' <=> Updating(q)
                             /\ Holds(q) => req'[q] = req[q]
  OBVIOUS
<1>2. LockOK'
  BY <1>1 DEF SessionOK, LockOK
<1>3. GensOK'
  BY <1>1 DEF SessionOK, GensOK
<1>4. OrderOK'
  BY <1>1 DEF SessionOK, OrderOK
<1>5. ClientGone'
  BY <1>1 DEF SessionOK, ClientGone
<1>. QED
  BY <1>2, <1>3, <1>4, <1>5 DEF SessionOK

(* The challenges are safe from the steps that touch none.                 *)
LEMMA ChallengesKept ==
    ASSUME ChallengesOK, UNCHANGED <<pending, open>>,
           \A q \in Requests : /\ req'[q].challenge = req[q].challenge
                               /\ HasChallenge(q)' <=> HasChallenge(q)
    PROVE  ChallengesOK'
<1>1. pending' \subseteq open'
  BY DEF ChallengesOK
<1>2. ASSUME NEW q \in Requests
      PROVE  /\ HasChallenge(q)' => req'[q].challenge \in open'
             /\ ~HasChallenge(q)' => req'[q].challenge = NoChallenge
             /\ req'[q].challenge \notin pending'
  BY DEF ChallengesOK, ChallengesOwned
<1>3. ASSUME NEW c \in open', c \notin pending' PROVE \E q \in Requests : req'[q].challenge = c
  BY <1>3 DEF ChallengesOK, ChallengesOwned
<1>4. ASSUME NEW q \in Requests, NEW r \in Requests, req'[q].challenge = req'[r].challenge, q # r
      PROVE  req'[q].challenge = NoChallenge
  BY <1>4 DEF ChallengesOK, ChallengesOwned
<1>. QED
  BY <1>1, <1>2, <1>3, <1>4 DEF ChallengesOK, ChallengesOwned

(* The same for a step of one request. *)
LEMMA ChallengesAlone ==
    ASSUME ChallengesOK, UNCHANGED <<pending, open>>, NEW p \in Requests, Alone(p),
           ~HasChallenge(p), ~HasChallenge(p)', req'[p].challenge \in {NoChallenge, req[p].challenge}
    PROVE  ChallengesOK'
<1>1. req[p].challenge = NoChallenge
  BY DEF ChallengesOK
<1>2. \A q \in Requests : /\ req'[q].challenge = req[q].challenge
                          /\ HasChallenge(q)' <=> HasChallenge(q)
  BY <1>1 DEF Alone, HasChallenge
<1>. QED
  BY <1>2, ChallengesKept

(* Challenges are discarded: out of the store, and closed. *)
LEMMA DiscardOK ==
    ASSUME TypeOK, ChallengesOK, Discard(pending), NEW p \in Requests, Alone(p),
           ~HasChallenge(p), ~HasChallenge(p)', req'[p].challenge \in {NoChallenge, req[p].challenge}
    PROVE  ChallengesOK' /\ pending' = {} /\ expired' = {} /\ open' \in SUBSET Challenges
<1>1. pending' = {} /\ expired' = {} /\ open' = open \ pending /\ open' \in SUBSET Challenges
  BY DEF Discard, TypeOK
<1>2. \A q \in Requests : /\ req'[q].challenge = req[q].challenge
                          /\ HasChallenge(q)' <=> HasChallenge(q)
  BY DEF Alone, ChallengesOK, HasChallenge
<1>3. \A q \in Requests : HasChallenge(q) => req[q].challenge \in open'
  BY <1>1 DEF ChallengesOK, ChallengesOwned
<1>4. ASSUME NEW c \in open' PROVE \E q \in Requests : req'[q].challenge = c
  BY <1>1, <1>2, <1>4 DEF ChallengesOK, ChallengesOwned
<1>5. ASSUME NEW q \in Requests, NEW r \in Requests, req'[q].challenge = req'[r].challenge, q # r
      PROVE  req'[q].challenge = NoChallenge
  BY <1>2, <1>5 DEF ChallengesOK, ChallengesOwned
<1>6. ASSUME NEW q \in Requests
      PROVE  /\ HasChallenge(q)' => req'[q].challenge \in open'
             /\ ~HasChallenge(q)' => req'[q].challenge = NoChallenge
  BY <1>2, <1>3 DEF ChallengesOK
<1>. QED
  BY <1>1, <1>4, <1>5, <1>6 DEF ChallengesOK, ChallengesOwned

(* A request closes the client of its own login session, if it has one.    *)
LEMMA CloseOwnOK ==
    ASSUME TypeOK, ChallengesOK, NEW p \in Requests, Alone(p), CloseOwn(p),
           ~HasChallenge(p)', req'[p].challenge = NoChallenge
    PROVE  ChallengesOK' /\ open' \in SUBSET Challenges
<1>1. open' = open \ {req[p].challenge} /\ pending' = pending /\ open' \in SUBSET Challenges
  BY DEF CloseOwn, TypeOK
<1>2. \A q \in Requests : q # p => req'[q] = req[q]
  BY DEF Alone
<1>3. ASSUME NEW q \in Requests, q # p, HasChallenge(q) PROVE req[q].challenge \in open'
  <2>1. req[q].challenge \in open /\ req[q].challenge # NoChallenge
    BY <1>3 DEF ChallengesOK, TypeOK
  <2>2. req[q].challenge # req[p].challenge
    BY <1>3, <2>1 DEF ChallengesOK, ChallengesOwned
  <2>. QED
    BY <1>1, <2>1, <2>2
<1>4. pending' \subseteq open'
  BY <1>1 DEF ChallengesOK, ChallengesOwned
<1>5. ASSUME NEW q \in Requests
      PROVE  /\ HasChallenge(q)' => req'[q].challenge \in open'
             /\ ~HasChallenge(q)' => req'[q].challenge = NoChallenge
             /\ req'[q].challenge \notin pending'
  <2>1. CASE q = p
    BY <1>1, <2>1 DEF TypeOK
  <2>2. CASE q # p
    <3>1. req'[q] = req[q] /\ (HasChallenge(q)' <=> HasChallenge(q))
      BY <1>2, <2>2 DEF HasChallenge
    <3>. QED
      BY <1>1, <1>3, <2>2, <3>1 DEF ChallengesOK, ChallengesOwned
  <2>. QED
    BY <2>1, <2>2
<1>6. ASSUME NEW c \in open', c \notin pending' PROVE \E q \in Requests : req'[q].challenge = c
  <2>1. PICK q \in Requests : req[q].challenge = c
    BY <1>1, <1>6 DEF ChallengesOK, ChallengesOwned
  <2>2. q # p
    BY <1>1, <1>6, <2>1
  <2>. QED
    BY <1>2, <2>1, <2>2
<1>7. ASSUME NEW q \in Requests, NEW r \in Requests, req'[q].challenge = req'[r].challenge, q # r
      PROVE  req'[q].challenge = NoChallenge
  BY <1>2, <1>7 DEF ChallengesOK, ChallengesOwned
<1>8. ChallengesOwned'
  BY <1>5, <1>6, <1>7 DEF ChallengesOwned
<1>. QED
  BY <1>1, <1>4, <1>5, <1>8 DEF ChallengesOK
-----------------------------------------------------------------------------
(* Steps outside the operation lock.                                       *)

(* A request that only begins. *)
LEMMA ArrivalKeeps ==
    ASSUME IInv, NEW p \in Requests, BeginOperation(p) \/ BeginUpdate(p)
    PROVE  IInv'
<1>1. PICK phase \in {"queue", "update queue"} : Begin(p, phase)
  BY DEF BeginOperation, BeginUpdate
<1>2. UNCHANGED <<account, cached, lock, logins, gens>>
  BY DEF BeginOperation, BeginUpdate
<1>3. /\ Alone(p) /\ req'[p].phase = phase /\ req'[p].challenge = NoChallenge
      /\ req[p].phase = "idle" /\ begun' \in Nat
  BY <1>1, BeginOK DEF IInv, TypeOK, Locals, Phases
<1>4. TypeOK'
  BY <1>2, <1>3 DEF IInv, TypeOK, Alone, Locals, account, logins
<1>5. ChallengesOK'
  BY <1>2, <1>3, ChallengesAlone DEF IInv, HasChallenge, logins
<1>6. SessionOK'
  BY <1>2, <1>3, SessionKept DEF IInv, Elsewhere, Phases
<1>. QED
  BY <1>4, <1>5, <1>6 DEF IInv

(* A login begins: it discards what is in the store.                       *)
LEMMA BeginLoginKeeps ==
    ASSUME IInv, NEW p \in Requests, BeginLogin(p)
    PROVE  IInv'
<1>1. /\ Alone(p) /\ req'[p].phase = "login queue" /\ req'[p].challenge = NoChallenge
      /\ req[p].phase = "idle" /\ begun' \in Nat
  BY BeginOK DEF BeginLogin, IInv, TypeOK, Locals, Phases
<1>2. UNCHANGED <<account, cached, lock, gens>> /\ Discard(pending)
  BY DEF BeginLogin
<1>3. ChallengesOK' /\ pending' = {} /\ expired' = {} /\ open' \in SUBSET Challenges
  BY <1>1, <1>2, DiscardOK DEF IInv, HasChallenge
<1>4. TypeOK'
  BY <1>1, <1>2, <1>3 DEF IInv, TypeOK, Alone, Locals, account, Discard
<1>5. SessionOK'
  BY <1>1, <1>2, SessionKept DEF IInv, Elsewhere, Phases
<1>. QED
  BY <1>3, <1>4, <1>5 DEF IInv

(* Challenges are dropped at the end of a login and of a reload, and by a  *)
(* removal.                                                                *)
LEMMA DropKeeps ==
    ASSUME IInv, NEW p \in Requests, DropChallenges(p) \/ RemoveChallenges(p)
    PROVE  IInv'
<1>1. /\ Alone(p) /\ req'[p].challenge \in {NoChallenge, req[p].challenge}
      /\ \/ req[p].phase \in {"drop challenges", "reload challenges"} /\ req'[p].phase = "idle"
         \/ req[p].phase = "remove challenges" /\ req'[p].phase = "remove client"
  BY FinishOK, PhaseOK DEF DropChallenges, RemoveChallenges, IInv, TypeOK, Locals, Phases
<1>2. UNCHANGED <<account, cached, lock, gens, begun>> /\ Discard(pending)
  BY DEF DropChallenges, RemoveChallenges
<1>3. ChallengesOK' /\ pending' = {} /\ expired' = {} /\ open' \in SUBSET Challenges
  BY <1>1, <1>2, DiscardOK DEF IInv, HasChallenge
<1>4. TypeOK'
  BY <1>1, <1>2, <1>3 DEF IInv, TypeOK, Alone, Locals, account, Discard
<1>5. SessionOK'
  BY <1>1, <1>2, SessionKept DEF IInv, Elsewhere, Phases
<1>. QED
  BY <1>3, <1>4, <1>5 DEF IInv

(* put: the store holds the new challenge only, and the clients of those   *)
(* it held are closed.                                                     *)
LEMMA PutKeeps ==
    ASSUME IInv, NEW p \in Requests, Put(p)
    PROVE  IInv'
<1>1. /\ Alone(p) /\ req[p].phase = "put" /\ req'[p].phase = "idle" /\ req'[p].challenge = NoChallenge
  BY FinishOK DEF Put, IInv, TypeOK, Locals
<1>2. /\ UNCHANGED <<account, cached, lock, gens, begun>>
      /\ pending' = {req[p].challenge} /\ expired' = {} /\ open' = open \ pending
      /\ orphans' \subseteq pending'
  BY DEF Put, Orphaned
<1>3. req[p].challenge \in open' /\ open' \in SUBSET Challenges
  BY <1>1, <1>2 DEF IInv, ChallengesOK, ChallengesOwned, TypeOK, HasChallenge
<1>4. TypeOK'
  BY <1>1, <1>2, <1>3 DEF IInv, TypeOK, Alone, Locals, account
<1>5. ASSUME NEW q \in Requests
      PROVE  /\ HasChallenge(q)' => req'[q].challenge \in open'
             /\ ~HasChallenge(q)' => req'[q].challenge = NoChallenge
             /\ req'[q].challenge \notin pending'
  <2>1. CASE q = p
    BY <1>1, <1>2, <1>3, <2>1 DEF HasChallenge
  <2>2. CASE q # p
    <3>1. req'[q] = req[q] /\ (HasChallenge(q)' <=> HasChallenge(q))
      BY <1>1, <2>2 DEF Alone, HasChallenge
    <3>2. req[q].challenge \notin pending
      BY DEF IInv, ChallengesOK, ChallengesOwned
    <3>3. req[q].challenge # req[p].challenge
      BY <1>3, <2>2 DEF IInv, ChallengesOK, ChallengesOwned
    <3>. QED
      BY <1>2, <3>1, <3>2, <3>3 DEF IInv, ChallengesOK
  <2>. QED
    BY <2>1, <2>2
<1>6. ASSUME NEW c \in open', c \notin pending' PROVE \E q \in Requests : req'[q].challenge = c
  <2>1. PICK q \in Requests : req[q].challenge = c
    BY <1>2, <1>6 DEF IInv, ChallengesOK, ChallengesOwned
  <2>2. q # p
    BY <1>2, <1>6, <2>1
  <2>. QED
    BY <1>1, <2>1, <2>2 DEF Alone
<1>7. ASSUME NEW q \in Requests, NEW r \in Requests, req'[q].challenge = req'[r].challenge, q # r
      PROVE  req'[q].challenge = NoChallenge
  BY <1>1, <1>7 DEF IInv, ChallengesOK, ChallengesOwned, Alone
<1>8. ChallengesOwned'
  BY <1>5, <1>6, <1>7 DEF ChallengesOwned
<1>9. ChallengesOK'
  BY <1>2, <1>3, <1>5, <1>8 DEF ChallengesOK
<1>10. SessionOK'
  BY <1>1, <1>2, SessionKept DEF IInv, Elsewhere, Phases
<1>. QED
  BY <1>4, <1>9, <1>10 DEF IInv

(* put fails: the new client is closed.                                    *)
LEMMA PutFailsKeeps ==
    ASSUME IInv, NEW p \in Requests, PutFails(p)
    PROVE  IInv'
<1>1. /\ Alone(p) /\ req[p].phase = "put" /\ req'[p].phase = "idle" /\ req'[p].challenge = NoChallenge
  BY FinishOK DEF PutFails, IInv, TypeOK, Locals
<1>2. UNCHANGED <<account, cached, lock, gens, begun>> /\ CloseOwn(p)
  BY DEF PutFails
<1>3. ChallengesOK' /\ open' \in SUBSET Challenges
  BY <1>1, <1>2, CloseOwnOK DEF IInv, HasChallenge
<1>4. TypeOK'
  BY <1>1, <1>2, <1>3 DEF IInv, TypeOK, Alone, Locals, account, CloseOwn
<1>5. SessionOK'
  BY <1>1, <1>2, SessionKept DEF IInv, Elsewhere, Phases
<1>. QED
  BY <1>3, <1>4, <1>5 DEF IInv

(* The clock touches no client.                                            *)
LEMMA ExpireKeeps ==
    ASSUME IInv, NEW c \in Challenges, Expire(c)
    PROVE  IInv'
<1>1. UNCHANGED <<account, cached, lock, req, pending, open, orphans, gens, begun>> /\ expired' = expired \cup {c}
      /\ c \in pending
  BY DEF Expire
<1>2. TypeOK'
  BY <1>1 DEF IInv, TypeOK, account
<1>3. ChallengesOK'
  BY <1>1 DEF IInv, ChallengesOK, ChallengesOwned, HasChallenge
<1>4. LockOK' /\ GensOK' /\ OrderOK' /\ ClientGone'
  BY <1>1 DEF IInv, SessionOK, LockOK, GensOK, OrderOK, ClientGone, account
<1>. QED
  BY <1>2, <1>3, <1>4 DEF IInv, SessionOK

(* A verification takes a challenge that has not expired, or nothing; the  *)
(* expired ones are closed.                                                *)
LEMMA TakeKeeps ==
    ASSUME IInv, NEW p \in Requests, NEW c \in Challenges, Take(p, c)
    PROVE  IInv'
<1>1. CASE c \in pending \ expired
  <2>1. /\ Alone(p) /\ req[p].phase = "idle"
        /\ req'[p].phase = "verify queue" /\ req'[p].challenge = c
    BY <1>1, TakenOK DEF Take, IInv, TypeOK, Locals
  <2>2. /\ UNCHANGED <<account, cached, lock, gens>> /\ begun' \in Nat
        /\ pending' = pending \ (expired \cup {c}) /\ open' = open \ expired /\ expired' = {}
        /\ orphans' = orphans \cap pending'
    BY <1>1 DEF Take, IInv, TypeOK
  <2>3. TypeOK'
    BY <2>1, <2>2 DEF IInv, TypeOK, Alone, Locals, account
  <2>4. c \in open' /\ expired \subseteq pending /\ pending' \subseteq open'
    BY <1>1, <2>2 DEF IInv, TypeOK, ChallengesOK
  <2>5. ASSUME NEW q \in Requests
        PROVE  /\ HasChallenge(q)' => req'[q].challenge \in open'
               /\ ~HasChallenge(q)' => req'[q].challenge = NoChallenge
               /\ req'[q].challenge \notin pending'
    <3>1. CASE q = p
      BY <2>1, <2>2, <2>4, <3>1 DEF HasChallenge
    <3>2. CASE q # p
      <4>1. req'[q] = req[q] /\ (HasChallenge(q)' <=> HasChallenge(q))
        BY <2>1, <3>2 DEF Alone, HasChallenge
      <4>2. req[q].challenge \notin pending
        BY DEF IInv, ChallengesOK, ChallengesOwned
      <4>. QED
        BY <2>2, <2>4, <4>1, <4>2 DEF IInv, ChallengesOK
    <3>. QED
      BY <3>1, <3>2
  <2>6. ASSUME NEW d \in open', d \notin pending' PROVE \E q \in Requests : req'[q].challenge = d
    <3>1. CASE d = c
      BY <2>1, <3>1
    <3>2. CASE d # c
      <4>1. PICK q \in Requests : req[q].challenge = d
        BY <2>2, <2>6, <3>2 DEF IInv, ChallengesOK, ChallengesOwned
      <4>2. req[p].challenge = NoChallenge /\ d # NoChallenge
        BY <2>1, <2>2, <2>6 DEF IInv, ChallengesOK, HasChallenge, TypeOK
      <4>. QED
        BY <2>1, <4>1, <4>2 DEF Alone
    <3>. QED
      BY <3>1, <3>2
  <2>7. ASSUME NEW q \in Requests, NEW r \in Requests, req'[q].challenge = req'[r].challenge, q # r
        PROVE  req'[q].challenge = NoChallenge
    <3>1. \A s \in Requests : req[s].challenge # c
      BY <1>1 DEF IInv, ChallengesOK, ChallengesOwned
    <3>2. q # p /\ r # p
      BY <2>1, <2>7, <3>1 DEF Alone
    <3>3. req'[q] = req[q] /\ req'[r] = req[r]
      BY <2>1, <3>2 DEF Alone
    <3>. QED
      BY <2>7, <3>3 DEF IInv, ChallengesOK, ChallengesOwned
  <2>8. ChallengesOwned'
    BY <2>5, <2>6, <2>7 DEF ChallengesOwned
  <2>9. ChallengesOK'
    BY <2>4, <2>5, <2>8 DEF ChallengesOK
  <2>10. SessionOK'
    BY <2>1, <2>2, SessionKept DEF IInv, Elsewhere, Phases
  <2>. QED
    BY <2>3, <2>9, <2>10 DEF IInv
<1>2. CASE c \notin pending \ expired
  <2>1. /\ UNCHANGED <<account, cached, lock, gens, req>> /\ begun' \in Nat
        /\ pending' = pending \ expired /\ open' = open \ expired /\ expired' = {}
        /\ orphans' = orphans \cap pending'
    BY <1>2 DEF Take, IInv, TypeOK
  <2>2. TypeOK'
    BY <2>1 DEF IInv, TypeOK, account
  <2>3. pending' \subseteq open'
    BY <2>1 DEF IInv, ChallengesOK
  <2>4. ASSUME NEW q \in Requests
        PROVE  /\ HasChallenge(q)' => req'[q].challenge \in open'
               /\ ~HasChallenge(q)' => req'[q].challenge = NoChallenge
               /\ req'[q].challenge \notin pending'
    BY <2>1 DEF IInv, TypeOK, ChallengesOK, ChallengesOwned, HasChallenge
  <2>5. ChallengesOwned'
    BY <2>1, <2>4 DEF IInv, ChallengesOK, ChallengesOwned
  <2>6. ChallengesOK'
    BY <2>3, <2>4, <2>5 DEF ChallengesOK
  <2>7. LockOK' /\ GensOK' /\ OrderOK' /\ ClientGone'
    BY <2>1 DEF IInv, SessionOK, LockOK, GensOK, OrderOK, ClientGone, account
  <2>. QED
    BY <2>2, <2>6, <2>7 DEF IInv, SessionOK
<1>. QED
  BY <1>1, <1>2
-----------------------------------------------------------------------------
(* Operations: the lock is taken, held and given back.                     *)

(* An operation enters with the cached client, or with one built from the  *)
(* stored session, or fails.                                               *)
LEMMA EnterKeeps ==
    ASSUME IInv, NEW p \in Requests, Enter(p)
    PROVE  IInv'
<1>0. req[p].phase = "queue" /\ lock = NoOne /\ UNCHANGED <<account, logins, gens, begun>>
  BY DEF Enter
<1>1. CASE cached = NoClient /\ (stored = NoAccount \/ stored.gen = 0)
  <2>1. /\ Alone(p) /\ req'[p].phase = "idle" /\ req'[p].challenge = NoChallenge
        /\ UNCHANGED <<lock, cached>>
    BY <1>1, FinishOK DEF Enter, IInv, TypeOK, Locals
  <2>2. TypeOK'
    BY <1>0, <2>1 DEF IInv, TypeOK, Alone, Locals, account, logins
  <2>3. ChallengesOK'
    BY <1>0, <2>1, ChallengesAlone DEF IInv, HasChallenge, logins
  <2>4. SessionOK'
    BY <1>0, <2>1, SessionKept DEF IInv, Elsewhere, Phases
  <2>. QED
    BY <2>2, <2>3, <2>4 DEF IInv
<1>2. CASE ~(cached = NoClient /\ (stored = NoAccount \/ stored.gen = 0))
  <2>1. /\ Alone(p) /\ req'[p].phase = "operate"
        /\ req'[p].challenge = req[p].challenge /\ req'[p].overtaken = AnyReloading
    BY <1>2, EnteredOK DEF Enter, IInv, TypeOK, Locals
  <2>2. /\ lock' = p
        /\ cached' = IF cached = NoClient THEN stored ELSE cached
        /\ cached = NoClient => stored # NoAccount
    BY <1>2 DEF Enter
  <2>3. cached' \in Session /\ cached' # NoClient
    BY <2>2 DEF IInv, TypeOK
  <2>4. TypeOK'
    BY <1>0, <2>1, <2>2, <2>3 DEF IInv, TypeOK, Alone, Locals, account, logins
  <2>5. ChallengesOK'
    BY <1>0, <2>1, ChallengesAlone DEF IInv, HasChallenge, logins
  <2>6. \A q \in Requests : ~Holds(q) /\ (q # p => ~Holds(q)')
    BY <1>0, <2>1 DEF IInv, SessionOK, LockOK, Alone
  <2>7. AnyReloading' <=> AnyReloading
    BY <1>0, <2>1 DEF Alone
  <2>8. LockOK'
    BY <2>1, <2>2, <2>3, <2>6 DEF LockOK
  <2>9. GensOK'
    BY <1>0, <2>1, <2>2, <2>6 DEF IInv, SessionOK, GensOK, account
  <2>10. OrderOK'
    <3>1. ASSUME stored' # NoAccount, ~AnyReloading' PROVE ~Older(cached', stored')
      <4>1. CASE cached = NoClient
        <5>1. cached' = stored' /\ stored' \in Session
          BY <1>0, <2>2, <2>3, <4>1 DEF account
        <5>. QED
          BY <5>1 DEF Older, Session
      <4>2. CASE cached # NoClient
        BY <1>0, <2>2, <2>7, <3>1, <4>2 DEF IInv, SessionOK, OrderOK, account
      <4>. QED
        BY <4>1, <4>2
    <3>2. AnyReloading' => \A q \in Requests : Holds(q)' => req'[q].overtaken
      BY <2>1, <2>6, <2>7
    <3>3. \A q \in Requests : ~Updating(q)'
      BY <2>1, <2>6
    <3>. QED
      BY <3>1, <3>2, <3>3 DEF OrderOK
  <2>11. ClientGone'
    BY <1>0, <2>1, <2>2 DEF IInv, SessionOK, ClientGone, Alone, account
  <2>. QED
    BY <2>4, <2>5, <2>8, <2>9, <2>10, <2>11 DEF IInv, SessionOK
<1>. QED
  BY <1>1, <1>2

(* The cookies of the client rotate: it gets newer. *)
LEMMA OperateKeeps ==
    ASSUME IInv, NEW p \in Requests, NEW rotates \in BOOLEAN, NEW failed \in BOOLEAN,
           Operate(p, rotates, failed)
    PROVE  IInv'
<1>1. /\ Alone(p) /\ req[p].phase = "operate" /\ req'[p].phase = "save"
      /\ req'[p].challenge = req[p].challenge /\ req'[p].overtaken = req[p].overtaken
  BY OperatedOK DEF Operate, IInv, TypeOK, Locals
<1>2. /\ UNCHANGED <<account, lock, logins, gens, begun>>
      /\ cached' = IF rotates THEN [cached EXCEPT !.rev = @ + 1] ELSE cached
  BY DEF Operate
<1>3. cached \in Session /\ cached # NoClient
  BY <1>1 DEF IInv, TypeOK, SessionOK, LockOK
<1>4. /\ cached' \in Session /\ cached' # NoClient
      /\ cached'.gen = cached.gen /\ cached'.rev >= cached.rev
  <2>1. CASE rotates
    BY <1>2, <1>3, <2>1 DEF Session
  <2>2. CASE ~rotates
    BY <1>2, <1>3, <2>2 DEF Session
  <2>. QED
    BY <2>1, <2>2
<1>5. TypeOK'
  BY <1>1, <1>2, <1>4 DEF IInv, TypeOK, Alone, Locals, account, logins
<1>6. ChallengesOK'
  BY <1>1, <1>2, ChallengesAlone DEF IInv, HasChallenge, logins
<1>7. /\ AnyReloading' <=> AnyReloading
      /\ \A q \in Requests : /\ UsesClient(q)' <=> UsesClient(q)
                             /\ Updating(q)' <=> Updating(q)
                             /\ Updating(q) => req'[q] = req[q]
                             /\ req[q].overtaken = req'[q].overtaken
  BY <1>1 DEF Alone
<1>8. LockOK'
  BY <1>2, <1>4, <1>7, <1>3 DEF IInv, SessionOK, LockOK
<1>9. GensOK'
  BY <1>2, <1>3, <1>4, <1>7 DEF IInv, SessionOK, GensOK, account
<1>10. OrderOK'
  <2>1. ASSUME stored' # NoAccount, ~AnyReloading' PROVE ~Older(cached', stored')
    <3>1. stored' = stored /\ stored \in Session /\ ~Older(cached, stored)
      BY <1>2, <1>3, <1>7, <2>1 DEF IInv, SessionOK, OrderOK, TypeOK, account
    <3>. QED
      BY <1>3, <1>4, <3>1 DEF Older, Session
  <2>. QED
    BY <1>2, <1>7, <2>1 DEF IInv, SessionOK, OrderOK, account
<1>11. ClientGone'
  BY <1>1, <1>2, <1>3 DEF IInv, SessionOK, ClientGone, Alone, account
<1>. QED
  BY <1>5, <1>6, <1>8, <1>9, <1>10, <1>11 DEF IInv, SessionOK

(* The holder of the lock is answered: nobody holds it then.               *)
LEMMA Released ==
    ASSUME LockOK, NEW p \in Requests, Holds(p), Alone(p), ~Holds(p)', lock' = NoOne
    PROVE  /\ LockOK' /\ lock = p
           /\ \A q \in Requests : ~Holds(q)' /\ (q # p => ~Holds(q))
BY DEF LockOK, Alone

(* The end of an operation: the account as it was, or the session of the   *)
(* client, which is not older unless a reload has overtaken it.            *)
LEMMA SaveKeeps ==
    ASSUME IInv, NEW p \in Requests, Save(p) \/ SaveFails(p)
    PROVE  /\ IInv' /\ lock = p
           /\ stored' = stored \/ (stored # NoAccount /\ Save(p) /\ stored' = cached)
<1>1. /\ Alone(p) /\ req[p].phase = "save" /\ req'[p].phase = "idle" /\ req'[p].challenge = NoChallenge
  BY FinishOK DEF Save, SaveFails, IInv, TypeOK, Locals
<1>2. /\ UNCHANGED <<logins, gens, begun>> /\ lock' = NoOne
      /\ \/ stored # NoAccount /\ stored' = cached /\ file' = cached /\ cached' \in {cached, NoClient} /\ Save(p)
         \/ UNCHANGED <<stored, file, cached>>
  BY DEF Save, SaveFails, Store, account
<1>3. cached \in Session /\ cached # NoClient /\ cached # NoAccount /\ lock = p
  BY <1>1 DEF IInv, TypeOK, SessionOK, LockOK
<1>4. TypeOK'
  BY <1>1, <1>2, <1>3 DEF IInv, TypeOK, Alone, Locals, logins
<1>5. ChallengesOK'
  BY <1>1, <1>2, ChallengesAlone DEF IInv, HasChallenge, logins
<1>6. LockOK' /\ \A q \in Requests : ~Holds(q)'
  BY <1>1, <1>2, Released DEF IInv, SessionOK
<1>7. AnyReloading' <=> AnyReloading
  BY <1>1 DEF Alone
<1>8. GensOK'
  BY <1>2, <1>3, <1>6, NotOlderThanItself DEF IInv, SessionOK, GensOK
<1>9. OrderOK'
  <2>1. ASSUME cached' # NoClient, stored' # NoAccount, ~AnyReloading' PROVE ~Older(cached', stored')
    <3>1. CASE stored' = cached /\ cached' = cached
      BY <1>3, <3>1 DEF Older, Session
    <3>2. CASE UNCHANGED <<stored, file, cached>>
      BY <1>7, <2>1, <3>2 DEF IInv, SessionOK, OrderOK
    <3>. QED
      BY <1>2, <2>1, <3>1, <3>2
  <2>. QED
    BY <1>6, <2>1 DEF OrderOK
<1>10. ClientGone'
  <2>1. CASE UNCHANGED <<stored, file, cached>>
    BY <1>1, <2>1 DEF IInv, SessionOK, ClientGone, Alone
  <2>2. CASE stored' = cached
    BY <1>3, <2>2 DEF ClientGone
  <2>. QED
    BY <1>2, <2>1, <2>2
<1>. QED
  BY <1>2, <1>3, <1>4, <1>5, <1>6, <1>8, <1>9, <1>10 DEF IInv, SessionOK
-----------------------------------------------------------------------------
(* Credential updates.                                                     *)

(* An update takes the lock: the client is dropped, and what it supplies   *)
(* is newer than everything there is.                                      *)
LEMMA EnterUpdateKeeps ==
    ASSUME IInv, NEW p \in Requests, EnterUpdate(p)
    PROVE  IInv'
<1>1. /\ req[p].phase \in Queues /\ lock = NoOne /\ lock' = p /\ cached' = NoClient
      /\ gens' = gens + 1 /\ UNCHANGED <<account, logins, begun>>
  BY DEF EnterUpdate
<1>2. /\ Alone(p) /\ req'[p].phase = AfterQueue(req[p].phase)
      /\ req'[p].challenge = req[p].challenge
      /\ req'[p].supplied = [gen |-> gens + 1, rev |-> 0]
      /\ req'[p].overtaken = AnyReloading
  BY UpdateEnteredOK DEF IInv, TypeOK, Locals
<1>3. /\ req'[p].phase \in {"update", "login", "verify"}
      /\ req'[p].phase = "verify" <=> req[p].phase = "verify queue"
  BY <1>1, <1>2 DEF Queues, AfterQueue
<1>4. TypeOK'
  <2>1. req' \in Locals
    BY <1>2 DEF Alone
  <2>. QED
    BY <1>1, <2>1 DEF IInv, TypeOK, Locals, account, logins
<1>5. ChallengesOK'
  <2>1. HasChallenge(p)' <=> HasChallenge(p)
    BY <1>1, <1>3 DEF HasChallenge, Queues
  <2>2. \A q \in Requests : /\ req'[q].challenge = req[q].challenge
                            /\ HasChallenge(q)' <=> HasChallenge(q)
    BY <1>2, <2>1 DEF Alone, HasChallenge
  <2>. QED
    BY <1>1, <2>2, ChallengesKept DEF IInv, logins
<1>6. \A q \in Requests : ~Holds(q) /\ (q # p => ~Holds(q)')
  BY <1>1, <1>2 DEF IInv, SessionOK, LockOK, Alone
<1>7. AnyReloading' <=> AnyReloading
  BY <1>1, <1>2, <1>3 DEF Alone, Queues
<1>8. LockOK'
  BY <1>1, <1>3, <1>6 DEF LockOK
<1>9. stored # NoAccount => stored.gen \in Nat /\ stored.gen <= gens
  BY DEF IInv, TypeOK, Session, SessionOK, GensOK
<1>10. file # NoAccount => file.gen \in Nat /\ file.gen <= gens
  BY DEF IInv, TypeOK, Session, SessionOK, GensOK
<1>11. gens \in Nat /\ req'[p].supplied.gen = gens + 1
  <2>1. req'[p].supplied = [gen |-> gens + 1, rev |-> 0]
    BY <1>2
  <2>. QED
    BY <2>1 DEF IInv, TypeOK
<1>12. GensOK'
  BY <1>1, <1>6, <1>9, <1>10, <1>11 DEF IInv, SessionOK, GensOK, account
<1>13. OrderOK'
  <2>1. AnyReloading' => \A q \in Requests : Holds(q)' => req'[q].overtaken
    BY <1>2, <1>6, <1>7
  <2>2. \A q \in Requests : Updating(q)' /\ stored' # NoAccount => stored'.gen < req'[q].supplied.gen
    BY <1>1, <1>6, <1>9, <1>11 DEF account
  <2>. QED
    BY <1>1, <2>1, <2>2 DEF OrderOK
<1>14. ClientGone'
  BY <1>1, <1>6, <1>3 DEF ClientGone
<1>. QED
  BY <1>4, <1>5, <1>8, <1>12, <1>13, <1>14 DEF IInv, SessionOK

(* The end of an update: what it supplies is stored if there still is an   *)
(* account, or nothing is.                                                 *)
LEMMA CommitKeeps ==
    ASSUME IInv, NEW p \in Requests, Commit(p) \/ UpdateFails(p)
    PROVE  /\ IInv' /\ lock = p
           /\ stored' = stored \/ (stored # NoAccount /\ Commit(p) /\ stored' = req[p].supplied)
<1>1. Updating(p) /\ lock' = NoOne /\ CloseOwn(p) /\ UNCHANGED <<cached, gens, begun>>
  BY DEF Commit, UpdateFails
<1>2. \/ stored # NoAccount /\ stored' = req[p].supplied /\ file' = req[p].supplied /\ Commit(p)
      \/ UNCHANGED <<stored, file>>
  BY DEF Commit, UpdateFails, Store, account
<1>3. /\ Alone(p) /\ req'[p].phase \in {"idle", "drop challenges", "reload challenges"}
      /\ req'[p].challenge = NoChallenge
  <2>1. CASE Finish(p)
    BY <2>1, FinishOK DEF IInv, TypeOK, Locals
  <2>2. CASE req[p].phase = "login" /\ Goto(p, "drop challenges")
    <3>1. req[p].challenge = NoChallenge
      BY <2>2 DEF IInv, ChallengesOK, HasChallenge
    <3>. QED
      BY <2>2, <3>1, PhaseOK DEF IInv, TypeOK, Locals, Phases
  <2>. QED
    BY <2>1, <2>2 DEF Commit, UpdateFails
<1>4. ChallengesOK' /\ open' \in SUBSET Challenges
  BY <1>1, <1>3, CloseOwnOK DEF IInv, HasChallenge
<1>5. req[p].supplied \in Session /\ req[p].supplied # NoAccount /\ req[p].supplied.gen <= gens
  BY <1>1 DEF IInv, TypeOK, ReqState, SessionOK, GensOK
<1>6. TypeOK'
  BY <1>1, <1>2, <1>3, <1>4, <1>5 DEF IInv, TypeOK, Alone, Locals, CloseOwn
<1>7. LockOK' /\ lock = p /\ \A q \in Requests : ~Holds(q)'
  BY <1>1, <1>3, Released DEF IInv, SessionOK
<1>8. GensOK'
  BY <1>1, <1>2, <1>5, <1>7, NotOlderThanItself DEF IInv, SessionOK, GensOK
<1>9. cached' = NoClient
  BY <1>1 DEF IInv, SessionOK, LockOK
<1>10. OrderOK'
  BY <1>7, <1>9 DEF OrderOK
<1>11. ClientGone'
  BY <1>7, <1>9 DEF ClientGone
<1>. QED
  BY <1>2, <1>4, <1>6, <1>7, <1>8, <1>10, <1>11 DEF IInv, SessionOK

(* The service asks for an OTP: a new client is open, in the hands of the  *)
(* login.                                                                  *)
LEMMA NeedsOTPKeeps ==
    ASSUME IInv, NEW p \in Requests, NEW c \in Challenges, NeedsOTP(p, c)
    PROVE  IInv'
<1>1. /\ req[p].phase = "login" /\ c \notin open /\ open' = open \cup {c} /\ lock' = NoOne
      /\ UNCHANGED <<account, cached, pending, expired, orphans, gens, begun>>
  BY DEF NeedsOTP
<1>2. Alone(p) /\ req'[p].phase = "put" /\ req'[p].challenge = c
  BY AskedOK DEF NeedsOTP, IInv, TypeOK, Locals
<1>3. TypeOK'
  BY <1>1, <1>2 DEF IInv, TypeOK, Alone, Locals, account
<1>4. c \notin pending /\ \A q \in Requests : req[q].challenge # c
  BY <1>1 DEF IInv, TypeOK, ChallengesOK
<1>5. ASSUME NEW q \in Requests
      PROVE  /\ HasChallenge(q)' => req'[q].challenge \in open'
             /\ ~HasChallenge(q)' => req'[q].challenge = NoChallenge
             /\ req'[q].challenge \notin pending'
  <2>1. CASE q = p
    BY <1>1, <1>2, <1>4, <2>1 DEF HasChallenge
  <2>2. CASE q # p
    <3>1. req'[q] = req[q] /\ (HasChallenge(q)' <=> HasChallenge(q))
      BY <1>2, <2>2 DEF Alone, HasChallenge
    <3>. QED
      BY <1>1, <3>1 DEF IInv, ChallengesOK, ChallengesOwned
  <2>. QED
    BY <2>1, <2>2
<1>6. ASSUME NEW d \in open', d \notin pending' PROVE \E q \in Requests : req'[q].challenge = d
  <2>1. CASE d = c
    BY <1>2, <2>1
  <2>2. CASE d # c
    <3>1. PICK q \in Requests : req[q].challenge = d
      BY <1>1, <1>6, <2>2 DEF IInv, ChallengesOK, ChallengesOwned
    <3>2. req[p].challenge = NoChallenge /\ d # NoChallenge
      BY <1>1, <1>6 DEF IInv, ChallengesOK, HasChallenge, TypeOK
    <3>. QED
      BY <1>2, <3>1, <3>2 DEF Alone
  <2>. QED
    BY <2>1, <2>2
<1>7. ASSUME NEW q \in Requests, NEW r \in Requests, req'[q].challenge = req'[r].challenge, q # r
      PROVE  req'[q].challenge = NoChallenge
  <2>1. q # p /\ r # p
    BY <1>2, <1>4, <1>7 DEF Alone
  <2>2. req'[q] = req[q] /\ req'[r] = req[r]
    BY <1>2, <2>1 DEF Alone
  <2>. QED
    BY <1>7, <2>2 DEF IInv, ChallengesOK, ChallengesOwned
<1>8. ChallengesOwned'
  BY <1>5, <1>6, <1>7 DEF ChallengesOwned
<1>9. ChallengesOK'
  BY <1>1, <1>5, <1>8 DEF IInv, ChallengesOK
<1>10. LockOK' /\ lock = p /\ \A q \in Requests : ~Holds(q)'
  BY <1>1, <1>2, Released DEF IInv, SessionOK
<1>11. GensOK'
  BY <1>1, <1>10 DEF IInv, SessionOK, GensOK, account
<1>12. cached' = NoClient
  BY <1>1 DEF IInv, SessionOK, LockOK
<1>13. OrderOK'
  BY <1>10, <1>12 DEF OrderOK
<1>14. ClientGone'
  BY <1>10, <1>12 DEF ClientGone
<1>. QED
  BY <1>3, <1>9, <1>10, <1>11, <1>13, <1>14 DEF IInv, SessionOK
-----------------------------------------------------------------------------
(* Removal, reload and the file.                                           *)

(* The client is dropped behind the operation under way.                   *)
LEMMA DropClientKeeps ==
    ASSUME IInv, NEW p \in Requests, RemoveClient(p) \/ ReloadClient(p)
    PROVE  IInv'
<1>1. lock = NoOne /\ cached' = NoClient /\ UNCHANGED <<account, lock, logins, gens, begun>>
  BY DEF RemoveClient, ReloadClient
<1>2. /\ Alone(p) /\ req'[p].challenge \in {NoChallenge, req[p].challenge}
      /\ req[p].phase \in {"remove client", "reload client"}
      /\ req'[p].phase \in {"idle", "drop challenges", "reload challenges"}
  BY FinishOK, PhaseOK DEF RemoveClient, ReloadClient, IInv, TypeOK, Locals, Phases
<1>3. TypeOK'
  BY <1>1, <1>2 DEF IInv, TypeOK, Alone, Locals, account, logins
<1>4. ChallengesOK'
  BY <1>1, <1>2, ChallengesAlone DEF IInv, HasChallenge, logins
<1>5. \A q \in Requests : ~Holds(q)'
  BY <1>1, <1>2 DEF IInv, SessionOK, LockOK, Alone
<1>6. LockOK'
  BY <1>1, <1>5 DEF LockOK
<1>7. GensOK'
  BY <1>1, <1>5 DEF IInv, SessionOK, GensOK, account
<1>8. OrderOK' /\ ClientGone'
  BY <1>1, <1>5 DEF OrderOK, ClientGone
<1>. QED
  BY <1>3, <1>4, <1>6, <1>7, <1>8 DEF IInv, SessionOK

(* The account is removed. *)
LEMMA RemoveKeeps ==
    ASSUME IInv, NEW p \in Requests, Remove(p)
    PROVE  IInv' /\ stored' = NoAccount
<1>1. /\ Begin(p, "remove challenges") /\ stored' = NoAccount /\ file' = NoAccount
      /\ UNCHANGED <<cached, lock, logins, gens>>
  BY DEF Remove, Store
<1>2. /\ Alone(p) /\ req'[p].phase = "remove challenges" /\ req'[p].challenge = NoChallenge
      /\ req[p].phase = "idle" /\ begun' \in Nat
  BY <1>1, BeginOK DEF IInv, TypeOK, Locals, Phases
<1>3. TypeOK'
  BY <1>1, <1>2 DEF IInv, TypeOK, Alone, Locals, logins
<1>4. ChallengesOK'
  BY <1>1, <1>2, ChallengesAlone DEF IInv, HasChallenge, logins
<1>5. /\ AnyReloading' <=> AnyReloading
      /\ \A q \in Requests : /\ UsesClient(q)' <=> UsesClient(q)
                             /\ Updating(q)' <=> Updating(q)
                             /\ Holds(q) => req'[q] = req[q]
  BY <1>2 DEF Alone
<1>6. LockOK' /\ GensOK'
  BY <1>1, <1>5 DEF IInv, SessionOK, LockOK, GensOK
<1>7. OrderOK'
  BY <1>1, <1>5 DEF IInv, SessionOK, OrderOK
<1>8. ClientGone'
  BY <1>2 DEF ClientGone
<1>. QED
  BY <1>1, <1>3, <1>4, <1>6, <1>7, <1>8 DEF IInv, SessionOK

(* A reload: the account is what the file says, and who holds the lock is  *)
(* overtaken.                                                              *)
LEMMA ReloadKeeps ==
    ASSUME IInv, NEW p \in Requests, Reload(p)
    PROVE  IInv'
<1>1. stored' = file /\ begun' = begun + 1 /\ UNCHANGED <<file, cached, lock, logins, gens>>
  BY DEF Reload
<1>2. /\ req' \in Locals /\ req[p].phase = "idle"
      /\ req'[p].phase = "reload snapshot" /\ req'[p].challenge = NoChallenge
  BY ReloadOK DEF IInv, TypeOK, Locals
<1>3. \A q \in Requests : q # p =>
        /\ req'[q].phase = req[q].phase /\ req'[q].challenge = req[q].challenge
        /\ req'[q].supplied = req[q].supplied
  BY ReloadOK DEF IInv, TypeOK, Locals
<1>4. \A q \in Requests : q # p /\ lock = q => req'[q].overtaken
  BY ReloadOK DEF IInv, TypeOK, Locals
<1>5. TypeOK'
  <2>1. begun' \in Nat /\ stored' \in Session \cup {NoAccount}
    BY <1>1 DEF IInv, TypeOK
  <2>. QED
    BY <1>1, <1>2, <2>1 DEF IInv, TypeOK, Locals, logins
<1>6. ChallengesOK'
  <2>1. \A q \in Requests : /\ req'[q].challenge = req[q].challenge
                            /\ HasChallenge(q)' <=> HasChallenge(q)
    BY <1>2, <1>3 DEF IInv, ChallengesOK, HasChallenge
  <2>. QED
    BY <1>1, <2>1, ChallengesKept DEF IInv, logins
<1>7. \A q \in Requests : /\ UsesClient(q)' <=> UsesClient(q)
                          /\ Updating(q)' <=> Updating(q)
                          /\ Holds(q) => q # p
  BY <1>2, <1>3
<1>8. LockOK'
  BY <1>1, <1>7 DEF IInv, SessionOK, LockOK
<1>9. GensOK'
  BY <1>1, <1>3, <1>7, NotOlderThanItself DEF IInv, TypeOK, SessionOK, GensOK
<1>10. \A q \in Requests : Holds(q)' => req'[q].overtaken
  BY <1>4, <1>7 DEF IInv, SessionOK, LockOK
<1>11. AnyReloading' /\ Reloading(p)'
  BY <1>2
<1>12. OrderOK'
  BY <1>10, <1>11 DEF OrderOK
<1>13. ClientGone'
  BY <1>11 DEF ClientGone
<1>. QED
  BY <1>5, <1>6, <1>8, <1>9, <1>12, <1>13 DEF IInv, SessionOK

(* Without a client there is none to wait for. *)
LEMMA ReloadSnapshotKeeps ==
    ASSUME IInv, NEW p \in Requests, ReloadSnapshot(p)
    PROVE  IInv'
<1>1. /\ UNCHANGED <<account, cached, lock, logins, gens, begun>> /\ req[p].phase = "reload snapshot"
      /\ Goto(p, IF cached = NoClient THEN "reload challenges" ELSE "reload client")
  BY DEF ReloadSnapshot
<1>2. /\ Alone(p) /\ req'[p].challenge = req[p].challenge
      /\ req'[p].phase = IF cached = NoClient THEN "reload challenges" ELSE "reload client"
  BY <1>1, PhaseOK DEF IInv, TypeOK, Locals, Phases
<1>3. TypeOK'
  BY <1>1, <1>2 DEF IInv, TypeOK, Alone, Locals, account, logins
<1>4. ChallengesOK'
  BY <1>1, <1>2, ChallengesAlone DEF IInv, HasChallenge, logins
<1>5. \A q \in Requests : /\ UsesClient(q)' <=> UsesClient(q)
                          /\ Updating(q)' <=> Updating(q)
                          /\ Holds(q) => req'[q] = req[q]
  BY <1>1, <1>2 DEF Alone
<1>6. LockOK' /\ GensOK'
  BY <1>1, <1>5 DEF IInv, SessionOK, LockOK, GensOK, account
<1>7. AnyReloading /\ (cached # NoClient => AnyReloading')
  BY <1>1, <1>2
<1>8. OrderOK'
  BY <1>1, <1>5, <1>7 DEF IInv, SessionOK, OrderOK, account
<1>9. ClientGone'
  <2>1. CASE cached = NoClient
    BY <1>1, <1>5, <2>1 DEF IInv, SessionOK, LockOK, ClientGone
  <2>2. CASE cached # NoClient
    BY <1>2, <2>2 DEF ClientGone
  <2>. QED
    BY <2>1, <2>2
<1>. QED
  BY <1>3, <1>4, <1>6, <1>8, <1>9 DEF IInv, SessionOK

(* The file changes behind the program, or under a save for another account. *)
LEMMA FileKeeps ==
    ASSUME IInv, EditFile \/ SaveElsewhere
    PROVE  IInv' /\ stored' = stored
<1>1. /\ UNCHANGED <<stored, cached, lock, req, logins, begun>>
      /\ gens' \in Nat /\ gens' >= gens /\ gens \in Nat
      /\ file' \in Session \cup {NoAccount} /\ (file' # NoAccount => file'.gen <= gens')
      /\ file' # NoAccount /\ stored # NoAccount => ~Older(file', stored)
  <2>1. CASE EditFile
    <3>1. gens \in Nat /\ gens' = gens + 1 /\ file' \in {[gen |-> gens + 1, rev |-> 0], NoAccount}
          /\ UNCHANGED <<stored, cached, lock, req, logins, begun>>
      BY <2>1 DEF EditFile, IInv, TypeOK
    <3>2. stored # NoAccount => stored \in Session /\ stored.gen <= gens
      BY DEF IInv, TypeOK, SessionOK, GensOK
    <3>. QED
      BY <3>1, <3>2 DEF Session, Older
  <2>2. CASE SaveElsewhere
    BY <2>2, NotOlderThanItself DEF SaveElsewhere, IInv, TypeOK, SessionOK, GensOK
  <2>. QED
    BY <2>1, <2>2
<1>2. TypeOK'
  BY <1>1 DEF IInv, TypeOK, logins
<1>3. ChallengesOK'
  BY <1>1, ChallengesKept DEF IInv, HasChallenge, logins
<1>4. GensOK'
  <2>1. /\ stored # NoAccount => stored.gen \in Nat /\ stored.gen <= gens
        /\ cached # NoClient => cached.gen \in Nat /\ cached.gen <= gens
        /\ \A q \in Requests : Updating(q) => req[q].supplied.gen \in Nat /\ req[q].supplied.gen <= gens
    BY DEF IInv, TypeOK, ReqState, Session, SessionOK, GensOK
  <2>. QED
    BY <1>1, <2>1 DEF GensOK
<1>5. LockOK' /\ OrderOK' /\ ClientGone'
  BY <1>1 DEF IInv, SessionOK, LockOK, OrderOK, ClientGone
<1>. QED
  BY <1>1, <1>2, <1>3, <1>4, <1>5 DEF IInv, SessionOK
-----------------------------------------------------------------------------
(* The theorems.                                                           *)

(* An account with or without cookies and nothing under way. *)
LEMMA InitOK == Init => IInv
<1>. SUFFICES ASSUME Init PROVE IInv
  OBVIOUS
<1>1. /\ stored \in Session /\ stored.gen <= 1 /\ file = stored
      /\ cached = NoClient /\ lock = NoOne /\ gens = 1 /\ begun = 0
      /\ pending = {} /\ expired = {} /\ open = {} /\ orphans = {}
  BY DEF Init, Session
<1>2. req \in Locals /\ \A p \in Requests : req[p].phase = "idle" /\ req[p].challenge = NoChallenge
  BY IdleOK DEF Init, Locals, Idle
<1>3. TypeOK
  BY <1>1, <1>2 DEF TypeOK, Locals
<1>4. ChallengesOK
  BY <1>1, <1>2 DEF ChallengesOK, ChallengesOwned, HasChallenge
<1>5. LockOK /\ GensOK /\ OrderOK /\ ClientGone
  BY <1>1, <1>2, NotOlderThanItself DEF LockOK, GensOK, OrderOK, ClientGone
<1>. QED
  BY <1>3, <1>4, <1>5 DEF IInv, SessionOK

(* Every step keeps the invariant; only these change the account in memory. *)
LEMMA StepOK ==
    ASSUME IInv, [Next]_vars
    PROVE  /\ IInv'
           /\ \/ stored' = stored \/ stored' = NoAccount
              \/ \E p \in Requests : Reload(p) /\ stored' = file
              \/ \E p \in Requests : /\ lock = p /\ stored # NoAccount
                                     /\ \/ Save(p) /\ stored' = cached
                                        \/ Commit(p) /\ stored' = req[p].supplied
<1>1. ASSUME NEW p \in Requests, BeginOperation(p) \/ BeginUpdate(p) PROVE IInv' /\ stored' = stored
  BY <1>1, ArrivalKeeps DEF BeginOperation, BeginUpdate, account
<1>2. ASSUME NEW p \in Requests, BeginLogin(p) PROVE IInv' /\ stored' = stored
  BY <1>2, BeginLoginKeeps DEF BeginLogin, account
<1>3. ASSUME NEW p \in Requests, NEW c \in Challenges, Take(p, c) PROVE IInv' /\ stored' = stored
  BY <1>3, TakeKeeps DEF Take, account
<1>4. ASSUME NEW p \in Requests, Enter(p) PROVE IInv' /\ stored' = stored
  BY <1>4, EnterKeeps DEF Enter, account
<1>5. ASSUME NEW p \in Requests, EnterUpdate(p) PROVE IInv' /\ stored' = stored
  BY <1>5, EnterUpdateKeeps DEF EnterUpdate, account
<1>6. ASSUME NEW p \in Requests, RemoveClient(p) \/ ReloadClient(p) PROVE IInv' /\ stored' = stored
  BY <1>6, DropClientKeeps DEF RemoveClient, ReloadClient, account
<1>7. ASSUME NEW p \in Requests, NEW rotates \in BOOLEAN, NEW failed \in BOOLEAN, Operate(p, rotates, failed)
      PROVE IInv' /\ stored' = stored
  BY <1>7, OperateKeeps DEF Operate, account
<1>8. ASSUME NEW p \in Requests, NEW c \in Challenges, NeedsOTP(p, c) PROVE IInv' /\ stored' = stored
  BY <1>8, NeedsOTPKeeps DEF NeedsOTP, account
<1>9. ASSUME NEW p \in Requests, Put(p) \/ PutFails(p) PROVE IInv' /\ stored' = stored
  BY <1>9, PutKeeps, PutFailsKeeps DEF Put, PutFails, account
<1>10. ASSUME NEW p \in Requests, DropChallenges(p) \/ RemoveChallenges(p) PROVE IInv' /\ stored' = stored
  BY <1>10, DropKeeps DEF DropChallenges, RemoveChallenges, account
<1>11. ASSUME NEW p \in Requests, ReloadSnapshot(p) PROVE IInv' /\ stored' = stored
  BY <1>11, ReloadSnapshotKeeps DEF ReloadSnapshot, account
<1>12. ASSUME NEW c \in Challenges, Expire(c) PROVE IInv' /\ stored' = stored
  BY <1>12, ExpireKeeps DEF Expire, account
<1>13. ASSUME NEW p \in Requests, Reload(p) PROVE IInv' /\ stored' = file
  BY <1>13, ReloadKeeps DEF Reload
<1>14. CASE UNCHANGED vars
  <2>1. TypeOK' /\ ChallengesOK'
    BY <1>14 DEF IInv, vars, TypeOK, ChallengesOK, ChallengesOwned, HasChallenge
  <2>2. SessionOK'
    BY <1>14 DEF IInv, vars, SessionOK, LockOK, GensOK, OrderOK, ClientGone
  <2>. QED
    BY <1>14, <2>1, <2>2 DEF IInv, vars
<1>15. ASSUME NEW p \in Requests, Arrive(p)
       PROVE  IInv' /\ (stored' \in {stored, NoAccount} \/ (Reload(p) /\ stored' = file))
  <2>1. CASE Reload(p)
    BY <1>13, <2>1
  <2>2. CASE Remove(p)
    BY <2>2, RemoveKeeps
  <2>3. CASE \E c \in Challenges : Take(p, c)
    BY <1>3, <2>3
  <2>4. CASE BeginOperation(p) \/ BeginUpdate(p) \/ BeginLogin(p)
    BY <1>1, <1>2, <2>4
  <2>. QED
    BY <1>15, <2>1, <2>2, <2>3, <2>4 DEF Arrive
<1>16. ASSUME NEW p \in Requests, Queued(p) PROVE IInv' /\ stored' = stored
  BY <1>4, <1>5, <1>6, <1>16 DEF Queued
<1>17. ASSUME NEW p \in Requests, Save(p) \/ SaveFails(p)
       PROVE  IInv' /\ (stored' = stored \/ (lock = p /\ stored # NoAccount /\ Save(p) /\ stored' = cached))
  BY <1>17, SaveKeeps, Zenon
<1>18. ASSUME NEW p \in Requests, Commit(p) \/ UpdateFails(p)
       PROVE  IInv' /\ (stored' = stored \/ (lock = p /\ stored # NoAccount /\ Commit(p) /\ stored' = req[p].supplied))
  BY <1>18, CommitKeeps, Zenon
<1>19. ASSUME NEW p \in Requests, Proceed(p)
       PROVE  /\ IInv'
              /\ \/ stored' = stored
                 \/ /\ lock = p /\ stored # NoAccount
                    /\ \/ Save(p) /\ stored' = cached
                       \/ Commit(p) /\ stored' = req[p].supplied
  <2>1. CASE Save(p) \/ SaveFails(p)
    BY <1>17, <2>1, Zenon
  <2>2. CASE Commit(p) \/ UpdateFails(p)
    BY <1>18, <2>2, Zenon
  <2>3. CASE ~(Save(p) \/ SaveFails(p) \/ Commit(p) \/ UpdateFails(p))
    BY <1>7, <1>8, <1>9, <1>10, <1>11, <1>19, <2>3 DEF Proceed
  <2>. QED
    BY <2>1, <2>2, <2>3
<1>. QED
  <2>1. CASE \E p \in Requests : Arrive(p)
    BY <1>15, <2>1
  <2>2. CASE \E p \in Requests : Queued(p)
    BY <1>16, <2>2
  <2>3. CASE \E p \in Requests : Proceed(p)
    BY <1>19, <2>3
  <2>4. CASE EditFile \/ SaveElsewhere
    BY <2>4, FileKeeps
  <2>. QED
    BY <1>12, <1>14, <2>1, <2>2, <2>3, <2>4 DEF Next

(* The inductive invariant.                                                *)
THEOREM Invariance == Spec => []IInv
<1>1. IInv /\ [Next]_vars => IInv'
  BY StepOK
<1>. QED
  BY InitOK, <1>1, PTL DEF Spec

(* Every variable keeps its type: in particular nothing but a session is   *)
(* ever written to the account, and no operation runs without a client.    *)
THEOREM TypeCorrect == Spec => []TypeOK
<1>1. IInv => TypeOK
  BY DEF IInv
<1>. QED
  BY Invariance, <1>1, PTL

(* At most one request runs under the operation lock of the account, the   *)
(* one that holds it.                                                      *)
THEOREM OneHolder == Spec => [](\A p, q \in Requests : Holds(p) /\ Holds(q) => p = q)
<1>1. IInv => \A p, q \in Requests : Holds(p) /\ Holds(q) => p = q
  BY DEF IInv, SessionOK, LockOK
<1>. QED
  BY Invariance, <1>1, PTL

(* No login client leaks and none is verified twice.                       *)
THEOREM LoginsOwned == Spec => []ChallengesOwned
<1>1. IInv => ChallengesOwned
  BY DEF IInv, ChallengesOK
<1>. QED
  BY Invariance, <1>1, PTL

(* The stored session goes back only under an operation or an update that  *)
(* a reload has overtaken, and the cached client is never behind it.       *)
THEOREM NeverRegresses == Spec => SessionNeverRegresses
<1>1. IInv => ClientNotBehind
  BY DEF IInv, SessionOK, OrderOK, ClientNotBehind
<1>2. ASSUME IInv, [Next]_vars, stored # NoAccount, stored' # NoAccount, Older(stored', stored)
      PROVE  \E p \in Requests : lock = p /\ req[p].overtaken
  <2>1. stored \in Session /\ ~Older(stored, stored)
    BY <1>2, NotOlderThanItself DEF IInv, TypeOK
  <2>2. stored' # file
    BY <1>2 DEF IInv, SessionOK, GensOK
  <2>3. PICK p \in Requests :
          /\ lock = p
          /\ \/ Save(p) /\ stored' = cached
             \/ Commit(p) /\ stored' = req[p].supplied
    BY <1>2, <2>1, <2>2, StepOK, Zenon
  <2>4. CASE Save(p) /\ stored' = cached
    <3>1. UsesClient(p) /\ cached # NoClient
      BY <1>2, <2>4 DEF Save, IInv, SessionOK, LockOK
    <3>. QED
      BY <1>2, <2>3, <2>4, <3>1 DEF IInv, SessionOK, OrderOK
  <2>5. CASE Commit(p) /\ stored' = req[p].supplied
    <3>1. Updating(p) /\ req[p].supplied \in Session
      BY <1>2, <2>5 DEF Commit, IInv, TypeOK, ReqState
    <3>2. ~req[p].overtaken => stored.gen < stored'.gen
      BY <1>2, <2>5, <3>1 DEF IInv, SessionOK, OrderOK
    <3>. QED
      BY <1>2, <2>1, <2>3, <2>5, <3>1, <3>2 DEF Older, Session
  <2>. QED
    BY <2>3, <2>4, <2>5
<1>3. IInv /\ [Next]_vars =>
        [/\ ClientNotBehind'
         /\ stored # NoAccount /\ stored' # NoAccount /\ Older(stored', stored)
              => \E p \in Requests : lock = p /\ req[p].overtaken]_vars
  <2>1. IInv /\ [Next]_vars => IInv'
    BY StepOK
  <2>2. IInv' => ClientNotBehind'
    BY <1>1, PTL
  <2>. QED
    BY <1>2, <2>1, <2>2
<1>. QED
  BY Invariance, <1>3, PTL DEF Spec, SessionNeverRegresses

(* A request from the first step that took the account away to the last    *)
(* that discards a challenge of it.                                        *)
Discarding(p) == req[p].phase \in {"remove challenges",
                                   "reload snapshot", "reload client", "reload challenges"}

(* Who stores a challenge has read the account; and while the account is   *)
(* gone, nothing but an orphan is stored unless somebody is yet to discard *)
(* the challenges.                                                         *)
OrphansOK ==
    /\ \A p \in Requests : req[p].phase = "put" => req[p].found
    /\ stored = NoAccount /\ (\A p \in Requests : ~Discarding(p)) => pending \subseteq orphans

(* The steps that touch neither store nor account, and leave who discards. *)
LEMMA OrphansKept ==
    ASSUME OrphansOK, stored' = stored \/ stored' # NoAccount,
           UNCHANGED <<pending, orphans>> \/ pending' = {} \/
             (pending' \subseteq pending /\ orphans' = orphans \cap pending'),
           NEW p \in Requests, Alone(p),
           req'[p].phase # "put",
           Discarding(p) => Discarding(p)' \/ pending' = {}
    PROVE  OrphansOK'
<1>1. ASSUME NEW q \in Requests, req'[q].phase = "put" PROVE req'[q].found
  BY <1>1 DEF OrphansOK, Alone
<1>2. ASSUME stored' = NoAccount, \A q \in Requests : ~Discarding(q)' PROVE pending' \subseteq orphans'
  <2>1. stored = NoAccount
    BY <1>2
  <2>2. CASE pending' = {}
    BY <2>2
  <2>3. CASE pending' # {}
    <3>1. \A q \in Requests : ~Discarding(q)
      BY <1>2, <2>3 DEF Alone, Discarding
    <3>. QED
      BY <2>1, <2>3, <3>1 DEF OrphansOK
  <2>. QED
    BY <2>2, <2>3
<1>. QED
  BY <1>1, <1>2 DEF OrphansOK

LEMMA OrphansStep ==
    ASSUME IInv, OrphansOK, [Next]_vars
    PROVE  OrphansOK'
<1>. USE DEF account, logins
<1>0. req \in Locals /\ begun \in Nat /\ gens \in Nat
  BY DEF IInv, TypeOK, Locals
<1>1. ASSUME NEW p \in Requests, Arrive(p) PROVE OrphansOK'
  <2>1. CASE BeginOperation(p) \/ BeginUpdate(p) \/ BeginLogin(p)
    <3>1. PICK phase \in {"queue", "update queue", "login queue"} : Begin(p, phase)
      BY <2>1 DEF BeginOperation, BeginUpdate, BeginLogin
    <3>2. Alone(p) /\ req'[p].phase = phase /\ req[p].phase = "idle"
      BY <1>0, <3>1, BeginOK DEF Phases
    <3>3. stored' = stored /\ (UNCHANGED <<pending, orphans>> \/ pending' = {})
      BY <2>1 DEF BeginOperation, BeginUpdate, BeginLogin, Discard
    <3>. QED
      BY <3>2, <3>3, OrphansKept DEF Discarding
  <2>2. CASE Remove(p)
    <3>1. Alone(p) /\ req'[p].phase = "remove challenges"
      BY <1>0, <2>2, BeginOK DEF Remove, Phases
    <3>2. Discarding(p)' /\ \A q \in Requests : req'[q].phase = "put" => req'[q] = req[q]
      BY <3>1 DEF Discarding, Alone
    <3>. QED
      BY <3>2 DEF OrphansOK
  <2>3. CASE Reload(p)
    <3>1. req'[p].phase = "reload snapshot" /\ \A q \in Requests : q # p =>
            req'[q].phase = req[q].phase /\ req'[q].found = req[q].found
      BY <1>0, <2>3, ReloadOK
    <3>2. Discarding(p)'
      BY <3>1 DEF Discarding
    <3>. QED
      BY <3>1, <3>2 DEF OrphansOK
  <2>4. CASE \E c \in Challenges : Take(p, c)
    <3>1. PICK c \in Challenges : Take(p, c)
      BY <2>4
    <3>2. stored' = stored /\ pending' \subseteq pending /\ orphans' = orphans \cap pending'
      BY <3>1 DEF Take
    <3>3. Alone(p) /\ req'[p].phase \in {"idle", "verify queue"} /\ req[p].phase = "idle"
      <4>1. CASE c \in pending \ expired
        BY <1>0, <3>1, <4>1, TakenOK DEF Take
      <4>2. CASE c \notin pending \ expired
        BY <1>0, <3>1, <4>2 DEF Take, Alone
      <4>. QED
        BY <4>1, <4>2
    <3>. QED
      BY <3>2, <3>3, OrphansKept DEF Discarding
  <2>. QED
    BY <1>1, <2>1, <2>2, <2>3, <2>4 DEF Arrive
<1>2. ASSUME NEW p \in Requests, Queued(p) PROVE OrphansOK'
  <2>1. UNCHANGED <<stored, pending, orphans>>
    BY <1>2 DEF Queued, Enter, EnterUpdate, RemoveClient, ReloadClient
  <2>2. /\ Alone(p) /\ req'[p].phase # "put"
        /\ req[p].phase = "reload client" => req'[p].phase = "reload challenges"
        /\ req[p].phase \notin {"remove challenges", "reload snapshot", "reload challenges"}
    <3>1. CASE Enter(p)
      <4>1. CASE Finish(p)
        BY <1>0, <3>1, <4>1, FinishOK DEF Enter
      <4>2. CASE ~Finish(p)
        BY <1>0, <3>1, <4>2, EnteredOK DEF Enter
      <4>. QED
        BY <4>1, <4>2
    <3>2. CASE EnterUpdate(p)
      <4>1. Alone(p) /\ req'[p].phase = AfterQueue(req[p].phase) /\ req[p].phase \in Queues
        BY <1>0, <3>2, UpdateEnteredOK DEF EnterUpdate
      <4>. QED
        BY <4>1 DEF Queues, AfterQueue
    <3>3. CASE RemoveClient(p)
      BY <1>0, <3>3, FinishOK DEF RemoveClient
    <3>4. CASE ReloadClient(p)
      BY <1>0, <3>4, PhaseOK DEF ReloadClient, Phases
    <3>. QED
      BY <1>2, <3>1, <3>2, <3>3, <3>4 DEF Queued
  <2>. QED
    BY <2>1, <2>2, OrphansKept DEF Discarding
<1>3. ASSUME NEW p \in Requests, Proceed(p) PROVE OrphansOK'
  <2>1. CASE \E rotates, failed \in BOOLEAN : Operate(p, rotates, failed)
    <3>1. /\ Alone(p) /\ req[p].phase = "operate" /\ req'[p].phase = "save"
          /\ UNCHANGED <<stored, pending, orphans>>
      BY <1>0, <2>1, OperatedOK DEF Operate
    <3>. QED
      BY <3>1, OrphansKept DEF Discarding
  <2>2. CASE Save(p) \/ SaveFails(p)
    <3>1. Alone(p) /\ req[p].phase = "save" /\ req'[p].phase = "idle"
      BY <1>0, <2>2, FinishOK DEF Save, SaveFails
    <3>2. UNCHANGED <<pending, orphans>> /\ (stored' = stored \/ stored' # NoAccount)
      BY <2>2 DEF Save, SaveFails, Store, IInv, TypeOK, SessionOK, LockOK
    <3>. QED
      BY <3>1, <3>2, OrphansKept DEF Discarding
  <2>3. CASE Commit(p) \/ UpdateFails(p)
    <3>1. Updating(p) /\ UNCHANGED <<pending, orphans>>
      BY <2>3 DEF Commit, UpdateFails, CloseOwn
    <3>2. Alone(p) /\ req'[p].phase \in {"idle", "drop challenges"}
      BY <1>0, <2>3, FinishOK, PhaseOK DEF Commit, UpdateFails, Phases
    <3>3. stored' = stored \/ stored' # NoAccount
      <4>1. Updating(p) => req[p].supplied \in Session
        BY DEF IInv, TypeOK, ReqState
      <4>. QED
        BY <2>3, <3>1, <4>1 DEF Commit, UpdateFails, Store
    <3>. QED
      BY <3>1, <3>2, <3>3, OrphansKept DEF Discarding
  <2>4. CASE \E c \in Challenges : NeedsOTP(p, c)
    <3>1. PICK c \in Challenges : NeedsOTP(p, c)
      BY <2>4
    <3>2. Alone(p) /\ req[p].phase = "login" /\ req'[p].phase = "put" /\ req'[p].found
      BY <1>0, <3>1, AskedOK DEF NeedsOTP
    <3>3. UNCHANGED <<stored, pending, orphans>>
      BY <3>1 DEF NeedsOTP
    <3>4. \A q \in Requests : Discarding(q)' <=> Discarding(q)
      BY <3>2 DEF Alone, Discarding
    <3>. QED
      BY <3>2, <3>3, <3>4 DEF OrphansOK, Alone
  <2>5. CASE Put(p)
    <3>1. Alone(p) /\ req[p].phase = "put" /\ req'[p].phase = "idle" /\ req[p].found
      BY <1>0, <2>5, FinishOK DEF Put, OrphansOK
    <3>2. stored' = stored /\ (stored = NoAccount => orphans' = pending')
      BY <2>5, <3>1 DEF Put, Orphaned
    <3>. QED
      BY <3>1, <3>2 DEF OrphansOK, Alone
  <2>6. CASE PutFails(p)
    <3>1. Alone(p) /\ req[p].phase = "put" /\ req'[p].phase = "idle" /\ UNCHANGED <<stored, pending, orphans>>
      BY <1>0, <2>6, FinishOK DEF PutFails, CloseOwn
    <3>. QED
      BY <3>1, OrphansKept DEF Discarding
  <2>7. CASE DropChallenges(p) \/ RemoveChallenges(p)
    <3>1. Alone(p) /\ req'[p].phase \in {"idle", "remove client"} /\ stored' = stored /\ pending' = {}
      BY <1>0, <2>7, FinishOK, PhaseOK DEF DropChallenges, RemoveChallenges, Discard, Phases
    <3>. QED
      BY <3>1, OrphansKept
  <2>8. CASE ReloadSnapshot(p)
    <3>1. /\ Alone(p) /\ req'[p].phase \in {"reload challenges", "reload client"}
          /\ UNCHANGED <<stored, pending, orphans>>
      BY <1>0, <2>8, PhaseOK DEF ReloadSnapshot, Phases
    <3>. QED
      BY <3>1, OrphansKept DEF Discarding
  <2>. QED
    BY <1>3, <2>1, <2>2, <2>3, <2>4, <2>5, <2>6, <2>7, <2>8 DEF Proceed
<1>4. CASE (\E c \in Challenges : Expire(c)) \/ EditFile \/ SaveElsewhere \/ UNCHANGED vars
  <2>1. UNCHANGED <<stored, req, pending, orphans>>
    BY <1>4 DEF Expire, EditFile, SaveElsewhere, vars
  <2>. QED
    BY <2>1 DEF OrphansOK, Discarding
<1>. QED
  BY <1>1, <1>2, <1>3, <1>4 DEF Next

(* A removal or a reload that is answered has left nothing of an account   *)
(* it took away but the challenge of a login it overtook, and only a       *)
(* reload adds an account.                                                 *)
THEOREM RemovalIsFinal == Spec => RemovalFinal
<1>1. Init => OrphansOK
  BY IdleOK DEF Init, Idle, OrphansOK
<1>2. IInv /\ OrphansOK /\ [Next]_vars => OrphansOK'
  BY OrphansStep
<1>3. IInv /\ OrphansOK => RemovalComplete
  <2>. SUFFICES ASSUME IInv, OrphansOK, stored = NoAccount, \A p \in Requests : ~TakingAway(p)
                PROVE  /\ cached = NoClient
                       /\ \A p \in Requests : req[p].phase \notin {"operate", "save"}
                       /\ pending \subseteq orphans
    BY DEF RemovalComplete
  <2>1. \A p \in Requests : ~Removing(p) /\ ~Reloading(p) /\ ~Discarding(p)
    BY DEF TakingAway, Discarding
  <2>. QED
    BY <2>1 DEF IInv, SessionOK, ClientGone, OrphansOK
<1>4. IInv /\ OrphansOK /\ [Next]_vars =>
        [/\ RemovalComplete'
         /\ stored = NoAccount /\ stored' # NoAccount => \E p \in Requests : Reload(p)]_vars
  <2>1. IInv /\ [Next]_vars => IInv'
    BY StepOK
  <2>2. (IInv /\ OrphansOK)' => RemovalComplete'
    BY <1>3, PTL
  <2>3. ASSUME IInv, [Next]_vars, stored = NoAccount, stored' # NoAccount
        PROVE  \E p \in Requests : Reload(p)
    BY <2>3, StepOK
  <2>. QED
    BY <1>2, <2>1, <2>2, <2>3
<1>. QED
  BY Invariance, <1>1, <1>2, <1>4, PTL DEF Spec, RemovalFinal
=============================================================================
