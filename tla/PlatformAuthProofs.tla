------------------------- MODULE PlatformAuthProofs -------------------------
(***************************************************************************)
(* PlatformAuth for every set of requests and names, every limit and every *)
(* duration: type correctness, the ownership and the bound of the sessions *)
(* and the refinement of Administrator.                                    *)
(***************************************************************************)
EXTENDS PlatformAuth, FiniteSetTheorems, TLAPS

(* What each phase of a request knows.  The file is ahead of the memory    *)
(* only while the request that wrote it still holds the mutex.             *)
PhaseFacts(p) ==
    /\ At(p, "setup")  => req[p].by \in Names
    /\ At(p, "write")  => req[p].by \in Names /\ stored = NoAdmin /\ admin = NoAdmin
    /\ At(p, "memory") => req[p].by \in Names /\ stored = req[p].by /\ admin = NoAdmin
    /\ At(p, "issue")  => req[p].by \in Names /\ stored = req[p].by /\ admin = stored
    /\ At(p, "insert") => /\ req[p].by \in Names /\ stored = req[p].by
                          /\ admin = stored /\ req[p].user = stored

MemoryFollows == admin # stored => \E p \in Requests : writer = p /\ At(p, "memory")

IInv == /\ TypeOK
        /\ \A p \in Requests : PhaseFacts(p)
        /\ MemoryFollows
        /\ SessionsOwned
        /\ SessionsBounded

USE DEF Phases, Session, ReqState, MaybeAdmin, Idle, At, Goto, Finish, Configured, Readable
-----------------------------------------------------------------------------
(* Making room leaves a part of the store with a place free.               *)
LEMMA RoomMade ==
    ASSUME NEW S, IsFiniteSet(S), Cardinality(S) <= MaxSessions,
           NEW T \in RoomIn(S)
    PROVE  T \subseteq S /\ IsFiniteSet(T) /\ Cardinality(T) + 1 <= MaxSessions
<1>1. Cardinality(S) \in Nat
  BY FS_CardinalityType
<1>2. CASE Cardinality(S) >= MaxSessions
  <2>1. PICK s \in S : T = S \ {s}
    BY <1>2 DEF RoomIn, Oldest
  <2>2. IsFiniteSet(T) /\ Cardinality(T) = Cardinality(S) - 1
    BY <2>1, FS_RemoveElement
  <2>. QED
    BY <1>1, <2>1, <2>2, PlatformAssumption
<1>3. CASE ~(Cardinality(S) >= MaxSessions)
  BY <1>1, <1>3, PlatformAssumption DEF RoomIn
<1>. QED
  BY <1>2, <1>3

(* Sessions that only disappear keep what is said about them.              *)
LEMMA FewerSessions ==
    ASSUME IInv, sessions' \in SUBSET sessions, UNCHANGED <<stored, issued>>
    PROVE  /\ sessions' \subseteq Session /\ IsFiniteSet(sessions')
           /\ SessionsOwned' /\ SessionsBounded'
<1>1. IsFiniteSet(sessions') /\ Cardinality(sessions') <= Cardinality(sessions)
  BY FS_Subset DEF IInv, TypeOK
<1>2. Cardinality(sessions') \in Nat /\ Cardinality(sessions) \in Nat
  BY <1>1, FS_CardinalityType DEF IInv, TypeOK
<1>3. Cardinality(sessions') <= MaxSessions
  BY <1>1, <1>2, PlatformAssumption DEF IInv, SessionsBounded
<1>4. SessionsOwned' /\ sessions' \subseteq Session
  BY DEF IInv, TypeOK, SessionsOwned
<1>. QED
  BY <1>1, <1>3, <1>4 DEF SessionsBounded

(* The steps of a setup.  Only the request with the mutex writes, and it   *)
(* took the mutex when there was no administrator and so no session.       *)
LEMMA SetupKeeps ==
    ASSUME IInv, NEW p \in Requests, SetupStep(p)
    PROVE  IInv'
<1>. USE DEF IInv, TypeOK, PhaseFacts, MemoryFollows
<1>1. sessions' = sessions /\ issued' = issued
  BY DEF SetupStep, BeginSetup, LockSetup, WriteFile, WriteFails, SetMemory
<1>2. TypeOK'
  <2>1. ASSUME NEW n \in Names, BeginSetup(p, n) PROVE TypeOK'
    BY <2>1, PlatformAssumption DEF BeginSetup
  <2>2. ASSUME LockSetup(p) PROVE TypeOK'
    BY <2>2, PlatformAssumption DEF LockSetup
  <2>3. ASSUME WriteFile(p) PROVE TypeOK'
    BY <2>3 DEF WriteFile
  <2>4. ASSUME WriteFails(p) PROVE TypeOK'
    BY <2>4, PlatformAssumption DEF WriteFails
  <2>5. ASSUME SetMemory(p) PROVE TypeOK'
    BY <2>5, PlatformAssumption DEF SetMemory
  <2>. QED
    BY <2>1, <2>2, <2>3, <2>4, <2>5 DEF SetupStep
<1>3. /\ \A q \in Requests : PhaseFacts(q)'
      /\ MemoryFollows'
  <2>1. ASSUME NEW n \in Names, BeginSetup(p, n)
        PROVE  (\A q \in Requests : PhaseFacts(q)') /\ MemoryFollows'
    BY <2>1, PlatformAssumption DEF BeginSetup
  <2>2. ASSUME LockSetup(p)
        PROVE  (\A q \in Requests : PhaseFacts(q)') /\ MemoryFollows'
    BY <2>2, PlatformAssumption DEF LockSetup
  <2>3. ASSUME WriteFile(p)
        PROVE  (\A q \in Requests : PhaseFacts(q)') /\ MemoryFollows'
    BY <2>3, PlatformAssumption DEF WriteFile
  <2>4. ASSUME WriteFails(p)
        PROVE  (\A q \in Requests : PhaseFacts(q)') /\ MemoryFollows'
    BY <2>4, PlatformAssumption DEF WriteFails
  <2>5. ASSUME SetMemory(p)
        PROVE  (\A q \in Requests : PhaseFacts(q)') /\ MemoryFollows'
    BY <2>5, PlatformAssumption DEF SetMemory
  <2>. QED
    BY <2>1, <2>2, <2>3, <2>4, <2>5 DEF SetupStep
<1>4. stored' = stored \/ sessions = {}
  <2>1. CASE WriteFile(p)
    <3>1. stored = NoAdmin /\ \A s \in sessions : s.user \in Names /\ s.user = stored
      BY <2>1 DEF WriteFile, SessionsOwned
    <3>. QED
      BY <3>1, PlatformAssumption
  <2>2. CASE ~WriteFile(p)
    BY <2>2 DEF SetupStep, BeginSetup, LockSetup, WriteFails, SetMemory
  <2>. QED
    BY <2>1, <2>2
<1>5. SessionsOwned' /\ SessionsBounded'
  BY <1>1, <1>4 DEF SessionsOwned, SessionsBounded
<1>. QED
  BY <1>2, <1>3, <1>5

(* A login and the creation of a session.                                  *)
LEMMA SessionKeeps ==
    ASSUME IInv, NEW p \in Requests, SessionStep(p)
    PROVE  IInv'
<1>. USE DEF PhaseFacts, MemoryFollows
<1>1. ASSUME NEW n \in Names, Login(p, n) PROVE IInv'
  <2>1. TypeOK'
    BY <1>1, PlatformAssumption DEF Login, IInv, TypeOK
  <2>2. (\A q \in Requests : PhaseFacts(q)') /\ MemoryFollows'
    BY <1>1, PlatformAssumption DEF Login, IInv, TypeOK
  <2>3. SessionsOwned' /\ SessionsBounded'
    BY <1>1, FewerSessions DEF Login
  <2>. QED
    BY <2>1, <2>2, <2>3 DEF IInv
<1>2. ASSUME Stamp(p) PROVE IInv'
  <2>1. TypeOK'
    <3>1. now + Duration \in Nat
      BY PlatformAssumption DEF IInv, TypeOK
    <3>2. req' \in [Requests -> ReqState]
      <4>. DEFINE r == [req[p] EXCEPT !.phase = "insert", !.user = admin,
                                      !.expires = now + Duration]
      <4>1. r \in ReqState
        BY <3>1 DEF IInv, TypeOK
      <4>2. req' = [req EXCEPT ![p] = r]
        BY <1>2 DEF Stamp, IInv, TypeOK
      <4>. HIDE DEF r
      <4>. QED
        BY <4>1, <4>2 DEF IInv, TypeOK
    <3>3. \A q \in Requests : (writer' = q) <=> req'[q].phase \in {"write", "memory"}
      BY <1>2 DEF Stamp, IInv, TypeOK
    <3>. QED
      BY <1>2, <3>2, <3>3 DEF Stamp, IInv, TypeOK
  <2>2. (\A q \in Requests : PhaseFacts(q)') /\ MemoryFollows'
    BY <1>2, PlatformAssumption DEF Stamp, IInv, TypeOK
  <2>3. SessionsOwned' /\ SessionsBounded'
    BY <1>2, FewerSessions DEF Stamp
  <2>. QED
    BY <2>1, <2>2, <2>3 DEF IInv
<1>3. ASSUME Insert(p) PROVE IInv'
  <2>. DEFINE new == [token |-> issued', user |-> req[p].user,
                      by |-> req[p].by, expires |-> req[p].expires]
  <2>1. PICK S \in RoomIn(Live(now)) : sessions' = S \cup {new}
    BY <1>3 DEF Insert
  <2>2. Live(now) \in SUBSET sessions
    BY DEF Live
  <2>3. IsFiniteSet(Live(now)) /\ Cardinality(Live(now)) <= MaxSessions
    <3>1. IsFiniteSet(sessions) /\ Cardinality(sessions) <= MaxSessions
      BY DEF IInv, TypeOK, SessionsBounded
    <3>2. IsFiniteSet(Live(now)) /\ Cardinality(Live(now)) <= Cardinality(sessions)
      BY <2>2, <3>1, FS_Subset
    <3>3. Cardinality(Live(now)) \in Nat /\ Cardinality(sessions) \in Nat
      BY <3>1, <3>2, FS_CardinalityType
    <3>. QED
      BY <3>1, <3>2, <3>3, PlatformAssumption
  <2>4. S \subseteq sessions /\ IsFiniteSet(S) /\ Cardinality(S) + 1 <= MaxSessions
    BY <2>2, <2>3, RoomMade
  <2>5. /\ new \in Session /\ new.by = stored /\ new.user = stored
        /\ issued' = issued + 1 /\ issued \in Nat
    BY <1>3, PlatformAssumption DEF Insert, IInv, TypeOK
  <2>6. IsFiniteSet(sessions') /\ Cardinality(sessions') <= MaxSessions
    <3>1. /\ IsFiniteSet(sessions')
          /\ \/ Cardinality(sessions') = Cardinality(S)
             \/ Cardinality(sessions') = Cardinality(S) + 1
      BY <2>1, <2>4, FS_AddElement
    <3>2. Cardinality(S) \in Nat
      BY <2>4, FS_CardinalityType
    <3>. QED
      BY <2>4, <3>1, <3>2, PlatformAssumption
  <2>7. TypeOK'
    BY <1>3, <2>1, <2>4, <2>5, <2>6, PlatformAssumption DEF Insert, IInv, TypeOK
  <2>8. (\A q \in Requests : PhaseFacts(q)') /\ MemoryFollows'
    BY <1>3, PlatformAssumption DEF Insert, IInv, TypeOK
  <2>9. SessionsOwned'
    BY <1>3, <2>1, <2>4, <2>5 DEF Insert, IInv, SessionsOwned
  <2>. QED
    BY <2>6, <2>7, <2>8, <2>9 DEF IInv, SessionsBounded
<1>. QED
  BY <1>1, <1>2, <1>3 DEF SessionStep

(* Everything else removes sessions at most; a restart loads the file.     *)
LEMMA OthersKeep ==
    ASSUME IInv,
           \/ \E at \in 0..now : Lookup(at)
           \/ \E s \in sessions : Logout(s)
           \/ Restart
           \/ Tick
           \/ UNCHANGED vars
    PROVE  IInv'
<1>. USE DEF PhaseFacts, MemoryFollows
<1>1. /\ sessions' \in SUBSET sessions /\ UNCHANGED <<stored, issued>>
      /\ now' \in Nat
      /\ \/ UNCHANGED <<admin, writer, req>>
         \/ admin' = stored /\ writer' = NoOne /\ req' = [q \in Requests |-> Idle]
  BY DEF IInv, TypeOK, Lookup, Live, Logout, Restart, Tick, vars
<1>2. /\ sessions' \subseteq Session /\ IsFiniteSet(sessions')
      /\ SessionsOwned' /\ SessionsBounded'
  BY <1>1, FewerSessions
<1>3. TypeOK'
  BY <1>1, <1>2, PlatformAssumption DEF IInv, TypeOK
<1>4. (\A q \in Requests : PhaseFacts(q)') /\ MemoryFollows'
  BY <1>1, PlatformAssumption DEF IInv, TypeOK
<1>. QED
  BY <1>2, <1>3, <1>4 DEF IInv

(* The inductive invariant holds in every reachable state.                 *)
THEOREM Invariance == Spec => []IInv
<1>1. Init => IInv
  <2>. SUFFICES ASSUME Init PROVE IInv
    OBVIOUS
  <2>1. IsFiniteSet(sessions) /\ Cardinality(sessions) = 0
    BY FS_EmptySet DEF Init
  <2>. QED
    BY <2>1, PlatformAssumption DEF Init, IInv, TypeOK, PhaseFacts, MemoryFollows,
       SessionsOwned, SessionsBounded
<1>2. IInv /\ [Next]_vars => IInv'
  BY SetupKeeps, SessionKeeps, OthersKeep DEF Next
<1>. QED
  BY <1>1, <1>2, PTL DEF Spec

(* Types, and the mutex held by the request that writes.                   *)
THEOREM TypeCorrect == Spec => []TypeOK
<1>1. IInv => TypeOK
  BY DEF IInv
<1>. QED
  BY <1>1, Invariance, PTL

(* Nobody but the administrator on disk is ever signed in.                 *)
THEOREM OnlyTheAdministratorSignsIn == Spec => []SessionsOwned
<1>1. IInv => SessionsOwned
  BY DEF IInv
<1>. QED
  BY <1>1, Invariance, PTL

(* The session store stays within its limit.                               *)
THEOREM SessionLimitHonoured == Spec => []SessionsBounded
<1>1. IInv => SessionsBounded
  BY DEF IInv
<1>. QED
  BY <1>1, Invariance, PTL

(* Every step of the store is a step of Administrator or none: the write   *)
(* of the file appoints, the write of the memory and a restart publish.    *)
THEOREM KeepsThePromise == Spec => AppointedOnce
<1>1. Init => Promise!Init
  BY DEF Init, Promise!Init
<1>2. IInv /\ [Next]_vars => [Promise!Next]_(Promise!vars)
  <2>. SUFFICES ASSUME IInv, [Next]_vars
                PROVE  [Promise!Next]_(Promise!vars)
    OBVIOUS
  <2>. USE DEF Promise!Next, Promise!vars, Promise!Appoint, Promise!Publish
  <2>1. ASSUME NEW p \in Requests, SetupStep(p)
        PROVE  [Promise!Next]_(Promise!vars)
    <3>1. CASE WriteFile(p)
      BY <3>1 DEF WriteFile, IInv, PhaseFacts
    <3>2. CASE SetMemory(p)
      BY <3>2 DEF SetMemory, IInv, PhaseFacts
    <3>3. CASE LockSetup(p)
      BY <3>3 DEF LockSetup
    <3>. QED
      BY <2>1, <3>1, <3>2, <3>3 DEF SetupStep, BeginSetup, WriteFails
  <2>2. ASSUME NEW p \in Requests, SessionStep(p)
        PROVE  [Promise!Next]_(Promise!vars)
    BY <2>2 DEF SessionStep, Login, Stamp, Insert
  <2>3. CASE Restart
    BY <2>3 DEF Restart
  <2>4. CASE \/ \E at \in 0..now : Lookup(at)
             \/ \E s \in sessions : Logout(s)
             \/ Tick
             \/ UNCHANGED vars
    BY <2>4 DEF Lookup, Logout, Tick, vars
  <2>. QED
    BY <2>1, <2>2, <2>3, <2>4 DEF Next
<1>. QED
  BY <1>1, <1>2, Invariance, PTL DEF Spec, AppointedOnce, Promise!Spec
=============================================================================
