-------------------------- MODULE HideMyEmailProofs --------------------------
(***************************************************************************)
(* HideMyEmail for every number of rounds, attempts, addresses, calls and  *)
(* lost answers: type correctness and the refinement of AliasCreation.     *)
(***************************************************************************)
EXTENDS HideMyEmail, TLAPS

(* The client's half: what each request of each method knows.              *)
CallOK ==
    /\ call \in Call /\ resolved \in BOOLEAN
    /\ result \in {"none", "ok", "failed"}
    /\ call.op = "none" => call = NoCall
    /\ call.op # "none" => call.step # "none" /\ call.tries \in 1..Attempts(call.step)
    /\ call.step \notin {"none", "validate"} => resolved
    /\ call.op \in {"deactivate", "reactivate", "delete"} => call.target \in 1..offered
    /\ call.op = "create" => /\ call.step \in {"validate", "generate", "reserve"}
                             /\ call.round \in 1..MaxRounds
    /\ call.op = "list" => call.step \in {"validate", "list"}
    /\ call.step \in {"generate", "reserve"} => call.op = "create"
    /\ call.step = "reserve" => call.target \in 1..offered
    /\ call.step \in Writes \ {"reserve"} => call.op \in {"deactivate", "reactivate", "delete"}

(* Each round of CreateAlias draws one address at most.                    *)
BudgetOK ==
    /\ offered <= MaxRounds * creates
    /\ call.op = "create" =>
         offered + MaxRounds <= MaxRounds * creates
                                + (IF call.step = "reserve" THEN call.round ELSE call.round - 1)

(* The service's half.                                                     *)
ServiceOK ==
    /\ alias \in [Addresses -> States]
    /\ offered \in 0..MaxAddresses
    /\ \A a \in Addresses : alias[a] = "free" <=> a > offered
    /\ late \subseteq Pending
    /\ \A r \in late : r.target <= offered

ToldOK ==
    /\ told \subseteq Existing
    /\ call.step = "reserve" => call.target \notin told

CountsOK ==
    /\ calls \in 0..MaxCalls /\ creates \in 0..calls /\ faults \in 0..MaxFaults
    /\ seen \subseteq States

IInv == CallOK /\ BudgetOK /\ ServiceOK /\ ToldOK /\ CountsOK

USE DEF Addresses, NoAddress, States, Ops, Writes, Steps, FirstStep, service
-----------------------------------------------------------------------------
LEMMA AttemptsPositive == \A step : Attempts(step) \in Nat \ {0}
BY HideMyEmailAssumption DEF Attempts

LEMMA NoCallFields ==
    /\ NoCall \in Call
    /\ NoCall.op = "none" /\ NoCall.step = "none" /\ NoCall.tries = 0
    /\ NoCall.round = 0 /\ NoCall.target = NoAddress
BY HideMyEmailAssumption DEF Call, NoCall

LEMMA CallFields ==
    ASSUME NEW c \in Call
    PROVE  /\ c.op \in Ops \cup {"none"} /\ c.step \in Steps \cup {"none"}
           /\ c.tries \in Nat /\ c.round \in 0..MaxRounds
           /\ c.target \in Addresses \cup {NoAddress}
BY DEF Call

(* The request goes on to another step, in the same or in a later round.   *)
LEMMA GotoFields ==
    ASSUME CallOK, NEW step \in Steps
    PROVE  /\ Goto(step) \in Call
           /\ Goto(step).op = call.op /\ Goto(step).step = step
           /\ Goto(step).tries = 1 /\ Goto(step).tries \in 1..Attempts(step)
           /\ Goto(step).round = call.round /\ Goto(step).target = call.target
<1>1. 1 \in 1..Attempts(step)
  BY AttemptsPositive
<1>. QED
  BY <1>1 DEF Goto, Call, CallOK

LEMMA RoundFields ==
    ASSUME CallOK, call.round < MaxRounds
    PROVE  LET c == [Goto("validate") EXCEPT !.round = @ + 1, !.target = NoAddress] IN
           /\ c \in Call /\ c.op = call.op /\ c.step = "validate"
           /\ c.tries \in 1..Attempts("validate")
           /\ c.round = call.round + 1 /\ c.target = NoAddress
<1>1. Goto("validate") \in Call /\ Goto("validate").op = call.op
      /\ Goto("validate").step = "validate" /\ Goto("validate").tries \in 1..Attempts("validate")
      /\ Goto("validate").round = call.round
  BY GotoFields
<1>2. call.round + 1 \in 0..MaxRounds
  BY CallFields, HideMyEmailAssumption DEF CallOK
<1>. QED
  BY <1>1, <1>2 DEF Call

(* What a request makes of an alias is never an address nobody reserved.   *)
LEMMA GoalReached == \A step : Goal(step) \in {"active", "inactive", "deleted"}
BY DEF Goal

LEMMA AfterKept ==
    \A step, state : After(step, state) \in {state, "active", "inactive", "deleted"}
BY GoalReached DEF After

(* A change of one known alias adds nothing else to those that exist, and  *)
(* takes none away.                                                        *)
LEMMA AliasChanges ==
    ASSUME ServiceOK, CountsOK, NEW a \in 1..offered,
           NEW state \in {alias[a], "active", "inactive", "deleted"},
           SetAlias(a, state), offered' = offered
    PROVE  /\ alias' \in [Addresses -> States] /\ seen' \subseteq States
           /\ \A b \in Addresses : alias'[b] = "free" <=> b > offered
           /\ Existing \subseteq Existing' /\ Existing' \subseteq Existing \cup {a}
           /\ state # "offered" => a \in Existing'
<1>1. a \in Addresses /\ a <= offered /\ alias[a] # "free" /\ state \in States
  BY HideMyEmailAssumption DEF ServiceOK
<1>2. /\ alias' = [alias EXCEPT ![a] = state]
      /\ seen' \subseteq States
  BY <1>1 DEF SetAlias, CountsOK
<1>3. alias' \in [Addresses -> States] /\ state # "free"
  BY <1>1, <1>2 DEF ServiceOK
<1>4. \A b \in Addresses : alias'[b] = IF b = a THEN state ELSE alias[b]
  BY <1>2 DEF ServiceOK
<1>5. \A b \in Addresses : alias'[b] = "free" <=> b > offered
  BY <1>1, <1>3, <1>4 DEF ServiceOK
<1>6. Existing \subseteq Existing' /\ Existing' \subseteq Existing \cup {a}
  BY <1>1, <1>4 DEF Existing
<1>7. state # "offered" => a \in Existing'
  BY <1>1, <1>3, <1>4 DEF Existing
<1>. QED
  BY <1>2, <1>3, <1>5, <1>6, <1>7

(* A request that failed for good leaves the client in order: another      *)
(* round of CreateAlias has an address left in the budget.                 *)
LEMMA ErrorKeeps ==
    ASSUME CallOK, BudgetOK, CountsOK, offered \in Nat, call # NoCall,
           NEW retryable \in BOOLEAN, AfterError(retryable),
           UNCHANGED <<offered, creates>>
    PROVE  CallOK' /\ BudgetOK' /\ call'.step # "reserve"
           /\ (call'.op = "create" => call.op = "create")
<1>1. CASE /\ retryable /\ Again
           /\ call' = [Goto("validate") EXCEPT !.round = @ + 1, !.target = NoAddress]
           /\ resolved' = FALSE /\ UNCHANGED result
  <2>0. call.op = "create" /\ call.round \in 1..MaxRounds /\ call.round < MaxRounds
    BY <1>1 DEF CallOK, Again
  <2>1. /\ call'.op = "create" /\ call'.step = "validate"
        /\ call'.tries \in 1..Attempts("validate") /\ call' \in Call
        /\ call'.round = call.round + 1 /\ call'.target = NoAddress
        /\ call'.round \in 1..MaxRounds
    BY <1>1, <2>0, RoundFields, HideMyEmailAssumption
  <2>2. CallOK'
    BY <1>1, <2>1 DEF CallOK
  <2>3. MaxRounds * creates \in Nat
    BY HideMyEmailAssumption DEF CountsOK
  <2>4. BudgetOK'
    BY <2>0, <2>1, <2>3, HideMyEmailAssumption DEF BudgetOK, CountsOK
  <2>. QED
    BY <2>0, <2>1, <2>2, <2>4
<1>2. CASE /\ call.step = "delete" /\ call' = Goto("deactivateFirst")
           /\ UNCHANGED <<resolved, result>>
  BY <1>2, GotoFields, NoCallFields DEF CallOK, BudgetOK
<1>3. CASE /\ call.step = "deactivateFirst" /\ call' = Goto("deleteAgain")
           /\ UNCHANGED <<resolved, result>>
  BY <1>3, GotoFields, NoCallFields DEF CallOK, BudgetOK
<1>4. CASE End("failed") /\ UNCHANGED resolved
  BY <1>4, NoCallFields DEF End, CallOK, BudgetOK
<1>. QED
  BY <1>1, <1>2, <1>3, <1>4 DEF AfterError, DeleteAnyway
-----------------------------------------------------------------------------
(* One lemma for each kind of action.                                      *)

LEMMA BeginKeeps ==
    ASSUME IInv, NEW op \in Ops, NEW a \in Addresses \cup {NoAddress}, Begin(op, a),
           op \in {"deactivate", "reactivate", "delete"} => a \in Existing
    PROVE  IInv'
<1>. USE DEF IInv, Begin
<1>1. a \in Existing => a \in 1..offered
  BY DEF Existing, ServiceOK
<1>2. CallOK'
  <2>1. 1 \in 1..Attempts(call'.step) /\ call'.tries = 1
    BY AttemptsPositive
  <2>2. call' \in Call
    BY HideMyEmailAssumption DEF Call
  <2>. QED
    BY <1>1, <2>1, <2>2, HideMyEmailAssumption DEF CallOK
<1>3. /\ calls' \in 0..MaxCalls /\ creates' \in 0..calls' /\ seen' \subseteq States
  BY HideMyEmailAssumption DEF CountsOK, ServiceOK
<1>4. MaxRounds * (creates + 1) = MaxRounds * creates + MaxRounds /\ MaxRounds * creates \in Nat
  BY HideMyEmailAssumption DEF CountsOK
<1>5. BudgetOK'
  <2>1. CASE op = "create"
    <3>1. creates' = creates + 1 /\ call'.op = "create" /\ call'.round = 1
          /\ call'.step # "reserve" /\ offered' = offered
      BY <2>1
    <3>. QED
      BY <3>1, <1>4, HideMyEmailAssumption DEF BudgetOK, ServiceOK
  <2>2. CASE op # "create"
    BY <2>2, NoCallFields DEF BudgetOK
  <2>. QED
    BY <2>1, <2>2
<1>6. ServiceOK' /\ ToldOK'
  BY DEF ServiceOK, ToldOK, Existing
<1>. QED
  BY <1>2, <1>3, <1>5, <1>6 DEF CountsOK

LEMMA GeneratedKeeps ==
    ASSUME IInv, Generated
    PROVE  IInv'
<1>. USE DEF IInv, Generated
<1>1. offered' \in Addresses /\ offered' = offered + 1 /\ call.op = "create"
  BY HideMyEmailAssumption DEF ServiceOK, CallOK
<1>2. /\ alias' \in [Addresses -> States]
      /\ \A b \in Addresses : alias'[b] = IF b = offered' THEN "offered" ELSE alias[b]
  BY <1>1 DEF ServiceOK
<1>3. ServiceOK'
  BY <1>1, <1>2 DEF ServiceOK, Pending
<1>4. Existing' = Existing /\ offered' \notin Existing
  BY <1>1, <1>2 DEF Existing, ServiceOK
<1>6. /\ call'.op = "create" /\ call'.step = "reserve" /\ call'.round = call.round
      /\ call.round \in 1..MaxRounds /\ call'.target = offered' /\ call' \in Call
      /\ call'.tries \in 1..Attempts("reserve")
  <2>1. 1 \in 1..Attempts("reserve")
    BY AttemptsPositive
  <2>. QED
    BY <1>1, <2>1 DEF CallOK, Goto, Call
<1>5. CallOK'
  BY <1>1, <1>6 DEF CallOK
<1>7. MaxRounds * creates \in Nat
  BY HideMyEmailAssumption DEF CountsOK
<1>8. BudgetOK'
  BY <1>1, <1>6, <1>7, HideMyEmailAssumption DEF BudgetOK, ServiceOK
<1>9. ToldOK'
  BY <1>4, <1>6 DEF ToldOK
<1>. QED
  BY <1>3, <1>5, <1>8, <1>9 DEF CountsOK

LEMMA ConfirmedKeeps ==
    ASSUME IInv, Confirmed
    PROVE  IInv'
<1>. USE DEF IInv, Confirmed
<1>1. call.target \in 1..offered /\ call.op # "none"
  BY CallFields, NoCallFields DEF CallOK
<1>2. /\ alias' \in [Addresses -> States] /\ seen' \subseteq States
      /\ \A b \in Addresses : alias'[b] = "free" <=> b > offered
      /\ Existing \subseteq Existing' /\ call.target \in Existing'
  BY <1>1, AliasChanges, GoalReached
<1>3. ServiceOK'
  BY <1>2 DEF ServiceOK
<1>4. CallOK' /\ BudgetOK' /\ call'.step # "reserve"
  <2>1. CASE call.step = "deactivateFirst" /\ call' = Goto("deleteAgain") /\ UNCHANGED result
    BY <1>1, <2>1, GotoFields DEF CallOK, BudgetOK
  <2>2. CASE End("ok")
    BY <2>2, NoCallFields DEF CallOK, BudgetOK, End
  <2>. QED
    BY <2>1, <2>2
<1>6. ToldOK'
  BY <1>2, <1>4 DEF ToldOK
<1>. QED
  BY <1>2, <1>3, <1>4, <1>6 DEF CountsOK

LEMMA UnansweredKeeps ==
    ASSUME IInv, Unanswered
    PROVE  IInv'
<1>. USE DEF IInv
<1>1. /\ call # NoCall /\ faults' \in 1..MaxFaults
      /\ UNCHANGED <<offered, calls, creates, told>>
  BY HideMyEmailAssumption DEF Unanswered, CountsOK
<1>2. call.step \in Writes => call.target \in 1..offered
  BY CallFields, NoCallFields DEF CallOK
<1>3. ServiceOK' /\ seen' \subseteq States /\ Existing \subseteq Existing'
  <2>1. CASE UNCHANGED <<alias, late, seen>>
    BY <1>1, <2>1 DEF ServiceOK, CountsOK, Existing
  <2>2. CASE /\ call.step \in Writes /\ UNCHANGED late
             /\ SetAlias(call.target, After(call.step, alias[call.target]))
    <3>1. /\ alias' \in [Addresses -> States] /\ seen' \subseteq States
          /\ \A b \in Addresses : alias'[b] = "free" <=> b > offered
          /\ Existing \subseteq Existing'
      BY <1>1, <1>2, <2>2, AliasChanges, AfterKept
    <3>. QED
      BY <1>1, <2>2, <3>1 DEF ServiceOK
  <2>3. CASE /\ call.step \in Writes /\ UNCHANGED <<alias, seen>>
             /\ late' = late \cup
                  {[id |-> faults', step |-> call.step, target |-> call.target]}
    <3>1. [id |-> faults', step |-> call.step, target |-> call.target] \in Pending
      BY <1>1, <1>2, <2>3, HideMyEmailAssumption DEF Pending, ServiceOK
    <3>. QED
      BY <1>1, <1>2, <2>3, <3>1 DEF ServiceOK, CountsOK, Existing
  <2>. QED
    BY <2>1, <2>2, <2>3 DEF Unanswered
<1>4. /\ CallOK' /\ BudgetOK'
      /\ call'.step = "reserve" => call.step = "reserve" /\ call'.target = call.target
  <2>1. CASE /\ call.tries < Attempts(call.step)
             /\ call' = [call EXCEPT !.tries = @ + 1] /\ UNCHANGED <<resolved, result>>
    <3>1. /\ call' \in Call /\ call'.op = call.op /\ call'.step = call.step
          /\ call'.tries = call.tries + 1
          /\ call'.round = call.round /\ call'.target = call.target
      BY <2>1 DEF CallOK, Call
    <3>2. call.op # "none" /\ call'.tries \in 1..Attempts(call.step)
      BY <1>1, <2>1, <3>1, AttemptsPositive DEF CallOK
    <3>. QED
      BY <1>1, <2>1, <3>1, <3>2 DEF CallOK, BudgetOK
  <2>2. CASE AfterError(TRUE)
    <3>1. offered \in Nat
      BY DEF ServiceOK
    <3>. QED
      BY <1>1, <2>2, <3>1, ErrorKeeps
  <2>. QED
    BY <2>1, <2>2 DEF Unanswered
<1>5. ToldOK'
  BY <1>1, <1>3, <1>4 DEF ToldOK
<1>. QED
  BY <1>1, <1>3, <1>4, <1>5 DEF CountsOK

LEMMA BrokenOffKeeps ==
    ASSUME IInv, BrokenOff
    PROVE  IInv'
<1>. USE DEF IInv
<1>1. /\ call # NoCall /\ call.target \in 1..offered /\ faults' \in 0..MaxFaults
      /\ UNCHANGED <<offered, late, calls, creates, told>> /\ offered \in Nat
  BY NoCallFields, HideMyEmailAssumption DEF BrokenOff, CallOK, CountsOK, ServiceOK
<1>2. /\ alias' \in [Addresses -> States] /\ seen' \subseteq States
      /\ \A b \in Addresses : alias'[b] = "free" <=> b > offered
      /\ Existing \subseteq Existing'
  BY <1>1, AliasChanges, AfterKept DEF BrokenOff
<1>3. ServiceOK'
  BY <1>1, <1>2 DEF ServiceOK, Pending
<1>4. CallOK' /\ BudgetOK' /\ call'.step # "reserve"
  BY <1>1, ErrorKeeps DEF BrokenOff
<1>. QED
  BY <1>1, <1>2, <1>3, <1>4 DEF ToldOK, CountsOK

LEMMA OtherAnswersKeep ==
    ASSUME IInv, Validated \/ Listed \/ \E retryable \in BOOLEAN : Refused(retryable)
    PROVE  IInv'
<1>. USE DEF IInv
<1>1. UNCHANGED <<alias, offered, late, calls, creates, faults, told, seen>>
  BY DEF Validated, Listed, Refused
<1>2. ServiceOK' /\ CountsOK' /\ told' \subseteq Existing'
  BY <1>1 DEF ServiceOK, CountsOK, ToldOK, Existing
<1>3. CallOK' /\ BudgetOK' /\ call'.step # "reserve"
  <2>1. CASE Validated
    <3>1. /\ call.op # "none" /\ call.op \in Ops /\ FirstStep(call.op) \in Steps
          /\ FirstStep(call.op) # "reserve"
      BY <2>1, CallFields, NoCallFields DEF Validated, CallOK
    <3>2. /\ call' \in Call /\ call'.op = call.op /\ call'.step = FirstStep(call.op)
          /\ call'.tries \in 1..Attempts(call'.step)
          /\ call'.round = call.round /\ call'.target = call.target
      BY <2>1, <3>1, GotoFields DEF Validated
    <3>. QED
      BY <2>1, <3>1, <3>2 DEF Validated, CallOK, BudgetOK
  <2>2. CASE Listed
    BY <2>2, NoCallFields DEF Listed, End, CallOK, BudgetOK
  <2>3. CASE \E retryable \in BOOLEAN : Refused(retryable)
    <3>1. offered \in Nat
      BY DEF ServiceOK
    <3>. QED
      BY <1>1, <2>3, <3>1, ErrorKeeps DEF Refused
  <2>. QED
    BY <2>1, <2>2, <2>3
<1>. QED
  BY <1>1, <1>2, <1>3 DEF ToldOK

LEMMA ServiceKeeps ==
    ASSUME IInv, NEW a \in 1..offered,
           NEW state \in {alias[a], "active", "inactive", "deleted"},
           SetAlias(a, state), late' \subseteq late,
           UNCHANGED <<offered, resolved, call, result, calls, creates, faults, told>>
    PROVE  IInv'
<1>. USE DEF IInv
<1>1. /\ alias' \in [Addresses -> States] /\ seen' \subseteq States
      /\ \A b \in Addresses : alias'[b] = "free" <=> b > offered
      /\ Existing \subseteq Existing'
  BY AliasChanges
<1>2. ServiceOK'
  BY <1>1 DEF ServiceOK, Pending
<1>3. CallOK' /\ BudgetOK'
  BY DEF CallOK, BudgetOK
<1>. QED
  BY <1>1, <1>2, <1>3 DEF ToldOK, CountsOK
-----------------------------------------------------------------------------
THEOREM Invariance == Spec => []IInv
<1>1. Init => IInv
  <2>. SUFFICES ASSUME Init PROVE IInv
    OBVIOUS
  <2>. USE NoCallFields, HideMyEmailAssumption DEF Init
  <2>1. CallOK
    BY DEF CallOK
  <2>2. BudgetOK /\ ToldOK /\ CountsOK
    BY DEF BudgetOK, ToldOK, CountsOK, Existing
  <2>3. ServiceOK
    BY DEF ServiceOK
  <2>. QED
    BY <2>1, <2>2, <2>3 DEF IInv
<1>2. IInv /\ [Next]_vars => IInv'
  <2>. SUFFICES ASSUME IInv, [Next]_vars PROVE IInv'
    OBVIOUS
  <2>1. CASE BeginCall
    BY <2>1, BeginKeeps DEF BeginCall, Existing
  <2>2. CASE Request
    BY <2>2, GeneratedKeeps, ConfirmedKeeps, UnansweredKeeps, BrokenOffKeeps,
       OtherAnswersKeep DEF Request
  <2>3. ASSUME NEW r \in late, ArrivesLate(r) PROVE IInv'
    <3>1. r.target \in 1..offered /\ late' \subseteq late
      BY <2>3 DEF IInv, ServiceOK, Pending, ArrivesLate
    <3>. QED
      BY <2>3, <3>1, AfterKept, ServiceKeeps DEF ArrivesLate
  <2>4. ASSUME NEW a \in Existing, NEW step, OtherDevice(a, step) PROVE IInv'
    <3>1. a \in 1..offered
      BY DEF Existing, IInv, ServiceOK
    <3>. QED
      BY <2>4, <3>1, GoalReached, ServiceKeeps DEF OtherDevice
  <2>5. CASE UNCHANGED vars
    BY <2>5 DEF vars, IInv, CallOK, BudgetOK, ServiceOK, ToldOK, CountsOK, Existing
  <2>. QED
    BY <2>1, <2>2, <2>3, <2>4, <2>5 DEF Next
<1>. QED
  BY <1>1, <1>2, PTL DEF Spec

(* Types; no method goes on without a service, and a write has an address. *)
THEOREM TypeCorrect == Spec => []TypeOK
<1>1. IInv => TypeOK
  BY AttemptsPositive, CallFields, NoCallFields, HideMyEmailAssumption
     DEF IInv, CallOK, ServiceOK, ToldOK, CountsOK, TypeOK, Existing
<1>. QED
  BY <1>1, Invariance, PTL

(* Every step of the client, of the service and of late requests is a step *)
(* of AliasCreation or none: the addresses that exist never outnumber the  *)
(* rounds of the calls so far.                                             *)
THEOREM CreationKeepsItsPromise == Spec => CreationBounded
<1>. USE DEF Promise!Next, Promise!vars, Promise!Begin, Promise!Make, Promise!Succeed,
             Promise!Fail, Promise!Allowed
<1>1. Init => Promise!Init
  BY NoCallFields DEF Init, Promise!Init, Existing
<1>2. IInv /\ IInv' /\ [Next]_vars => [Promise!Next]_(Promise!vars)
  <2>. SUFFICES ASSUME IInv, IInv', [Next]_vars
                PROVE  [Promise!Next]_(Promise!vars)
    OBVIOUS
  <2>. USE DEF IInv
  <2>1. 1..offered \subseteq 1..(MaxRounds * creates)
    BY HideMyEmailAssumption DEF BudgetOK, ServiceOK, CountsOK
  <2>2. CASE BeginCall
    BY <2>2, NoCallFields DEF BeginCall, Begin, Existing
  <2>3. CASE Confirmed
    <3>1. call.target \in 1..offered
      BY <2>3, CallFields DEF Confirmed, CallOK
    <3>2. /\ Existing \subseteq Existing' /\ Existing' \subseteq Existing \cup {call.target}
          /\ call.target \in Existing'
      BY <2>3, <3>1, AliasChanges, GoalReached DEF Confirmed
    <3>3. CASE call.op = "create"
      <4>1. call'.op = "none" /\ call.target \notin told
        BY <2>3, <3>3, NoCallFields DEF Confirmed, CallOK, ToldOK, End
      <4>. QED
        BY <2>1, <2>3, <3>1, <3>2, <3>3, <4>1 DEF Confirmed
    <3>4. CASE call.op # "create"
      <4>1. call'.op # "create" /\ UNCHANGED <<creates, told>>
        BY <2>3, <3>4, GotoFields, NoCallFields DEF Confirmed, End
      <4>. QED
        BY <2>1, <3>1, <3>2, <3>4, <4>1
    <3>. QED
      BY <3>3, <3>4
  <2>4. CASE Unanswered
    <3>1. /\ Existing' = Existing \/ \E a \in 1..offered : Existing' = Existing \cup {a}
          /\ UNCHANGED <<creates, told>>
      <4>1. call.step \in Writes => call.target \in 1..offered
        BY DEF CallOK
      <4>2. CASE UNCHANGED alias
        BY <2>4, <4>2 DEF Unanswered, Existing
      <4>3. CASE /\ call.step \in Writes
                 /\ SetAlias(call.target, After(call.step, alias[call.target]))
        <5>1. Existing \subseteq Existing' /\ Existing' \subseteq Existing \cup {call.target}
          BY <2>4, <4>1, <4>3, AliasChanges, AfterKept DEF Unanswered
        <5>. QED
          BY <2>4, <4>1, <4>3, <5>1 DEF Unanswered
      <4>. QED
        BY <2>4, <4>2, <4>3 DEF Unanswered
    <3>2. call'.op = "create" => call.op = "create"
      <4>1. CASE call' = [call EXCEPT !.tries = @ + 1]
        BY <4>1 DEF CallOK, Call
      <4>2. CASE AfterError(TRUE)
        <5>1. /\ offered \in Nat /\ call # NoCall /\ UNCHANGED <<offered, creates>>
          BY <2>4 DEF Unanswered, ServiceOK
        <5>. QED
          BY <4>2, <5>1, ErrorKeeps
      <4>. QED
        BY <2>4, <4>1, <4>2 DEF Unanswered
    <3>. QED
      BY <2>1, <3>1, <3>2
  <2>5. CASE Validated \/ Listed \/ \E retryable \in BOOLEAN : Refused(retryable)
    <3>1. UNCHANGED <<alias, creates, told>>
      BY <2>5 DEF Validated, Listed, Refused
    <3>2. call'.op = "create" => call.op = "create"
      <4>1. CASE Validated
        BY <4>1, GotoFields, CallFields, NoCallFields DEF Validated, CallOK
      <4>2. CASE Listed
        BY <4>2, NoCallFields DEF Listed, End
      <4>3. CASE \E retryable \in BOOLEAN : Refused(retryable)
        <5>1. /\ offered \in Nat /\ call # NoCall /\ UNCHANGED <<offered, creates>>
          BY <4>3 DEF Refused, ServiceOK
        <5>. QED
          BY <4>3, <5>1, ErrorKeeps DEF Refused
      <4>. QED
        BY <2>5, <4>1, <4>2, <4>3
    <3>. QED
      BY <3>1, <3>2 DEF Existing
  <2>6. CASE Generated
    <3>1. offered' \in Addresses /\ offered' > offered
      BY <2>6 DEF Generated, ServiceOK
    <3>2. Existing' = Existing
      BY <2>6, <3>1 DEF Generated, ServiceOK, Existing
    <3>. QED
      BY <2>6, <3>2, GotoFields DEF Generated, CallOK, Goto, Call
  <2>7. ASSUME NEW r \in late, ArrivesLate(r) PROVE [Promise!Next]_(Promise!vars)
    <3>1. r.target \in 1..offered
      BY <2>7 DEF ServiceOK, Pending
    <3>2. Existing \subseteq Existing' /\ Existing' \subseteq Existing \cup {r.target}
      BY <2>7, <3>1, AliasChanges, AfterKept DEF ArrivesLate
    <3>. QED
      BY <2>1, <2>7, <3>1, <3>2 DEF ArrivesLate
  <2>8. ASSUME NEW a \in Existing, NEW step, OtherDevice(a, step)
        PROVE  [Promise!Next]_(Promise!vars)
    <3>1. a \in 1..offered
      BY DEF Existing, ServiceOK
    <3>2. Existing \subseteq Existing' /\ Existing' \subseteq Existing \cup {a}
      BY <2>8, <3>1, AliasChanges, GoalReached DEF OtherDevice
    <3>. QED
      BY <2>8, <3>2 DEF OtherDevice
  <2>9. CASE BrokenOff
    <3>1. call.target \in 1..offered /\ call # NoCall /\ offered \in Nat
      BY <2>9, NoCallFields DEF BrokenOff, CallOK, ServiceOK
    <3>2. Existing \subseteq Existing' /\ Existing' \subseteq Existing \cup {call.target}
      BY <2>9, <3>1, AliasChanges, AfterKept DEF BrokenOff
    <3>3. UNCHANGED <<creates, told>> /\ (call'.op = "create" => call.op = "create")
      BY <2>9, <3>1, ErrorKeeps DEF BrokenOff
    <3>. QED
      BY <2>1, <3>1, <3>2, <3>3
  <2>10. CASE UNCHANGED vars
    BY <2>10 DEF vars, Existing
  <2>. QED
    BY <2>2, <2>3, <2>4, <2>5, <2>6, <2>7, <2>8, <2>9, <2>10 DEF Next, Request
<1>. QED
  BY <1>1, <1>2, Invariance, PTL DEF Spec, CreationBounded, Promise!Spec
-----------------------------------------------------------------------------
(* Which steps belong to which method; no result before the end of a call. *)
StepsOK ==
    /\ call.op # "none" => result = "none"
    /\ call.step \in {"list", "deactivate", "reactivate"} => call.op = call.step
    /\ call.step \in {"delete", "deactivateFirst", "deleteAgain"} => call.op = "delete"

LEMMA EndedOK ==
    ASSUME call' = NoCall
    PROVE  StepsOK'
BY NoCallFields DEF StepsOK

LEMMA ErrorStepsOK ==
    ASSUME CallOK, StepsOK, call # NoCall, NEW retryable \in BOOLEAN, AfterError(retryable)
    PROVE  StepsOK' /\ (result' = "ok" => result = "ok")
<1>1. CASE /\ retryable /\ Again
           /\ call' = [Goto("validate") EXCEPT !.round = @ + 1, !.target = NoAddress]
           /\ resolved' = FALSE /\ UNCHANGED result
  <2>1. call.round < MaxRounds
    BY <1>1 DEF Again
  <2>2. call'.op = call.op /\ call'.step = "validate"
    BY <1>1, <2>1, RoundFields
  <2>. QED
    BY <1>1, <2>2 DEF StepsOK
<1>2. CASE DeleteAnyway
  <2>1. /\ call.op = "delete" /\ call'.op = "delete" /\ result' = result
        /\ call'.step \in {"deactivateFirst", "deleteAgain"}
    BY <1>2, GotoFields DEF DeleteAnyway, StepsOK
  <2>. QED
    BY <2>1 DEF StepsOK
<1>3. CASE End("failed") /\ UNCHANGED resolved
  BY <1>3, EndedOK DEF End
<1>. QED
  BY <1>1, <1>2, <1>3 DEF AfterError

(* A step keeps this and announces no success that is not true. *)
Achieved(op) == (IF op = "create" THEN "active" ELSE Goal(op)) \in seen'

LEMMA ConfirmedTrue ==
    ASSUME IInv, StepsOK, Confirmed
    PROVE  StepsOK' /\ (result' = "ok" => Achieved(call.op))
<1>1. /\ call.step \in Writes /\ SetAlias(call.target, Goal(call.step))
      /\ Goal(call.step) \in seen'
  BY DEF Confirmed, SetAlias
<1>2. CASE call.step = "deactivateFirst"
  <2>1. call' = Goto("deleteAgain") /\ result' = result /\ call.op = "delete"
    BY <1>2 DEF Confirmed, StepsOK
  <2>2. result = "none"
    BY <2>1 DEF StepsOK
  <2>3. call'.op = "delete" /\ call'.step = "deleteAgain"
    BY <2>1, GotoFields DEF IInv
  <2>. QED
    BY <2>1, <2>2, <2>3 DEF StepsOK
<1>3. CASE call.step # "deactivateFirst"
  <2>1. StepsOK'
    BY <1>3, EndedOK DEF Confirmed, End
  <2>2. Achieved(call.op)
    <3>1. CASE call.step = "reserve"
      <4>1. call.op = "create" /\ Goal("reserve") = "active"
        BY <3>1 DEF IInv, CallOK, Goal
      <4>. QED
        BY <1>1, <3>1, <4>1 DEF Achieved
    <3>2. CASE call.step \in {"deactivate", "reactivate"}
      <4>1. call.op = call.step /\ call.op # "create"
        BY <3>2 DEF StepsOK
      <4>. QED
        BY <1>1, <4>1 DEF Achieved
    <3>3. CASE call.step \in {"delete", "deleteAgain"}
      <4>1. call.op = "delete" /\ Goal("delete") = "deleted" /\ Goal("deleteAgain") = "deleted"
        BY <3>3 DEF StepsOK, Goal
      <4>. QED
        BY <1>1, <3>3, <4>1 DEF Achieved
    <3>. QED
      BY <1>1, <1>3, <3>1, <3>2, <3>3
  <2>. QED
    BY <2>1, <2>2
<1>. QED
  BY <1>2, <1>3

LEMMA StepsKept ==
    ASSUME IInv, StepsOK, Next
    PROVE  StepsOK' /\ (result' = "ok" /\ call.op \in Ops \ {"list"} => Achieved(call.op))
<1>. USE DEF IInv
<1>1. call.op \in Ops => result # "ok"
  BY DEF StepsOK
<1>2. CASE BeginCall
  <2>1. PICK op \in Ops, a \in Existing \cup {NoAddress} : Begin(op, a)
    BY <1>2 DEF BeginCall
  <2>2. call = NoCall /\ result' = "none"
    BY <2>1 DEF Begin
  <2>3. call'.op = op /\ call'.step \in {FirstStep(op), "validate"}
    BY <2>1 DEF Begin
  <2>. QED
    BY <2>2, <2>3, NoCallFields DEF StepsOK, FirstStep
<1>3. CASE Validated
  <2>1. result' = result /\ call.step = "validate" /\ call.op \in Ops
    BY <1>3, CallFields, NoCallFields DEF Validated, CallOK
  <2>2. FirstStep(call.op) \in Steps /\ call' = Goto(FirstStep(call.op))
    BY <1>3, <2>1 DEF Validated, FirstStep
  <2>3. call'.op = call.op /\ call'.step = FirstStep(call.op)
    BY <2>2, GotoFields
  <2>. QED
    BY <1>1, <2>1, <2>3 DEF StepsOK, FirstStep
<1>4. CASE Listed
  <2>1. call.op = "list" /\ call' = NoCall
    BY <1>4 DEF Listed, End, StepsOK
  <2>. QED
    BY <2>1, EndedOK
<1>5. CASE Generated
  <2>1. result' = result /\ call.op = "create" /\ call.step = "generate"
    BY <1>5 DEF Generated, CallOK
  <2>2. call'.op = call.op /\ call'.step = "reserve"
    BY <1>5, GotoFields DEF Generated, Call
  <2>. QED
    BY <1>1, <2>1, <2>2 DEF StepsOK
<1>6. CASE Confirmed
  BY <1>6, ConfirmedTrue
<1>7. CASE \E retryable \in BOOLEAN : Refused(retryable)
  BY <1>1, <1>7, ErrorStepsOK DEF Refused
<1>8. CASE Unanswered
  <2>1. CASE call' = [call EXCEPT !.tries = @ + 1] /\ UNCHANGED <<resolved, result>>
    <3>1. call'.op = call.op /\ call'.step = call.step
      BY <2>1 DEF CallOK, Call
    <3>. QED
      BY <1>1, <2>1, <3>1 DEF StepsOK
  <2>2. CASE AfterError(TRUE)
    BY <1>1, <1>8, <2>2, ErrorStepsOK DEF Unanswered
  <2>. QED
    BY <1>8, <2>1, <2>2 DEF Unanswered
<1>9. CASE BrokenOff
  BY <1>1, <1>9, NoCallFields, ErrorStepsOK DEF BrokenOff
<1>10. CASE UNCHANGED <<call, result>>
  BY <1>1, <1>10 DEF StepsOK
<1>11. ASSUME NEW r \in late, ArrivesLate(r) PROVE UNCHANGED <<call, result>>
  BY <1>11 DEF ArrivesLate
<1>12. ASSUME NEW a \in Existing, NEW step, OtherDevice(a, step) PROVE UNCHANGED <<call, result>>
  BY <1>12 DEF OtherDevice
<1>. QED
  BY <1>2, <1>3, <1>4, <1>5, <1>6, <1>7, <1>8, <1>9, <1>10, <1>11, <1>12 DEF Next, Request

(* A method that answers with a success has brought the alias into the     *)
(* state asked for, or found it there, at some moment of the call.         *)
THEOREM SuccessesAreTrue == Spec => AnswersTrue
<1>1. Init => StepsOK
  BY EndedOK, NoCallFields DEF Init, StepsOK
<1>2. IInv /\ StepsOK /\ [Next]_vars => StepsOK'
  <2>1. StepsOK /\ UNCHANGED vars => StepsOK'
    BY DEF StepsOK, vars
  <2>. QED
    BY <2>1, StepsKept
<1>3. IInv /\ StepsOK /\ [Next]_vars =>
        [result' = "ok" /\ call.op \in Ops \ {"list"} =>
           (IF call.op = "create" THEN "active" ELSE Goal(call.op)) \in seen']_vars
  BY StepsKept DEF Achieved
<1>. QED
  BY <1>1, <1>2, <1>3, Invariance, PTL DEF Spec, AnswersTrue
=============================================================================
