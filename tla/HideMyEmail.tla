---------------------------- MODULE HideMyEmail ----------------------------
(***************************************************************************)
(* The Hide My Email client of src/internal/hme/client.go against the      *)
(* service it calls: CreateAlias, DeactivateHME, ReactivateHME, Delete and *)
(* ListAliases as sequences of HTTP requests, each repeated by request     *)
(* while its failure is of a kind that src/internal/upstream/error.go      *)
(* calls retryable.  The account's operation lock lets one call run at a   *)
(* time.                                                                   *)
(*                                                                         *)
(* The service may carry out a request whose answer is lost, or carry it   *)
(* out late, when the client has given up on it; other devices change      *)
(* aliases too.  Addresses are numbered as the service offers them.        *)
(* Cookies, headers and what is read out of a body are left out.           *)
(***************************************************************************)
EXTENDS Naturals

CONSTANTS
    MaxRounds,        \* maxRetries of CreateAlias
    ValidateAttempts, \* MaxRetries: attempts of validate and list
    WriteAttempts,    \* attempts of the others
    MaxAddresses,     \* bound: addresses ever offered
    MaxCalls,         \* bound: calls
    MaxFaults         \* bound: answers that are lost or break off

ASSUME HideMyEmailAssumption ==
    /\ MaxRounds \in Nat \ {0}
    /\ ValidateAttempts \in Nat \ {0} /\ WriteAttempts \in Nat \ {0}
    /\ MaxAddresses \in Nat /\ MaxCalls \in Nat /\ MaxFaults \in Nat

VARIABLES
    alias,    \* the service: the state of each address
    offered,  \* the service: addresses offered so far
    late,     \* requests on their way that the client has given up on
    resolved, \* serviceURL is set
    call,     \* the call under way and its current request
    result,   \* how the last call ended
    calls,    \* calls so far
    creates,  \* those of CreateAlias
    faults,   \* answers lost or broken off so far
    told,     \* addresses that CreateAlias has returned
    seen      \* states the alias of this call had since the call knows it

service == <<alias, offered, late>>
vars == <<service, resolved, call, result, calls, creates, faults, told, seen>>

Addresses == 1..MaxAddresses
NoAddress == 0
States    == {"free", "offered", "active", "inactive", "deleted"}
Existing  == {a \in Addresses : alias[a] \notin {"free", "offered"}}
Ops       == {"create", "deactivate", "reactivate", "delete", "list"}
Writes    == {"reserve", "deactivate", "reactivate", "delete", "deactivateFirst", "deleteAgain"}
Steps     == {"validate", "list", "generate"} \cup Writes
Call      == [op     : Ops \cup {"none"},
              step   : Steps \cup {"none"},
              tries  : Nat,                        \* attempt of request
              round  : 0..MaxRounds,               \* attempt of CreateAlias
              target : Addresses \cup {NoAddress}]
NoCall    == [op |-> "none", step |-> "none", tries |-> 0, round |-> 0, target |-> NoAddress]

Attempts(step) == IF step \in {"validate", "list"} THEN ValidateAttempts ELSE WriteAttempts
FirstStep(op)  == IF op = "create" THEN "generate" ELSE op
Goto(step)     == [call EXCEPT !.step = step, !.tries = 1]

Init ==
    /\ alias = [a \in Addresses |-> "free"]
    /\ offered = 0 /\ late = {}
    /\ resolved = FALSE
    /\ call = NoCall /\ result = "none"
    /\ calls = 0 /\ creates = 0 /\ faults = 0
    /\ told = {} /\ seen = {}
-----------------------------------------------------------------------------
(* The service.                                                            *)

(* The state a request asks for, and the states it changes into it.        *)
Goal(step) == CASE step \in {"reserve", "reactivate"} -> "active"
                [] step \in {"deactivate", "deactivateFirst"} -> "inactive"
                [] OTHER -> "deleted"

From(step) == CASE step = "reserve" -> {"offered"}
                [] step = "reactivate" -> {"inactive"}
                [] step \in {"deactivate", "deactivateFirst"} -> {"active"}
                [] OTHER -> {"active", "inactive"}

After(step, state) == IF state \in From(step) THEN Goal(step) ELSE state

SetAlias(a, state) ==
    /\ alias' = [alias EXCEPT ![a] = state]
    /\ seen' = IF a = call.target THEN seen \cup {state} ELSE seen

(* A request the client no longer waits for reaches the service.           *)
ArrivesLate(r) ==
    /\ late' = late \ {r}
    /\ SetAlias(r.target, After(r.step, alias[r.target]))
    /\ UNCHANGED <<offered, resolved, call, result, calls, creates, faults, told>>

OtherDevice(a, step) ==
    /\ alias[a] \in From(step)
    /\ SetAlias(a, Goal(step))
    /\ UNCHANGED <<offered, late, resolved, call, result, calls, creates, faults, told>>
-----------------------------------------------------------------------------
(* A call begins and ends.                                                 *)

(* Every method resolves the service first, which is a validate request    *)
(* unless an earlier call has done it.                                     *)
Begin(op, a) ==
    /\ call = NoCall
    /\ calls < MaxCalls
    /\ calls' = calls + 1
    /\ creates' = IF op = "create" THEN creates + 1 ELSE creates
    /\ call' = [op |-> op, step |-> IF resolved THEN FirstStep(op) ELSE "validate",
                tries |-> 1, round |-> IF op = "create" THEN 1 ELSE 0, target |-> a]
    /\ result' = "none"
    /\ seen' = IF a = NoAddress THEN {} ELSE {alias[a]}
    /\ UNCHANGED <<service, resolved, faults, told>>

BeginCall ==
    \/ \E op \in {"create", "list"} : Begin(op, NoAddress)
    \/ \E op \in {"deactivate", "reactivate", "delete"}, a \in Existing : Begin(op, a)

End(how) == call' = NoCall /\ result' = how

Again == call.op = "create" /\ call.round < MaxRounds

(* Delete deactivates and deletes again, whatever the failures were.       *)
DeleteAnyway ==
    /\ \/ call.step = "delete" /\ call' = Goto("deactivateFirst")
       \/ call.step = "deactivateFirst" /\ call' = Goto("deleteAgain")
    /\ UNCHANGED <<resolved, result>>

(* Broken variant: one round too many. *)
AfterErrorLate(retryable) ==
    \/ /\ retryable /\ call.op = "create" /\ call.round <= MaxRounds
       /\ call' = [Goto("validate") EXCEPT !.round = @ + 1, !.target = NoAddress]
       /\ resolved' = FALSE /\ UNCHANGED result
    \/ DeleteAnyway
    \/ /\ ~(retryable /\ call.op = "create" /\ call.round <= MaxRounds)
       /\ call.step \notin {"delete", "deactivateFirst"}
       /\ End("failed") /\ UNCHANGED resolved

(* Broken variant: another round goes on without a service. *)
AfterErrorUnresolved(retryable) ==
    \/ /\ retryable /\ Again
       /\ call' = [Goto("generate") EXCEPT !.round = @ + 1, !.target = NoAddress]
       /\ resolved' = FALSE /\ UNCHANGED result
    \/ DeleteAnyway
    \/ /\ ~(retryable /\ Again) /\ call.step \notin {"delete", "deactivateFirst"}
       /\ End("failed") /\ UNCHANGED resolved

(* The request has failed for good.  CreateAlias begins another round,     *)
(* with another address, if the failure was retryable; Delete goes on.     *)
AfterError(retryable) ==
    \/ /\ retryable /\ Again
       /\ call' = [Goto("validate") EXCEPT !.round = @ + 1, !.target = NoAddress]
       /\ resolved' = FALSE /\ UNCHANGED result
    \/ DeleteAnyway
    \/ /\ ~(retryable /\ Again) /\ call.step \notin {"delete", "deactivateFirst"}
       /\ End("failed") /\ UNCHANGED resolved
-----------------------------------------------------------------------------
(* One request, by the outcome of one attempt.                             *)

(* ValidateSession: the answer names the service.                          *)
Validated ==
    /\ call.step = "validate"
    /\ resolved' = TRUE
    /\ call' = Goto(FirstStep(call.op))
    /\ UNCHANGED <<service, result, calls, creates, faults, told, seen>>

Listed ==
    /\ call.step = "list"
    /\ End("ok")
    /\ UNCHANGED <<service, resolved, calls, creates, faults, told, seen>>

(* Generate: a candidate, which is nobody's until it is reserved.          *)
Generated ==
    /\ call.step = "generate"
    /\ offered < MaxAddresses
    /\ offered' = offered + 1
    /\ alias' = [alias EXCEPT ![offered'] = "offered"]
    /\ call' = [Goto("reserve") EXCEPT !.target = offered']
    /\ seen' = {"offered"}
    /\ UNCHANGED <<late, resolved, result, calls, creates, faults, told>>

(* The service confirms what was asked for, and what is the case already.  *)
Confirmed ==
    /\ call.step \in Writes
    /\ After(call.step, alias[call.target]) = Goal(call.step)
    /\ SetAlias(call.target, Goal(call.step))
    /\ IF call.step = "deactivateFirst"
       THEN call' = Goto("deleteAgain") /\ UNCHANGED result
       ELSE End("ok")
    /\ told' = IF call.op = "create" THEN told \cup {call.target} ELSE told
    /\ UNCHANGED <<offered, late, resolved, calls, creates, faults>>

(* Broken variant: an answer that does not confirm the deletion will do. *)
RefusedUnread(retryable) ==
    /\ call # NoCall
    /\ IF call.step = "deleteAgain" THEN End("ok") /\ UNCHANGED resolved
                                    ELSE AfterError(retryable)
    /\ UNCHANGED <<service, calls, creates, faults, told, seen>>

(* A status that request does not repeat, or an answer without success:    *)
(* the code in it decides whether CreateAlias takes it for retryable.  A   *)
(* generate that succeeds without a candidate ends here too: Reserve then  *)
(* asks for no address, which the service is assumed to refuse.            *)
Refused(retryable) ==
    /\ call # NoCall
    /\ AfterError(retryable)
    /\ UNCHANGED <<service, calls, creates, faults, told, seen>>

Pending == [id : 1..MaxFaults, step : Writes, target : Addresses]

(* A timeout, a lost connection or a status of an unavailable service: the *)
(* request was carried out, or is yet to be, or never will.                *)
Unanswered ==
    /\ call # NoCall
    /\ faults < MaxFaults
    /\ faults' = faults + 1
    /\ IF call.step \in Writes
       THEN \/ UNCHANGED <<alias, late, seen>>
            \/ /\ SetAlias(call.target, After(call.step, alias[call.target]))
               /\ UNCHANGED late
            \/ /\ late' = late \cup
                     {[id |-> faults', step |-> call.step, target |-> call.target]}
               /\ UNCHANGED <<alias, seen>>
       ELSE UNCHANGED <<alias, late, seen>>
    /\ IF call.tries < Attempts(call.step)
       THEN call' = [call EXCEPT !.tries = @ + 1] /\ UNCHANGED <<resolved, result>>
       ELSE AfterError(TRUE)
    /\ UNCHANGED <<offered, calls, creates, told>>

(* The request was carried out and its answer breaks off: request does not *)
(* look at the error of reading it, and what it has read confirms nothing. *)
BrokenOff ==
    /\ call.step \in Writes
    /\ faults < MaxFaults
    /\ faults' = faults + 1
    /\ SetAlias(call.target, After(call.step, alias[call.target]))
    /\ AfterError(FALSE)
    /\ UNCHANGED <<offered, late, calls, creates, told>>
-----------------------------------------------------------------------------
Request ==
    \/ Validated \/ Listed \/ Generated \/ Confirmed
    \/ \E retryable \in BOOLEAN : Refused(retryable)
    \/ Unanswered
    \/ BrokenOff

Next ==
    \/ BeginCall
    \/ Request
    \/ \E r \in late : ArrivesLate(r)
    \/ \E a \in Existing, step \in {"deactivate", "reactivate", "delete"} : OtherDevice(a, step)

(* An attempt ends within its timeout.                                     *)
Fairness == WF_vars(Request)

Spec == Init /\ [][Next]_vars /\ Fairness
-----------------------------------------------------------------------------
(* Every variable keeps its type; no method goes on without a service, and *)
(* a write has an address the service has offered.                         *)
TypeOK ==
    /\ alias \in [Addresses -> States]
    /\ offered \in 0..MaxAddresses
    /\ late \subseteq Pending
    /\ resolved \in BOOLEAN
    /\ call \in Call /\ call.tries <= Attempts(call.step)
    /\ result \in {"none", "ok", "failed"}
    /\ calls \in 0..MaxCalls /\ creates \in 0..calls /\ faults \in 0..MaxFaults
    /\ told \subseteq Addresses
    /\ seen \subseteq States
    /\ call.step \notin {"none", "validate"} => resolved
    /\ call.step \in Writes => call.target \in 1..offered
    /\ \A a \in Addresses : alias[a] = "free" <=> a > offered

(* A success is true: the alias was, at some moment of the call, in the    *)
(* state that was asked for, whatever requests were lost, repeated or late. *)
AnswersTrue ==
    [][result' = "ok" /\ call.op \in Ops \ {"list"} =>
         (IF call.op = "create" THEN "active" ELSE Goal(call.op)) \in seen']_vars

(* Every call is answered, however many rounds and repetitions it takes,   *)
(* and truly when it succeeds.                                             *)
CallsAnswered == AnswersTrue /\ (call # NoCall ~> call = NoCall)

(* CreateAlias keeps the promise of AliasCreation, on which the automation *)
(* run rests: at most one alias for each of its rounds, however often and  *)
(* late its requests take effect, and at most one that it reports.         *)
Promise == INSTANCE AliasCreation WITH
    Rounds <- MaxRounds, calls <- creates, busy <- call.op = "create",
    made <- Existing, told <- told
CreationBounded == Promise!Spec
=============================================================================
