--------------------------- MODULE AliasCreation ---------------------------
(***************************************************************************)
(* What callers of CreateAlias may rely on when answers of the service get *)
(* lost: a call that succeeds reports an alias that exists and was not     *)
(* reported before, and no call ever leaves more than Rounds aliases,      *)
(* whether it succeeds, fails or has long ended when the last of its       *)
(* requests takes effect.  Aliases are numbered in the order in which      *)
(* their addresses were offered.                                           *)
(***************************************************************************)
EXTENDS Naturals

CONSTANT Rounds \* attempts of one call

VARIABLES
    calls, \* calls so far
    busy,  \* a call is under way
    made,  \* the aliases ever created by way of these calls
    told   \* those that were reported to a caller

vars == <<calls, busy, made, told>>

Allowed == 1..(Rounds * calls)

Init == calls = 0 /\ busy = FALSE /\ made = {} /\ told = {}

Begin ==
    /\ ~busy /\ busy' = TRUE
    /\ calls' = calls + 1
    /\ UNCHANGED <<made, told>>

(* An alias nobody is told of, or not yet. *)
Make ==
    /\ \E a \in Allowed : made' = made \cup {a}
    /\ UNCHANGED <<calls, busy, told>>

Succeed ==
    /\ busy /\ busy' = FALSE
    /\ \E a \in Allowed \ told : told' = told \cup {a} /\ made' = made \cup {a}
    /\ UNCHANGED calls

(* The answer to the last request may be among those that were lost. *)
Fail ==
    /\ busy /\ busy' = FALSE
    /\ made' = made \/ \E a \in Allowed : made' = made \cup {a}
    /\ UNCHANGED <<calls, told>>

Next == Begin \/ Make \/ Succeed \/ Fail

Spec == Init /\ [][Next]_vars
=============================================================================
