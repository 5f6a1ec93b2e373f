---------------------------- MODULE Administrator ----------------------------
(***************************************************************************)
(* What the platform promises about its administrator, whatever fails: he  *)
(* is appointed once, what is on disk is never taken back or replaced, and *)
(* the service knows nothing that is not on disk.                          *)
(***************************************************************************)
CONSTANTS
    Names,   \* the credentials somebody may ask to be appointed with
    NoAdmin

VARIABLES
    appointed, \* what survives a restart
    known      \* what the running service answers

vars == <<appointed, known>>

Init == /\ appointed \in Names \cup {NoAdmin}
        /\ known = appointed

Appoint(n) == /\ appointed = NoAdmin
              /\ appointed' = n
              /\ UNCHANGED known

Publish == /\ known' = appointed
           /\ UNCHANGED appointed

Next == Publish \/ \E n \in Names : Appoint(n)

Spec == Init /\ [][Next]_vars
=============================================================================
