------------------------------- MODULE Mirror -------------------------------
(***************************************************************************)
(* What the live view promises of the copies the page keeps, whatever      *)
(* becomes of streams, timers and requests: for every network the page     *)
(* shows a state its cache has been in, and what it shows next is later.   *)
(* LiveView implements it.                                                 *)
(***************************************************************************)
EXTENDS Naturals

CONSTANT Network

VARIABLES
    current,  \* current[m]: states m's cache has been in so far
    shown     \* shown[m]: which of them the page shows, or 0

mirrorVars == <<current, shown>>

Init ==
    /\ current = [m \in Network |-> 1]
    /\ shown = [m \in Network |-> 0]

Change(m) ==
    /\ current' = [current EXCEPT ![m] = @ + 1]
    /\ UNCHANGED shown

\* States in between may be passed over.
Show(m) ==
    /\ \E state \in shown[m] + 1 .. current[m] : shown' = [shown EXCEPT ![m] = state]
    /\ UNCHANGED current

Next == \E m \in Network : Change(m) \/ Show(m)

Spec == Init /\ [][Next]_mirrorVars
=============================================================================
