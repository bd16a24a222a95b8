--------------------------- MODULE MCPageControls ---------------------------
(***************************************************************************)
(* Two nodes of the home network, one of which mines on a timer.  Another  *)
(* network has a node with the same id, or with another one.               *)
(***************************************************************************)
EXTENDS PageControls

CONSTANTS n1, n2, p1, p2, home, away

MCMiner == [m \in {home, away} |-> {n1}]

MCMinerApart == [m \in {home, away} |-> IF m = home THEN {n1} ELSE {n2}]
=============================================================================
