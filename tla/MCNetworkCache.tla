--------------------------- MODULE MCNetworkCache ---------------------------
(***************************************************************************)
(* Two pollers and two headers, one above the other.                       *)
(***************************************************************************)
EXTENDS NetworkCache, TLC

CONSTANTS a, b, n1, n2, None

MCHeight == a :> 1 @@ b :> 2
MCHolds == n1 :> {a} @@ n2 :> {a, b}
MCNames == a :> {"pool"} @@ b :> {"Unknown", "pool"}
=============================================================================
