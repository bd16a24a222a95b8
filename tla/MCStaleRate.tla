---------------------------- MODULE MCStaleRate ----------------------------
(***************************************************************************)
(* Above genesis g the branch a1 a2, b2 leaving it at a1, and c1 c2        *)
(* leaving it at genesis.                                                  *)
(***************************************************************************)
EXTENDS TreeViews, TLC

CONSTANTS g, a1, a2, b2, c1, c2, n1, n2, None

MCParent == g :> None @@ a1 :> g @@ a2 :> a1
            @@ b2 :> a1 @@ c1 :> g @@ c2 :> c1

MCBlock == DOMAIN MCParent

Ancestors[b \in MCBlock] ==
    {b} \cup (IF MCParent[b] = None THEN {} ELSE Ancestors[MCParent[b]])

MCBranch == [b \in MCBlock |-> Ancestors[b]]

MCConfigured == <<3, 1, 2, 1>>

MCHeight == [b \in MCBlock |-> Cardinality(Ancestors[b]) - 1]
=============================================================================
