---------------------------- MODULE MCHeaderSync ----------------------------
(***************************************************************************)
(* A small block tree for HeaderSync: above genesis g the branch a1 a2 a3, *)
(* and b2 b3 leaving it at a1; c1 c2 leave at genesis.                     *)
(***************************************************************************)
EXTENDS HeaderSync, TLC

CONSTANTS g, a1, a2, a3, b2, c1, c2, n1, n2, None

MCParent == g :> None @@ a1 :> g @@ a2 :> a1 @@ a3 :> a2
            @@ b2 :> a1 @@ c1 :> g @@ c2 :> c1

MCBlock == DOMAIN MCParent

Ancestors[b \in MCBlock] ==
    {b} \cup (IF MCParent[b] = None THEN {} ELSE Ancestors[MCParent[b]])

MCBranch == [b \in MCBlock |-> Ancestors[b]]

MCHeight == [b \in MCBlock |-> Cardinality(Ancestors[b]) - 1]

\* The branches a1 a2 and c1 c2 only.
SmallBlock  == {g, a1, a2, c1, c2}
SmallParent == [b \in SmallBlock |-> MCParent[b]]
SmallBranch == [b \in SmallBlock |-> MCBranch[b]]
SmallHeight == [b \in SmallBlock |-> MCHeight[b]]

\* A Bitcoin Core node that knows both branches and a btcd node that knows one.
SafetyBackend == n1 :> "core_rest" @@ n2 :> "btcd"
SafetyChain   == n1 :> a3 @@ n2 :> b2
SafetyKnown   == n1 :> {g, a1, a2, a3} @@ n2 :> {g, a1, a2, b2}

\* An Electrum server on one branch and a Bitcoin Core node that holds both and may
\* leave its own half way through the fetch.
RepairBackend == n1 :> "electrum" @@ n2 :> "core_rpc"
RepairChain   == n1 :> a2 @@ n2 :> c2
RepairKnown   == n1 :> {g, a1, a2} @@ n2 :> {g, a1, a2, c1, c2}

\* Two nodes cut off from each other, each with a branch of its own.
SplitBackend == n1 :> "core_rpc" @@ n2 :> "core_rpc"
SplitChain   == n1 :> a2 @@ n2 :> c2
SplitKnown   == n1 :> {g, a1, a2} @@ n2 :> {g, c1, c2}
=============================================================================
