----------------------------- MODULE NodeChains -----------------------------
(***************************************************************************)
(* The Bitcoin Core nodes of one regtest or signet network, as the control *)
(* calls of bitcoin_core.rs use them: each keeps the blocks it received,   *)
(* marks of invalidated blocks, and whether its network is active.  This   *)
(* is a library's behaviour, not the program's.                            *)
(*                                                                         *)
(* Blocks are numbered in the order they are mined; 0 is genesis.          *)
(***************************************************************************)
EXTENDS Integers, FiniteSets

CONSTANTS
    Node,
    FirstHeight  \* height of the chain all nodes start with

ASSUME ChainAssumption == FirstHeight \in Nat

VARIABLES
    chain,     \* chain[b]: the blocks from genesis to b
    received,  \* received[n]: the blocks n holds, each with the number of its arrival
    invalid,   \* invalid[n]: the blocks marked invalid on n
    online     \* nodes whose network is active

chainVars == <<chain, received, invalid, online>>

Blocks == DOMAIN chain

HeightOf(b) == Cardinality(chain[b]) - 1

Valid(n) == {b \in DOMAIN received[n] : chain[b] \cap invalid[n] = {}}

\* Most work, and of several the one received first.
TipOf(n) ==
    LET best == {b \in Valid(n) : \A c \in Valid(n) : HeightOf(c) <= HeightOf(b)}
    IN  CHOOSE b \in best : \A c \in best : received[n][b] <= received[n][c]

\* The blocks of one download are of one chain, and need no order.
WithArrived(n, blocks) ==
    [b \in DOMAIN received[n] \cup blocks |->
        IF b \in DOMAIN received[n] THEN received[n][b] ELSE Cardinality(DOMAIN received[n])]

BlockAt(n, height) == CHOOSE b \in chain[TipOf(n)] : HeightOf(b) = height

ChainInit ==
    /\ chain = [b \in 0 .. FirstHeight |-> 0 .. b]
    /\ received = [n \in Node |-> [b \in Blocks |-> b]]
    /\ invalid = [n \in Node |-> {}]
    /\ online = Node

\* One block on the node's active chain.
MineBlock(n) ==
    LET b == Cardinality(Blocks)
    IN  /\ chain' = [c \in Blocks \cup {b} |-> IF c = b THEN chain[TipOf(n)] \cup {b} ELSE chain[c]]
        /\ received' = [received EXCEPT ![n] = WithArrived(n, {b})]
        /\ UNCHANGED <<invalid, online>>

\* Genesis cannot be invalidated, and the call does not say so.
InvalidateBlock(n, b) ==
    /\ invalid' = [invalid EXCEPT ![n] = IF b = 0 THEN @ ELSE @ \cup {b}]
    /\ UNCHANGED <<chain, received, online>>

\* The marks of a block, of its ancestors and of its descendants are removed.
ReconsiderBlock(n, b) ==
    /\ invalid' = [invalid EXCEPT ![n] = {c \in @ : c \notin chain[b] /\ b \notin chain[c]}]
    /\ UNCHANGED <<chain, received, online>>

SetNetworkActive(n, isActive) ==
    /\ online' = IF isActive THEN online \cup {n} ELSE online \ {n}
    /\ UNCHANGED <<chain, received, invalid>>

\* n downloads m's active chain, unless it holds a part of it to be invalid.
Download(n, m) ==
    /\ {n, m} \subseteq online
    /\ LET missing == chain[TipOf(m)] \ DOMAIN received[n]
       IN  /\ missing # {} /\ chain[TipOf(m)] \cap invalid[n] = {}
           /\ received' = [received EXCEPT ![n] = WithArrived(n, missing)]
    /\ UNCHANGED <<chain, invalid, online>>
=============================================================================
