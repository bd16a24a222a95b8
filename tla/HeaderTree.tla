----------------------------- MODULE HeaderTree -----------------------------
(***************************************************************************)
(* The data structure of headertree.rs: a graph whose nodes are the        *)
(* headers the program has seen and whose edges go from a header to its    *)
(* child.  A block is an abstract value; what the program reads from a     *)
(* header (its previous hash) and what it keeps beside it (its height) are *)
(* the constants Parent and Height.                                        *)
(*                                                                         *)
(*   index  the keys of TreeInfo.index, one graph node each                *)
(*   edges  the graph's edges, as pairs <<parent, child>>                  *)
(***************************************************************************)
EXTENDS Integers, FiniteSets

CONSTANTS
    Block,         \* every block any node may ever hold
    NoBlock,       \* the all-zero hash a genesis header points to
    Parent,        \* prev_blockhash
    Height,        \* the height of a block
    Branch,        \* Branch[b]: b and its ancestors, down to genesis
    FirstTracked   \* first_tracked_height of the network's configuration

ASSUME BlockAssumption ==
    /\ NoBlock \notin Block
    /\ Parent \in [Block -> Block \cup {NoBlock}]
    /\ Height \in [Block -> Nat]
    /\ \A b \in Block :
          IF Parent[b] = NoBlock THEN Height[b] = 0
                                 ELSE Height[b] = Height[Parent[b]] + 1
    /\ FirstTracked \in Nat

ASSUME BranchAssumption ==
    /\ Branch \in [Block -> SUBSET Block]
    /\ \A b \in Block : IsFiniteSet(Branch[b])
    /\ \A b \in Block :
          Branch[b] = {b} \cup (IF Parent[b] = NoBlock THEN {}
                                                       ELSE Branch[Parent[b]])

Tracked == {b \in Block : Height[b] >= FirstTracked}

LinksInto(headers, index) ==
    {<<Parent[b], b>> : b \in {h \in headers : Parent[h] \in index}}

LinksOutOf(headers, index) ==
    {<<Parent[c], c>> : c \in {x \in index : Parent[x] \in headers}}

-----------------------------------------------------------------------------
(* insert_headers: the new headers become nodes, then every header of the  *)
(* call is linked to its parent and to the children already in the graph.  *)

InsertNodes(index, headers) == index \cup headers

\* A bug the link to children guards against: a header fetched after its child.
InsertEdgesUpwardOnly(edges, index, headers) ==
    edges \cup LinksInto(headers, InsertNodes(index, headers))

InsertEdges(edges, index, headers) ==
    edges \cup LinksInto(headers, InsertNodes(index, headers))
          \cup LinksOutOf(headers, InsertNodes(index, headers))

\* load_treeinfos: the graph rebuilt from the rows of the database.
LoadedNodes(rows) == rows \cap Tracked
LoadedEdges(rows) == LinksInto(LoadedNodes(rows), LoadedNodes(rows))

\* Graph nodes without an incoming edge, above the lowest height kept.
UnexpectedRoots(index, edges) ==
    {b \in index : Height[b] > FirstTracked /\ \A a \in index : <<a, b>> \notin edges}
=============================================================================
