---------------------------- MODULE HeaderStore ----------------------------
(***************************************************************************)
(* What header synchronisation promises, whatever the nodes do: the tree   *)
(* only grows while the program runs, it always has exactly the edges its  *)
(* headers call for, whatever order they arrived in, a header reaches the  *)
(* database only after it reached the tree, and a restart brings back      *)
(* exactly what the database holds.  HeaderSync implements it.             *)
(***************************************************************************)
EXTENDS HeaderTree

VARIABLES
    tree,   \* headers in the in-memory tree
    links,  \* parent-child links of the in-memory tree
    saved   \* headers in the database

storeVars == <<tree, links, saved>>

Init ==
    /\ saved \in SUBSET Tracked
    /\ tree = LoadedNodes(saved)
    /\ links = LoadedEdges(saved)

\* Any set of tracked headers joins the tree, in one insertion.
Observe ==
    \E headers \in SUBSET Tracked :
        /\ tree' = tree \cup headers
        /\ links' = {<<Parent[b], b>> : b \in {h \in tree' : Parent[h] \in tree'}}
        /\ UNCHANGED saved

\* Any set of headers of the tree is written.
Save ==
    \E headers \in SUBSET tree :
        /\ saved' = saved \cup headers
        /\ UNCHANGED <<tree, links>>

Restart ==
    /\ tree' = LoadedNodes(saved)
    /\ links' = LoadedEdges(saved)
    /\ UNCHANGED saved

Next == Observe \/ Save \/ Restart

Spec == Init /\ [][Next]_storeVars
=============================================================================
