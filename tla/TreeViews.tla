------------------------------ MODULE TreeViews ------------------------------
(***************************************************************************)
(* What else is read off the tree and the nodes' tips: the recent forks of *)
(* the RSS feed and of the interface (headertree.rs, recent_forks), the    *)
(* heights worth showing (sorted_interesting_heights) and the headers near *)
(* them whose miners the backfill asks for (main.rs).                      *)
(***************************************************************************)
EXTENDS StaleRate

CONSTANTS
    MaxForks,       \* MAX_FORKS_IN_CACHE
    VisibleHeights, \* visible_heights_from_tip
    ExtraHotspots   \* extra_hotspot_heights

ASSUME ViewAssumption == {MaxForks, VisibleHeights, ExtraHotspots} \subseteq Nat

Links == LinksInto(tree, tree)

Children(b) == {c \in tree : <<b, c>> \in Links}

Forks == {b \in tree : Cardinality(Children(b)) > 1}

\* A bug RecentForks guards against: sorted by height, and not reversed.
OldestForks ==
    CHOOSE listed \in SUBSET Forks :
        /\ Cardinality(listed) = IF Cardinality(Forks) < MaxForks THEN Cardinality(Forks) ELSE MaxForks
        /\ \A b \in listed, c \in Forks \ listed : Height[b] <= Height[c]

\* The highest ones; which of several at one height is left open.
RecentForks ==
    CHOOSE listed \in SUBSET Forks :
        /\ Cardinality(listed) = IF Cardinality(Forks) < MaxForks THEN Cardinality(Forks) ELSE MaxForks
        /\ \A b \in listed, c \in Forks \ listed : Height[b] >= Height[c]

-----------------------------------------------------------------------------
(* sorted_interesting_heights                                               *)

Heights == {Height[b] : b \in tree}

TopHeight == CHOOSE h \in Heights : \A k \in Heights : k <= h

TipHeights == {Height[tip[n]] : n \in {m \in Node : tip[m] # NoBlock}}

RecentHeights == {h \in Heights : h >= FirstTracked /\ h > TopHeight - VisibleHeights}

\* Where the tree holds several headers, or a tip of a node.
Hotspots ==
    {h \in Heights :
        /\ h >= FirstTracked
        /\ \/ h \in TipHeights \cup {TopHeight}
           \/ \E b, c \in tree : b # c /\ Height[b] = h /\ Height[c] = h}

InterestingHeights ==
    IF tree = {} \/ VisibleHeights = 0 THEN {}
    ELSE RecentHeights
         \cup {h \in Hotspots : Cardinality({k \in Hotspots : k > h}) < ExtraHotspots}

\* A bug NearInteresting guards against: the header below a height is not asked for.
AtInteresting(b) == \E h \in InterestingHeights : h - Height[b] \in {-1, 0}

\* A header up to two below such a height, or one above it.
NearInteresting(b) == \E h \in InterestingHeights : h - Height[b] \in {-1, 0, 1, 2}

\* The headers the backfill asks for, when none has a name yet.
AskedFor == {b \in tree : NearInteresting(b)}

-----------------------------------------------------------------------------
(* Properties *)

\* Where the active tips of two reachable nodes are on different branches, the block
\* at which they part is a fork on the list, with the first block of either branch,
\* unless the list is full of forks as high; and the miners of these three blocks are
\* asked for, unless as many heights as may be shown are of interest above them, or the
\* network is configured to show none.
SplitsShown ==
    \A t, u \in ActiveTips \cap tree :
        LET common == Connected(t) \cap Connected(u)
            split == CHOOSE b \in common : \A c \in common : Height[c] <= Height[b]
            sides == {c \in Branch[t] \cup Branch[u] : Parent[c] = split}
        IN  common # {} /\ t \notin Branch[u] /\ u \notin Branch[t] =>
              /\ sides \subseteq Children(split)
              /\ \/ split \in RecentForks
                 \/ /\ Cardinality(RecentForks) = MaxForks
                    /\ \A b \in RecentForks : Height[b] >= Height[split]
              /\ \/ sides \cup {split} \subseteq AskedFor
                 \/ Cardinality({h \in Hotspots : h > Height[split] + 1}) >= ExtraHotspots
                 \/ VisibleHeights = 0
=============================================================================
