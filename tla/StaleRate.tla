------------------------------ MODULE StaleRate ------------------------------
(***************************************************************************)
(* The observed stale-block rate of metrics.rs: what it makes of a tree    *)
(* with gaps and of nodes that disagree or cannot be reached.  A tree is   *)
(* the set of its headers: its edges are those its headers call for        *)
(* (HeaderSync, EdgesComplete).                                            *)
(*                                                                         *)
(* The two variables are the inputs, changed as the poller tasks change    *)
(* them; every property is about the metrics computed from them.           *)
(***************************************************************************)
EXTENDS HeaderTree, Sequences

CONSTANTS
    Node,
    StaleTipNode,   \* nodes whose backend reports stale tips
    Configured,     \* stale_rate_windows as written in the configuration
    IncludeAllTime  \* stale_rate_include_all_time

\* The process does not start with other ranges (InvalidStaleRateWindows).
ASSUME MetricsAssumption ==
    /\ StaleTipNode \subseteq Node
    /\ Configured \in Seq(Nat \ {0})
    /\ IncludeAllTime \in BOOLEAN
    /\ Configured # <<>> \/ IncludeAllTime

VARIABLES
    tree,      \* headers in the tree
    tip,       \* tip[n]: the active tip in n's cached tips, or NoBlock
    reachable  \* nodes last seen reachable

vars == <<tree, tip, reachable>>

-----------------------------------------------------------------------------
(* MetricsContext::new *)

Reporting == {n \in reachable : tip[n] # NoBlock}

ActiveTips == {tip[n] : n \in Reporting}

HasStaleTipObserver == Reporting \cap StaleTipNode # {}

\* path_to_root: from the root of b's subtree up to b.
PathToRoot ==
    LET path[b \in tree] ==
          IF Parent[b] \in tree THEN Append(path[Parent[b]], b) ELSE <<b>>
    IN  path

\* A comparison that stops a block early.
AgreeOneShort(paths, i) ==
    \A p, q \in paths : i < Len(p) /\ i < Len(q) /\ \A j \in 1 .. i : p[j] = q[j]

Agree(paths, i) ==
    \A p, q \in paths : i <= Len(p) /\ i <= Len(q) /\ \A j \in 1 .. i : p[j] = q[j]

\* resolved_tip_index: the longest common start of the paths to all active tips.
ResolvedPath ==
    LET paths == {PathToRoot[t] : t \in ActiveTips}
        path == CHOOSE p \in paths : TRUE
        shared == {i \in 1 .. Len(path) : Agree(paths, i)}
    IN  SubSeq(path, 1, Cardinality(shared))

Tip(path) == path[Len(path)]

\* Why there is no metric at all, or "ok".
Status ==
    CASE ActiveTips = {} -> "no_reachable_active_tip"
      [] ~(ActiveTips \subseteq tree) -> "tip_not_in_tree"
      [] ActiveTips \subseteq tree /\ ActiveTips # {} ->
           IF ResolvedPath = <<>> THEN "insufficient_history"
           ELSE IF HasStaleTipObserver THEN "ok" ELSE "no_reachable_stale_tip_support"

-----------------------------------------------------------------------------
(* The windows *)

InHeightRange(start, end) == {b \in tree : Height[b] \in start .. end}

\* An off-by-one: the window's last height is not searched.
HistoryGapBelowTip(start, end) ==
    \E b \in tree : Parent[b] \notin tree /\ Height[b] \in start + 1 .. end - 1

\* has_history_gap_in_window: a subtree that starts inside the window.
HistoryGap(start, end) ==
    \E b \in tree : Parent[b] \notin tree /\ Height[b] \in start + 1 .. end

Unavailable == [available |-> FALSE, active |-> 0, stale |-> 0]

\* build_window
Window(first, last, active) ==
    LET start == Height[first]
        end   == Height[last]
        total == Cardinality(InHeightRange(start, end))
    IN  IF HistoryGap(start, end) THEN Unavailable
        ELSE [available |-> TRUE, active |-> active,
              stale |-> IF total > active THEN total - active ELSE 0]

\* The first blocks of the path instead of its last.
RollingWindowFromRoot(path, blocks) ==
    IF Len(path) < blocks THEN Unavailable ELSE Window(path[1], path[blocks], blocks)

\* calculate_rolling_window: the last blocks of the path.
RollingWindow(path, blocks) ==
    IF Len(path) < blocks THEN Unavailable
    ELSE Window(path[Len(path) - blocks + 1], Tip(path), blocks)

\* calculate_all_time_window: the whole path.
AllTimeWindow(path) == Window(path[1], Tip(path), Len(path))

Windows == {Configured[i] : i \in DOMAIN Configured}

\* A bug Sorted guards against: the ranges stay as they were written.
Written == Configured

Sorted ==
    CHOOSE s \in [1 .. Cardinality(Windows) -> Windows] :
        \A i, j \in DOMAIN s : i < j => s[i] < s[j]

\* normalize_stale_rate_ranges, for all time last.
AllTime == 0
Ranges == Sorted \o IF IncludeAllTime THEN <<AllTime>> ELSE <<>>

\* calculate_network_metrics_with_tree
Served(path) ==
    [i \in DOMAIN Ranges |->
        IF Ranges[i] = AllTime THEN AllTimeWindow(path) ELSE RollingWindow(path, Ranges[i])]

-----------------------------------------------------------------------------
(* The inputs.  Fetches and repairs insert runs of a branch, from any block *)
(* down to any other: what one of them leaves out is a gap.                *)

Runs == {{b \in Branch[top] : Height[b] >= low} : top \in Tracked, low \in {Height[b] : b \in Tracked}}

Init ==
    /\ tree = {}
    /\ tip = [n \in Node |-> NoBlock]
    /\ reachable = Node

InsertHeaders(run) ==
    /\ ~(run \subseteq tree)
    /\ tree' = InsertNodes(tree, run)
    /\ UNCHANGED <<tip, reachable>>

NodeTips(n, b) ==
    /\ b # tip[n]
    /\ tip' = [tip EXCEPT ![n] = b]
    /\ UNCHANGED <<tree, reachable>>

NodeReachability(n) ==
    /\ reachable' = IF n \in reachable THEN reachable \ {n} ELSE reachable \cup {n}
    /\ UNCHANGED <<tree, tip>>

Next ==
    \/ \E run \in Runs \ {{}} : InsertHeaders(run)
    \/ \E n \in Node : \E b \in Block : NodeTips(n, b)
    \/ \E n \in Node : NodeReachability(n)

Spec == Init /\ [][Next]_vars
-----------------------------------------------------------------------------
(* Properties *)

\* b's ancestors and b, as far down as the tree holds all of them.
Connected(b) == {a \in Branch[b] : \A c \in Branch[b] : Height[c] >= Height[a] => c \in tree}

\* The metrics are taken at the highest block below every reachable active tip that
\* the tree connects to all of them, and there is none exactly when the tree says
\* "insufficient_history" (resolved_tip_index folds the paths two by two).
ResolvedIsCommonAncestor ==
    ActiveTips # {} /\ ActiveTips \subseteq tree =>
        LET common == {b \in Block : \A t \in ActiveTips : b \in Connected(t)}
        IN  /\ (Status = "insufficient_history") = (common = {})
            /\ common # {} => /\ Tip(ResolvedPath) \in common
                              /\ \A b \in common : Height[b] <= Height[Tip(ResolvedPath)]
                              /\ {ResolvedPath[i] : i \in DOMAIN ResolvedPath} = common

\* An available window has counted right: its active blocks are the blocks of the
\* resolved chain in its heights, its stale blocks are all other headers of the tree
\* at these heights, and each of these is connected down to the window's first height
\* (build_window subtracts two counts and has_history_gap_in_window looks at roots).
WindowExact(window, start) ==
    LET end == Height[Tip(ResolvedPath)]
        chain == {b \in Branch[Tip(ResolvedPath)] : Height[b] \in start .. end}
    IN  window.available =>
            /\ window.active = Cardinality(chain) /\ chain \subseteq tree
            /\ window.stale = Cardinality(InHeightRange(start, end) \ chain)
            /\ \A b \in InHeightRange(start, end) :
                  \A a \in Branch[b] : Height[a] >= start => a \in tree

WindowsExact ==
    Status = "ok" =>
        /\ WindowExact(AllTimeWindow(ResolvedPath), Height[ResolvedPath[1]])
        /\ \A k \in Windows :
              WindowExact(RollingWindow(ResolvedPath, k), Height[Tip(ResolvedPath)] - k + 1)

\* The ranges are served from the shortest to the longest, each once, whatever order
\* they are configured in: when one is available so is every earlier one the chain is
\* long enough for, with fewer blocks and no more stale ones, and all time comes last
\* (rolling and all-time windows are computed by different code).
RangesNest ==
    Status = "ok" =>
        LET windows == Served(ResolvedPath)
        IN  \A i, j \in DOMAIN Ranges :
                i < j /\ windows[j].available /\ Ranges[i] <= Len(ResolvedPath) =>
                    /\ windows[i].available
                    /\ windows[i].stale <= windows[j].stale
                    /\ windows[i].active < windows[j].active \/ Ranges[j] = AllTime

\* Headers that arrive late - a branch of another node, a repair below a root - never
\* move the block the metrics are taken at, and never make a stale block disappear
\* from a window: it keeps its count, adds to it, or turns out to have a gap.
InsertionKeepsStale ==
    tree' # tree /\ Status = "ok" =>
        /\ Status' = "ok" /\ Tip(ResolvedPath') = Tip(ResolvedPath)
        /\ \A k \in Windows :
              LET before == RollingWindow(ResolvedPath, k)
                  after == RollingWindow(ResolvedPath, k)'
              IN  before.available /\ after.available => after.stale >= before.stale

InsertionsKeepStale == [][InsertionKeepsStale]_vars

\* "A root above the window start means at least one ancestor inside the range is
\* missing, so any stale-rate derived from this slice would be understated"
\* (metrics.rs): a rolling window is available only if the tree holds every ancestor
\* in its heights of every header it holds.
NotUnderstated ==
    Status = "ok" =>
        \A k \in Windows : RollingWindow(ResolvedPath, k).available =>
            LET end == Height[Tip(ResolvedPath)]
            IN  \A b \in tree : \A a \in Branch[b] : Height[a] \in end - k + 1 .. end => a \in tree
=============================================================================
