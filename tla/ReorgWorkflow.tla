--------------------------- MODULE ReorgWorkflow ---------------------------
(***************************************************************************)
(* The reorg workflow of a page (useTriggerReorg.ts): five calls to the    *)
(* server, each waiting for the answer to the one before, and what the     *)
(* server makes of each on the node (api.rs, bitcoin_core.rs).  Several    *)
(* pages may run one at the same time, on one node or on several, while    *)
(* blocks are mined by others.                                             *)
(*                                                                         *)
(* A call is "sent", goes through the steps the server takes for it, and   *)
(* is "ok" or "failed" when it is answered: it may fail before, between or *)
(* after its steps.                                                        *)
(***************************************************************************)
EXTENDS NodeChains

CONSTANTS
    Page,
    Depths,       \* depths a user may ask for
    MaxActions,   \* bound: what users of the pages start
    MaxFailures   \* bound: calls that fail and pages that are closed

ASSUME WorkflowAssumption ==
    /\ Depths \subseteq Nat \ {0}
    /\ MaxActions \in Nat /\ MaxFailures \in Nat

VARIABLES
    flow,       \* flow[p]: the workflow of page p
    actions, failures,
    \* what happened
    disturbed,  \* pages whose workflow somebody else has interfered with
    stranded,   \* nodes whose reconnection failed, or was not tried
    abandoned   \* abandoned[n]: blocks invalidated by workflows that failed

historyVars == <<disturbed, stranded, abandoned>>
flowVars == <<flow, actions, failures, historyVars>>

SetsActive == {"disconnecting", "reconnecting", "restoring"}
WorkflowSteps == SetsActive \cup {"rewinding", "mining", "reconsidering"}

\* at: a height, then the block at it; left: blocks to be mined; old: the block
\* invalidated; start: the tip the depth was counted from; mined: the new blocks.
NoFlow == [step |-> "idle", call |-> "none", node |-> CHOOSE n \in Node : TRUE, depth |-> 0,
           at |-> 0, left |-> 0, old |-> 0, start |-> 0, mined |-> {}]

Running(p) == flow[p].step # "idle"

WorkflowInit ==
    /\ flow = [p \in Page |-> NoFlow]
    /\ actions = 0 /\ failures = 0
    /\ disturbed = {} /\ stranded = {} /\ abandoned = [n \in Node |-> {}]

-----------------------------------------------------------------------------
(* The page. *)

Act == actions < MaxActions /\ actions' = actions + 1

\* canStart, and runningRef.
StartReorg(p, n, depth) ==
    /\ ~Running(p)
    /\ Act
    /\ flow' = [flow EXCEPT ![p] = [NoFlow EXCEPT !.step = "disconnecting", !.call = "sent",
                                                  !.node = n, !.depth = depth]]
    /\ disturbed' = IF \E q \in Page : Running(q) /\ flow[q].node = n
                    THEN disturbed \cup {p} ELSE disturbed
    /\ UNCHANGED <<chainVars, failures, stranded, abandoned>>

\* The old branch stays invalid.
AfterWithoutReconsider(step) ==
    CASE step = "disconnecting" -> "rewinding"
      [] step = "rewinding" -> "mining"
      [] step = "mining" -> "reconnecting"
      [] step \in {"reconnecting", "restoring"} -> "idle"

After(step) ==
    CASE step = "disconnecting" -> "rewinding"
      [] step = "rewinding" -> "mining"
      [] step = "mining" -> "reconsidering"
      [] step = "reconsidering" -> "reconnecting"
      [] step \in {"reconnecting", "restoring"} -> "idle"

End(p) ==
    /\ flow' = [flow EXCEPT ![p] = NoFlow]
    /\ disturbed' = disturbed \ {p}

\* As many new blocks as old ones.
BlocksToMineEqual(depth) == depth

BlocksToMine(depth) == depth + 1

GoOn(p, step) ==
    IF step = "idle" THEN End(p)
    ELSE /\ flow' = [flow EXCEPT ![p].step = step, ![p].call = "sent", ![p].at = 0,
                                 ![p].left = IF step = "mining" THEN BlocksToMine(flow[p].depth) ELSE 0]
         /\ UNCHANGED disturbed

Succeeds(p) ==
    /\ flow[p].call = "ok"
    /\ GoOn(p, After(flow[p].step))
    /\ UNCHANGED <<chainVars, actions, failures, stranded, abandoned>>

\* What a workflow leaves behind when it fails or its page is closed.
Abandon(p) ==
    abandoned' = IF flow[p].step \in {"rewinding", "mining", "reconsidering"}
                 THEN [abandoned EXCEPT ![flow[p].node] = @ \cup {flow[p].old}] ELSE abandoned

\* The node is not connected again.
FailsAtOnce(p) ==
    /\ flow[p].call = "failed"
    /\ Abandon(p)
    /\ stranded' = IF flow[p].step = "disconnecting" THEN stranded \cup {flow[p].node} ELSE stranded
    /\ End(p)
    /\ UNCHANGED <<chainVars, actions, failures>>

\* catch: when the node has been disconnected it is connected again, and whether
\* that succeeds is ignored.
Fails(p) ==
    /\ flow[p].call = "failed"
    /\ Abandon(p)
    /\ IF flow[p].step \in {"disconnecting", "restoring"}
       THEN /\ stranded' = stranded \cup {flow[p].node}
            /\ End(p)
       ELSE /\ GoOn(p, "restoring")
            /\ UNCHANGED stranded
    /\ UNCHANGED <<chainVars, actions, failures>>

Failure == failures < MaxFailures /\ failures' = failures + 1

\* The page is reloaded or closed.
ClosePage(p) ==
    /\ Running(p) /\ Failure
    /\ Abandon(p)
    /\ stranded' = stranded \cup {flow[p].node}
    /\ End(p)
    /\ UNCHANGED <<chainVars, actions>>

-----------------------------------------------------------------------------
(* The server. *)

Calling(p, step, call) == flow[p].step = step /\ flow[p].call = call

Call(p, call) == flow' = [flow EXCEPT ![p].call = call]

\* A call of p gets in the way of the other workflows on its node.
Disturb(p) ==
    disturbed' = disturbed \cup {q \in Page \ {p} : Running(q) /\ flow[q].node = flow[p].node}

\* The switch is read the wrong way round when the node is disconnected.
SetActiveAlways(p) ==
    /\ flow[p].step \in SetsActive /\ flow[p].call = "sent"
    /\ SetNetworkActive(flow[p].node, TRUE)
    /\ Call(p, "ok")
    /\ Disturb(p)
    /\ UNCHANGED <<actions, failures, stranded, abandoned>>

SetActive(p) ==
    /\ flow[p].step \in SetsActive /\ flow[p].call = "sent"
    /\ SetNetworkActive(flow[p].node, flow[p].step # "disconnecting")
    /\ Call(p, "ok")
    /\ Disturb(p)
    /\ UNCHANGED <<actions, failures, stranded, abandoned>>

\* rewind_active_chain is three calls to the node: its height, the hash at the height
\* of the oldest of the last depth blocks, and the invalidation of that hash.
ReadHeight(p) ==
    /\ Calling(p, "rewinding", "sent")
    /\ LET tip == TipOf(flow[p].node)
           target == HeightOf(tip) - (flow[p].depth - 1)
       IN  flow' = [flow EXCEPT ![p].call = IF target < 0 THEN "failed" ELSE "height",
                                ![p].at = IF target < 0 THEN 0 ELSE target,
                                ![p].start = tip]
    /\ UNCHANGED <<chainVars, actions, failures, historyVars>>

ReadHash(p) ==
    /\ Calling(p, "rewinding", "height")
    /\ IF flow[p].at > HeightOf(TipOf(flow[p].node)) THEN Call(p, "failed")
       ELSE flow' = [flow EXCEPT ![p].call = "hash", ![p].at = BlockAt(flow[p].node, @)]
    /\ UNCHANGED <<chainVars, actions, failures, historyVars>>

Invalidate(p) ==
    /\ Calling(p, "rewinding", "hash")
    /\ InvalidateBlock(flow[p].node, flow[p].at)
    /\ flow' = [flow EXCEPT ![p].call = "ok", ![p].old = flow[p].at]
    /\ Disturb(p)
    /\ UNCHANGED <<actions, failures, stranded, abandoned>>

\* The loop goes round once more.
LastBlockLate(p) == flow[p].left = 0

LastBlock(p) == flow[p].left = 1

\* The blocks of one call are mined one by one.
MineOne(p) ==
    /\ Calling(p, "mining", "sent")
    /\ MineBlock(flow[p].node)
    /\ flow' = [flow EXCEPT ![p].left = @ - 1, ![p].mined = @ \cup (DOMAIN chain' \ Blocks),
                            ![p].call = IF LastBlock(p) THEN "ok" ELSE "sent"]
    /\ disturbed' = disturbed \cup {q \in Page \ {p} : Running(q)}
    /\ UNCHANGED <<actions, failures, stranded, abandoned>>

Reconsider(p) ==
    /\ Calling(p, "reconsidering", "sent")
    /\ ReconsiderBlock(flow[p].node, flow[p].old)
    /\ Call(p, "ok")
    /\ Disturb(p)
    /\ UNCHANGED <<actions, failures, stranded, abandoned>>

\* A call fails, or what it did is not answered.
CallFails(p) ==
    /\ Running(p) /\ flow[p].call # "failed"
    /\ Failure
    /\ Call(p, "failed")
    /\ UNCHANGED <<chainVars, actions, historyVars>>

-----------------------------------------------------------------------------
(* Others. *)

OthersMine(n) ==
    /\ MineBlock(n)
    /\ disturbed' = disturbed \cup {p \in Page : Running(p)}
    /\ UNCHANGED <<flow, actions, failures, stranded, abandoned>>

NodesTalk == \E n, m \in Node : Download(n, m) /\ UNCHANGED flowVars

ServerStep(p) ==
    \/ SetActive(p) \/ ReadHeight(p) \/ ReadHash(p) \/ Invalidate(p)
    \/ MineOne(p) \/ Reconsider(p)

PageStep(p) == Succeeds(p) \/ Fails(p)

WorkflowNext ==
    \/ \E p \in Page :
          \/ \E n \in Node, depth \in Depths : StartReorg(p, n, depth)
          \/ PageStep(p) \/ ServerStep(p) \/ CallFails(p) \/ ClosePage(p)
    \/ NodesTalk

-----------------------------------------------------------------------------
(* Properties *)

Flow ==
    {NoFlow} \cup [step : WorkflowSteps, call : {"sent", "height", "hash", "ok", "failed"},
                  node : Node, depth : Depths, at : Nat, left : Nat,
                  old : Blocks, start : Blocks, mined : SUBSET Blocks]

WorkflowTypeOK ==
    /\ \A b \in Blocks : b \in chain[b] /\ chain[b] \subseteq 0 .. b
    /\ \A n \in Node : /\ received[n] \in [DOMAIN received[n] -> Nat]
                       /\ DOMAIN received[n] \cup invalid[n] \cup abandoned[n] \subseteq Blocks
    /\ online \cup stranded \subseteq Node
    /\ disturbed \subseteq Page
    /\ flow \in [Page -> Flow]

\* A workflow about to reconnect its node that nobody has interfered with.  Genesis
\* cannot be rewound.
DoneInPrivate(p) == p \notin disturbed /\ Calling(p, "reconnecting", "sent") /\ flow[p].old # 0

\* "then reconnect to trigger a real rollback-style reorganization": the new blocks are
\* on the node's chain, the block rewound is not, the chain is longer than the one it
\* replaces, and that one is valid again, so that the other nodes will follow.  Not so
\* on a node where an earlier workflow failed: its block may come back with this one's.
ReorgHappens ==
    \A p \in Page : DoneInPrivate(p) /\ abandoned[flow[p].node] = {} =>
        LET tip == TipOf(flow[p].node)
        IN  /\ flow[p].mined \subseteq chain[tip] /\ flow[p].old \notin chain[tip]
            /\ HeightOf(tip) > HeightOf(flow[p].start)
            /\ flow[p].start \in Valid(flow[p].node)

\* The new blocks stay on their node until it is reconnected, unless somebody else has
\* reconnected it.
MinedInPrivate ==
    \A p \in Page \ disturbed :
        flow[p].step \in {"mining", "reconsidering"} =>
            \A m \in Node \ {flow[p].node} : DOMAIN received[m] \cap flow[p].mined = {}

\* A block is invalid on a node only while a workflow that is to reconsider it runs
\* there, or after one that failed: workflows on one node remove each other's marks at
\* most, and a completed one leaves none.
MarksOwned ==
    \A n \in Node :
        invalid[n] \subseteq abandoned[n] \cup
            {flow[p].old : p \in {q \in Page : /\ flow[q].node = n
                                               /\ flow[q].step \in {"rewinding", "mining", "reconsidering"}}}

\* A node is never left disconnected: whatever fails, and however workflows on it
\* overlap, it is connected again, unless it was the disconnection or the last
\* reconnection that failed, or the page was closed.
NodeComesBack == \A n \in Node : n \notin online ~> n \in online \cup stranded
=============================================================================
