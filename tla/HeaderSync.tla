----------------------------- MODULE HeaderSync -----------------------------
(***************************************************************************)
(* Header synchronisation of one network: the polling task every node has  *)
(* (main.rs, spawn_network_tasks), the header walks it runs                *)
(* (node/shared_fetch.rs), the progress task that stores what a walk has   *)
(* found while it is still running, the repair of disconnected subtrees,   *)
(* and the database behind the tree.                                       *)
(*                                                                         *)
(* Tasks run concurrently: every await on a node, on the tree lock or on   *)
(* the database is a step of its own.  A node's answer and the look at the *)
(* tree that follows it are one step, because nothing but the node's own   *)
(* poller reads that node and nothing the node does reads the tree.        *)
(***************************************************************************)
EXTENDS HeaderTree, Sequences

CONSTANTS
    Node,
    Backend,          \* which client talks to a node
    FirstChain,       \* FirstChain[n]: the active tip of n when the program starts
    FirstKnown,       \* FirstKnown[n]: the blocks n holds when the program starts
    BatchStep,        \* ACTIVE_BATCH_STEP
    ProgressBatch,    \* RPC_PROGRESS_BATCH_SIZE
    MinerLookupLimit, \* ACTIVE_MINER_LOOKUP_LIMIT
    MaxEvents,        \* bound: how often nodes gain blocks or switch chains
    MaxFaults         \* bound: failed calls, failed writes and process restarts

Backends == {"core_rest", "core_rpc", "btcd", "esplora", "electrum"}

ASSUME SyncAssumption ==
    /\ IsFiniteSet(Node)
    /\ Backend \in [Node -> Backends]
    /\ FirstChain \in [Node -> Block]
    /\ FirstKnown \in [Node -> SUBSET Block]
    /\ BatchStep \in Nat \ {0}
    /\ ProgressBatch \in Nat \ {0}
    /\ MinerLookupLimit \in Nat
    /\ MaxEvents \in Nat
    /\ MaxFaults \in Nat

\* Every node's blocks form a chain down to genesis and include its active tip.
ASSUME NodeAssumption ==
    \A n \in Node : /\ FirstChain[n] \in FirstKnown[n]
                    /\ \A b \in FirstKnown[n] : Branch[b] \subseteq FirstKnown[n]

VARIABLES
    \* the nodes
    known,       \* blocks a node holds
    active,      \* tip of a node's active chain
    events,      \* how often that has changed
    \* shared by all tasks of the network
    index,       \* headers in the tree
    edges,       \* edges of the tree
    rows,        \* headers in the database
    minerQueue,  \* hashes sent to the miner identification channel so far
    \* one of each per polling task
    pc,
    lastTips,    \* tips of the last completed fetch
    tips,        \* tips of the fetch under way
    query,       \* next height to ask for
    walk,        \* hash-by-hash walk: next hash and headers left to visit
    todo,        \* side tips still to be walked, or roots still to be repaired
    buffer,      \* headers found and not yet handed to the progress task
    fresh,       \* headers found that will be queued for miner identification
    channel,     \* batches sent to the progress task
    writing,     \* headers in the tree whose database write is under way
    \* what happened
    faults,      \* failures so far
    lost,        \* headers whose database write failed since the last start
    clean        \* the node has not changed since the tips were read

nodeVars  == <<known, active, events>>
treeVars  == <<index, edges>>
storeVars == <<index, edges, rows>>
walkVars  == <<tips, query, walk, todo, buffer, fresh>>
taskVars  == <<channel, writing>>
pollVars  == <<pc, lastTips, walkVars, taskVars, minerQueue>>
worldVars == <<nodeVars, storeVars, minerQueue, faults, lost, clean>>
vars == <<nodeVars, storeVars, pollVars, faults, lost, clean>>

-----------------------------------------------------------------------------
(* What a node answers. *)

UsesBatches(n)  == Backend[n] \in {"core_rest", "electrum"}
ReportsForks(n) == Backend[n] \in {"core_rest", "core_rpc", "btcd"}
ServesHashes(n) == Backend[n] # "electrum"

TipHeight(n) == Height[active[n]]

\* getchaintips reports every leaf; the other backends report their best block.
Tips(n) ==
    LET leaves == {b \in known[n] : \A c \in known[n] : Parent[c] # b}
        reported == {active[n]} \cup (IF ReportsForks(n) THEN leaves ELSE {})
    IN  {[hash |-> b, branchlen |-> Cardinality(Branch[b] \ Branch[active[n]])] : b \in reported}

\* The side tips a fetch walks down from: the branch and the block it left from.
SideTips(snapshot) ==
    {[hash |-> t.hash, left |-> t.branchlen + 1] :
        t \in {s \in snapshot : s.branchlen > 0 /\ Height[s.hash] >= FirstTracked}}

\* The range below a root taken one short: first_tracked_height is never asked for.
RootsToRepairShort ==
    {[hash |-> b, left |-> Height[b] - FirstTracked - 1] : b \in UnexpectedRoots(index, edges)}

\* The roots a repair walks down from: every tracked height below them.
RootsToRepair ==
    {[hash |-> b, left |-> Height[b] - FirstTracked] : b \in UnexpectedRoots(index, edges)}

\* The lowest walk of a set: tips and roots are taken sorted by height.
IsLowest(w, walks) == w \in walks /\ \A v \in walks : Height[w.hash] <= Height[v.hash]

NoWalk == [hash |-> NoBlock, left |-> 0]

\* Which step of its loop a poller has reached.
Fetching  == {"active", "batch", "branches", "branch"}
Repairing == {"roots", "mend_height", "mend_hash"}
Steps == {"sleep", "drain", "abort", "repair", "persist"} \cup Fetching \cup Repairing

Drained(n) == channel[n] = <<>> /\ writing[n] = {}
-----------------------------------------------------------------------------
Init ==
    /\ known = FirstKnown
    /\ active = FirstChain
    /\ events = 0
    /\ index = {} /\ edges = {} /\ rows = {}
    /\ minerQueue = {}
    /\ pc = [n \in Node |-> "sleep"]
    /\ lastTips = [n \in Node |-> {}]
    /\ tips = [n \in Node |-> {}]
    /\ query = [n \in Node |-> 0]
    /\ walk = [n \in Node |-> NoWalk]
    /\ todo = [n \in Node |-> {}]
    /\ buffer = [n \in Node |-> {}]
    /\ fresh = [n \in Node |-> {}]
    /\ channel = [n \in Node |-> <<>>]
    /\ writing = [n \in Node |-> {}]
    /\ faults = 0
    /\ lost = {}
    /\ clean = [n \in Node |-> TRUE]

-----------------------------------------------------------------------------
(* The nodes: blocks arrive, and a node may switch to any block it holds   *)
(* (a reorganisation, invalidateblock, reconsiderblock).                   *)

Goto(n, step) == pc' = [pc EXCEPT ![n] = step]
Set(f, n, v)  == [f EXCEPT ![n] = v]

NodeChanges(n) ==
    /\ events < MaxEvents
    /\ events' = events + 1
    /\ clean' = Set(clean, n, FALSE)
    /\ UNCHANGED <<storeVars, pollVars, faults, lost>>

NodeAccepts(n, b) ==
    /\ b \notin known[n]
    /\ Parent[b] \in known[n]
    /\ known' = Set(known, n, known[n] \cup {b})
    /\ \E tip \in {b, active[n]} : active' = Set(active, n, tip)
    /\ NodeChanges(n)

NodeSwitches(n, b) ==
    /\ b \in known[n] \ {active[n]}
    /\ active' = Set(active, n, b)
    /\ UNCHANGED known
    /\ NodeChanges(n)

-----------------------------------------------------------------------------
(* One tick of a poller: the tips are read, and a changed set of tips      *)
(* starts a fetch.  A failed tips call leaves everything as it was.        *)

TickChanged(n) ==
    /\ pc[n] = "sleep"
    /\ Tips(n) # lastTips[n]
    /\ Goto(n, "active")
    /\ tips' = Set(tips, n, Tips(n))
    /\ query' = Set(query, n, Height[active[n]])
    /\ todo' = Set(todo, n, SideTips(Tips(n)))
    /\ walk' = Set(walk, n, NoWalk)
    /\ buffer' = Set(buffer, n, {})
    /\ fresh' = Set(fresh, n, {})
    /\ clean' = Set(clean, n, TRUE)
    /\ UNCHANGED <<nodeVars, storeVars, lastTips, taskVars, minerQueue, faults, lost>>

TickUnchanged(n) ==
    /\ pc[n] = "sleep"
    /\ Tips(n) = lastTips[n]
    /\ Goto(n, "repair")
    /\ UNCHANGED <<worldVars, lastTips, walkVars, taskVars>>

-----------------------------------------------------------------------------
(* The active chain, newest height first.                                  *)

\* What is left of a fetch or a repair when it ends, the step it ends in.
ForgetWalk(n) ==
    /\ tips' = Set(tips, n, {})
    /\ query' = Set(query, n, 0)
    /\ walk' = Set(walk, n, NoWalk)
    /\ todo' = Set(todo, n, {})
    /\ buffer' = Set(buffer, n, {})
    /\ fresh' = Set(fresh, n, {})

\* send_progress_batch: an empty batch is not sent.
Send(n, batch) ==
    channel' = IF batch = {} THEN channel ELSE Set(channel, n, Append(channel[n], batch))

\* Many new active headers are not queued for miner identification.
ActiveChainDone(n, found) ==
    /\ Goto(n, "branches")
    /\ fresh' = Set(fresh, n, IF Cardinality(found) <= MinerLookupLimit THEN found ELSE {})

HeaderAt(n, height) == {b \in Branch[active[n]] : Height[b] = height}

FetchHeight(n) ==
    /\ pc[n] = "active" /\ ~UsesBatches(n)
    /\ query[n] >= FirstTracked
    /\ \E b \in HeaderAt(n, query[n]) \ index :
          LET batch == buffer[n] \cup {b}
              full  == Cardinality(batch) >= ProgressBatch
          IN  /\ fresh' = Set(fresh, n, fresh[n] \cup {b})
              /\ buffer' = Set(buffer, n, IF full THEN {} ELSE batch)
              /\ IF full THEN Send(n, batch) ELSE UNCHANGED channel
    /\ query' = Set(query, n, query[n] - 1)
    /\ UNCHANGED <<worldVars, pc, lastTips, tips, walk, todo, writing>>

\* The last, incomplete batch is never sent.
HeightsDoneUnsent(n) ==
    /\ pc[n] = "active" /\ ~UsesBatches(n)
    /\ query[n] < FirstTracked \/ HeaderAt(n, query[n]) \cap index # {}
    /\ buffer' = Set(buffer, n, {})
    /\ ActiveChainDone(n, fresh[n])
    /\ UNCHANGED <<worldVars, lastTips, tips, query, walk, todo, taskVars>>

HeightsDone(n) ==
    /\ pc[n] = "active" /\ ~UsesBatches(n)
    /\ query[n] < FirstTracked \/ HeaderAt(n, query[n]) \cap index # {}
    /\ Send(n, buffer[n])
    /\ buffer' = Set(buffer, n, {})
    /\ ActiveChainDone(n, fresh[n])
    /\ UNCHANGED <<worldVars, lastTips, tips, query, walk, todo, writing>>

\* An off-by-one: the batch ends one below the height asked for.
BatchStartTooLow(n) ==
    LET lowest == query[n] - BatchStep
    IN  IF lowest < FirstTracked THEN FirstTracked ELSE lowest

BatchStart(n) ==
    LET lowest == query[n] - BatchStep + 1
    IN  IF lowest < FirstTracked THEN FirstTracked ELSE lowest

\* Bitcoin Core: the hash of the first height, then the headers from that hash on.
BatchLookup(n) ==
    /\ pc[n] = "active" /\ Backend[n] = "core_rest"
    /\ query[n] >= FirstTracked
    /\ \E b \in HeaderAt(n, BatchStart(n)) : walk' = Set(walk, n, [hash |-> b, left |-> 0])
    /\ Goto(n, "batch")
    /\ UNCHANGED <<worldVars, lastTips, tips, query, todo, buffer, fresh, taskVars>>

\* A hash that has left the active chain in between is answered with no headers.
BatchAnswer(n) ==
    IF Backend[n] = "core_rest" /\ walk[n].hash \notin Branch[active[n]] THEN {}
    ELSE {b \in Branch[active[n]] : Height[b] \in BatchStart(n) .. BatchStart(n) + BatchStep - 1}

FetchBatch(n) ==
    /\ \/ pc[n] = "batch"
       \/ pc[n] = "active" /\ Backend[n] = "electrum" /\ query[n] >= FirstTracked
    /\ LET headers == BatchAnswer(n)
           unknown == headers \ index
       IN  /\ Send(n, unknown)
           /\ IF headers = {} \/ headers # unknown
              THEN ActiveChainDone(n, fresh[n] \cup unknown) /\ UNCHANGED query
              ELSE /\ Goto(n, "active")
                   /\ fresh' = Set(fresh, n, fresh[n] \cup unknown)
                   /\ query' = Set(query, n, query[n] - BatchStep)
    /\ walk' = Set(walk, n, NoWalk)
    /\ UNCHANGED <<worldVars, lastTips, tips, todo, buffer, writing>>

BatchesDone(n) ==
    /\ pc[n] = "active" /\ UsesBatches(n)
    /\ query[n] < FirstTracked
    /\ ActiveChainDone(n, fresh[n])
    /\ UNCHANGED <<worldVars, lastTips, tips, query, walk, todo, buffer, taskVars>>

-----------------------------------------------------------------------------
(* The side branches, each from its tip down by hash.                      *)

PickBranch(n) ==
    /\ pc[n] = "branches"
    /\ \E w \in todo[n] :
          /\ IsLowest(w, todo[n])
          /\ walk' = Set(walk, n, w)
          /\ todo' = Set(todo, n, todo[n] \ {w})
    /\ Goto(n, "branch")
    /\ UNCHANGED <<worldVars, lastTips, tips, query, buffer, fresh, taskVars>>

\* The lower bound of the tracked range forgotten.
BranchContinuesUnbounded(n) ==
    /\ pc[n] = "branch"
    /\ walk[n].left > 0
    /\ walk[n].hash \in Block \ index

BranchContinues(n) ==
    /\ pc[n] = "branch"
    /\ walk[n].left > 0
    /\ walk[n].hash \in Tracked \ index

WalkBranch(n) ==
    /\ BranchContinues(n)
    /\ LET b == walk[n].hash
       IN  /\ walk' = Set(walk, n, [hash |-> Parent[b], left |-> walk[n].left - 1])
           /\ buffer' = Set(buffer, n, buffer[n] \cup {b})
           /\ fresh' = Set(fresh, n, fresh[n] \cup {b})
    /\ UNCHANGED <<worldVars, pc, lastTips, tips, query, todo, taskVars>>

BranchDone(n) ==
    /\ pc[n] = "branch" /\ ~BranchContinues(n)
    /\ Send(n, buffer[n])
    /\ buffer' = Set(buffer, n, {})
    /\ walk' = Set(walk, n, NoWalk)
    /\ Goto(n, "branches")
    /\ UNCHANGED <<worldVars, lastTips, tips, query, todo, fresh, writing>>

BranchesDone(n) ==
    /\ pc[n] = "branches" /\ todo[n] = {}
    /\ Goto(n, "drain")
    /\ UNCHANGED <<worldVars, lastTips, walkVars, taskVars>>

-----------------------------------------------------------------------------
(* The end of a fetch.  Either way the poller first waits for the progress *)
(* task to store what was sent; a failed fetch is tried again at the next  *)
(* tick because lastTips has not moved.                                    *)

\* The progress task is not awaited.
FinishFetchEarly(n) ==
    /\ pc[n] = "drain"
    /\ minerQueue' = minerQueue \cup fresh[n]
    /\ lastTips' = Set(lastTips, n, tips[n])
    /\ ForgetWalk(n)
    /\ Goto(n, "repair")
    /\ UNCHANGED <<nodeVars, storeVars, taskVars, faults, lost, clean>>

\* The completed tips are not remembered.
FinishFetchForgetsTips(n) ==
    /\ pc[n] = "drain" /\ Drained(n)
    /\ minerQueue' = minerQueue \cup fresh[n]
    /\ ForgetWalk(n)
    /\ Goto(n, "repair")
    /\ UNCHANGED <<nodeVars, storeVars, lastTips, taskVars, faults, lost, clean>>

FinishFetch(n) ==
    /\ pc[n] = "drain" /\ Drained(n)
    /\ minerQueue' = minerQueue \cup fresh[n]
    /\ lastTips' = Set(lastTips, n, tips[n])
    /\ ForgetWalk(n)
    /\ Goto(n, "repair")
    /\ UNCHANGED <<nodeVars, storeVars, taskVars, faults, lost, clean>>

AbandonFetch(n) ==
    /\ ForgetWalk(n)
    /\ Goto(n, "abort")
    /\ UNCHANGED <<nodeVars, storeVars, lastTips, taskVars, minerQueue, lost, clean>>

\* The node's chain has become shorter than the height asked for.
AskedHeight(n) == IF UsesBatches(n) THEN BatchStart(n) ELSE query[n]

FetchBeyondTip(n) ==
    /\ pc[n] = "active" /\ Backend[n] # "electrum"
    /\ query[n] >= FirstTracked
    /\ AskedHeight(n) > TipHeight(n)
    /\ AbandonFetch(n)
    /\ UNCHANGED faults

FetchCallFails(n) ==
    /\ \/ pc[n] = "active" /\ query[n] >= FirstTracked
       \/ pc[n] = "batch"
       \/ BranchContinues(n)
    /\ faults < MaxFaults
    /\ faults' = faults + 1
    /\ AbandonFetch(n)

EndAbandoned(n) ==
    /\ pc[n] = "abort" /\ Drained(n)
    /\ Goto(n, "sleep")
    /\ UNCHANGED <<worldVars, lastTips, walkVars, taskVars>>

-----------------------------------------------------------------------------
(* persist_headers: headers join the tree, then the database.  The         *)
(* progress task runs it for every batch, a repair for what it found.      *)

InsertHeaders(headers) ==
    /\ index' = InsertNodes(index, headers)
    /\ edges' = InsertEdges(edges, index, headers)

\* The two halves of persist_headers swapped: the database first.
StoreBatchDatabaseFirst(n) ==
    /\ channel[n] # <<>> /\ writing[n] = {}
    /\ rows' = rows \cup Head(channel[n])
    /\ writing' = Set(writing, n, Head(channel[n]))
    /\ channel' = Set(channel, n, Tail(channel[n]))
    /\ UNCHANGED <<nodeVars, treeVars, pc, lastTips, walkVars, minerQueue, faults, lost, clean>>

StoreBatch(n) ==
    /\ channel[n] # <<>> /\ writing[n] = {}
    /\ InsertHeaders(Head(channel[n]))
    /\ writing' = Set(writing, n, Head(channel[n]))
    /\ channel' = Set(channel, n, Tail(channel[n]))
    /\ UNCHANGED <<nodeVars, rows, pc, lastTips, walkVars, minerQueue, faults, lost, clean>>

WriteRows(n) ==
    /\ writing[n] # {}
    /\ rows' = rows \cup writing[n]
    /\ writing' = Set(writing, n, {})
    /\ UNCHANGED <<nodeVars, treeVars, pc, lastTips, walkVars, channel, minerQueue,
                   faults, lost, clean>>

\* write_to_db is one transaction; its failure is logged and forgotten.
WriteFails(n) ==
    /\ writing[n] # {}
    /\ faults < MaxFaults
    /\ faults' = faults + 1
    /\ lost' = lost \cup writing[n]
    /\ writing' = Set(writing, n, {})
    /\ UNCHANGED <<nodeVars, storeVars, pc, lastTips, walkVars, channel, minerQueue, clean>>

-----------------------------------------------------------------------------
(* Repair of disconnected subtrees, at the end of every tick.              *)

NothingToRepair(n) ==
    /\ pc[n] = "repair"
    /\ RootsToRepair = {}
    /\ Goto(n, "sleep")
    /\ UNCHANGED <<worldVars, lastTips, walkVars, taskVars>>

StartRepair(n) ==
    /\ pc[n] = "repair"
    /\ RootsToRepair # {}
    /\ todo' = Set(todo, n, RootsToRepair)
    /\ Goto(n, "roots")
    /\ UNCHANGED <<worldVars, lastTips, tips, query, walk, buffer, fresh, taskVars>>

\* A root on the node's active chain is walked down by height, another by hash.
PickRoot(n) ==
    /\ pc[n] = "roots"
    /\ \E w \in todo[n] :
          /\ IsLowest(w, todo[n])
          /\ todo' = Set(todo, n, todo[n] \ {w})
          /\ \E b \in HeaderAt(n, Height[w.hash]) :
                IF b = w.hash
                THEN /\ Goto(n, "mend_height")
                     /\ query' = Set(query, n, Height[b] - 1)
                     /\ UNCHANGED walk
                ELSE /\ Goto(n, "mend_hash")
                     /\ walk' = Set(walk, n, [hash |-> Parent[w.hash], left |-> w.left])
                     /\ UNCHANGED query
    /\ UNCHANGED <<worldVars, lastTips, tips, buffer, fresh, taskVars>>

\* tree_contains_hash, or among loaded_hashes.
Loaded(n) == index \cup fresh[n]

MendHeight(n) ==
    /\ pc[n] = "mend_height"
    /\ query[n] >= FirstTracked
    /\ \E b \in HeaderAt(n, query[n]) \ Loaded(n) : fresh' = Set(fresh, n, fresh[n] \cup {b})
    /\ query' = Set(query, n, query[n] - 1)
    /\ UNCHANGED <<worldVars, pc, lastTips, tips, walk, todo, buffer, taskVars>>

HashWalkContinues(n) ==
    /\ pc[n] = "mend_hash"
    /\ walk[n].left > 0
    /\ walk[n].hash \notin Loaded(n)

MendHash(n) ==
    /\ HashWalkContinues(n) /\ ServesHashes(n)
    /\ walk[n].hash \in known[n]
    /\ LET b == walk[n].hash
       IN  /\ fresh' = Set(fresh, n, fresh[n] \cup {b})
           /\ walk' = Set(walk, n, [hash |-> Parent[b], left |-> walk[n].left - 1])
    /\ UNCHANGED <<worldVars, pc, lastTips, tips, query, todo, buffer, taskVars>>

\* NotSupported counts as an empty answer: the next root is tried.
RootDone(n) ==
    /\ \/ /\ pc[n] = "mend_height"
          /\ query[n] < FirstTracked \/ HeaderAt(n, query[n]) \cap Loaded(n) # {}
       \/ pc[n] = "mend_hash" /\ (~HashWalkContinues(n) \/ ~ServesHashes(n))
    /\ Goto(n, "roots")
    /\ walk' = Set(walk, n, NoWalk)
    /\ query' = Set(query, n, 0)
    /\ UNCHANGED <<worldVars, lastTips, tips, todo, buffer, fresh, taskVars>>

\* Repaired headers join the tree and are never written.
StoreRepairInTreeOnly(n) ==
    /\ pc[n] = "roots" /\ todo[n] = {}
    /\ fresh[n] # {}
    /\ InsertHeaders(fresh[n])
    /\ Goto(n, "persist")
    /\ UNCHANGED <<nodeVars, rows, lastTips, walkVars, taskVars, minerQueue, faults, lost, clean>>

StoreRepair(n) ==
    /\ pc[n] = "roots" /\ todo[n] = {}
    /\ fresh[n] # {}
    /\ InsertHeaders(fresh[n])
    /\ writing' = Set(writing, n, fresh[n])
    /\ Goto(n, "persist")
    /\ UNCHANGED <<nodeVars, rows, lastTips, walkVars, channel, minerQueue, faults, lost, clean>>

RepairFoundNothing(n) ==
    /\ pc[n] = "roots" /\ todo[n] = {}
    /\ fresh[n] = {}
    /\ ForgetWalk(n)
    /\ Goto(n, "sleep")
    /\ UNCHANGED <<worldVars, lastTips, taskVars>>

FinishRepair(n) ==
    /\ pc[n] = "persist" /\ writing[n] = {}
    /\ minerQueue' = minerQueue \cup fresh[n]
    /\ ForgetWalk(n)
    /\ Goto(n, "sleep")
    /\ UNCHANGED <<nodeVars, storeVars, lastTips, taskVars, faults, lost, clean>>

\* An error while repairing one root gives up on all, with what was found so far.
AbandonRepair(n) ==
    /\ ForgetWalk(n)
    /\ Goto(n, "sleep")
    /\ UNCHANGED <<nodeVars, storeVars, lastTips, taskVars, minerQueue, lost, clean>>

RepairRefused(n) ==
    /\ \/ pc[n] = "roots" /\ \E w \in todo[n] :
             IsLowest(w, todo[n]) /\ Height[w.hash] > TipHeight(n)
       \/ pc[n] = "mend_height" /\ query[n] >= FirstTracked /\ query[n] > TipHeight(n)
       \/ HashWalkContinues(n) /\ ServesHashes(n) /\ walk[n].hash \notin known[n]
    /\ AbandonRepair(n)
    /\ UNCHANGED faults

RepairCallFails(n) ==
    /\ \/ pc[n] = "roots" /\ todo[n] # {}
       \/ pc[n] = "mend_height" /\ query[n] >= FirstTracked
       \/ HashWalkContinues(n) /\ ServesHashes(n)
    /\ faults < MaxFaults
    /\ faults' = faults + 1
    /\ AbandonRepair(n)

-----------------------------------------------------------------------------
(* The process stops and starts again: only the database is left, and the  *)
(* tree is rebuilt from it.                                                *)

Restart ==
    /\ faults < MaxFaults
    /\ faults' = faults + 1
    /\ index' = LoadedNodes(rows)
    /\ edges' = LoadedEdges(rows)
    /\ minerQueue' = {}
    /\ pc' = [n \in Node |-> "sleep"]
    /\ lastTips' = [n \in Node |-> {}]
    /\ tips' = [n \in Node |-> {}]
    /\ query' = [n \in Node |-> 0]
    /\ walk' = [n \in Node |-> NoWalk]
    /\ todo' = [n \in Node |-> {}]
    /\ buffer' = [n \in Node |-> {}]
    /\ fresh' = [n \in Node |-> {}]
    /\ channel' = [n \in Node |-> <<>>]
    /\ writing' = [n \in Node |-> {}]
    /\ lost' = {}
    /\ UNCHANGED <<nodeVars, rows, clean>>

-----------------------------------------------------------------------------
Tick(n) == TickChanged(n) \/ TickUnchanged(n)

Fetch(n) ==
    \/ FetchHeight(n) \/ HeightsDone(n)
    \/ BatchLookup(n) \/ FetchBatch(n) \/ BatchesDone(n)
    \/ PickBranch(n) \/ WalkBranch(n) \/ BranchDone(n) \/ BranchesDone(n)
    \/ FinishFetch(n) \/ FetchBeyondTip(n) \/ EndAbandoned(n)

Repair(n) ==
    \/ NothingToRepair(n) \/ StartRepair(n) \/ PickRoot(n)
    \/ MendHeight(n) \/ MendHash(n) \/ RootDone(n)
    \/ StoreRepair(n) \/ RepairFoundNothing(n) \/ FinishRepair(n) \/ RepairRefused(n)

Poller(n) == Tick(n) \/ Fetch(n) \/ Repair(n)

\* The progress task, and the database write either task waits for.
Storer(n) == StoreBatch(n) \/ WriteRows(n)

Environment(n) ==
    \/ \E b \in Block : NodeAccepts(n, b) \/ NodeSwitches(n, b)
    \/ FetchCallFails(n) \/ RepairCallFails(n) \/ WriteFails(n)

Next == Restart \/ \E n \in Node : Poller(n) \/ Storer(n) \/ Environment(n)

Spec == Init /\ [][Next]_vars

\* Tokio keeps every task that can run running; nodes and failures owe nothing.
Fairness == \A n \in Node : WF_vars(Poller(n)) /\ WF_vars(Storer(n))

FairSpec == Spec /\ Fairness

-----------------------------------------------------------------------------
(* Properties.                                                             *)

\* Every variable holds a value of its kind.
TypeOK ==
    /\ known \in [Node -> SUBSET Block]
    /\ active \in [Node -> Block]
    /\ events \in Nat /\ faults \in Nat
    /\ index \in SUBSET Tracked
    /\ edges \in SUBSET (Block \X Block)
    /\ rows \in SUBSET Tracked
    /\ lost \in SUBSET Tracked
    /\ minerQueue \in SUBSET Tracked
    /\ pc \in [Node -> Steps]
    /\ lastTips \in [Node -> SUBSET [hash : Block, branchlen : Nat]]
    /\ tips \in [Node -> SUBSET [hash : Block, branchlen : Nat]]
    /\ query \in [Node -> Int]
    /\ walk \in [Node -> [hash : Block \cup {NoBlock}, left : Nat]]
    /\ todo \in [Node -> SUBSET [hash : Block, left : Nat]]
    /\ buffer \in [Node -> SUBSET Tracked]
    /\ fresh \in [Node -> SUBSET Tracked]
    /\ channel \in [Node -> Seq(SUBSET Tracked)]
    /\ writing \in [Node -> SUBSET Tracked]
    /\ clean \in [Node -> BOOLEAN]

\* A repair never asks for a header below the tracked range: the length of every
\* walk by hash is the distance from its next header to first_tracked_height.
RepairInRange ==
    \A n \in Node :
        /\ pc[n] \in Repairing =>
              \A w \in todo[n] : w.left > 0 /\ w.left = Height[w.hash] - FirstTracked
        /\ pc[n] = "mend_hash" /\ walk[n].left > 0 =>
              /\ walk[n].hash \in Block
              /\ walk[n].left = Height[walk[n].hash] - FirstTracked + 1

\* The tree has an edge exactly where it holds a header and its parent, in
\* whatever order, by whichever poller, fetch or repair they were inserted, and
\* after a reload from the database (insert_headers, load_treeinfos).
EdgesComplete ==
    edges = {<<Parent[b], b>> : b \in {h \in index : Parent[h] \in index}}

\* A header is in the database only if it is in the tree: no reader of the tree
\* ever misses what a restart would bring back (persist_headers inserts first).
RowsInTree == rows \subseteq index

\* A header of the tree that the database lacks is being written at this moment,
\* or its write failed: no path through the tasks forgets to save one.
UnsavedAccounted == index \ rows \subseteq lost \cup UNION {writing[n] : n \in Node}

\* A hash is queued for miner identification only when its header is in the tree,
\* so that the consumer never has to drop it ("not (yet) present in tree").
QueuedInTree == minerQueue \subseteq index

\* Nothing found is dropped between the tasks.  What a poller will queue for miner
\* identification is in the tree or on its way there; a repair starts only after
\* the progress task has stored everything; what is written is in the tree.
Idle == {"sleep", "repair", "persist"} \cup Repairing

Sent(n) == UNION {channel[n][i] : i \in DOMAIN channel[n]}

Handover ==
    \A n \in Node :
        /\ writing[n] \subseteq index
        /\ pc[n] \in Idle => channel[n] = <<>>
        /\ pc[n] \in Idle \ {"persist"} => writing[n] = {}
        /\ pc[n] = "persist" => fresh[n] \subseteq index
        /\ pc[n] \in Fetching \cup {"drain"} =>
              fresh[n] \subseteq index \cup buffer[n] \cup Sent(n)
        /\ \/ pc[n] \in {"batch", "branches", "drain"}
           \/ pc[n] = "active" /\ UsesBatches(n)
           => buffer[n] = {}

\* When a fetch ends during which its node did not change, every tracked tip it
\* started from is in the tree, whatever the other pollers inserted meanwhile:
\* lastTips may then move, and the tips be cached, without losing a tip.
CleanFetchComplete ==
    \A n \in Node :
        pc[n] = "drain" /\ Drained(n) /\ clean[n] =>
            {t.hash : t \in tips[n]} \cap Tracked \subseteq index

\* HeaderSync does nothing the abstract store does not allow.
Store == INSTANCE HeaderStore WITH tree <- index, links <- edges, saved <- rows
StoreRefined == Store!Spec

\* Once nodes and failures have come to rest, every poller has completed a fetch
\* of the tips its node reports, however many fetches failed before.
TipsSettle == \A n \in Node : <>[](lastTips[n] = Tips(n))

\* Once some node answers for every disconnected root - it holds the root, can
\* look headers up by hash and its chain is as high - all gaps are closed for good.
CanRepair(n) ==
    /\ ServesHashes(n)
    /\ \A r \in UnexpectedRoots(index, edges) : r \in known[n] /\ Height[r] <= TipHeight(n)

GapsClosedByCapableNode ==
    <>[](\E n \in Node : CanRepair(n)) => <>[](UnexpectedRoots(index, edges) = {})

\* "Active roots are repaired by height lookup; non-active roots are repaired by
\* hash lookup when the backend supports it" (shared_fetch.rs): when nodes and
\* failures have come to rest, no disconnected root whose node is polled remains.
GapsClosed == <>[](UnexpectedRoots(index, edges) = {})
=============================================================================
