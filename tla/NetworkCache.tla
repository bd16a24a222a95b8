---------------------------- MODULE NetworkCache ----------------------------
(***************************************************************************)
(* The cache of one network (cache.rs): what the web interface is served,  *)
(* and the tasks that keep it: one poller per node, which stores headers   *)
(* and refreshes the cached tree (main.rs, persist_headers), and the miner *)
(* identification task.  Where the headers come from is HeaderSync's       *)
(* business; here a poller may find any headers the tree lacks.            *)
(*                                                                         *)
(* The tree, the database and the caches have a lock each, held for one    *)
(* step: what a task read under one is old when it takes the next.         *)
(***************************************************************************)
EXTENDS Integers, Sequences, FiniteSets

CONSTANTS
    Node,
    Block,
    NoBlock,
    Height,        \* the height of a block
    Holds,         \* Holds[n]: the blocks node n has
    Names,         \* Names[b]: what the nodes may make of b's coinbase
    Interesting,   \* blocks near the heights the interface shows
    RecentLimit,   \* how many identified miners the cache remembers
    MaxPolls,      \* bound: polls of all nodes together
    MaxFaults      \* bound: failed database writes and process restarts

ASSUME CacheAssumption ==
    /\ NoBlock \notin Block
    /\ Height \in [Block -> Nat]
    /\ Holds \in [Node -> SUBSET Block]
    /\ Names \in [Block -> SUBSET {"Unknown", "pool"}]
    /\ Interesting \subseteq Block
    /\ RecentLimit \in Nat /\ MaxPolls \in Nat /\ MaxFaults \in Nat

VARIABLES
    \* Functions from the headers held to their miners
    tree,        \* the headers in memory
    db,          \* the rows of the database
    cached,      \* the headers served
    \* the rest of the cache
    forks,       \* the headers the forks served were taken from
    recent,      \* <<header, miner>> of the miners identified last
    shown,       \* shown[n]: the active tip served for node n
    reachable,   \* nodes served as reachable
    metrics,     \* what the metrics served were computed from
    \* the tasks
    poller,      \* poller[n]: the state of n's polling task
    queue,       \* headers waiting for miner identification
    job,         \* the state of the identification task
    backfilled,  \* the one-shot backfill has run
    \* what happened
    polls, faults,
    unsaved,     \* headers whose write failed, or backfilled before their write
    unannounced, \* the cache has changed since the last broadcast
    dropped,     \* headers an older refresh has taken out of the cache
    outdated,    \* the metrics served were old when they were stored
    behind,      \* behind[n]: miners identified since n serialized the tree
    outrun       \* the last refresh was behind by more miners than are remembered

cacheVars == <<cached, forks, recent, shown, reachable, metrics>>
minerVars == <<queue, job, backfilled>>
ghostVars == <<unsaved, unannounced, dropped, outdated, behind, outrun>>
vars == <<tree, db, cacheVars, poller, minerVars, polls, faults, ghostVars>>

Unidentified == {"", "Unknown"}
Miners == Unidentified \cup {"pool"}

Index == DOMAIN tree
NoHeaders == [b \in {} |-> ""]

\* metrics.rs, as far as it matters when metrics are old: their inputs.
NoMetrics == [tips |-> {}, headers |-> {}]
NodeData(tips, nodes) == {tips[n] : n \in nodes} \ {NoBlock}
Metrics(tips) == [tips |-> tips, headers |-> Index]

Sleeping == [step |-> "sleep", return |-> "sleep", tip |-> NoBlock, last |-> NoBlock,
             batch |-> {}, fresh |-> {}, snapshot |-> NoHeaders, forks |-> {}, data |-> NoMetrics]
NoJob == [step |-> "take", header |-> NoBlock, miner |-> ""]

\* populate_cache; the forks and the headers are those just loaded.
Populated(headers) ==
    /\ tree' = headers /\ cached' = headers /\ forks' = DOMAIN headers
    /\ recent' = <<>>
    /\ shown' = [n \in Node |-> NoBlock]
    /\ reachable' = Node
    /\ metrics' = [tips |-> {}, headers |-> DOMAIN headers]

Init ==
    /\ tree = NoHeaders /\ db = NoHeaders /\ cached = NoHeaders /\ forks = {}
    /\ recent = <<>>
    /\ shown = [n \in Node |-> NoBlock]
    /\ reachable = Node
    /\ metrics = NoMetrics
    /\ poller = [n \in Node |-> Sleeping]
    /\ queue = {} /\ job = NoJob /\ backfilled = FALSE
    /\ polls = 0 /\ faults = 0
    /\ unsaved = {} /\ unannounced = FALSE /\ dropped = {} /\ outdated = FALSE
    /\ behind = [n \in Node |-> 0] /\ outrun = FALSE

Fault == faults < MaxFaults /\ faults' = faults + 1

-----------------------------------------------------------------------------
(* update_cache: the change itself under the caches lock, then the metrics *)
(* under the tree lock, from node data cloned before, then the metrics     *)
(* into the cache and a broadcast.                                         *)

At(n, step) == poller[n].step = step

\* Leave the caches lock with the node data just written, to go on at return.
ThenMetrics(n, tips, return) ==
    /\ poller' = [poller EXCEPT ![n].step = "metrics", ![n].return = return,
                                ![n].snapshot = NoHeaders, ![n].forks = {},
                                ![n].data = [tips |-> tips, headers |-> {}]]
    /\ unannounced' = TRUE

Returned(n) ==
    [poller[n] EXCEPT !.step = poller[n].return, !.return = "sleep", !.data = NoMetrics]

ComputeMetrics(n) ==
    /\ At(n, "metrics")
    /\ poller' = [poller EXCEPT ![n].step = "publish", ![n].data = Metrics(poller[n].data.tips)]
    /\ UNCHANGED <<tree, db, cacheVars, minerVars, polls, faults, ghostVars>>

\* The broadcast is left to the next update.
PublishSilently(n) ==
    /\ At(n, "publish")
    /\ metrics' = poller[n].data
    /\ outdated' = (poller[n].data # Metrics(NodeData(shown, reachable)))
    /\ poller' = [poller EXCEPT ![n] = Returned(n)]
    /\ UNCHANGED <<tree, db, cached, forks, recent, shown, reachable, minerVars, polls, faults,
                   unsaved, unannounced, dropped, behind, outrun>>

Publish(n) ==
    /\ At(n, "publish")
    /\ metrics' = poller[n].data
    /\ outdated' = (poller[n].data # Metrics(NodeData(shown, reachable)))
    /\ unannounced' = FALSE
    /\ poller' = [poller EXCEPT ![n] = Returned(n)]
    /\ UNCHANGED <<tree, db, cached, forks, recent, shown, reachable, minerVars, polls, faults,
                   unsaved, dropped, behind, outrun>>

-----------------------------------------------------------------------------
(* The poll loop. *)

UpdateReachable(n, nodes, return) ==
    /\ reachable' = nodes
    /\ IF nodes = reachable
       THEN poller' = [poller EXCEPT ![n].step = return] /\ UNCHANGED unannounced
       ELSE ThenMetrics(n, NodeData(shown, nodes), return)
    /\ UNCHANGED <<cached, forks, recent, shown, metrics>>

Poll(n) ==
    /\ At(n, "sleep")
    /\ polls < MaxPolls /\ polls' = polls + 1

\* load_sorted_tips, answered and not.
TipsFail(n) ==
    /\ Poll(n)
    /\ UpdateReachable(n, reachable \ {n}, "sleep")
    /\ UNCHANGED <<tree, db, minerVars, faults, unsaved, dropped, outdated, behind, outrun>>

TipsLoaded(n) ==
    /\ Poll(n)
    /\ UpdateReachable(n, reachable \cup {n}, "compare")
    /\ UNCHANGED <<tree, db, minerVars, faults, unsaved, dropped, outdated, behind, outrun>>

Unshared == <<tree, db, cacheVars, backfilled, polls, faults, ghostVars>>

CompareTips(n, tip) ==
    /\ At(n, "compare")
    /\ poller' = IF tip = poller[n].last THEN [poller EXCEPT ![n].step = "mend"]
                 ELSE [poller EXCEPT ![n].step = "fetch", ![n].tip = tip]
    /\ UNCHANGED <<Unshared, queue, job>>

\* fetch_incremental_headers: a batch of headers that were not in the tree when the
\* walk looked them up.  It completes with its tip in the tree when the node does not
\* change meanwhile (HeaderSync, CleanFetchComplete); nothing here depends on it.
FindBatch(n, found) ==
    /\ At(n, "fetch")
    /\ found # {} /\ found \cap Index = {}
    /\ poller' = [poller EXCEPT ![n].step = "insert", ![n].return = "fetch", ![n].batch = found,
                                ![n].fresh = @ \cup found]
    /\ UNCHANGED <<Unshared, queue, job>>

FetchFails(n) ==
    /\ At(n, "fetch")
    /\ poller' = [poller EXCEPT ![n] = [Sleeping EXCEPT !.last = poller[n].last]]
    /\ UNCHANGED <<Unshared, queue, job>>

FetchCompletes(n) ==
    /\ At(n, "fetch") /\ poller[n].tip \in Index
    /\ queue' = queue \cup poller[n].fresh
    /\ poller' = [poller EXCEPT ![n].step = "tips", ![n].fresh = {}, ![n].last = poller[n].tip]
    /\ UNCHANGED <<Unshared, job>>

\* Tips below the lowest header served are not cached.
RelevantTip(tip) ==
    IF cached = NoHeaders \/ \E b \in DOMAIN cached : Height[b] <= Height[tip] THEN tip ELSE NoBlock

\* The node data is not cloned for the metrics.
UpdateTipsOnly(n) ==
    /\ At(n, "tips")
    /\ shown' = [shown EXCEPT ![n] = RelevantTip(poller[n].tip)]
    /\ poller' = [poller EXCEPT ![n].step = "mend", ![n].tip = NoBlock]
    /\ UNCHANGED <<tree, db, cached, forks, recent, reachable, metrics, minerVars, polls, faults,
                   ghostVars>>

UpdateTips(n) ==
    /\ At(n, "tips")
    /\ shown' = [shown EXCEPT ![n] = RelevantTip(poller[n].tip)]
    /\ ThenMetrics(n, NodeData(shown', reachable), "mend")
    /\ UNCHANGED <<tree, db, cached, forks, recent, reachable, metrics, minerVars, polls, faults,
                   unsaved, dropped, outdated, behind, outrun>>

\* repair_missing_headers_from_unexpected_roots: headers below a header of the tree.
MendNothing(n) ==
    /\ At(n, "mend")
    /\ poller' = [poller EXCEPT ![n] = [Sleeping EXCEPT !.last = poller[n].last]]
    /\ UNCHANGED <<Unshared, queue, job>>

Mend(n, found) ==
    /\ At(n, "mend")
    /\ found # {} /\ found \cap Index = {}
    /\ \A b \in found : \E c \in Index : Height[b] < Height[c]
    /\ poller' = [poller EXCEPT ![n].step = "insert", ![n].return = "mended", ![n].batch = found,
                                ![n].fresh = found]
    /\ UNCHANGED <<Unshared, queue, job>>

Mended(n) ==
    /\ At(n, "mended")
    /\ queue' = queue \cup poller[n].fresh
    /\ poller' = [poller EXCEPT ![n] = [Sleeping EXCEPT !.last = poller[n].last]]
    /\ UNCHANGED <<Unshared, job>>

-----------------------------------------------------------------------------
(* persist_headers: the tree, the database, and when the tree has changed  *)
(* the cached tree, serialized, its forks taken and stored one after the   *)
(* other (refresh_network_tree_cache).                                     *)

\* What is held already is kept, in the tree as in the database (INSERT OR IGNORE).
Filled(held, headers) ==
    [b \in DOMAIN held \cup headers |-> IF b \in DOMAIN held THEN held[b] ELSE ""]

\* Whether the tree has changed is asked after the insertion.
InsertUnnoticed(n) ==
    /\ At(n, "insert")
    /\ tree' = Filled(tree, poller[n].batch)
    /\ poller' = [poller EXCEPT ![n].step = "write_only"]
    /\ UNCHANGED <<db, cacheVars, minerVars, polls, faults, ghostVars>>

InsertHeaders(n) ==
    /\ At(n, "insert")
    /\ tree' = Filled(tree, poller[n].batch)
    /\ LET changed == ~(poller[n].batch \subseteq Index)
       IN  poller' = [poller EXCEPT ![n].step = IF changed THEN "write" ELSE "write_only"]
    /\ UNCHANGED <<db, cacheVars, minerVars, polls, faults, ghostVars>>

Written(n) ==
    poller' = IF At(n, "write") THEN [poller EXCEPT ![n].step = "serialize"]
              ELSE [poller EXCEPT ![n] = [Returned(n) EXCEPT !.batch = {}]]

\* Rows are replaced: INSERT without OR IGNORE.
ReplaceRows(n) ==
    /\ poller[n].step \in {"write", "write_only"}
    /\ db' = [b \in DOMAIN db \cup poller[n].batch |-> IF b \in poller[n].batch THEN "" ELSE db[b]]
    /\ Written(n)
    /\ UNCHANGED <<tree, cacheVars, minerVars, polls, faults, ghostVars>>

WriteRows(n) ==
    /\ poller[n].step \in {"write", "write_only"}
    /\ db' = Filled(db, poller[n].batch)
    /\ Written(n)
    /\ UNCHANGED <<tree, cacheVars, minerVars, polls, faults, ghostVars>>

WriteFails(n) ==
    /\ poller[n].step \in {"write", "write_only"}
    /\ ~(poller[n].batch \subseteq DOMAIN db) /\ Fault
    /\ unsaved' = unsaved \cup (poller[n].batch \ DOMAIN db)
    /\ Written(n)
    /\ UNCHANGED <<tree, db, cacheVars, minerVars, polls, unannounced, dropped, outdated, behind, outrun>>

SerializeTree(n) ==
    /\ At(n, "serialize")
    /\ poller' = [poller EXCEPT ![n].step = "forks", ![n].snapshot = tree]
    /\ behind' = [behind EXCEPT ![n] = 0]
    /\ UNCHANGED <<tree, db, cacheVars, minerVars, polls, faults,
                   unsaved, unannounced, dropped, outdated, outrun>>

TakeForks(n) ==
    /\ At(n, "forks")
    /\ poller' = [poller EXCEPT ![n].step = "refresh", ![n].forks = Index]
    /\ UNCHANGED <<tree, db, cacheVars, minerVars, polls, faults, ghostVars>>

\* Recently identified miners are not replayed.
SnapshotOnly(headers) == headers

\* Later entries of recent win.
Replayed(headers) ==
    [b \in DOMAIN headers |->
        LET at == {i \in DOMAIN recent : recent[i][1] = b}
        IN  IF at = {} THEN headers[b]
            ELSE recent[CHOOSE i \in at : \A j \in at : j <= i][2]]

RefreshTree(n) ==
    /\ At(n, "refresh")
    /\ cached' = Replayed(poller[n].snapshot)
    /\ forks' = poller[n].forks
    /\ dropped' = (dropped \cup DOMAIN cached) \ DOMAIN poller[n].snapshot
    /\ outrun' = (behind[n] > RecentLimit)
    /\ behind' = [behind EXCEPT ![n] = 0]
    /\ poller' = [poller EXCEPT ![n].step = "metrics", ![n].batch = {}, ![n].snapshot = NoHeaders,
                                ![n].forks = {},
                                ![n].data = [tips |-> NodeData(shown, reachable), headers |-> {}]]
    /\ unannounced' = TRUE
    /\ UNCHANGED <<tree, db, recent, shown, reachable, metrics, minerVars, polls, faults,
                   unsaved, outdated>>

-----------------------------------------------------------------------------
(* Miner identification. *)

\* Headers not in the tree and headers already identified are skipped.
TakeRequest(b) ==
    /\ job.step = "take" /\ b \in queue
    /\ queue' = queue \ {b}
    /\ job' = IF b \in Index /\ tree[b] \in Unidentified
              THEN [step |-> "ask", header |-> b, miner |-> ""] ELSE job
    /\ UNCHANGED <<Unshared, poller>>

\* The tree is not told.
IdentifyOutsideTree(name) ==
    /\ job.step = "ask" /\ name \in Names[job.header]
    /\ job' = [job EXCEPT !.step = "save", !.miner = name]
    /\ UNCHANGED <<Unshared, poller, queue>>

\* The first node to name a pool, or no node.
Identify(name) ==
    /\ job.step = "ask" /\ name \in Names[job.header]
    /\ tree' = [tree EXCEPT ![job.header] = name]
    /\ job' = [job EXCEPT !.step = "save", !.miner = name]
    /\ UNCHANGED <<db, cacheVars, poller, queue, backfilled, polls, faults, ghostVars>>

\* update_miner: the UPDATE changes the row if there is one.
SaveMiner ==
    /\ job.step = "save"
    /\ db' = [b \in DOMAIN db |-> IF b = job.header THEN job.miner ELSE db[b]]
    /\ job' = [job EXCEPT !.step = "show"]
    /\ UNCHANGED <<tree, cacheVars, poller, queue, backfilled, polls, faults, ghostVars>>

SaveMinerFails ==
    /\ job.step = "save" /\ job.header \in DOMAIN db /\ Fault
    /\ unsaved' = unsaved \cup {job.header}
    /\ job' = [job EXCEPT !.step = "show"]
    /\ UNCHANGED <<tree, db, cacheVars, poller, queue, backfilled, polls,
                   unannounced, dropped, outdated, behind, outrun>>

\* The oldest entry is never dropped.
RememberedForever == Append(recent, <<job.header, job.miner>>)

Remembered ==
    LET all == Append(recent, <<job.header, job.miner>>)
    IN  IF Len(all) > RecentLimit THEN Tail(all) ELSE all

Counted == [n \in Node |-> IF poller[n].step \in {"forks", "refresh"} /\ behind[n] <= RecentLimit
                           THEN behind[n] + 1 ELSE behind[n]]

\* The cache, the remembered miners and the broadcast.
ShowMiner ==
    /\ job.step = "show"
    /\ cached' = [b \in DOMAIN cached |-> IF b = job.header THEN job.miner ELSE cached[b]]
    /\ recent' = Remembered
    /\ behind' = Counted
    /\ unannounced' = FALSE
    /\ job' = NoJob
    /\ UNCHANGED <<tree, db, forks, shown, reachable, metrics, poller, queue, backfilled, polls,
                   faults, unsaved, dropped, outdated, outrun>>

Backfill ==
    /\ ~backfilled /\ backfilled' = TRUE
    /\ LET headers == {b \in Index \cap Interesting : tree[b] \in Unidentified}
       IN  /\ headers # {}
           /\ queue' = queue \cup headers
           /\ unsaved' = unsaved \cup (headers \ DOMAIN db)
    /\ UNCHANGED <<tree, db, cacheVars, poller, job, polls, faults,
                   unannounced, dropped, outdated, behind, outrun>>

\* The process stops at any step and starts from the database.
Restart ==
    /\ Fault
    /\ Populated(db)
    /\ poller' = [n \in Node |-> Sleeping]
    /\ queue' = {} /\ job' = NoJob /\ backfilled' = FALSE
    /\ unannounced' = FALSE /\ dropped' = {} /\ outdated' = FALSE
    /\ behind' = [n \in Node |-> 0] /\ outrun' = FALSE
    /\ UNCHANGED <<db, polls, unsaved>>

PollerStep(n) ==
    \/ TipsFail(n) \/ TipsLoaded(n)
    \/ \E b \in Holds[n] : CompareTips(n, b)
    \/ \E found \in SUBSET Holds[n] : FindBatch(n, found) \/ Mend(n, found)
    \/ FetchFails(n) \/ FetchCompletes(n) \/ UpdateTips(n)
    \/ MendNothing(n) \/ Mended(n)
    \/ InsertHeaders(n) \/ WriteRows(n) \/ WriteFails(n)
    \/ SerializeTree(n) \/ TakeForks(n) \/ RefreshTree(n)
    \/ ComputeMetrics(n) \/ Publish(n)

MinerStep ==
    \/ \E b \in queue : TakeRequest(b)
    \/ \E name \in {"Unknown", "pool"} : Identify(name)
    \/ SaveMiner \/ SaveMinerFails \/ ShowMiner

Next ==
    \/ \E n \in Node : PollerStep(n)
    \/ MinerStep
    \/ Backfill
    \/ Restart

Spec == Init /\ [][Next]_vars

-----------------------------------------------------------------------------
(* Properties *)

Held == UNION {[headers -> Miners] : headers \in SUBSET Block}

Returns == {"sleep", "compare", "fetch", "mend", "mended"}
Refreshing == {"write", "serialize", "forks", "refresh"}
Steps == Returns \cup Refreshing \cup {"metrics", "publish", "insert", "write_only", "tips"}

Poller ==
    [step : Steps, return : Returns, tip : Block \cup {NoBlock}, last : Block \cup {NoBlock},
     batch : SUBSET Block, fresh : SUBSET Block, snapshot : Held, forks : SUBSET Block,
     data : [tips : SUBSET Block, headers : SUBSET Block]]

Job == {NoJob} \cup [step : {"ask", "save", "show"}, header : Block, miner : Miners]

TypeOK ==
    /\ tree \in Held /\ db \in Held /\ cached \in Held
    /\ forks \subseteq Block
    /\ recent \in Seq(Block \X Miners) /\ Len(recent) <= RecentLimit
    /\ shown \in [Node -> Block \cup {NoBlock}]
    /\ reachable \subseteq Node
    /\ metrics \in [tips : SUBSET Block, headers : SUBSET Block]
    /\ poller \in [Node -> Poller]
    /\ queue \subseteq Block /\ job \in Job
    /\ unsaved \cup dropped \subseteq Block
    /\ behind \in [Node -> Nat]

\* The cache shows nothing the tree does not hold: no header, no fork and no pool
\* name that is ahead of it, so that a restart or a refresh takes no name back.
CachedFromTree ==
    /\ DOMAIN cached \cup forks \subseteq Index
    /\ \A b \in DOMAIN cached : cached[b] = "pool" => tree[b] = "pool"

\* Every header of the tree is served, unless a poller that has stored it is about to
\* refresh the cache, or a poller with an older snapshot has overwritten it.
HeadersServed ==
    Index \ DOMAIN cached \subseteq
        dropped \cup UNION {poller[n].batch : n \in {m \in Node : poller[m].step \in Refreshing}}

\* "Recent miner updates are replayed when refreshing the cache" (types.rs): a pool name
\* that the tree has is served too, once the identification task has shown it, although
\* a refresh overwrites the whole tree with one serialized before the name was found.
\* The exception: more miners identified in between than the cache remembers.
MinersReplayed ==
    \A b \in DOMAIN cached :
        tree[b] = "pool" /\ cached[b] # "pool" => job.header = b \/ outrun

\* A row has the pool name its header has in the tree, although rows are written by
\* several pollers and by the identification task: a restart forgets none.  The
\* exceptions: a failed write, and a backfill that runs before the row is written.
MinersSaved ==
    \A b \in DOMAIN db :
        tree[b] = "pool" /\ db[b] # "pool" => b \in unsaved \/ job.header = b

Quiet == \A n \in Node : poller[n].step = "sleep"

\* When all pollers sleep the metrics served are those of the tree and the node data
\* served, unless the poller that stored them last had computed them from older ones.
MetricsServed == Quiet => metrics = Metrics(NodeData(shown, reachable)) \/ outdated

\* When all pollers sleep every change of the cache has been followed by a broadcast:
\* no browser is left with a state nobody will tell it to replace.
AnnouncedWhenQuiet == Quiet => ~unannounced
=============================================================================
