# reorg-playground: a verification project

reorg-playground watches the block trees of several Bitcoin networks (regtest,
signet, ...) as seen by several nodes each, shows them in a web page, and lets a
user provoke reorganisations, mine, and rewire the nodes. This directory holds
TLA+ models of its core, the TLC configurations that check them on small
instances, and proofs that TLAPS checks for every instance.

To run something: `tlc -config MCHeaderSync.cfg MCHeaderSync` checks a model,
`tlapm HeaderSyncProofs.tla` checks proofs. `PROJECT.json` lists the runs
with what each is about, maps every definition to the lines it models, gives for
every property a mutated definition that must break it, and lists the hazards.

- [1. The system](#1-the-system)
- [2. The modules](#2-the-modules)
- [3. What the runs check and show](#3-what-the-runs-check-and-show)
- [4. What is proved](#4-what-is-proved)
- [5. Fairness](#5-fairness)
- [6. Where code and documentation disagree](#6-where-code-and-documentation-disagree)
- [7. What is left out, and why](#7-what-is-left-out-and-why)
- [8. Plan](#8-plan)

## 1. The system

Per network the server keeps one block tree, one cache of what the web
interface is served, and one poller task per node; all networks share a SQLite
database and one broadcast channel. The page in the browser is a client of the
HTTP API and of its event stream.

```
 node  node  node            (Bitcoin Core REST/RPC, btcd, Esplora, Electrum)
   |     |     |
 poller poller poller        main.rs spawn_network_tasks, node/shared_fetch.rs
   |  \  |  /  |
   |   tree ---+--> database  headertree.rs, db.rs
   |     |                     ^
   |   miner queue -> identification task (main.rs)
   |     |                     |
   +--> network cache <--------+   cache.rs, metrics.rs
             |  broadcast channel (16 messages, all networks)
         HTTP API, event stream    api.rs
             |
          browser page             ui/src/hooks/useNetworkData.ts
             |  control calls: rewind, mine, reconsider, connect, faucet
          nodes
```

| Component | State | Operations | What makes it hard | What makes it correct |
|---|---|---|---|---|
| Header tree (`headertree.rs`) | graph of headers, hash to node map | `insert_headers`, `load_treeinfos`, `unexpected_roots` | headers arrive newest first, in pieces, from several nodes | edges exactly where a header and its parent are present |
| Header synchronisation (`main.rs`, `shared_fetch.rs`) | `last_tips` per poller, batches between a fetch and its progress task | poll, fetch active chain and branches, store batches, repair gaps | every await is an interleaving point; the node changes under the walk; calls, writes and the process fail | nothing found is lost between poller, tree, database and miner queue; gaps close |
| Backends (`node/*.rs`) | none | tips, header by height, by hash, batches | each supports a different subset | see header synchronisation |
| Database (`db.rs`) | rows of headers with miner | `write_to_db`, `update_miner`, load | rows are written by several tasks and after an update of their miner | a row never takes a miner back |
| Network cache (`cache.rs`, `types.rs`) | header infos, forks, node data, recent miners, metrics | `update_cache`, `populate_cache`, refresh | two locks taken one after the other: what was read under one is old under the next | the cache never runs ahead of the tree and is behind only where a named race explains it |
| Miner identification (`main.rs`) | request queue | identify, save, show, backfill | races with refreshes and with the first write of a row | a pool name once found is served and saved |
| Metrics (`metrics.rs`) | none (pure) | common ancestor of the active tips, windows | tree with gaps, nodes that disagree or are gone | windows count what they say |
| API and event stream (`api.rs`) | broadcast receiver | snapshot, changes stream | receiver lags and loses messages | a lagging page is told to resynchronise |
| Live view (`useNetworkData.ts`) | event source, debounce timer, SWR cache | events, refetch, network selection | requests under way when an event arrives; connection lost | a page at rest is up to date |
| Reorg workflow (`useTriggerReorg.ts`, `api.rs`, `bitcoin_core.rs`) | step of the workflow; the node's chain and connection | disconnect, rewind, mine, reconsider, reconnect | one step of five fails, or takes effect and its answer is lost; workflows of several pages overlap | the reorg happens in private; the node ends connected, the old branch valid |
| Auto-mining (`AutoMineButton.tsx`) | timer, one request at a time | start, stop, mine, select another network | late answers after a stop; the network changes under the loop | never two loops; only chosen nodes mine |
| Mining on a node (`bitcoin_core.rs`, `signet_mining.rs`) | wallets; one lock for all signet mining; a miner process | open the wallet, mine on a regtest or a signet | requests race for wallet and lock; the process outlives a dropped request, or hangs | one miner at a time; what is reported was mined; everyone gets the lock |
| Faucet (`bitcoin_core.rs`) | wallet | pay, look at the balance, refill | concurrent requests; an answer that is lost | one payment per request; refills stop only for cause |
| Peer control (`peer_api.rs`, peer hooks) | addnode entries and sockets of both ends; what the page waits for | list, connect, disconnect | two nodes changed one after the other while they dial and drop by themselves; lists read at different moments | names are true, a disconnect hits its pair only and is reported when it happened |
| Tree views (`headertree.rs`, `cache.rs`, `rss.rs`) | none (pure) | recent forks, heights worth showing, headers to identify | cut off at limits | a disagreement of the nodes is among what is shown |
| Configuration (`config.rs`) | none (pure) | parse, normalise ranges | boundary values | the ranges served are ordered and different |
| Graph layout, page components, errors, scripts | none | formatting | - | - |

The hazards, each at its line with the properties that would notice it, are in
`PROJECT.json` under `hazards`.

## 2. The modules

| Module | Models | State and code |
|---|---|---|
| `HeaderTree` | `headertree.rs` | operators only. A block is an abstract value with the constants `Parent`, `Height`, `Branch` (its ancestors and itself). The graph is the set of its headers and the set of its edges; `InsertEdges` links every inserted header up and down, as `insert_headers` does, and `UnexpectedRoots` is the traversal of `unexpected_roots`. |
| `HeaderStore` | what header synchronisation promises | the abstract specification: `Observe` (the tree grows by any headers, with exactly the edges they call for), `Save` (a subset of the tree reaches the database), `Restart` (the tree is what the database holds). |
| `HeaderSync` | poll loop, all walks, progress task, repair, database writes, restart | per node the program counter `pc` of its poller, `lastTips`, the local variables of the walk under way (`tips`, `query`, `walk`, `todo`, `buffer`, `fresh`), the `channel` to the progress task and the batch it is `writing`; shared `index`, `edges`, `rows`, `minerQueue`; the nodes' own `known` and `active`. One action per await. |
| `StaleRate` | `metrics.rs`, `normalize_stale_rate_ranges` | the inputs of the computation as variables (the tree, every node's active tip, reachability), changed as the pollers change them; the computation as operators, for the ranges the configuration yields from what is written in the file (`Configured`). |
| `TreeViews` | `recent_forks`, `sorted_interesting_heights`, the backfill's choice of headers | operators over the state of `StaleRate`, which it extends. |
| `NetworkCache` | `cache.rs`, `types.rs`, `persist_headers`, miner identification | headers with their miners as functions: `tree`, `db`, `cached`. Every step of a task is between two lock acquisitions; what the task took along (a serialized tree, cloned node data, a batch) is in its `poller` record. |
| `LiveView` | event stream of `api.rs` and the page's `useNetworkData.ts` | `log` is the broadcast channel, `next` the receiver's position, `stream` the wire, `timer` the debounce timer, `request`/`answer`/`displayed` the snapshot's way into the page. |
| `Mirror` | what the live view promises | the abstract specification: a cache changes (`Change`), and the page shows a later state of it (`Show`). |
| `NodeChains` | the Bitcoin Core nodes, external | blocks are numbered as they are mined; `chain` gives each block's ancestors, `received` a node's blocks with their order of arrival, `invalid` its marks, `online` the nodes whose network is active. The active tip has the most work among the blocks without an invalid ancestor, and of several it is the one received first. |
| `ReorgWorkflow` | `useTriggerReorg.ts` and the handlers and RPC calls behind it | `flow[p]` is the workflow of page p: its step, how far the server is with the call, and what the page remembers. Every RPC call of a handler is an action: `rewind_active_chain` has three, mining one per block. |
| `AutoMine` | `AutoMineButton.tsx` | `loop` is the configuration (`activeConfig`), `timer` the timeout, `requests` the calls under way with the loop and the mounted button that sent them. |
| `PageControls` | the composition | `ReorgWorkflow` for some pages, `AutoMine` for another: a request of the loop is a block on the same nodes. |
| `PeerControl` | `peer_api.rs`, the peer calls of `bitcoin_core.rs`, `usePeerConnectionManager.ts` | the nodes' `entries` (addnode) and `socks` (external: they dial, connect, notice and drop by themselves), the peer lists a `load` has got so far, the `view` made of them, `req` for the handlers, one RPC per action, and `page` for what the page waits for. An address has two spellings: the one the view shows (`catalog`) and another numeric one. |
| `NodeMining` | `mine_block`, `faucet`, the wallet calls, `signet_mining.rs` | one node: `wallet` states, all blocks `mined` in order and the active `chain`, `spent` rewards; per request `pc` (the call it makes next) and the handler's local variables; `queue` is the lock with its holder first; `miner` the external processes, which go on when their request is `dropped`. |
| `HeaderTreeProofs` | lemmas about block trees and their branches, used by `HeaderSyncProofs` and `StaleRateProofs` | section 4. |
| `HeaderSyncProofs` | theorems about `HeaderSync` | section 4. |
| `StaleRateProofs` | theorems about `StaleRate` and `TreeViews` | section 4. |
| `NodeMiningProofs` | theorems about `NodeMining` | section 4. |
| `NetworkCacheProofs`, `LiveViewProofs`, `PeerControlProofs` | theorems about the module each is named after | section 4. |
| `PageControlsProofs` | theorems about `ReorgWorkflow` and `AutoMine` in their composition | section 4. |
| `MCHeaderSync`, `MCStaleRate`, `MCNetworkCache`, `MCLiveView`, `MCPageControls`, `MCPeerControl`, `MCNodeMining` | the small instances | block trees, backends and node contents for TLC. |

`HeaderSync` and `StaleRate` extend `HeaderTree`; `HeaderSync` instantiates
`HeaderStore` WITH its `index`, `edges` and `rows` for the store's `tree`,
`links` and `saved`; `LiveView` instantiates `Mirror` WITH its `version` and `displayed`
for what is `current` and `shown`. The others meet at
stated interfaces:

- `StaleRate` takes a tree to be the set of its headers. That the edges are
  those these headers call for is `EdgesComplete` of `HeaderSync`.
- `NetworkCache` lets a poller find any headers the tree lacked when the walk
  looked; which ones is `HeaderSync`'s business. A fetch completes there only with
  its tip in the tree: `CleanFetchComplete` of `HeaderSync` for a node that does
  not change during the fetch. It keeps of the metrics only the tips and headers
  they were computed from: what is computed from them is `StaleRate`'s business.
- `LiveView` counts changes of a cache; that every change is followed by a
  broadcast is `AnnouncedWhenQuiet` of `NetworkCache`.
- `PageControls` changes the nodes' chains; how a node's chain may change is left
  open in `HeaderSync` (`NodeChanges`), whose nodes never lose a block they hold.
  It takes mining to be one call: the calls behind it are `NodeMining`'s, where
  another page's rewind is `Rewind`.
- `PeerControl` takes a page's reloads on peer events and on a timer to be the same
  `Reload`; the network's activity switch (`NodeChains.online`) is left out there.

Conventions. Definitions keep the names of the source where they have one, and
comments name the Rust or TypeScript function. A definition that only serves as
a mutant (`...EdgesUpwardOnly`, `...Unsent`, `...Early`) stands before the
one it mutates, with a comment that names the slip; no action uses it. Variables
under "what happened" (`clean`, `lost`, `dropped`, `outdated`, `behind`,
`unannounced`, `missed`, `disturbed`, `stranded`,
`abandoned`, `cleared`, `leftover`, `caught`, `unheard`, `paid`, `robbed`,
`crowded`, `misled`, `rewound`, `restarted`) record history for the properties and guard nothing.

Atomicity. A step ends where the code awaits something another task can
influence: a call to a node, a lock, a database write, a channel. Two
consecutive operations are one step where nothing can come in between that
matters: in `HeaderSync` a node's answer and the look at the tree that follows
it (nothing but this poller talks to the node, and a node does not read the
tree, so the look can be moved next to the answer); in `NetworkCache` one lock
scope is one step.

Failures. `HeaderSync`: any call to a node fails, or is refused because the node
no longer has what it is asked for; a database write fails; the process
restarts at any step. `NetworkCache`: tips calls and fetches fail at will,
database writes and the process within `MaxFaults`. `LiveView`: snapshot
requests fail and are retried, the stream breaks and is reopened, or is refused
and given up. `PageControls`: a call fails before, between or after its steps,
or its answer is lost, which is the same to the page, and a page is closed, within
`MaxFailures`. `PeerControl`: an RPC fails, with or without effect, a peer list
cannot be read, a removal fails unnoticed, a socket is lost, within the bounds of
each deployment. `NodeMining`: a call fails or is answered after its timeout
(having taken effect), a client goes, others mine or rewind, the node restarts, a
miner process fails, does nothing or hangs, within `trouble`.

## 3. What the runs check and show

Times are those of two TLC workers on a small machine.

### header_sync (751,455 states, 90 s)

`MCHeaderSync.cfg`: a Bitcoin Core node (REST, batches) on `a3` and a btcd node
(one header at a time) on `b2`, over the tree g - a1 - a2 - a3, b2 and b3 above
a1, c1 c2 above g. Height 1 is the first tracked height. One node event (a block
arrives, or the node switches chain) and one failure (call, write or restart).

- `EdgesComplete`: the graph has exactly the edges its headers call for,
  whichever order two pollers' fetches and repairs inserted them in.
- `UnsavedAccounted`: the database is behind the tree only by headers being
  written at this moment or whose write failed.
- `QueuedInTree`: the identification task is never asked about a header it would
  have to drop.
- `Handover`: nothing a fetch found is lost between its buffer, the channel, the
  progress task and the tree, and no repair starts while a batch is on its way.
- `CleanFetchComplete`: a fetch during which its node did not change ends with
  all its tracked tips in the tree, although walks stop at the first header that
  is already there and another poller inserts meanwhile. It is this, not
  the fetch's return value, that makes it right to move `last_tips`.
- `StoreRefined`: the whole is an implementation of `HeaderStore`.

That the database is never ahead of the tree (`RowsInTree`) and that a repair
never asks below `first_tracked_height` (`RepairInRange`) is not checked here but
proved for every instance (section 4).

### header_sync_repair (179,013 states, 45 s)

`MCHeaderSyncRepair.cfg`, under fairness: an Electrum server (no lookups by
hash) on one branch and a Bitcoin Core node (RPC) that holds both branches; one
event, one failure. The Core node may leave its chain half way through
the fetch, which leaves a gap nobody reports.

- `TipsSettle`: once nodes and failures rest, every poller completes a fetch of
  the tips its node reports, however the fetches before ended.
- `GapsClosedByCapableNode`: gaps are closed once some node stays able to answer
  for every disconnected root: it holds the root, looks up by hash, and its
  chain is as high as the root (the height lookup that decides between the two
  ways of walking fails above the node's tip).

### header_sync_split (expected violation)

`MCHeaderSyncSplit.cfg`: two Bitcoin Core nodes that do not know each other's
branch, one restart. `GapsClosed`, which drops the condition of
`GapsClosedByCapableNode`, is violated: see section 6.

### stale_rate (12,544 states, 32 s)

`MCStaleRate.cfg`: trees over g, a1, a2, b2, c1, c2 that can arise by inserting
parts of branches, all pairs of active tips, all reachabilities; one
node reports stale tips; windows written in the configuration as 3, 1, 2, 1 blocks,
and all time; one fork is listed, one height counts as recent, two as hotspots. The
properties compare the code's way of computing with definitions over sets:

- `ResolvedIsCommonAncestor`: the fold over paths finds the highest block all
  active tips are connected to.
- `WindowsExact`: an available window's stale count is the number of headers off
  the chain at its heights, all connected down to its start.
- `RangesNest`: the ranges served ascend, none twice and all time last, and a
  longer one counts at least as much as a shorter one.
- `InsertionsKeepStale`: headers that arrive late never take a stale block back.
- `SplitsShown`: where the active tips of two reachable nodes are on different
  branches, the block at which they part is in the list of forks and the miners of
  that block and of both its successors are asked for, unless the limits are used
  up by forks and heights above it, or the network is configured to show no heights at all
  (`VisibleHeights` = 0: nothing in `config.rs` forbids it, and `headertree.rs:26` then
  returns nothing). The proof found that case; the instance has `VisibleHeights` = 1.

Heights 0 to 2 and three branches are the least that give windows with a start
inside, at and below the fork, gaps inside and above a window, and two stale
blocks at one height; with a limit of one fork the list overflows.

### stale_rate_gap (expected violation)

`MCStaleRateGap.cfg`: `NotUnderstated`, the claim of a comment in `metrics.rs`.

### network_cache (2,443,708 states, 70 s)

`MCNetworkCache.cfg`: two pollers (one node has header a, the other a and b
above it), the identification task with a memory of one miner, the backfill, two
polls in all, one database failure or restart.

- `CachedFromTree`: nothing is served that the tree lacks, and no pool name.
- `HeadersServed`: the tree's headers are served, are about to be, or were
  overwritten by an older refresh (`dropped`).
- `MinersReplayed`: a refresh from an older serialization does not take pool
  names back, unless more were found meanwhile than are remembered.
- `MinersSaved`: rows have the pool names of the tree, unless a write failed or
  the backfill was ahead of the first write.
- `MetricsServed`: with all pollers asleep the metrics are those of the tree and
  node data, unless the last poller to store them had computed them before
  another change (`outdated`).
- `AnnouncedWhenQuiet`: with all pollers asleep every change has been broadcast.

The exceptions are part of what the properties say: they name the races that do
make the cache old, and there is no other. Two polls are enough for them because
every exception needs at most two tasks that pass each other; the memory of one
miner stands for the code's five so that it overflows within two headers.

`dropped` is the race a reader should know of: `refresh_network_tree_cache`
(`main.rs:184`) serializes the tree under one lock and stores it under another, two
pollers can pass each other, and a header of the tree is then not served until the
tree changes again. Without that disjunct `HeadersServed` is violated.

### live_view (212,524 states, 30 s)

`MCLiveView.cfg`: two networks share a channel of one message (the code's is 16;
one is the smallest and lags at once), one event on the wire, three versions of
each cache, one failure, one change of the selected network.

- `NoLostUpdate`: a page at rest shows the current cache unless it `missed` a
  broadcast: one sent, or on its way, while it had no open stream, and no
  snapshot was taken since.
- `UpdateShown`: and it does come to rest there.
- `ViewRefined`: what it shows of a network is a state the network's cache has been in,
  and never followed by an earlier one (`Mirror`).

`missed` is there because opening the stream fetches nothing
(`useNetworkData.ts:120`): a change broadcast before the stream was open, at the
start or after a lost connection, is not shown until another one follows. Without it
both properties are violated.

### page_controls (289,113 states, 85 s)

`MCPageControls.cfg`: two nodes with a chain of two blocks, two pages that may
start the reorg workflow (depth 1) on either, a page that mines on a timer on one
of the nodes and may select another network, seen before or not.
Two of these things are started, one call fails or one page is closed.

- `ReorgHappens`: when a workflow nobody interfered with comes to reconnect its
  node, its blocks are the node's chain, the block it rewound is not on it, the
  chain is longer than the one it replaces and that one is valid again.
  Interference is another workflow on the same node at the same time, or a block
  mined by somebody else meanwhile. One exception is needed: after a failed
  workflow on the node, whose block is still invalid, a second attempt counts its
  depth from the shortened chain, and its `reconsiderblock` frees that block too
  (a descendant of its own), whose branch is as long as the new one and older: the
  workflow reports success and the chain is the old one. TLC shows it when
  `abandoned[flow[p].node] = {}` is taken out.
- `MinedInPrivate`: the replacement blocks stay on their node until it is
  reconnected.
- `MarksOwned`: an invalid mark belongs to a workflow that is still to reconsider
  it, or to one that failed: overlapping workflows take each other's marks away at
  most.
- `OneLoop`: auto-mining has exactly one timer or request while it is on, and
  no timer while it is off, whatever late answers of stopped loops arrive.
- `NodeComesBack`: a disconnected node is connected again, except by the failures
  the code does not handle: an answer to the disconnection that is lost, a failed
  reconnection after a failure, a closed page (`stranded`).

That the chain is longer, and not that it parts exactly `depth` blocks below the old
tip, is what `ReorgHappens` promises: `invalidateblock` (`bitcoin_core.rs:413`)
activates the branch with the most work that is left, the one received first among
several. Earlier reorgs leave such branches behind, since they reconsider the block
they rewound: a second reorg of depth 1 on a node returns to the branch replaced by
the first, and is two deep.

### auto_mine_network (expected violation)

`MCPageControlsSelect.cfg`: `MinesSelectedNodes`. See section 6.

### peer_control (981,373 states, 40 s)

`MCPeerControl.cfg`: nodes a and b and a peer x that is not configured, x on the host
of a and on the port of b; only a has a configured address. Seven deployments
differ in the entries the nodes start with, in whether the hosts are loopback
and in their bounds: either one request at a time with a second connection, a lost
socket and a failed call, or two overlapping requests over one connection.

- `MatchesTrue`: where the view shows both ends of a connection each names the other
  node, and no name is wrong, although lists are read at different moments. One
  exception: an outbound peer of numeric address that is nobody's address known to
  the view is taken for the only node on its port.
- `EntriesCleared`: after a disconnect that went through at both ends and knew both
  addresses, neither node has an addnode entry for the other's catalog address,
  except one added while it ran and one whose removal failed, which
  `remove_peer_connection` ignores (`bitcoin_core.rs:842`), as it does for the far end.
- `OnlyThatLink`: no other pair's connection is closed, but for a row with a wrong
  name and for other peers on the near node's host: the far node drops every peer on
  that IP address unless it is loopback.
- `DisconnectReported`: the page reports a disconnect only when the connection is
  closed, or when the node's peer list could not be read, which `peer_api.rs:163` turns
  into an empty list.

Two properties of the code are in the model and not in a property: a disconnect whose
near node has no known address is refused before it changes anything, and the page
gives up a wait only when its view changes (the effect at
`usePeerConnectionManager.ts:255` has no timer), so with a view that stays the same it
waits longer than its 30 s.

### peer_reconnect (expected violation)

`MCPeerControlReconnect.cfg`: `NoReconnectLoop`, `EntriesCleared` for all spellings.
See section 6.

### node_mining (502,336 states, 100 s)

`MCNodeMining.cfg`: two requests, each for a payment of two or three rewards, for two
blocks (with or without transactions), or to another backend; a regtest whose faucet
wallet is absent, one whose wallet is closed and holds a reward, and a signet. One
thing goes wrong on a regtest, two on the signet.

- `PaidOnce`: a request is paid at most once, and once when it is told so, although it
  pays again after each refill: it does so only when the node answered that funds are
  short, never after an error or a timeout.
- `GivesUpForCause`: an amount the limit of refill blocks allows is refused only when
  others were paid meanwhile, the chain was rewound, or a block of others came between
  the refused payment and the look at the balance: it takes the immature rewards to
  nothing, and the faucet then mines a full refill more where one block was
  due. Each of the three is needed.
- `WalletLostToAnother`: a request that fails because it can neither load nor create
  its wallet finds it open, unless the node restarted or did not answer it.
- `OneMiner`: two miner processes run at a time only after a request was dropped
  (axum drops a handler when its client goes): the lock is released with the future, the
  process is not killed.
- `ReportedAreMined`: a success lists as many different blocks as asked for, mined for
  the request. Exceptions on a signet: another miner's block is reported as its
  own, and after a rewind an older block may be, because all that is compared is the
  best block before and after.
- `EveryRequestEnds`: every request ends, by success or error, unless the lock's holder
  waits for a process that hangs: `Command::output` has no timeout.

### Deadlock

Deadlock is checked in the runs of `HeaderSync` and `StaleRate`, whose pollers
and inputs never stop. `PeerControl` reloads its view for ever.
`NetworkCache`, `LiveView`, `PageControls` and `NodeMining` are bounded by
polls, versions, what users start and failures, and come to rest: their
configurations say
`CHECK_DEADLOCK FALSE`.

### Bounds

| Bound | Code | Instance | Why enough |
|---|---|---|---|
| `BatchStep`, `ProgressBatch` | `ACTIVE_BATCH_STEP`, `RPC_PROGRESS_BATCH_SIZE` | 2 (progress 1 in the repair runs) | chains of three blocks take one full and one partial batch |
| `MinerLookupLimit` | `ACTIVE_MINER_LOOKUP_LIMIT` | 2 | both sides of the limit are met: three new active headers, and fewer |
| `MaxEvents` | none | 1, 0 in the split run | one change of a node at any step of a fetch; two within one fetch are listed as a hazard that is not covered |
| `MaxFaults` | none | 1 | one failure at any step; the proofs hold for any number |
| `RecentLimit` | 5 | 1 | overflows with two headers |
| `MaxPolls` | none | 2 | see `network_cache` |
| `Capacity` | 16 | 1 | see `live_view` |
| `FirstHeight`, `Depths` | none | 2, {1} | a rewind and, after a failure, another one below it; two replacement blocks |
| `MaxActions`, `MaxTicks` | none | 2, 2 | two workflows, a workflow and a loop, or two loops; a late answer of the first loop beside a request of the second |
| `Maturity`, `MaxRefill` | 100, 200 | 1, 3 | `Maturity` < `MaxRefill` < 2 (`Maturity` + 1) as in the code: one full refill fits, two do not |
| `trouble` | none | 1 on a regtest, 2 on a signet | two events in a row are needed for an orphan miner beside a block of others; the proofs hold for any number |
| `MaxForks`, `VisibleHeights`, `ExtraHotspots` | 50, configured, configured | 1, 1, 2 | each limit is reached in the trees of the instance |
| `MaxSockets` and the bounds of each deployment | none | 2 connections, one loss and one failure; or two requests | a reconnection under a disconnect; two requests on one connection |
| `StreamLimit`, `MaxVersion`, `MaxFailures`, `MaxSwitches` | none | 1, 3, 1, 1 | three versions: one shown, one in an answer under way, one newer |

## 4. What is proved

Every theorem is about all values of the constants: any sets of nodes, pages, requests
and blocks, any block tree, any capacity and limit, and any bound on polls, failures and
what users start. The assumptions are named in the modules, are about constants only, and
are evaluated by TLC in the runs:

| Assumption | Says |
|---|---|
| `BlockAssumption`, `BranchAssumption` | heights are those of the parent relation; `Branch` is the finite set of ancestors |
| `MetricsAssumption` | the windows written in the configuration are positive, and there is one or all time is included, as `config.rs` demands |
| `SyncAssumption`, `NodeAssumption` | kinds of the constants; a node that has a block has its ancestors |
| `MiningAssumption` | kinds of the constants and of the starts; the refill limit is above the maturity, as 200 is above 100 in the code |
| `CacheAssumption` | kinds of the constants; a name found in a coinbase is "Unknown" or a pool |
| `ViewAssumption` of `LiveView` | kinds of the constants; the channel and the wire hold at least one message |
| `ViewAssumption` of `TreeViews` | its limits are natural numbers |
| `PeerAssumption` | configured nodes are nodes, peers outside are not, and an instance starts within its bounds |
| `ChainAssumption`, `WorkflowAssumption`, `AutoMineAssumption` | kinds of the constants; a reorg is at least one block deep, which the handler checks |
| `HomeAssumption` | the page starts on a network it knows, whose miners are nodes |

| Theorem | States | Module |
|---|---|---|
| `TypeCorrect` | `Spec => [](TypeOK /\ RepairInRange)` | `HeaderSyncProofs` |
| `HandoverCorrect` | `Spec => []Handover` | `HeaderSyncProofs` |
| `StoreCorrect` | `Spec => [](EdgesComplete /\ RowsInTree /\ UnsavedAccounted)` | `HeaderSyncProofs` |
| `QueueCorrect` | `Spec => []QueuedInTree` | `HeaderSyncProofs` |
| `CleanFetchCorrect` | `Spec => []CleanFetchComplete` | `HeaderSyncProofs` |
| `SyncImplementsStore` | `Spec => StoreRefined` | `HeaderSyncProofs` |
| `InputsCorrect` | `Spec => []InputsType` | `StaleRateProofs` |
| `ResolvedCorrect` | `Spec => []ResolvedIsCommonAncestor` | `StaleRateProofs` |
| `WindowsCorrect` | `Spec => []WindowsExact` | `StaleRateProofs` |
| `RangesCorrect` | `Spec => []RangesNest` | `StaleRateProofs` |
| `InsertionsCorrect` | `Spec => InsertionsKeepStale` | `StaleRateProofs` |
| `SplitsCorrect` | `Spec => []SplitsShown` | `StaleRateProofs` |
| `CommentedTestSuffices` | `Spec => []NotUnderstatedWithoutRootAbove` | `StaleRateProofs` |
| `PaidOnceCorrect` | `Spec => []PaidOnce` | `NodeMiningProofs` |
| `WalletLostCorrect` | `Spec => WalletLostToAnother` | `NodeMiningProofs` |
| `OneMinerCorrect` | `Spec => []OneMiner` | `NodeMiningProofs` |
| `GivesUpCorrect` | `Spec => []GivesUpForCause` | `NodeMiningProofs` |
| `ReportsCorrect` | `Spec => []ReportedAreMined` | `NodeMiningProofs` |
| `TypeCorrect` | `Spec => []TypeOK` | `NetworkCacheProofs` |
| `AnnouncedCorrect` | `Spec => []AnnouncedWhenQuiet` | `NetworkCacheProofs` |
| `MetricsCorrect` | `Spec => []MetricsServed` | `NetworkCacheProofs` |
| `CacheCorrect` | `Spec => []CachedFromTree` | `NetworkCacheProofs` |
| `ServedCorrect` | `Spec => []HeadersServed` | `NetworkCacheProofs` |
| `MinersSavedCorrect` | `Spec => []MinersSaved` | `NetworkCacheProofs` |
| `MinersReplayedCorrect` | `Spec => []MinersReplayed` | `NetworkCacheProofs` |
| `TypeCorrect` | `Spec => []TypeOK` | `LiveViewProofs` |
| `UpdatesCorrect` | `Spec => []NoLostUpdate` | `LiveViewProofs` |
| `ViewImplementsMirror` | `Spec => ViewRefined` | `LiveViewProofs` |
| `TypeCorrect` | `Spec => []TypeOK` | `PeerControlProofs` |
| `ClearedCorrect` | `Spec => []EntriesCleared` | `PeerControlProofs` |
| `MatchesCorrect` | `Spec => []MatchesTrue` | `PeerControlProofs` |
| `CaughtCorrect` | `Spec => []OnlyThatLink` | `PeerControlProofs` |
| `ReportedCorrect` | `Spec => DisconnectReported` | `PeerControlProofs` |
| `LoopCorrect` | `Spec => []OneLoop` | `PageControlsProofs` |
| `TypeCorrect` | `Spec => []WorkflowTypeOK` | `PageControlsProofs` |
| `MarksCorrect` | `Spec => []MarksOwned` | `PageControlsProofs` |
| `PrivateCorrect` | `Spec => []MinedInPrivate` | `PageControlsProofs` |
| `ReorgCorrect` | `Spec => []ReorgHappens` | `PageControlsProofs` |

The argument, component by component:

1. `TypeOK` is not inductive alone: that a walk's remaining length stays a
   natural number, and that a repair finds only tracked headers, rests on
   `RepairInRange`, which says that the length of a hash walk is the distance of
   its next header to the first tracked height. The conjunction is inductive
   (`TypeInductive`, `RangeInductive`).
2. `Handover` is inductive on top of that. It holds node by node
   (`HandoverByNode`), because no poller touches another's buffer, channel or
   write; the only shared part is the tree, which grows in every step but
   `Restart`. `HandoverStep` does this once for all steps of other nodes.
3. `EdgesComplete`, `RowsInTree` and `UnsavedAccounted` need `Handover` in one
   place: what is written is in the tree. `StoreSteps` shows that only five kinds
   of steps touch tree, database or write; `InsertedEdges` that
   inserting keeps the edges complete, for headers above and below what is
   there.
4. `QueuedInTree` needs `Handover` at the two places where hashes are queued: a
   fetch that has been drained, and a repair that has been written.
   `CleanFetchComplete` rests on `CleanInv`, besides: as long as a node does not change,
   every tip of its fetch is in the tree or on its way there, or it is the active tip
   and the next height is its own, or a walk that is still to begin, or has just begun,
   starts at it (`Covered`). A batch contains the active tip because a chain has
   one block at each height (`AncestorsLower`), and a tip that is neither active nor at
   the end of a side branch does not exist, since every block below the active one has a
   child the node knows (`TipsWalked`).
5. Refinement: with 1 to 3 every step is an `Observe`, a `Save`, a `Restart` or a
   stutter of `HeaderStore` (`StoreStep`).
6. `PaidOnce` follows from `PayInv`: nothing has been paid for a request that has not
   ended. A payment is one step, and the request ends with it whether the payment is
   answered, answered too late, or its client has gone. That the successful end of
   mining on a signet does not tell a faucet request it was paid rests on faucet
   requests being under way on a regtest only.
7. `WalletLostToAnother` needs `NotClosed`: who is about to create a wallet has not
   overlooked one that could be loaded, unless the node restarted during its request
   or its load was not answered. Other requests only ever open a wallet
   (`OpensAtMost`), so what it saw stays true.
8. `OneMiner` follows from `LockInv`: nobody is in the queue twice, a request between
   lock and release is its first, and a process runs for a request that waits for
   it; each part holds unless the request was dropped. `WithoutOne`, a fact about leaving
   a queue, keeps the order of the others.

9. `GivesUpForCause` needs `RefillInv`: no more is spent than the chain's rewards; what
   a request of the faucet has mined adds to that (`Backed`), and one that looks at its
   balance has not got more since its payment was refused (`Lacking`), unless others
   came in between or the chain was rewound. A reward counts as immature for `Maturity` blocks
   at most (`ImmatureAtMost`), so who has mined as many as the limit allows is short of
   no amount below it. `RewardsCount` takes the fold over a chain to the cardinality of a
   set, about which the library's theorems speak. Looking for `RefillInv` corrected the
   model: a payment out of a reward that a rewind takes away stayed `spent`, which
   let the funds of one block be missing for ever after. Runs with one event could not
   tell; with three, `GivesUpForCause` was violated. `Rewind` now voids such a payment.
10. `ReportedAreMined` follows from `ReportInv`: as long as nobody rewound the chain,
   blocks are in it in the order in which they were mined (`ChainOK`), so a best block
   above the one seen before is new (`Watched`), and what a request lists ascends, which
   makes its entries different (`Genuine`).
11. `NetworkCache`. `AnnouncedWhenQuiet` and `MetricsServed` hold because the poller
   that changed what is served is still on its way to the broadcast (`AnnouncingInv`,
   `MetricsInv`). `CachedFromTree` rests on `TreeInv`: what any task took along (a
   serialization, a batch, the identification's header) is contained in the tree,
   where headers stay and pool names stay. `HeadersServed` adds that a header that is not
   served is on the way (`Awaited`), `MinersSaved` that a header is asked for its miner only
   after the write of its row was tried (`SavedInv`). `MinersReplayed` is the hardest:
   the names found since a serialization are the last `behind` entries of the list of
   recent miners, and of one header's entries the last is right or is about to be
   corrected (`ReplayInv`).
12. `NoLostUpdate` follows from `ViewInv`: at any moment the current version is shown, or is
   in an answer, or a request or event that will bring it is under way, or its
   broadcast was missed. For the refinement, `MirrorInv`: an answer on its way is no older
   than what is shown of its network, and nothing shown is newer than the cache
   (`StepMirrored`).
13. `PeerControl`. `EntriesCleared`: from the step that removes an entry on, it is gone or
   was noted as left over (`RemovedInv`). `MatchesTrue` and `OnlyThatLink` rest on
   `SocketInv`: of all sockets that are open, in a list of a load under way, in a view,
   or in the hands of a request, two with the same number are the ends of one
   connection (`EndsAgree`), whenever they were read. `DisconnectReported` needs `FreshInv`: a list
   being read is not older than the rows the page acts on, because numbers are not used
   again (`NewNumber`).
14. `PageControls`. `OneLoop` is `LoopInv`: requests of earlier loops carry a lower number or
   belong to a button that is gone. The types need the shape of chains and nodes:
   a block has one ancestor at each height (`ChainInv`), a node has the ancestors of what it
   has and never holds genesis to be invalid (`NodesInv`), a workflow has what its step needs
   (`Hands`). `MarksOwned` is `MarksInv`, with the point in the workflow up to which a mark
   is its own. `MinedInPrivate` is `PrivateInv`: the node of an undisturbed workflow is offline
   while it works, and no other workflow on it has gone further than waiting for
   its own disconnection. `ReorgHappens` puts them together (`RollbackInv`): between rewind
   and reconnection all else the node has is no higher than the old tip, and its
   own tip is short of a longer chain by no more blocks than are still to be mined
   (`Rewound`, `ToMine`), so that the one received first is not preferred to the new
   tip (`TipIsBest`).

15. `StaleRate` and `TreeViews`. The only invariant is `InputsType` (the tree is a finite
   set of tracked headers); all else is about what is computed from any such tree, in four
   steps. *Paths*: `PathToRoot` is recursive, and what it is for every header would be shown
   by induction over data. It is had without: the branch of a header from the height
   at which the tree's part of it starts (`Bottom`) satisfies the recursive equation, so
   that the equation defines a function (`PathDefined`); two functions that satisfy it
   differ nowhere, since they would at a lowest header (`PathIs`). *Common ancestors*:
   what two tips share is an interval of heights of either branch (`SharedIsInterval`),
   so the paths agree on a start of each other and nowhere above, and if they begin at
   different roots nowhere at all (`ResolvedFacts`). *Counting*: a window without a root
   in it holds with a header all its ancestors from the start on (`NoGapConnected`), a
   branch has one block at each height, and so the difference of two cardinalities is that
   of two sets (`WindowCounts`); a shorter window is part of a longer one (`ShorterWindow`),
   and the ranges are sorted (`SortedExists`: an increasing enumeration of
   a finite set of numbers exists). A late header leaves the resolved block where it is
   (`SameResolved`), because the paths grow at their roots only. *Forks and hotspots*: of
   a finite set the `n` highest exist (`TopExists`), and one that is left out is no higher
   than these; two branches part at a block with a child on either (`SplitFacts`).
   Looking for this proof corrected `SplitsShown`: it does not hold for a network
   that shows no heights.
16. `CommentedTestSuffices` is about the finding in section 6: with the test that the comment
   in `metrics.rs` describes, any root above the window's start, `NotUnderstated` would
   hold of every window. `NoGapConnected` is applied up to each header's own height.

A largest or smallest natural number with a property, which these proofs need several times
(the tip of a node, the first index of a sequence), is had from the library's theorems on
well-founded orders, which need no induction.

Only model-checked: the liveness properties (`TipsSettle`, `GapsClosedByCapableNode`,
`UpdateShown`, `NodeComesBack`, `EveryRequestEnds`). Liveness under fairness, with
`ENABLED`, is out of the prover's reach. Every safety property that a passing run checks
is a theorem. Of the type invariants, those of `LiveView`, `PeerControl` and `StaleRate`
(`InputsType`) are proved and in no run.

## 5. Fairness

- `HeaderSync`: weak fairness of each poller and of each progress task (with the
  write it waits for). Tokio runs every task that can run, `interval` ticks for
  ever, and calls and writes end, by an answer or by an error. Nothing is assumed
  of nodes and failures: they may never happen. `TipsSettle` and
  `GapsClosedByCapableNode` need no more, because events and failures are bounded.
- `LiveView`: weak fairness of each step of server and browser: an update that
  changed the cache reaches its broadcast, the stream is fed, EventSource
  reconnects and delivers, timers run out, requests are answered, SWR retries.
  Changes, failures and switches of the network have none. The timer restarts
  with every event in the code: since changes are bounded it runs out, and
  under an endless stream of events less than the debounce delay apart the code's
  timer would not.
- `PageControls`: weak fairness of each page's workflow: the server answers, by
  success or error, and the page goes on when it is answered. Users, failures, the
  auto-mine loop and block relay have none.
- `NodeMining`: weak fairness of each request (the lock is first come, first served, and
  a call is answered or times out: the RPC client after 15 s, the HTTP client of
  wallet calls after 8 s) and of each miner process that has not hung. A
  process that hangs has none, since nothing in the code ends it.
- `NetworkCache`, `StaleRate`, `TreeViews` and `PeerControl` state safety only: a node of
  `PeerControl` dials when it likes.

## 6. Where code and documentation disagree

1. **One failing root ends the whole repair** (`header_sync_split`,
   `shared_fetch.rs:230`). The comment says every unexpected root is repaired by
   height or by hash. An error at one root returns from the repair and discards
   what it found for other roots. Two nodes that lack each other's branch, after a
   restart in the middle of both first fetches, refuse each other's roots at
   every tick: both gaps stay open although each node could close its own.
2. **A gap above the window's end goes unnoticed** (`stale_rate_gap`,
   `metrics.rs:161`). The comment says that a root above the window's start means
   the rate would be understated; the code looks only at roots inside the
   window. A disconnected subtree that starts above the end hides a missing header
   inside. `CommentedTestSuffices` proves that the test the comment describes would do.
3. **Auto-mining follows the selected network** (`auto_mine_network`,
   `AutoMineButton.tsx:133`). The loop keeps the ids of the nodes chosen but takes
   the network and its nodes from the page when the timer fires. When a network
   that is already loaded is selected the button stays mounted, and the loop mines
   there on the node with the same id.
4. **A disconnected pair reconnects** (`peer_reconnect`, `bitcoin_core.rs:899`). The
   comment says that the counterparty's cleanup prevents reconnect loops. The cleanup
   finds an addnode entry in another spelling only by the addresses it is connected
   to at that moment; the first half of the disconnect has just closed that
   connection, and once the far node has noticed, the entry has none. It stays and
   reconnects the pair.

Three more races are part of what passing runs say, as exceptions of their properties:
an older serialization that replaces a newer one (`network_cache`), a change missed
before the event stream opens (`live_view`), and a rewind that does not end at an
ancestor (`page_controls`).

## 7. What is left out, and why

- Parsing, authentication, wording, logging: no property is about them.
- `HeaderSync`: a failed tips call changes nothing there (its effect on
  reachability is in `NetworkCache`). Side tips and roots of equal height are
  taken in any order (the code's order is that of a sort by height). The miner
  queue is the set of hashes ever sent. `query` and `Height` are unbounded
  integers: the code uses `u64` and `i64` for heights of a block chain, and its
  saturating subtractions are modelled by the guards at `FirstTracked`.
- `NetworkCache`: a fetch and its progress task alternate (the interleavings of
  the two are `HeaderSync`'s); a header carries no links; the node's version, which
  is written once and read by nobody else, is left out; a node has one tip. What a
  node makes of a coinbase is a constant set of names.
- `LiveView`: EventSource and SWR are libraries, modelled by what the hook relies
  on. The page's notifications and connection label are not modelled, except that
  a stream may be given up (`closed`).
- `PageControls`: the requests of `MineBlockButton` are single blocks mined by
  others, as those of the loop are. A request for another network changes no node of
  the model. The handlers' checks (unknown network, node without controls, view-only
  mode) are answers of `CallFails`. A workflow goes on when its button is unmounted
  by a change of network: `Page` stands for mounted buttons, several of which may
  be on one page. That genesis cannot be invalidated, which `invalidateblock`
  does not report, is excepted in the reorg properties.
- `PeerControl`: host names and their resolution are the spelling `catalog`; a peer's
  number is not used again; the nodes' own limits on peers, bans and time-outs are lost
  sockets. The page's notifications are the end of a wait.
- `NodeMining`: one node of each kind of network, since requests to different nodes meet
  only in the lock. Amounts are whole rewards without fees or halvings; other spending of
  the wallets is left out. A wallet spends its oldest reward first, and a payment out of a reward
  that a rewind removes is void. The time of a signet block, for which the task may sleep, is
  abstracted to the tip the block is made on.
- `TreeViews`: what of the list of forks is rendered, and where, is formatting.
- Components with status `not_modelled` in `PROJECT.json`: presentation and formatting
  without state (graph layout, page components, error conversions, scripts). Of
  the configuration, parsing and the checks of single values; of the RSS feeds,
  those that format single fields of the cache.

## 8. Plan

Done: header tree, store, synchronisation; metrics with their configured
ranges, forks and interesting heights; network cache with miner identification; live
view; reorg workflow and auto-mining; peer control; mining, wallets and faucet. Every
safety property that a passing run checks is proved. Next, in this order:

1. An abstract specification of the reorg workflow (the node's chain is replaced by
   a longer one; nothing else is left behind) implemented by `ReorgWorkflow`, with the
   refinement proved from `RollbackInv`.
2. A composition of `NetworkCache` and `LiveView`: from a header in the tree to
   the page.
