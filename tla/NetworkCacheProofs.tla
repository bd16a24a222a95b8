------------------------- MODULE NetworkCacheProofs -------------------------
(***************************************************************************)
(* Proofs of what the cache of a network is kept to, for every set of      *)
(* nodes and headers, whatever the nodes hold and make of a coinbase, and  *)
(* for every bound.                                                        *)
(***************************************************************************)
EXTENDS NetworkCache, SequenceTheorems, WellFoundedInduction, TLAPS

LEMMA HeldDef ==
    ASSUME NEW h
    PROVE  h \in Held <=> DOMAIN h \subseteq Block /\ h \in [DOMAIN h -> Miners]
BY DEF Held

LEMMA RenamedHeld ==
    ASSUME NEW h \in Held, NEW header, NEW name \in Miners, NEW g,
           g = [b \in DOMAIN h |-> IF b = header THEN name ELSE h[b]]
    PROVE  g \in Held
<1>1. DOMAIN g = DOMAIN h /\ DOMAIN h \subseteq Block
    BY HeldDef
<1>2. g \in [DOMAIN h -> Miners]
    BY HeldDef
<1>. QED
    BY <1>1, <1>2, HeldDef

LEMMA FilledHeld ==
    ASSUME NEW h \in Held, NEW bs \in SUBSET Block
    PROVE  Filled(h, bs) \in Held /\ DOMAIN Filled(h, bs) = DOMAIN h \cup bs
<1>1. DOMAIN Filled(h, bs) = DOMAIN h \cup bs
    BY DEF Filled
<1>2. Filled(h, bs) \in [DOMAIN h \cup bs -> Miners]
    BY HeldDef DEF Filled, Miners, Unidentified
<1>. QED
    BY <1>1, <1>2, HeldDef

Less == {ss \in Nat \X Nat : ss[1] < ss[2]}

\* A set of positions that is not empty has a last one.
LEMMA LastPosition ==
    ASSUME NEW N \in Nat, NEW T \in SUBSET (1 .. N), T # {}
    PROVE  \E i \in T : \A j \in T : j <= i
<1>1. IsWellFoundedOn(Less, Nat)
    BY NatLessThanWellFounded DEF OpToRel, Less
<1> DEFINE back == {N - i : i \in T}
<1>2. back \subseteq Nat /\ back # {}
    <2>1. \A i \in T : N - i \in Nat
        OBVIOUS
    <2>2. PICK i \in T : TRUE
        OBVIOUS
    <2>. QED
        BY <2>1, <2>2
<1>3. PICK x \in back : \A y \in back : ~(<<y, x>> \in Less)
    BY <1>1, <1>2, WFMin
<1>4. PICK i \in T : x = N - i
    OBVIOUS
<1>5. ASSUME NEW j \in T
      PROVE  j <= i
    <2>1. N - j \in back /\ N - i \in Nat /\ N - j \in Nat
        BY <1>2
    <2>2. ~(N - j < N - i)
        BY <1>3, <1>4, <2>1 DEF Less
    <2>. QED
        BY <2>1, <2>2
<1>. QED
    BY <1>5

\* What the cache shows of a header is its name in the snapshot or the last one
\* remembered.
LEMMA ReplayedValue ==
    ASSUME NEW h \in Held, NEW b \in DOMAIN h, recent \in Seq(Block \X Miners)
    PROVE  /\ DOMAIN Replayed(h) = DOMAIN h
           /\ \/ /\ \A i \in 1 .. Len(recent) : recent[i][1] # b
                 /\ Replayed(h)[b] = h[b]
              \/ \E i \in 1 .. Len(recent) :
                    /\ recent[i][1] = b /\ Replayed(h)[b] = recent[i][2]
                    /\ \A j \in 1 .. Len(recent) : recent[j][1] = b => j <= i
<1> DEFINE at == {i \in DOMAIN recent : recent[i][1] = b}
           last == CHOOSE i \in at : \A j \in at : j <= i
<1>1. Replayed(h)[b] = IF at = {} THEN h[b] ELSE recent[last][2]
    BY DEF Replayed
<1>2. DOMAIN recent = 1 .. Len(recent) /\ Len(recent) \in Nat
    OBVIOUS
<1>3. CASE at = {}
    BY <1>1, <1>2, <1>3 DEF Replayed
<1>4. CASE at # {}
    <2>1. \E i \in at : \A j \in at : j <= i
        BY <1>2, <1>4, LastPosition
    <2>2. last \in at /\ \A j \in at : j <= last
        BY <2>1
    <2>3. Replayed(h)[b] = recent[last][2]
        BY <1>1, <1>4
    <2> HIDE DEF last
    <2>. QED
        BY <1>2, <2>2, <2>3 DEF Replayed
<1>. QED
    BY <1>3, <1>4

LEMMA ReplayedHeld ==
    ASSUME NEW h \in Held, recent \in Seq(Block \X Miners)
    PROVE  Replayed(h) \in Held /\ DOMAIN Replayed(h) = DOMAIN h
<1>1. ASSUME NEW b \in DOMAIN h
      PROVE  Replayed(h)[b] \in Miners
    <2>1. \A i \in 1 .. Len(recent) : recent[i][2] \in Miners
        OBVIOUS
    <2>2. h[b] \in Miners
        BY HeldDef
    <2>. QED
        BY <2>1, <2>2, ReplayedValue
<1>2. DOMAIN Replayed(h) = DOMAIN h /\ Replayed(h) = [b \in DOMAIN h |-> Replayed(h)[b]]
    BY DEF Replayed
<1>. QED
    BY <1>1, <1>2, HeldDef

LEMMA NodeDataType ==
    ASSUME NEW tips \in [Node -> Block \cup {NoBlock}], NEW nodes \in SUBSET Node
    PROVE  NodeData(tips, nodes) \subseteq Block
BY DEF NodeData

LEMMA PollerTypes ==
    ASSUME TypeOK, NEW n \in Node, PollerStep(n)
    PROVE  /\ poller'[n] \in Poller
           /\ poller' = [poller EXCEPT ![n] = poller'[n]]
<1> USE CacheAssumption DEF At
<1>0. /\ poller \in [Node -> Poller] /\ poller[n] \in Poller
      /\ NoHeaders \in Held /\ tree \in Held /\ Index \subseteq Block
      /\ shown \in [Node -> Block \cup {NoBlock}] /\ reachable \subseteq Node
    <2>1. NoHeaders \in Held
        BY HeldDef DEF NoHeaders
    <2>2. Index \subseteq Block
        BY HeldDef DEF Index, TypeOK
    <2>. QED
        BY <2>1, <2>2 DEF TypeOK
<1>1. CASE TipsFail(n) \/ TipsLoaded(n)
    <2>1. PICK nodes \in SUBSET Node, return \in {"sleep", "compare"} : UpdateReachable(n, nodes, return)
        BY <1>0, <1>1 DEF TipsFail, TipsLoaded
    <2>2. NodeData(shown, nodes) \subseteq Block
        BY <1>0, NodeDataType
    <2>3. CASE nodes = reachable
        <3>1. poller' = [poller EXCEPT ![n].step = return]
            BY <2>1, <2>3 DEF UpdateReachable
        <3>. QED
            BY <1>0, <3>1 DEF Poller, Steps, Returns
    <2>4. CASE nodes # reachable
        <3>1. poller' = [poller EXCEPT ![n] = [poller[n] EXCEPT !.step = "metrics", !.return = return,
                            !.snapshot = NoHeaders, !.forks = {}, !.data = [tips |-> NodeData(shown, nodes), headers |-> {}]]]
            BY <1>0, <2>1, <2>4 DEF UpdateReachable, ThenMetrics
        <3>. QED
            BY <1>0, <2>2, <3>1 DEF Poller, Steps, Returns, Refreshing
    <2>. QED
        BY <2>3, <2>4
<1>3. CASE \E b \in Holds[n] : CompareTips(n, b)
    <2>1. PICK b \in Block : CompareTips(n, b)
        BY <1>3
    <2>. QED
        BY <1>0, <2>1 DEF CompareTips, Poller, Steps, Returns, Refreshing
<1>4. CASE \E found \in SUBSET Holds[n] : FindBatch(n, found)
    <2>1. PICK found \in SUBSET Block : FindBatch(n, found)
        BY <1>4
    <2>. QED
        BY <1>0, <2>1 DEF FindBatch, Poller, Steps, Returns, Refreshing
<1>5. CASE \E found \in SUBSET Holds[n] : Mend(n, found)
    <2>1. PICK found \in SUBSET Block : Mend(n, found)
        BY <1>5
    <2>. QED
        BY <1>0, <2>1 DEF Mend, Poller, Steps, Returns, Refreshing
<1>6. CASE FetchFails(n)
    BY <1>0, <1>6 DEF FetchFails, Sleeping, NoMetrics, Poller, Steps, Returns, Refreshing
<1>7. CASE FetchCompletes(n)
    BY <1>0, <1>7 DEF FetchCompletes, Poller, Steps, Returns, Refreshing
<1>8. CASE UpdateTips(n)
    BY <1>0, NodeDataType, <1>8 DEF UpdateTips, RelevantTip, ThenMetrics, Poller, Steps, Returns, Refreshing
<1>9. CASE MendNothing(n)
    BY <1>0, <1>9 DEF MendNothing, Sleeping, NoMetrics, Poller, Steps, Returns, Refreshing
<1>10. CASE Mended(n)
    BY <1>0, <1>10 DEF Mended, Sleeping, NoMetrics, Poller, Steps, Returns, Refreshing
<1>11. CASE InsertHeaders(n)
    BY <1>0, <1>11 DEF InsertHeaders, Poller, Steps, Returns, Refreshing
<1>12. CASE WriteRows(n) \/ WriteFails(n)
    <2>1. poller' = IF At(n, "write") THEN [poller EXCEPT ![n].step = "serialize"]
                    ELSE [poller EXCEPT ![n] = [poller[n] EXCEPT !.step = poller[n].return, !.return = "sleep", !.data = NoMetrics, !.batch = {}]]
        BY <1>12 DEF WriteRows, WriteFails, Written, Returned
    <2>. QED
        BY <1>0, <2>1 DEF NoMetrics, Poller, Steps, Returns, Refreshing
<1>13. CASE SerializeTree(n)
    BY <1>0, <1>13 DEF SerializeTree, Poller, Steps, Returns, Refreshing
<1>14. CASE TakeForks(n)
    BY <1>0, <1>14 DEF TakeForks, Poller, Steps, Returns, Refreshing, Index
<1>15. CASE RefreshTree(n)
    BY <1>0, NodeDataType, <1>15 DEF RefreshTree, Poller, Steps, Returns, Refreshing
<1>16. CASE ComputeMetrics(n)
    BY <1>0, <1>16 DEF ComputeMetrics, Metrics, Poller, Steps, Returns, Refreshing, Index
<1>17. CASE Publish(n)
    BY <1>0, <1>17 DEF Publish, Returned, NoMetrics, Poller, Steps, Returns, Refreshing
<1>. QED
    BY <1>1, <1>3, <1>4, <1>5, <1>6, <1>7, <1>8, <1>9, <1>10, <1>11, <1>12, <1>13, <1>14,
       <1>15, <1>16, <1>17 DEF PollerStep

-----------------------------------------------------------------------------
LEMMA TypeInit == Init => TypeOK
<1> SUFFICES ASSUME Init PROVE TypeOK
    OBVIOUS
<1>1. NoHeaders \in Held
    BY HeldDef DEF NoHeaders
<1>2. Sleeping \in Poller
    BY <1>1 DEF Sleeping, NoMetrics, Poller, Steps, Returns
<1>3. recent \in Seq(Block \X Miners) /\ Len(recent) <= RecentLimit
    BY CacheAssumption DEF Init
<1>. QED
    BY <1>1, <1>2, <1>3 DEF Init, TypeOK, NoMetrics, Job

\* The poller's own state aside: what its steps leave in the cache.
LEMMA TypePoller ==
    ASSUME TypeOK, NEW n \in Node, PollerStep(n)
    PROVE  TypeOK'
<1> USE CacheAssumption DEF cacheVars, minerVars, ghostVars, Unshared
<1>1. poller' \in [Node -> Poller] /\ poller[n] \in Poller
    BY PollerTypes DEF TypeOK
<1>2. Index \subseteq Block
    BY HeldDef DEF TypeOK, Index
<1>3. CASE TipsFail(n) \/ TipsLoaded(n)
    BY <1>1, <1>3 DEF TypeOK, TipsFail, TipsLoaded, UpdateReachable
<1>4. CASE \/ \E b \in Holds[n] : CompareTips(n, b)
           \/ \E found \in SUBSET Holds[n] : FindBatch(n, found) \/ Mend(n, found)
           \/ FetchFails(n) \/ MendNothing(n)
           \/ TakeForks(n) \/ ComputeMetrics(n)
    BY <1>1, <1>4 DEF TypeOK, CompareTips, FindBatch, Mend, FetchFails, MendNothing, TakeForks, ComputeMetrics
<1>5. CASE FetchCompletes(n) \/ Mended(n)
    BY <1>1, <1>5 DEF TypeOK, FetchCompletes, Mended, Poller
<1>6. CASE UpdateTips(n)
    BY <1>1, <1>6 DEF TypeOK, UpdateTips, RelevantTip, Poller
<1>7. CASE InsertHeaders(n)
    <2>1. tree' \in Held
        BY <1>1, <1>7, FilledHeld DEF TypeOK, InsertHeaders, Poller
    <2>. QED
        BY <1>1, <1>7, <2>1 DEF TypeOK, InsertHeaders
<1>8. CASE WriteRows(n)
    <2>1. db' \in Held
        BY <1>1, <1>8, FilledHeld DEF TypeOK, WriteRows, Poller
    <2>. QED
        BY <1>1, <1>8, <2>1 DEF TypeOK, WriteRows
<1>9. CASE WriteFails(n)
    BY <1>1, <1>9 DEF TypeOK, WriteFails, Poller
<1>10. CASE SerializeTree(n)
    BY <1>1, <1>10 DEF TypeOK, SerializeTree
<1>11. CASE RefreshTree(n)
    <2>1. poller[n].snapshot \in Held /\ poller[n].forks \subseteq Block /\ DOMAIN cached \subseteq Block
        BY <1>1, HeldDef DEF TypeOK, Poller
    <2>2. cached' \in Held
        BY <1>11, <2>1, ReplayedHeld DEF TypeOK, RefreshTree
    <2>. QED
        BY <1>1, <1>11, <2>1, <2>2 DEF TypeOK, RefreshTree
<1>12. CASE Publish(n)
    BY <1>1, <1>12 DEF TypeOK, Publish, Poller
<1>. QED
    BY <1>3, <1>4, <1>5, <1>6, <1>7, <1>8, <1>9, <1>10, <1>11, <1>12 DEF PollerStep

LEMMA RememberedType ==
    ASSUME TypeOK, job # NoJob
    PROVE  /\ Remembered \in Seq(Block \X Miners) /\ Len(Remembered) <= RecentLimit
           /\ \/ Remembered = Append(recent, <<job.header, job.miner>>)
              \/ /\ Len(Remembered) = Len(recent) /\ Len(recent) = RecentLimit
                 /\ \A i \in 1 .. Len(recent) : Remembered[i] = Append(recent, <<job.header, job.miner>>)[i + 1]
<1> DEFINE new == <<job.header, job.miner>>
           all == Append(recent, new)
<1>1. new \in Block \X Miners /\ recent \in Seq(Block \X Miners)
    BY DEF TypeOK, Job
<1> HIDE DEF new
<1>2. all \in Seq(Block \X Miners) /\ all # <<>> /\ Len(all) = Len(recent) + 1
    BY <1>1, AppendProperties
<1>3. CASE Len(all) > RecentLimit
    <2>1. Remembered = Tail(all) /\ Len(recent) <= RecentLimit
        BY <1>3 DEF Remembered, new, TypeOK
    <2>2. /\ Tail(all) \in Seq(Block \X Miners) /\ Len(Tail(all)) = Len(recent)
          /\ \A i \in 1 .. Len(recent) : Tail(all)[i] = all[i + 1]
        BY <1>2, HeadTailProperties
    <2>. QED
        BY <1>1, <1>2, <1>3, <2>1, <2>2, CacheAssumption DEF new
<1>4. CASE ~(Len(all) > RecentLimit)
    BY <1>2, <1>4, CacheAssumption DEF Remembered, new
<1>. QED
    BY <1>3, <1>4

\* A task that identifies a miner has a header.
LEMMA JobUnderWay ==
    ASSUME TypeOK, job.step \in {"ask", "save", "show"}
    PROVE  /\ job # NoJob /\ job.header \in Block /\ job.miner \in Miners
           /\ \A step \in {"save", "show"}, name \in Miners :
                 [job EXCEPT !.step = step, !.miner = name] \in Job
           /\ [job EXCEPT !.step = "show"] \in Job
<1>1. job.step # NoJob.step
    BY DEF NoJob
<1>2. job \in [step : {"ask", "save", "show"}, header : Block, miner : Miners]
    BY <1>1 DEF TypeOK, Job
<1>. QED
    BY <1>1, <1>2 DEF Job

LEMMA TypeMiner ==
    ASSUME TypeOK, MinerStep
    PROVE  TypeOK'
<1> USE CacheAssumption DEF cacheVars, minerVars, ghostVars, Unshared
<1>1. CASE \E b \in queue : TakeRequest(b)
    <2>1. PICK b \in Block : TakeRequest(b)
        BY <1>1 DEF TypeOK
    <2>2. [step |-> "ask", header |-> b, miner |-> ""] \in Job
        BY DEF Job, Miners, Unidentified
    <2>. QED
        BY <2>1, <2>2 DEF TypeOK, TakeRequest
<1>2. CASE \E name \in {"Unknown", "pool"} : Identify(name)
    <2>1. PICK name \in {"Unknown", "pool"} : Identify(name)
        BY <1>2
    <2>2. job' \in Job
        BY <2>1, JobUnderWay DEF Identify, Miners, Unidentified
    <2>3. tree' \in Held
        BY <2>1, HeldDef DEF TypeOK, Identify, Miners, Unidentified
    <2>. QED
        BY <2>1, <2>2, <2>3 DEF TypeOK, Identify
<1>3. CASE SaveMiner
    <2>1. job.miner \in Miners /\ job' \in Job
        BY <1>3, JobUnderWay DEF SaveMiner
    <2>2. db' \in Held
        <3>1. db \in Held /\ db' = [b \in DOMAIN db |-> IF b = job.header THEN job.miner ELSE db[b]]
            BY <1>3 DEF TypeOK, SaveMiner
        <3>. QED
            BY <2>1, <3>1, RenamedHeld
    <2>. QED
        BY <1>3, <2>1, <2>2 DEF TypeOK, SaveMiner
<1>4. CASE SaveMinerFails
    <2>1. job.header \in Block /\ job' \in Job
        BY <1>4, JobUnderWay DEF SaveMinerFails
    <2>. QED
        BY <1>4, <2>1 DEF TypeOK, SaveMinerFails
<1>5. CASE ShowMiner
    <2>1. job # NoJob /\ job.miner \in Miners /\ job' \in Job
        BY <1>5, JobUnderWay DEF ShowMiner, Job
    <2>2. cached' \in Held
        <3>1. /\ cached \in Held
              /\ cached' = [b \in DOMAIN cached |-> IF b = job.header THEN job.miner ELSE cached[b]]
            BY <1>5 DEF TypeOK, ShowMiner
        <3>. QED
            BY <2>1, <3>1, RenamedHeld
    <2>3. behind' \in [Node -> Nat]
        BY <1>5 DEF TypeOK, ShowMiner, Counted
    <2>. QED
        BY <1>5, <2>1, <2>2, <2>3, RememberedType DEF TypeOK, ShowMiner
<1>. QED
    BY <1>1, <1>2, <1>3, <1>4, <1>5 DEF MinerStep

LEMMA TypeRestart ==
    ASSUME TypeOK, Restart
    PROVE  TypeOK'
<1>1. Sleeping \in Poller /\ NoJob \in Job
    BY HeldDef DEF Sleeping, NoHeaders, NoMetrics, Poller, Steps, Returns, Job
<1>2. DOMAIN db \subseteq Block
    BY HeldDef DEF TypeOK
<1>. QED
    BY <1>1, <1>2, CacheAssumption DEF TypeOK, Restart, Populated

LEMMA TypeStep == TypeOK /\ [Next]_vars => TypeOK'
<1> SUFFICES ASSUME TypeOK, [Next]_vars
             PROVE  TypeOK'
    OBVIOUS
<1>1. CASE Backfill
    <2>1. Index \subseteq Block
        BY HeldDef DEF TypeOK, Index
    <2>. QED
        BY <1>1, <2>1 DEF TypeOK, Backfill, cacheVars
<1>2. CASE UNCHANGED vars
    BY <1>2 DEF TypeOK, vars, cacheVars, minerVars, ghostVars
<1>. QED
    BY <1>1, <1>2, TypePoller, TypeMiner, TypeRestart DEF Next

\* The state of the cache and of its tasks is well-formed, and no more miners are
\* remembered than the cache is to remember (recent_miners in update_cache).
THEOREM TypeCorrect == Spec => []TypeOK
BY TypeInit, TypeStep, PTL DEF Spec

-----------------------------------------------------------------------------
(* What is served is announced, and its metrics are those of what is       *)
(* served, once all pollers sleep: until then the poller that has changed  *)
(* it is on its way to the broadcast.                                      *)

AnnouncingInv == unannounced => \E n \in Node : poller[n].step \in {"metrics", "publish"}

Pending == Refreshing \cup {"metrics", "publish"}

MetricsInv ==
    \/ metrics = Metrics(NodeData(shown, reachable)) \/ outdated
    \/ \E n \in Node : poller[n].step \in Pending

LEMMA OtherPollers ==
    ASSUME TypeOK, NEW n \in Node, PollerStep(n)
    PROVE  /\ poller \in [Node -> Poller] /\ poller' \in [Node -> Poller]
           /\ \A m \in Node \ {n} : poller'[m] = poller[m]
BY PollerTypes DEF TypeOK

\* A poller that leaves its way to the broadcast has published.
LEMMA PollerKinds ==
    ASSUME TypeOK, NEW n \in Node, PollerStep(n)
    PROVE  \/ Publish(n)
           \/ /\ poller'[n].step \in {"metrics", "publish"}
           \/ /\ poller[n].step \notin {"metrics", "publish"} /\ unannounced' = unannounced
              /\ poller'[n].step \in Pending
           \/ /\ poller[n].step \notin Pending /\ unannounced' = unannounced
              /\ UNCHANGED <<DOMAIN tree, shown, reachable, metrics, outdated>>
<1> USE DEF At, cacheVars, minerVars, ghostVars, Unshared
<1>1. poller \in [Node -> Poller] /\ poller[n] \in Poller
    BY DEF TypeOK
<1>2. CASE TipsFail(n) \/ TipsLoaded(n)
    <2>1. PICK nodes \in SUBSET Node, return \in {"sleep", "compare"} : UpdateReachable(n, nodes, return)
        BY <1>2 DEF TipsFail, TipsLoaded, TypeOK
    <2>2. poller[n].step = "sleep" /\ UNCHANGED <<tree, outdated>>
        BY <1>2 DEF TipsFail, TipsLoaded, Poll
    <2>3. CASE nodes = reachable
        <3>1. /\ poller' = [poller EXCEPT ![n].step = return] /\ unannounced' = unannounced
              /\ UNCHANGED <<shown, reachable, metrics>>
            BY <2>1, <2>3 DEF UpdateReachable
        <3>. QED
            BY <1>1, <2>2, <3>1 DEF Pending, Refreshing
    <2>4. CASE nodes # reachable
        <3>1. poller' = [poller EXCEPT ![n] = [poller[n] EXCEPT !.step = "metrics", !.return = return,
                            !.snapshot = NoHeaders, !.forks = {},
                            !.data = [tips |-> NodeData(shown, nodes), headers |-> {}]]]
            BY <1>1, <2>1, <2>4 DEF UpdateReachable, ThenMetrics
        <3>. QED
            BY <1>1, <3>1 DEF Poller
    <2>. QED
        BY <2>3, <2>4
<1>3. CASE \/ \E b \in Holds[n] : CompareTips(n, b)
           \/ \E found \in SUBSET Holds[n] : FindBatch(n, found) \/ Mend(n, found)
           \/ FetchFails(n) \/ FetchCompletes(n) \/ MendNothing(n) \/ Mended(n)
    BY <1>3 DEF CompareTips, FindBatch, Mend, FetchFails, FetchCompletes, MendNothing, Mended,
                Pending, Refreshing
<1>4. CASE UpdateTips(n)
    BY <1>1, <1>4 DEF UpdateTips, ThenMetrics
<1>5. CASE InsertHeaders(n)
    <2>1. DOMAIN tree' = Index \cup poller[n].batch
        BY <1>1, <1>5, FilledHeld DEF InsertHeaders, TypeOK, Poller, Index
    <2>. QED
        BY <1>1, <1>5, <2>1 DEF InsertHeaders, Index, Pending, Refreshing
<1>6. CASE WriteRows(n) \/ WriteFails(n)
    BY <1>1, <1>6 DEF WriteRows, WriteFails, Written, Pending, Refreshing, Poller
<1>7. CASE SerializeTree(n) \/ TakeForks(n)
    BY <1>1, <1>7 DEF SerializeTree, TakeForks, Pending, Refreshing, Poller
<1>8. CASE RefreshTree(n) \/ ComputeMetrics(n)
    BY <1>1, <1>8 DEF RefreshTree, ComputeMetrics, Poller
<1>. QED
    BY <1>2, <1>3, <1>4, <1>5, <1>6, <1>7, <1>8 DEF PollerStep

LEMMA AnnouncingStep ==
    ASSUME TypeOK, AnnouncingInv, [Next]_vars
    PROVE  AnnouncingInv'
<1>1. ASSUME NEW n \in Node, PollerStep(n)
      PROVE  AnnouncingInv'
    <2>1. CASE Publish(n)
        <3>1. unannounced' = FALSE
            BY <2>1 DEF Publish
        <3>. QED
            BY <3>1 DEF AnnouncingInv
    <2>2. CASE ~Publish(n)
        <3>1. CASE poller'[n].step \in {"metrics", "publish"}
            BY <3>1 DEF AnnouncingInv
        <3>2. CASE poller[n].step \notin {"metrics", "publish"} /\ unannounced' = unannounced
            <4>1. \A m \in Node : poller[m].step \in {"metrics", "publish"} => poller'[m] = poller[m]
                BY <1>1, <3>2, OtherPollers
            <4>. QED
                BY <3>2, <4>1, Zenon DEF AnnouncingInv
        <3>. QED
            BY <1>1, <2>2, <3>1, <3>2, PollerKinds DEF Pending
    <2>. QED
        BY <2>1, <2>2
<1>2. CASE MinerStep
    BY <1>2 DEF AnnouncingInv, MinerStep, TakeRequest, Identify, SaveMiner, SaveMinerFails, ShowMiner,
                Unshared, ghostVars
<1>3. CASE Backfill
    BY <1>3 DEF AnnouncingInv, Backfill
<1>4. CASE Restart
    BY <1>4 DEF AnnouncingInv, Restart
<1>5. CASE UNCHANGED vars
    BY <1>5 DEF AnnouncingInv, vars, ghostVars
<1>. QED
    BY <1>1, <1>2, <1>3, <1>4, <1>5 DEF Next

\* When all pollers sleep every change of the cache has been followed by a broadcast
\* (update_cache), although one broadcast serves the changes of several tasks.
THEOREM AnnouncedCorrect == Spec => []AnnouncedWhenQuiet
<1>1. Init => AnnouncingInv
    BY DEF Init, AnnouncingInv
<1>2. AnnouncingInv => AnnouncedWhenQuiet
    BY DEF AnnouncingInv, AnnouncedWhenQuiet, Quiet
<1>. QED
    BY <1>1, <1>2, TypeCorrect, AnnouncingStep, PTL DEF Spec

LEMMA MetricsStep ==
    ASSUME TypeOK, MetricsInv, [Next]_vars
    PROVE  MetricsInv'
<1>1. ASSUME UNCHANGED <<DOMAIN tree, shown, reachable, metrics, outdated>>
      PROVE  /\ Metrics(NodeData(shown, reachable))' = Metrics(NodeData(shown, reachable))
             /\ UNCHANGED <<metrics, outdated>>
    BY <1>1 DEF Metrics, NodeData, Index
<1>2. ASSUME NEW n \in Node, PollerStep(n)
      PROVE  MetricsInv'
    <2>1. CASE Publish(n)
        <3>1. /\ metrics' = poller[n].data
              /\ outdated' = (poller[n].data # Metrics(NodeData(shown, reachable)))
              /\ Metrics(NodeData(shown, reachable))' = Metrics(NodeData(shown, reachable))
            BY <2>1 DEF Publish, Metrics, NodeData, Index
        <3>. QED
            BY <3>1 DEF MetricsInv
    <2>2. CASE poller'[n].step \in Pending
        BY <2>2 DEF MetricsInv
    <2>3. CASE /\ poller[n].step \notin Pending
               /\ UNCHANGED <<DOMAIN tree, shown, reachable, metrics, outdated>>
        BY <1>1, <1>2, <2>3, OtherPollers DEF MetricsInv
    <2>. QED
        BY <1>2, <2>1, <2>2, <2>3, PollerKinds DEF Pending
<1>3. CASE MinerStep \/ Backfill \/ UNCHANGED vars
    <2>1. UNCHANGED <<DOMAIN tree, shown, reachable, metrics, outdated, poller>>
        BY <1>3 DEF MinerStep, TakeRequest, Identify, SaveMiner, SaveMinerFails, ShowMiner, Backfill,
                    Unshared, cacheVars, ghostVars, vars
    <2>. QED
        BY <1>1, <2>1 DEF MetricsInv
<1>4. CASE Restart
    <2>1. NodeData(shown, reachable)' = {}
        BY <1>4 DEF Restart, Populated, NodeData
    <2>. QED
        BY <1>4, <2>1 DEF Restart, Populated, MetricsInv, Metrics, Index
<1>. QED
    BY <1>2, <1>3, <1>4 DEF Next

\* When all pollers sleep the metrics served are those of the tree and the tips served
\* (calculate_network_metrics), unless they were old when they were stored.
THEOREM MetricsCorrect == Spec => []MetricsServed
<1>1. Init => MetricsInv
    <2> SUFFICES ASSUME Init PROVE metrics = Metrics(NodeData(shown, reachable))
        BY DEF MetricsInv
    <2>1. NodeData(shown, reachable) = {} /\ Index = {}
        BY DEF Init, NodeData, Index, NoHeaders
    <2>. QED
        BY <2>1 DEF Init, NoMetrics, Metrics
<1>2. MetricsInv => MetricsServed
    BY DEF MetricsInv, MetricsServed, Quiet, Pending, Refreshing
<1>. QED
    BY <1>1, <1>2, TypeCorrect, MetricsStep, PTL DEF Spec

-----------------------------------------------------------------------------
(* The cache and the database are behind the tree, never ahead of it: what *)
(* the pollers and the identification task took from the tree is still in  *)
(* it, because a header stays and a pool name stays.                       *)

\* All headers and all pool names of some headers are among others.
KeptIn(held, others) ==
    /\ DOMAIN held \subseteq DOMAIN others
    /\ \A b \in DOMAIN held : held[b] = "pool" => others[b] = "pool"

PollerKept(n) ==
    /\ KeptIn(poller[n].snapshot, tree) /\ poller[n].forks \subseteq Index
    /\ poller[n].step \in Refreshing \cup {"write_only"} => poller[n].batch \subseteq Index
    /\ poller[n].step \in {"forks", "refresh"} => poller[n].batch \subseteq DOMAIN poller[n].snapshot

JobKept ==
    /\ job.step # "take" => job.header \in Index
    /\ job.step = "ask" => tree[job.header] \in Unidentified
    /\ job.step \in {"save", "show"} => tree[job.header] = job.miner

RecentKept ==
    \A i \in 1 .. Len(recent) :
        recent[i][2] = "pool" => recent[i][1] \in Index /\ tree[recent[i][1]] = "pool"

CacheKept == KeptIn(cached, tree) /\ forks \subseteq Index /\ KeptIn(db, tree)

TreeInv == CacheKept /\ RecentKept /\ JobKept /\ \A n \in Node : PollerKept(n)

LEMMA KeptTransitive ==
    ASSUME NEW a, NEW b, NEW c, KeptIn(a, b), KeptIn(b, c)
    PROVE  KeptIn(a, c)
BY DEF KeptIn

\* What a poller or a restart of the tasks leaves of the tree.
LEMMA TreeFilled ==
    ASSUME TypeOK, NEW n \in Node, PollerStep(n)
    PROVE  /\ Index \subseteq DOMAIN tree' /\ \A b \in Index : tree'[b] = tree[b]
           /\ tree' # tree => InsertHeaders(n)
<1>1. CASE InsertHeaders(n)
    BY <1>1 DEF InsertHeaders, Filled, Index
<1>2. CASE ~InsertHeaders(n)
    <2>1. tree' = tree
        BY <1>2 DEF PollerStep, TipsFail, TipsLoaded, CompareTips, FindBatch, Mend, FetchFails,
           FetchCompletes, UpdateTips, MendNothing, Mended, WriteRows, WriteFails,
           SerializeTree, TakeForks, RefreshTree, ComputeMetrics, Publish, Unshared
    <2>. QED
        BY <2>1 DEF Index
<1>. QED
    BY <1>1, <1>2

LEMMA TreeGrows ==
    ASSUME TypeOK, JobKept, [Next]_vars, ~Restart
    PROVE  KeptIn(tree, tree') /\ Index \subseteq DOMAIN tree'
<1> SUFFICES KeptIn(tree, tree')
    BY DEF KeptIn, Index
<1>1. ASSUME NEW n \in Node, PollerStep(n)
      PROVE  KeptIn(tree, tree')
    BY <1>1, TreeFilled DEF KeptIn, Index
<1>2. CASE \E name \in {"Unknown", "pool"} : Identify(name)
    <2>1. PICK name : Identify(name)
        BY <1>2
    <2>2. /\ tree' = [tree EXCEPT ![job.header] = name]
          /\ tree[job.header] \in Unidentified
        BY <2>1 DEF Identify, JobKept
    <2>. QED
        BY <2>2 DEF KeptIn, Unidentified
<1>3. CASE \/ \E b \in queue : TakeRequest(b)
           \/ SaveMiner \/ SaveMinerFails \/ ShowMiner \/ Backfill \/ UNCHANGED vars
    <2>1. tree' = tree
        BY <1>3 DEF TakeRequest, SaveMiner, SaveMinerFails, ShowMiner, Backfill, vars, Unshared
    <2>. QED
        BY <2>1 DEF KeptIn
<1>. QED
    BY <1>1, <1>2, <1>3 DEF Next, MinerStep

\* What has been kept in the tree stays so while the process runs.
LEMMA PollerStaysKept ==
    ASSUME TypeOK, JobKept, [Next]_vars, ~Restart,
           NEW n \in Node, PollerKept(n), poller'[n] = poller[n]
    PROVE  PollerKept(n)'
BY TreeGrows, KeptTransitive DEF PollerKept, Index

LEMMA PollerBecomesKept ==
    ASSUME TypeOK, TreeInv, NEW n \in Node, PollerStep(n)
    PROVE  PollerKept(n)'
<1> USE DEF At
<1>1. /\ poller \in [Node -> Poller] /\ poller[n] \in Poller
      /\ PollerKept(n) /\ Index \subseteq DOMAIN tree'
    BY TreeFilled DEF TypeOK, TreeInv
<1>2. KeptIn(tree, tree')
    BY TreeFilled DEF KeptIn, Index
<1>3. KeptIn(NoHeaders, tree') /\ DOMAIN NoHeaders = {}
    BY DEF KeptIn, NoHeaders
<1>4. ASSUME poller'[n].step \notin Refreshing \cup {"write_only"},
             poller'[n].snapshot \in {NoHeaders, poller[n].snapshot},
             poller'[n].forks \in {{}, poller[n].forks}
      PROVE  PollerKept(n)'
    BY <1>1, <1>2, <1>3, <1>4, KeptTransitive DEF PollerKept, Refreshing, Index
<1>5. CASE TipsFail(n) \/ TipsLoaded(n)
    <2>1. PICK nodes \in SUBSET Node, return \in {"sleep", "compare"} : UpdateReachable(n, nodes, return)
        BY <1>5 DEF TipsFail, TipsLoaded, TypeOK
    <2>2. CASE nodes = reachable
        <3>1. poller' = [poller EXCEPT ![n].step = return]
            BY <2>1, <2>2 DEF UpdateReachable
        <3>. QED
            BY <1>1, <1>4, <3>1 DEF Poller, Refreshing
    <2>3. CASE nodes # reachable
        <3>1. poller' = [poller EXCEPT ![n] = [poller[n] EXCEPT !.step = "metrics", !.return = return,
                            !.snapshot = NoHeaders, !.forks = {},
                            !.data = [tips |-> NodeData(shown, nodes), headers |-> {}]]]
            BY <1>1, <2>1, <2>3 DEF UpdateReachable, ThenMetrics
        <3>. QED
            BY <1>1, <1>4, <3>1 DEF Poller, Refreshing
    <2>. QED
        BY <2>2, <2>3
<1>6. CASE \/ \E b \in Holds[n] : CompareTips(n, b)
           \/ \E found \in SUBSET Holds[n] : FindBatch(n, found) \/ Mend(n, found)
    <2>1. /\ poller'[n].step \in {"mend", "fetch", "insert"}
          /\ poller'[n].snapshot = poller[n].snapshot /\ poller'[n].forks = poller[n].forks
        <3>1. CASE \E b \in Holds[n] : CompareTips(n, b)
            BY <1>1, <3>1 DEF CompareTips, Poller
        <3>2. CASE \E found \in SUBSET Holds[n] : FindBatch(n, found)
            BY <1>1, <3>2 DEF FindBatch, Poller
        <3>3. CASE \E found \in SUBSET Holds[n] : Mend(n, found)
            BY <1>1, <3>3 DEF Mend, Poller
        <3>. QED
            BY <1>6, <3>1, <3>2, <3>3
    <2>. QED
        BY <1>4, <2>1 DEF Refreshing
<1>7. CASE FetchFails(n) \/ FetchCompletes(n) \/ MendNothing(n) \/ Mended(n)
    BY <1>1, <1>4, <1>7 DEF FetchFails, FetchCompletes, MendNothing, Mended, Sleeping, Poller, Refreshing
<1>8. CASE UpdateTips(n)
    BY <1>1, <1>4, <1>8 DEF UpdateTips, ThenMetrics, Poller, Refreshing
<1>9. CASE ComputeMetrics(n) \/ Publish(n)
    <2>1. /\ poller'[n].step \in Returns \cup {"publish"}
          /\ poller'[n].snapshot = poller[n].snapshot /\ poller'[n].forks = poller[n].forks
        <3>1. CASE ComputeMetrics(n)
            BY <1>1, <3>1 DEF ComputeMetrics, Poller
        <3>2. CASE Publish(n)
            BY <1>1, <3>2 DEF Publish, Returned, Poller
        <3>. QED
            BY <1>9, <3>1, <3>2
    <2>. QED
        BY <1>4, <2>1 DEF Returns, Refreshing
<1>10. CASE RefreshTree(n)
    BY <1>1, <1>4, <1>10 DEF RefreshTree, Poller, Refreshing
<1>11. CASE InsertHeaders(n)
    <2>1. DOMAIN tree' = Index \cup poller[n].batch
        BY <1>1, <1>11, FilledHeld DEF InsertHeaders, TypeOK, Poller, Index
    <2>2. /\ poller'[n].step \in {"write", "write_only"}
          /\ poller'[n].batch = poller[n].batch /\ poller'[n].forks = poller[n].forks
          /\ poller'[n].snapshot = poller[n].snapshot
        BY <1>1, <1>11 DEF InsertHeaders, Poller
    <2>. QED
        BY <1>1, <1>2, <2>1, <2>2, KeptTransitive DEF PollerKept, Index, Refreshing
<1>12. CASE WriteRows(n) \/ WriteFails(n)
    <2>1. poller[n].step \in {"write", "write_only"} /\ Written(n)
        BY <1>12 DEF WriteRows, WriteFails
    <2>2. CASE poller[n].step = "write"
        <3>1. /\ poller'[n].step = "serialize" /\ poller'[n].batch = poller[n].batch
              /\ poller'[n].forks = poller[n].forks /\ poller'[n].snapshot = poller[n].snapshot
            BY <1>1, <2>1, <2>2 DEF Written, Poller
        <3>. QED
            BY <1>1, <1>2, <2>2, <3>1, KeptTransitive DEF PollerKept, Index, Refreshing
    <2>3. CASE poller[n].step = "write_only"
        BY <1>1, <1>4, <2>1, <2>3 DEF Written, Returned, Poller, Returns, Refreshing
    <2>. QED
        BY <2>1, <2>2, <2>3
<1>13. CASE SerializeTree(n)
    <2>1. /\ poller[n].step = "serialize" /\ poller'[n].step = "forks"
          /\ poller'[n].batch = poller[n].batch
          /\ poller'[n].forks = poller[n].forks /\ poller'[n].snapshot = tree /\ tree' = tree
        BY <1>1, <1>13 DEF SerializeTree, Poller
    <2>. QED
        BY <1>1, <1>2, <2>1 DEF PollerKept, Index, Refreshing
<1>14. CASE TakeForks(n)
    <2>1. /\ poller[n].step = "forks" /\ poller'[n].step = "refresh"
          /\ poller'[n].batch = poller[n].batch
          /\ poller'[n].forks = Index /\ poller'[n].snapshot = poller[n].snapshot /\ tree' = tree
        BY <1>1, <1>14 DEF TakeForks, Poller
    <2>. QED
        BY <1>1, <2>1 DEF PollerKept, Index, Refreshing
<1>. QED
    BY <1>5, <1>6, <1>7, <1>8, <1>9, <1>10, <1>11, <1>12, <1>13, <1>14 DEF PollerStep

LEMMA JobStaysKept ==
    ASSUME TypeOK, JobKept, [Next]_vars
    PROVE  JobKept'
<1>1. ASSUME NEW n \in Node, PollerStep(n)
      PROVE  JobKept'
    <2>1. job' = job
        BY <1>1 DEF PollerStep, TipsFail, TipsLoaded, CompareTips, FindBatch, Mend, FetchFails,
           FetchCompletes, UpdateTips, MendNothing, Mended, InsertHeaders, WriteRows, WriteFails,
           SerializeTree, TakeForks, RefreshTree, ComputeMetrics, Publish, Unshared, minerVars
    <2>. QED
        BY <1>1, <2>1, TreeFilled DEF JobKept, Index
<1>2. CASE \E b \in queue : TakeRequest(b)
    <2>1. PICK b : TakeRequest(b)
        BY <1>2
    <2>2. \/ job' = job
          \/ /\ job'.step = "ask" /\ job'.header = b
             /\ b \in Index /\ tree[b] \in Unidentified
        BY <2>1 DEF TakeRequest
    <2>3. tree' = tree
        BY <2>1 DEF TakeRequest, Unshared
    <2>4. CASE job' = job
        BY <2>3, <2>4 DEF JobKept, Index
    <2>5. CASE job' # job
        BY <2>2, <2>3, <2>5 DEF JobKept, Index
    <2>. QED
        BY <2>4, <2>5
<1>3. CASE \E name \in {"Unknown", "pool"} : Identify(name)
    <2>1. PICK name : Identify(name)
        BY <1>3
    <2>2. job \in [step : {"ask"}, header : Block, miner : Miners]
        BY <2>1, JobUnderWay DEF Identify, TypeOK, Job
    <2>. QED
        BY <2>1, <2>2 DEF JobKept, Identify, Index
<1>4. CASE SaveMiner \/ SaveMinerFails
    <2>1. job \in [step : {"save"}, header : Block, miner : Miners]
        BY <1>4, JobUnderWay DEF SaveMiner, SaveMinerFails, TypeOK, Job
    <2>. QED
        BY <1>4, <2>1 DEF JobKept, SaveMiner, SaveMinerFails, Index
<1>5. CASE ShowMiner \/ Restart
    <2>1. job' = NoJob
        BY <1>5 DEF ShowMiner, Restart
    <2>. QED
        BY <2>1 DEF JobKept, NoJob
<1>6. CASE Backfill \/ UNCHANGED vars
    BY <1>6 DEF JobKept, Backfill, vars, minerVars, Index
<1>. QED
    BY <1>1, <1>2, <1>3, <1>4, <1>5, <1>6 DEF Next, MinerStep

LEMMA RecentStaysKept ==
    ASSUME TypeOK, JobKept, RecentKept, [Next]_vars
    PROVE  RecentKept'
<1>1. CASE Restart
    BY <1>1 DEF Restart, Populated, RecentKept
<1>2. CASE ShowMiner
    <2>1. /\ job # NoJob /\ job.header \in Index /\ tree[job.header] = job.miner
        BY <1>2, JobUnderWay DEF ShowMiner, JobKept
    <2> DEFINE all == Append(recent, <<job.header, job.miner>>)
    <2>2. /\ Len(all) = Len(recent) + 1 /\ Len(recent) \in Nat
          /\ \A i \in 1 .. Len(recent) : all[i] = recent[i]
          /\ all[Len(recent) + 1] = <<job.header, job.miner>>
        BY DEF TypeOK
    <2>3. \A i \in 1 .. Len(recent) + 1 :
              all[i][2] = "pool" => all[i][1] \in Index /\ tree[all[i][1]] = "pool"
        BY <2>1, <2>2 DEF RecentKept
    <2> HIDE DEF all
    <2>4. recent' = Remembered /\ tree' = tree
        BY <1>2 DEF ShowMiner
    <2>5. \/ Remembered = all
          \/ /\ Len(Remembered) = Len(recent)
             /\ \A i \in 1 .. Len(recent) : Remembered[i] = all[i + 1]
        BY <2>1, RememberedType DEF all
    <2>6. \A i \in 1 .. Len(Remembered) :
              Remembered[i][2] = "pool" => Remembered[i][1] \in Index /\ tree[Remembered[i][1]] = "pool"
        BY <2>2, <2>3, <2>5
    <2>. QED
        BY <2>4, <2>6 DEF RecentKept, Index
<1>3. CASE ~Restart /\ ~ShowMiner
    <2>1. recent' = recent
        <3>1. ASSUME NEW n \in Node, PollerStep(n)
              PROVE  recent' = recent
            BY <3>1 DEF PollerStep, TipsFail, TipsLoaded, UpdateReachable, CompareTips, FindBatch, Mend,
               FetchFails, FetchCompletes, UpdateTips, MendNothing, Mended, InsertHeaders, WriteRows,
               WriteFails, SerializeTree, TakeForks, RefreshTree, ComputeMetrics, Publish, Unshared, cacheVars
        <3>2. CASE \/ (\E b \in queue : TakeRequest(b)) \/ (\E name \in {"Unknown", "pool"} : Identify(name))
                   \/ SaveMiner \/ SaveMinerFails \/ Backfill \/ UNCHANGED vars
            BY <3>2 DEF TakeRequest, Identify, SaveMiner, SaveMinerFails, Backfill, Unshared, cacheVars, vars
        <3>. QED
            BY <1>3, <3>1, <3>2 DEF Next, MinerStep
    <2>2. KeptIn(tree, tree')
        BY <1>3, TreeGrows
    <2>. QED
        BY <2>1, <2>2 DEF RecentKept, KeptIn, Index
<1>. QED
    BY <1>1, <1>2, <1>3

LEMMA CacheStaysKept ==
    ASSUME TypeOK, TreeInv, [Next]_vars
    PROVE  CacheKept'
<1>1. CacheKept /\ RecentKept /\ JobKept /\ recent \in Seq(Block \X Miners)
    BY DEF TreeInv, TypeOK
<1>2. ASSUME KeptIn(cached', tree), forks' \subseteq Index, KeptIn(db', tree), ~Restart
      PROVE  CacheKept'
    BY <1>1, <1>2, TreeGrows, KeptTransitive DEF CacheKept, Index
<1>3. ASSUME NEW n \in Node, PollerStep(n)
      PROVE  CacheKept'
    <2>0. poller[n] \in Poller /\ PollerKept(n) /\ KeptIn(tree, tree') /\ Index \subseteq DOMAIN tree'
        BY <1>3, TreeFilled DEF TypeOK, TreeInv, KeptIn, Index
    <2>1. CASE RefreshTree(n)
        <3>1. poller[n].snapshot \in Held /\ KeptIn(poller[n].snapshot, tree)
            BY <2>0 DEF Poller, PollerKept
        <3>2. KeptIn(Replayed(poller[n].snapshot), tree)
            BY <1>1, <3>1, ReplayedValue, ReplayedHeld DEF KeptIn, RecentKept
        <3>3. /\ cached' = Replayed(poller[n].snapshot) /\ forks' = poller[n].forks
              /\ UNCHANGED <<tree, db>>
            BY <2>1 DEF RefreshTree
        <3>. QED
            BY <1>1, <2>0, <3>2, <3>3 DEF CacheKept, PollerKept, Index
    <2>2. CASE WriteRows(n)
        <3>1. /\ db' = Filled(db, poller[n].batch) /\ UNCHANGED <<tree, cached, forks>>
              /\ poller[n].step \in {"write", "write_only"}
            BY <2>2 DEF WriteRows, cacheVars
        <3>2. poller[n].batch \subseteq Index
            BY <2>0, <3>1 DEF PollerKept, Refreshing
        <3>3. KeptIn(Filled(db, poller[n].batch), tree)
            BY <1>1, <3>2 DEF CacheKept, KeptIn, Filled, Index
        <3>. QED
            BY <1>1, <3>1, <3>3 DEF CacheKept, Index
    <2>3. CASE ~RefreshTree(n) /\ ~WriteRows(n)
        <3>1. UNCHANGED <<cached, forks, db>>
            BY <1>3, <2>3 DEF PollerStep, TipsFail, TipsLoaded, UpdateReachable, CompareTips, FindBatch, Mend, FetchFails,
               FetchCompletes, UpdateTips, MendNothing, Mended, InsertHeaders, WriteFails,
               SerializeTree, TakeForks, ComputeMetrics, Publish, Unshared, cacheVars
        <3>. QED
            BY <1>1, <2>0, <3>1, KeptTransitive DEF CacheKept, Index
    <2>. QED
        BY <2>1, <2>2, <2>3
<1>4. CASE Restart
    BY <1>4 DEF Restart, Populated, CacheKept, KeptIn, Index
<1>5. CASE ShowMiner
    <2>1. /\ cached' = [b \in DOMAIN cached |-> IF b = job.header THEN job.miner ELSE cached[b]]
          /\ UNCHANGED <<tree, forks, db>> /\ tree[job.header] = job.miner
        BY <1>1, <1>5 DEF ShowMiner, JobKept
    <2>. QED
        BY <1>1, <2>1 DEF CacheKept, KeptIn, Index
<1>6. CASE SaveMiner
    <2>1. /\ db' = [b \in DOMAIN db |-> IF b = job.header THEN job.miner ELSE db[b]]
          /\ UNCHANGED <<tree, forks, cached>> /\ tree[job.header] = job.miner
        BY <1>1, <1>6 DEF SaveMiner, JobKept, cacheVars
    <2>. QED
        BY <1>1, <2>1 DEF CacheKept, KeptIn, Index
<1>7. CASE \/ (\E b \in queue : TakeRequest(b)) \/ (\E name \in {"Unknown", "pool"} : Identify(name))
           \/ SaveMinerFails \/ Backfill \/ UNCHANGED vars
    <2>1. UNCHANGED <<cached, forks, db>>
        BY <1>7 DEF TakeRequest, Identify, SaveMinerFails, Backfill, vars, Unshared, cacheVars
    <2>. QED
        BY <1>1, <1>2, <1>4, <2>1 DEF CacheKept
<1>. QED
    BY <1>3, <1>4, <1>5, <1>6, <1>7 DEF Next, MinerStep

LEMMA TreeStep ==
    ASSUME TypeOK, TreeInv, [Next]_vars
    PROVE  TreeInv'
<1>1. ASSUME NEW m \in Node
      PROVE  PollerKept(m)'
    <2>1. CASE Restart
        BY <2>1 DEF Restart, Sleeping, PollerKept, KeptIn, NoHeaders, Refreshing
    <2>2. CASE ~Restart /\ PollerStep(m)
        BY <2>2, PollerBecomesKept
    <2>3. CASE ~Restart /\ ~PollerStep(m)
        <3>1. poller'[m] = poller[m]
            <4>1. ASSUME NEW n \in Node, PollerStep(n)
                  PROVE  poller'[m] = poller[m]
                BY <2>3, <4>1, OtherPollers
            <4>. QED
                BY <2>3, <4>1 DEF Next, MinerStep, TakeRequest, Identify, SaveMiner, SaveMinerFails,
                                  ShowMiner, Backfill, Unshared, vars
        <3>. QED
            BY <2>3, <3>1, PollerStaysKept DEF TreeInv
    <2>. QED
        BY <2>1, <2>2, <2>3
<1>. QED
    BY <1>1, JobStaysKept, RecentStaysKept, CacheStaysKept DEF TreeInv

LEMMA TreeInit == Init => TreeInv
<1> SUFFICES ASSUME Init PROVE TreeInv
    OBVIOUS
<1>1. CacheKept
    BY DEF Init, CacheKept, KeptIn, NoHeaders
<1>2. RecentKept
    BY DEF Init, RecentKept
<1>3. JobKept
    BY DEF Init, JobKept, NoJob
<1>4. ASSUME NEW n \in Node
      PROVE  PollerKept(n)
    BY DEF Init, PollerKept, KeptIn, Sleeping, NoHeaders, Refreshing
<1>. QED
    BY <1>1, <1>2, <1>3, <1>4 DEF TreeInv

LEMMA TreeCorrect == Spec => [](TypeOK /\ TreeInv)
<1>1. TypeOK /\ TreeInv /\ [Next]_vars => (TypeOK /\ TreeInv)'
    BY TypeStep, TreeStep
<1>. QED
    BY <1>1, TypeInit, TreeInit, PTL DEF Spec

\* The cache serves no header, no fork and no pool name the tree does not hold
\* (refresh_network_tree_cache, update_cache), however old the snapshot it is taken from.
THEOREM CacheCorrect == Spec => []CachedFromTree
<1>1. TreeInv => CachedFromTree
    BY DEF TreeInv, CacheKept, KeptIn, CachedFromTree, Index
<1>. QED
    BY <1>1, TreeCorrect, PTL

-----------------------------------------------------------------------------
(* Every header of the tree is served, or on its way to the cache, or has  *)
(* been taken out of it by an older refresh.                               *)

Awaited(b) == \E n \in Node : poller[n].step \in Refreshing /\ b \in poller[n].batch

LEMMA ServedDef ==
    HeadersServed <=> \A b \in Index \ DOMAIN cached : b \in dropped \/ Awaited(b)
BY DEF HeadersServed, Awaited

\* A poller on its way to the cache loses nothing before it has refreshed it.
LEMMA RefreshingKinds ==
    ASSUME TypeOK, NEW n \in Node, PollerStep(n), ~InsertHeaders(n), ~RefreshTree(n)
    PROVE  /\ UNCHANGED <<tree, cached, dropped>>
           /\ \/ poller[n].step \notin Refreshing
              \/ poller'[n].step \in Refreshing /\ poller'[n].batch = poller[n].batch
<1> USE DEF At
<1>1. poller \in [Node -> Poller] /\ poller[n] \in Poller
    BY DEF TypeOK
<1>2. UNCHANGED <<tree, cached, dropped>>
    BY DEF PollerStep, TipsFail, TipsLoaded, UpdateReachable, CompareTips, FindBatch, Mend, FetchFails,
           FetchCompletes, UpdateTips, MendNothing, Mended, WriteRows, WriteFails, SerializeTree,
           TakeForks, ComputeMetrics, Publish, Unshared, cacheVars, ghostVars
<1>3. CASE WriteRows(n) \/ WriteFails(n)
    <2>1. poller[n].step \in {"write", "write_only"} /\ Written(n)
        BY <1>3 DEF WriteRows, WriteFails
    <2>. QED
        BY <1>1, <1>2, <2>1 DEF Written, Poller, Refreshing
<1>4. CASE SerializeTree(n)
    BY <1>1, <1>2, <1>4 DEF SerializeTree, Poller, Refreshing
<1>5. CASE TakeForks(n)
    BY <1>1, <1>2, <1>5 DEF TakeForks, Poller, Refreshing
<1>6. CASE ~(WriteRows(n) \/ WriteFails(n) \/ SerializeTree(n) \/ TakeForks(n))
    <2>1. poller[n].step \in Returns \cup {"tips", "metrics", "publish"}
        BY <1>6 DEF PollerStep, TipsFail, TipsLoaded, Poll, CompareTips, FindBatch, Mend, FetchFails,
           FetchCompletes, UpdateTips, MendNothing, Mended, ComputeMetrics, Publish, Returns
    <2>. QED
        BY <1>2, <2>1 DEF Returns, Refreshing
<1>. QED
    BY <1>3, <1>4, <1>5, <1>6

LEMMA ServedStep ==
    ASSUME TypeOK, TreeInv, HeadersServed, [Next]_vars
    PROVE  HeadersServed'
<1> SUFFICES ASSUME NEW b \in Index' \ DOMAIN cached'
             PROVE  b \in dropped' \/ Awaited(b)'
    BY DEF HeadersServed, Awaited
<1>1. b \in Index \ DOMAIN cached => b \in dropped \/ Awaited(b)
    BY ServedDef
<1>2. ASSUME NEW n \in Node, PollerStep(n)
      PROVE  b \in dropped' \/ Awaited(b)'
    <2>1. /\ poller[n] \in Poller /\ poller \in [Node -> Poller]
          /\ \A m \in Node \ {n} : poller'[m] = poller[m]
        BY <1>2, OtherPollers DEF TypeOK
    <2>2. CASE InsertHeaders(n)
        <3>1. /\ UNCHANGED <<cached, dropped>> /\ poller[n].step = "insert"
              /\ Index' = Index \cup poller[n].batch
            BY <2>1, <2>2, FilledHeld DEF InsertHeaders, TypeOK, Poller, Index, cacheVars, ghostVars, At
        <3>2. CASE b \in Index
            BY <1>1, <2>1, <3>1, <3>2 DEF Awaited, Refreshing
        <3>3. CASE b \notin Index
            <4>1. b \in poller[n].batch /\ ~(poller[n].batch \subseteq Index)
                BY <3>1, <3>3
            <4>2. poller'[n].step = "write" /\ poller'[n].batch = poller[n].batch
                BY <2>1, <2>2, <4>1 DEF InsertHeaders, Poller
            <4>. QED
                BY <4>1, <4>2 DEF Awaited, Refreshing
        <3>. QED
            BY <3>2, <3>3
    <2>3. CASE RefreshTree(n)
        <3>1. /\ tree' = tree /\ poller[n].step = "refresh"
              /\ dropped' = (dropped \cup DOMAIN cached) \ DOMAIN poller[n].snapshot
              /\ cached' = Replayed(poller[n].snapshot)
            BY <2>3 DEF RefreshTree, At
        <3>2. b \in Index /\ b \notin DOMAIN poller[n].snapshot
            BY <2>1, <3>1, ReplayedHeld DEF TypeOK, Poller, Index
        <3>3. b \notin poller[n].batch
            BY <3>1, <3>2 DEF TreeInv, PollerKept
        <3>. QED
            BY <1>1, <2>1, <3>1, <3>2, <3>3 DEF Awaited
    <2>4. CASE ~InsertHeaders(n) /\ ~RefreshTree(n)
        <3>1. /\ UNCHANGED <<tree, cached, dropped>>
              /\ \/ poller[n].step \notin Refreshing
                 \/ poller'[n].step \in Refreshing /\ poller'[n].batch = poller[n].batch
            BY <1>2, <2>4, RefreshingKinds
        <3>. QED
            BY <1>1, <2>1, <3>1 DEF Awaited, Index
    <2>. QED
        BY <2>2, <2>3, <2>4
<1>3. CASE MinerStep \/ Backfill \/ UNCHANGED vars
    <2>1. /\ DOMAIN cached' = DOMAIN cached /\ Index' = Index
          /\ UNCHANGED <<dropped, poller>>
        BY <1>3 DEF MinerStep, TakeRequest, Identify, SaveMiner, SaveMinerFails, ShowMiner, Backfill,
                    Unshared, cacheVars, ghostVars, vars, Index
    <2>. QED
        BY <1>1, <2>1 DEF Awaited
<1>4. CASE Restart
    BY <1>4 DEF Restart, Populated, Index
<1>. QED
    BY <1>2, <1>3, <1>4 DEF Next

\* No header that is in the tree is missing from what is served, unless a poller is
\* about to refresh the cache for it (persist_headers), or one with an older snapshot
\* has taken it out.
THEOREM ServedCorrect == Spec => []HeadersServed
<1>1. Init => HeadersServed
    BY DEF Init, HeadersServed, Index, NoHeaders
<1>. QED
    BY <1>1, TreeCorrect, ServedStep, PTL DEF Spec

-----------------------------------------------------------------------------
(* No pool name is lost with the process: a header is asked for its miner  *)
(* only after it was written or its write failed, and a row that is there  *)
(* when the miner is saved takes its name.                                 *)

Known == DOMAIN db \cup unsaved

FreshKnown(n) ==
    poller[n].fresh \subseteq
        Known \cup IF poller[n].step \in {"insert", "write", "write_only"} THEN poller[n].batch ELSE {}

AskedKnown ==
    /\ queue \subseteq Known
    /\ job.step # "take" => job.header \in Known
    /\ \A b \in Index : tree[b] = "pool" => b \in Known

RowNamed ==
    job.step = "show" /\ job.header \in DOMAIN db =>
        db[job.header] = job.miner \/ job.header \in unsaved

SavedInv == AskedKnown /\ RowNamed /\ MinersSaved /\ \A n \in Node : FreshKnown(n)

LEMMA KnownGrows ==
    ASSUME [Next]_vars
    PROVE  /\ Known \subseteq Known' /\ unsaved \subseteq unsaved'
           /\ \A n \in Node : WriteRows(n) \/ WriteFails(n) => poller[n].batch \subseteq Known'
<1>1. Known \subseteq Known' /\ unsaved \subseteq unsaved'
    <2>1. ASSUME NEW n \in Node, WriteRows(n) \/ WriteFails(n)
          PROVE  Known \subseteq Known' /\ unsaved \subseteq unsaved'
        BY <2>1 DEF WriteRows, WriteFails, Filled, Known, ghostVars
    <2>2. ASSUME NEW n \in Node, PollerStep(n), ~(WriteRows(n) \/ WriteFails(n))
          PROVE  Known \subseteq Known' /\ unsaved \subseteq unsaved'
        <3>1. UNCHANGED <<db, unsaved>>
            BY <2>2 DEF PollerStep, TipsFail, TipsLoaded, CompareTips, FindBatch, Mend, FetchFails,
               FetchCompletes, UpdateTips, MendNothing, Mended, InsertHeaders, SerializeTree, TakeForks,
               RefreshTree, ComputeMetrics, Publish, Unshared, ghostVars
        <3>. QED
            BY <3>1 DEF Known
    <2>3. CASE MinerStep \/ Backfill \/ Restart \/ UNCHANGED vars
        BY <2>3 DEF MinerStep, TakeRequest, Identify, SaveMiner, SaveMinerFails, ShowMiner, Backfill, Restart,
                    Unshared, ghostVars, vars, Known
    <2>. QED
        BY <2>1, <2>2, <2>3 DEF Next
<1>2. ASSUME NEW n \in Node, WriteRows(n) \/ WriteFails(n)
      PROVE  poller[n].batch \subseteq Known'
    BY <1>2 DEF WriteRows, WriteFails, Filled, Known, ghostVars
<1>. QED
    BY <1>1, <1>2

LEMMA FreshStaysKnown ==
    ASSUME TypeOK, NEW n \in Node, FreshKnown(n), PollerStep(n)
    PROVE  FreshKnown(n)'
<1> USE DEF At
<1>1. /\ poller \in [Node -> Poller] /\ poller[n] \in Poller
      /\ Known \subseteq Known'
    BY KnownGrows DEF TypeOK, Next
<1>2. ASSUME poller'[n].fresh = {}
      PROVE  FreshKnown(n)'
    BY <1>2 DEF FreshKnown
<1>3. ASSUME poller'[n].fresh = poller[n].fresh, poller[n].step \notin {"insert", "write", "write_only"}
      PROVE  FreshKnown(n)'
    BY <1>1, <1>3 DEF FreshKnown
<1>4. CASE TipsFail(n) \/ TipsLoaded(n)
    <2>1. PICK nodes \in SUBSET Node, return \in {"sleep", "compare"} : UpdateReachable(n, nodes, return)
        BY <1>4 DEF TipsFail, TipsLoaded, TypeOK
    <2>2. poller[n].step = "sleep"
        BY <1>4 DEF TipsFail, TipsLoaded, Poll
    <2>3. poller'[n].fresh = poller[n].fresh
        <3>1. CASE nodes = reachable
            <4>1. poller' = [poller EXCEPT ![n].step = return]
                BY <2>1, <3>1 DEF UpdateReachable
            <4>. QED
                BY <1>1, <4>1 DEF Poller
        <3>2. CASE nodes # reachable
            <4>1. poller' = [poller EXCEPT ![n] = [poller[n] EXCEPT !.step = "metrics", !.return = return,
                                !.snapshot = NoHeaders, !.forks = {},
                                !.data = [tips |-> NodeData(shown, nodes), headers |-> {}]]]
                BY <1>1, <2>1, <3>2 DEF UpdateReachable, ThenMetrics
            <4>. QED
                BY <1>1, <4>1 DEF Poller
        <3>. QED
            BY <3>1, <3>2
    <2>. QED
        BY <1>3, <2>2, <2>3
<1>5. CASE \E b \in Holds[n] : CompareTips(n, b)
    <2>1. poller'[n].fresh = poller[n].fresh /\ poller[n].step = "compare"
        BY <1>1, <1>5 DEF CompareTips, Poller
    <2>. QED
        BY <1>3, <2>1
<1>6. CASE \E found \in SUBSET Holds[n] : FindBatch(n, found)
    <2>1. PICK found : FindBatch(n, found)
        BY <1>6
    <2>2. /\ poller'[n].fresh = poller[n].fresh \cup found /\ poller'[n].batch = found
          /\ poller'[n].step = "insert" /\ poller[n].step = "fetch"
        BY <1>1, <2>1 DEF FindBatch, Poller
    <2>. QED
        BY <1>1, <2>2 DEF FreshKnown
<1>7. CASE \E found \in SUBSET Holds[n] : Mend(n, found)
    <2>1. PICK found : Mend(n, found)
        BY <1>7
    <2>2. poller'[n].fresh = found /\ poller'[n].batch = found /\ poller'[n].step = "insert"
        BY <1>1, <2>1 DEF Mend, Poller
    <2>. QED
        BY <2>2 DEF FreshKnown
<1>8. CASE FetchFails(n) \/ FetchCompletes(n) \/ MendNothing(n) \/ Mended(n)
    <2>1. poller'[n].fresh = {}
        BY <1>1, <1>8 DEF FetchFails, FetchCompletes, MendNothing, Mended, Sleeping, Poller
    <2>. QED
        BY <1>2, <2>1
<1>9. CASE InsertHeaders(n)
    <2>1. /\ poller'[n].fresh = poller[n].fresh /\ poller'[n].batch = poller[n].batch
          /\ poller[n].step = "insert" /\ poller'[n].step \in {"write", "write_only"}
        BY <1>1, <1>9 DEF InsertHeaders, Poller
    <2>. QED
        BY <1>1, <2>1 DEF FreshKnown
<1>10. CASE WriteRows(n) \/ WriteFails(n)
    <2>1. poller[n].step \in {"write", "write_only"} /\ Written(n)
        BY <1>10 DEF WriteRows, WriteFails
    <2>2. poller'[n].fresh = poller[n].fresh
        BY <1>1, <2>1 DEF Written, Returned, Poller
    <2>3. poller[n].batch \subseteq Known'
        BY <1>10, KnownGrows DEF Next
    <2>. QED
        BY <1>1, <2>1, <2>2, <2>3 DEF FreshKnown
<1>11. CASE UpdateTips(n)
    <2>1. poller'[n].fresh = poller[n].fresh /\ poller[n].step = "tips"
        BY <1>1, <1>11 DEF UpdateTips, ThenMetrics, Poller
    <2>. QED
        BY <1>3, <2>1
<1>12. CASE SerializeTree(n) \/ TakeForks(n) \/ RefreshTree(n)
    <2>1. poller'[n].fresh = poller[n].fresh /\ poller[n].step \in {"serialize", "forks", "refresh"}
        <3>1. CASE SerializeTree(n)
            BY <1>1, <3>1 DEF SerializeTree, Poller
        <3>2. CASE TakeForks(n)
            BY <1>1, <3>2 DEF TakeForks, Poller
        <3>3. CASE RefreshTree(n)
            BY <1>1, <3>3 DEF RefreshTree, Poller
        <3>. QED
            BY <1>12, <3>1, <3>2, <3>3
    <2>. QED
        BY <1>3, <2>1
<1>13. CASE ComputeMetrics(n) \/ Publish(n)
    <2>1. poller'[n].fresh = poller[n].fresh /\ poller[n].step \in {"metrics", "publish"}
        <3>1. CASE ComputeMetrics(n)
            BY <1>1, <3>1 DEF ComputeMetrics, Poller
        <3>2. CASE Publish(n)
            BY <1>1, <3>2 DEF Publish, Returned, Poller
        <3>. QED
            BY <1>13, <3>1, <3>2
    <2>. QED
        BY <1>3, <2>1
<1>. QED
    BY <1>4, <1>5, <1>6, <1>7, <1>8, <1>9, <1>10, <1>11, <1>12, <1>13 DEF PollerStep

\* What a poller leaves of the rows, the requests and the job.
LEMMA PollerSaves ==
    ASSUME TypeOK, NEW n \in Node, FreshKnown(n), PollerStep(n)
    PROVE  /\ job' = job /\ queue' \subseteq queue \cup Known
           /\ DOMAIN db \subseteq DOMAIN db' /\ \A b \in DOMAIN db : db'[b] = db[b]
<1>1. job' = job
    BY DEF PollerStep, TipsFail, TipsLoaded, CompareTips, FindBatch, Mend, FetchFails,
           FetchCompletes, UpdateTips, MendNothing, Mended, InsertHeaders, WriteRows, WriteFails,
           SerializeTree, TakeForks, RefreshTree, ComputeMetrics, Publish, minerVars
<1>2. queue' \subseteq queue \cup Known
    <2>1. CASE FetchCompletes(n) \/ Mended(n)
        BY <2>1 DEF FetchCompletes, Mended, FreshKnown, At
    <2>2. CASE ~(FetchCompletes(n) \/ Mended(n))
        BY <2>2 DEF PollerStep, TipsFail, TipsLoaded, CompareTips, FindBatch, Mend, FetchFails,
               UpdateTips, MendNothing, InsertHeaders, WriteRows, WriteFails,
               SerializeTree, TakeForks, RefreshTree, ComputeMetrics, Publish, minerVars
    <2>. QED
        BY <2>1, <2>2
<1>3. DOMAIN db \subseteq DOMAIN db' /\ \A b \in DOMAIN db : db'[b] = db[b]
    <2>1. CASE WriteRows(n)
        BY <2>1 DEF WriteRows, Filled
    <2>2. CASE ~WriteRows(n)
        <3>1. db' = db
            BY <2>2 DEF PollerStep, TipsFail, TipsLoaded, CompareTips, FindBatch, Mend, FetchFails,
                   FetchCompletes, UpdateTips, MendNothing, Mended, InsertHeaders, WriteFails,
                   SerializeTree, TakeForks, RefreshTree, ComputeMetrics, Publish, Unshared
        <3>. QED
            BY <3>1
    <2>. QED
        BY <2>1, <2>2
<1>. QED
    BY <1>1, <1>2, <1>3

LEMMA PollerKeepsSaved ==
    ASSUME TypeOK, TreeInv, SavedInv, NEW n \in Node, PollerStep(n)
    PROVE  AskedKnown' /\ RowNamed' /\ MinersSaved'
<1>1. /\ job' = job /\ queue' \subseteq queue \cup Known
      /\ DOMAIN db \subseteq DOMAIN db' /\ \A b \in DOMAIN db : db'[b] = db[b]
      /\ Known \subseteq Known' /\ unsaved \subseteq unsaved'
    BY PollerSaves, KnownGrows DEF SavedInv, Next
<1>2. \A b \in DOMAIN tree' : tree'[b] = "pool" => b \in Index /\ tree[b] = "pool"
    <2>1. CASE InsertHeaders(n)
        BY <2>1 DEF InsertHeaders, Filled, Index
    <2>2. CASE ~InsertHeaders(n)
        BY <2>2, TreeFilled DEF Index
    <2>. QED
        BY <2>1, <2>2
<1>3. AskedKnown'
    BY <1>1, <1>2 DEF AskedKnown, SavedInv, Index
<1>4. \A b \in DOMAIN db' \ DOMAIN db : b \in Known => b \in unsaved
    BY DEF Known
<1>5. RowNamed'
    BY <1>1, <1>4 DEF RowNamed, AskedKnown, SavedInv
<1>6. DOMAIN db \subseteq Index
    BY DEF TreeInv, CacheKept, KeptIn, Index
<1>7. ASSUME NEW b \in DOMAIN db', tree'[b] = "pool", db'[b] # "pool"
      PROVE  b \in unsaved' \/ job'.header = b
    <2>1. CASE b \in DOMAIN db
        BY <1>1, <1>2, <1>6, <1>7, <2>1, TreeFilled DEF SavedInv, MinersSaved, Index
    <2>2. CASE b \notin DOMAIN db
        <3>1. b \in Index
            <4>1. WriteRows(n)
                <5>1. db' = db \/ WriteRows(n)
                    BY DEF PollerStep, TipsFail, TipsLoaded, CompareTips, FindBatch, Mend, FetchFails,
                       FetchCompletes, UpdateTips, MendNothing, Mended, InsertHeaders, WriteFails,
                       SerializeTree, TakeForks, RefreshTree, ComputeMetrics, Publish, Unshared
                <5>. QED
                    BY <5>1, <2>2
            <4>2. b \in poller[n].batch
                BY <4>1, <2>2 DEF WriteRows, Filled
            <4>. QED
                BY <4>1, <4>2 DEF WriteRows, TreeInv, PollerKept, Refreshing
        <3>2. tree[b] = "pool"
            BY <3>1, <1>7, TreeFilled
        <3>. QED
            BY <1>1, <1>4, <2>2, <3>1, <3>2 DEF SavedInv, AskedKnown
    <2>. QED
        BY <2>1, <2>2
<1>8. MinersSaved'
    BY <1>7 DEF MinersSaved
<1>. QED
    BY <1>3, <1>5, <1>8

LEMMA MinerKeepsSaved ==
    ASSUME TypeOK, TreeInv, SavedInv, MinerStep
    PROVE  AskedKnown' /\ RowNamed' /\ MinersSaved'
<1>1. Known \subseteq Known' /\ unsaved \subseteq unsaved' /\ AskedKnown /\ MinersSaved /\ JobKept
    BY KnownGrows DEF SavedInv, TreeInv, Next
<1>2. CASE \E b \in queue : TakeRequest(b)
    <2>1. PICK b \in queue : TakeRequest(b)
        BY <1>2
    <2>2. /\ UNCHANGED <<tree, db, unsaved>> /\ queue' \subseteq queue
          /\ job.header = NoBlock
          /\ \/ job'.step = "take" /\ job' = job
             \/ job'.step = "ask" /\ job'.header = b
        <3>1. UNCHANGED <<tree, db, unsaved>> /\ queue' \subseteq queue
            BY <2>1 DEF TakeRequest, Unshared, ghostVars
        <3>2. job.step = "take" /\ job.header = NoBlock
            <4>1. job = NoJob \/ job.step \in {"ask", "save", "show"}
                BY DEF TypeOK, Job
            <4>2. job.step = "take"
                BY <2>1 DEF TakeRequest
            <4>3. job = NoJob
                BY <4>1, <4>2
            <4>. QED
                BY <4>2, <4>3 DEF NoJob
        <3>3. \/ job'.step = "take" /\ job' = job
              \/ job'.step = "ask" /\ job'.header = b
            BY <2>1, <3>2 DEF TakeRequest
        <3>. QED
            BY <3>1, <3>2, <3>3
    <2>3. DOMAIN db \subseteq Block
        BY HeldDef DEF TypeOK
    <2>. QED
        BY <1>1, <2>2, <2>3, CacheAssumption DEF AskedKnown, RowNamed, MinersSaved, Known, Index
<1>3. CASE \E name \in {"Unknown", "pool"} : Identify(name)
    <2>1. PICK name \in {"Unknown", "pool"} : Identify(name)
        BY <1>3
    <2>2. /\ job.step = "ask" /\ job \in Job /\ UNCHANGED <<db, unsaved, queue>>
          /\ job' = [job EXCEPT !.step = "save", !.miner = name]
          /\ tree' = [tree EXCEPT ![job.header] = name]
        BY <2>1 DEF Identify, ghostVars, TypeOK
    <2>3. job'.step = "save" /\ job'.header = job.header
        BY <2>2 DEF Job, NoJob
    <2>. QED
        BY <1>1, <2>2, <2>3 DEF AskedKnown, RowNamed, MinersSaved, Known, Index
<1>4. CASE SaveMiner \/ SaveMinerFails
    <2>1. job.step = "save" /\ job' = [job EXCEPT !.step = "show"] /\ job \in Job
          /\ UNCHANGED <<tree, queue>>
        BY <1>4 DEF SaveMiner, SaveMinerFails, TypeOK
    <2>2. job'.step = "show" /\ job'.header = job.header /\ job'.miner = job.miner
        BY <2>1 DEF Job, NoJob
    <2>3. AskedKnown'
        BY <1>1, <2>1, <2>2 DEF AskedKnown, Index
    <2>4. RowNamed'
        BY <1>4, <2>2 DEF SaveMiner, SaveMinerFails, RowNamed
    <2>5. DOMAIN db' = DOMAIN db /\ \A b \in DOMAIN db : b # job.header => db'[b] = db[b]
        BY <1>4 DEF SaveMiner, SaveMinerFails
    <2>6. MinersSaved'
        BY <1>1, <2>1, <2>2, <2>5 DEF MinersSaved
    <2>. QED
        BY <2>3, <2>4, <2>6
<1>5. CASE ShowMiner
    <2>1. /\ UNCHANGED <<tree, db, unsaved, queue>> /\ job' = NoJob /\ job.step = "show"
        BY <1>5 DEF ShowMiner
    <2>2. RowNamed /\ tree[job.header] = job.miner
        BY <1>1, <2>1 DEF SavedInv, JobKept
    <2>. QED
        BY <1>1, <2>1, <2>2 DEF AskedKnown, RowNamed, MinersSaved, NoJob, Known, Index
<1>. QED
    BY <1>2, <1>3, <1>4, <1>5 DEF MinerStep

LEMMA SavedStep ==
    ASSUME TypeOK, TreeInv, SavedInv, [Next]_vars
    PROVE  SavedInv'
<1>1. ASSUME NEW m \in Node
      PROVE  FreshKnown(m)'
    <2>1. FreshKnown(m) /\ Known \subseteq Known'
        BY KnownGrows DEF SavedInv
    <2>2. ASSUME poller'[m] = poller[m]
          PROVE  FreshKnown(m)'
        BY <2>1, <2>2 DEF FreshKnown
    <2>3. CASE \E n \in Node : PollerStep(n)
        <3>1. PICK n \in Node : PollerStep(n)
            BY <2>3
        <3>. QED
            BY <2>1, <2>2, <3>1, FreshStaysKnown, OtherPollers
    <2>4. CASE MinerStep \/ Backfill \/ UNCHANGED vars
        BY <2>2, <2>4 DEF MinerStep, TakeRequest, Identify, SaveMiner, SaveMinerFails, ShowMiner, Backfill,
                          vars
    <2>5. CASE Restart
        BY <2>5 DEF Restart, Sleeping, FreshKnown
    <2>. QED
        BY <2>3, <2>4, <2>5 DEF Next
<1>2. AskedKnown' /\ RowNamed' /\ MinersSaved'
    <2>1. CASE \E n \in Node : PollerStep(n)
        BY <2>1, PollerKeepsSaved
    <2>2. CASE MinerStep
        BY <2>2, MinerKeepsSaved
    <2>3. CASE Backfill
        BY <2>3 DEF Backfill, SavedInv, AskedKnown, RowNamed, MinersSaved, Known, Index
    <2>4. CASE Restart
        BY <2>4 DEF Restart, Populated, NoJob, AskedKnown, RowNamed, MinersSaved, Known, Index
    <2>5. CASE UNCHANGED vars
        BY <2>5 DEF vars, minerVars, ghostVars, SavedInv, AskedKnown, RowNamed, MinersSaved, Known, Index
    <2>. QED
        BY <2>1, <2>2, <2>3, <2>4, <2>5 DEF Next
<1>. QED
    BY <1>1, <1>2 DEF SavedInv

\* A restart forgets no pool name (spawn_network_tasks, update_miner, write_to_db): a row
\* whose header has one in the tree has it too, except after a failed write, when the
\* backfill ran before the row was written, or while the name is being saved.
THEOREM MinersSavedCorrect == Spec => []MinersSaved
<1>1. Init => SavedInv
    <2> SUFFICES ASSUME Init PROVE SavedInv
        OBVIOUS
    <2>1. DOMAIN db = {} /\ Index = {} /\ job.step = "take" /\ queue = {}
        BY DEF Init, NoHeaders, NoJob, Index
    <2>2. \A n \in Node : FreshKnown(n)
        BY DEF Init, FreshKnown, Sleeping
    <2>. QED
        BY <2>1, <2>2 DEF SavedInv, AskedKnown, RowNamed, MinersSaved
<1>2. SavedInv => MinersSaved
    BY DEF SavedInv
<1>. QED
    BY <1>1, <1>2, TreeCorrect, SavedStep, PTL DEF Spec

-----------------------------------------------------------------------------
(* A pool name that was shown is not taken back by an older tree: what the *)
(* cache remembers of the names found since a poller serialized the tree   *)
(* is the end of the list, and the last entry of a header is its name.     *)

\* A pool's entry is the last of its header, whose identification is over.
PoolLast ==
    \A i \in 1 .. Len(recent) : recent[i][2] = "pool" =>
        /\ job.header # recent[i][1]
        /\ \A j \in 1 .. Len(recent) : j > i => recent[j][1] # recent[i][1]

\* An entry that is no longer right is followed by one that is, or will be.
EntryCorrected ==
    \A i \in 1 .. Len(recent) :
      recent[i][2] # "pool" /\ recent[i][1] \in Index /\ tree[recent[i][1]] = "pool" =>
        \/ job.header = recent[i][1]
        \/ \E j \in 1 .. Len(recent) : j > i /\ recent[j] = <<recent[i][1], "pool">>

\* What the snapshot of a poller lacks is among the names found since.
Replayable(n) ==
    poller[n].step \in {"forks", "refresh"} /\ behind[n] <= RecentLimit =>
        /\ behind[n] <= Len(recent)
        /\ \A b \in DOMAIN poller[n].snapshot :
              tree[b] = "pool" /\ poller[n].snapshot[b] # "pool" =>
                \/ job.header = b
                \/ \E i \in 1 .. Len(recent) : i > Len(recent) - behind[n] /\ recent[i] = <<b, "pool">>

ReplayInv == PoolLast /\ EntryCorrected /\ MinersReplayed /\ \A n \in Node : Replayable(n)

\* The remembered miners move down by one when the list is full.
LEMMA RememberedEntries ==
    ASSUME TypeOK, job # NoJob
    PROVE  \E d \in {0, 1} :
              /\ Len(Remembered) = Len(recent) + 1 - d /\ (d = 1 => Len(recent) = RecentLimit)
              /\ \A i \in 1 .. Len(Remembered) :
                    /\ i + d <= Len(recent) => Remembered[i] = recent[i + d]
                    /\ i + d = Len(recent) + 1 => Remembered[i] = <<job.header, job.miner>>
<1> DEFINE new == <<job.header, job.miner>>
<1>1. recent \in Seq(Block \X Miners) /\ new \in Block \X Miners /\ Len(recent) \in Nat
    BY DEF TypeOK, Job
<1>2. /\ Len(Append(recent, new)) = Len(recent) + 1
      /\ Append(recent, new)[Len(recent) + 1] = new
      /\ \A i \in 1 .. Len(recent) : Append(recent, new)[i] = recent[i]
    BY <1>1
<1>3. CASE Remembered = Append(recent, new)
    <2>1. /\ Len(Remembered) = Len(recent) + 1 - 0
          /\ \A i \in 1 .. Len(Remembered) :
                /\ i + 0 <= Len(recent) => Remembered[i] = recent[i + 0]
                /\ i + 0 = Len(recent) + 1 => Remembered[i] = new
        BY <1>1, <1>2, <1>3
    <2>. QED
        BY <2>1
<1>4. CASE /\ Len(Remembered) = Len(recent) /\ Len(recent) = RecentLimit
           /\ \A i \in 1 .. Len(recent) : Remembered[i] = Append(recent, new)[i + 1]
    <2>1. /\ Len(Remembered) = Len(recent) + 1 - 1
          /\ \A i \in 1 .. Len(Remembered) :
                /\ i + 1 <= Len(recent) => Remembered[i] = recent[i + 1]
                /\ i + 1 = Len(recent) + 1 => Remembered[i] = new
        BY <1>1, <1>2, <1>4
    <2>. QED
        BY <1>4, <2>1
<1>. QED
    BY <1>3, <1>4, RememberedType

\* What a poller leaves of the names found.
LEMMA PollerReplays ==
    ASSUME TypeOK, NEW n \in Node, PollerStep(n)
    PROVE  /\ job' = job /\ recent' = recent
           /\ \A m \in Node \ {n} : behind'[m] = behind[m]
           /\ \/ RefreshTree(n)
              \/ UNCHANGED <<cached, outrun>> /\ (SerializeTree(n) \/ UNCHANGED behind)
<1>1. job' = job /\ recent' = recent
    BY DEF PollerStep, TipsFail, TipsLoaded, UpdateReachable, CompareTips, FindBatch, Mend, FetchFails,
           FetchCompletes, UpdateTips, MendNothing, Mended, InsertHeaders, WriteRows, WriteFails,
           SerializeTree, TakeForks, RefreshTree, ComputeMetrics, Publish, Unshared, cacheVars, minerVars
<1>2. \/ RefreshTree(n)
      \/ UNCHANGED <<cached, outrun>> /\ (SerializeTree(n) \/ UNCHANGED behind)
    <2>1. CASE SerializeTree(n)
        BY <2>1 DEF SerializeTree, cacheVars
    <2>2. CASE ~SerializeTree(n) /\ ~RefreshTree(n)
        BY <2>2 DEF PollerStep, TipsFail, TipsLoaded, UpdateReachable, CompareTips, FindBatch, Mend,
               FetchFails, FetchCompletes, UpdateTips, MendNothing, Mended, InsertHeaders, WriteRows,
               WriteFails, TakeForks, ComputeMetrics, Publish, Unshared, cacheVars, ghostVars
    <2>. QED
        BY <2>1, <2>2
<1>3. \A m \in Node \ {n} : behind'[m] = behind[m]
    <2>1. behind' = behind \/ behind' = [behind EXCEPT ![n] = 0]
        BY <1>2 DEF SerializeTree, RefreshTree
    <2>. QED
        BY <2>1 DEF TypeOK
<1>. QED
    BY <1>1, <1>2, <1>3

LEMMA PollerKeepsEntries ==
    ASSUME TypeOK, TreeInv, PoolLast, EntryCorrected, NEW n \in Node, PollerStep(n)
    PROVE  PoolLast' /\ EntryCorrected'
<1>1. /\ job' = job /\ recent' = recent
      /\ Index \subseteq DOMAIN tree' /\ \A b \in Index : tree'[b] = tree[b]
    BY PollerReplays, TreeFilled
<1>2. \A b \in DOMAIN tree' : tree'[b] = "pool" => b \in Index /\ tree[b] = "pool"
    <2>1. CASE InsertHeaders(n)
        BY <2>1 DEF InsertHeaders, Filled, Index
    <2>2. CASE ~InsertHeaders(n)
        BY <2>2, TreeFilled DEF Index
    <2>. QED
        BY <2>1, <2>2
<1>3. PoolLast'
    BY <1>1 DEF PoolLast
<1>4. EntryCorrected'
    BY <1>1, <1>2 DEF EntryCorrected, Index
<1>. QED
    BY <1>3, <1>4

LEMMA MinerKeepsEntries ==
    ASSUME TypeOK, TreeInv, PoolLast, EntryCorrected, MinerStep
    PROVE  PoolLast' /\ EntryCorrected'
<1>1. /\ JobKept /\ RecentKept /\ job \in Job
      /\ \A i \in 1 .. Len(recent) : recent[i][1] \in Block
    BY DEF TreeInv, TypeOK
<1>2. CASE \E b \in queue : TakeRequest(b)
    <2>1. PICK b \in queue : TakeRequest(b)
        BY <1>2
    <2>2. /\ UNCHANGED <<tree, recent>> /\ job.step = "take"
          /\ \/ job' = job
             \/ job'.header = b /\ b \in Index /\ tree[b] \in Unidentified
        BY <2>1 DEF TakeRequest, Unshared, cacheVars
    <2>3. job.header = NoBlock
        <3>1. job = NoJob
            BY <2>2 DEF TypeOK, Job
        <3>. QED
            BY <3>1 DEF NoJob
    <2>4. PoolLast'
        BY <1>1, <2>2 DEF PoolLast, RecentKept, Unidentified
    <2>5. EntryCorrected'
        BY <1>1, <2>2, <2>3, CacheAssumption DEF EntryCorrected, Index
    <2>. QED
        BY <2>4, <2>5
<1>3. CASE \E name \in {"Unknown", "pool"} : Identify(name)
    <2>1. PICK name \in {"Unknown", "pool"} : Identify(name)
        BY <1>3
    <2>2. /\ job.step = "ask" /\ recent' = recent
          /\ job' = [job EXCEPT !.step = "save", !.miner = name]
          /\ tree' = [tree EXCEPT ![job.header] = name]
        BY <2>1 DEF Identify, cacheVars
    <2>3. job'.header = job.header
        BY <1>1, <2>2 DEF Job, NoJob
    <2>4. PoolLast'
        BY <2>2, <2>3 DEF PoolLast
    <2>5. EntryCorrected'
        BY <2>2, <2>3 DEF EntryCorrected, Index
    <2>. QED
        BY <2>4, <2>5
<1>4. CASE SaveMiner \/ SaveMinerFails
    <2>1. UNCHANGED <<tree, recent>> /\ job' = [job EXCEPT !.step = "show"]
        BY <1>4 DEF SaveMiner, SaveMinerFails, cacheVars
    <2>2. job'.header = job.header
        BY <1>1, <2>1 DEF Job, NoJob
    <2>. QED
        BY <2>1, <2>2 DEF PoolLast, EntryCorrected, Index
<1>5. CASE ShowMiner
    <2>1. /\ UNCHANGED tree /\ recent' = Remembered /\ job' = NoJob /\ job.step = "show"
        BY <1>5 DEF ShowMiner
    <2>2. job # NoJob /\ job.header \in Block /\ tree[job.header] = job.miner
        BY <1>1, <2>1, JobUnderWay DEF JobKept
    <2>3. Len(recent) \in Nat /\ Len(Remembered) \in Nat
        BY <2>2, RememberedType DEF TypeOK
    <2>4. PICK d \in {0, 1} :
              /\ Len(Remembered) = Len(recent) + 1 - d
              /\ \A i \in 1 .. Len(Remembered) :
                    /\ i + d <= Len(recent) => Remembered[i] = recent[i + d]
                    /\ i + d = Len(recent) + 1 => Remembered[i] = <<job.header, job.miner>>
        BY <2>2, RememberedEntries
    <2>9. d \in {0, 1} /\ Len(Remembered) + d = Len(recent) + 1
        BY <2>3, <2>4
    <2>5. ASSUME NEW i \in 1 .. Len(Remembered), Remembered[i][2] = "pool"
          PROVE  /\ NoJob.header # Remembered[i][1]
                 /\ \A j \in 1 .. Len(Remembered) : j > i => Remembered[j][1] # Remembered[i][1]
        <3>1. CASE i + d = Len(recent) + 1
            <4>1. Remembered[i] = <<job.header, job.miner>>
                BY <2>4, <3>1
            <4>4. Remembered[i][1] = job.header
                BY <4>1
            <4>2. NoJob.header # Remembered[i][1]
                BY <2>2, <4>4, CacheAssumption DEF NoJob
            <4>3. \A j \in 1 .. Len(Remembered) : ~(j > i)
                BY <2>3, <2>9, <3>1
            <4>. QED
                BY <4>2, <4>3
        <3>2. CASE i + d <= Len(recent)
            <4>1. Remembered[i] = recent[i + d] /\ i + d \in 1 .. Len(recent)
                BY <2>3, <2>4, <3>2
            <4>2. NoJob.header # Remembered[i][1]
                BY <1>1, <4>1, CacheAssumption DEF NoJob
            <4>3. ASSUME NEW j \in 1 .. Len(Remembered), j > i
                  PROVE  Remembered[j][1] # Remembered[i][1]
                <5>1. CASE j + d = Len(recent) + 1
                    <6>1. Remembered[j] = <<job.header, job.miner>>
                        BY <2>4, <5>1
                    <6>2. job.header # recent[i + d][1]
                        BY <2>5, <4>1 DEF PoolLast
                    <6>3. Remembered[j][1] = job.header
                        BY <6>1
                    <6>. QED
                        BY <4>1, <6>2, <6>3
                <5>2. CASE j + d <= Len(recent)
                    <6>1. Remembered[j] = recent[j + d] /\ j + d \in 1 .. Len(recent) /\ j + d > i + d
                        BY <2>3, <2>4, <4>3, <5>2
                    <6>. QED
                        BY <2>5, <4>1, <6>1 DEF PoolLast
                <5>. QED
                    BY <2>3, <2>9, <5>1, <5>2
            <4>. QED
                BY <4>2, <4>3
        <3>. QED
            BY <2>3, <2>4, <3>1, <3>2
    <2>6. ASSUME NEW i \in 1 .. Len(Remembered), Remembered[i][2] # "pool",
                 Remembered[i][1] \in Index, tree[Remembered[i][1]] = "pool"
          PROVE  \E j \in 1 .. Len(Remembered) : j > i /\ Remembered[j] = <<Remembered[i][1], "pool">>
        <3>1. i + d <= Len(recent)
            <4>1. CASE i + d = Len(recent) + 1
                BY <2>2, <2>4, <2>6, <4>1
            <4>. QED
                BY <2>3, <2>4, <4>1
        <3>2. Remembered[i] = recent[i + d] /\ i + d \in 1 .. Len(recent)
            BY <2>3, <2>4, <3>1
        <3>3. CASE job.header = recent[i + d][1]
            <4>1. Len(Remembered) \in 1 .. Len(Remembered) /\ Len(Remembered) > i
                  /\ Len(Remembered) + d = Len(recent) + 1
                BY <2>3, <2>9, <3>1
            <4>2. Remembered[Len(Remembered)] = <<Remembered[i][1], "pool">>
                BY <2>2, <2>4, <2>6, <3>2, <3>3, <4>1
            <4>. QED
                BY <4>1, <4>2
        <3>4. CASE \E j \in 1 .. Len(recent) : j > i + d /\ recent[j] = <<recent[i + d][1], "pool">>
            <4>1. PICK j \in 1 .. Len(recent) : j > i + d /\ recent[j] = <<recent[i + d][1], "pool">>
                BY <3>4
            <4>2. j - d \in 1 .. Len(Remembered) /\ j - d > i /\ (j - d) + d = j
                BY <2>3, <2>4, <4>1
            <4>3. Remembered[j - d] = recent[j]
                BY <2>4, <4>2
            <4>. QED
                BY <3>2, <4>1, <4>2, <4>3
        <3>. QED
            BY <2>6, <3>2, <3>3, <3>4 DEF EntryCorrected
    <2>7. PoolLast'
        BY <2>1, <2>5 DEF PoolLast
    <2>8. EntryCorrected'
        BY <2>1, <2>6 DEF EntryCorrected, Index
    <2>. QED
        BY <2>7, <2>8
<1>. QED
    BY <1>2, <1>3, <1>4, <1>5 DEF MinerStep

LEMMA RefreshReplays ==
    ASSUME TypeOK, TreeInv, ReplayInv, NEW n \in Node, RefreshTree(n)
    PROVE  MinersReplayed'
<1>1. /\ cached' = Replayed(poller[n].snapshot) /\ outrun' = (behind[n] > RecentLimit)
      /\ UNCHANGED <<tree, job>> /\ poller[n].step = "refresh"
    BY DEF RefreshTree, minerVars, At
<1>2. /\ recent \in Seq(Block \X Miners) /\ poller[n].snapshot \in Held
      /\ DOMAIN poller[n].snapshot \subseteq Index /\ behind[n] \in Nat
    BY DEF TypeOK, Poller, TreeInv, PollerKept, KeptIn, Index
<1>3. DOMAIN cached' = DOMAIN poller[n].snapshot
    BY <1>1, <1>2, ReplayedHeld
<1>4. ASSUME NEW b \in DOMAIN poller[n].snapshot, tree[b] = "pool", cached'[b] # "pool",
             behind[n] <= RecentLimit
      PROVE  job.header = b
    <2>1. CASE /\ \A i \in 1 .. Len(recent) : recent[i][1] # b
               /\ cached'[b] = poller[n].snapshot[b]
        <3>1. \/ job.header = b
              \/ \E i \in 1 .. Len(recent) : recent[i] = <<b, "pool">>
            BY <1>1, <1>4, <2>1 DEF ReplayInv, Replayable
        <3>2. ASSUME NEW i \in 1 .. Len(recent), recent[i] = <<b, "pool">>
              PROVE  FALSE
            <4>1. recent[i][1] = b
                BY <3>2
            <4>. QED
                BY <2>1, <4>1
        <3>. QED
            BY <3>1, <3>2
    <2>2. CASE \E i \in 1 .. Len(recent) :
                  /\ recent[i][1] = b /\ cached'[b] = recent[i][2]
                  /\ \A j \in 1 .. Len(recent) : recent[j][1] = b => j <= i
        <3>1. PICK i \in 1 .. Len(recent) :
                  /\ recent[i][1] = b /\ cached'[b] = recent[i][2]
                  /\ \A j \in 1 .. Len(recent) : recent[j][1] = b => j <= i
            BY <2>2
        <3>2. ~ \E j \in 1 .. Len(recent) : j > i /\ recent[j] = <<b, "pool">>
            <4>1. ASSUME NEW j \in 1 .. Len(recent), recent[j] = <<b, "pool">>
                  PROVE  j <= i
                <5>1. recent[j][1] = b
                    BY <4>1
                <5>. QED
                    BY <3>1, <5>1
            <4>. QED
                BY <4>1
        <3>3. EntryCorrected /\ b \in Index
            BY <1>2 DEF ReplayInv
        <3>. QED
            BY <1>4, <3>1, <3>2, <3>3 DEF EntryCorrected
    <2>. QED
        BY <1>1, <1>2, <2>1, <2>2, ReplayedValue
<1>5. behind[n] > RecentLimit => outrun'
    BY <1>1, Zenon
<1>6. behind[n] <= RecentLimit \/ outrun'
    BY <1>2, <1>5, CacheAssumption
<1>. QED
    BY <1>1, <1>3, <1>4, <1>6, Zenon DEF MinersReplayed

\* The tree and the names found are what they were for a snapshot taken before.
LEMMA StaysReplayable ==
    ASSUME TypeOK, TreeInv, NEW m \in Node, Replayable(m),
           job' = job, recent' = recent, \A b \in Index : tree'[b] = tree[b],
           poller'[m].snapshot = poller[m].snapshot, behind'[m] = behind[m],
           poller'[m].step \in {"forks", "refresh"} => poller[m].step \in {"forks", "refresh"}
    PROVE  Replayable(m)'
<1>1. DOMAIN poller[m].snapshot \subseteq Index
    BY DEF TreeInv, PollerKept, KeptIn, Index
<1>. QED
    BY <1>1 DEF Replayable

\* Only a poller that serializes the tree or takes the forks has a snapshot after it.
LEMMA NotReplayable ==
    ASSUME TypeOK, NEW n \in Node, PollerStep(n), ~SerializeTree(n), ~TakeForks(n)
    PROVE  poller'[n].step \notin {"forks", "refresh"}
<1> USE DEF At
<1>1. poller \in [Node -> Poller] /\ poller[n] \in Poller
    BY DEF TypeOK
<1>2. CASE TipsFail(n) \/ TipsLoaded(n)
    <2>1. PICK nodes \in SUBSET Node, return \in {"sleep", "compare"} : UpdateReachable(n, nodes, return)
        BY <1>2 DEF TipsFail, TipsLoaded, TypeOK
    <2>. QED
        BY <1>1, <2>1 DEF UpdateReachable, ThenMetrics, Poller
<1>3. CASE \E b \in Holds[n] : CompareTips(n, b)
    BY <1>1, <1>3 DEF CompareTips, Poller
<1>4. CASE \E found \in SUBSET Holds[n] : FindBatch(n, found) \/ Mend(n, found)
    BY <1>1, <1>4 DEF FindBatch, Mend, Poller
<1>5. CASE FetchFails(n) \/ FetchCompletes(n) \/ MendNothing(n) \/ Mended(n)
    BY <1>1, <1>5 DEF FetchFails, FetchCompletes, MendNothing, Mended, Sleeping, Poller
<1>6. CASE InsertHeaders(n)
    BY <1>1, <1>6 DEF InsertHeaders, Poller
<1>7. CASE WriteRows(n) \/ WriteFails(n)
    <2>1. Written(n)
        BY <1>7 DEF WriteRows, WriteFails
    <2>2. poller'[n].step \in {"serialize"} \cup Returns
        BY <1>1, <2>1 DEF Written, Returned, Poller
    <2>. QED
        BY <2>2 DEF Returns
<1>8. CASE UpdateTips(n) \/ RefreshTree(n)
    BY <1>1, <1>8 DEF UpdateTips, RefreshTree, ThenMetrics, Poller
<1>9. CASE ComputeMetrics(n)
    BY <1>1, <1>9 DEF ComputeMetrics, Poller
<1>10. CASE Publish(n)
    <2>1. poller'[n].step \in Returns
        BY <1>1, <1>10 DEF Publish, Returned, Poller
    <2>. QED
        BY <2>1 DEF Returns
<1>. QED
    BY <1>2, <1>3, <1>4, <1>5, <1>6, <1>7, <1>8, <1>9, <1>10 DEF PollerStep

LEMMA PollerStaysReplayable ==
    ASSUME TypeOK, TreeInv, ReplayInv, NEW n \in Node, PollerStep(n), NEW m \in Node
    PROVE  Replayable(m)'
<1> USE DEF At
<1>1. /\ poller \in [Node -> Poller] /\ poller[n] \in Poller /\ poller[m] \in Poller
      /\ behind \in [Node -> Nat] /\ Replayable(m)
    BY DEF TypeOK, ReplayInv
<1>2. /\ job' = job /\ recent' = recent
      /\ Index \subseteq DOMAIN tree' /\ \A b \in Index : tree'[b] = tree[b]
    BY PollerReplays, TreeFilled
<1>3. ASSUME poller'[m].step \notin {"forks", "refresh"}
      PROVE  Replayable(m)'
    BY <1>3 DEF Replayable
<1>4. CASE m # n
    <2>1. poller'[m] = poller[m] /\ behind'[m] = behind[m]
        BY <1>4, OtherPollers, PollerReplays
    <2>. QED
        BY <1>1, <1>2, <2>1, StaysReplayable
<1>5. CASE m = n /\ SerializeTree(n)
    <2>1. poller'[n].snapshot = tree /\ behind'[n] = 0 /\ tree' = tree
        BY <1>1, <1>5 DEF SerializeTree, Poller
    <2>2. Len(recent) \in Nat
        BY DEF TypeOK
    <2>. QED
        BY <1>2, <1>5, <2>1, <2>2 DEF Replayable
<1>6. CASE m = n /\ TakeForks(n)
    <2>1. /\ poller'[n].snapshot = poller[n].snapshot /\ poller[n].step = "forks"
          /\ behind' = behind
        BY <1>1, <1>6 DEF TakeForks, ghostVars, Poller
    <2>. QED
        BY <1>1, <1>2, <1>6, <2>1, StaysReplayable
<1>7. CASE m = n /\ ~SerializeTree(n) /\ ~TakeForks(n)
    <2>1. poller'[n].step \notin {"forks", "refresh"}
        BY <1>7, NotReplayable
    <2>. QED
        BY <1>3, <1>7, <2>1
<1>. QED
    BY <1>4, <1>5, <1>6, <1>7

LEMMA ShowKeepsReplayable ==
    ASSUME TypeOK, TreeInv, ReplayInv, ShowMiner, NEW m \in Node
    PROVE  Replayable(m)'
<1>1. /\ UNCHANGED <<tree, poller>> /\ recent' = Remembered /\ job' = NoJob /\ job.step = "show"
      /\ behind' = Counted
    BY DEF ShowMiner
<1>2. JobKept /\ Replayable(m) /\ behind[m] \in Nat /\ Len(recent) \in Nat
    BY DEF TreeInv, ReplayInv, TypeOK
<1>3. job # NoJob /\ tree[job.header] = job.miner /\ Len(Remembered) \in Nat
    <2>1. job # NoJob /\ tree[job.header] = job.miner
        BY <1>1, <1>2, JobUnderWay DEF JobKept
    <2>2. Len(Remembered) \in Nat
        BY <2>1, RememberedType
    <2>. QED
        BY <2>1, <2>2
<1>4. SUFFICES ASSUME poller[m].step \in {"forks", "refresh"}, behind'[m] <= RecentLimit
      PROVE  /\ behind'[m] <= Len(Remembered)
             /\ \A b \in DOMAIN poller[m].snapshot :
                   tree[b] = "pool" /\ poller[m].snapshot[b] # "pool" =>
                     \E i \in 1 .. Len(Remembered) :
                         i > Len(Remembered) - behind'[m] /\ Remembered[i] = <<b, "pool">>
    BY <1>1 DEF Replayable
<1>5. behind'[m] = behind[m] + 1 /\ behind[m] < RecentLimit
    <2>1. CASE behind[m] <= RecentLimit
        BY <1>1, <1>2, <1>4, <2>1, CacheAssumption DEF Counted
    <2>2. CASE ~(behind[m] <= RecentLimit)
        BY <1>1, <1>2, <1>4, <2>2 DEF Counted
    <2>. QED
        BY <2>1, <2>2
<1>6. PICK d \in {0, 1} :
          /\ Len(Remembered) = Len(recent) + 1 - d /\ (d = 1 => Len(recent) = RecentLimit)
          /\ \A i \in 1 .. Len(Remembered) :
                /\ i + d <= Len(recent) => Remembered[i] = recent[i + d]
                /\ i + d = Len(recent) + 1 => Remembered[i] = <<job.header, job.miner>>
    BY <1>3, RememberedEntries
<1>7. /\ d \in {0, 1} /\ Len(Remembered) + d = Len(recent) + 1
      /\ behind[m] <= Len(recent) /\ (d = 1 => behind[m] < Len(recent))
    BY <1>2, <1>3, <1>4, <1>5, <1>6, CacheAssumption DEF Replayable
<1>8. behind'[m] <= Len(Remembered)
    BY <1>2, <1>3, <1>5, <1>7
<1>9. ASSUME NEW b \in DOMAIN poller[m].snapshot, tree[b] = "pool", poller[m].snapshot[b] # "pool"
      PROVE  \E i \in 1 .. Len(Remembered) :
                 i > Len(Remembered) - behind'[m] /\ Remembered[i] = <<b, "pool">>
    <2>1. CASE job.header = b
        <3>1. Len(Remembered) \in 1 .. Len(Remembered) /\ Len(Remembered) > Len(Remembered) - behind'[m]
            BY <1>2, <1>3, <1>5, <1>8
        <3>2. Remembered[Len(Remembered)] = <<b, "pool">>
            BY <1>3, <1>6, <1>7, <1>9, <2>1, <3>1
        <3>. QED
            BY <3>1, <3>2
    <2>2. CASE \E i \in 1 .. Len(recent) : i > Len(recent) - behind[m] /\ recent[i] = <<b, "pool">>
        <3>1. PICK i \in 1 .. Len(recent) : i > Len(recent) - behind[m] /\ recent[i] = <<b, "pool">>
            BY <2>2
        <3>2. /\ i - d \in 1 .. Len(Remembered) /\ (i - d) + d = i
              /\ i - d > Len(Remembered) - behind'[m]
            BY <1>2, <1>3, <1>5, <1>7, <3>1
        <3>3. Remembered[i - d] = recent[i]
            BY <1>6, <3>2
        <3>. QED
            BY <3>1, <3>2, <3>3
    <2>3. behind[m] <= RecentLimit
        BY <1>2, <1>5, CacheAssumption
    <2>. QED
        BY <1>2, <1>4, <1>9, <2>1, <2>2, <2>3 DEF Replayable
<1>. QED
    BY <1>8, <1>9

\* Before it is shown, a name changes neither the cache nor what is remembered.
LEMMA MinerKeepsReplayable ==
    ASSUME TypeOK, TreeInv, ReplayInv, MinerStep, ~ShowMiner
    PROVE  MinersReplayed' /\ \A m \in Node : Replayable(m)'
<1>1. /\ MinersReplayed /\ job \in Job /\ DOMAIN cached \subseteq Index
      /\ UNCHANGED <<poller, behind, recent, cached, outrun>>
    BY DEF ReplayInv, TreeInv, CacheKept, KeptIn, TypeOK, Index, MinerStep, TakeRequest, Identify,
           SaveMiner, SaveMinerFails, Unshared, cacheVars, ghostVars
<1>2. ASSUME NEW m \in Node
      PROVE  DOMAIN poller[m].snapshot \subseteq Index /\ Replayable(m)
    BY DEF TreeInv, PollerKept, KeptIn, Index, ReplayInv
<1>3. Index \subseteq Block
    BY HeldDef DEF TypeOK, Index
<1>4. /\ job.header \in Index => job'.header = job.header
      /\ DOMAIN tree' = Index
      /\ \A b \in Index : tree'[b] = tree[b] \/ job'.header = b
    <2>1. CASE \E b \in queue : TakeRequest(b)
        <3>1. job.step = "take" /\ tree' = tree
            BY <2>1 DEF TakeRequest, Unshared
        <3>2. job = NoJob
            BY <1>1, <3>1 DEF Job
        <3>. QED
            BY <1>3, <3>1, <3>2, CacheAssumption DEF NoJob, Index
    <2>2. CASE \E name \in {"Unknown", "pool"} : Identify(name)
        <3>1. PICK name \in {"Unknown", "pool"} : Identify(name)
            BY <2>2
        <3>2. /\ job.step = "ask" /\ job' = [job EXCEPT !.step = "save", !.miner = name]
              /\ tree' = [tree EXCEPT ![job.header] = name]
            BY <3>1 DEF Identify
        <3>3. job'.header = job.header
            BY <1>1, <3>2 DEF Job, NoJob
        <3>. QED
            BY <3>2, <3>3 DEF Index
    <2>3. CASE SaveMiner \/ SaveMinerFails
        <3>1. UNCHANGED tree /\ job' = [job EXCEPT !.step = "show"]
            BY <2>3 DEF SaveMiner, SaveMinerFails
        <3>2. job'.header = job.header
            BY <1>1, <3>1 DEF Job, NoJob
        <3>. QED
            BY <3>1, <3>2 DEF Index
    <2>. QED
        BY <2>1, <2>2, <2>3 DEF MinerStep
<1>5. MinersReplayed'
    BY <1>1, <1>4, Zenon DEF MinersReplayed
<1>6. ASSUME NEW m \in Node
      PROVE  Replayable(m)'
    <2>1. SUFFICES ASSUME poller[m].step \in {"forks", "refresh"}, behind[m] <= RecentLimit,
                          NEW b \in DOMAIN poller[m].snapshot,
                          tree'[b] = "pool", poller[m].snapshot[b] # "pool", job'.header # b
                   PROVE  \E i \in 1 .. Len(recent) :
                              i > Len(recent) - behind[m] /\ recent[i] = <<b, "pool">>
        BY <1>1, <1>2 DEF Replayable
    <2>2. b \in Index /\ tree[b] = "pool" /\ job.header # b
        BY <1>2, <1>4, <2>1
    <2>. QED
        BY <1>2, <2>1, <2>2 DEF Replayable
<1>. QED
    BY <1>5, <1>6

LEMMA ReplayStep ==
    ASSUME TypeOK, TreeInv, ReplayInv, [Next]_vars
    PROVE  ReplayInv'
<1>1. MinersReplayed /\ PoolLast /\ EntryCorrected /\ DOMAIN cached \subseteq Index
    BY DEF ReplayInv, TreeInv, CacheKept, KeptIn, Index
<1>2. CASE \E n \in Node : PollerStep(n)
    <2>1. PICK n \in Node : PollerStep(n)
        BY <1>2
    <2>2. PoolLast' /\ EntryCorrected' /\ \A m \in Node : Replayable(m)'
        BY <1>1, <2>1, PollerKeepsEntries, PollerStaysReplayable
    <2>3. CASE RefreshTree(n)
        BY <2>2, <2>3, RefreshReplays DEF ReplayInv
    <2>4. CASE ~RefreshTree(n)
        <3>1. UNCHANGED <<cached, outrun, job>> /\ \A b \in Index : tree'[b] = tree[b]
            BY <2>1, <2>4, PollerReplays, TreeFilled
        <3>2. MinersReplayed'
            BY <1>1, <3>1, Zenon DEF MinersReplayed
        <3>. QED
            BY <2>2, <3>2 DEF ReplayInv
    <2>. QED
        BY <2>3, <2>4
<1>3. CASE MinerStep /\ ~ShowMiner
    BY <1>1, <1>3, MinerKeepsEntries, MinerKeepsReplayable DEF ReplayInv
<1>4. CASE ShowMiner
    <2>1. PoolLast' /\ EntryCorrected' /\ \A m \in Node : Replayable(m)'
        BY <1>1, <1>4, MinerKeepsEntries, ShowKeepsReplayable DEF MinerStep
    <2>2. /\ UNCHANGED <<tree, outrun>> /\ job.step = "show" /\ JobKept
          /\ cached' = [b \in DOMAIN cached |-> IF b = job.header THEN job.miner ELSE cached[b]]
        BY <1>4 DEF ShowMiner, TreeInv
    <2>3. tree[job.header] = job.miner
        BY <2>2 DEF JobKept
    <2>4. DOMAIN cached' = DOMAIN cached
          /\ \A b \in DOMAIN cached :
                \/ cached'[b] = tree[b]
                \/ cached'[b] = cached[b] /\ job.header # b
        BY <2>2, <2>3
    <2>5. MinersReplayed'
        BY <1>1, <2>2, <2>4, Zenon DEF MinersReplayed
    <2>. QED
        BY <2>1, <2>5 DEF ReplayInv
<1>5. CASE Restart
    <2>1. tree' = cached' /\ recent' = <<>> /\ poller' = [n \in Node |-> Sleeping]
        BY <1>5 DEF Restart, Populated
    <2>. QED
        BY <2>1 DEF ReplayInv, PoolLast, EntryCorrected, MinersReplayed, Replayable, Sleeping
<1>6. CASE Backfill \/ UNCHANGED vars
    <2>1. UNCHANGED <<tree, cached, recent, poller, job, behind, outrun>>
        BY <1>6 DEF Backfill, vars, cacheVars, minerVars, ghostVars
    <2>2. MinersReplayed'
        BY <1>1, <2>1, Zenon DEF MinersReplayed
    <2>3. PoolLast' /\ EntryCorrected' /\ \A m \in Node : Replayable(m)'
        BY <2>1 DEF ReplayInv, PoolLast, EntryCorrected, Replayable, Index
    <2>. QED
        BY <2>2, <2>3 DEF ReplayInv
<1>. QED
    BY <1>2, <1>3, <1>4, <1>5, <1>6 DEF Next

\* "Recent miner updates are replayed when refreshing the cache" (recent_miners in types.rs,
\* replayed by update_cache): a pool name that was shown is served from then on, however
\* old the tree a refresh brings, unless more miners than are remembered were identified
\* since that tree was serialized.
THEOREM MinersReplayedCorrect == Spec => []MinersReplayed
<1>1. Init => ReplayInv
    <2> SUFFICES ASSUME Init PROVE ReplayInv
        OBVIOUS
    <2>1. DOMAIN cached = {} /\ recent = <<>> /\ \A n \in Node : poller[n].step = "sleep"
        BY DEF Init, NoHeaders, Sleeping
    <2>. QED
        BY <2>1 DEF ReplayInv, PoolLast, EntryCorrected, MinersReplayed, Replayable
<1>2. ReplayInv => MinersReplayed
    BY DEF ReplayInv
<1>. QED
    BY <1>1, <1>2, TreeCorrect, ReplayStep, PTL DEF Spec

=============================================================================
