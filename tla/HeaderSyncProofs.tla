-------------------------- MODULE HeaderSyncProofs --------------------------
(***************************************************************************)
(* Theorems about HeaderSync for every set of nodes, every block tree and  *)
(* every value of the bounds: the types and the range of a repair; nothing *)
(* found is dropped between the tasks; a fetch during which its node does  *)
(* not change finds all its tips; and HeaderSync implements HeaderStore.   *)
(***************************************************************************)
EXTENDS HeaderSync, HeaderTreeProofs, SequenceTheorems, TLAPS

-----------------------------------------------------------------------------
(* What the operators on the tree return.                                  *)

\* Inserting headers into a tree with all its edges gives one with all its edges.
LEMMA InsertKeepsEdgesComplete ==
    ASSUME NEW nodes, NEW headers
    PROVE  InsertEdges(LinksInto(nodes, nodes), nodes, headers)
             = LinksInto(nodes \cup headers, nodes \cup headers)
  BY DEF InsertEdges, InsertNodes, LinksInto, LinksOutOf

\* The edges of a tree with all its edges connect blocks.
LEMMA LinksType ==
    ASSUME NEW nodes \in SUBSET Block
    PROVE  LinksInto(nodes, nodes) \subseteq Block \X Block
  BY BlockAssumption DEF LinksInto

\* What a node reports has the type of a set of tips.
LEMMA TipsType ==
    ASSUME NEW n \in Node, known \in [Node -> SUBSET Block], active \in [Node -> Block]
    PROVE  Tips(n) \in SUBSET [hash : Block, branchlen : Nat]
<1>1. ASSUME NEW b \in Block
      PROVE  Cardinality(Branch[b] \ Branch[active[n]]) \in Nat
  BY BranchAssumption, FS_CardinalityType, FS_Difference
<1> DEFINE leaves == {b \in known[n] : \A c \in known[n] : Parent[c] # b}
           reported == {active[n]} \cup (IF ReportsForks(n) THEN leaves ELSE {})
<1>2. reported \subseteq Block
  OBVIOUS
<1>3. Tips(n) = {[hash |-> b, branchlen |-> Cardinality(Branch[b] \ Branch[active[n]])] :
                    b \in reported}
  BY DEF Tips
<1> HIDE DEF reported
<1> DEFINE branchlen(b) == Cardinality(Branch[b] \ Branch[active[n]])
<1>4. \A b \in Block : branchlen(b) \in Nat
  BY <1>1
<1>5. Tips(n) = {[hash |-> b, branchlen |-> branchlen(b)] : b \in reported}
  BY <1>3
<1> HIDE DEF branchlen
<1>6. QED
  BY <1>2, <1>4, <1>5

\* The walks of a fetch and of a repair start from a block with a length.
LEMMA WalksType ==
    ASSUME TypeOK
    PROVE  /\ \A n \in Node : SideTips(Tips(n)) \in SUBSET [hash : Block, left : Nat]
           /\ RootsToRepair \in SUBSET [hash : Block, left : Nat]
<1>1. ASSUME NEW n \in Node
      PROVE  SideTips(Tips(n)) \in SUBSET [hash : Block, left : Nat]
  <2>1. Tips(n) \in SUBSET [hash : Block, branchlen : Nat]
    BY TipsType DEF TypeOK
  <2>2. QED
    BY <2>1 DEF SideTips
<1>2. RootsToRepair \in SUBSET [hash : Block, left : Nat]
  BY BlockAssumption DEF RootsToRepair, UnexpectedRoots, TypeOK, Tracked
<1>3. QED
  BY <1>1, <1>2

\* A progress batch extends a channel of batches.
LEMMA SendType ==
    ASSUME channel \in [Node -> Seq(SUBSET Tracked)],
           NEW n \in Node, NEW batch \in SUBSET Tracked, Send(n, batch)
    PROVE  channel' \in [Node -> Seq(SUBSET Tracked)]
  BY DEF Send, Set

\* Inserted headers are tracked and linked to blocks.
LEMMA InsertType ==
    ASSUME index \in SUBSET Tracked, edges \in SUBSET (Block \X Block),
           NEW headers \in SUBSET Tracked, InsertHeaders(headers)
    PROVE  index' \in SUBSET Tracked /\ edges' \in SUBSET (Block \X Block)
  BY DEF InsertHeaders, InsertNodes, InsertEdges, LinksInto, LinksOutOf, Tracked

-----------------------------------------------------------------------------
(* Type correctness.  A walk by hash must not run below genesis, which is  *)
(* what RepairInRange adds to TypeOK.                                      *)

\* Every step of every task keeps the types.
LEMMA TypeInductive ==
    ASSUME TypeOK, RepairInRange, [Next]_vars
    PROVE  TypeOK'
<1> USE DEF nodeVars, treeVars, storeVars, walkVars, taskVars, pollVars, worldVars,
            Goto, Set, Steps, Fetching, Repairing, NoWalk
<1>1. ASSUME NEW n \in Node, TickChanged(n) PROVE TypeOK'
  <2>1. Tips(n) \in SUBSET [hash : Block, branchlen : Nat]
    BY TipsType DEF TypeOK
  <2>2. SideTips(Tips(n)) \in SUBSET [hash : Block, left : Nat]
    BY WalksType
  <2>3. Height[active[n]] \in Int
    BY BlockAssumption DEF TypeOK
  <2>4. QED
    BY <1>1, <2>1, <2>2, <2>3 DEF TypeOK, TickChanged
<1>2. ASSUME NEW n \in Node, TickUnchanged(n) PROVE TypeOK'
  BY <1>2 DEF TypeOK, TickUnchanged
<1>3. ASSUME NEW n \in Node, FetchHeight(n) PROVE TypeOK'
  <2>1. PICK b \in HeaderAt(n, query[n]) \ index : FetchHeight(n)!3!(b)
    BY <1>3 DEF FetchHeight
  <2>2. b \in Tracked
    BY BlockAssumption, BranchAssumption, <1>3, <2>1 DEF FetchHeight, HeaderAt, Tracked, TypeOK
  <2>3. buffer' \in [Node -> SUBSET Tracked] /\ channel' \in [Node -> Seq(SUBSET Tracked)]
    BY <2>1, <2>2, SendType DEF TypeOK
  <2>4. fresh' \in [Node -> SUBSET Tracked]
    BY <2>1, <2>2 DEF TypeOK
  <2>5. query' \in [Node -> Int]
    BY <1>3 DEF FetchHeight, TypeOK
  <2>6. UNCHANGED <<worldVars, pc, lastTips, tips, walk, todo, writing>>
    BY <1>3 DEF FetchHeight
  <2>7. QED
    BY <2>3, <2>4, <2>5, <2>6 DEF TypeOK
<1>4. ASSUME NEW n \in Node, HeightsDone(n) PROVE TypeOK'
  <2>1. channel' \in [Node -> Seq(SUBSET Tracked)]
    BY <1>4, SendType DEF HeightsDone, TypeOK
  <2>2. QED
    BY <1>4, <2>1 DEF TypeOK, HeightsDone, ActiveChainDone
<1>5. ASSUME NEW n \in Node, BatchLookup(n) PROVE TypeOK'
  BY BlockAssumption, BranchAssumption, <1>5 DEF TypeOK, BatchLookup, HeaderAt
<1>6. ASSUME NEW n \in Node, FetchBatch(n) PROVE TypeOK'
  <2>1. BatchStart(n) \in Int /\ BatchStart(n) >= FirstTracked
    BY BlockAssumption, SyncAssumption DEF BatchStart, TypeOK
  <2>2. BatchAnswer(n) \subseteq Tracked
    BY BlockAssumption, BranchAssumption, <2>1 DEF BatchAnswer, Tracked, TypeOK
  <2>3. channel' \in [Node -> Seq(SUBSET Tracked)]
    BY <1>6, <2>2, SendType DEF FetchBatch, TypeOK
  <2>4. fresh[n] \cup (BatchAnswer(n) \ index) \in SUBSET Tracked
    BY <2>2 DEF TypeOK
  <2>5. /\ query' \in [Node -> Int]
        /\ fresh' \in [Node -> SUBSET Tracked]
        /\ pc' \in [Node -> Steps]
    <3> DEFINE unknown == BatchAnswer(n) \ index
    <3>1. CASE ActiveChainDone(n, fresh[n] \cup unknown) /\ UNCHANGED query
      BY <2>4, <3>1 DEF ActiveChainDone, TypeOK
    <3>2. CASE /\ Goto(n, "active")
               /\ fresh' = Set(fresh, n, fresh[n] \cup unknown)
               /\ query' = Set(query, n, query[n] - BatchStep)
      BY SyncAssumption, <2>4, <3>2 DEF TypeOK
    <3>3. QED
      BY <1>6, <3>1, <3>2 DEF FetchBatch
  <2>6. walk' \in [Node -> [hash : Block \cup {NoBlock}, left : Nat]]
    BY <1>6 DEF FetchBatch, TypeOK
  <2>7. UNCHANGED <<worldVars, lastTips, tips, todo, buffer, writing>>
    BY <1>6 DEF FetchBatch
  <2>8. QED
    BY <2>3, <2>5, <2>6, <2>7 DEF TypeOK
<1>7. ASSUME NEW n \in Node, BatchesDone(n) PROVE TypeOK'
  BY <1>7 DEF TypeOK, BatchesDone, ActiveChainDone
<1>8. ASSUME NEW n \in Node, PickBranch(n) PROVE TypeOK'
  BY <1>8 DEF TypeOK, PickBranch
<1>9. ASSUME NEW n \in Node, WalkBranch(n) PROVE TypeOK'
  <2>1. walk[n].hash \in Tracked /\ walk[n].left - 1 \in Nat /\ walk[n].hash \in Block
    BY <1>9 DEF WalkBranch, BranchContinues, TypeOK, Tracked
  <2>2. [hash |-> Parent[walk[n].hash], left |-> walk[n].left - 1]
          \in [hash : Block \cup {NoBlock}, left : Nat]
    BY BlockAssumption, <2>1
  <2>3. walk' \in [Node -> [hash : Block \cup {NoBlock}, left : Nat]]
    BY <1>9, <2>2 DEF TypeOK, WalkBranch
  <2>4. buffer' \in [Node -> SUBSET Tracked] /\ fresh' \in [Node -> SUBSET Tracked]
    BY <1>9, <2>1 DEF TypeOK, WalkBranch
  <2>5. QED
    BY <1>9, <2>3, <2>4 DEF TypeOK, WalkBranch
<1>10. ASSUME NEW n \in Node, BranchDone(n) PROVE TypeOK'
  <2>1. channel' \in [Node -> Seq(SUBSET Tracked)]
    BY <1>10, SendType DEF BranchDone, TypeOK
  <2>2. QED
    BY <1>10, <2>1 DEF TypeOK, BranchDone
<1>11. ASSUME NEW n \in Node, BranchesDone(n) PROVE TypeOK'
  BY <1>11 DEF TypeOK, BranchesDone
<1>12. ASSUME NEW n \in Node, FinishFetch(n) PROVE TypeOK'
  BY <1>12 DEF TypeOK, FinishFetch, ForgetWalk
<1>13. ASSUME NEW n \in Node, FetchBeyondTip(n) PROVE TypeOK'
  BY <1>13 DEF TypeOK, FetchBeyondTip, AbandonFetch, ForgetWalk
<1>14. ASSUME NEW n \in Node, EndAbandoned(n) PROVE TypeOK'
  BY <1>14 DEF TypeOK, EndAbandoned
<1>15. ASSUME NEW n \in Node, NothingToRepair(n) PROVE TypeOK'
  BY <1>15 DEF TypeOK, NothingToRepair
<1>16. ASSUME NEW n \in Node, StartRepair(n) PROVE TypeOK'
  BY <1>16, WalksType DEF TypeOK, StartRepair
<1>17. ASSUME NEW n \in Node, PickRoot(n) PROVE TypeOK'
  <2>1. PICK w \in todo[n] :
          /\ todo' = [todo EXCEPT ![n] = todo[n] \ {w}]
          /\ \E b \in HeaderAt(n, Height[w.hash]) :
                IF b = w.hash
                THEN /\ pc' = [pc EXCEPT ![n] = "mend_height"]
                     /\ query' = [query EXCEPT ![n] = Height[b] - 1]
                     /\ UNCHANGED walk
                ELSE /\ pc' = [pc EXCEPT ![n] = "mend_hash"]
                     /\ walk' = [walk EXCEPT ![n] = [hash |-> Parent[w.hash], left |-> w.left]]
                     /\ UNCHANGED query
    BY <1>17 DEF PickRoot
  <2>2. w \in [hash : Block, left : Nat]
    BY DEF TypeOK
  <2>3. [hash |-> Parent[w.hash], left |-> w.left] \in [hash : Block \cup {NoBlock}, left : Nat]
    BY BlockAssumption, <2>2
  <2>4. todo' \in [Node -> SUBSET [hash : Block, left : Nat]]
    BY <2>1 DEF TypeOK
  <2>5. /\ pc' \in [Node -> Steps]
        /\ query' \in [Node -> Int]
        /\ walk' \in [Node -> [hash : Block \cup {NoBlock}, left : Nat]]
    <3>1. CASE /\ pc' = [pc EXCEPT ![n] = "mend_height"]
               /\ query' = [query EXCEPT ![n] = Height[w.hash] - 1]
               /\ UNCHANGED walk
      BY BlockAssumption, <3>1, <2>2 DEF TypeOK
    <3>2. CASE /\ pc' = [pc EXCEPT ![n] = "mend_hash"]
               /\ walk' = [walk EXCEPT ![n] = [hash |-> Parent[w.hash], left |-> w.left]]
               /\ UNCHANGED query
      BY <3>2, <2>3 DEF TypeOK
    <3>3. QED
      BY <2>1, <3>1, <3>2
  <2>6. UNCHANGED <<worldVars, lastTips, tips, buffer, fresh, taskVars>>
    BY <1>17 DEF PickRoot
  <2>7. QED
    BY <2>4, <2>5, <2>6 DEF TypeOK
<1>18. ASSUME NEW n \in Node, MendHeight(n) PROVE TypeOK'
  <2>1. \A b \in HeaderAt(n, query[n]) : b \in Tracked
    BY BlockAssumption, BranchAssumption, <1>18 DEF MendHeight, HeaderAt, Tracked, TypeOK
  <2>2. fresh' \in [Node -> SUBSET Tracked]
    BY <1>18, <2>1 DEF MendHeight, TypeOK
  <2>3. QED
    BY <1>18, <2>2 DEF TypeOK, MendHeight
<1>19. ASSUME NEW n \in Node, MendHash(n) PROVE TypeOK'
  <2> DEFINE b == walk[n].hash
  <2>1. b \in Tracked /\ walk[n].left - 1 \in Nat
    BY BlockAssumption, <1>19 DEF MendHash, HashWalkContinues, TypeOK, RepairInRange, Tracked
  <2>2. [hash |-> Parent[b], left |-> walk[n].left - 1] \in [hash : Block \cup {NoBlock}, left : Nat]
    BY BlockAssumption, SyncAssumption, <2>1 DEF Tracked
  <2>3. /\ fresh' = Set(fresh, n, fresh[n] \cup {b})
        /\ walk' = Set(walk, n, [hash |-> Parent[b], left |-> walk[n].left - 1])
        /\ UNCHANGED <<worldVars, pc, lastTips, tips, query, todo, buffer, taskVars>>
    BY <1>19 DEF MendHash
  <2>4. QED
    BY <2>1, <2>2, <2>3 DEF TypeOK
<1>20. ASSUME NEW n \in Node, RootDone(n) PROVE TypeOK'
  BY <1>20 DEF TypeOK, RootDone
<1>21. ASSUME NEW n \in Node, StoreRepair(n) PROVE TypeOK'
  <2>1. index' \in SUBSET Tracked /\ edges' \in SUBSET (Block \X Block)
    BY <1>21, InsertType DEF StoreRepair, TypeOK
  <2>2. QED
    BY <1>21, <2>1 DEF TypeOK, StoreRepair
<1>22. ASSUME NEW n \in Node, RepairFoundNothing(n) PROVE TypeOK'
  BY <1>22 DEF TypeOK, RepairFoundNothing, ForgetWalk
<1>23. ASSUME NEW n \in Node, FinishRepair(n) PROVE TypeOK'
  BY <1>23 DEF TypeOK, FinishRepair, ForgetWalk
<1>24. ASSUME NEW n \in Node, RepairRefused(n) PROVE TypeOK'
  BY <1>24 DEF TypeOK, RepairRefused, AbandonRepair, ForgetWalk
<1>25. ASSUME NEW n \in Node, StoreBatch(n) PROVE TypeOK'
  <2>1. Head(channel[n]) \in SUBSET Tracked /\ Tail(channel[n]) \in Seq(SUBSET Tracked)
    BY <1>25 DEF StoreBatch, TypeOK
  <2>2. index' \in SUBSET Tracked /\ edges' \in SUBSET (Block \X Block)
    BY <1>25, <2>1, InsertType DEF StoreBatch, TypeOK
  <2>3. QED
    BY <1>25, <2>1, <2>2 DEF TypeOK, StoreBatch
<1>26. ASSUME NEW n \in Node, WriteRows(n) PROVE TypeOK'
  BY <1>26 DEF TypeOK, WriteRows
<1>27. ASSUME NEW n \in Node, FetchCallFails(n) PROVE TypeOK'
  BY <1>27 DEF TypeOK, FetchCallFails, AbandonFetch, ForgetWalk
<1>28. ASSUME NEW n \in Node, RepairCallFails(n) PROVE TypeOK'
  BY <1>28 DEF TypeOK, RepairCallFails, AbandonRepair, ForgetWalk
<1>29. ASSUME NEW n \in Node, WriteFails(n) PROVE TypeOK'
  BY <1>29 DEF TypeOK, WriteFails
<1>30. ASSUME NEW n \in Node, NEW b \in Block, NodeAccepts(n, b) PROVE TypeOK'
  BY <1>30 DEF TypeOK, NodeAccepts, NodeChanges
<1>31. ASSUME NEW n \in Node, NEW b \in Block, NodeSwitches(n, b) PROVE TypeOK'
  BY <1>31 DEF TypeOK, NodeSwitches, NodeChanges
<1>32. CASE Restart
  BY <1>32 DEF TypeOK, Restart, LoadedNodes, LoadedEdges, LinksInto, Tracked
<1>33. CASE UNCHANGED vars
  BY <1>33 DEF TypeOK, vars
<1>34. QED
  BY <1>1, <1>2, <1>3, <1>4, <1>5, <1>6, <1>7, <1>8, <1>9, <1>10, <1>11, <1>12, <1>13, <1>14, <1>15, <1>16, <1>17, <1>18, <1>19, <1>20, <1>21, <1>22, <1>23, <1>24, <1>25, <1>26, <1>27, <1>28, <1>29, <1>30, <1>31, <1>32, <1>33
     DEF Next, Poller, Storer, Environment, Tick, Fetch, Repair

\* No step of a repair leaves the tracked range.
LEMMA RangeInductive ==
    ASSUME TypeOK, RepairInRange, [Next]_vars
    PROVE  RepairInRange'
<1> USE DEF nodeVars, treeVars, storeVars, walkVars, taskVars, pollVars, worldVars,
            Goto, Set, Repairing
<1> DEFINE InRange(step, roots, w) ==
      /\ step \in Repairing => \A r \in roots : r.left > 0 /\ r.left = Height[r.hash] - FirstTracked
      /\ step = "mend_hash" /\ w.left > 0 =>
            w.hash \in Block /\ w.left = Height[w.hash] - FirstTracked + 1
<1>1. RepairInRange <=> \A n \in Node : InRange(pc[n], todo[n], walk[n])
  BY DEF RepairInRange
<1>2. RepairInRange' <=> \A n \in Node : InRange(pc'[n], todo'[n], walk'[n])
  BY DEF RepairInRange
<1> HIDE DEF InRange
<1>3. ASSUME UNCHANGED <<pc, todo, walk>> PROVE RepairInRange'
  BY <1>1, <1>2, <1>3
<1>4. ASSUME NEW n \in Node, InRange(pc'[n], todo'[n], walk'[n]),
             \A m \in Node \ {n} : pc'[m] = pc[m] /\ todo'[m] = todo[m] /\ walk'[m] = walk[m]
      PROVE  RepairInRange'
  BY <1>1, <1>2, <1>4
<1>5. \A step \in Steps \ Repairing : \A roots, w : InRange(step, roots, w)
  BY DEF InRange
<1>6. ASSUME NEW n \in Node, NEW step \in Steps \ Repairing, Goto(n, step),
             \A m \in Node \ {n} : todo'[m] = todo[m] /\ walk'[m] = walk[m]
      PROVE  RepairInRange'
  BY <1>4, <1>5, <1>6 DEF TypeOK
<1>7. ASSUME NEW n \in Node,
             FetchHeight(n) \/ MendHeight(n) \/ StoreBatch(n) \/ WriteRows(n) \/ WriteFails(n)
      PROVE  RepairInRange'
  BY <1>3, <1>7 DEF FetchHeight, MendHeight, StoreBatch, WriteRows, WriteFails
<1>8. ASSUME NEW n \in Node, NEW b \in Block, NodeAccepts(n, b) \/ NodeSwitches(n, b)
      PROVE  RepairInRange'
  BY <1>3, <1>8 DEF NodeAccepts, NodeSwitches, NodeChanges
<1>9. ASSUME NEW n \in Node, TickChanged(n) PROVE RepairInRange'
  BY <1>6, <1>9 DEF TickChanged, Steps, Fetching, TypeOK
<1>10. ASSUME NEW n \in Node, TickUnchanged(n) PROVE RepairInRange'
  BY <1>6, <1>10 DEF TickUnchanged, Steps, Fetching, TypeOK
<1>11. ASSUME NEW n \in Node, HeightsDone(n) PROVE RepairInRange'
  BY <1>6, <1>11 DEF HeightsDone, ActiveChainDone, Steps, Fetching, TypeOK
<1>12. ASSUME NEW n \in Node, BatchLookup(n) PROVE RepairInRange'
  BY <1>6, <1>12 DEF BatchLookup, Steps, Fetching, TypeOK
<1>13. ASSUME NEW n \in Node, BatchesDone(n) PROVE RepairInRange'
  BY <1>6, <1>13 DEF BatchesDone, ActiveChainDone, Steps, Fetching, TypeOK
<1>14. ASSUME NEW n \in Node, PickBranch(n) PROVE RepairInRange'
  BY <1>6, <1>14 DEF PickBranch, Steps, Fetching, TypeOK
<1>15. ASSUME NEW n \in Node, BranchDone(n) PROVE RepairInRange'
  BY <1>6, <1>15 DEF BranchDone, Steps, Fetching, TypeOK
<1>16. ASSUME NEW n \in Node, BranchesDone(n) PROVE RepairInRange'
  BY <1>6, <1>16 DEF BranchesDone, Steps, Fetching, TypeOK
<1>17. ASSUME NEW n \in Node, FinishFetch(n) PROVE RepairInRange'
  BY <1>6, <1>17 DEF FinishFetch, ForgetWalk, Steps, Fetching, TypeOK
<1>18. ASSUME NEW n \in Node, FetchBeyondTip(n) PROVE RepairInRange'
  BY <1>6, <1>18 DEF FetchBeyondTip, AbandonFetch, ForgetWalk, Steps, Fetching, TypeOK
<1>19. ASSUME NEW n \in Node, FetchCallFails(n) PROVE RepairInRange'
  BY <1>6, <1>19 DEF FetchCallFails, AbandonFetch, ForgetWalk, Steps, Fetching, TypeOK
<1>20. ASSUME NEW n \in Node, EndAbandoned(n) PROVE RepairInRange'
  BY <1>6, <1>20 DEF EndAbandoned, Steps, Fetching, TypeOK
<1>21. ASSUME NEW n \in Node, NothingToRepair(n) PROVE RepairInRange'
  BY <1>6, <1>21 DEF NothingToRepair, Steps, Fetching, TypeOK
<1>22. ASSUME NEW n \in Node, StoreRepair(n) PROVE RepairInRange'
  BY <1>6, <1>22 DEF StoreRepair, Steps, Fetching, TypeOK
<1>23. ASSUME NEW n \in Node, RepairFoundNothing(n) PROVE RepairInRange'
  BY <1>6, <1>23 DEF RepairFoundNothing, ForgetWalk, Steps, Fetching, TypeOK
<1>24. ASSUME NEW n \in Node, FinishRepair(n) PROVE RepairInRange'
  BY <1>6, <1>24 DEF FinishRepair, ForgetWalk, Steps, Fetching, TypeOK
<1>25. ASSUME NEW n \in Node, RepairRefused(n) PROVE RepairInRange'
  BY <1>6, <1>25 DEF RepairRefused, AbandonRepair, ForgetWalk, Steps, Fetching, TypeOK
<1>26. ASSUME NEW n \in Node, RepairCallFails(n) PROVE RepairInRange'
  BY <1>6, <1>26 DEF RepairCallFails, AbandonRepair, ForgetWalk, Steps, Fetching, TypeOK
<1>27. ASSUME NEW n \in Node, FetchBatch(n) PROVE RepairInRange'
  <2>1. Goto(n, "branches") \/ Goto(n, "active")
    BY <1>27 DEF FetchBatch, ActiveChainDone
  <2>2. \A m \in Node \ {n} : todo'[m] = todo[m] /\ walk'[m] = walk[m]
    BY <1>27 DEF FetchBatch, TypeOK
  <2>3. QED
    BY <1>6, <2>1, <2>2 DEF Steps, Fetching
<1>28. ASSUME NEW n \in Node, WalkBranch(n) PROVE RepairInRange'
  <2>1. pc[n] = "branch" /\ UNCHANGED <<pc, todo>>
    BY <1>28 DEF WalkBranch, BranchContinues
  <2>2. \A m \in Node \ {n} : walk'[m] = walk[m]
    BY <1>28 DEF WalkBranch, TypeOK
  <2>3. QED
    BY <1>4, <1>5, <2>1, <2>2 DEF Steps, Fetching
<1>29. ASSUME NEW n \in Node, StartRepair(n) PROVE RepairInRange'
  <2>1. /\ pc'[n] = "roots" /\ todo'[n] = RootsToRepair
        /\ \A m \in Node \ {n} : pc'[m] = pc[m] /\ todo'[m] = todo[m]
        /\ UNCHANGED walk
    BY <1>29 DEF StartRepair, TypeOK
  <2>2. \A r \in RootsToRepair : r.left > 0 /\ r.left = Height[r.hash] - FirstTracked
    BY BlockAssumption DEF RootsToRepair, UnexpectedRoots, TypeOK, Tracked
  <2>3. QED
    BY <1>4, <2>1, <2>2 DEF InRange
<1>30. ASSUME NEW n \in Node, PickRoot(n) PROVE RepairInRange'
  <2>1. PICK w \in todo[n] :
          /\ todo' = [todo EXCEPT ![n] = todo[n] \ {w}]
          /\ \/ pc' = [pc EXCEPT ![n] = "mend_height"] /\ UNCHANGED walk
             \/ /\ pc' = [pc EXCEPT ![n] = "mend_hash"]
                /\ walk' = [walk EXCEPT ![n] = [hash |-> Parent[w.hash], left |-> w.left]]
    BY <1>30 DEF PickRoot
  <2>2. InRange("roots", todo[n], walk[n])
    BY <1>1, <1>30 DEF PickRoot
  <2>3. /\ w \in [hash : Block, left : Nat]
        /\ w.left > 0 /\ w.left = Height[w.hash] - FirstTracked
    BY <2>2 DEF InRange, TypeOK
  <2>4. Parent[w.hash] \in Block /\ w.left = Height[Parent[w.hash]] - FirstTracked + 1
    BY <2>3, BlockAssumption
  <2>5. \A m \in Node \ {n} : pc'[m] = pc[m] /\ todo'[m] = todo[m] /\ walk'[m] = walk[m]
    BY <2>1 DEF TypeOK
  <2>6. InRange(pc'[n], todo'[n], walk'[n])
    BY <2>1, <2>2, <2>4 DEF InRange, TypeOK
  <2>7. QED
    BY <1>4, <2>5, <2>6
<1>31. ASSUME NEW n \in Node, MendHash(n) PROVE RepairInRange'
  <2> DEFINE b == walk[n].hash
  <2>1. pc[n] = "mend_hash" /\ UNCHANGED <<pc, todo>>
    BY <1>31 DEF MendHash, HashWalkContinues
  <2>2. /\ b \in Block /\ walk[n].left \in Nat
        /\ walk[n].left = Height[b] - FirstTracked + 1
        /\ \A r \in todo[n] : r.left > 0 /\ r.left = Height[r.hash] - FirstTracked
    BY <1>31, <2>1 DEF MendHash, HashWalkContinues, RepairInRange, TypeOK
  <2>3. walk' = [walk EXCEPT ![n] = [hash |-> Parent[b], left |-> walk[n].left - 1]]
    BY <1>31 DEF MendHash
  <2>4. walk[n].left - 1 > 0 =>
          Parent[b] \in Block /\ walk[n].left - 1 = Height[Parent[b]] - FirstTracked + 1
    BY <2>2, BlockAssumption
  <2>5. walk'[n].hash = Parent[b] /\ walk'[n].left = walk[n].left - 1
    BY <2>3 DEF TypeOK
  <2>6. InRange(pc'[n], todo'[n], walk'[n])
    BY <2>1, <2>2, <2>4, <2>5 DEF InRange
  <2>7. QED
    BY <1>4, <2>1, <2>3, <2>6 DEF TypeOK
<1>32. ASSUME NEW n \in Node, RootDone(n) PROVE RepairInRange'
  <2>1. /\ pc[n] \in Repairing
        /\ pc' = [pc EXCEPT ![n] = "roots"]
        /\ UNCHANGED todo
        /\ walk' = [walk EXCEPT ![n] = NoWalk]
    BY <1>32 DEF RootDone, HashWalkContinues
  <2>2. InRange(pc'[n], todo'[n], walk'[n])
    BY <1>1, <2>1 DEF InRange, TypeOK
  <2>3. QED
    BY <1>4, <2>1, <2>2 DEF TypeOK
<1>33. ASSUME Restart PROVE RepairInRange'
  BY <1>33 DEF Restart, RepairInRange
<1>34. ASSUME UNCHANGED vars PROVE RepairInRange'
  BY <1>3, <1>34 DEF vars, pollVars
<1>35. QED
  BY <1>7, <1>8, <1>9, <1>10, <1>11, <1>12, <1>13, <1>14, <1>15, <1>16, <1>17, <1>18, <1>19, <1>20, <1>21, <1>22, <1>23, <1>24, <1>25, <1>26, <1>27, <1>28, <1>29, <1>30, <1>31, <1>32, <1>33, <1>34
     DEF Next, Poller, Storer, Environment, Tick, Fetch, Repair

\* Every variable keeps its type, and a repair the tracked range: invariants of
\* run header_sync.
THEOREM TypeCorrect == Spec => [](TypeOK /\ RepairInRange)
<1>1. Init => TypeOK /\ RepairInRange
  BY BlockAssumption, BranchAssumption, SyncAssumption, NodeAssumption
     DEF Init, TypeOK, RepairInRange, Steps, Repairing, NoWalk
<1>2. TypeOK /\ RepairInRange /\ [Next]_vars => (TypeOK /\ RepairInRange)'
  BY TypeInductive, RangeInductive
<1>3. QED
  BY <1>1, <1>2, PTL DEF Spec

-----------------------------------------------------------------------------
(* Few steps touch the tree, the database or a write.                      *)

LEMMA StoreSteps ==
    ASSUME [Next]_vars
    PROVE  \/ UNCHANGED <<index, edges, rows, lost, writing>>
           \/ Restart
           \/ \E n \in Node : StoreBatch(n) \/ StoreRepair(n) \/ WriteRows(n) \/ WriteFails(n)
<1> USE DEF nodeVars, treeVars, storeVars, walkVars, taskVars, pollVars, worldVars
<1>1. ASSUME NEW n \in Node, Tick(n) PROVE UNCHANGED <<index, edges, rows, lost, writing>>
  BY <1>1 DEF Tick, TickChanged, TickUnchanged
<1>2. ASSUME NEW n \in Node, Fetch(n) PROVE UNCHANGED <<index, edges, rows, lost, writing>>
  BY <1>2 DEF Fetch, FetchHeight, HeightsDone, BatchLookup, FetchBatch, BatchesDone, PickBranch,
              WalkBranch, BranchDone, BranchesDone, FinishFetch, FetchBeyondTip, AbandonFetch,
              EndAbandoned
<1>3. ASSUME NEW n \in Node, Repair(n), ~StoreRepair(n)
      PROVE  UNCHANGED <<index, edges, rows, lost, writing>>
  BY <1>3 DEF Repair, NothingToRepair, StartRepair, PickRoot, MendHeight, MendHash, RootDone,
              RepairFoundNothing, FinishRepair, RepairRefused, AbandonRepair
<1>4. ASSUME NEW n \in Node, Environment(n), ~WriteFails(n)
      PROVE  UNCHANGED <<index, edges, rows, lost, writing>>
  BY <1>4 DEF Environment, NodeAccepts, NodeSwitches, NodeChanges, FetchCallFails, RepairCallFails,
              AbandonFetch, AbandonRepair
<1>5. QED
  BY <1>1, <1>2, <1>3, <1>4 DEF Next, Poller, Storer, vars

-----------------------------------------------------------------------------
(* Handover, one poller at a time.                                         *)

Batches(ch) == UNION {ch[i] : i \in DOMAIN ch}

HandedOver(step, batched, buf, new, ch, wr, nodes) ==
    /\ wr \subseteq nodes
    /\ step \in Idle => ch = <<>>
    /\ step \in Idle \ {"persist"} => wr = {}
    /\ step = "persist" => new \subseteq nodes
    /\ step \in Fetching \cup {"drain"} => new \subseteq nodes \cup buf \cup Batches(ch)
    /\ step \in {"batch", "branches", "drain"} \/ (step = "active" /\ batched) => buf = {}

HandoverAt(n) ==
    HandedOver(pc[n], UsesBatches(n), buffer[n], fresh[n], channel[n], writing[n], index)

LEMMA HandoverByNode == Handover <=> \A n \in Node : HandoverAt(n)
  BY DEF Handover, HandoverAt, HandedOver, Sent, Batches

\* Appending a batch adds its headers to those in the channel.
LEMMA BatchesAppend ==
    ASSUME NEW S, NEW ch \in Seq(S), NEW batch \in S
    PROVE  Batches(Append(ch, batch)) = Batches(ch) \cup batch
<1> DEFINE longer == Append(ch, batch)
<1>1. /\ DOMAIN longer = 1 .. Len(ch) + 1
      /\ DOMAIN ch = 1 .. Len(ch)
      /\ \A i \in DOMAIN ch : longer[i] = ch[i]
      /\ longer[Len(ch) + 1] = batch
  OBVIOUS
<1>2. DOMAIN longer = DOMAIN ch \cup {Len(ch) + 1}
  BY <1>1
<1>3. QED
  BY <1>1, <1>2 DEF Batches

\* Taking the first batch removes no other header from the channel.
LEMMA BatchesTail ==
    ASSUME NEW S, NEW ch \in Seq(S), ch # <<>>
    PROVE  Batches(ch) \subseteq Head(ch) \cup Batches(Tail(ch))
<1> SUFFICES ASSUME NEW i \in DOMAIN ch, NEW x \in ch[i]
             PROVE  x \in Head(ch) \cup Batches(Tail(ch))
  BY DEF Batches
<1>1. CASE i = 1
  BY <1>1
<1>2. CASE i # 1
  <2>1. i - 1 \in DOMAIN Tail(ch) /\ Tail(ch)[i - 1] = ch[i]
    BY <1>2
  <2>2. QED
    BY <2>1 DEF Batches
<1>3. QED
  BY <1>1, <1>2

\* What an append to the channel of one poller leaves in it.
LEMMA SendAdds ==
    ASSUME channel \in [Node -> Seq(SUBSET Tracked)],
           NEW n \in Node, NEW batch \in SUBSET Tracked, Send(n, batch)
    PROVE  /\ Batches(channel'[n]) = Batches(channel[n]) \cup batch
           /\ \A m \in Node \ {n} : channel'[m] = channel[m]
<1>1. CASE batch = {}
  BY <1>1 DEF Send
<1>2. CASE batch # {}
  <2>1. channel'[n] = Append(channel[n], batch)
    BY <1>2 DEF Send, Set
  <2>2. Batches(channel'[n]) = Batches(channel[n]) \cup batch
    BY <2>1, BatchesAppend
  <2>3. QED
    BY <1>2, <2>2 DEF Send, Set
<1>3. QED
  BY <1>1, <1>2

\* A step of one poller that keeps the tree keeps the handover of the others.
LEMMA HandoverStep ==
    ASSUME Handover, NEW n \in Node, HandoverAt(n)', index \subseteq index',
           \A m \in Node \ {n} :
              /\ pc'[m] = pc[m] /\ buffer'[m] = buffer[m] /\ fresh'[m] = fresh[m]
              /\ channel'[m] = channel[m] /\ writing'[m] = writing[m]
    PROVE  Handover'
<1>1. ASSUME NEW m \in Node \ {n} PROVE HandoverAt(m)'
  <2>1. HandoverAt(m)
    BY HandoverByNode
  <2>2. QED
    BY <2>1 DEF HandoverAt, HandedOver, UsesBatches
<1>2. \A m \in Node : HandoverAt(m)'
  BY <1>1
<1>3. QED
  BY <1>2 DEF Handover, HandoverAt, HandedOver, Sent, Batches

\* Every step of every task keeps the handover.
LEMMA HandoverInductive ==
    ASSUME TypeOK, Handover, [Next]_vars
    PROVE  Handover'
<1> USE DEF nodeVars, treeVars, storeVars, walkVars, taskVars, pollVars, worldVars,
            Goto, Set, Steps, Idle, Fetching, Repairing
<1>0. \A n \in Node : HandoverAt(n)
  BY HandoverByNode
<1>1. ASSUME NEW n \in Node, TickChanged(n) PROVE Handover'
  <2>1. HandoverAt(n)'
    BY <1>1, <1>0 DEF TickChanged, HandoverAt, HandedOver, UsesBatches, TypeOK
  <2>2. QED
    BY <1>1, HandoverStep, <2>1 DEF TickChanged, TypeOK
<1>2. ASSUME NEW n \in Node, TickUnchanged(n) PROVE Handover'
  <2>1. HandoverAt(n)'
    BY <1>2, <1>0 DEF TickUnchanged, HandoverAt, HandedOver, UsesBatches, TypeOK
  <2>2. QED
    BY <1>2, HandoverStep, <2>1 DEF TickUnchanged, TypeOK
<1>3. ASSUME NEW n \in Node, FetchHeight(n) PROVE Handover'
  <2>1. PICK b \in HeaderAt(n, query[n]) \ index :
          LET batch == buffer[n] \cup {b}
              full  == Cardinality(batch) >= ProgressBatch
          IN  /\ fresh' = [fresh EXCEPT ![n] = fresh[n] \cup {b}]
              /\ buffer' = [buffer EXCEPT ![n] = IF full THEN {} ELSE batch]
              /\ IF full THEN Send(n, batch) ELSE UNCHANGED channel
    BY <1>3 DEF FetchHeight
  <2> DEFINE batch == buffer[n] \cup {b}
  <2>2. pc[n] = "active" /\ ~UsesBatches(n) /\ UNCHANGED <<pc, writing, index>>
    BY <1>3 DEF FetchHeight
  <2>3. batch \in SUBSET Tracked
    BY <1>3, BlockAssumption, BranchAssumption DEF FetchHeight, HeaderAt, Tracked, TypeOK
  <2>4. /\ fresh'[n] = fresh[n] \cup {b}
        /\ \A m \in Node \ {n} : fresh'[m] = fresh[m] /\ buffer'[m] = buffer[m]
    BY <2>1 DEF TypeOK
  <2>5. /\ buffer'[n] \cup Batches(channel'[n]) = batch \cup Batches(channel[n])
        /\ \A m \in Node \ {n} : channel'[m] = channel[m]
    <3>1. CASE buffer' = [buffer EXCEPT ![n] = {}] /\ Send(n, batch)
      BY <3>1, <2>3, SendAdds DEF TypeOK
    <3>2. CASE buffer' = [buffer EXCEPT ![n] = batch] /\ UNCHANGED channel
      BY <3>2 DEF TypeOK
    <3>3. QED
      BY <2>1, <3>1, <3>2
  <2>6. HandoverAt(n)'
    BY <1>0, <2>2, <2>4, <2>5 DEF HandoverAt, HandedOver, UsesBatches
  <2>7. QED
    BY HandoverStep, <2>2, <2>4, <2>5, <2>6
<1>4. ASSUME NEW n \in Node, HeightsDone(n) PROVE Handover'
  <2>1. buffer[n] \in SUBSET Tracked /\ Send(n, buffer[n])
    BY <1>4 DEF HeightsDone, TypeOK
  <2>2. /\ Batches(channel'[n]) = Batches(channel[n]) \cup buffer[n]
        /\ \A m \in Node \ {n} : channel'[m] = channel[m]
    BY <2>1, SendAdds DEF TypeOK
  <2>3. HandoverAt(n)'
    BY <1>4, <1>0, <2>2 DEF HeightsDone, ActiveChainDone, HandoverAt, HandedOver, UsesBatches, TypeOK
  <2>4. QED
    BY <1>4, HandoverStep, <2>2, <2>3 DEF HeightsDone, ActiveChainDone, TypeOK
<1>5. ASSUME NEW n \in Node, BatchLookup(n) PROVE Handover'
  <2>1. HandoverAt(n)'
    BY <1>5, <1>0 DEF BatchLookup, HandoverAt, HandedOver, UsesBatches, TypeOK
  <2>2. QED
    BY <1>5, HandoverStep, <2>1 DEF BatchLookup, TypeOK
<1>6. ASSUME NEW n \in Node, FetchBatch(n) PROVE Handover'
  <2> DEFINE unknown == BatchAnswer(n) \ index
  <2>1. unknown \in SUBSET Tracked /\ Send(n, unknown)
    <3>1. BatchStart(n) \in Int /\ BatchStart(n) >= FirstTracked
      BY BlockAssumption, SyncAssumption DEF BatchStart, TypeOK
    <3>2. BatchAnswer(n) \subseteq Tracked
      BY BlockAssumption, BranchAssumption, <3>1 DEF BatchAnswer, Tracked, TypeOK
    <3>3. QED
      BY <1>6, <3>2 DEF FetchBatch
  <2>2. /\ Batches(channel'[n]) = Batches(channel[n]) \cup unknown
        /\ \A m \in Node \ {n} : channel'[m] = channel[m]
    BY <2>1, SendAdds DEF TypeOK
  <2>3. /\ pc[n] = "batch" \/ (pc[n] = "active" /\ UsesBatches(n))
        /\ UNCHANGED <<buffer, writing, index>>
    BY <1>6 DEF FetchBatch, UsesBatches
  <2>4. /\ fresh'[n] \subseteq fresh[n] \cup unknown
        /\ pc'[n] \in {"branches", "active"}
        /\ \A m \in Node \ {n} : pc'[m] = pc[m] /\ fresh'[m] = fresh[m]
    <3>1. CASE ActiveChainDone(n, fresh[n] \cup unknown)
      BY <3>1 DEF ActiveChainDone, TypeOK
    <3>2. CASE Goto(n, "active") /\ fresh' = [fresh EXCEPT ![n] = fresh[n] \cup unknown]
      BY <3>2 DEF TypeOK
    <3>3. QED
      BY <1>6, <3>1, <3>2 DEF FetchBatch
  <2>5. HandoverAt(n)'
    BY <1>0, <2>2, <2>3, <2>4 DEF HandoverAt, HandedOver, UsesBatches
  <2>6. QED
    BY HandoverStep, <2>2, <2>3, <2>4, <2>5
<1>7. ASSUME NEW n \in Node, BatchesDone(n) PROVE Handover'
  <2>1. HandoverAt(n)'
    BY <1>7, <1>0 DEF BatchesDone, ActiveChainDone, HandoverAt, HandedOver, UsesBatches, TypeOK
  <2>2. QED
    BY <1>7, HandoverStep, <2>1 DEF BatchesDone, ActiveChainDone, TypeOK
<1>8. ASSUME NEW n \in Node, PickBranch(n) PROVE Handover'
  <2>1. HandoverAt(n)'
    BY <1>8, <1>0 DEF PickBranch, HandoverAt, HandedOver, UsesBatches, TypeOK
  <2>2. QED
    BY <1>8, HandoverStep, <2>1 DEF PickBranch, TypeOK
<1>9. ASSUME NEW n \in Node, WalkBranch(n) PROVE Handover'
  <2>1. HandoverAt(n)'
    BY <1>9, <1>0 DEF WalkBranch, BranchContinues, HandoverAt, HandedOver, UsesBatches, TypeOK
  <2>2. QED
    BY <1>9, HandoverStep, <2>1 DEF WalkBranch, BranchContinues, TypeOK
<1>10. ASSUME NEW n \in Node, BranchDone(n) PROVE Handover'
  <2>1. buffer[n] \in SUBSET Tracked /\ Send(n, buffer[n])
    BY <1>10 DEF BranchDone, TypeOK
  <2>2. /\ Batches(channel'[n]) = Batches(channel[n]) \cup buffer[n]
        /\ \A m \in Node \ {n} : channel'[m] = channel[m]
    BY <2>1, SendAdds DEF TypeOK
  <2>3. HandoverAt(n)'
    BY <1>10, <1>0, <2>2 DEF BranchDone, HandoverAt, HandedOver, UsesBatches, TypeOK
  <2>4. QED
    BY <1>10, HandoverStep, <2>2, <2>3 DEF BranchDone, TypeOK
<1>11. ASSUME NEW n \in Node, BranchesDone(n) PROVE Handover'
  <2>1. HandoverAt(n)'
    BY <1>11, <1>0 DEF BranchesDone, HandoverAt, HandedOver, UsesBatches, TypeOK
  <2>2. QED
    BY <1>11, HandoverStep, <2>1 DEF BranchesDone, TypeOK
<1>12. ASSUME NEW n \in Node, FinishFetch(n) PROVE Handover'
  <2>1. HandoverAt(n)'
    BY <1>12, <1>0 DEF FinishFetch, ForgetWalk, Drained, HandoverAt, HandedOver, UsesBatches, TypeOK
  <2>2. QED
    BY <1>12, HandoverStep, <2>1 DEF FinishFetch, ForgetWalk, Drained, TypeOK
<1>13. ASSUME NEW n \in Node, FetchBeyondTip(n) PROVE Handover'
  <2>1. HandoverAt(n)'
    BY <1>13, <1>0 DEF FetchBeyondTip, AbandonFetch, ForgetWalk, HandoverAt, HandedOver, UsesBatches, TypeOK
  <2>2. QED
    BY <1>13, HandoverStep, <2>1 DEF FetchBeyondTip, AbandonFetch, ForgetWalk, TypeOK
<1>14. ASSUME NEW n \in Node, EndAbandoned(n) PROVE Handover'
  <2>1. HandoverAt(n)'
    BY <1>14, <1>0 DEF EndAbandoned, Drained, HandoverAt, HandedOver, UsesBatches, TypeOK
  <2>2. QED
    BY <1>14, HandoverStep, <2>1 DEF EndAbandoned, Drained, TypeOK
<1>15. ASSUME NEW n \in Node, NothingToRepair(n) PROVE Handover'
  <2>1. HandoverAt(n)'
    BY <1>15, <1>0 DEF NothingToRepair, HandoverAt, HandedOver, UsesBatches, TypeOK
  <2>2. QED
    BY <1>15, HandoverStep, <2>1 DEF NothingToRepair, TypeOK
<1>16. ASSUME NEW n \in Node, StartRepair(n) PROVE Handover'
  <2>1. HandoverAt(n)'
    BY <1>16, <1>0 DEF StartRepair, HandoverAt, HandedOver, UsesBatches, TypeOK
  <2>2. QED
    BY <1>16, HandoverStep, <2>1 DEF StartRepair, TypeOK
<1>17. ASSUME NEW n \in Node, PickRoot(n) PROVE Handover'
  <2>1. /\ pc[n] = "roots"
        /\ \/ pc' = [pc EXCEPT ![n] = "mend_height"]
           \/ pc' = [pc EXCEPT ![n] = "mend_hash"]
        /\ UNCHANGED <<index, buffer, fresh, channel, writing>>
    BY <1>17 DEF PickRoot
  <2>2. HandoverAt(n)'
    BY <2>1, <1>0 DEF HandoverAt, HandedOver, UsesBatches, TypeOK
  <2>3. QED
    BY HandoverStep, <2>1, <2>2 DEF TypeOK
<1>18. ASSUME NEW n \in Node, MendHeight(n) PROVE Handover'
  <2>1. HandoverAt(n)'
    BY <1>18, <1>0 DEF MendHeight, HandoverAt, HandedOver, UsesBatches, TypeOK
  <2>2. QED
    BY <1>18, HandoverStep, <2>1 DEF MendHeight, TypeOK
<1>19. ASSUME NEW n \in Node, MendHash(n) PROVE Handover'
  <2>1. HandoverAt(n)'
    BY <1>19, <1>0 DEF MendHash, HashWalkContinues, HandoverAt, HandedOver, UsesBatches, TypeOK
  <2>2. QED
    BY <1>19, HandoverStep, <2>1 DEF MendHash, HashWalkContinues, TypeOK
<1>20. ASSUME NEW n \in Node, RootDone(n) PROVE Handover'
  <2>1. HandoverAt(n)'
    BY <1>20, <1>0 DEF RootDone, HashWalkContinues, HandoverAt, HandedOver, UsesBatches, TypeOK
  <2>2. QED
    BY <1>20, HandoverStep, <2>1 DEF RootDone, HashWalkContinues, TypeOK
<1>21. ASSUME NEW n \in Node, StoreRepair(n) PROVE Handover'
  <2>1. HandoverAt(n)'
    BY <1>21, <1>0 DEF StoreRepair, InsertHeaders, InsertNodes, HandoverAt, HandedOver, UsesBatches, TypeOK
  <2>2. QED
    BY <1>21, HandoverStep, <2>1 DEF StoreRepair, InsertHeaders, InsertNodes, TypeOK
<1>22. ASSUME NEW n \in Node, RepairFoundNothing(n) PROVE Handover'
  <2>1. HandoverAt(n)'
    BY <1>22, <1>0 DEF RepairFoundNothing, ForgetWalk, HandoverAt, HandedOver, UsesBatches, TypeOK
  <2>2. QED
    BY <1>22, HandoverStep, <2>1 DEF RepairFoundNothing, ForgetWalk, TypeOK
<1>23. ASSUME NEW n \in Node, FinishRepair(n) PROVE Handover'
  <2>1. HandoverAt(n)'
    BY <1>23, <1>0 DEF FinishRepair, ForgetWalk, HandoverAt, HandedOver, UsesBatches, TypeOK
  <2>2. QED
    BY <1>23, HandoverStep, <2>1 DEF FinishRepair, ForgetWalk, TypeOK
<1>24. ASSUME NEW n \in Node, RepairRefused(n) PROVE Handover'
  <2>1. HandoverAt(n)'
    BY <1>24, <1>0 DEF RepairRefused, AbandonRepair, ForgetWalk, HashWalkContinues, HandoverAt, HandedOver, UsesBatches, TypeOK
  <2>2. QED
    BY <1>24, HandoverStep, <2>1 DEF RepairRefused, AbandonRepair, ForgetWalk, HashWalkContinues, TypeOK
<1>25. ASSUME NEW n \in Node, StoreBatch(n) PROVE Handover'
  <2>1. Batches(channel[n]) \subseteq Head(channel[n]) \cup Batches(Tail(channel[n]))
    BY <1>25, BatchesTail DEF StoreBatch, TypeOK
  <2>2. HandoverAt(n)'
    BY <1>25, <1>0, <2>1 DEF StoreBatch, InsertHeaders, InsertNodes, HandoverAt, HandedOver, UsesBatches, TypeOK
  <2>3. QED
    BY <1>25, HandoverStep, <2>2 DEF StoreBatch, InsertHeaders, InsertNodes, TypeOK
<1>26. ASSUME NEW n \in Node, WriteRows(n) PROVE Handover'
  <2>1. HandoverAt(n)'
    BY <1>26, <1>0 DEF WriteRows, HandoverAt, HandedOver, UsesBatches, TypeOK
  <2>2. QED
    BY <1>26, HandoverStep, <2>1 DEF WriteRows, TypeOK
<1>27. ASSUME NEW n \in Node, FetchCallFails(n) PROVE Handover'
  <2>1. HandoverAt(n)'
    BY <1>27, <1>0 DEF FetchCallFails, AbandonFetch, ForgetWalk, BranchContinues, HandoverAt, HandedOver, UsesBatches, TypeOK
  <2>2. QED
    BY <1>27, HandoverStep, <2>1 DEF FetchCallFails, AbandonFetch, ForgetWalk, BranchContinues, TypeOK
<1>28. ASSUME NEW n \in Node, RepairCallFails(n) PROVE Handover'
  <2>1. HandoverAt(n)'
    BY <1>28, <1>0 DEF RepairCallFails, AbandonRepair, ForgetWalk, HashWalkContinues, HandoverAt, HandedOver, UsesBatches, TypeOK
  <2>2. QED
    BY <1>28, HandoverStep, <2>1 DEF RepairCallFails, AbandonRepair, ForgetWalk, HashWalkContinues, TypeOK
<1>29. ASSUME NEW n \in Node, WriteFails(n) PROVE Handover'
  <2>1. HandoverAt(n)'
    BY <1>29, <1>0 DEF WriteFails, HandoverAt, HandedOver, UsesBatches, TypeOK
  <2>2. QED
    BY <1>29, HandoverStep, <2>1 DEF WriteFails, TypeOK
<1>30. ASSUME NEW n \in Node, NEW b \in Block, NodeAccepts(n, b) \/ NodeSwitches(n, b)
      PROVE  Handover'
  BY <1>30 DEF NodeAccepts, NodeSwitches, NodeChanges, Handover, Sent, UsesBatches
<1>31. ASSUME Restart PROVE Handover'
  BY <1>31 DEF Restart, Handover
<1>32. ASSUME UNCHANGED vars PROVE Handover'
  BY <1>32 DEF vars, Handover, Sent, UsesBatches
<1>33. QED
  BY <1>1, <1>2, <1>3, <1>4, <1>5, <1>6, <1>7, <1>8, <1>9, <1>10, <1>11, <1>12, <1>13, <1>14, <1>15, <1>16, <1>17, <1>18, <1>19, <1>20, <1>21, <1>22, <1>23, <1>24, <1>25, <1>26, <1>27, <1>28, <1>29, <1>30, <1>31, <1>32
     DEF Next, Poller, Storer, Environment, Tick, Fetch, Repair

\* Nothing found is dropped between the tasks: invariant of run header_sync.
THEOREM HandoverCorrect == Spec => []Handover
<1>1. Init => Handover
  BY DEF Init, Handover, Sent, Fetching, Idle, Repairing
<1>2. TypeOK /\ Handover /\ [Next]_vars => Handover'
  BY HandoverInductive
<1>3. QED
  BY <1>1, <1>2, TypeCorrect, PTL DEF Spec

-----------------------------------------------------------------------------
(* The tree and the database.  EdgesComplete, RowsInTree and               *)
(* UnsavedAccounted are inductive together, given that what a task writes  *)
(* is in the tree and that a repair finds no write of its own under way.   *)

StoreInv == EdgesComplete /\ RowsInTree /\ UnsavedAccounted

\* The edges of an insertion are those the grown tree calls for.
LEMMA InsertedEdges ==
    ASSUME EdgesComplete, NEW headers, InsertHeaders(headers)
    PROVE  index' = index \cup headers /\ EdgesComplete'
<1>1. edges = LinksInto(index, index) /\ index' = index \cup headers
  BY DEF EdgesComplete, LinksInto, InsertHeaders, InsertNodes
<1>2. edges' = LinksInto(index', index')
  BY <1>1, InsertKeepsEdgesComplete DEF InsertHeaders
<1>3. QED
  BY <1>1, <1>2 DEF EdgesComplete, LinksInto

\* Headers that join the tree while their write begins are accounted for.
LEMMA InsertAccounted ==
    ASSUME TypeOK, StoreInv, NEW n \in Node, NEW headers, InsertHeaders(headers),
           writing[n] = {}, writing' = [writing EXCEPT ![n] = headers],
           UNCHANGED <<rows, lost>>
    PROVE  StoreInv'
<1>1. index' = index \cup headers /\ EdgesComplete'
  BY InsertedEdges DEF StoreInv
<1>2. RowsInTree'
  BY <1>1 DEF StoreInv, RowsInTree
<1>3. writing'[n] = headers /\ \A m \in Node \ {n} : writing'[m] = writing[m]
  BY DEF TypeOK
<1>4. ASSUME NEW b \in index', b \notin rows PROVE b \in lost \/ \E m \in Node : b \in writing'[m]
  <2>1. CASE b \in headers
    BY <1>3, <2>1
  <2>2. CASE b \in index
    <3>1. b \in lost \/ \E m \in Node : b \in writing[m]
      BY <1>4, <2>2 DEF StoreInv, UnsavedAccounted
    <3>2. QED
      BY <1>3, <3>1
  <2>3. QED
    BY <1>1, <2>1, <2>2
<1>5. UnsavedAccounted'
  BY <1>4 DEF UnsavedAccounted
<1>6. QED
  BY <1>1, <1>2, <1>5 DEF StoreInv

\* Every step of every task keeps the tree and the database in order.
LEMMA StoreInductive ==
    ASSUME TypeOK, Handover, StoreInv, [Next]_vars
    PROVE  StoreInv'
<1> USE DEF Set, treeVars, storeVars
<1>1. ASSUME UNCHANGED <<index, edges, rows, lost, writing>> PROVE StoreInv'
  BY <1>1 DEF StoreInv, EdgesComplete, RowsInTree, UnsavedAccounted
<1>2. ASSUME Restart PROVE StoreInv'
  BY <1>2 DEF Restart, StoreInv, EdgesComplete, RowsInTree, UnsavedAccounted, LoadedNodes,
              LoadedEdges, LinksInto, TypeOK
<1>3. ASSUME NEW n \in Node, StoreBatch(n) PROVE StoreInv'
  BY <1>3, InsertAccounted DEF StoreBatch
<1>4. ASSUME NEW n \in Node, StoreRepair(n) PROVE StoreInv'
  <2>1. writing[n] = {}
    BY <1>4 DEF StoreRepair, Handover, Idle, Repairing
  <2>2. QED
    BY <1>4, <2>1, InsertAccounted DEF StoreRepair
<1>5. ASSUME NEW n \in Node, WriteRows(n) \/ WriteFails(n) PROVE StoreInv'
  <2>1. writing[n] \subseteq index
    BY DEF Handover
  <2>2. /\ UNCHANGED <<index, edges>>
        /\ rows' \cup lost' = rows \cup lost \cup writing[n]
        /\ rows' \subseteq rows \cup writing[n]
        /\ lost \subseteq lost'
        /\ rows \subseteq rows'
        /\ \A m \in Node \ {n} : writing'[m] = writing[m]
    BY <1>5 DEF WriteRows, WriteFails, TypeOK
  <2>3. EdgesComplete' /\ RowsInTree'
    BY <2>1, <2>2 DEF StoreInv, EdgesComplete, RowsInTree
  <2>4. UNION {writing[m] : m \in Node} \subseteq writing[n] \cup UNION {writing'[m] : m \in Node}
    BY <2>2
  <2>5. UnsavedAccounted'
    BY <2>2, <2>4 DEF StoreInv, UnsavedAccounted
  <2>6. QED
    BY <2>3, <2>5 DEF StoreInv
<1>6. QED
  BY StoreSteps, <1>1, <1>2, <1>3, <1>4, <1>5

\* The tree has exactly its edges, the database holds only headers of the tree and
\* no header of the tree is forgotten: invariants of run header_sync.
THEOREM StoreCorrect == Spec => [](EdgesComplete /\ RowsInTree /\ UnsavedAccounted)
<1>1. Init => StoreInv
  BY DEF Init, StoreInv, EdgesComplete, RowsInTree, UnsavedAccounted
<1>2. TypeOK /\ Handover /\ StoreInv /\ [Next]_vars => StoreInv'
  BY StoreInductive
<1>3. StoreInv => EdgesComplete /\ RowsInTree /\ UnsavedAccounted
  BY DEF StoreInv
<1>4. QED
  BY <1>1, <1>2, <1>3, TypeCorrect, HandoverCorrect, PTL DEF Spec

-----------------------------------------------------------------------------
(* The miner queue.                                                        *)

\* Only a finished fetch or repair extends the queue, with headers of the tree.
LEMMA QueueInductive ==
    ASSUME TypeOK, Handover, QueuedInTree, [Next]_vars
    PROVE  QueuedInTree'
<1> USE DEF nodeVars, treeVars, storeVars, walkVars, taskVars, pollVars, worldVars
<1>1. ASSUME UNCHANGED minerQueue, index \subseteq index' PROVE QueuedInTree'
  BY <1>1 DEF QueuedInTree
<1>2. ASSUME NEW n \in Node, Tick(n) PROVE QueuedInTree'
  BY <1>1, <1>2 DEF Tick, TickChanged, TickUnchanged
<1>3. ASSUME NEW n \in Node, Fetch(n), ~FinishFetch(n) PROVE QueuedInTree'
  BY <1>1, <1>3 DEF Fetch, FetchHeight, HeightsDone, BatchLookup, FetchBatch, BatchesDone, PickBranch,
              WalkBranch, BranchDone, BranchesDone, FetchBeyondTip, AbandonFetch, EndAbandoned
<1>4. ASSUME NEW n \in Node, FinishFetch(n) PROVE QueuedInTree'
  <2>1. pc[n] = "drain" /\ channel[n] = <<>>
    BY <1>4 DEF FinishFetch, Drained
  <2>2. fresh[n] \subseteq index
    BY <2>1 DEF Handover, Sent
  <2>3. QED
    BY <1>4, <2>2 DEF FinishFetch, QueuedInTree
<1>5. ASSUME NEW n \in Node, Repair(n), ~FinishRepair(n) PROVE QueuedInTree'
  BY <1>1, <1>5 DEF Repair, NothingToRepair, StartRepair, PickRoot, MendHeight, MendHash, RootDone,
              StoreRepair, InsertHeaders, InsertNodes, RepairFoundNothing, RepairRefused, AbandonRepair
<1>6. ASSUME NEW n \in Node, FinishRepair(n) PROVE QueuedInTree'
  BY <1>6 DEF FinishRepair, Handover, QueuedInTree
<1>7. ASSUME NEW n \in Node, Storer(n) PROVE QueuedInTree'
  BY <1>1, <1>7 DEF Storer, StoreBatch, InsertHeaders, InsertNodes, WriteRows
<1>8. ASSUME NEW n \in Node, Environment(n) PROVE QueuedInTree'
  BY <1>1, <1>8 DEF Environment, NodeAccepts, NodeSwitches, NodeChanges, FetchCallFails, RepairCallFails,
              AbandonFetch, AbandonRepair, WriteFails
<1>9. ASSUME Restart PROVE QueuedInTree'
  BY <1>9 DEF Restart, QueuedInTree
<1>10. ASSUME UNCHANGED vars PROVE QueuedInTree'
  BY <1>1, <1>10 DEF vars
<1>11. QED
  BY <1>2, <1>3, <1>4, <1>5, <1>6, <1>7, <1>8, <1>9, <1>10 DEF Next, Poller

\* The miner task is never asked about a header it cannot find in the tree:
\* invariant of run header_sync.
THEOREM QueueCorrect == Spec => []QueuedInTree
<1>1. Init => QueuedInTree
  BY DEF Init, QueuedInTree
<1>2. TypeOK /\ Handover /\ QueuedInTree /\ [Next]_vars => QueuedInTree'
  BY QueueInductive
<1>3. QED
  BY <1>1, <1>2, TypeCorrect, HandoverCorrect, PTL DEF Spec

-----------------------------------------------------------------------------
(* Refinement.                                                             *)

\* Every step of HeaderSync observes, saves, restarts or leaves the store alone.
LEMMA StoreStep ==
    ASSUME TypeOK, TypeOK', Handover, StoreInv, StoreInv', [Next]_vars
    PROVE  [Store!Next]_(Store!storeVars)
<1> USE DEF Set, treeVars, storeVars, Store!storeVars
<1>1. ASSUME NEW headers, InsertHeaders(headers), UNCHANGED rows PROVE Store!Observe
  <2>1. index' = index \cup headers /\ headers \in SUBSET Tracked
    BY <1>1 DEF InsertHeaders, InsertNodes, TypeOK
  <2>2. edges' = {<<Parent[b], b>> : b \in {h \in index' : Parent[h] \in index'}}
    BY DEF StoreInv, EdgesComplete
  <2>3. QED
    BY <1>1, <2>1, <2>2 DEF Store!Observe, Store!Tracked, Tracked
<1>2. ASSUME Restart PROVE Store!Restart
  BY <1>2 DEF Restart, Store!Restart, Store!LoadedNodes, Store!LoadedEdges, Store!LinksInto,
              Store!Tracked, LoadedNodes, LoadedEdges, LinksInto, Tracked
<1>3. ASSUME NEW n \in Node, StoreBatch(n) PROVE Store!Observe
  BY <1>1, <1>3 DEF StoreBatch
<1>4. ASSUME NEW n \in Node, StoreRepair(n) PROVE Store!Observe
  BY <1>1, <1>4 DEF StoreRepair
<1>5. ASSUME NEW n \in Node, WriteRows(n) PROVE Store!Save
  <2>1. writing[n] \in SUBSET index
    BY DEF Handover
  <2>2. QED
    BY <1>5, <2>1 DEF WriteRows, Store!Save
<1>6. ASSUME NEW n \in Node, WriteFails(n) PROVE UNCHANGED Store!storeVars
  BY <1>6 DEF WriteFails
<1>7. QED
  BY StoreSteps, <1>2, <1>3, <1>4, <1>5, <1>6 DEF Store!Next

\* Header synchronisation implements the abstract store: property of run header_sync.
THEOREM SyncImplementsStore == Spec => StoreRefined
<1>1. Init => Store!Init
  BY DEF Init, Store!Init, Store!LoadedNodes, Store!LoadedEdges, Store!LinksInto
<1>2. TypeOK /\ TypeOK' /\ Handover /\ StoreInv /\ StoreInv' /\ [Next]_vars
         => [Store!Next]_(Store!storeVars)
  BY StoreStep
<1>3. EdgesComplete /\ RowsInTree /\ UnsavedAccounted => StoreInv
  BY DEF StoreInv
<1>4. QED
  BY <1>1, <1>2, <1>3, TypeCorrect, HandoverCorrect, StoreCorrect, PTL DEF Spec, StoreRefined, Store!Spec

-----------------------------------------------------------------------------
(* Every tip of a fetch during which its node does not change is found.    *)

\* A node has its active tip, and the ancestors of what it has.
NodeHolds(n) ==
    active[n] \in known[n] /\ \A b \in known[n] : Branch[b] \subseteq known[n]

\* A tracked tip is the active one or the start of a side branch.
LEMMA TipsWalked ==
    ASSUME TypeOK, NEW n \in Node, NodeHolds(n), NEW t \in Tips(n), t.hash \in Tracked
    PROVE  t.hash = active[n] \/ \E w \in SideTips(Tips(n)) : w.hash = t.hash /\ w.left > 0
<1>1. /\ t \in [hash : Block, branchlen : Nat]
      /\ t.branchlen = Cardinality(Branch[t.hash] \ Branch[active[n]])
      /\ t.hash = active[n] \/ \A c \in known[n] : Parent[c] # t.hash
  <2>1. t \in [hash : Block, branchlen : Nat]
    BY TipsType DEF TypeOK
  <2> DEFINE leaves == {b \in known[n] : \A c \in known[n] : Parent[c] # b}
             reported == {active[n]} \cup (IF ReportsForks(n) THEN leaves ELSE {})
             branchlen(b) == Cardinality(Branch[b] \ Branch[active[n]])
  <2>2. Tips(n) = {[hash |-> b, branchlen |-> branchlen(b)] : b \in reported}
    BY DEF Tips
  <2>3. \A b \in reported : b = active[n] \/ \A c \in known[n] : Parent[c] # b
    OBVIOUS
  <2> HIDE DEF reported, branchlen
  <2>4. PICK b \in reported : t = [hash |-> b, branchlen |-> branchlen(b)]
    BY <2>2
  <2>5. t.hash = b /\ t.branchlen = branchlen(t.hash)
    BY <2>4
  <2>6. QED
    BY <2>1, <2>3, <2>5 DEF branchlen
<1>2. IsFiniteSet(Branch[t.hash] \ Branch[active[n]])
  BY <1>1, BranchAssumption, FS_Difference
<1>3. CASE t.branchlen = 0
  <2>1. Branch[t.hash] \subseteq Branch[active[n]]
    BY <1>1, <1>2, <1>3, FS_EmptySet
  <2>2. t.hash \in Branch[t.hash]
    BY <1>1, BranchAssumption
  <2>3. t.hash \in Branch[active[n]] /\ active[n] \in Block /\ Branch[active[n]] \subseteq known[n]
    BY <2>1, <2>2 DEF NodeHolds, TypeOK
  <2>4. CASE t.hash # active[n]
    <3>1. PICK c \in Branch[active[n]] : Parent[c] = t.hash
      BY <2>3, <2>4, AncestorHasChild
    <3>2. QED
      BY <1>1, <2>3, <2>4, <3>1
  <2>5. QED
    BY <2>4
<1>4. CASE t.branchlen > 0
  <2>1. [hash |-> t.hash, left |-> t.branchlen + 1] \in SideTips(Tips(n))
    BY <1>1, <1>4 DEF SideTips, Tracked
  <2>2. t.branchlen + 1 > 0
    BY <1>1
  <2>3. QED
    BY <2>1, <2>2
<1>5. QED
  BY <1>1, <1>3, <1>4

\* A tip of the fetch of n is found, or will be asked for.
Covered(n, b) ==
    \/ b \in index \cup buffer[n] \cup Batches(channel[n])
    \/ pc[n] \in {"active", "batch"} /\ b = active[n] /\ query[n] = Height[b]
    \/ pc[n] \in Fetching /\ \E w \in todo[n] : w.hash = b /\ w.left > 0
    \/ pc[n] = "branch" /\ walk[n].hash = b /\ walk[n].left > 0

\* A batch is of the chain the node still has.
BatchOfChain(n) ==
    pc[n] = "batch" => /\ query[n] >= FirstTracked /\ Backend[n] = "core_rest"
                       /\ walk[n].hash \in Branch[active[n]]

CleanSoFar(n) ==
    clean[n] /\ pc[n] \in Fetching \cup {"drain"} =>
        /\ BatchOfChain(n)
        /\ \A t \in tips[n] : t.hash \in Tracked => Covered(n, t.hash)

CleanInv == \A n \in Node : NodeHolds(n) /\ CleanSoFar(n)

\* What a step of one poller leaves alone of the others, and of the nodes.
OthersKept(n) ==
    /\ UNCHANGED <<known, active>> /\ index \subseteq index'
    /\ \A m \in Node \ {n} :
          /\ pc'[m] = pc[m] /\ tips'[m] = tips[m] /\ query'[m] = query[m] /\ walk'[m] = walk[m]
          /\ todo'[m] = todo[m] /\ buffer'[m] = buffer[m] /\ channel'[m] = channel[m]
          /\ clean'[m] = clean[m]

LEMMA CleanStep ==
    ASSUME CleanInv, NEW n \in Node, CleanSoFar(n)', OthersKept(n)
    PROVE  CleanInv'
<1>1. ASSUME NEW m \in Node \ {n} PROVE CleanSoFar(m)'
  <2>1. \A b : Covered(m, b) => Covered(m, b)'
    BY DEF Covered, OthersKept
  <2>2. QED
    BY <2>1 DEF CleanInv, CleanSoFar, BatchOfChain, OthersKept
<1>2. \A m \in Node : NodeHolds(m)'
  BY DEF CleanInv, NodeHolds, OthersKept
<1>3. QED
  BY <1>1, <1>2 DEF CleanInv

\* A step of the poller itself that keeps its tips covered.
LEMMA CoveredStep ==
    ASSUME CleanInv, NEW n \in Node, OthersKept(n), pc[n] \in Fetching \cup {"drain"},
           tips'[n] = tips[n], clean'[n] = clean[n],
           clean[n] => BatchOfChain(n)',
           \A b \in Tracked : clean[n] /\ Covered(n, b) => Covered(n, b)'
    PROVE  CleanInv'
<1>1. CleanSoFar(n)'
  BY DEF CleanInv, CleanSoFar
<1>2. QED
  BY <1>1, CleanStep

\* A step that ends outside of a fetch.
LEMMA OutsideStep ==
    ASSUME CleanInv, NEW n \in Node, OthersKept(n), pc'[n] \notin Fetching \cup {"drain"}
    PROVE  CleanInv'
  BY CleanStep DEF CleanSoFar
\* The chain of a node has one block at the height of its tip.
LEMMA OnlyTip ==
    ASSUME NEW n \in Node, active[n] \in Block, NEW b \in HeaderAt(n, Height[active[n]])
    PROVE  b = active[n]
  BY AncestorsLower, BlockAssumption DEF HeaderAt

LEMMA CleanInductive ==
    ASSUME TypeOK, Handover, CleanInv, [Next]_vars
    PROVE  CleanInv'
<1> USE DEF nodeVars, treeVars, storeVars, walkVars, taskVars, pollVars, worldVars, Goto, Set
<1>1. ASSUME NEW n \in Node, TickChanged(n) PROVE CleanInv'
  <2>1. OthersKept(n)
    BY <1>1 DEF TickChanged, OthersKept, TypeOK
  <2>2. /\ pc'[n] = "active" /\ tips'[n] = Tips(n) /\ todo'[n] = SideTips(Tips(n))
        /\ query'[n] = Height[active[n]] /\ active'[n] = active[n]
    BY <1>1 DEF TickChanged, TypeOK
  <2>3. NodeHolds(n)
    BY DEF CleanInv
  <2>4. ASSUME NEW t \in Tips(n), t.hash \in Tracked PROVE Covered(n, t.hash)'
    BY <2>2, <2>3, <2>4, TipsWalked DEF Covered, Fetching
  <2>5. CleanSoFar(n)'
    BY <2>2, <2>4 DEF CleanSoFar, BatchOfChain
  <2>6. QED
    BY <2>1, <2>5, CleanStep
<1>2. ASSUME NEW n \in Node, FetchHeight(n) PROVE CleanInv'
  <2>1. PICK b \in HeaderAt(n, query[n]) \ index :
          LET batch == buffer[n] \cup {b}
              full  == Cardinality(batch) >= ProgressBatch
          IN  /\ fresh' = [fresh EXCEPT ![n] = fresh[n] \cup {b}]
              /\ buffer' = [buffer EXCEPT ![n] = IF full THEN {} ELSE batch]
              /\ IF full THEN Send(n, batch) ELSE UNCHANGED channel
    BY <1>2 DEF FetchHeight
  <2> DEFINE batch == buffer[n] \cup {b}
  <2>2. batch \in SUBSET Tracked
    BY <1>2, BlockAssumption, BranchAssumption DEF FetchHeight, HeaderAt, Tracked, TypeOK
  <2>3. /\ batch \cup Batches(channel[n]) = buffer'[n] \cup Batches(channel'[n])
        /\ \A m \in Node \ {n} : channel'[m] = channel[m] /\ buffer'[m] = buffer[m]
    <3>1. CASE buffer' = [buffer EXCEPT ![n] = {}] /\ Send(n, batch)
      BY <3>1, <2>2, SendAdds DEF TypeOK
    <3>2. CASE buffer' = [buffer EXCEPT ![n] = batch] /\ UNCHANGED channel
      BY <3>2 DEF TypeOK
    <3>3. QED
      BY <2>1, <3>1, <3>2
  <2>4. /\ pc[n] = "active" /\ UNCHANGED <<pc, tips, todo, walk, index, active, clean, known>>
        /\ query' = [query EXCEPT ![n] = query[n] - 1]
    BY <1>2 DEF FetchHeight
  <2>5. OthersKept(n)
    BY <2>3, <2>4 DEF OthersKept, TypeOK
  <2>6. query[n] = Height[active[n]] => active[n] = b
    BY <2>1, OnlyTip DEF TypeOK
  <2>7. ASSUME NEW c \in Tracked, Covered(n, c) PROVE Covered(n, c)'
    BY <2>3, <2>4, <2>6, <2>7 DEF Covered
  <2>8. BatchOfChain(n)'
    BY <2>4 DEF BatchOfChain
  <2>9. QED
    BY <2>4, <2>5, <2>7, <2>8, CoveredStep DEF Fetching
<1>3. ASSUME NEW n \in Node, HeightsDone(n) PROVE CleanInv'
  <2>1. buffer[n] \in SUBSET Tracked /\ Send(n, buffer[n])
    BY <1>3 DEF HeightsDone, TypeOK
  <2>2. /\ Batches(channel'[n]) = Batches(channel[n]) \cup buffer[n]
        /\ \A m \in Node \ {n} : channel'[m] = channel[m]
    BY <2>1, SendAdds DEF TypeOK
  <2>3. /\ pc[n] = "active" /\ pc' = [pc EXCEPT ![n] = "branches"]
        /\ buffer' = [buffer EXCEPT ![n] = {}]
        /\ UNCHANGED <<tips, query, todo, walk, index, active, clean, known>>
    BY <1>3 DEF HeightsDone, ActiveChainDone
  <2>4. OthersKept(n)
    BY <2>2, <2>3 DEF OthersKept, TypeOK
  <2>5. ASSUME NEW c \in Tracked, c = active[n], query[n] = Height[c] PROVE c \in index
    <3>1. HeaderAt(n, query[n]) \cap index # {}
      BY <1>3, <2>5, BlockAssumption DEF HeightsDone, Tracked
    <3>2. QED
      BY <2>5, <3>1, OnlyTip DEF TypeOK
  <2>6. ASSUME NEW c \in Tracked, Covered(n, c) PROVE Covered(n, c)'
    BY <2>2, <2>3, <2>5, <2>6 DEF Covered, Fetching, TypeOK
  <2>7. pc'[n] = "branches" /\ tips'[n] = tips[n] /\ clean'[n] = clean[n]
    BY <2>3 DEF TypeOK
  <2>8. QED
    BY <2>3, <2>4, <2>6, <2>7, CoveredStep DEF Fetching, BatchOfChain
<1>4. ASSUME NEW n \in Node, BatchLookup(n) PROVE CleanInv'
  <2>1. PICK b \in HeaderAt(n, BatchStart(n)) : walk' = [walk EXCEPT ![n] = [hash |-> b, left |-> 0]]
    BY <1>4 DEF BatchLookup
  <2>2. /\ pc[n] = "active" /\ pc' = [pc EXCEPT ![n] = "batch"]
        /\ query[n] >= FirstTracked /\ Backend[n] = "core_rest"
        /\ UNCHANGED <<tips, query, todo, buffer, channel, index, active, clean, known>>
    BY <1>4 DEF BatchLookup
  <2>3. OthersKept(n)
    BY <2>1, <2>2 DEF OthersKept, TypeOK
  <2>4. walk'[n].hash \in Branch[active[n]] /\ pc'[n] = "batch"
    BY <2>1, <2>2 DEF HeaderAt, TypeOK
  <2>5. ASSUME NEW c \in Tracked, Covered(n, c) PROVE Covered(n, c)'
    BY <2>2, <2>4, <2>5 DEF Covered, Fetching
  <2>6. QED
    BY <2>2, <2>3, <2>4, <2>5, CoveredStep DEF Fetching, BatchOfChain
<1>5. ASSUME NEW n \in Node, FetchBatch(n) PROVE CleanInv'
  <2> DEFINE unknown == BatchAnswer(n) \ index
  <2>1. unknown \in SUBSET Tracked /\ Send(n, unknown)
    <3>1. BatchStart(n) \in Int /\ BatchStart(n) >= FirstTracked
      BY BlockAssumption, SyncAssumption DEF BatchStart, TypeOK
    <3>2. BatchAnswer(n) \subseteq Tracked
      BY BlockAssumption, BranchAssumption, <3>1 DEF BatchAnswer, Tracked, TypeOK
    <3>3. QED
      BY <1>5, <3>2 DEF FetchBatch
  <2>2. /\ Batches(channel'[n]) = Batches(channel[n]) \cup unknown
        /\ \A m \in Node \ {n} : channel'[m] = channel[m]
    BY <2>1, SendAdds DEF TypeOK
  <2>3. /\ \/ pc[n] = "batch"
           \/ pc[n] = "active" /\ Backend[n] = "electrum" /\ query[n] >= FirstTracked
        /\ walk' = [walk EXCEPT ![n] = NoWalk]
        /\ UNCHANGED <<tips, todo, buffer, index, active, clean, known>>
    BY <1>5 DEF FetchBatch
  <2>4. /\ pc'[n] \in {"branches", "active"}
        /\ \A m \in Node \ {n} : pc'[m] = pc[m] /\ query'[m] = query[m]
    <3>1. CASE ActiveChainDone(n, fresh[n] \cup unknown) /\ UNCHANGED query
      BY <3>1 DEF ActiveChainDone, TypeOK
    <3>2. CASE Goto(n, "active") /\ query' = [query EXCEPT ![n] = query[n] - BatchStep]
      BY <3>2 DEF TypeOK
    <3>3. QED
      BY <1>5, <3>1, <3>2 DEF FetchBatch
  <2>5. OthersKept(n)
    BY <2>2, <2>3, <2>4 DEF OthersKept, TypeOK
  <2>6. ASSUME NEW c \in Tracked, clean[n], c = active[n], query[n] = Height[c]
        PROVE  c \in BatchAnswer(n)
    <3>1. query[n] >= FirstTracked /\ (Backend[n] = "core_rest" => walk[n].hash \in Branch[active[n]])
      BY <2>3, <2>6 DEF CleanInv, CleanSoFar, BatchOfChain, Fetching
    <3>2. Height[c] \in BatchStart(n) .. BatchStart(n) + BatchStep - 1
      BY <2>6, <3>1, BlockAssumption, SyncAssumption DEF BatchStart, Tracked
    <3>3. c \in Branch[active[n]]
      BY <2>6, BranchAssumption DEF Tracked
    <3>4. QED
      BY <3>1, <3>2, <3>3 DEF BatchAnswer
  <2>7. ASSUME NEW c \in Tracked, clean[n], Covered(n, c) PROVE Covered(n, c)'
    BY <2>2, <2>3, <2>4, <2>6, <2>7 DEF Covered, Fetching
  <2>8. QED
    BY <2>3, <2>4, <2>5, <2>7, CoveredStep DEF Fetching, BatchOfChain
<1>6. ASSUME NEW n \in Node, BatchesDone(n) PROVE CleanInv'
  <2>1. /\ pc[n] = "active" /\ pc' = [pc EXCEPT ![n] = "branches"] /\ query[n] < FirstTracked
        /\ UNCHANGED <<tips, query, todo, walk, buffer, channel, index, active, clean, known>>
    BY <1>6 DEF BatchesDone, ActiveChainDone
  <2>2. OthersKept(n) /\ pc'[n] = "branches"
    BY <2>1 DEF OthersKept, TypeOK
  <2>3. ASSUME NEW c \in Tracked, Covered(n, c) PROVE Covered(n, c)'
    BY <2>1, <2>2, <2>3, BlockAssumption DEF Covered, Fetching, Tracked
  <2>4. QED
    BY <2>1, <2>2, <2>3, CoveredStep DEF Fetching, BatchOfChain
<1>7. ASSUME NEW n \in Node, PickBranch(n) PROVE CleanInv'
  <2>1. PICK w \in todo[n] : /\ walk' = [walk EXCEPT ![n] = w]
                             /\ todo' = [todo EXCEPT ![n] = todo[n] \ {w}]
    BY <1>7 DEF PickBranch
  <2>2. /\ pc[n] = "branches" /\ pc' = [pc EXCEPT ![n] = "branch"]
        /\ UNCHANGED <<tips, query, buffer, channel, index, active, clean, known>>
    BY <1>7 DEF PickBranch
  <2>3. OthersKept(n)
    BY <2>1, <2>2 DEF OthersKept, TypeOK
  <2>4. pc'[n] = "branch" /\ walk'[n] = w /\ todo'[n] = todo[n] \ {w}
    BY <2>1, <2>2 DEF TypeOK
  <2>5. ASSUME NEW c \in Tracked, Covered(n, c) PROVE Covered(n, c)'
    BY <2>2, <2>4, <2>5 DEF Covered, Fetching
  <2>6. QED
    BY <2>2, <2>3, <2>4, <2>5, CoveredStep DEF Fetching, BatchOfChain
<1>8. ASSUME NEW n \in Node, WalkBranch(n) PROVE CleanInv'
  <2>1. /\ pc[n] = "branch" /\ UNCHANGED <<pc, tips, query, todo, channel, index, active, clean, known>>
        /\ buffer' = [buffer EXCEPT ![n] = buffer[n] \cup {walk[n].hash}]
        /\ walk' = [walk EXCEPT ![n] = [hash |-> Parent[walk[n].hash], left |-> walk[n].left - 1]]
    BY <1>8 DEF WalkBranch, BranchContinues
  <2>2. OthersKept(n) /\ buffer'[n] = buffer[n] \cup {walk[n].hash}
    BY <2>1 DEF OthersKept, TypeOK
  <2>3. ASSUME NEW c \in Tracked, Covered(n, c) PROVE Covered(n, c)'
    BY <2>1, <2>2, <2>3 DEF Covered, Fetching
  <2>4. QED
    BY <2>1, <2>2, <2>3, CoveredStep DEF Fetching, BatchOfChain
<1>9. ASSUME NEW n \in Node, BranchDone(n) PROVE CleanInv'
  <2>1. buffer[n] \in SUBSET Tracked /\ Send(n, buffer[n])
    BY <1>9 DEF BranchDone, TypeOK
  <2>2. /\ Batches(channel'[n]) = Batches(channel[n]) \cup buffer[n]
        /\ \A m \in Node \ {n} : channel'[m] = channel[m]
    BY <2>1, SendAdds DEF TypeOK
  <2>3. /\ pc[n] = "branch" /\ pc' = [pc EXCEPT ![n] = "branches"]
        /\ buffer' = [buffer EXCEPT ![n] = {}] /\ walk' = [walk EXCEPT ![n] = NoWalk]
        /\ ~(walk[n].left > 0 /\ walk[n].hash \in Tracked \ index)
        /\ UNCHANGED <<tips, query, todo, index, active, clean, known>>
    BY <1>9 DEF BranchDone, BranchContinues
  <2>4. OthersKept(n) /\ pc'[n] = "branches"
    BY <2>2, <2>3 DEF OthersKept, TypeOK
  <2>5. ASSUME NEW c \in Tracked, Covered(n, c) PROVE Covered(n, c)'
    BY <2>2, <2>3, <2>4, <2>5 DEF Covered, Fetching
  <2>6. QED
    BY <2>3, <2>4, <2>5, CoveredStep DEF Fetching, BatchOfChain
<1>10. ASSUME NEW n \in Node, BranchesDone(n) PROVE CleanInv'
  <2>1. /\ pc[n] = "branches" /\ todo[n] = {} /\ pc' = [pc EXCEPT ![n] = "drain"]
        /\ UNCHANGED <<tips, query, todo, walk, buffer, channel, index, active, clean, known>>
    BY <1>10 DEF BranchesDone
  <2>2. OthersKept(n) /\ pc'[n] = "drain"
    BY <2>1 DEF OthersKept, TypeOK
  <2>3. ASSUME NEW c \in Tracked, Covered(n, c) PROVE Covered(n, c)'
    BY <2>1, <2>2, <2>3 DEF Covered, Fetching
  <2>4. QED
    BY <2>1, <2>2, <2>3, CoveredStep DEF Fetching, BatchOfChain
<1>11. ASSUME NEW n \in Node, StoreBatch(n) PROVE CleanInv'
  <2>1. Batches(channel[n]) \subseteq Head(channel[n]) \cup Batches(Tail(channel[n]))
    BY <1>11, BatchesTail DEF StoreBatch, TypeOK
  <2>2. /\ index' = index \cup Head(channel[n])
        /\ channel' = [channel EXCEPT ![n] = Tail(channel[n])]
        /\ UNCHANGED <<pc, tips, query, todo, walk, buffer, active, clean, known>>
    BY <1>11 DEF StoreBatch, InsertHeaders, InsertNodes
  <2>3. OthersKept(n) /\ channel'[n] = Tail(channel[n])
    BY <2>2 DEF OthersKept, TypeOK
  <2>4. ASSUME NEW c, Covered(n, c) PROVE Covered(n, c)'
    BY <2>1, <2>2, <2>3, <2>4 DEF Covered
  <2>5. CleanSoFar(n)'
    BY <2>2, <2>4 DEF CleanInv, CleanSoFar, BatchOfChain
  <2>6. QED
    BY <2>3, <2>5, CleanStep
<1>12. ASSUME NEW n \in Node, WriteRows(n) \/ WriteFails(n) PROVE CleanInv'
  <2>1. UNCHANGED <<pc, tips, query, todo, walk, buffer, channel, index, active, clean, known>>
    BY <1>12 DEF WriteRows, WriteFails
  <2>2. QED
    BY <2>1 DEF CleanInv, NodeHolds, CleanSoFar, BatchOfChain, Covered
<1>13. ASSUME NEW n \in Node,
              \/ FinishFetch(n) \/ FetchBeyondTip(n) \/ FetchCallFails(n)
              \/ RepairFoundNothing(n) \/ FinishRepair(n) \/ RepairRefused(n) \/ RepairCallFails(n)
       PROVE  CleanInv'
  <2>1. /\ ForgetWalk(n) /\ UNCHANGED <<channel, index, active, clean, known>>
        /\ \E step \in {"repair", "abort", "sleep"} : pc' = [pc EXCEPT ![n] = step]
    BY <1>13 DEF FinishFetch, FetchBeyondTip, FetchCallFails, RepairFoundNothing, FinishRepair,
                 RepairRefused, RepairCallFails, AbandonFetch, AbandonRepair
  <2>2. OthersKept(n) /\ pc'[n] \notin Fetching \cup {"drain"}
    BY <2>1 DEF OthersKept, ForgetWalk, Fetching, TypeOK
  <2>3. QED
    BY <2>2, OutsideStep
<1>14. ASSUME NEW n \in Node,
              \/ TickUnchanged(n) \/ EndAbandoned(n) \/ NothingToRepair(n) \/ StartRepair(n)
              \/ PickRoot(n) \/ MendHeight(n) \/ MendHash(n) \/ RootDone(n) \/ StoreRepair(n)
       PROVE  CleanInv'
  <2>1. /\ UNCHANGED <<tips, buffer, channel, active, clean, known>> /\ index \subseteq index'
        /\ \E step \in {"repair", "roots", "mend_height", "mend_hash", "sleep", "persist"} :
              pc' = [pc EXCEPT ![n] = step]
    <3>1. CASE MendHeight(n) \/ MendHash(n)
      <4>1. pc[n] \in {"mend_height", "mend_hash"} /\ pc' = [pc EXCEPT ![n] = pc[n]]
        BY <3>1 DEF MendHeight, MendHash, HashWalkContinues, TypeOK
      <4>2. QED
        BY <3>1, <4>1 DEF MendHeight, MendHash
    <3>2. CASE PickRoot(n)
      BY <3>2 DEF PickRoot
    <3>3. CASE ~(MendHeight(n) \/ MendHash(n) \/ PickRoot(n))
      BY <1>14, <3>3 DEF TickUnchanged, EndAbandoned, NothingToRepair, StartRepair, RootDone,
                         StoreRepair, InsertHeaders, InsertNodes
    <3>4. QED
      BY <3>1, <3>2, <3>3
  <2>2. \A m \in Node \ {n} : query'[m] = query[m] /\ walk'[m] = walk[m] /\ todo'[m] = todo[m]
    BY <1>14 DEF TickUnchanged, EndAbandoned, NothingToRepair, StartRepair, PickRoot, MendHeight,
                 MendHash, RootDone, StoreRepair, TypeOK
  <2>3. OthersKept(n) /\ pc'[n] \notin Fetching \cup {"drain"}
    BY <2>1, <2>2 DEF OthersKept, Fetching, TypeOK
  <2>4. QED
    BY <2>3, OutsideStep
<1>15. ASSUME NEW n \in Node, NEW b \in Block, NodeAccepts(n, b) \/ NodeSwitches(n, b)
       PROVE  CleanInv'
  <2>1. /\ clean' = [clean EXCEPT ![n] = FALSE]
        /\ UNCHANGED <<pc, tips, query, todo, walk, buffer, channel, index>>
        /\ \A m \in Node \ {n} : known'[m] = known[m] /\ active'[m] = active[m]
    BY <1>15 DEF NodeAccepts, NodeSwitches, NodeChanges, TypeOK
  <2>2. NodeHolds(n)'
    <3>1. NodeHolds(n)
      BY DEF CleanInv
    <3>2. CASE NodeAccepts(n, b)
      <4>1. /\ known'[n] = known[n] \cup {b} /\ Parent[b] \in known[n]
            /\ active'[n] \in {b, active[n]}
        BY <3>2 DEF NodeAccepts, TypeOK
      <4>2. Branch[b] \subseteq {b} \cup Branch[Parent[b]]
        BY BranchAssumption
      <4>3. QED
        BY <3>1, <4>1, <4>2 DEF NodeHolds
    <3>3. CASE NodeSwitches(n, b)
      BY <3>1, <3>3 DEF NodeSwitches, NodeHolds, TypeOK
    <3>4. QED
      BY <1>15, <3>2, <3>3
  <2>3. ASSUME NEW m \in Node \ {n} PROVE NodeHolds(m)' /\ CleanSoFar(m)'
    <3>1. NodeHolds(m) /\ CleanSoFar(m) /\ clean'[m] = clean[m]
      BY <2>1 DEF CleanInv, TypeOK
    <3>2. \A c : Covered(m, c) => Covered(m, c)'
      BY <2>1 DEF Covered
    <3>3. QED
      BY <2>1, <3>1, <3>2 DEF NodeHolds, CleanSoFar, BatchOfChain
  <2>4. ~clean'[n]
    BY <2>1 DEF TypeOK
  <2>5. QED
    BY <2>2, <2>3, <2>4 DEF CleanInv, CleanSoFar
<1>16. ASSUME Restart PROVE CleanInv'
  BY <1>16 DEF Restart, CleanInv, NodeHolds, CleanSoFar, Fetching
<1>17. ASSUME UNCHANGED vars PROVE CleanInv'
  BY <1>17 DEF vars, CleanInv, NodeHolds, CleanSoFar, BatchOfChain, Covered
<1>18. QED
  BY <1>1, <1>2, <1>3, <1>4, <1>5, <1>6, <1>7, <1>8, <1>9, <1>10, <1>11, <1>12, <1>13, <1>14,
     <1>15, <1>16, <1>17
     DEF Next, Poller, Storer, Environment, Tick, Fetch, Repair

\* A fetch during which its node does not change finds all its tips: invariant of run
\* header_sync.
THEOREM CleanFetchCorrect == Spec => []CleanFetchComplete
<1>1. Init => CleanInv
  BY NodeAssumption DEF Init, CleanInv, NodeHolds, CleanSoFar, Fetching
<1>2. TypeOK /\ Handover /\ CleanInv /\ [Next]_vars => CleanInv'
  BY CleanInductive
<1>3. TypeOK /\ Handover /\ CleanInv => CleanFetchComplete
  <2> SUFFICES ASSUME Handover, CleanInv, NEW n \in Node,
                      pc[n] = "drain" /\ Drained(n) /\ clean[n],
                      NEW t \in tips[n], t.hash \in Tracked
               PROVE  t.hash \in index
    BY DEF CleanFetchComplete
  <2>1. Covered(n, t.hash)
    BY DEF CleanInv, CleanSoFar
  <2>2. buffer[n] = {}
    BY DEF Handover
  <2>3. Batches(channel[n]) = {}
    BY DEF Drained, Batches
  <2>4. QED
    BY <2>1, <2>2, <2>3 DEF Covered, Fetching
<1>4. QED
  BY <1>1, <1>2, <1>3, TypeCorrect, HandoverCorrect, PTL DEF Spec
=============================================================================
