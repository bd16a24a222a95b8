------------------------- MODULE PageControlsProofs -------------------------
(***************************************************************************)
(* What a reorg workflow does to its node and what auto-mining does to the *)
(* page (PageControls), for any nodes, pages, depths and bounds: the       *)
(* rollback happens and its blocks stay private until the node is          *)
(* connected again, no mark of an invalid block is left without its owner, *)
(* and one loop mines.                                                     *)
(***************************************************************************)
EXTENDS PageControls, FiniteSetTheorems, NaturalsInduction, WellFoundedInduction, TLAPS

-----------------------------------------------------------------------------
(* The invariants. *)

Tall == Cardinality(Blocks)

\* A block's ancestors are all there, one at each height, and lower than it.
ChainInv ==
    /\ Tall \in Nat \ {0} /\ Blocks = 0 .. (Tall - 1)
    /\ \A b \in Blocks : 0 \in chain[b] /\ b \in chain[b] /\ chain[b] \subseteq 0 .. b
    /\ \A b \in Blocks : \A c \in chain[b] : chain[c] \subseteq chain[b]
    /\ \A b \in Blocks : \A h \in 0 .. HeightOf(b) : \E c \in chain[b] : HeightOf(c) = h

\* A node has genesis, holds it to be valid, and has the ancestors of what it has.
NodesInv ==
    /\ DOMAIN received = Node /\ DOMAIN abandoned = Node
    /\ invalid \in [Node -> SUBSET (Blocks \ {0})]
    /\ \A n \in Node :
        /\ 0 \in DOMAIN received[n]
        /\ \A b \in DOMAIN received[n] : chain[b] \subseteq DOMAIN received[n]

\* What a workflow has in its hands at each step.
Hands(p) ==
    /\ flow[p].step = "disconnecting" => flow[p].call \in {"sent", "ok", "failed"}
    /\ flow[p].step \in {"disconnecting", "rewinding"} => flow[p].mined = {}
    /\ \/ flow[p].step = "disconnecting"
       \/ flow[p].step = "rewinding" /\ flow[p].call \in {"sent", "height", "hash"}
       => flow[p].old = 0
    /\ Calling(p, "rewinding", "hash") => flow[p].at \in Blocks
    /\ Calling(p, "mining", "sent") => flow[p].left > 0
    /\ Calling(p, "mining", "ok") => flow[p].left = 0

HandsInv == \A p \in Page : Hands(p)

\* The workflow that is to reconsider a block and has not done so.
Marked(p, n, b) ==
    /\ flow[p].node = n /\ flow[p].old = b
    /\ flow[p].step \in {"rewinding", "mining", "reconsidering"}
    /\ ~Calling(p, "reconsidering", "ok")

MarksInv ==
    \A n \in Node : \A b \in invalid[n] : b \in abandoned[n] \/ \E p \in Page : Marked(p, n, b)

\* The node of a workflow that nobody has interfered with is disconnected, and no
\* other workflow has begun to change it.
Secluded(p) ==
    /\ p \notin disturbed
    /\ \/ flow[p].step \in {"rewinding", "mining", "reconsidering"}
       \/ Calling(p, "disconnecting", "ok") \/ Calling(p, "reconnecting", "sent")

Waiting(q) ==
    flow[q].step = "disconnecting" /\ flow[q].call \in {"sent", "failed"}

PrivateInv ==
    \A p \in Page :
        /\ Secluded(p) => flow[p].node \notin online
        /\ p \notin disturbed =>
            \A q \in Page \ {p} :
                Running(p) /\ Running(q) /\ flow[q].node = flow[p].node => Waiting(q)
\* The blocks a workflow has still to mine.
ToMine(p) ==
    CASE flow[p].step = "rewinding" -> flow[p].depth + 1
      [] flow[p].step = "mining" -> flow[p].left
      [] OTHER -> 0

\* Between the invalidation and the reconnection: whatever else the node has is not
\* higher than the old tip, and its tip is at most that many blocks short of the new one.
Rewound(p) ==
    LET f == flow[p]
        tip == TipOf(f.node)
    IN  /\ f.start \in DOMAIN received[f.node]
        /\ \A c \in DOMAIN received[f.node] \ f.mined : HeightOf(c) <= HeightOf(f.start)
        /\ f.mined \subseteq chain[tip] /\ f.old \notin chain[tip]
        /\ HeightOf(f.start) < HeightOf(tip) + ToMine(p)

Rewinding(p) ==
    LET f == flow[p]
        oldest == HeightOf(f.start) - (f.depth - 1)
    IN  /\ f.call \in {"height", "hash"} => f.start = TipOf(f.node)
        /\ f.call = "height" => f.at = oldest
        /\ f.call = "hash" => f.at \in chain[f.start] /\ HeightOf(f.at) = oldest

HasRewound(p) ==
    \/ Calling(p, "rewinding", "ok")
    \/ flow[p].step \in {"mining", "reconsidering"} /\ flow[p].call # "failed"
    \/ Calling(p, "reconnecting", "sent")

ProgressInv ==
    \A p \in Page \ disturbed : abandoned[flow[p].node] = {} =>
        /\ flow[p].step = "rewinding" => Rewinding(p)
        /\ HasRewound(p) /\ flow[p].old # 0 => Rewound(p)

\* What the auto-mine loop sends, and to whom.
Request ==
    [id : Nat, number : Nat, button : BOOLEAN, node : UNION {Miner[m] : m \in Network},
     chosen : Network, network : Network, answer : {"none", "ok", "failed"}]

RequestsInv ==
    /\ selected \in Network /\ ticks \in Nat
    /\ loop \in [number : Nat, on : BOOLEAN, network : Network, nodes : SUBSET UNION {Miner[m] : m \in Network}]
    /\ \A r \in requests :
        /\ r \in Request /\ r.node \in Miner[r.network]
        /\ r.number <= loop.number
        /\ ~r.button => r.number < loop.number \/ ~loop.on

Current == {r \in requests : r.number = loop.number /\ loop.on}

\* One timer, or one request of the loop that is on.
LoopInv ==
    /\ loop.on \in BOOLEAN /\ timer \in BOOLEAN
    /\ IF timer THEN loop.on /\ Current = {}
       ELSE loop.on => \E r \in Current : Current = {r}


-----------------------------------------------------------------------------
(* Heights and tips. *)

\* A set of naturals that is not empty has a least one, and one that is bounded a
\* greatest.
LEMMA LeastNatural ==
    ASSUME NEW T \in SUBSET Nat, T # {}
    PROVE  \E x \in T : \A y \in T : x <= y
<1> DEFINE less == {ss \in Nat \X Nat : ss[1] < ss[2]}
<1>1. IsWellFoundedOn(less, Nat)
    BY NatLessThanWellFounded DEF OpToRel
<1>2. PICK x \in T : \A y \in T : ~(<<y, x>> \in less)
    BY <1>1, WFMin
<1>3. ASSUME NEW y \in T
      PROVE  x <= y
    <2>1. x \in Nat /\ y \in Nat /\ <<y, x>> \notin less
        BY <1>2
    <2>. QED
        BY <2>1
<1>. QED
    BY <1>3

LEMMA GreatestNatural ==
    ASSUME NEW T \in SUBSET Nat, T # {}, NEW k \in Nat, \A x \in T : x <= k
    PROVE  \E x \in T : \A y \in T : y <= x
<1> DEFINE back == {k - x : x \in T}
<1>1. back \subseteq Nat /\ back # {}
    <2>1. \A x \in T : k - x \in Nat
        OBVIOUS
    <2>2. PICK x \in T : TRUE
        OBVIOUS
    <2>. QED
        BY <2>1, <2>2
<1>2. PICK z \in back : \A y \in back : z <= y
    BY <1>1, LeastNatural
<1>3. PICK x \in T : z = k - x
    OBVIOUS
<1>4. ASSUME NEW y \in T
      PROVE  y <= x
    <2>1. k - y \in back
        OBVIOUS
    <2>2. z <= k - y
        BY <1>2, <2>1
    <2>. QED
        BY <1>3, <2>2
<1>. QED
    BY <1>4

\* An ancestor is lower.
LEMMA Heights ==
    ASSUME ChainInv, NEW b \in Blocks
    PROVE  /\ b \in Nat /\ IsFiniteSet(chain[b]) /\ chain[b] \subseteq Blocks
           /\ HeightOf(b) \in Nat /\ HeightOf(b) <= b /\ Cardinality(chain[b]) = HeightOf(b) + 1
<1>1. Tall \in Nat /\ Blocks = 0 .. (Tall - 1) /\ chain[b] \subseteq 0 .. b /\ b \in chain[b]
    BY DEF ChainInv
<1>2. b \in Nat /\ 0 .. b \subseteq Blocks
    BY <1>1
<1>3. IsFiniteSet(0 .. b) /\ Cardinality(0 .. b) = b + 1
    BY <1>2, FS_Interval
<1>4. IsFiniteSet(chain[b]) /\ Cardinality(chain[b]) <= b + 1
    BY <1>1, <1>3, FS_Subset
<1>5. Cardinality(chain[b]) \in Nat /\ Cardinality(chain[b]) # 0
    BY <1>1, <1>4, FS_CardinalityType, FS_EmptySet
<1>. QED
    BY <1>1, <1>2, <1>4, <1>5 DEF HeightOf

LEMMA Lower ==
    ASSUME ChainInv, NEW b \in Blocks, NEW c \in chain[b]
    PROVE  /\ c \in Blocks /\ chain[c] \subseteq chain[b]
           /\ HeightOf(c) <= HeightOf(b)
           /\ c # b => HeightOf(c) < HeightOf(b) /\ b \notin chain[c]
<1>1. c \in Blocks /\ chain[c] \subseteq chain[b] /\ c \in 0 .. b
    BY Heights DEF ChainInv
<1>2. /\ IsFiniteSet(chain[b]) /\ Cardinality(chain[b]) = HeightOf(b) + 1 /\ HeightOf(b) \in Nat
      /\ Cardinality(chain[c]) = HeightOf(c) + 1 /\ HeightOf(c) \in Nat /\ b \in Nat /\ c \in Nat
    BY <1>1, Heights
<1>3. Cardinality(chain[c]) <= Cardinality(chain[b]) /\ (Cardinality(chain[c]) = Cardinality(chain[b]) => chain[c] = chain[b])
    BY <1>1, <1>2, FS_Subset
<1>4. CASE c # b
    <2>1. b \notin chain[c]
        BY <1>1, <1>2, <1>4 DEF ChainInv
    <2>2. chain[c] # chain[b]
        BY <2>1 DEF ChainInv
    <2>. QED
        BY <1>1, <1>2, <1>3, <2>1, <2>2
<1>. QED
    BY <1>1, <1>2, <1>3, <1>4

\* Genesis is always valid, so that every node has a tip, and it has the most work.
LEMMA TipIsBest ==
    ASSUME WorkflowTypeOK, ChainInv, NodesInv, NEW n \in Node
    PROVE  /\ TipOf(n) \in Valid(n) /\ TipOf(n) \in Blocks /\ TipOf(n) \in DOMAIN received[n]
           /\ \A c \in Valid(n) : HeightOf(c) <= HeightOf(TipOf(n))
<1> DEFINE best == {b \in Valid(n) : \A c \in Valid(n) : HeightOf(c) <= HeightOf(b)}
<1>1. /\ Valid(n) \subseteq DOMAIN received[n] /\ DOMAIN received[n] \subseteq Blocks
      /\ Tall \in Nat /\ Blocks = 0 .. (Tall - 1)
    BY DEF Valid, WorkflowTypeOK, ChainInv
<1>2. 0 \in Valid(n)
    <2>1. 0 \in DOMAIN received[n] /\ invalid[n] \subseteq Blocks \ {0}
        BY DEF NodesInv
    <2>2. chain[0] \subseteq 0 .. 0
        BY <1>1, <2>1 DEF ChainInv
    <2>. QED
        BY <2>1, <2>2 DEF Valid
<1>3. \A b \in Valid(n) : HeightOf(b) \in Nat /\ HeightOf(b) <= Tall
    BY <1>1, Heights
<1>4. \E b \in best : TRUE
    <2> DEFINE heights == {HeightOf(b) : b \in Valid(n)}
    <2>1. heights \in SUBSET Nat /\ heights # {} /\ \A x \in heights : x <= Tall
        BY <1>2, <1>3
    <2>2. PICK x \in heights : \A y \in heights : y <= x
        BY <1>1, <2>1, GreatestNatural
    <2>3. PICK b \in Valid(n) : HeightOf(b) = x
        BY <2>2
    <2>. QED
        BY <2>2, <2>3
<1>5. \E b \in best : \A c \in best : received[n][b] <= received[n][c]
    <2> DEFINE arrivals == {received[n][b] : b \in best}
    <2>1. received[n] \in [DOMAIN received[n] -> Nat] /\ best \subseteq DOMAIN received[n]
        BY <1>1 DEF WorkflowTypeOK
    <2>2. arrivals \in SUBSET Nat
        BY <2>1
    <2>3. arrivals # {}
        BY <1>4
    <2>4. PICK x \in arrivals : \A y \in arrivals : x <= y
        BY <2>2, <2>3, LeastNatural
    <2>5. PICK b \in best : received[n][b] = x
        BY <2>4
    <2>. QED
        BY <2>4, <2>5
<1>6. TipOf(n) \in best
    BY <1>5 DEF TipOf
<1>. QED
    BY <1>1, <1>6

\* There is a block at every height of the active chain.
LEMMA BlockAtHeight ==
    ASSUME WorkflowTypeOK, ChainInv, NodesInv, NEW n \in Node, NEW h \in Nat, h <= HeightOf(TipOf(n))
    PROVE  BlockAt(n, h) \in chain[TipOf(n)] /\ HeightOf(BlockAt(n, h)) = h
<1>1. TipOf(n) \in Blocks /\ HeightOf(TipOf(n)) \in Nat
    BY TipIsBest, Heights
<1>2. \E c \in chain[TipOf(n)] : HeightOf(c) = h
    BY <1>1 DEF ChainInv
<1>. QED
    BY <1>2 DEF BlockAt


-----------------------------------------------------------------------------
(* What the nodes do. *)

\* A mined block is on top of its node's tip, and new.
LEMMA Mined ==
    ASSUME WorkflowTypeOK, ChainInv, NodesInv, NEW n \in Node, MineBlock(n), NEW b, b = Tall
    PROVE  /\ b \in Nat /\ b \notin Blocks /\ Blocks' = Blocks \cup {b} /\ Tall' = b + 1
           /\ \A c \in Blocks : chain'[c] = chain[c] /\ HeightOf(c)' = HeightOf(c)
           /\ chain'[b] = chain[TipOf(n)] \cup {b} /\ HeightOf(b)' = HeightOf(TipOf(n)) + 1
<1>1. /\ Tall \in Nat \ {0} /\ Blocks = 0 .. (Tall - 1) /\ TipOf(n) \in Blocks
      /\ \A c \in Blocks : chain[c] \subseteq Blocks
    BY TipIsBest, Heights DEF ChainInv
<1>2. b \in Nat /\ b \notin Blocks
    BY <1>1
<1>3. chain' = [c \in Blocks \cup {b} |-> IF c = b THEN chain[TipOf(n)] \cup {b} ELSE chain[c]]
    BY DEF MineBlock, Tall
<1>4. /\ Blocks' = Blocks \cup {b}
      /\ \A c \in Blocks : chain'[c] = chain[c]
      /\ chain'[b] = chain[TipOf(n)] \cup {b}
    BY <1>2, <1>3 DEF Blocks
<1>5. Blocks' = 0 .. b
    BY <1>1, <1>4
<1>6. Tall' = b + 1
    BY <1>2, <1>5, FS_Interval DEF Tall
<1>7. \A c \in Blocks : HeightOf(c)' = HeightOf(c)
    BY <1>4 DEF HeightOf
<1>8. HeightOf(b)' = HeightOf(TipOf(n)) + 1
    <2>1. b \notin chain[TipOf(n)]
        BY <1>1, <1>2
    <2>2. IsFiniteSet(chain[TipOf(n)]) /\ Cardinality(chain[TipOf(n)]) = HeightOf(TipOf(n)) + 1
        BY <1>1, Heights
    <2>3. Cardinality(chain[TipOf(n)] \cup {b}) = Cardinality(chain[TipOf(n)]) + 1
        BY <2>1, <2>2, FS_AddElement
    <2>4. HeightOf(TipOf(n)) \in Nat
        BY <1>1, Heights
    <2>5. HeightOf(b)' = Cardinality(chain[TipOf(n)] \cup {b}) - 1
        BY <1>4 DEF HeightOf
    <2>. QED
        BY <2>2, <2>3, <2>4, <2>5
<1>. QED
    BY <1>2, <1>4, <1>6, <1>7, <1>8

LEMMA MinedChain ==
    ASSUME WorkflowTypeOK, ChainInv, NodesInv, NEW n \in Node, MineBlock(n)
    PROVE  ChainInv'
<1>1. PICK new : new = Tall
    OBVIOUS
<1>2. /\ new \in Nat /\ new \notin Blocks /\ Blocks' = Blocks \cup {new} /\ Tall' = new + 1
      /\ \A c \in Blocks : chain'[c] = chain[c] /\ HeightOf(c)' = HeightOf(c)
      /\ chain'[new] = chain[TipOf(n)] \cup {new} /\ HeightOf(new)' = HeightOf(TipOf(n)) + 1
    BY <1>1, Mined
<1>3. /\ Tall \in Nat \ {0} /\ Blocks = 0 .. (Tall - 1) /\ TipOf(n) \in Blocks
      /\ \A c \in Blocks : chain[c] \subseteq Blocks /\ HeightOf(c) \in Nat
    <2>1. \A c \in Blocks : chain[c] \subseteq Blocks /\ HeightOf(c) \in Nat
        BY Heights
    <2>2. TipOf(n) \in Blocks /\ Tall \in Nat \ {0} /\ Blocks = 0 .. (Tall - 1)
        BY TipIsBest DEF ChainInv
    <2>. QED
        BY <2>1, <2>2
<1>4. Tall' \in Nat \ {0} /\ Blocks' = 0 .. (Tall' - 1)
    BY <1>1, <1>2, <1>3
<1>5. \A c \in Blocks' : 0 \in chain'[c] /\ c \in chain'[c] /\ chain'[c] \subseteq 0 .. c
    <2>1. \A c \in Blocks : 0 \in chain[c] /\ c \in chain[c] /\ chain[c] \subseteq 0 .. c
        BY DEF ChainInv
    <2>2. 0 .. TipOf(n) \subseteq 0 .. new
        BY <1>1, <1>2, <1>3
    <2>3. new \in 0 .. new
        BY <1>2
    <2>. QED
        BY <1>2, <1>3, <2>1, <2>2, <2>3
<1>6. ASSUME NEW c \in Blocks', NEW d \in chain'[c]
      PROVE  chain'[d] \subseteq chain'[c]
    <2>1. CASE c \in Blocks
        BY <1>2, <1>3, <1>6, <2>1 DEF ChainInv
    <2>2. CASE c = new /\ d \in chain[TipOf(n)]
        BY <1>2, <1>3, <2>2 DEF ChainInv
    <2>3. CASE c = new /\ d = new
        BY <2>3
    <2>. QED
        BY <1>2, <1>6, <2>1, <2>2, <2>3
<1>7. ASSUME NEW c \in Blocks', NEW h \in 0 .. HeightOf(c)'
      PROVE  \E d \in chain'[c] : HeightOf(d)' = h
    <2>1. CASE c \in Blocks
        <3>1. PICK d \in chain[c] : HeightOf(d) = h
            BY <1>2, <1>7, <2>1 DEF ChainInv
        <3>. QED
            BY <1>2, <1>3, <2>1, <3>1
    <2>2. CASE c = new /\ h = HeightOf(new)'
        BY <1>2, <2>2
    <2>3. CASE c = new /\ h # HeightOf(new)'
        <3>1. h \in 0 .. HeightOf(TipOf(n))
            BY <1>2, <1>3, <1>7, <2>3
        <3>2. PICK d \in chain[TipOf(n)] : HeightOf(d) = h
            BY <1>3, <3>1 DEF ChainInv
        <3>. QED
            BY <1>2, <1>3, <2>3, <3>2
    <2>. QED
        BY <1>2, <1>7, <2>1, <2>2, <2>3
<1>. QED
    BY <1>4, <1>5, <1>6, <1>7 DEF ChainInv

\* What a node receives it keeps, with the ancestors it lacked.
LEMMA Arrived ==
    ASSUME WorkflowTypeOK, ChainInv, NodesInv, NEW n \in Node, NEW blocks,
           received' = [received EXCEPT ![n] = WithArrived(n, blocks)]
    PROVE  /\ DOMAIN received' = Node
           /\ DOMAIN received'[n] = DOMAIN received[n] \cup blocks
           /\ received'[n] \in [DOMAIN received[n] \cup blocks -> Nat]
           /\ \A m \in Node \ {n} : received'[m] = received[m]
<1>1. DOMAIN received = Node /\ received[n] \in [DOMAIN received[n] -> Nat]
    BY DEF WorkflowTypeOK, NodesInv
<1>2. IsFiniteSet(DOMAIN received[n])
    <2>1. DOMAIN received[n] \subseteq Blocks /\ Tall \in Nat /\ Blocks = 0 .. (Tall - 1)
        BY DEF WorkflowTypeOK, ChainInv
    <2>2. IsFiniteSet(Blocks)
        BY <2>1, FS_Interval
    <2>. QED
        BY <2>1, <2>2, FS_Subset
<1>3. Cardinality(DOMAIN received[n]) \in Nat
    BY <1>2, FS_CardinalityType
<1>4. WithArrived(n, blocks) \in [DOMAIN received[n] \cup blocks -> Nat]
    BY <1>1, <1>3 DEF WithArrived
<1>. QED
    BY <1>1, <1>4

LEMMA MinedNodes ==
    ASSUME WorkflowTypeOK, ChainInv, NodesInv, NEW n \in Node, MineBlock(n), abandoned' = abandoned
    PROVE  /\ NodesInv'
           /\ \A m \in Node : received'[m] \in [DOMAIN received'[m] -> Nat] /\ DOMAIN received'[m] \subseteq Blocks'
<1>1. PICK new : new = Tall
    OBVIOUS
<1>2. /\ new \notin Blocks /\ Blocks' = Blocks \cup {new}
      /\ \A c \in Blocks : chain'[c] = chain[c]
      /\ chain'[new] = chain[TipOf(n)] \cup {new}
    BY <1>1, Mined
<1>3. received' = [received EXCEPT ![n] = WithArrived(n, {new})] /\ invalid' = invalid
    BY <1>1 DEF MineBlock, Tall
<1>4. /\ DOMAIN received' = Node
      /\ DOMAIN received'[n] = DOMAIN received[n] \cup {new}
      /\ received'[n] \in [DOMAIN received[n] \cup {new} -> Nat]
      /\ \A m \in Node \ {n} : received'[m] = received[m]
    BY <1>3, Arrived
<1>5. \A m \in Node : received[m] \in [DOMAIN received[m] -> Nat] /\ DOMAIN received[m] \subseteq Blocks
    BY DEF WorkflowTypeOK
<1>6. chain[TipOf(n)] \subseteq DOMAIN received[n]
    BY TipIsBest DEF NodesInv
<1>7. invalid' \in [Node -> SUBSET (Blocks' \ {0})]
    <2>1. invalid \in [Node -> SUBSET (Blocks \ {0})]
        BY DEF NodesInv
    <2>. QED
        BY <1>2, <1>3, <2>1
<1>8. ASSUME NEW m \in Node
      PROVE  /\ 0 \in DOMAIN received'[m]
             /\ \A c \in DOMAIN received'[m] : chain'[c] \subseteq DOMAIN received'[m]
    <2>1. CASE m = n
        BY <1>2, <1>4, <1>5, <1>6, <2>1 DEF NodesInv
    <2>2. CASE m # n
        BY <1>2, <1>4, <1>5, <2>2 DEF NodesInv
    <2>. QED
        BY <2>1, <2>2
<1>9. \A m \in Node : received'[m] \in [DOMAIN received'[m] -> Nat] /\ DOMAIN received'[m] \subseteq Blocks'
    BY <1>2, <1>4, <1>5
<1>. QED
    BY <1>4, <1>7, <1>8, <1>9 DEF NodesInv

\* Its block is the tip of the node.
LEMMA MinedIsTip ==
    ASSUME WorkflowTypeOK, ChainInv, NodesInv, NEW n \in Node, MineBlock(n), NEW b, b = Tall,
           abandoned' = abandoned
    PROVE  TipOf(n)' = b
<1>1. /\ b \in Nat /\ b \notin Blocks /\ Blocks' = Blocks \cup {b}
      /\ \A c \in Blocks : chain'[c] = chain[c] /\ HeightOf(c)' = HeightOf(c)
      /\ chain'[b] = chain[TipOf(n)] \cup {b} /\ HeightOf(b)' = HeightOf(TipOf(n)) + 1
    BY Mined
<1>2. received' = [received EXCEPT ![n] = WithArrived(n, {b})] /\ invalid' = invalid
    BY DEF MineBlock, Tall
<1>3. /\ DOMAIN received'[n] = DOMAIN received[n] \cup {b}
      /\ received'[n] \in [DOMAIN received[n] \cup {b} -> Nat]
    BY <1>2, Arrived
<1>4. DOMAIN received[n] \subseteq Blocks /\ invalid[n] \subseteq Blocks
    BY DEF WorkflowTypeOK
<1>5. Valid(n)' = Valid(n) \cup {b}
    <2>1. chain'[b] \cap invalid[n] = {}
        BY <1>1, <1>4, TipIsBest DEF Valid
    <2>2. Valid(n)' = {c \in DOMAIN received[n] \cup {b} : chain'[c] \cap invalid[n] = {}}
        BY <1>2, <1>3 DEF Valid
    <2>. QED
        BY <1>1, <1>4, <2>1, <2>2 DEF Valid
<1>6. \A c \in Valid(n) : c \in Blocks /\ HeightOf(c) \in Nat /\ HeightOf(c) <= HeightOf(TipOf(n))
    BY <1>4, TipIsBest, Heights DEF Valid
<1>7. HeightOf(TipOf(n)) \in Nat
    BY TipIsBest, Heights
<1>8. \A c \in Valid(n)' : HeightOf(c)' \in Int /\ (c # b => HeightOf(c)' < HeightOf(b)')
    BY <1>1, <1>5, <1>6, <1>7
<1>9. received'[n][b] \in Int
    BY <1>3
<1>. QED
    <2>1. \A c \in Valid(n)' \ {b} : HeightOf(c)' < HeightOf(b)'
        BY <1>8
    <2>2. b \in Valid(n)'
        BY <1>5
    <2>3. {d \in Valid(n)' : \A c \in Valid(n)' : HeightOf(c)' <= HeightOf(d)'} = {b}
        BY <1>8, <2>1, <2>2
    <2>4. TipOf(n)' = CHOOSE d \in {b} : \A c \in {b} : received'[n][d] <= received'[n][c]
        BY <2>3 DEF TipOf
    <2>. QED
        BY <1>9, <2>4


-----------------------------------------------------------------------------
(* The kinds of steps. *)

RunningFlow ==
    [step : WorkflowSteps, call : {"sent", "height", "hash", "ok", "failed"},
     node : Node, depth : Depths, at : Nat, left : Nat,
     old : Blocks, start : Blocks, mined : SUBSET Blocks]

LEMMA RunningTypes ==
    ASSUME WorkflowTypeOK, NEW p \in Page
    PROVE  /\ flow[p].step # "idle" => flow[p] \in RunningFlow
           /\ flow[p].call # "none" => flow[p] \in RunningFlow
           /\ flow[p] = NoFlow \/ flow[p] \in RunningFlow
<1>1. flow[p] = NoFlow \/ flow[p] \in RunningFlow
    BY DEF WorkflowTypeOK, Flow, RunningFlow
<1>2. NoFlow.step = "idle" /\ NoFlow.call = "none"
    BY DEF NoFlow
<1>. QED
    BY <1>1, <1>2

\* What a page or its server does for a workflow.
FlowStep(p) ==
    \/ \E n \in Node, depth \in Depths : StartReorg(p, n, depth)
    \/ Succeeds(p) \/ Fails(p) \/ ClosePage(p) \/ CallFails(p)
    \/ SetActive(p) \/ ReadHeight(p) \/ ReadHash(p) \/ Invalidate(p) \/ MineOne(p) \/ Reconsider(p)

\* A block is mined on n for somebody else.
MinedFor(n) ==
    /\ MineBlock(n)
    /\ disturbed' = disturbed \cup {p \in Page : Running(p)}
    /\ UNCHANGED <<flow, stranded, abandoned>>

LEMMA StepKinds ==
    ASSUME RequestsInv, [Next]_vars
    PROVE  \/ \E p \in Page : FlowStep(p)
           \/ \E n \in Node : MinedFor(n)
           \/ \E n, m \in Node : Download(n, m) /\ UNCHANGED <<flow, historyVars>>
           \/ UNCHANGED <<chainVars, flow, historyVars>>
<1>1. CASE WorkflowNext
    BY <1>1 DEF WorkflowNext, FlowStep, PageStep, ServerStep, NodesTalk, flowVars
<1>2. ASSUME NEW r \in requests, r.network = Home
      PROVE  r.node \in Node
    BY <1>2, HomeAssumption DEF RequestsInv
<1>3. ASSUME NEW r \in requests, Mine(r) \/ MineFails(r) \/ MineUnanswered(r)
      PROVE  \/ \E n \in Node : MinedFor(n)
             \/ UNCHANGED <<chainVars, flow, historyVars>>
    BY <1>2, <1>3 DEF Mine, MineFails, MineUnanswered, OthersMine, MinedFor, flowVars, historyVars
<1>4. CASE PageNext /\ UNCHANGED <<chainVars, flowVars>>
    BY <1>4 DEF flowVars
<1>. QED
    BY <1>1, <1>3, <1>4 DEF Next, vars, flowVars

\* Only the steps of its own page change a workflow.
LEMMA OtherFlows ==
    ASSUME WorkflowTypeOK, NEW p \in Page, FlowStep(p)
    PROVE  /\ \A q \in Page \ {p} : flow'[q] = flow[q]
           /\ flow' = [q \in Page |-> flow'[q]]
<1>1. flow = [q \in Page |-> flow[q]]
    BY DEF WorkflowTypeOK
<1>2. \E f : flow' = [flow EXCEPT ![p] = f]
    BY DEF FlowStep, StartReorg, Succeeds, Fails, ClosePage, CallFails, SetActive, ReadHeight,
           ReadHash, Invalidate, MineOne, Reconsider, GoOn, End, Call
<1>. QED
    BY <1>1, <1>2


\* Which steps change what the nodes have.
LEMMA NodeSteps ==
    ASSUME WorkflowTypeOK, NodesInv, HandsInv, RequestsInv, [Next]_vars
    PROVE  /\ DOMAIN abandoned' = Node
           /\ \/ UNCHANGED <<chain, received, invalid>>
              \/ \E n \in Node : MineBlock(n) /\ UNCHANGED abandoned
              \/ \E n, m \in Node : Download(n, m) /\ UNCHANGED abandoned
              \/ \E n \in Node, b \in Blocks : InvalidateBlock(n, b) /\ UNCHANGED abandoned
              \/ \E n \in Node, b \in Blocks : ReconsiderBlock(n, b) /\ UNCHANGED abandoned
<1>1. ASSUME NEW p \in Page, FlowStep(p)
      PROVE  /\ DOMAIN abandoned' = Node
             /\ \/ UNCHANGED <<chain, received, invalid>>
                \/ \E n \in Node : MineBlock(n) /\ UNCHANGED abandoned
                \/ \E n \in Node, b \in Blocks : InvalidateBlock(n, b) /\ UNCHANGED abandoned
                \/ \E n \in Node, b \in Blocks : ReconsiderBlock(n, b) /\ UNCHANGED abandoned
    <2>1. flow[p].call # "none" => flow[p].node \in Node /\ flow[p].old \in Blocks
        BY RunningTypes DEF RunningFlow
    <2>2. CASE MineOne(p)
        BY <2>1, <2>2 DEF MineOne, Calling, NodesInv
    <2>3. CASE Invalidate(p)
        BY <2>1, <2>3 DEF Invalidate, Calling, HandsInv, Hands, NodesInv
    <2>4. CASE Reconsider(p)
        BY <2>1, <2>4 DEF Reconsider, Calling, NodesInv
    <2>5. CASE ~MineOne(p) /\ ~Invalidate(p) /\ ~Reconsider(p)
        <3>1. UNCHANGED <<chain, received, invalid>>
            BY <1>1, <2>5 DEF FlowStep, StartReorg, Succeeds, Fails, ClosePage, CallFails, SetActive,
                 SetNetworkActive, ReadHeight, ReadHash, chainVars
        <3>2. abandoned' = abandoned \/ \E a : abandoned' = [abandoned EXCEPT ![flow[p].node] = a]
            BY <1>1, <2>5 DEF FlowStep, StartReorg, Succeeds, Fails, ClosePage, CallFails, SetActive,
                 ReadHeight, ReadHash, Abandon, historyVars
        <3>. QED
            BY <3>1, <3>2 DEF NodesInv
    <2>. QED
        BY <2>2, <2>3, <2>4, <2>5
<1>. QED
    BY <1>1, StepKinds DEF MinedFor, NodesInv, chainVars, historyVars

LEMMA NodesStep ==
    ASSUME WorkflowTypeOK, ChainInv, NodesInv, HandsInv, RequestsInv, [Next]_vars
    PROVE  /\ ChainInv' /\ NodesInv' /\ Blocks \subseteq Blocks'
           /\ \A m \in Node : received'[m] \in [DOMAIN received'[m] -> Nat] /\ DOMAIN received'[m] \subseteq Blocks'
<1>1. \A m \in Node : received[m] \in [DOMAIN received[m] -> Nat] /\ DOMAIN received[m] \subseteq Blocks
    BY DEF WorkflowTypeOK
<1>2. DOMAIN abandoned' = Node
    BY NodeSteps
<1>3. ASSUME UNCHANGED chain
      PROVE  ChainInv' /\ Blocks' = Blocks
    BY <1>3 DEF ChainInv, Blocks, Tall, HeightOf
<1>4. CASE UNCHANGED <<chain, received, invalid>>
    BY <1>1, <1>2, <1>3, <1>4 DEF NodesInv
<1>5. ASSUME NEW n \in Node, MineBlock(n), UNCHANGED abandoned
      PROVE  /\ ChainInv' /\ NodesInv' /\ Blocks \subseteq Blocks'
             /\ \A m \in Node : received'[m] \in [DOMAIN received'[m] -> Nat] /\ DOMAIN received'[m] \subseteq Blocks'
    <2>1. Blocks \subseteq Blocks'
        BY <1>5 DEF MineBlock, Blocks
    <2>. QED
        BY <1>5, <2>1, MinedChain, MinedNodes
<1>6. ASSUME NEW n \in Node, NEW m \in Node, Download(n, m), UNCHANGED abandoned
      PROVE  /\ ChainInv' /\ NodesInv' /\ Blocks \subseteq Blocks'
             /\ \A k \in Node : received'[k] \in [DOMAIN received'[k] -> Nat] /\ DOMAIN received'[k] \subseteq Blocks'
    <2> DEFINE missing == chain[TipOf(m)] \ DOMAIN received[n]
    <2>1. /\ UNCHANGED <<chain, invalid>> /\ received' = [received EXCEPT ![n] = WithArrived(n, missing)]
        BY <1>6 DEF Download
    <2>2. /\ DOMAIN received' = Node
          /\ DOMAIN received'[n] = DOMAIN received[n] \cup missing
          /\ received'[n] \in [DOMAIN received[n] \cup missing -> Nat]
          /\ \A k \in Node \ {n} : received'[k] = received[k]
        BY <2>1, Arrived
    <2>3. TipOf(m) \in Blocks /\ chain[TipOf(m)] \subseteq Blocks
        BY TipIsBest, Heights
    <2>4. ChainInv' /\ Blocks' = Blocks
        BY <1>3, <2>1
    <2>5. \A k \in Node : received'[k] \in [DOMAIN received'[k] -> Nat] /\ DOMAIN received'[k] \subseteq Blocks'
        BY <1>1, <2>2, <2>3, <2>4
    <2>6. \A b \in chain[TipOf(m)] : chain[b] \subseteq chain[TipOf(m)]
        BY <2>3 DEF ChainInv
    <2>7. \A k \in Node : 0 \in DOMAIN received'[k] /\ \A b \in DOMAIN received'[k] : chain[b] \subseteq DOMAIN received'[k]
        BY <2>2, <2>6 DEF NodesInv
    <2>. QED
        BY <1>2, <2>1, <2>2, <2>4, <2>5, <2>7 DEF NodesInv
<1>7. ASSUME NEW n \in Node, NEW b \in Blocks, InvalidateBlock(n, b) \/ ReconsiderBlock(n, b), UNCHANGED abandoned
      PROVE  /\ ChainInv' /\ NodesInv' /\ Blocks \subseteq Blocks'
             /\ \A k \in Node : received'[k] \in [DOMAIN received'[k] -> Nat] /\ DOMAIN received'[k] \subseteq Blocks'
    <2>1. UNCHANGED <<chain, received>>
        BY <1>7 DEF InvalidateBlock, ReconsiderBlock
    <2>2. invalid' \in [Node -> SUBSET (Blocks \ {0})]
        BY <1>7 DEF InvalidateBlock, ReconsiderBlock, NodesInv
    <2>. QED
        BY <1>1, <1>2, <1>3, <2>1, <2>2 DEF NodesInv
<1>. QED
    BY <1>4, <1>5, <1>6, <1>7, NodeSteps


\* What a step makes of its own workflow.
Starts(p, n, depth) ==
    /\ StartReorg(p, n, depth)
    /\ flow[p] = NoFlow
    /\ flow'[p] = [NoFlow EXCEPT !.step = "disconnecting", !.call = "sent", !.node = n, !.depth = depth]

Ends(p) ==
    /\ \/ Succeeds(p) /\ flow[p].step \in {"reconnecting", "restoring"}
       \/ Fails(p) /\ flow[p].step \in {"disconnecting", "restoring"}
       \/ ClosePage(p)
    /\ flow'[p] = NoFlow

\* How many blocks a step is to mine.
Share(p, step) == IF step = "mining" THEN BlocksToMine(flow[p].depth) ELSE 0

Later == {"rewinding", "mining", "reconsidering", "reconnecting", "restoring"}

GoesOn(p, step) ==
    /\ \/ Succeeds(p) /\ flow[p].call = "ok" /\ step = After(flow[p].step)
       \/ /\ Fails(p) /\ flow[p].call = "failed" /\ step = "restoring"
          /\ flow[p].step \notin {"disconnecting", "restoring"}
    /\ flow'[p] = [flow[p] EXCEPT !.step = step, !.call = "sent", !.at = 0,
                                  !.left = Share(p, step)]

Answers(p, call) ==
    /\ \/ /\ call = "ok" /\ flow[p].call = "sent"
          /\ \/ SetActive(p) /\ flow[p].step \in SetsActive
             \/ Reconsider(p) /\ flow[p].step = "reconsidering"
       \/ call = "failed" /\ (CallFails(p) \/ ReadHash(p))
    /\ flow'[p] = [flow[p] EXCEPT !.call = call]

HeightRead(p, call, at) ==
    /\ ReadHeight(p)
    /\ flow'[p] = [flow[p] EXCEPT !.call = call, !.at = at, !.start = TipOf(flow[p].node)]
    /\ call = "height" => at = HeightOf(TipOf(flow[p].node)) - (flow[p].depth - 1)

HashRead(p) ==
    /\ ReadHash(p)
    /\ flow'[p] = [flow[p] EXCEPT !.call = "hash", !.at = BlockAt(flow[p].node, flow[p].at)]
    /\ flow[p].at \in Nat /\ flow[p].at <= HeightOf(TipOf(flow[p].node))

Invalidated(p) ==
    /\ Invalidate(p)
    /\ flow'[p] = [flow[p] EXCEPT !.call = "ok", !.old = flow[p].at]

AfterOne(p) == IF flow[p].left = 1 THEN "ok" ELSE "sent"

MinedOne(p) ==
    /\ MineOne(p)
    /\ flow'[p] = [flow[p] EXCEPT !.left = flow[p].left - 1,
                                  !.mined = flow[p].mined \cup (Blocks' \ Blocks),
                                  !.call = AfterOne(p)]

LEMMA OwnFlow ==
    ASSUME WorkflowTypeOK, ChainInv, NodesInv, NEW p \in Page, FlowStep(p)
    PROVE  \/ Ends(p)
           \/ \E n \in Node, depth \in Depths : Starts(p, n, depth)
           \/ /\ flow[p] \in RunningFlow
              /\ \/ \E step \in Later : GoesOn(p, step)
                 \/ \E call \in {"ok", "failed"} : Answers(p, call)
                 \/ \E call \in {"height", "failed"}, at \in Nat : HeightRead(p, call, at)
                 \/ HashRead(p) \/ Invalidated(p) \/ MinedOne(p)
<1>1. DOMAIN flow = Page
    BY DEF WorkflowTypeOK
<1>2. flow[p] = NoFlow \/ flow[p] \in RunningFlow
    BY RunningTypes
<1>3. NoFlow.step = "idle" /\ NoFlow.call = "none"
    BY DEF NoFlow
<1>4. ASSUME NEW n \in Node, NEW depth \in Depths, StartReorg(p, n, depth)
      PROVE  Starts(p, n, depth)
    <2>1. flow[p] = NoFlow
        BY <1>2, <1>4 DEF StartReorg, Running, RunningFlow, WorkflowSteps, SetsActive
    <2>. QED
        BY <1>1, <1>4, <2>1 DEF StartReorg, Starts
<1>5. ASSUME NEW step \in Later, GoOn(p, step), flow[p] \in RunningFlow
      PROVE  flow'[p] = [flow[p] EXCEPT !.step = step, !.call = "sent", !.at = 0, !.left = Share(p, step)]
    <2>1. flow' = [flow EXCEPT ![p].step = step, ![p].call = "sent", ![p].at = 0,
                               ![p].left = Share(p, step)]
        BY <1>5 DEF GoOn, Share, Later
    <2>. QED
        BY <1>1, <1>5, <2>1 DEF RunningFlow
<1>6. CASE Succeeds(p)
    <2>1. flow[p] \in RunningFlow /\ flow[p].call = "ok" /\ GoOn(p, After(flow[p].step))
        BY <1>2, <1>3, <1>6 DEF Succeeds
    <2>2. CASE flow[p].step \in {"reconnecting", "restoring"}
        <3>1. End(p)
            BY <2>1, <2>2 DEF After, GoOn
        <3>. QED
            BY <1>1, <1>6, <2>2, <3>1 DEF End, Ends
    <2>3. CASE flow[p].step \notin {"reconnecting", "restoring"}
        <3>1. After(flow[p].step) \in Later
            BY <2>1, <2>3 DEF After, RunningFlow, WorkflowSteps, SetsActive, Later
        <3>2. GoesOn(p, After(flow[p].step))
            BY <1>5, <1>6, <2>1, <3>1 DEF GoesOn
        <3>. QED
            BY <2>1, <3>1, <3>2
    <2>. QED
        BY <2>2, <2>3
<1>7. CASE Fails(p)
    <2>1. flow[p] \in RunningFlow /\ flow[p].call = "failed"
        BY <1>2, <1>3, <1>7 DEF Fails
    <2>2. CASE flow[p].step \in {"disconnecting", "restoring"}
        BY <1>1, <1>7, <2>2 DEF Fails, End, Ends
    <2>3. CASE flow[p].step \notin {"disconnecting", "restoring"}
        <3>1. GoOn(p, "restoring") /\ "restoring" \in Later
            BY <1>7, <2>3 DEF Fails, Later
        <3>2. GoesOn(p, "restoring")
            BY <1>5, <1>7, <2>1, <2>3, <3>1 DEF GoesOn
        <3>. QED
            BY <2>1, <3>1, <3>2
    <2>. QED
        BY <2>2, <2>3
<1>8. CASE ClosePage(p)
    BY <1>1, <1>8 DEF ClosePage, End, Ends
<1>9. CASE CallFails(p)
    BY <1>1, <1>2, <1>3, <1>9 DEF CallFails, Running, Call, Answers
<1>10. CASE SetActive(p)
    BY <1>1, <1>2, <1>3, <1>10 DEF SetActive, Call, Answers
<1>11. CASE ReadHeight(p)
    <2>1. flow[p] \in RunningFlow
        BY <1>2, <1>3, <1>11 DEF ReadHeight, Calling
    <2> DEFINE tip == TipOf(flow[p].node)
               target == HeightOf(tip) - (flow[p].depth - 1)
    <2>2. HeightOf(tip) \in Nat /\ flow[p].depth \in Nat
        <3>1. flow[p].node \in Node /\ flow[p].depth \in Depths
            BY <2>1 DEF RunningFlow
        <3>2. tip \in Blocks
            BY <3>1, TipIsBest
        <3>3. HeightOf(tip) \in Nat
            BY <3>2, Heights
        <3>4. flow[p].depth \in Nat
            BY <3>1, WorkflowAssumption
        <3>. QED
            BY <3>3, <3>4
    <2>3. flow' = [flow EXCEPT ![p].call = IF target < 0 THEN "failed" ELSE "height",
                               ![p].at = IF target < 0 THEN 0 ELSE target,
                               ![p].start = tip]
        BY <1>11 DEF ReadHeight
    <2>4. target \in Int
        BY <2>2
    <2> HIDE DEF target, tip
    <2>5. PICK call, at : /\ call = IF target < 0 THEN "failed" ELSE "height"
                          /\ at = IF target < 0 THEN 0 ELSE target
        OBVIOUS
    <2>6. at \in Nat /\ call \in {"height", "failed"} /\ (call = "height" => at = target)
        BY <2>4, <2>5
    <2>7. flow'[p] = [flow[p] EXCEPT !.call = call, !.at = at, !.start = tip]
        BY <1>1, <2>1, <2>3, <2>5 DEF RunningFlow
    <2>. QED
        BY <1>11, <2>1, <2>6, <2>7 DEF target, tip, HeightRead
<1>12. CASE ReadHash(p)
    <2>1. flow[p] \in RunningFlow
        BY <1>2, <1>3, <1>12 DEF ReadHash, Calling
    <2>2. CASE flow[p].at > HeightOf(TipOf(flow[p].node))
        BY <1>1, <1>12, <2>1, <2>2 DEF ReadHash, Call, Answers
    <2>3. CASE ~(flow[p].at > HeightOf(TipOf(flow[p].node)))
        <3>1. flow'[p] = [flow[p] EXCEPT !.call = "hash", !.at = BlockAt(flow[p].node, flow[p].at)]
            BY <1>1, <1>12, <2>1, <2>3 DEF ReadHash, RunningFlow
        <3>2. flow[p].at \in Nat /\ flow[p].node \in Node
            BY <2>1 DEF RunningFlow
        <3>3. TipOf(flow[p].node) \in Blocks
            BY <3>2, TipIsBest
        <3>4. HeightOf(TipOf(flow[p].node)) \in Nat
            BY <3>3, Heights
        <3>5. flow[p].at <= HeightOf(TipOf(flow[p].node))
            BY <2>3, <3>2, <3>4
        <3>. QED
            BY <1>12, <2>1, <3>1, <3>2, <3>5 DEF HashRead
    <2>. QED
        BY <2>2, <2>3
<1>13. CASE Invalidate(p)
    BY <1>1, <1>2, <1>3, <1>13 DEF Invalidate, Calling, RunningFlow, Invalidated
<1>14. CASE MineOne(p)
    <2>1. flow[p] \in RunningFlow
        BY <1>2, <1>3, <1>14 DEF MineOne, Calling
    <2>. QED
        BY <1>1, <1>14, <2>1 DEF MineOne, LastBlock, RunningFlow, Blocks, MinedOne, AfterOne
<1>15. CASE Reconsider(p)
    BY <1>1, <1>2, <1>3, <1>15 DEF Reconsider, Calling, Call, Answers
<1>. QED
    BY <1>4, <1>6, <1>7, <1>8, <1>9, <1>10, <1>11, <1>12, <1>13, <1>14, <1>15 DEF FlowStep


-----------------------------------------------------------------------------
(* Types. *)

\* The fields of a workflow after each kind of step.
LEMMA GoesOnFields ==
    ASSUME NEW p \in Page, flow[p] \in RunningFlow, NEW step \in Later, GoesOn(p, step)
    PROVE  /\ flow'[p].step = step /\ flow'[p].call = "sent" /\ flow'[p].node = flow[p].node
           /\ flow'[p].depth = flow[p].depth /\ flow'[p].at = 0 /\ flow'[p].left = Share(p, step)
           /\ flow'[p].old = flow[p].old /\ flow'[p].start = flow[p].start /\ flow'[p].mined = flow[p].mined
           /\ flow'[p] \in RunningFlow
<1>1. PICK Steps, Calls, N, D, K, B, M, call, at, left :
        /\ Steps = WorkflowSteps /\ Calls = {"sent", "height", "hash", "ok", "failed"}
        /\ N = Node /\ D = Depths /\ K = Nat /\ B = Blocks /\ M = SUBSET Blocks
        /\ call = "sent" /\ at = 0 /\ left = Share(p, step)
    OBVIOUS
<1>2. RunningFlow = [step : Steps, call : Calls, node : N, depth : D, at : K, left : K,
                     old : B, start : B, mined : M]
    BY <1>1 DEF RunningFlow
<1>3. step \in Steps /\ call \in Calls /\ at \in K
    BY <1>1 DEF Later, WorkflowSteps, SetsActive
<1>4. left \in K
    <2>1. flow[p].depth \in Nat
        BY <1>1, <1>2, WorkflowAssumption
    <2>. QED
        BY <1>1, <2>1 DEF Share, BlocksToMine
<1>5. flow'[p] = [flow[p] EXCEPT !.step = step, !.call = call, !.at = at, !.left = left]
    BY <1>1 DEF GoesOn
<1>6. flow[p] \in [step : Steps, call : Calls, node : N, depth : D, at : K, left : K,
                   old : B, start : B, mined : M]
    BY <1>2
<1>7. /\ flow'[p].step = step /\ flow'[p].call = call /\ flow'[p].node = flow[p].node
      /\ flow'[p].depth = flow[p].depth /\ flow'[p].at = at /\ flow'[p].left = left
      /\ flow'[p].old = flow[p].old /\ flow'[p].start = flow[p].start /\ flow'[p].mined = flow[p].mined
    BY <1>5, <1>6
<1>8. flow'[p] \in [step : Steps, call : Calls, node : N, depth : D, at : K, left : K,
                    old : B, start : B, mined : M]
    BY <1>3, <1>4, <1>5, <1>6
<1>. QED
    BY <1>1, <1>2, <1>7, <1>8

LEMMA AnswersFields ==
    ASSUME NEW p \in Page, flow[p] \in RunningFlow, NEW call \in {"ok", "failed"}, Answers(p, call)
    PROVE  /\ flow'[p].step = flow[p].step /\ flow'[p].call = call /\ flow'[p].node = flow[p].node
           /\ flow'[p].depth = flow[p].depth /\ flow'[p].at = flow[p].at /\ flow'[p].left = flow[p].left
           /\ flow'[p].old = flow[p].old /\ flow'[p].start = flow[p].start /\ flow'[p].mined = flow[p].mined
           /\ flow'[p] \in RunningFlow
BY DEF Answers, RunningFlow

LEMMA HeightReadFields ==
    ASSUME WorkflowTypeOK, ChainInv, NodesInv, NEW p \in Page, flow[p] \in RunningFlow,
           NEW call \in {"height", "failed"}, NEW at \in Nat, HeightRead(p, call, at)
    PROVE  /\ flow'[p].step = "rewinding" /\ flow'[p].call = call /\ flow'[p].node = flow[p].node
           /\ flow'[p].depth = flow[p].depth /\ flow'[p].at = at /\ flow'[p].left = flow[p].left
           /\ flow'[p].old = flow[p].old /\ flow'[p].start = TipOf(flow[p].node)
           /\ flow'[p].mined = flow[p].mined
           /\ flow'[p] \in RunningFlow
           /\ flow[p].step = "rewinding" /\ flow[p].call = "sent"
<1>1. TipOf(flow[p].node) \in Blocks
    BY TipIsBest DEF RunningFlow
<1>2. flow[p].step = "rewinding" /\ flow[p].call = "sent"
    BY DEF HeightRead, ReadHeight, Calling
<1>. QED
    BY <1>1, <1>2 DEF HeightRead, RunningFlow

LEMMA HashReadFields ==
    ASSUME WorkflowTypeOK, ChainInv, NodesInv, NEW p \in Page, flow[p] \in RunningFlow, HashRead(p),
           NEW b, b = BlockAt(flow[p].node, flow[p].at)
    PROVE  /\ b \in chain[TipOf(flow[p].node)] /\ b \in Blocks /\ HeightOf(b) = flow[p].at
           /\ flow'[p].step = "rewinding" /\ flow'[p].call = "hash" /\ flow'[p].node = flow[p].node
           /\ flow'[p].depth = flow[p].depth /\ flow'[p].at = b /\ flow'[p].left = flow[p].left
           /\ flow'[p].old = flow[p].old /\ flow'[p].start = flow[p].start /\ flow'[p].mined = flow[p].mined
           /\ flow'[p] \in RunningFlow
           /\ flow[p].step = "rewinding" /\ flow[p].call = "height"
<1>1. flow[p].node \in Node /\ flow[p].at \in Nat
    BY DEF RunningFlow
<1>2. b \in chain[TipOf(flow[p].node)] /\ TipOf(flow[p].node) \in Blocks /\ HeightOf(b) = flow[p].at
    BY <1>1, BlockAtHeight, TipIsBest DEF HashRead
<1>3. b \in Blocks /\ b \in Nat
    BY <1>2, Heights
<1>4. flow[p].step = "rewinding" /\ flow[p].call = "height"
    BY DEF HashRead, ReadHash, Calling
<1>5. flow'[p] = [flow[p] EXCEPT !.call = "hash", !.at = b]
    BY DEF HashRead
<1>. QED
    BY <1>2, <1>3, <1>4, <1>5 DEF RunningFlow

LEMMA InvalidatedFields ==
    ASSUME HandsInv, NEW p \in Page, flow[p] \in RunningFlow, Invalidated(p)
    PROVE  /\ flow'[p].step = "rewinding" /\ flow'[p].call = "ok" /\ flow'[p].node = flow[p].node
           /\ flow'[p].depth = flow[p].depth /\ flow'[p].at = flow[p].at /\ flow'[p].left = flow[p].left
           /\ flow'[p].old = flow[p].at /\ flow'[p].start = flow[p].start /\ flow'[p].mined = flow[p].mined
           /\ flow'[p] \in RunningFlow
           /\ flow[p].step = "rewinding" /\ flow[p].call = "hash" /\ flow[p].at \in Blocks
<1>1. flow[p].step = "rewinding" /\ flow[p].call = "hash" /\ flow[p].at \in Blocks
    BY DEF Invalidated, Invalidate, Calling, HandsInv, Hands
<1>2. flow'[p] = [flow[p] EXCEPT !.call = "ok", !.old = flow[p].at]
    BY DEF Invalidated
<1>. QED
    BY <1>1, <1>2 DEF RunningFlow

LEMMA MinedOneFields ==
    ASSUME HandsInv, Blocks \subseteq Blocks', NEW p \in Page, flow[p] \in RunningFlow, MinedOne(p)
    PROVE  /\ flow'[p].step = "mining" /\ flow'[p].call = AfterOne(p) /\ flow'[p].node = flow[p].node
           /\ flow'[p].depth = flow[p].depth /\ flow'[p].at = flow[p].at /\ flow'[p].left = flow[p].left - 1
           /\ flow'[p].old = flow[p].old /\ flow'[p].start = flow[p].start
           /\ flow'[p].mined = flow[p].mined \cup (Blocks' \ Blocks)
           /\ flow'[p] \in RunningFlow'
           /\ flow[p].step = "mining" /\ flow[p].call = "sent"
           /\ flow[p].left \in Nat /\ flow[p].left > 0
<1>1. /\ flow[p].step = "mining" /\ flow[p].call = "sent"
      /\ flow[p].left \in Nat /\ flow[p].left > 0 /\ flow[p].left - 1 \in Nat
    BY DEF MinedOne, MineOne, Calling, HandsInv, Hands, RunningFlow
<1>2. PICK Steps, Calls, N, D, B, M, C, O :
        /\ Steps = WorkflowSteps /\ Calls = {"sent", "height", "hash", "ok", "failed"}
        /\ N = Node /\ D = Depths /\ B = Blocks /\ M = SUBSET Blocks /\ C = Blocks' /\ O = SUBSET Blocks'
    OBVIOUS
<1>3. RunningFlow = [step : Steps, call : Calls, node : N, depth : D, at : Nat, left : Nat,
                     old : B, start : B, mined : M]
    BY <1>2 DEF RunningFlow
<1>4. RunningFlow' = [step : Steps, call : Calls, node : N, depth : D, at : Nat, left : Nat,
                      old : C, start : C, mined : O]
    BY <1>2 DEF RunningFlow
<1>5. PICK call, mined : call = AfterOne(p) /\ mined = flow[p].mined \cup (Blocks' \ Blocks)
    OBVIOUS
<1>6. call \in Calls
    BY <1>2, <1>5 DEF AfterOne
<1>7. mined \in O
    BY <1>2, <1>3, <1>5
<1>8. B \subseteq C
    BY <1>2
<1>9. flow'[p] = [flow[p] EXCEPT !.left = flow[p].left - 1, !.mined = mined, !.call = call]
    BY <1>5 DEF MinedOne
<1>10. /\ flow'[p].step = flow[p].step /\ flow'[p].call = call /\ flow'[p].node = flow[p].node
       /\ flow'[p].depth = flow[p].depth /\ flow'[p].at = flow[p].at /\ flow'[p].left = flow[p].left - 1
       /\ flow'[p].old = flow[p].old /\ flow'[p].start = flow[p].start /\ flow'[p].mined = mined
    BY <1>3, <1>9
<1>11. flow'[p] \in RunningFlow'
    BY <1>1, <1>3, <1>4, <1>6, <1>7, <1>8, <1>9
<1>. QED
    BY <1>1, <1>5, <1>10, <1>11

LEMMA StartsFields ==
    ASSUME NEW p \in Page, NEW n \in Node, NEW depth \in Depths, Starts(p, n, depth)
    PROVE  /\ flow'[p].step = "disconnecting" /\ flow'[p].call = "sent" /\ flow'[p].node = n
           /\ flow'[p].depth = depth /\ flow'[p].at = 0 /\ flow'[p].left = 0
           /\ flow'[p].old = 0 /\ flow'[p].start = 0 /\ flow'[p].mined = {}
           /\ 0 \in Blocks => flow'[p] \in RunningFlow
<1>1. PICK k : k = CHOOSE m \in Node : TRUE
    OBVIOUS
<1>2. flow'[p] = [[step |-> "idle", call |-> "none", node |-> k, depth |-> 0, at |-> 0, left |-> 0,
                   old |-> 0, start |-> 0, mined |-> {}]
                  EXCEPT !.step = "disconnecting", !.call = "sent", !.node = n, !.depth = depth]
    BY <1>1 DEF Starts, NoFlow
<1>3. flow'[p] = [step |-> "disconnecting", call |-> "sent", node |-> n, depth |-> depth, at |-> 0,
                  left |-> 0, old |-> 0, start |-> 0, mined |-> {}]
    BY <1>2
<1>4. "disconnecting" \in WorkflowSteps
    BY DEF WorkflowSteps, SetsActive
<1>. QED
    BY <1>3, <1>4 DEF RunningFlow

LEMMA FlowTypes ==
    ASSUME WorkflowTypeOK, ChainInv, NodesInv, HandsInv, RequestsInv, [Next]_vars
    PROVE  flow' \in [Page -> Flow']
<1>1. /\ Blocks \subseteq Blocks' /\ 0 \in Blocks /\ Blocks \subseteq Nat
    <2>1. Tall \in Nat \ {0} /\ Blocks = 0 .. (Tall - 1)
        BY DEF ChainInv
    <2>. QED
        BY <2>1, NodesStep
<1>2. flow \in [Page -> Flow]
    BY DEF WorkflowTypeOK
<1>3. RunningFlow \subseteq Flow' /\ NoFlow \in Flow' /\ Flow \subseteq Flow'
    <2>1. NoFlow' = NoFlow
        BY DEF NoFlow
    <2>. QED
        BY <1>1, <2>1 DEF Flow, RunningFlow
<1>4. RunningFlow' \subseteq Flow'
    BY DEF RunningFlow, Flow
<1>5. ASSUME NEW p \in Page, FlowStep(p)
      PROVE  flow' \in [Page -> Flow']
    <2>1. \A q \in Page \ {p} : flow'[q] \in Flow'
        BY <1>2, <1>3, <1>5, OtherFlows
    <2>2. flow'[p] \in Flow'
        BY <1>1, <1>3, <1>4, <1>5, OwnFlow, StartsFields, GoesOnFields, AnswersFields, HeightReadFields,
           HashReadFields, InvalidatedFields, MinedOneFields DEF Ends
    <2>3. \A q \in Page : flow'[q] \in Flow'
        BY <2>1, <2>2
    <2>4. flow' = [q \in Page |-> flow'[q]]
        BY <1>5, OtherFlows
    <2>. QED
        BY <2>3, <2>4
<1>6. CASE UNCHANGED flow
    BY <1>2, <1>3, <1>6
<1>. QED
    BY <1>5, <1>6, StepKinds DEF MinedFor

LEMMA HandsStep ==
    ASSUME WorkflowTypeOK, ChainInv, NodesInv, HandsInv, RequestsInv, [Next]_vars
    PROVE  HandsInv'
<1>1. Blocks \subseteq Blocks'
    BY NodesStep
<1>2. ASSUME NEW p \in Page, flow'[p] = flow[p]
      PROVE  Hands(p)'
    BY <1>1, <1>2 DEF HandsInv, Hands, Calling
<1>3. ASSUME NEW p \in Page, FlowStep(p)
      PROVE  Hands(p)'
    <2>1. Hands(p)
        BY DEF HandsInv
    <2>2. CASE Ends(p)
        BY <2>2 DEF Ends, Hands, Calling, NoFlow
    <2>3. ASSUME NEW n \in Node, NEW depth \in Depths, Starts(p, n, depth)
          PROVE  Hands(p)'
        BY <2>3, StartsFields DEF Hands, Calling
    <2>4. ASSUME flow[p] \in RunningFlow, NEW step \in Later, GoesOn(p, step)
          PROVE  Hands(p)'
        <3>1. step = "rewinding" => flow[p].step = "disconnecting" /\ flow[p].call = "ok"
            BY <2>4 DEF GoesOn, RunningFlow, After, WorkflowSteps, SetsActive
        <3>2. step = "rewinding" => flow[p].mined = {} /\ flow[p].old = 0
            BY <2>1, <3>1 DEF Hands
        <3>3. step = "mining" => flow'[p].left > 0
            <4>1. flow[p].depth \in Nat
                BY <2>4, WorkflowAssumption DEF RunningFlow
            <4>. QED
                BY <2>4, <4>1, GoesOnFields DEF Share, BlocksToMine
        <3>. QED
            BY <2>4, <3>2, <3>3, GoesOnFields DEF Hands, Calling, Later
    <2>5. ASSUME flow[p] \in RunningFlow, NEW call \in {"ok", "failed"}, Answers(p, call)
          PROVE  Hands(p)'
        BY <2>1, <2>5, AnswersFields DEF Answers, Hands, Calling, SetsActive
    <2>6. ASSUME flow[p] \in RunningFlow, NEW call \in {"height", "failed"}, NEW at \in Nat, HeightRead(p, call, at)
          PROVE  Hands(p)'
        BY <2>1, <2>6, HeightReadFields DEF Hands, Calling
    <2>7. ASSUME flow[p] \in RunningFlow, HashRead(p)
          PROVE  Hands(p)'
        BY <1>1, <2>1, <2>7, HashReadFields DEF Hands, Calling
    <2>8. ASSUME flow[p] \in RunningFlow, Invalidated(p)
          PROVE  Hands(p)'
        BY <2>1, <2>8, InvalidatedFields DEF Hands, Calling
    <2>9. ASSUME flow[p] \in RunningFlow, MinedOne(p)
          PROVE  Hands(p)'
        BY <1>1, <2>1, <2>9, MinedOneFields DEF Hands, Calling, AfterOne
    <2>. QED
        BY <1>3, <2>2, <2>3, <2>4, <2>5, <2>6, <2>7, <2>8, <2>9, OwnFlow
<1>. QED
    BY <1>2, <1>3, StepKinds, OtherFlows DEF HandsInv, MinedFor

-----------------------------------------------------------------------------
(* The auto-mine loop. *)

\* What a step makes of the requests and of the loop.
LEMMA LoopSteps ==
    ASSUME [Next]_vars
    PROVE  \/ UNCHANGED autoVars
           \/ StartAutoMine \/ StopAutoMine \/ SendMine \/ NoMiner \/ LoadNetwork
           \/ \E m \in Network : SelectNetwork(m)
           \/ \E r \in requests : Tick(r) \/ TickFails(r) \/ \E answer \in {"ok", "failed"} : Answered(r, answer)
BY DEF Next, vars, PageNext, UserNext, Mine, MineFails, MineUnanswered

\* An answer changes nothing else about a request.
LEMMA AnswerFields ==
    ASSUME RequestsInv, NEW r \in requests, NEW answer \in {"ok", "failed"},
           NEW s, s = [r EXCEPT !.answer = answer]
    PROVE  /\ s \in Request /\ s.number = r.number /\ s.button = r.button
           /\ s.node = r.node /\ s.network = r.network
<1>1. r \in Request
    BY DEF RequestsInv
<1>2. PICK I, O, M, N : I = Nat /\ O = BOOLEAN /\ M = UNION {Miner[m] : m \in Network} /\ N = Network
    OBVIOUS
<1>3. Request = [id : I, number : I, button : O, node : M, chosen : N, network : N, answer : {"none", "ok", "failed"}]
    BY <1>2 DEF Request
<1>. QED
    BY <1>1, <1>3

LEMMA RequestsStep ==
    ASSUME RequestsInv, [Next]_vars
    PROVE  RequestsInv'
<1> DEFINE Sound(r, l) == /\ r \in Request /\ r.node \in Miner[r.network]
                          /\ r.number <= l.number
                          /\ ~r.button => r.number < l.number \/ ~l.on
           Loops == [number : Nat, on : BOOLEAN, network : Network, nodes : SUBSET UNION {Miner[m] : m \in Network}]
<1>1. selected \in Network /\ ticks \in Nat /\ loop \in Loops /\ \A r \in requests : Sound(r, loop)
    BY DEF RequestsInv
<1>2. ASSUME selected' \in Network, ticks' \in Nat, loop' \in Loops, \A r \in requests' : Sound(r, loop')
      PROVE  RequestsInv'
    BY <1>2 DEF RequestsInv, Request
<1>3. ASSUME loop' = [loop EXCEPT !.on = FALSE]
      PROVE  loop' \in Loops /\ \A r \in requests : Sound(r, loop')
    <2>1. loop' \in Loops /\ loop'.number = loop.number /\ ~loop'.on
        BY <1>1, <1>3
    <2>. QED
        BY <1>1, <2>1
<1>4. CASE UNCHANGED autoVars
    BY <1>1, <1>2, <1>4 DEF autoVars
<1>5. CASE StartAutoMine
    <2>1. PICK nodes \in SUBSET Miner[selected] :
            loop' = [number |-> loop.number + 1, on |-> TRUE, network |-> selected, nodes |-> nodes]
        BY <1>5 DEF StartAutoMine
    <2>2. nodes \in SUBSET UNION {Miner[m] : m \in Network}
        BY <1>1, <2>1
    <2>3. loop.number \in Nat /\ loop'.number = loop.number + 1 /\ loop' \in Loops
        BY <1>1, <2>1, <2>2
    <2>4. \A r \in requests : r.number \in Nat
        BY <1>1 DEF Request
    <2>5. \A r \in requests : Sound(r, loop')
        BY <1>1, <2>3, <2>4
    <2>6. UNCHANGED <<selected, requests, ticks>>
        BY <1>5 DEF StartAutoMine
    <2>. QED
        BY <1>1, <1>2, <2>3, <2>5, <2>6
<1>6. CASE StopAutoMine \/ NoMiner
    <2>1. loop' = [loop EXCEPT !.on = FALSE] /\ UNCHANGED <<selected, requests, ticks>>
        BY <1>6 DEF StopAutoMine, NoMiner, Stopped
    <2>. QED
        BY <1>1, <1>2, <1>3, <2>1
<1>7. CASE SendMine
    <2>1. PICK n \in loop.nodes \cap Miner[selected] :
            requests' = requests \cup {[id |-> ticks, number |-> loop.number, button |-> TRUE, node |-> n,
                                        chosen |-> loop.network, network |-> selected, answer |-> "none"]}
        BY <1>7 DEF SendMine
    <2> DEFINE sent == [id |-> ticks, number |-> loop.number, button |-> TRUE, node |-> n,
                        chosen |-> loop.network, network |-> selected, answer |-> "none"]
    <2>2. n \in UNION {Miner[m] : m \in Network} /\ n \in Miner[selected]
        BY <1>1
    <2>3. loop.number \in Nat /\ loop.network \in Network
        BY <1>1
    <2>4. sent \in Request
        BY <1>1, <2>2, <2>3 DEF Request
    <2>5. Sound(sent, loop)
        BY <2>2, <2>3, <2>4
    <2>6. UNCHANGED <<selected, loop>> /\ ticks' = ticks + 1
        BY <1>7 DEF SendMine
    <2> HIDE DEF sent
    <2>7. \A r \in requests' : Sound(r, loop')
        BY <1>1, <2>1, <2>5, <2>6 DEF sent
    <2>. QED
        BY <1>1, <1>2, <2>6, <2>7
<1>8. CASE LoadNetwork
    BY <1>1, <1>2, <1>8 DEF LoadNetwork
<1>9. ASSUME NEW m \in Network, SelectNetwork(m)
      PROVE  RequestsInv'
    <2>1. selected' = m /\ ticks' = ticks
        BY <1>9 DEF SelectNetwork
    <2>2. CASE UNCHANGED <<loop, requests>>
        BY <1>1, <1>2, <2>1, <2>2
    <2>3. CASE loop' = [loop EXCEPT !.on = FALSE] /\ requests' = {[r EXCEPT !.button = FALSE] : r \in requests}
        <3>1. loop' \in Loops /\ \A r \in requests : Sound(r, loop')
            BY <1>3, <2>3
        <3>2. ~loop'.on
            BY <1>1, <2>3
        <3>3. ASSUME NEW r \in requests, NEW s, s = [r EXCEPT !.button = FALSE]
              PROVE  Sound(s, loop')
            <4>1. r \in Request
                BY <1>1
            <4>2. /\ s \in Request /\ s.number = r.number /\ s.node = r.node /\ s.network = r.network
                BY <3>3, <4>1 DEF Request
            <4>. QED
                BY <3>1, <3>2, <4>2
        <3>4. \A s \in requests' : Sound(s, loop')
            BY <2>3, <3>3
        <3>. QED
            BY <1>1, <1>2, <2>1, <3>1, <3>4
    <2>. QED
        BY <1>9, <2>2, <2>3 DEF SelectNetwork, Stopped
<1>10. ASSUME NEW r \in requests, Tick(r) \/ TickFails(r)
       PROVE  RequestsInv'
    <2>1. requests' \subseteq requests /\ UNCHANGED <<selected, ticks>>
        BY <1>10 DEF Tick, TickFails
    <2>2. loop' = loop \/ loop' = [loop EXCEPT !.on = FALSE]
        BY <1>10 DEF Tick, TickFails, Stopped
    <2>3. loop' \in Loops /\ \A s \in requests : Sound(s, loop')
        BY <1>1, <1>3, <2>2
    <2>. QED
        BY <1>1, <1>2, <2>1, <2>3
<1>11. ASSUME NEW r \in requests, NEW answer \in {"ok", "failed"}, Answered(r, answer)
       PROVE  RequestsInv'
    <2>1. PICK s : s = [r EXCEPT !.answer = answer]
        OBVIOUS
    <2>2. Sound(s, loop)
        BY <1>1, <2>1, AnswerFields
    <2>3. requests' = (requests \ {r}) \cup {s} /\ UNCHANGED <<selected, loop, ticks>>
        BY <1>11, <2>1 DEF Answered
    <2>. QED
        BY <1>1, <1>2, <2>2, <2>3
<1>. QED
    BY <1>4, <1>5, <1>6, <1>7, <1>8, <1>9, <1>10, <1>11, LoopSteps


LEMMA LoopStep ==
    ASSUME RequestsInv, LoopInv, [Next]_vars
    PROVE  LoopInv'
<1>1. /\ loop \in [number : Nat, on : BOOLEAN, network : Network, nodes : SUBSET UNION {Miner[m] : m \in Network}]
      /\ \A r \in requests : /\ r \in Request /\ r.number \in Nat /\ r.number <= loop.number
                             /\ ~r.button => r.number < loop.number \/ ~loop.on
    BY DEF RequestsInv, Request
<1>2. ASSUME Stopped
      PROVE  LoopInv'
    BY <1>1, <1>2 DEF Stopped, LoopInv
<1>3. CASE UNCHANGED <<loop, timer, requests>>
    BY <1>3 DEF LoopInv, Current
<1>4. CASE StartAutoMine
    <2>1. loop'.number = loop.number + 1 /\ loop'.on = TRUE /\ timer' = TRUE /\ requests' = requests
        BY <1>4 DEF StartAutoMine
    <2>2. Current' = {}
        BY <1>1, <2>1 DEF Current
    <2>. QED
        BY <2>1, <2>2 DEF LoopInv
<1>5. CASE SendMine
    <2>1. PICK n \in loop.nodes \cap Miner[selected] :
            requests' = requests \cup {[id |-> ticks, number |-> loop.number, button |-> TRUE, node |-> n,
                                        chosen |-> loop.network, network |-> selected, answer |-> "none"]}
        BY <1>5 DEF SendMine
    <2>2. PICK sent : sent = [id |-> ticks, number |-> loop.number, button |-> TRUE, node |-> n,
                              chosen |-> loop.network, network |-> selected, answer |-> "none"]
        OBVIOUS
    <2>3. timer = TRUE /\ timer' = FALSE /\ loop' = loop
        BY <1>5 DEF SendMine, LoopInv
    <2>4. loop.on = TRUE /\ Current = {}
        BY <2>3 DEF LoopInv
    <2>5. sent.number = loop.number /\ requests' = requests \cup {sent}
        BY <2>1, <2>2
    <2>6. Current' = {sent}
        BY <2>3, <2>4, <2>5 DEF Current
    <2>. QED
        BY <1>1, <2>3, <2>4, <2>6 DEF LoopInv
<1>6. ASSUME NEW m \in Network, SelectNetwork(m)
      PROVE  LoopInv'
    BY <1>2, <1>3, <1>6 DEF SelectNetwork
<1>7. ASSUME NEW r \in requests, Tick(r)
      PROVE  LoopInv'
    <2>1. requests' = requests \ {r} /\ loop' = loop
        BY <1>7 DEF Tick
    <2>2. Current' = Current \ {r}
        BY <2>1 DEF Current
    <2>3. CASE r \in Current
        <3>1. loop.on = TRUE /\ ~timer /\ Current = {r}
            BY <2>3 DEF LoopInv, Current
        <3>2. timer' = TRUE
            BY <1>7, <2>3, <3>1 DEF Tick, Current
        <3>. QED
            BY <2>1, <2>2, <3>1, <3>2 DEF LoopInv
    <2>4. CASE r \notin Current
        <3>1. timer' = timer
            <4>1. ~(loop.on /\ r.number = loop.number)
                BY <2>4 DEF Current
            <4>2. timer' = (timer \/ (loop.on /\ r.number = loop.number))
                BY <1>7 DEF Tick
            <4>3. timer \in BOOLEAN
                BY DEF LoopInv
            <4>. QED
                BY <4>1, <4>2, <4>3
        <3>2. Current' = Current
            BY <2>2, <2>4
        <3>. QED
            BY <2>1, <3>1, <3>2 DEF LoopInv
    <2>. QED
        BY <2>3, <2>4
<1>8. ASSUME NEW r \in requests, TickFails(r)
      PROVE  LoopInv'
    <2>1. CASE r.button
        BY <1>2, <1>8, <2>1 DEF TickFails
    <2>2. CASE ~r.button
        <3>1. requests' = requests \ {r} /\ loop' = loop /\ timer' = timer
            BY <1>8, <2>2 DEF TickFails
        <3>2. r \notin Current
            BY <1>1, <2>2 DEF Current
        <3>3. Current' = Current
            BY <3>1, <3>2 DEF Current
        <3>. QED
            BY <3>1, <3>3 DEF LoopInv
    <2>. QED
        BY <2>1, <2>2
<1>9. ASSUME NEW r \in requests, NEW answer \in {"ok", "failed"}, Answered(r, answer)
      PROVE  LoopInv'
    <2>1. PICK s : s = [r EXCEPT !.answer = answer]
        OBVIOUS
    <2>2. s.number = r.number
        BY <2>1, AnswerFields
    <2>3. requests' = (requests \ {r}) \cup {s} /\ UNCHANGED <<loop, timer>>
        BY <1>9, <2>1 DEF Answered
    <2>4. CASE r \in Current
        <3>1. loop.on = TRUE /\ ~timer /\ Current = {r}
            BY <2>4 DEF LoopInv, Current
        <3>2. Current' = {s}
            BY <2>2, <2>3, <3>1 DEF Current
        <3>. QED
            BY <2>3, <3>1, <3>2 DEF LoopInv
    <2>5. CASE r \notin Current
        <3>1. Current' = Current
            BY <2>2, <2>3, <2>5 DEF Current
        <3>. QED
            BY <2>3, <3>1 DEF LoopInv
    <2>. QED
        BY <2>4, <2>5
<1>10. CASE UNCHANGED autoVars \/ LoadNetwork
    BY <1>3, <1>10 DEF autoVars, LoadNetwork
<1>. QED
    BY <1>2, <1>4, <1>5, <1>6, <1>7, <1>8, <1>9, <1>10, LoopSteps DEF StopAutoMine, NoMiner

LEMMA LoopInit ==
    ASSUME Init
    PROVE  RequestsInv /\ LoopInv
BY HomeAssumption DEF Init, AutoMineInit, RequestsInv, LoopInv, Request

LEMMA OneLoopMines ==
    ASSUME LoopInv
    PROVE  OneLoop
<1>1. Current = {r \in requests : r.number = loop.number /\ loop.on}
    BY DEF Current
<1>2. CASE timer
    <2>1. loop.on /\ Current = {}
        BY <1>2 DEF LoopInv
    <2>2. Cardinality(Current) = 0
        BY <2>1, FS_EmptySet
    <2>. QED
        BY <1>1, <1>2, <2>1, <2>2 DEF OneLoop
<1>3. CASE ~timer /\ loop.on
    <2>1. PICK r : Current = {r}
        BY <1>3 DEF LoopInv
    <2>2. Cardinality(Current) = 1
        BY <2>1, FS_Singleton
    <2>. QED
        BY <1>1, <1>3, <2>2 DEF OneLoop
<1>4. CASE ~timer /\ ~loop.on
    <2>1. Current = {}
        BY <1>4 DEF Current
    <2>2. Cardinality(Current) = 0
        BY <2>1, FS_EmptySet
    <2>. QED
        BY <1>1, <1>4, <2>2 DEF OneLoop
<1>. QED
    BY <1>2, <1>3, <1>4

\* Auto-mine that is on has one loop: one timer of scheduleNextTick, or one request of
\* mineNextBlock whose answer sets the next timer; when stopAutoMine has turned it off, or
\* the network selected has, no timer is left, and no late answer starts a second loop.
THEOREM LoopCorrect == Spec => []OneLoop
<1>1. Init => RequestsInv /\ LoopInv
    BY LoopInit
<1>2. RequestsInv /\ LoopInv /\ [Next]_vars => (RequestsInv /\ LoopInv)'
    BY RequestsStep, LoopStep
<1>3. LoopInv => OneLoop
    BY OneLoopMines
<1>. QED
    BY <1>1, <1>2, <1>3, PTL DEF Spec


-----------------------------------------------------------------------------
(* The types of the workflows and their nodes. *)

TypesInv == WorkflowTypeOK /\ ChainInv /\ NodesInv /\ HandsInv /\ RequestsInv

\* At first every node has the same chain, one block at each height.
LEMMA ChainsInit ==
    ASSUME ChainInit, WorkflowInit
    PROVE  ChainInv /\ NodesInv
<1>1. FirstHeight \in Nat
    BY ChainAssumption
<1>2. chain = [b \in 0 .. FirstHeight |-> 0 .. b] /\ Blocks = 0 .. FirstHeight
    BY DEF ChainInit, Blocks
<1>3. Tall = FirstHeight + 1
    BY <1>1, <1>2, FS_Interval DEF Tall
<1>4. \A b \in Blocks : b \in Nat /\ chain[b] = 0 .. b /\ HeightOf(b) = b
    <2>1. ASSUME NEW b \in Blocks
          PROVE  b \in Nat /\ chain[b] = 0 .. b /\ HeightOf(b) = b
        <3>1. b \in Nat /\ chain[b] = 0 .. b
            BY <1>1, <1>2
        <3>2. Cardinality(0 .. b) = b + 1
            BY <3>1, FS_Interval
        <3>. QED
            BY <3>1, <3>2 DEF HeightOf
    <2>. QED
        BY <2>1
<1>5. ChainInv
    <2>1. Tall \in Nat \ {0} /\ Blocks = 0 .. (Tall - 1)
        BY <1>1, <1>2, <1>3
    <2>2. \A b \in Blocks : 0 \in chain[b] /\ b \in chain[b] /\ chain[b] \subseteq 0 .. b
        BY <1>4
    <2>3. \A b \in Blocks : \A c \in chain[b] : c \in Blocks
        BY <1>1, <1>2, <1>4
    <2>4. \A b \in Blocks : \A c \in chain[b] : chain[c] \subseteq chain[b]
        BY <1>4, <2>3
    <2>5. \A b \in Blocks : \A h \in 0 .. HeightOf(b) : \E c \in chain[b] : HeightOf(c) = h
        <3>1. ASSUME NEW b \in Blocks, NEW h \in 0 .. HeightOf(b)
              PROVE  h \in chain[b] /\ HeightOf(h) = h
            BY <1>4, <2>3
        <3>. QED
            BY <3>1
    <2>. QED
        BY <2>1, <2>2, <2>4, <2>5 DEF ChainInv
<1>6. NodesInv
    <2>1. 0 \in Blocks /\ \A b \in Blocks : chain[b] \subseteq Blocks
        BY <1>1, <1>2, <1>4
    <2>. QED
        BY <2>1 DEF ChainInit, WorkflowInit, NodesInv
<1>. QED
    BY <1>5, <1>6

LEMMA TypesInit ==
    ASSUME Init
    PROVE  TypesInv
<1>1. ChainInit /\ WorkflowInit
    BY DEF Init
<1>2. ChainInv /\ NodesInv
    BY <1>1, ChainsInit
<1>3. \A b \in Blocks : b \in chain[b] /\ chain[b] \subseteq 0 .. b
    BY <1>2 DEF ChainInv
<1>4. \A n \in Node : /\ received[n] \in [DOMAIN received[n] -> Nat]
                      /\ DOMAIN received[n] \cup invalid[n] \cup abandoned[n] \subseteq Blocks
    <2>1. Blocks \subseteq Nat
        BY <1>2 DEF ChainInv
    <2>. QED
        BY <1>1, <2>1 DEF ChainInit, WorkflowInit
<1>5. flow \in [Page -> Flow] /\ HandsInv
    BY <1>1 DEF WorkflowInit, Flow, HandsInv, Hands, Calling, NoFlow
<1>6. WorkflowTypeOK
    BY <1>1, <1>3, <1>4, <1>5 DEF WorkflowTypeOK, ChainInit, WorkflowInit
<1>. QED
    BY <1>2, <1>5, <1>6, LoopInit DEF TypesInv

\* Only blocks that a workflow has invalidated are abandoned.
LEMMA HistoryTypes ==
    ASSUME TypesInv, [Next]_vars
    PROVE  /\ \A n \in Node : invalid'[n] \cup abandoned'[n] \subseteq Blocks'
           /\ online' \cup stranded' \subseteq Node /\ disturbed' \subseteq Page
<1>1. Blocks \subseteq Blocks' /\ NodesInv'
    BY NodesStep DEF TypesInv
<1>2. \A n \in Node : invalid'[n] \subseteq Blocks'
    BY <1>1 DEF NodesInv
<1>3. /\ \A n \in Node : abandoned[n] \subseteq Blocks
      /\ online \subseteq Node /\ stranded \subseteq Node /\ disturbed \subseteq Page
      /\ DOMAIN abandoned = Node
    BY DEF TypesInv, WorkflowTypeOK, NodesInv
<1>4. ASSUME NEW p \in Page, FlowStep(p)
      PROVE  /\ \A n \in Node : abandoned'[n] \subseteq Blocks'
             /\ online' \cup stranded' \subseteq Node /\ disturbed' \subseteq Page
    <2>1. /\ flow[p].step # "idle" => flow[p].node \in Node /\ flow[p].old \in Blocks
          /\ flow[p].call # "none" => flow[p].node \in Node /\ flow[p].old \in Blocks
        BY RunningTypes DEF TypesInv, RunningFlow
    <2>2. CASE \E n \in Node, depth \in Depths : StartReorg(p, n, depth)
        BY <1>1, <1>3, <2>2 DEF StartReorg, chainVars
    <2>3. CASE Succeeds(p)
        BY <1>1, <1>3, <2>3 DEF Succeeds, GoOn, End, chainVars
    <2>4. CASE Fails(p) \/ ClosePage(p)
        <3>1. flow[p].node \in Node /\ flow[p].old \in Blocks
            BY <2>1, <2>4 DEF Fails, ClosePage, Running
        <3>2. \A n \in Node : abandoned'[n] \subseteq Blocks'
            BY <1>1, <1>3, <2>4, <3>1 DEF Fails, ClosePage, Abandon
        <3>. QED
            BY <1>3, <2>4, <3>1, <3>2 DEF Fails, ClosePage, GoOn, End, chainVars
    <2>5. CASE CallFails(p) \/ ReadHeight(p) \/ ReadHash(p)
        BY <1>1, <1>3, <2>5 DEF CallFails, ReadHeight, ReadHash, chainVars, historyVars
    <2>6. CASE SetActive(p)
        <3>1. flow[p].node \in Node
            BY <2>1, <2>6 DEF SetActive
        <3>. QED
            BY <1>1, <1>3, <2>6, <3>1 DEF SetActive, SetNetworkActive, Disturb
    <2>7. CASE Invalidate(p) \/ Reconsider(p) \/ MineOne(p)
        BY <1>1, <1>3, <2>7 DEF Invalidate, Reconsider, MineOne, InvalidateBlock, ReconsiderBlock, MineBlock, Disturb
    <2>. QED
        BY <1>4, <2>2, <2>3, <2>4, <2>5, <2>6, <2>7 DEF FlowStep
<1>5. ASSUME UNCHANGED <<stranded, abandoned>>, online' = online, disturbed' = disturbed \/ disturbed' = disturbed \cup {p \in Page : Running(p)}
      PROVE  /\ \A n \in Node : abandoned'[n] \subseteq Blocks'
             /\ online' \cup stranded' \subseteq Node /\ disturbed' \subseteq Page
    BY <1>1, <1>3, <1>5
<1>. QED
    BY <1>2, <1>4, <1>5, StepKinds DEF TypesInv, MinedFor, MineBlock, Download, chainVars, historyVars

LEMMA TypesStep ==
    ASSUME TypesInv, [Next]_vars
    PROVE  TypesInv'
<1>1. /\ ChainInv' /\ NodesInv'
      /\ \A m \in Node : received'[m] \in [DOMAIN received'[m] -> Nat] /\ DOMAIN received'[m] \subseteq Blocks'
    BY NodesStep DEF TypesInv
<1>2. \A b \in Blocks' : b \in chain'[b] /\ chain'[b] \subseteq 0 .. b
    BY <1>1 DEF ChainInv
<1>3. flow' \in [Page -> Flow']
    BY FlowTypes DEF TypesInv
<1>4. WorkflowTypeOK'
    BY <1>1, <1>2, <1>3, HistoryTypes DEF WorkflowTypeOK
<1>. QED
    BY <1>1, <1>4, HandsStep, RequestsStep DEF TypesInv

\* The workflows and the nodes keep their types: the block that a workflow had
\* rewind_active_chain invalidate, the tip it counted from and the blocks it had mined exist,
\* its count of blocks to mine never goes below zero, and a node has, and has marked invalid,
\* only blocks that were mined, numbered above their ancestors.
THEOREM TypeCorrect == Spec => []WorkflowTypeOK
<1>1. TypesInv => WorkflowTypeOK
    BY DEF TypesInv
<1>. QED
    BY <1>1, TypesInit, TypesStep, PTL DEF Spec


-----------------------------------------------------------------------------
(* The marks of invalid blocks. *)

\* What a workflow that ends or gives up has not reconsidered is abandoned.
LEMMA AbandonedStep ==
    ASSUME TypesInv, [Next]_vars
    PROVE  /\ \A n \in Node : abandoned[n] \subseteq abandoned'[n]
           /\ \A p \in Page : Abandon(p) /\ flow[p].step \in {"rewinding", "mining", "reconsidering"}
                => flow[p].old \in abandoned'[flow[p].node]
<1>1. DOMAIN abandoned = Node
    BY DEF TypesInv, NodesInv
<1>2. ASSUME NEW p \in Page, Abandon(p)
      PROVE  /\ \A n \in Node : abandoned[n] \subseteq abandoned'[n]
             /\ flow[p].step \in {"rewinding", "mining", "reconsidering"}
                    => flow[p].old \in abandoned'[flow[p].node]
    <2>1. CASE flow[p].step \in {"rewinding", "mining", "reconsidering"}
        <3>1. flow[p].node \in Node
            BY <2>1, RunningTypes DEF TypesInv, RunningFlow
        <3>2. abandoned' = [abandoned EXCEPT ![flow[p].node] = @ \cup {flow[p].old}]
            BY <1>2, <2>1 DEF Abandon
        <3>. QED
            BY <1>1, <3>1, <3>2
    <2>2. CASE flow[p].step \notin {"rewinding", "mining", "reconsidering"}
        BY <1>2, <2>2 DEF Abandon
    <2>. QED
        BY <2>1, <2>2
<1>3. ASSUME NEW p \in Page, FlowStep(p)
      PROVE  abandoned' = abandoned \/ Abandon(p)
    BY <1>3 DEF FlowStep, StartReorg, Succeeds, Fails, ClosePage, CallFails, SetActive, ReadHeight,
         ReadHash, Invalidate, MineOne, Reconsider, historyVars
<1>4. \A n \in Node : abandoned[n] \subseteq abandoned'[n]
    BY <1>2, <1>3, StepKinds DEF TypesInv, MinedFor, historyVars
<1>. QED
    BY <1>2, <1>4

\* A workflow keeps its mark until it removes it or gives up.
LEMMA OwnMark ==
    ASSUME TypesInv, [Next]_vars, NEW p \in Page, FlowStep(p), NEW n \in Node, NEW b \in invalid[n],
           Marked(p, n, b)
    PROVE  Marked(p, n, b)' \/ b \in abandoned'[n] \/ b \notin invalid'[n]
<1>1. flow[p].node = n /\ flow[p].old = b /\ flow[p].step \in {"rewinding", "mining", "reconsidering"}
    BY DEF Marked
<1>2. ~(flow[p].step = "reconsidering" /\ flow[p].call = "ok")
    BY DEF Marked, Calling
<1>3. b # 0 /\ b \in Blocks
    BY DEF TypesInv, NodesInv
<1>4. ASSUME flow'[p].node = n, flow'[p].old = b, flow'[p].step \in {"rewinding", "mining", "reconsidering"},
             ~(flow'[p].step = "reconsidering" /\ flow'[p].call = "ok")
      PROVE  Marked(p, n, b)'
    BY <1>4 DEF Marked, Calling
<1>5. CASE Ends(p)
    <2>1. Abandon(p)
        BY <1>1, <1>5 DEF Ends, ClosePage
    <2>. QED
        BY <1>1, <2>1, AbandonedStep
<1>6. ASSUME NEW m \in Node, NEW depth \in Depths, Starts(p, m, depth)
      PROVE  FALSE
    BY <1>1, <1>6 DEF Starts, NoFlow
<1>7. ASSUME flow[p] \in RunningFlow, NEW step \in Later, GoesOn(p, step)
      PROVE  Marked(p, n, b)' \/ b \in abandoned'[n]
    <2>1. CASE Fails(p)
        <3>1. Abandon(p)
            BY <2>1 DEF Fails
        <3>. QED
            BY <1>1, <3>1, AbandonedStep
    <2>2. CASE flow[p].call = "ok" /\ step = After(flow[p].step)
        <3>1. step \in {"mining", "reconsidering"}
            BY <1>1, <1>2, <2>2 DEF After
        <3>. QED
            BY <1>1, <1>4, <1>7, <3>1, GoesOnFields
    <2>. QED
        BY <1>7, <2>1, <2>2 DEF GoesOn
<1>8. ASSUME flow[p] \in RunningFlow, NEW call \in {"ok", "failed"}, Answers(p, call)
      PROVE  Marked(p, n, b)' \/ b \notin invalid'[n]
    <2>1. CASE call = "failed"
        BY <1>1, <1>4, <1>8, <2>1, AnswersFields
    <2>2. CASE call = "ok"
        <3>1. Reconsider(p)
            BY <1>1, <1>8, <2>2 DEF Answers, SetsActive
        <3>2. invalid' = [invalid EXCEPT ![n] = {c \in @ : c \notin chain[b] /\ b \notin chain[c]}]
            BY <1>1, <3>1 DEF Reconsider, ReconsiderBlock
        <3>3. b \in chain[b] /\ DOMAIN invalid = Node
            BY <1>3 DEF TypesInv, ChainInv, NodesInv
        <3>. QED
            BY <3>2, <3>3
    <2>. QED
        BY <2>1, <2>2
<1>9. ASSUME flow[p] \in RunningFlow, NEW call \in {"height", "failed"}, NEW at \in Nat, HeightRead(p, call, at)
      PROVE  Marked(p, n, b)'
    BY <1>1, <1>4, <1>9, HeightReadFields DEF TypesInv
<1>10. CASE flow[p] \in RunningFlow /\ HashRead(p)
    BY <1>1, <1>4, <1>10, HashReadFields DEF TypesInv
<1>11. CASE flow[p] \in RunningFlow /\ Invalidated(p)
    BY <1>1, <1>3, <1>11, InvalidatedFields DEF TypesInv, HandsInv, Hands
<1>12. CASE flow[p] \in RunningFlow /\ MinedOne(p)
    <2>1. Blocks \subseteq Blocks'
        BY NodesStep DEF TypesInv
    <2>. QED
        BY <1>1, <1>4, <1>12, <2>1, MinedOneFields DEF TypesInv
<1>. QED
    BY <1>5, <1>6, <1>7, <1>8, <1>9, <1>10, <1>11, <1>12, OwnFlow DEF TypesInv

\* Only Invalidate marks a block.
LEMMA NewMarks ==
    ASSUME TypesInv, [Next]_vars, NEW n \in Node, NEW b \in invalid'[n], b \notin invalid[n]
    PROVE  \E p \in Page : Marked(p, n, b)' /\ Invalidate(p) /\ flow[p].node = n /\ flow[p].at = b
<1>1. DOMAIN invalid = Node
    BY DEF TypesInv, NodesInv
<1>2. PICK p \in Page : FlowStep(p)
    BY StepKinds DEF TypesInv, MinedFor, MineBlock, Download, chainVars
<1>3. ~UNCHANGED invalid
    OBVIOUS
<1>4. ~Reconsider(p)
    BY <1>1 DEF Reconsider, ReconsiderBlock
<1>5. Invalidate(p)
    BY <1>2, <1>3, <1>4 DEF FlowStep, StartReorg, Succeeds, Fails, ClosePage, CallFails, SetActive,
       SetNetworkActive, ReadHeight, ReadHash, MineOne, MineBlock, chainVars
<1>6. flow[p].call = "hash" /\ flow[p].step = "rewinding"
    BY <1>5 DEF Invalidate, Calling
<1>7. flow[p] \in RunningFlow
    BY <1>6, RunningTypes DEF TypesInv
<1>8. Invalidated(p)
    <2>1. DOMAIN flow = Page
        BY DEF TypesInv, WorkflowTypeOK
    <2>. QED
        BY <1>5, <1>7, <2>1 DEF Invalidate, RunningFlow, Invalidated
<1>9. flow[p].node = n /\ flow[p].at = b
    BY <1>1, <1>5, <1>7 DEF Invalidate, InvalidateBlock, RunningFlow
<1>. QED
    BY <1>5, <1>7, <1>8, <1>9, InvalidatedFields DEF TypesInv, Marked, Calling

LEMMA MarksStep ==
    ASSUME TypesInv, MarksInv, [Next]_vars
    PROVE  MarksInv'
<1>1. ASSUME NEW n \in Node, NEW b \in invalid'[n], b \in invalid[n], NEW p \in Page, Marked(p, n, b)
      PROVE  b \in abandoned'[n] \/ \E q \in Page : Marked(q, n, b)'
    <2>1. CASE flow'[p] = flow[p]
        BY <1>1, <2>1 DEF Marked, Calling
    <2>2. CASE flow'[p] # flow[p]
        <3>1. FlowStep(p)
            BY <2>2, StepKinds, OtherFlows DEF TypesInv, MinedFor
        <3>. QED
            BY <1>1, <3>1, OwnMark
    <2>. QED
        BY <2>1, <2>2
<1>2. ASSUME NEW n \in Node, NEW b \in invalid'[n]
      PROVE  b \in abandoned'[n] \/ \E q \in Page : Marked(q, n, b)'
    <2>1. CASE b \notin invalid[n]
        BY <2>1, NewMarks
    <2>2. CASE b \in invalid[n]
        BY <1>1, <2>2, AbandonedStep DEF MarksInv
    <2>. QED
        BY <2>1, <2>2
<1>. QED
    BY <1>2 DEF MarksInv

LEMMA MarksInit ==
    ASSUME Init
    PROVE  MarksInv
BY DEF Init, ChainInit, MarksInv

\* A block that rewind_active_chain has invalidated stays marked on its node only while a
\* workflow of triggerReorg that is to reconsider it runs there, or after one that failed or
\* whose page was closed: a workflow that completes leaves no mark, however workflows,
\* mining and the nodes' downloads overlap.
THEOREM MarksCorrect == Spec => []MarksOwned
<1>1. Init => TypesInv /\ MarksInv
    BY TypesInit, MarksInit
<1>2. TypesInv /\ MarksInv /\ [Next]_vars => (TypesInv /\ MarksInv)'
    BY TypesStep, MarksStep
<1>3. MarksInv => MarksOwned
    BY DEF MarksInv, MarksOwned, Marked
<1>. QED
    BY <1>1, <1>2, <1>3, PTL DEF Spec


-----------------------------------------------------------------------------
(* The node of a workflow that nobody has interfered with. *)

\* Nobody but the page itself ends what has interfered with its workflow.
LEMMA DisturbedStep ==
    ASSUME NEW p \in Page, FlowStep(p)
    PROVE  disturbed \ {p} \subseteq disturbed'
BY DEF FlowStep, StartReorg, Succeeds, Fails, ClosePage, CallFails, SetActive, ReadHeight, ReadHash, Invalidate,
    MineOne, Reconsider, GoOn, End, Disturb, historyVars

\* Only SetActive changes whether a node is connected, and it disturbs the others there.
LEMMA OnlineStep ==
    ASSUME TypesInv, NEW p \in Page, FlowStep(p), NEW q \in Page, flow[q].node \notin online
    PROVE  \/ flow[q].node \notin online'
           \/ SetActive(p) /\ flow[p].step # "disconnecting" /\ flow[p].node = flow[q].node
<1>1. CASE SetActive(p)
    BY <1>1 DEF SetActive, SetNetworkActive
<1>2. CASE ~SetActive(p)
    <2>1. online' = online
        BY <1>2 DEF FlowStep, StartReorg, Succeeds, Fails, ClosePage, CallFails, ReadHeight, ReadHash, Invalidate,
            InvalidateBlock, MineOne, MineBlock, Reconsider, ReconsiderBlock, chainVars
    <2>. QED
        BY <2>1
<1>. QED
    BY <1>1, <1>2

\* A call that changes the node disturbs every other workflow there.
LEMMA Disturbs ==
    ASSUME NEW p \in Page, SetActive(p) \/ Reconsider(p) \/ Invalidate(p) \/ MineOne(p),
           NEW q \in Page \ {p}, Running(q), flow[q].node = flow[p].node
    PROVE  q \in disturbed'
BY DEF SetActive, Reconsider, Invalidate, MineOne, Disturb

\* What a step leaves of the workflow of its own page.
LEMMA OwnSeclusion ==
    ASSUME TypesInv, PrivateInv, [Next]_vars, NEW p \in Page, FlowStep(p), p \notin disturbed'
    PROVE  /\ Secluded(p)' => flow'[p].node \notin online'
           /\ \A q \in Page \ {p} :
                Running(p)' /\ Running(q) /\ flow[q].node = flow'[p].node => Waiting(q)
<1>1. DOMAIN flow = Page /\ WorkflowTypeOK /\ ChainInv /\ NodesInv /\ HandsInv
    BY DEF TypesInv, WorkflowTypeOK
<1>2. CASE Ends(p)
    BY <1>2 DEF Ends, Secluded, Calling, Running, NoFlow
<1>3. ASSUME NEW n \in Node, NEW depth \in Depths, Starts(p, n, depth)
      PROVE  /\ ~Secluded(p)'
             /\ \A q \in Page \ {p} : ~(Running(q) /\ flow[q].node = flow'[p].node)
    <2>1. flow'[p].step = "disconnecting" /\ flow'[p].call = "sent" /\ flow'[p].node = n
        BY <1>3, StartsFields
    <2>2. disturbed' = IF \E q \in Page : Running(q) /\ flow[q].node = n THEN disturbed \cup {p} ELSE disturbed
        BY <1>3 DEF Starts, StartReorg
    <2>3. ~\E q \in Page : Running(q) /\ flow[q].node = n
        BY <2>2
    <2>. QED
        BY <2>1, <2>3 DEF Secluded, Calling
<1>4. ASSUME flow[p] \in RunningFlow, flow'[p].node = flow[p].node, disturbed \subseteq disturbed'
      PROVE  /\ Secluded(p) => flow[p].node \notin online
             /\ \A q \in Page \ {p} : Running(q) /\ flow[q].node = flow'[p].node => Waiting(q)
    <2>1. Running(p) /\ p \notin disturbed
        BY <1>4 DEF Running, RunningFlow, WorkflowSteps, SetsActive
    <2>. QED
        BY <1>4, <2>1 DEF PrivateInv
<1>5. ASSUME ~SetActive(p), flow[p].node \notin online
      PROVE  flow[p].node \notin online'
    BY <1>5, OnlineStep
<1>6. ASSUME flow[p] \in RunningFlow, NEW step \in Later, GoesOn(p, step)
      PROVE  /\ flow'[p].node = flow[p].node /\ disturbed \subseteq disturbed'
             /\ Secluded(p)' => Secluded(p) /\ ~SetActive(p)
    <2>1. /\ flow'[p].step = step /\ flow'[p].call = "sent" /\ flow'[p].node = flow[p].node
        BY <1>6, GoesOnFields
    <2>2. flow[p].call \in {"ok", "failed"}
        BY <1>6 DEF GoesOn
    <2>3. ~SetActive(p)
        BY <2>2 DEF SetActive
    <2>4. disturbed' = disturbed
        <3>1. CASE Succeeds(p) /\ step = After(flow[p].step)
            BY <3>1 DEF Succeeds, GoOn, Later
        <3>2. CASE Fails(p) /\ flow[p].step \notin {"disconnecting", "restoring"}
            BY <3>2 DEF Fails, GoOn
        <3>. QED
            BY <1>6, <3>1, <3>2 DEF GoesOn
    <2>5. Secluded(p)' => Secluded(p)
        <3>1. CASE flow[p].call = "ok" /\ step = After(flow[p].step) /\ flow[p] \in RunningFlow
            BY <2>1, <2>4, <3>1 DEF Secluded, Calling, After, RunningFlow, WorkflowSteps, SetsActive
        <3>2. CASE step = "restoring"
            BY <2>1, <3>2 DEF Secluded, Calling
        <3>. QED
            BY <1>6, <3>1, <3>2 DEF GoesOn
    <2>. QED
        BY <2>1, <2>3, <2>4, <2>5
<1>7. ASSUME flow[p] \in RunningFlow, NEW call \in {"ok", "failed"}, Answers(p, call)
      PROVE  /\ flow'[p].node = flow[p].node /\ disturbed \subseteq disturbed'
             /\ Secluded(p)' => flow'[p].node \notin online' \/ (Secluded(p) /\ ~SetActive(p))
    <2>1. flow'[p].step = flow[p].step /\ flow'[p].call = call /\ flow'[p].node = flow[p].node
        BY <1>7, AnswersFields
    <2>2. CASE SetActive(p) /\ call = "ok"
        <3>1. Secluded(p)' => flow[p].step = "disconnecting"
            BY <2>1, <2>2 DEF Secluded, Calling, SetActive, SetsActive
        <3>2. flow[p].step = "disconnecting" => flow[p].node \notin online'
            BY <2>2 DEF SetActive, SetNetworkActive
        <3>. QED
            BY <2>1, <2>2, <3>1, <3>2 DEF SetActive, Disturb
    <2>3. CASE Reconsider(p) \/ (call = "failed" /\ (CallFails(p) \/ ReadHash(p)))
        <3>1. disturbed \subseteq disturbed'
            BY <2>3 DEF Reconsider, Disturb, CallFails, ReadHash, historyVars
        <3>2. ~SetActive(p)
            <4>1. CASE Reconsider(p)
                BY <4>1 DEF Reconsider, Calling, SetActive, SetsActive
            <4>2. CASE call = "failed"
                <5>1. flow'[p].call = "failed"
                    BY <2>1, <4>2
                <5>2. ASSUME SetActive(p)
                      PROVE  flow'[p].call = "ok"
                    BY <1>1, <1>7, <5>2 DEF SetActive, Call, RunningFlow
                <5>. QED
                    BY <5>1, <5>2
            <4>. QED
                BY <2>3, <4>1, <4>2
        <3>3. Reconsider(p) => flow[p].step = "reconsidering"
            BY DEF Reconsider, Calling
        <3>4. Secluded(p)' => Secluded(p)
            BY <2>1, <2>3, <3>1, <3>3 DEF Secluded, Calling
        <3>. QED
            BY <2>1, <3>1, <3>2, <3>4
    <2>. QED
        BY <1>7, <2>2, <2>3 DEF Answers
<1>8. ASSUME flow[p] \in RunningFlow,
             \/ \E call \in {"height", "failed"}, at \in Nat : HeightRead(p, call, at)
             \/ HashRead(p) \/ Invalidated(p) \/ MinedOne(p)
      PROVE  /\ flow'[p].node = flow[p].node /\ disturbed \subseteq disturbed'
             /\ Secluded(p)' => Secluded(p) /\ ~SetActive(p)
    <2>1. Blocks \subseteq Blocks'
        BY NodesStep DEF TypesInv
    <2>2. flow'[p].node = flow[p].node /\ flow[p].step \in {"rewinding", "mining"} /\ flow'[p].step = flow[p].step
        BY <1>1, <1>8, <2>1, HeightReadFields, HashReadFields, InvalidatedFields, MinedOneFields
    <2>3. disturbed \subseteq disturbed'
        BY <1>8 DEF HeightRead, ReadHeight, HashRead, ReadHash, Invalidated, Invalidate, MinedOne, MineOne,
            Disturb, historyVars
    <2>4. ~SetActive(p)
        BY <2>2 DEF SetActive, SetsActive
    <2>. QED
        BY <2>2, <2>3, <2>4 DEF Secluded
<1>. QED
    <2>1. CASE /\ flow[p] \in RunningFlow /\ flow'[p].node = flow[p].node /\ disturbed \subseteq disturbed'
               /\ Secluded(p)' => flow'[p].node \notin online' \/ (Secluded(p) /\ ~SetActive(p))
        BY <1>4, <1>5, <2>1
    <2>. QED
        BY <1>1, <1>2, <1>3, <1>6, <1>7, <1>8, <2>1, OwnFlow


\* A workflow that another page's step comes upon is disturbed, or that page only waits.
LEMMA OtherSeclusion ==
    ASSUME TypesInv, PrivateInv, [Next]_vars, NEW p \in Page, FlowStep(p), NEW q \in Page \ {p}, q \notin disturbed'
    PROVE  /\ Secluded(q) => flow[q].node \notin online'
           /\ Running(q) /\ Running(p)' /\ flow'[p].node = flow[q].node => Waiting(p)'
<1>1. q \notin disturbed /\ WorkflowTypeOK /\ ChainInv /\ NodesInv /\ HandsInv
    BY DisturbedStep DEF TypesInv
<1>2. Secluded(q) => flow[q].node \notin online'
    <2>1. Secluded(q) => Running(q)
        BY DEF Secluded, Running, Calling
    <2>2. ~(SetActive(p) /\ Running(q) /\ flow[p].node = flow[q].node)
        BY Disturbs
    <2>. QED
        BY <2>1, <2>2, OnlineStep DEF PrivateInv
<1>3. ASSUME flow[p] \in RunningFlow, Running(q), flow[p].node = flow[q].node
      PROVE  flow[p].step = "disconnecting" /\ flow[p].call \in {"sent", "failed"}
    <2>1. Running(p)
        BY <1>3 DEF Running, RunningFlow, WorkflowSteps, SetsActive
    <2>. QED
        BY <1>1, <1>3, <2>1 DEF PrivateInv, Waiting
<1>4. ASSUME Running(q), Running(p)', flow'[p].node = flow[q].node
      PROVE  Waiting(p)'
    <2>1. CASE Ends(p)
        BY <1>4, <2>1 DEF Ends, Running, NoFlow
    <2>2. ASSUME NEW n \in Node, NEW depth \in Depths, Starts(p, n, depth)
          PROVE  Waiting(p)'
        BY <2>2, StartsFields DEF Waiting
    <2>3. ASSUME flow[p] \in RunningFlow, NEW step \in Later, GoesOn(p, step)
          PROVE  FALSE
        BY <1>3, <1>4, <2>3, GoesOnFields DEF GoesOn
    <2>4. ASSUME flow[p] \in RunningFlow, NEW call \in {"ok", "failed"}, Answers(p, call)
          PROVE  Waiting(p)'
        <3>1. flow'[p].step = "disconnecting" /\ flow'[p].call = call /\ flow[p].node = flow[q].node
            BY <1>3, <1>4, <2>4, AnswersFields
        <3>2. ~SetActive(p) /\ ~Reconsider(p)
            BY <1>4, <3>1, Disturbs
        <3>. QED
            BY <2>4, <3>1, <3>2 DEF Answers, Waiting
    <2>5. ASSUME flow[p] \in RunningFlow,
                 \/ \E call \in {"height", "failed"}, at \in Nat : HeightRead(p, call, at)
                 \/ HashRead(p) \/ Invalidated(p) \/ MinedOne(p)
          PROVE  FALSE
        <3>1. Blocks \subseteq Blocks'
            BY NodesStep DEF TypesInv
        <3>2. flow'[p].node = flow[p].node /\ flow[p].step \in {"rewinding", "mining"}
            BY <1>1, <2>5, <3>1, HeightReadFields, HashReadFields, InvalidatedFields, MinedOneFields
        <3>. QED
            BY <1>3, <1>4, <2>5, <3>2
    <2>. QED
        BY <1>1, <2>1, <2>2, <2>3, <2>4, <2>5, OwnFlow
<1>. QED
    BY <1>2, <1>4

LEMMA PrivateStep ==
    ASSUME TypesInv, PrivateInv, [Next]_vars
    PROVE  PrivateInv'
<1>1. ASSUME UNCHANGED flow, UNCHANGED online, disturbed \subseteq disturbed'
      PROVE  PrivateInv'
    BY <1>1 DEF PrivateInv, Secluded, Waiting, Running, Calling
<1>2. ASSUME NEW p \in Page, FlowStep(p)
      PROVE  PrivateInv'
    <2>1. \A q \in Page \ {p} : flow'[q] = flow[q]
        BY <1>2, OtherFlows DEF TypesInv
    <2>2. ASSUME NEW q \in Page \ {p}
          PROVE  /\ Running(q)' <=> Running(q)
                 /\ Waiting(q)' <=> Waiting(q)
                 /\ flow'[q].node = flow[q].node
                 /\ q \notin disturbed' => (Secluded(q)' <=> Secluded(q)) /\ q \notin disturbed
        <3>1. flow'[q] = flow[q]
            BY <2>1
        <3>2. q \notin disturbed' => q \notin disturbed
            BY <1>2, DisturbedStep
        <3>. QED
            BY <3>1, <3>2 DEF Running, Waiting, Secluded, Calling
    <2>3. ASSUME NEW q \in Page
          PROVE  /\ Secluded(q)' => flow'[q].node \notin online'
                 /\ q \notin disturbed' =>
                      \A r \in Page \ {q} :
                          Running(q)' /\ Running(r)' /\ flow'[r].node = flow'[q].node => Waiting(r)'
        <3>1. Secluded(q)' => q \notin disturbed'
            BY DEF Secluded
        <3>2. CASE q \in disturbed'
            BY <3>1, <3>2
        <3>3. CASE q = p /\ q \notin disturbed'
            BY <1>2, <2>2, <3>3, OwnSeclusion
        <3>4. CASE q # p /\ q \notin disturbed'
            <4>1. Secluded(q)' => flow'[q].node \notin online'
                BY <1>2, <2>2, <3>4, OtherSeclusion
            <4>2. ASSUME NEW r \in Page \ {q}, Running(q)', Running(r)', flow'[r].node = flow'[q].node
                  PROVE  Waiting(r)'
                <5>1. CASE r = p
                    BY <1>2, <2>2, <3>4, <4>2, <5>1, OtherSeclusion
                <5>2. CASE r # p
                    BY <2>2, <3>4, <4>2, <5>2 DEF PrivateInv
                <5>. QED
                    BY <5>1, <5>2
            <4>. QED
                BY <4>1, <4>2
        <3>. QED
            BY <3>2, <3>3, <3>4
    <2>. QED
        BY <2>3 DEF PrivateInv
<1>. QED
    BY <1>1, <1>2, StepKinds DEF TypesInv, MinedFor, MineBlock, Download, chainVars, historyVars

\* What a workflow has mined no other node has.
LEMMA MinedStep ==
    ASSUME TypesInv, PrivateInv, MinedInPrivate, [Next]_vars
    PROVE  MinedInPrivate'
<1>1. WorkflowTypeOK /\ ChainInv /\ NodesInv /\ HandsInv
    BY DEF TypesInv
<1>2. ASSUME NEW p \in Page, p \notin disturbed, flow[p].step \in {"mining", "reconsidering"}
      PROVE  /\ flow[p].node \in Node /\ flow[p].node \notin online /\ Running(p)
             /\ \A m \in Node \ {flow[p].node} : DOMAIN received[m] \cap flow[p].mined = {}
    <2>1. flow[p].node \in Node
        BY <1>1, <1>2, RunningTypes DEF RunningFlow
    <2>. QED
        BY <1>2, <2>1 DEF MinedInPrivate, PrivateInv, Secluded, Running
<1>3. ASSUME NEW p \in Page, FlowStep(p), NEW q \in Page \ {p}, q \notin disturbed', flow'[q].step \in {"mining", "reconsidering"},
             NEW m \in Node \ {flow'[q].node}
      PROVE  DOMAIN received'[m] \cap flow'[q].mined = {}
    <2>1. flow'[q] = flow[q] /\ q \notin disturbed
        BY <1>1, <1>3, OtherFlows, DisturbedStep
    <2>2. Running(q)
        BY <1>3, <2>1 DEF Running
    <2>3. ~MineOne(p)
        BY <1>3, <2>2 DEF MineOne
    <2>4. received' = received
        BY <1>3, <2>3 DEF FlowStep, StartReorg, Succeeds, Fails, ClosePage, CallFails, SetActive, SetNetworkActive,
           ReadHeight, ReadHash, Invalidate, InvalidateBlock, Reconsider, ReconsiderBlock, chainVars
    <2>. QED
        BY <1>2, <1>3, <2>1, <2>4
<1>4. ASSUME NEW p \in Page, FlowStep(p), p \notin disturbed', flow'[p].step \in {"mining", "reconsidering"},
             NEW m \in Node \ {flow'[p].node}
      PROVE  DOMAIN received'[m] \cap flow'[p].mined = {}
    <2>1. Blocks \subseteq Blocks'
        BY NodesStep DEF TypesInv
    <2>2. CASE MineOne(p)
        <3>1. flow[p] \in RunningFlow /\ flow[p].step = "mining" /\ flow[p].node \in Node
            BY <1>1, <2>2, RunningTypes DEF MineOne, Calling, RunningFlow
        <3>2. PICK new : new = Tall
            OBVIOUS
        <3>3. new \notin Blocks /\ Blocks' = Blocks \cup {new}
            BY <1>1, <2>2, <3>1, <3>2, Mined DEF MineOne
        <3>4. flow'[p].node = flow[p].node /\ flow'[p].mined = flow[p].mined \cup {new}
            <4>1. DOMAIN flow = Page
                BY <1>1 DEF WorkflowTypeOK
            <4>2. flow' = [flow EXCEPT ![p].left = @ - 1, ![p].mined = @ \cup (Blocks' \ Blocks),
                                       ![p].call = IF LastBlock(p) THEN "ok" ELSE "sent"]
                BY <2>2 DEF MineOne, Blocks
            <4>3. MinedOne(p)
                BY <2>2, <3>1, <4>1, <4>2 DEF MinedOne, LastBlock, AfterOne, RunningFlow
            <4>. QED
                BY <1>1, <2>1, <3>1, <3>3, <4>3, MinedOneFields
        <3>5. received'[m] = received[m] /\ DOMAIN received[m] \subseteq Blocks
            <4>1. received' = [received EXCEPT ![flow[p].node] = WithArrived(flow[p].node, {new})]
                BY <2>2, <3>2 DEF MineOne, MineBlock, Tall
            <4>. QED
                BY <1>1, <1>4, <3>4, <4>1 DEF WorkflowTypeOK, NodesInv
        <3>6. disturbed \subseteq disturbed'
            BY <2>2 DEF MineOne
        <3>7. p \notin disturbed
            BY <1>4, <3>6
        <3>8. DOMAIN received[m] \cap flow[p].mined = {}
            BY <1>2, <1>4, <3>1, <3>4, <3>7
        <3>. QED
            BY <3>3, <3>4, <3>5, <3>8
    <2>3. CASE ~MineOne(p)
        <3>1. received' = received
            BY <1>4, <2>3 DEF FlowStep, StartReorg, Succeeds, Fails, ClosePage, CallFails, SetActive, SetNetworkActive,
               ReadHeight, ReadHash, Invalidate, InvalidateBlock, Reconsider, ReconsiderBlock, chainVars
        <3>2. CASE Ends(p) \/ \E n \in Node, depth \in Depths : Starts(p, n, depth)
            BY <1>4, <3>2, StartsFields DEF Ends, NoFlow
        <3>3. ASSUME flow[p] \in RunningFlow, NEW step \in Later, GoesOn(p, step)
              PROVE  DOMAIN received'[m] \cap flow'[p].mined = {}
            <4>1. flow'[p].step = step /\ flow'[p].node = flow[p].node /\ flow'[p].mined = flow[p].mined
                BY <3>3, GoesOnFields
            <4>2. step = After(flow[p].step) /\ Succeeds(p)
                BY <1>4, <3>3, <4>1 DEF GoesOn
            <4>3. disturbed' = disturbed
                BY <4>2 DEF Succeeds, GoOn, Later
            <4>4. CASE step = "mining"
                <5>1. flow[p].step = "rewinding"
                    BY <3>3, <4>2, <4>4 DEF After, RunningFlow, WorkflowSteps, SetsActive
                <5>2. flow[p].mined = {}
                    BY <1>1, <5>1 DEF HandsInv, Hands
                <5>. QED
                    BY <4>1, <5>2
            <4>5. CASE step = "reconsidering"
                <5>1. flow[p].step = "mining"
                    BY <3>3, <4>2, <4>5 DEF After, RunningFlow, WorkflowSteps, SetsActive
                <5>. QED
                    BY <1>2, <1>4, <3>1, <4>1, <4>3, <5>1
            <4>. QED
                BY <1>4, <4>1, <4>4, <4>5
        <3>4. ASSUME flow[p] \in RunningFlow,
                     \/ \E call \in {"ok", "failed"} : Answers(p, call)
                     \/ \E call \in {"height", "failed"}, at \in Nat : HeightRead(p, call, at)
                     \/ HashRead(p) \/ Invalidated(p)
              PROVE  DOMAIN received'[m] \cap flow'[p].mined = {}
            <4>1. flow'[p].node = flow[p].node /\ flow'[p].mined = flow[p].mined /\ flow'[p].step = flow[p].step
                BY <1>1, <3>4, AnswersFields, HeightReadFields, HashReadFields, InvalidatedFields
            <4>2. disturbed \subseteq disturbed'
                BY <3>4 DEF Answers, SetActive, Reconsider, CallFails, HeightRead, ReadHeight, HashRead, ReadHash,
                   Invalidated, Invalidate, Disturb, historyVars
            <4>. QED
                BY <1>2, <1>4, <3>1, <4>1, <4>2
        <3>. QED
            BY <1>1, <1>4, <2>3, <3>2, <3>3, <3>4, OwnFlow DEF MinedOne
    <2>. QED
        BY <2>2, <2>3
<1>5. ASSUME NEW n \in Node, MinedFor(n)
      PROVE  MinedInPrivate'
    BY <1>5 DEF MinedFor, MinedInPrivate, Running
<1>6. ASSUME NEW n \in Node, NEW k \in Node, Download(n, k), UNCHANGED <<flow, historyVars>>
      PROVE  MinedInPrivate'
    <2>1. chain[TipOf(k)] \subseteq DOMAIN received[k]
        BY <1>1, TipIsBest DEF NodesInv
    <2>2. /\ n \in online /\ k \in online
          /\ DOMAIN received'[n] \subseteq DOMAIN received[n] \cup DOMAIN received[k]
          /\ \A m \in Node \ {n} : received'[m] = received[m]
        <3>1. PICK missing : missing = chain[TipOf(k)] \ DOMAIN received[n]
            OBVIOUS
        <3>2. n \in online /\ k \in online /\ received' = [received EXCEPT ![n] = WithArrived(n, missing)]
            BY <1>6, <3>1 DEF Download
        <3>3. /\ DOMAIN received'[n] = DOMAIN received[n] \cup missing
              /\ \A m \in Node \ {n} : received'[m] = received[m]
            BY <1>1, <3>2, Arrived
        <3>. QED
            BY <2>1, <3>1, <3>2, <3>3
    <2>3. ASSUME NEW p \in Page \ disturbed, flow[p].step \in {"mining", "reconsidering"},
                 NEW m \in Node \ {flow[p].node}
          PROVE  DOMAIN received'[m] \cap flow[p].mined = {}
        <3>1. flow[p].node # n /\ flow[p].node # k
            BY <1>2, <2>2, <2>3
        <3>. QED
            BY <1>2, <2>2, <2>3, <3>1
    <2>. QED
        BY <1>6, <2>3 DEF MinedInPrivate, historyVars
<1>7. CASE UNCHANGED <<chainVars, flow, historyVars>>
    BY <1>7 DEF MinedInPrivate, chainVars, historyVars
<1>8. ASSUME NEW p \in Page, FlowStep(p)
      PROVE  MinedInPrivate'
    BY <1>3, <1>4, <1>8 DEF MinedInPrivate
<1>. QED
    BY <1>5, <1>6, <1>7, <1>8, StepKinds DEF TypesInv

LEMMA PrivateInit ==
    ASSUME Init
    PROVE  PrivateInv /\ MinedInPrivate
BY DEF Init, WorkflowInit, PrivateInv, MinedInPrivate, Secluded, Calling, Running, NoFlow

\* The blocks that triggerReorg has mine_block add to a disconnected node reach no other
\* node before set_network_active connects it again, unless another page connects it or
\* mines on it, whatever the nodes download from each other in the meantime.
THEOREM PrivateCorrect == Spec => []MinedInPrivate
<1>1. Init => TypesInv /\ PrivateInv /\ MinedInPrivate
    BY TypesInit, PrivateInit
<1>2. TypesInv /\ PrivateInv /\ MinedInPrivate /\ [Next]_vars => (TypesInv /\ PrivateInv /\ MinedInPrivate)'
    BY TypesStep, PrivateStep, MinedStep
<1>. QED
    BY <1>1, <1>2, PTL DEF Spec


-----------------------------------------------------------------------------
(* The rollback. *)

RollbackInv == TypesInv /\ MarksInv /\ PrivateInv /\ ProgressInv

\* TipIsBest for the next state.
LEMMA TipsAreBest ==
    TypesInv => \A n \in Node : /\ TipOf(n) \in Valid(n)
                                /\ \A c \in Valid(n) : HeightOf(c) <= HeightOf(TipOf(n))
BY TipIsBest DEF TypesInv

LEMMA NextTips ==
    ASSUME TypesInv, [Next]_vars
    PROVE  \A n \in Node : /\ TipOf(n)' \in Valid(n)'
                           /\ \A c \in Valid(n)' : HeightOf(c)' <= HeightOf(TipOf(n))'
<1>1. TypesInv'
    BY TypesStep
<1>2. TypesInv' => (\A n \in Node : /\ TipOf(n) \in Valid(n)
                                    /\ \A c \in Valid(n) : HeightOf(c) <= HeightOf(TipOf(n)))'
    BY TipsAreBest, PTL
<1>. QED
    BY <1>1, <1>2

\* On the node of a workflow that nobody has interfered with there is no mark but its own.
LEMMA OnlyOwnMark ==
    ASSUME TypesInv, MarksInv, PrivateInv, NEW p \in Page, p \notin disturbed, Running(p), abandoned[flow[p].node] = {},
           NEW b \in invalid[flow[p].node]
    PROVE  Marked(p, flow[p].node, b) /\ b # 0
<1>1. flow[p].node \in Node
    BY RunningTypes DEF TypesInv, Running, RunningFlow
<1>2. PICK q \in Page : Marked(q, flow[p].node, b)
    BY <1>1 DEF MarksInv
<1>3. Running(q) /\ ~Waiting(q) /\ flow[q].node = flow[p].node
    BY <1>2 DEF Marked, Running, Waiting
<1>4. q = p
    BY <1>3 DEF PrivateInv
<1>5. b # 0
    BY <1>1 DEF TypesInv, NodesInv
<1>. QED
    BY <1>2, <1>4, <1>5

\* A step elsewhere changes nothing for a workflow.
LEMMA Untouched ==
    ASSUME NEW p \in Page, UNCHANGED chain, flow'[p] = flow[p],
           received'[flow[p].node] = received[flow[p].node], invalid'[flow[p].node] = invalid[flow[p].node]
    PROVE  Rewinding(p)' = Rewinding(p) /\ Rewound(p)' = Rewound(p) /\ HasRewound(p)' = HasRewound(p)
<1>1. \A b : HeightOf(b)' = HeightOf(b)
    BY DEF HeightOf
<1>2. Valid(flow[p].node)' = Valid(flow[p].node)
    BY DEF Valid
<1>3. TipOf(flow[p].node)' = TipOf(flow[p].node)
    BY <1>1, <1>2 DEF TipOf
<1>. QED
    BY <1>1, <1>3 DEF Rewinding, Rewound, HasRewound, ToMine, Calling

\* What a workflow is promised once nobody has interfered.
Progress(p) ==
    /\ flow[p].step = "rewinding" => Rewinding(p)
    /\ HasRewound(p) /\ flow[p].old # 0 => Rewound(p)

LEMMA OthersProgress ==
    ASSUME RollbackInv, [Next]_vars, NEW p \in Page, p \notin disturbed', p \notin disturbed, flow'[p] = flow[p],
           abandoned'[flow[p].node] = {},
           \/ \E q \in Page \ {p} : FlowStep(q)
           \/ \E n \in Node : MinedFor(n)
           \/ \E n, m \in Node : Download(n, m)
           \/ UNCHANGED chainVars
    PROVE  Progress(p)'
<1> DEFINE n == flow[p].node
<1>1. WorkflowTypeOK /\ ChainInv /\ NodesInv /\ HandsInv
    BY DEF RollbackInv, TypesInv
<1>2. CASE flow[p].step \in {"rewinding", "mining", "reconsidering"} \/ Calling(p, "reconnecting", "sent")
    <2>1. n \in Node /\ n \notin online /\ Running(p)
        <3>1. Secluded(p)
            BY <1>2 DEF Secluded
        <3>2. Running(p)
            BY <1>2 DEF Running, Calling
        <3>. QED
            BY <1>1, <3>1, <3>2, RunningTypes DEF RollbackInv, PrivateInv, Running, RunningFlow
    <2>2. abandoned[n] = {}
        BY <2>1, AbandonedStep DEF RollbackInv
    <2>3. Progress(p)
        BY <2>2 DEF RollbackInv, ProgressInv, Progress
    <2>4. ASSUME NEW q \in Page \ {p}, FlowStep(q)
          PROVE  UNCHANGED chain /\ received'[n] = received[n] /\ invalid'[n] = invalid[n]
        <3>1. ~MineOne(q)
            BY <2>1 DEF MineOne
        <3>2. Invalidate(q) \/ Reconsider(q) => flow[q].node # n
            BY <2>1, <2>4, Disturbs
        <3>3. CASE Invalidate(q) \/ Reconsider(q)
            BY <1>1, <2>1, <3>2, <3>3 DEF Invalidate, InvalidateBlock, Reconsider, ReconsiderBlock, NodesInv
        <3>4. CASE ~Invalidate(q) /\ ~Reconsider(q)
            BY <2>4, <3>1, <3>4 DEF FlowStep, StartReorg, Succeeds, Fails, ClosePage, CallFails, SetActive, SetNetworkActive,
               ReadHeight, ReadHash, chainVars
        <3>. QED
            BY <3>3, <3>4
    <2>5. ASSUME NEW k \in Node
          PROVE  ~MinedFor(k)
        BY <2>1 DEF MinedFor
    <2>6. ASSUME NEW k \in Node, NEW m \in Node, Download(k, m)
          PROVE  UNCHANGED chain /\ received'[n] = received[n] /\ invalid'[n] = invalid[n]
        BY <1>1, <2>1, <2>6 DEF Download, NodesInv
    <2>7. UNCHANGED chain /\ received'[n] = received[n] /\ invalid'[n] = invalid[n]
        BY <2>4, <2>5, <2>6 DEF chainVars
    <2>8. Rewinding(p)' = Rewinding(p) /\ Rewound(p)' = Rewound(p) /\ HasRewound(p)' = HasRewound(p)
        BY <2>7, Untouched
    <2>. QED
        BY <2>3, <2>8 DEF Progress
<1>3. CASE ~(flow[p].step \in {"rewinding", "mining", "reconsidering"} \/ Calling(p, "reconnecting", "sent"))
    BY <1>3 DEF Progress, HasRewound, Calling
<1>. QED
    BY <1>2, <1>3


\* The rewind: without the oldest of the last blocks the tip is not far below the old one.
LEMMA InvalidateProgress ==
    ASSUME RollbackInv, [Next]_vars, NEW p \in Page, flow[p] \in RunningFlow, Invalidated(p), p \notin disturbed,
           abandoned[flow[p].node] = {},
           NEW n, n = flow[p].node, NEW at, at = flow[p].at, NEW start, start = flow[p].start
    PROVE  Progress(p)'
<1>1. /\ flow'[p].step = "rewinding" /\ flow'[p].call = "ok" /\ flow'[p].node = n
      /\ flow'[p].depth = flow[p].depth /\ flow'[p].old = at /\ flow'[p].start = start
      /\ flow'[p].mined = flow[p].mined
      /\ flow[p].step = "rewinding" /\ flow[p].call = "hash" /\ at \in Blocks
    BY InvalidatedFields DEF RollbackInv, TypesInv
<1>2. WorkflowTypeOK /\ ChainInv /\ NodesInv /\ HandsInv /\ n \in Node /\ flow[p].depth \in Nat \ {0}
    BY WorkflowAssumption DEF RollbackInv, TypesInv, RunningFlow
<1>3. flow[p].mined = {} /\ flow[p].old = 0
    BY <1>1, <1>2 DEF HandsInv, Hands
<1>4. start = TipOf(n) /\ at \in chain[start] /\ HeightOf(at) = HeightOf(start) - (flow[p].depth - 1)
    BY <1>1 DEF RollbackInv, ProgressInv, Rewinding
<1>5. UNCHANGED <<chain, received>> /\ invalid' = [invalid EXCEPT ![n] = IF at = 0 THEN @ ELSE @ \cup {at}]
    BY DEF Invalidated, Invalidate, InvalidateBlock
<1>6. ASSUME at # 0
      PROVE  Rewound(p)'
    <2>1. invalid[n] = {}
        <3>1. Running(p)
            BY <1>1 DEF Running
        <3>2. \A b \in invalid[n] : FALSE
            BY <1>3, <3>1, OnlyOwnMark DEF RollbackInv, Marked
        <3>. QED
            BY <3>2
    <2>2. invalid'[n] = {at}
        BY <1>2, <1>5, <1>6, <2>1 DEF NodesInv
    <2>3. Valid(n) = DOMAIN received[n] /\ Valid(n)' = {c \in DOMAIN received[n] : at \notin chain[c]}
        BY <1>5, <2>1, <2>2 DEF Valid
    <2>4. \A c : HeightOf(c)' = HeightOf(c)
        BY <1>5 DEF HeightOf
    <2>5. /\ start \in DOMAIN received[n] /\ start \in Blocks
          /\ \A c \in DOMAIN received[n] : HeightOf(c) <= HeightOf(start)
        BY <1>2, <1>4, <2>3, TipIsBest
    <2>6. PICK c \in chain[at] : HeightOf(c) = HeightOf(at) - 1
        <3>1. 0 \in chain[at] /\ HeightOf(at) \in Nat
            BY <1>1, <1>2, Heights DEF ChainInv
        <3>2. 0 \in Blocks /\ HeightOf(0) < HeightOf(at)
            BY <1>1, <1>2, <1>6, <3>1, Lower
        <3>3. HeightOf(0) \in Nat
            BY <1>2, <3>2, Heights
        <3>4. HeightOf(at) - 1 \in 0 .. HeightOf(at)
            BY <3>1, <3>2, <3>3
        <3>. QED
            BY <1>1, <1>2, <3>4 DEF ChainInv
    <2>7. c \in Valid(n)'
        <3>1. c # at
            <4>1. HeightOf(at) \in Nat
                BY <1>1, <1>2, Heights
            <4>. QED
                BY <2>6, <4>1
        <3>2. at \notin chain[c]
            BY <1>1, <1>2, <3>1, Lower
        <3>3. c \in chain[start]
            BY <1>2, <1>4, <2>5, Lower
        <3>. QED
            BY <1>2, <2>3, <2>5, <3>2, <3>3 DEF NodesInv
    <2>8. PICK tip : tip = TipOf(n)'
        OBVIOUS
    <2>9. tip \in Valid(n)' /\ HeightOf(at) - 1 <= HeightOf(tip)
        BY <1>2, <2>4, <2>6, <2>7, <2>8, NextTips DEF RollbackInv
    <2>10. tip \in Blocks
        BY <1>2, <2>3, <2>9 DEF WorkflowTypeOK
    <2>11. HeightOf(start) < HeightOf(tip) + (flow[p].depth + 1)
        <3>1. HeightOf(start) \in Nat /\ HeightOf(tip) \in Nat /\ HeightOf(at) \in Nat
            BY <1>1, <1>2, <2>5, <2>10, Heights
        <3>. QED
            BY <1>2, <1>4, <2>9, <3>1
    <2>12. at \notin chain[tip]
        BY <2>3, <2>9
    <2>13. ToMine(p)' = flow[p].depth + 1
        BY <1>1 DEF ToMine
    <2>14. /\ start \in DOMAIN received'[n]
           /\ \A b \in DOMAIN received'[n] \ flow'[p].mined : HeightOf(b)' <= HeightOf(start)'
           /\ flow'[p].mined \subseteq chain'[tip] /\ at \notin chain'[tip]
           /\ HeightOf(start)' < HeightOf(tip)' + ToMine(p)'
        BY <1>1, <1>3, <1>5, <2>4, <2>5, <2>11, <2>12, <2>13
    <2>. QED
        BY <1>1, <2>8, <2>14 DEF Rewound
<1>7. Rewinding(p)'
    BY <1>1 DEF Rewinding
<1>. QED
    BY <1>1, <1>6, <1>7 DEF Progress

\* The new branch: one more block, and one less to mine.
LEMMA MineProgress ==
    ASSUME RollbackInv, [Next]_vars, NEW p \in Page, flow[p] \in RunningFlow, MinedOne(p), p \notin disturbed,
           abandoned[flow[p].node] = {},
           NEW n, n = flow[p].node, NEW start, start = flow[p].start
    PROVE  Progress(p)'
<1> DEFINE tip == TipOf(n)
<1>1. WorkflowTypeOK /\ ChainInv /\ NodesInv /\ HandsInv /\ n \in Node
    BY DEF RollbackInv, TypesInv, RunningFlow
<1>2. Blocks \subseteq Blocks'
    BY NodesStep DEF RollbackInv, TypesInv
<1>3. /\ flow'[p].step = "mining" /\ flow'[p].node = n /\ flow'[p].left = flow[p].left - 1
      /\ flow'[p].old = flow[p].old /\ flow'[p].start = start
      /\ flow'[p].mined = flow[p].mined \cup (Blocks' \ Blocks)
      /\ flow[p].step = "mining" /\ flow[p].call = "sent" /\ flow[p].left \in Nat
    BY <1>1, <1>2, MinedOneFields
<1>4. MineBlock(n) /\ UNCHANGED abandoned
    BY DEF MinedOne, MineOne
<1>5. PICK new : new = Tall
    OBVIOUS
<1>6. /\ new \notin Blocks /\ Blocks' = Blocks \cup {new}
      /\ \A c \in Blocks : chain'[c] = chain[c] /\ HeightOf(c)' = HeightOf(c)
      /\ chain'[new] = chain[tip] \cup {new} /\ HeightOf(new)' = HeightOf(tip) + 1
    BY <1>1, <1>4, <1>5, Mined
<1>7. TipOf(n)' = new
    BY <1>1, <1>4, <1>5, MinedIsTip
<1>8. DOMAIN received'[n] = DOMAIN received[n] \cup {new} /\ DOMAIN received[n] \subseteq Blocks
    <2>1. received' = [received EXCEPT ![n] = WithArrived(n, {new})]
        BY <1>4, <1>5 DEF MineBlock, Tall
    <2>. QED
        BY <1>1, <2>1, Arrived DEF WorkflowTypeOK
<1>9. ASSUME flow[p].old # 0
      PROVE  Rewound(p)'
    <2>1. Rewound(p)
        BY <1>3, <1>9 DEF RollbackInv, ProgressInv, HasRewound
    <2>2. /\ start \in DOMAIN received[n]
          /\ \A c \in DOMAIN received[n] \ flow[p].mined : HeightOf(c) <= HeightOf(start)
          /\ flow[p].mined \subseteq chain[tip] /\ flow[p].old \notin chain[tip]
          /\ HeightOf(start) < HeightOf(tip) + flow[p].left
        BY <1>3, <2>1 DEF Rewound, ToMine
    <2>3. ToMine(p)' = flow[p].left - 1
        BY <1>3 DEF ToMine
    <2>4. HeightOf(start)' < HeightOf(new)' + ToMine(p)'
        <3>1. HeightOf(start) \in Nat /\ HeightOf(tip) \in Nat
            BY <1>1, <1>8, <2>2, TipIsBest, Heights
        <3>2. start \in Blocks
            BY <1>8, <2>2
        <3>. QED
            BY <1>3, <1>6, <2>2, <2>3, <3>1, <3>2
    <2>5. \A c \in DOMAIN received'[n] \ flow'[p].mined : HeightOf(c)' <= HeightOf(start)'
        BY <1>3, <1>6, <1>8, <2>2
    <2>6. flow'[p].mined \subseteq chain'[new] /\ flow'[p].old \notin chain'[new]
        <3>1. flow[p].old \in Blocks
            BY DEF RunningFlow
        <3>. QED
            BY <1>3, <1>6, <2>2, <3>1
    <2>7. start \in DOMAIN received'[n]
        BY <1>8, <2>2
    <2>. QED
        BY <1>3, <1>7, <2>4, <2>5, <2>6, <2>7 DEF Rewound
<1>. QED
    BY <1>3, <1>9 DEF Progress

\* The old branch is valid again, and shorter.
LEMMA ReconsiderProgress ==
    ASSUME RollbackInv, [Next]_vars, NEW p \in Page, flow[p] \in RunningFlow, Reconsider(p), Answers(p, "ok"),
           p \notin disturbed, abandoned[flow[p].node] = {},
           NEW n, n = flow[p].node, NEW start, start = flow[p].start, NEW old, old = flow[p].old
    PROVE  Progress(p)'
<1>1. WorkflowTypeOK /\ ChainInv /\ NodesInv /\ n \in Node /\ old \in Blocks
    BY DEF RollbackInv, TypesInv, RunningFlow
<1>2. /\ flow'[p].step = "reconsidering" /\ flow'[p].node = n /\ flow'[p].old = old
      /\ flow'[p].start = start /\ flow'[p].mined = flow[p].mined
      /\ flow[p].step = "reconsidering" /\ flow[p].call = "sent"
    BY AnswersFields DEF Reconsider, Calling
<1>3. /\ UNCHANGED <<chain, received>>
      /\ invalid' = [invalid EXCEPT ![n] = {c \in @ : c \notin chain[old] /\ old \notin chain[c]}]
    BY DEF Reconsider, ReconsiderBlock
<1>4. ASSUME old # 0
      PROVE  Rewound(p)'
    <2>1. PICK tip : tip = TipOf(n)
        OBVIOUS
    <2>2. /\ start \in DOMAIN received[n]
          /\ \A c \in DOMAIN received[n] \ flow[p].mined : HeightOf(c) <= HeightOf(start)
          /\ flow[p].mined \subseteq chain[tip] /\ old \notin chain[tip]
          /\ HeightOf(start) < HeightOf(tip) + 0
        BY <1>2, <1>4, <2>1 DEF RollbackInv, ProgressInv, HasRewound, Rewound, ToMine
    <2>3. invalid[n] \subseteq {old}
        <3>1. Running(p)
            BY <1>2 DEF Running
        <3>2. \A b \in invalid[n] : b = old
            BY <3>1, OnlyOwnMark DEF RollbackInv, Marked
        <3>. QED
            BY <3>2
    <2>4. invalid'[n] = {}
        <3>1. old \in chain[old] /\ DOMAIN invalid = Node
            BY <1>1 DEF ChainInv, NodesInv
        <3>. QED
            BY <1>1, <1>3, <2>3, <3>1
    <2>5. Valid(n)' = DOMAIN received[n]
        BY <1>3, <2>4 DEF Valid
    <2>6. tip \in DOMAIN received[n] /\ tip \in Blocks /\ DOMAIN received[n] \subseteq Blocks
        BY <1>1, <2>1, TipIsBest DEF WorkflowTypeOK
    <2>7. \A c \in DOMAIN received[n] : HeightOf(c) \in Nat
        BY <1>1, <2>6, Heights
    <2>8. \A c \in DOMAIN received[n] \ {tip} : HeightOf(c) < HeightOf(tip)
        <3>1. ASSUME NEW c \in DOMAIN received[n] \ {tip}
              PROVE  HeightOf(c) < HeightOf(tip)
            <4>1. CASE c \in flow[p].mined
                BY <1>1, <2>2, <2>6, <4>1, Lower
            <4>2. CASE c \notin flow[p].mined
                BY <2>2, <2>6, <2>7, <4>2
            <4>. QED
                BY <4>1, <4>2
        <3>. QED
            BY <3>1
    <2>9. \A c : HeightOf(c)' = HeightOf(c)
        BY <1>3 DEF HeightOf
    <2>10. TipOf(n)' = tip
        <3>1. {b \in Valid(n)' : \A c \in Valid(n)' : HeightOf(c)' <= HeightOf(b)'} = {tip}
            BY <2>5, <2>6, <2>7, <2>8, <2>9
        <3>2. TipOf(n)' = CHOOSE b \in {tip} : \A c \in {tip} : received'[n][b] <= received'[n][c]
            BY <3>1 DEF TipOf
        <3>3. received'[n][tip] \in Int
            BY <1>1, <1>3, <2>6 DEF WorkflowTypeOK
        <3>. QED
            BY <3>2, <3>3
    <2>11. ToMine(p)' = 0
        BY <1>2 DEF ToMine
    <2>. QED
        BY <1>2, <1>3, <2>2, <2>9, <2>10, <2>11 DEF Rewound
<1>. QED
    BY <1>2, <1>4 DEF Progress


\* The other steps of the workflow leave the node as it is.
LEMMA OwnProgress ==
    ASSUME RollbackInv, [Next]_vars, NEW p \in Page, FlowStep(p), p \notin disturbed',
           abandoned'[flow'[p].node] = {}
    PROVE  Progress(p)'
<1>1. WorkflowTypeOK /\ ChainInv /\ NodesInv /\ HandsInv
    BY DEF RollbackInv, TypesInv
<1>2. CASE Ends(p) \/ \E n \in Node, depth \in Depths : Starts(p, n, depth)
    BY <1>2, StartsFields DEF Ends, NoFlow, Progress, HasRewound, Calling
<1>3. ASSUME flow[p] \in RunningFlow, flow'[p].node = flow[p].node
      PROVE  abandoned[flow[p].node] = {} /\ Running(p)
    <2>1. flow[p].node \in Node /\ Running(p)
        BY <1>3 DEF RunningFlow, Running, WorkflowSteps, SetsActive
    <2>. QED
        BY <1>3, <2>1, AbandonedStep DEF RollbackInv
<1>4. ASSUME UNCHANGED chainVars, flow'[p].node = flow[p].node
      PROVE  TipOf(flow[p].node)' = TipOf(flow[p].node) /\ \A b : HeightOf(b)' = HeightOf(b)
    <2>1. UNCHANGED <<chain, received, invalid>>
        BY <1>4 DEF chainVars
    <2>2. \A b : HeightOf(b)' = HeightOf(b)
        BY <2>1 DEF HeightOf
    <2>3. Valid(flow[p].node)' = Valid(flow[p].node)
        BY <1>4, <2>1 DEF Valid
    <2>. QED
        BY <1>4, <2>1, <2>2, <2>3 DEF TipOf
<1>5. ASSUME flow[p] \in RunningFlow, NEW step \in Later, GoesOn(p, step)
      PROVE  Progress(p)'
    <2>1. /\ flow'[p].step = step /\ flow'[p].call = "sent" /\ flow'[p].node = flow[p].node
          /\ flow'[p].left = Share(p, step) /\ flow'[p].old = flow[p].old /\ flow'[p].start = flow[p].start
          /\ flow'[p].mined = flow[p].mined
        BY <1>5, GoesOnFields
    <2>2. Rewinding(p)'
        BY <2>1 DEF Rewinding
    <2>3. CASE step \in {"rewinding", "restoring"}
        BY <2>1, <2>2, <2>3 DEF Progress, HasRewound, Calling
    <2>4. CASE step \notin {"rewinding", "restoring"}
        <3>1. Succeeds(p) /\ flow[p].call = "ok" /\ step = After(flow[p].step)
            BY <1>5, <2>4 DEF GoesOn
        <3>2. UNCHANGED chainVars /\ UNCHANGED disturbed
            BY <2>4, <3>1 DEF Succeeds, GoOn, Later
        <3>3. /\ flow[p].step \in {"rewinding", "mining", "reconsidering"}
              /\ step = IF flow[p].step = "rewinding" THEN "mining"
                        ELSE IF flow[p].step = "mining" THEN "reconsidering" ELSE "reconnecting"
            BY <1>5, <2>4, <3>1 DEF After, RunningFlow, WorkflowSteps, SetsActive, Later
        <3>4. HasRewound(p)
            BY <3>1, <3>3 DEF HasRewound, Calling
        <3>5. ToMine(p)' = ToMine(p)
            <4>1. CASE flow[p].step = "rewinding"
                BY <2>1, <3>3, <4>1 DEF ToMine, Share, BlocksToMine
            <4>2. CASE flow[p].step = "mining"
                <5>1. flow[p].left = 0
                    BY <1>1, <3>1, <4>2 DEF HandsInv, Hands, Calling
                <5>. QED
                    BY <2>1, <3>3, <4>2, <5>1 DEF ToMine
            <4>3. CASE flow[p].step = "reconsidering"
                BY <2>1, <3>3, <4>3 DEF ToMine
            <4>. QED
                BY <3>3, <4>1, <4>2, <4>3
        <3>6. ASSUME flow[p].old # 0
              PROVE  Rewound(p)'
            <4>1. Rewound(p)
                BY <1>3, <1>5, <2>1, <3>2, <3>4, <3>6 DEF RollbackInv, ProgressInv
            <4>2. UNCHANGED <<chain, received>>
                BY <3>2 DEF chainVars
            <4>. QED
                BY <1>4, <2>1, <3>2, <3>5, <4>1, <4>2 DEF Rewound
        <3>. QED
            BY <2>1, <2>2, <3>6 DEF Progress
    <2>. QED
        BY <2>3, <2>4
<1>6. ASSUME flow[p] \in RunningFlow, NEW call \in {"ok", "failed"}, Answers(p, call)
      PROVE  Progress(p)'
    <2>1. flow'[p].step = flow[p].step /\ flow'[p].call = call /\ flow'[p].node = flow[p].node
        BY <1>6, AnswersFields
    <2>2. CASE Reconsider(p) /\ call = "ok"
        <3>1. p \notin disturbed
            BY <2>2 DEF Reconsider, Disturb
        <3>. QED
            BY <1>3, <1>6, <2>1, <2>2, <3>1, ReconsiderProgress
    <2>3. CASE call = "failed" \/ flow[p].step \in SetsActive
        BY <2>1, <2>3 DEF Progress, Rewinding, HasRewound, Calling, SetsActive
    <2>. QED
        BY <1>6, <2>2, <2>3 DEF Answers
<1>7. ASSUME flow[p] \in RunningFlow, NEW call \in {"height", "failed"}, NEW at \in Nat, HeightRead(p, call, at)
      PROVE  Progress(p)'
    <2>1. /\ flow'[p].step = "rewinding" /\ flow'[p].call = call /\ flow'[p].node = flow[p].node
          /\ flow'[p].depth = flow[p].depth /\ flow'[p].at = at /\ flow'[p].start = TipOf(flow[p].node)
        BY <1>1, <1>7, HeightReadFields
    <2>2. UNCHANGED chainVars
        BY <1>7 DEF HeightRead, ReadHeight
    <2>3. call = "height" => at = HeightOf(flow'[p].start) - (flow[p].depth - 1)
        BY <1>7, <2>1 DEF HeightRead
    <2>4. Rewinding(p)'
        BY <1>4, <2>1, <2>2, <2>3 DEF Rewinding
    <2>. QED
        BY <1>7, <2>1, <2>4 DEF Progress, HasRewound, Calling
<1>8. CASE flow[p] \in RunningFlow /\ HashRead(p)
    <2>1. PICK b : b = BlockAt(flow[p].node, flow[p].at)
        OBVIOUS
    <2>2. /\ b \in chain[TipOf(flow[p].node)] /\ HeightOf(b) = flow[p].at
          /\ flow'[p].step = "rewinding" /\ flow'[p].call = "hash" /\ flow'[p].node = flow[p].node
          /\ flow'[p].depth = flow[p].depth /\ flow'[p].at = b /\ flow'[p].start = flow[p].start
          /\ flow[p].step = "rewinding" /\ flow[p].call = "height"
        BY <1>1, <1>8, <2>1, HashReadFields
    <2>3. UNCHANGED chainVars /\ p \notin disturbed
        BY <1>8 DEF HashRead, ReadHash, historyVars
    <2>4. Rewinding(p)
        BY <1>3, <1>8, <2>2, <2>3 DEF RollbackInv, ProgressInv
    <2>5. /\ flow[p].start = TipOf(flow[p].node)
          /\ HeightOf(b) = HeightOf(flow[p].start) - (flow[p].depth - 1)
        BY <2>2, <2>4 DEF Rewinding
    <2>6. UNCHANGED chain
        BY <2>3 DEF chainVars
    <2>7. Rewinding(p)'
        BY <1>4, <2>2, <2>3, <2>5, <2>6 DEF Rewinding
    <2>. QED
        BY <2>2, <2>7 DEF Progress, HasRewound, Calling
<1>9. CASE flow[p] \in RunningFlow /\ Invalidated(p)
    <2>1. flow'[p].node = flow[p].node
        BY <1>1, <1>9, InvalidatedFields
    <2>2. p \notin disturbed
        BY <1>9 DEF Invalidated, Invalidate, Disturb
    <2>. QED
        BY <1>3, <1>9, <2>1, <2>2, InvalidateProgress
<1>10. CASE flow[p] \in RunningFlow /\ MinedOne(p)
    <2>1. Blocks \subseteq Blocks'
        BY NodesStep DEF RollbackInv, TypesInv
    <2>2. flow'[p].node = flow[p].node
        BY <1>1, <1>10, <2>1, MinedOneFields
    <2>3. p \notin disturbed
        BY <1>10 DEF MinedOne, MineOne
    <2>. QED
        BY <1>3, <1>10, <2>2, <2>3, MineProgress
<1>. QED
    BY <1>1, <1>2, <1>5, <1>6, <1>7, <1>8, <1>9, <1>10, OwnFlow

LEMMA ProgressStep ==
    ASSUME RollbackInv, [Next]_vars
    PROVE  ProgressInv'
<1>1. ASSUME NEW p \in Page, p \notin disturbed', abandoned'[flow'[p].node] = {}
      PROVE  Progress(p)'
    <2>1. CASE FlowStep(p)
        BY <1>1, <2>1, OwnProgress
    <2>2. CASE ~FlowStep(p)
        <3>1. flow'[p] = flow[p]
            BY <2>2, StepKinds, OtherFlows DEF RollbackInv, TypesInv, MinedFor
        <3>2. p \notin disturbed
            BY <1>1, <2>2, StepKinds, DisturbedStep DEF RollbackInv, TypesInv, MinedFor, historyVars
        <3>. QED
            BY <1>1, <2>2, <3>1, <3>2, StepKinds, OthersProgress DEF RollbackInv, TypesInv
    <2>. QED
        BY <2>1, <2>2
<1>. QED
    BY <1>1 DEF ProgressInv, Progress

LEMMA Rollback ==
    ASSUME RollbackInv
    PROVE  ReorgHappens
<1>1. ASSUME NEW p \in Page, DoneInPrivate(p), abandoned[flow[p].node] = {}
      PROVE  LET tip == TipOf(flow[p].node)
             IN  /\ flow[p].mined \subseteq chain[tip] /\ flow[p].old \notin chain[tip]
                 /\ HeightOf(tip) > HeightOf(flow[p].start)
                 /\ flow[p].start \in Valid(flow[p].node)
    <2>1. p \notin disturbed /\ flow[p].step = "reconnecting" /\ flow[p].call = "sent" /\ flow[p].old # 0
        BY <1>1 DEF DoneInPrivate, Calling
    <2>2. Running(p) /\ HasRewound(p) /\ ToMine(p) = 0
        BY <2>1 DEF Running, HasRewound, Calling, ToMine
    <2>3. PICK tip : tip = TipOf(flow[p].node)
        OBVIOUS
    <2>4. /\ flow[p].start \in DOMAIN received[flow[p].node]
          /\ flow[p].mined \subseteq chain[tip] /\ flow[p].old \notin chain[tip]
          /\ HeightOf(flow[p].start) < HeightOf(tip) + 0
        BY <1>1, <2>1, <2>2, <2>3 DEF RollbackInv, ProgressInv, Rewound
    <2>5. WorkflowTypeOK /\ ChainInv /\ NodesInv /\ flow[p].node \in Node
        BY <2>2, RunningTypes DEF RollbackInv, TypesInv, Running, RunningFlow
    <2>6. tip \in Blocks /\ flow[p].start \in Blocks
        BY <2>3, <2>4, <2>5, TipIsBest DEF WorkflowTypeOK
    <2>7. HeightOf(tip) > HeightOf(flow[p].start)
        BY <2>4, <2>5, <2>6, Heights
    <2>8. \A b \in invalid[flow[p].node] : FALSE
        BY <1>1, <2>1, <2>2, OnlyOwnMark DEF RollbackInv, Marked
    <2>9. flow[p].start \in Valid(flow[p].node)
        BY <2>4, <2>8 DEF Valid
    <2>. QED
        BY <2>3, <2>4, <2>7, <2>9
<1>. QED
    BY <1>1 DEF ReorgHappens

LEMMA ProgressInit ==
    ASSUME Init
    PROVE  ProgressInv
BY DEF Init, WorkflowInit, ProgressInv, HasRewound, Calling, NoFlow

\* What "Trigger reorg" promises is there when the node is about to be connected again: the
\* blocks of blocks_to_mine are on its active chain and the block that rewind_active_chain
\* invalidated is not, the chain is longer than the one it replaces, and that one is valid
\* again.  This holds for every depth, whatever other pages do to other nodes and the nodes
\* download, as long as nobody has interfered with this workflow's node and none has failed there.
THEOREM ReorgCorrect == Spec => []ReorgHappens
<1>1. Init => RollbackInv
    BY TypesInit, MarksInit, PrivateInit, ProgressInit DEF RollbackInv
<1>2. RollbackInv /\ [Next]_vars => RollbackInv'
    <2>1. ASSUME RollbackInv, [Next]_vars
          PROVE  TypesInv' /\ MarksInv' /\ PrivateInv'
        BY <2>1, TypesStep, MarksStep, PrivateStep DEF RollbackInv
    <2>2. ASSUME RollbackInv, [Next]_vars
          PROVE  ProgressInv'
        BY <2>2, ProgressStep
    <2>. QED
        BY <2>1, <2>2 DEF RollbackInv
<1>3. RollbackInv => ReorgHappens
    BY Rollback
<1>. QED
    BY <1>1, <1>2, <1>3, PTL DEF Spec

=============================================================================
