-------------------------- MODULE HeaderTreeProofs --------------------------
(***************************************************************************)
(* Lemmas about the block tree of HeaderTree, for every tree: the order of *)
(* a branch, its heights and how many blocks it has.                       *)
(***************************************************************************)
EXTENDS HeaderTree, FiniteSetTheorems, WellFoundedInduction, TLAPS

-----------------------------------------------------------------------------
(* Least and greatest elements.                                            *)

\* A set of naturals that is not empty has a least element.
LEMMA LeastNat ==
    ASSUME NEW S \in SUBSET Nat, S # {}
    PROVE  \E x \in S : \A y \in S : x <= y
<1> DEFINE less == {ss \in Nat \X Nat : ss[1] < ss[2]}
<1>1. IsWellFoundedOn(less, Nat)
  BY NatLessThanWellFounded DEF OpToRel
<1>2. PICK x \in S : \A y \in S : ~(<<y, x>> \in less)
  BY <1>1, WFMin
<1>3. \A y \in S : ~(y < x)
  BY <1>2
<1>4. QED
  BY <1>3

\* One that is bounded has a greatest element too.
LEMMA GreatestNat ==
    ASSUME NEW S \in SUBSET Nat, S # {}, NEW k \in Nat, \A x \in S : x <= k
    PROVE  \E x \in S : \A y \in S : y <= x
<1> DEFINE below == {k - x : x \in S}
<1>1. below \in SUBSET Nat /\ below # {}
  <2>1. \A x \in S : x \in Nat /\ k - x \in Nat
    OBVIOUS
  <2>2. QED
    BY <2>1
<1>2. PICK d \in below : \A e \in below : d <= e
  BY <1>1, LeastNat
<1>3. PICK x \in S : d = k - x
  OBVIOUS
<1>4. ASSUME NEW y \in S PROVE y <= x
  <2>1. k - y \in below
    OBVIOUS
  <2>2. k - x <= k - y
    BY <2>1, <1>2, <1>3
  <2>3. QED
    BY <2>2
<1>5. QED
  BY <1>4

\* A set of blocks that is not empty has a lowest one.
LEMMA LowestBlock ==
    ASSUME NEW S \in SUBSET Block, S # {}
    PROVE  \E b \in S : \A c \in S : Height[b] <= Height[c]
<1> DEFINE heights == {Height[b] : b \in S}
<1>1. heights \in SUBSET Nat /\ heights # {}
  BY BlockAssumption
<1>2. PICK x \in heights : \A y \in heights : x <= y
  BY <1>1, LeastNat
<1>3. QED
  BY <1>2

\* One whose heights are bounded has a highest one.
LEMMA HighestBlock ==
    ASSUME NEW S \in SUBSET Block, S # {}, NEW k \in Nat, \A b \in S : Height[b] <= k
    PROVE  \E b \in S : \A c \in S : Height[c] <= Height[b]
<1> DEFINE heights == {Height[b] : b \in S}
<1>1. heights \in SUBSET Nat /\ heights # {} /\ \A x \in heights : x <= k
  BY BlockAssumption
<1> HIDE DEF heights
<1>2. PICK x \in heights : \A y \in heights : y <= x
  BY <1>1, GreatestNat
<1>3. QED
  BY <1>2 DEF heights

-----------------------------------------------------------------------------
(* A branch.                                                               *)

\* A branch ends in its block and continues the branch of the block's parent.
LEMMA BranchFacts ==
    ASSUME NEW b \in Block
    PROVE  /\ b \in Branch[b] /\ Branch[b] \subseteq Block
           /\ Height[b] \in Nat
           /\ Parent[b] # NoBlock => /\ Parent[b] \in Block /\ Height[b] = Height[Parent[b]] + 1
                                     /\ Branch[b] = {b} \cup Branch[Parent[b]]
           /\ Parent[b] = NoBlock => Branch[b] = {b} /\ Height[b] = 0
  BY BlockAssumption, BranchAssumption

\* The ancestors of a block are lower than it.
LEMMA AncestorsLower ==
    ASSUME NEW b \in Block, NEW a \in Branch[b], a # b
    PROVE  Height[a] < Height[b]
<1> DEFINE bad == {c \in Block : \E d \in Branch[c] : d # c /\ ~(Height[d] < Height[c])}
<1>1. SUFFICES bad = {}
  OBVIOUS
<1>2. SUFFICES ASSUME bad # {} PROVE FALSE
  OBVIOUS
<1>3. PICK c \in bad : \A e \in bad : Height[c] <= Height[e]
  BY <1>2, LowestBlock
<1>4. PICK d \in Branch[c] : d # c /\ ~(Height[d] < Height[c])
  OBVIOUS
<1>5. Parent[c] \in Block /\ d \in Branch[Parent[c]] /\ Height[c] = Height[Parent[c]] + 1
  BY <1>4, BlockAssumption, BranchAssumption
<1>6. Parent[c] \notin bad
  BY <1>3, <1>5, BlockAssumption
<1>7. d = Parent[c] \/ Height[d] < Height[Parent[c]]
  BY <1>5, <1>6
<1>8. d \in Block
  BY <1>5, BranchAssumption
<1>9. QED
  BY <1>4, <1>5, <1>7, <1>8, BlockAssumption

\* An ancestor of a block has a child among its ancestors.
LEMMA AncestorHasChild ==
    ASSUME NEW b \in Block, NEW a \in Branch[b], a # b
    PROVE  \E c \in Branch[b] : Parent[c] = a
<1> DEFINE bad == {c \in Block : \E d \in Branch[c] : d # c /\ \A e \in Branch[c] : Parent[e] # d}
<1>1. SUFFICES bad = {}
  OBVIOUS
<1>2. SUFFICES ASSUME bad # {} PROVE FALSE
  OBVIOUS
<1>3. PICK c \in bad : \A e \in bad : Height[c] <= Height[e]
  BY <1>2, LowestBlock
<1>4. PICK d \in Branch[c] : d # c /\ \A e \in Branch[c] : Parent[e] # d
  OBVIOUS
<1>5. /\ Parent[c] \in Block /\ d \in Branch[Parent[c]] /\ Height[c] = Height[Parent[c]] + 1
      /\ Branch[c] = {c} \cup Branch[Parent[c]]
  BY <1>4, BlockAssumption, BranchAssumption
<1>6. Parent[c] \notin bad
  BY <1>3, <1>5, BlockAssumption
<1>7. QED
  BY <1>4, <1>5, <1>6

\* An ancestor's ancestors are the block's.
LEMMA BranchTransitive ==
    ASSUME NEW b \in Block, NEW a \in Branch[b]
    PROVE  Branch[a] \subseteq Branch[b]
<1> DEFINE bad == {c \in Block : \E d \in Branch[c] : ~(Branch[d] \subseteq Branch[c])}
<1>1. SUFFICES bad = {}
  OBVIOUS
<1>2. SUFFICES ASSUME bad # {} PROVE FALSE
  OBVIOUS
<1>3. PICK c \in bad : \A e \in bad : Height[c] <= Height[e]
  BY <1>2, LowestBlock
<1>4. PICK d \in Branch[c] : ~(Branch[d] \subseteq Branch[c])
  OBVIOUS
<1>5. /\ Parent[c] \in Block /\ d \in Branch[Parent[c]] /\ Height[c] = Height[Parent[c]] + 1
      /\ Branch[c] = {c} \cup Branch[Parent[c]]
  BY <1>4, BlockAssumption, BranchAssumption
<1>6. Parent[c] \notin bad
  BY <1>3, <1>5, BlockAssumption
<1>7. QED
  BY <1>4, <1>5, <1>6

\* Of two blocks of a branch, the lower is an ancestor of the other.
LEMMA BranchOrdered ==
    ASSUME NEW b \in Block, NEW a \in Branch[b], NEW c \in Branch[b], Height[a] <= Height[c]
    PROVE  a \in Branch[c]
<1> DEFINE bad == {x \in Block : \E y, z \in Branch[x] : Height[y] <= Height[z] /\ y \notin Branch[z]}
<1>1. SUFFICES bad = {}
  OBVIOUS
<1>2. SUFFICES ASSUME bad # {} PROVE FALSE
  OBVIOUS
<1>3. PICK x \in bad : \A e \in bad : Height[x] <= Height[e]
  BY <1>2, LowestBlock
<1>4. PICK y \in Branch[x], z \in Branch[x] : Height[y] <= Height[z] /\ y \notin Branch[z]
  OBVIOUS
<1>5. z # x /\ y \in Block /\ z \in Block
  BY <1>4, BranchFacts
<1>6. Height[z] < Height[x]
  BY <1>5, AncestorsLower
<1>7. y # x
  BY <1>4, <1>5, <1>6, BranchFacts
<1>8. /\ Parent[x] \in Block /\ Height[x] = Height[Parent[x]] + 1
      /\ y \in Branch[Parent[x]] /\ z \in Branch[Parent[x]]
  BY <1>5, <1>7, BranchFacts
<1>9. Parent[x] \notin bad
  BY <1>3, <1>8, BlockAssumption
<1>10. QED
  BY <1>4, <1>8, <1>9

\* A branch has one block at a height.
LEMMA OnePerHeight ==
    ASSUME NEW b \in Block, NEW a \in Branch[b], NEW c \in Branch[b], Height[a] = Height[c]
    PROVE  a = c
<1>1. a \in Block /\ c \in Block
  BY BranchFacts
<1>2. a \in Branch[c]
  BY <1>1, BranchOrdered, BranchFacts
<1>3. QED
  BY <1>1, <1>2, AncestorsLower, BranchFacts

\* It has one at every height up to its own.
LEMMA EveryHeight ==
    ASSUME NEW b \in Block, NEW h \in 0 .. Height[b]
    PROVE  \E a \in Branch[b] : Height[a] = h
<1> DEFINE bad == {c \in Block : \E k \in 0 .. Height[c] : \A a \in Branch[c] : Height[a] # k}
<1>1. SUFFICES bad = {}
  OBVIOUS
<1>2. SUFFICES ASSUME bad # {} PROVE FALSE
  OBVIOUS
<1>3. PICK c \in bad : \A e \in bad : Height[c] <= Height[e]
  BY <1>2, LowestBlock
<1>4. PICK k \in 0 .. Height[c] : \A a \in Branch[c] : Height[a] # k
  OBVIOUS
<1>5. k # Height[c] /\ Height[c] \in Nat
  BY <1>4, BranchFacts
<1>6. /\ Parent[c] \in Block /\ Height[c] = Height[Parent[c]] + 1 /\ Height[Parent[c]] \in Nat
      /\ Branch[Parent[c]] \subseteq Branch[c]
  BY <1>5, BranchFacts
<1>7. Parent[c] \notin bad
  BY <1>3, <1>6
<1>8. k \in 0 .. Height[Parent[c]]
  BY <1>5, <1>6
<1>9. QED
  BY <1>4, <1>6, <1>7, <1>8

\* The ancestor of b at height h.
AtHeight(b, h) == CHOOSE a \in Branch[b] : Height[a] = h

LEMMA AtHeightFacts ==
    ASSUME NEW b \in Block, NEW h \in 0 .. Height[b]
    PROVE  /\ AtHeight(b, h) \in Branch[b] /\ Height[AtHeight(b, h)] = h
           /\ \A a \in Branch[b] : Height[a] = h => a = AtHeight(b, h)
<1>1. AtHeight(b, h) \in Branch[b] /\ Height[AtHeight(b, h)] = h
  BY EveryHeight DEF AtHeight
<1>2. QED
  BY <1>1, OnePerHeight

\* An ancestor of b has the ancestors of b up to its height.
LEMMA AtHeightOfAncestor ==
    ASSUME NEW b \in Block, NEW a \in Branch[b], NEW h \in 0 .. Height[a]
    PROVE  AtHeight(b, h) = AtHeight(a, h)
<1>1. a \in Block /\ Height[a] \in Nat /\ Height[b] \in Nat /\ Height[a] <= Height[b]
  BY BranchFacts, AncestorsLower
<1>2. h \in 0 .. Height[b]
  BY <1>1
<1>3. AtHeight(a, h) \in Branch[b] /\ Height[AtHeight(a, h)] = h
  BY <1>1, AtHeightFacts, BranchTransitive
<1>4. QED
  BY <1>2, <1>3, AtHeightFacts

\* A branch has as many blocks as heights from any height up to its own.
LEMMA BranchCount ==
    ASSUME NEW b \in Block, NEW low \in Nat, low <= Height[b] + 1
    PROVE  Cardinality({a \in Branch[b] : Height[a] >= low}) = Height[b] - low + 1
<1> DEFINE S == {a \in Branch[b] : Height[a] >= low}
           n == Height[b] - low + 1
           f == [i \in 1 .. n |-> AtHeight(b, low + i - 1)]
<1>1. Height[b] \in Nat /\ n \in Nat /\ b \in Branch[b] /\ Branch[b] \subseteq Block
  BY BranchFacts
<1>2. \A i \in 1 .. n : low + i - 1 \in 0 .. Height[b]
  BY <1>1
<1>3. \A i \in 1 .. n : f[i] \in Branch[b] /\ Height[f[i]] = low + i - 1
  BY <1>2, AtHeightFacts
<1>4. f \in [1 .. n -> S]
  <2>1. \A i \in 1 .. n : low + i - 1 >= low
    BY <1>1
  <2>2. \A i \in 1 .. n : f[i] \in S
    BY <1>3, <2>1
  <2>3. QED
    BY <2>2
<1>5. ASSUME NEW i \in 1 .. n, NEW j \in 1 .. n, f[i] = f[j] PROVE i = j
  <2>1. low + i - 1 = low + j - 1
    BY <1>3, <1>5
  <2>2. i \in Nat /\ j \in Nat
    BY <1>1
  <2>3. QED
    BY <2>1, <2>2
<1>6. ASSUME NEW a \in S PROVE \E i \in 1 .. n : f[i] = a
  <2>1. a \in Block /\ Height[a] \in Nat /\ Height[a] <= Height[b]
    BY <1>1, BranchFacts, AncestorsLower
  <2>2. Height[a] - low + 1 \in 1 .. n
    BY <2>1, <1>1
  <2>3. Height[f[Height[a] - low + 1]] = Height[a] /\ f[Height[a] - low + 1] \in Branch[b]
    BY <2>1, <2>2, <1>3
  <2>4. QED
    BY <2>2, <2>3, OnePerHeight
<1>7. f \in Bijection(1 .. n, S)
  <2> HIDE DEF f, S, n
  <2>1. QED
    BY <1>4, <1>5, <1>6 DEF Bijection, Injection, Surjection, IsInjective
<1>8. ExistsBijection(1 .. n, S)
  BY <1>7 DEF ExistsBijection
<1> HIDE DEF S, n
<1>9. QED
  BY <1>1, <1>8, FS_CountingElements DEF S, n
=============================================================================
