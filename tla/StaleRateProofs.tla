-------------------------- MODULE StaleRateProofs --------------------------
(***************************************************************************)
(* The metrics of StaleRate and the views of TreeViews, for every block    *)
(* tree, every part of it that was fetched, every set of nodes and every   *)
(* configuration.                                                          *)
(*                                                                         *)
(* The paths are defined by recursion.  What they hold is found without    *)
(* induction over them: the branch of a header from the height at which    *)
(* the tree's part of it starts satisfies the recursive definition, so     *)
(* that this defines a function, and two functions that satisfy it cannot  *)
(* differ at a lowest header.  Everything else follows from what a branch  *)
(* of the block tree is (HeaderTreeProofs) and from counting.              *)
(***************************************************************************)
EXTENDS TreeViews, HeaderTreeProofs

-----------------------------------------------------------------------------
(* The paths of a tree.  The definitions of StaleRate and TreeViews that   *)
(* depend on the tree are restated here for any set of headers T, so that  *)
(* a lemma holds before and after a step.                                  *)

Path(T) ==
    LET path[b \in T] ==
          IF Parent[b] \in T THEN Append(path[Parent[b]], b) ELSE <<b>>
    IN  path

ConnectedIn(T, b) == {a \in Branch[b] : \A c \in Branch[b] : Height[c] >= Height[a] => c \in T}

LEMMA PathNow == PathToRoot = Path(tree) /\ PathToRoot' = Path(tree')
  BY DEF PathToRoot, Path

LEMMA ConnectedNow == \A b : Connected(b) = ConnectedIn(tree, b)
  BY DEF Connected, ConnectedIn

LEMMA ConnectedNext == \A b : Connected(b)' = ConnectedIn(tree', b)
  BY DEF Connected, ConnectedIn

\* The height at which the tree's part of a branch starts.
Bottom(T, b) ==
    CHOOSE h \in Nat : /\ \E a \in ConnectedIn(T, b) : Height[a] = h
                       /\ \A a \in ConnectedIn(T, b) : h <= Height[a]

\* A header is connected to itself, and to the blocks of its branch from some height.
LEMMA BottomFacts ==
    ASSUME NEW T \in SUBSET Block, NEW b \in T
    PROVE  /\ Bottom(T, b) \in 0 .. Height[b]
           /\ ConnectedIn(T, b) = {a \in Branch[b] : Height[a] >= Bottom(T, b)}
           /\ ConnectedIn(T, b) \subseteq T /\ b \in ConnectedIn(T, b)
           /\ Parent[AtHeight(b, Bottom(T, b))] \notin T
<1> DEFINE C == ConnectedIn(T, b)
           low == Bottom(T, b)
<1>1. b \in Branch[b] /\ Branch[b] \subseteq Block /\ Height[b] \in Nat
  BY BranchFacts
<1>2. \A a \in Branch[b] : Height[a] \in Nat /\ (a # b => Height[a] < Height[b])
  BY <1>1, BranchFacts, AncestorsLower
<1>3. b \in C
  BY <1>1, <1>2 DEF ConnectedIn
<1>4. C \subseteq T /\ C \subseteq Block /\ C \subseteq Branch[b]
  BY <1>1, <1>2 DEF ConnectedIn
<1>5. PICK a \in C : \A c \in C : Height[a] <= Height[c]
  BY <1>3, <1>4, LowestBlock
<1>6. /\ low \in Nat /\ \E c \in C : Height[c] = low
      /\ \A c \in C : low <= Height[c]
  <2>1. Height[a] \in Nat /\ Height[a] = Height[a]
    BY <1>2, <1>4
  <2>2. QED
    BY <1>5, <2>1 DEF Bottom
<1>7. PICK d \in C : Height[d] = low
  BY <1>6
<1>8. ASSUME NEW c \in Branch[b], Height[c] >= low PROVE c \in C
  <2>1. ASSUME NEW e \in Branch[b], Height[e] >= Height[c] PROVE e \in T
    <3>1. Height[e] >= Height[d]
      BY <2>1, <1>7, <1>8, <1>2, <1>4
    <3>2. QED
      BY <3>1 DEF ConnectedIn
  <2>2. QED
    BY <2>1 DEF ConnectedIn
<1>9. C = {c \in Branch[b] : Height[c] >= low}
  BY <1>4, <1>6, <1>8
<1>10. low \in 0 .. Height[b]
  BY <1>1, <1>3, <1>6
<1>11. AtHeight(b, low) = d
  BY <1>7, <1>10, <1>4, AtHeightFacts
<1>12. ASSUME Parent[d] \in T PROVE FALSE
  <2>1. /\ Parent[d] \in Block /\ Parent[d] # NoBlock /\ Height[d] = Height[Parent[d]] + 1
        /\ Parent[d] \in Branch[d]
    BY <1>12, <1>4, BlockAssumption, BranchFacts
  <2>2. Parent[d] \in Branch[b] /\ Height[Parent[d]] \in Nat
    BY <2>1, <1>4, BranchTransitive, BranchFacts
  <2>3. ASSUME NEW e \in Branch[b], Height[e] >= Height[Parent[d]] PROVE e \in T
    <3>1. CASE Height[e] = Height[Parent[d]]
      BY <3>1, <2>2, <1>12, OnePerHeight
    <3>2. CASE Height[e] # Height[Parent[d]]
      BY <3>2, <2>3, <2>1, <2>2, <1>2, <1>7 DEF ConnectedIn
    <3>3. QED
      BY <3>1, <3>2
  <2>4. Parent[d] \in C
    BY <2>2, <2>3 DEF ConnectedIn
  <2>5. QED
    BY <2>4, <2>1, <2>2, <1>6, <1>7
<1>13. QED
  BY <1>3, <1>4, <1>9, <1>10, <1>11, <1>12

\* What path_to_root returns for a header: its branch from that height up.
PathOf(T, b) ==
    [i \in 1 .. Height[b] - Bottom(T, b) + 1 |-> AtHeight(b, Bottom(T, b) + i - 1)]

\* A header in the tree with its parent starts where the parent does.
LEMMA BottomOfParent ==
    ASSUME NEW T \in SUBSET Block, NEW b \in T
    PROVE  IF Parent[b] \in T THEN Bottom(T, b) = Bottom(T, Parent[b])
                              ELSE Bottom(T, b) = Height[b]
<1>1. Height[b] \in Nat /\ b \in Branch[b] /\ Branch[b] \subseteq Block
  BY BranchFacts
<1>2. CASE Parent[b] \in T
  <2> DEFINE p == Parent[b]
  <2>1. p \in Block /\ p # NoBlock
    BY <1>2, BlockAssumption
  <2>2. Height[b] = Height[p] + 1 /\ Branch[b] = {b} \cup Branch[p] /\ p \in Branch[b]
        /\ Height[p] \in Nat /\ Branch[p] \subseteq Block /\ p \in Branch[p]
    BY <2>1, BranchFacts
  <2>3. \A a \in Branch[p] : Height[a] \in Nat /\ Height[a] < Height[b]
    BY <2>1, <2>2, BranchFacts, AncestorsLower
  <2>4. ConnectedIn(T, b) = {b} \cup ConnectedIn(T, p)
    BY <2>2, <2>3, <1>1 DEF ConnectedIn
  <2>5. /\ Bottom(T, b) \in 0 .. Height[b] /\ Bottom(T, p) \in 0 .. Height[p]
        /\ ConnectedIn(T, b) = {a \in Branch[b] : Height[a] >= Bottom(T, b)}
        /\ ConnectedIn(T, p) = {a \in Branch[p] : Height[a] >= Bottom(T, p)}
        /\ p \in ConnectedIn(T, p)
    BY <1>2, BottomFacts
  <2>6. Bottom(T, b) <= Height[p]
    BY <2>4, <2>5
  <2>7. PICK a \in Branch[b] : Height[a] = Bottom(T, b)
    BY <2>5, EveryHeight
  <2>8. PICK c \in Branch[p] : Height[c] = Bottom(T, p)
    BY <2>5, <2>1, EveryHeight
  <2>9. a \in Branch[p]
    BY <2>2, <2>6, <2>7
  <2>10. Bottom(T, p) <= Bottom(T, b)
    BY <2>4, <2>5, <2>7, <2>9, <2>3, <2>2
  <2>11. Bottom(T, b) <= Bottom(T, p)
    BY <2>4, <2>5, <2>8, <2>3
  <2>12. QED
    BY <1>2, <2>5, <2>10, <2>11
<1>3. CASE Parent[b] \notin T
  <2>1. Bottom(T, b) \in 0 .. Height[b] /\ ConnectedIn(T, b) = {a \in Branch[b] : Height[a] >= Bottom(T, b)}
        /\ ConnectedIn(T, b) \subseteq T
    BY BottomFacts
  <2>2. ASSUME Bottom(T, b) # Height[b] PROVE FALSE
    <3>1. Height[b] >= 1 /\ Bottom(T, b) <= Height[b] - 1
      BY <2>1, <2>2, <1>1
    <3>2. Parent[b] \in Branch[b] /\ Height[b] = Height[Parent[b]] + 1 /\ Height[Parent[b]] \in Nat
      BY <3>1, BranchFacts
    <3>3. Parent[b] \in ConnectedIn(T, b)
      BY <3>1, <3>2, <2>1
    <3>4. QED
      BY <3>3, <2>1, <1>3
  <2>3. QED
    BY <2>2, <1>3
<1>4. QED
  BY <1>2, <1>3

\* A sequence is a function on an interval.
LEMMA SequenceOf ==
    ASSUME NEW S, NEW n \in Nat, NEW s \in [1 .. n -> S]
    PROVE  s \in Seq(S) /\ Len(s) = n
  OBVIOUS

\* The closed form is a path as path_to_root builds it.
LEMMA PathOfStep ==
    ASSUME NEW T \in SUBSET Block, NEW b \in T
    PROVE  PathOf(T, b) = IF Parent[b] \in T THEN Append(PathOf(T, Parent[b]), b) ELSE <<b>>
<1>1. Height[b] \in Nat /\ b \in Branch[b] /\ Bottom(T, b) \in 0 .. Height[b]
  BY BranchFacts, BottomFacts
<1>2. AtHeight(b, Height[b]) = b
  BY <1>1, AtHeightFacts
<1>3. CASE Parent[b] \in T
  <2> DEFINE p == Parent[b]
             low == Bottom(T, b)
             long == PathOf(T, b)
             short == PathOf(T, p)
  <2>1. p \in Block /\ p # NoBlock
    BY <1>3, BlockAssumption
  <2>2. Height[b] = Height[p] + 1 /\ Branch[b] = {b} \cup Branch[p] /\ p \in Branch[b]
        /\ Height[p] \in Nat /\ p \in Branch[p]
    BY <2>1, BranchFacts
  <2>3. low = Bottom(T, p) /\ low \in 0 .. Height[p]
    BY <1>3, BottomOfParent, BottomFacts
  <2>4. PICK n \in Nat : n = Height[p] - low + 1
    BY <2>2, <2>3
  <2>5. short = [i \in 1 .. n |-> AtHeight(p, low + i - 1)]
    BY <2>3, <2>4 DEF PathOf
  <2>6. long = [i \in 1 .. n + 1 |-> AtHeight(b, low + i - 1)]
    <3>1. Height[b] - low + 1 = n + 1
      BY <2>2, <2>3, <2>4
    <3>2. QED
      BY <3>1 DEF PathOf
  <2>7. \A i \in 1 .. n : low + i - 1 \in 0 .. Height[p]
    BY <2>2, <2>3, <2>4
  <2>8. \A i \in 1 .. n : long[i] = short[i]
    <3>1. \A i \in 1 .. n : AtHeight(b, low + i - 1) = AtHeight(p, low + i - 1)
      BY <2>7, <2>2, AtHeightOfAncestor
    <3>2. QED
      BY <3>1, <2>5, <2>6
  <2>9. long[n + 1] = b
    <3>1. low + (n + 1) - 1 = Height[b]
      BY <2>2, <2>3, <2>4
    <3>2. QED
      BY <3>1, <2>6, <1>2
  <2> HIDE DEF long, short, p, low
  <2>10. DOMAIN short = 1 .. n /\ DOMAIN long = 1 .. n + 1 /\ short = [i \in 1 .. n |-> short[i]]
         /\ long = [i \in 1 .. n + 1 |-> long[i]]
    BY <2>5, <2>6
  <2>11. Len(short) = n
    BY <2>10, <2>4
  <2>12. long = Append(short, b)
    <3> DEFINE S == {long[i] : i \in 1 .. n + 1}
    <3>1. b \in S /\ (\A i \in 1 .. n + 1 : long[i] \in S) /\ \A i \in 1 .. n : short[i] \in S
      BY <2>8, <2>9, <2>4
    <3> HIDE DEF S
    <3>2. short \in [1 .. n -> S] /\ long \in [1 .. n + 1 -> S]
      BY <3>1, <2>10, Zenon
    <3>3. short \in Seq(S) /\ long \in Seq(S) /\ Len(long) = n + 1
      BY <3>2, n + 1 \in Nat, SequenceOf
    <3>4. QED
      BY <3>1, <3>3, <2>8, <2>9, <2>11
  <2>13. QED
    BY <2>12, <1>3 DEF long, short, p
<1>4. CASE Parent[b] \notin T
  <2>1. Bottom(T, b) = Height[b]
    BY <1>4, BottomOfParent
  <2>2. Height[b] - Bottom(T, b) + 1 = 1 /\ Bottom(T, b) + 1 - 1 = Height[b]
    BY <1>1, <2>1
  <2>3. DOMAIN PathOf(T, b) = {1} /\ PathOf(T, b)[1] = b
    BY <2>2, <1>2 DEF PathOf
  <2>4. PathOf(T, b) = [i \in 1 .. 1 |-> b]
    BY <2>2, <2>3, <1>2 DEF PathOf
  <2>5. QED
    BY <2>4, <1>4
<1>5. QED
  BY <1>3, <1>4

\* Hence the recursive definition defines a function.
LEMMA PathDefined ==
    ASSUME NEW T,
           \E f : f = [b \in T |-> IF Parent[b] \in T THEN Append(f[Parent[b]], b) ELSE <<b>>]
    PROVE  Path(T) = [b \in T |-> IF Parent[b] \in T THEN Append(Path(T)[Parent[b]], b) ELSE <<b>>]
  BY Zenon DEF Path

\* And it is that one.
LEMMA PathIs ==
    ASSUME NEW T \in SUBSET Block, NEW b \in T
    PROVE  Path(T)[b] = PathOf(T, b)
<1> DEFINE f == [c \in T |-> PathOf(T, c)]
<1>1. f = [c \in T |-> IF Parent[c] \in T THEN Append(f[Parent[c]], c) ELSE <<c>>]
  <2>1. \A c \in T : PathOf(T, c) = IF Parent[c] \in T THEN Append(PathOf(T, Parent[c]), c) ELSE <<c>>
    BY PathOfStep
  <2>2. \A c \in T : Parent[c] \in T => f[Parent[c]] = PathOf(T, Parent[c])
    OBVIOUS
  <2>3. \A c \in T : f[c] = IF Parent[c] \in T THEN Append(f[Parent[c]], c) ELSE <<c>>
    BY <2>1, <2>2
  <2>4. f = [c \in T |-> f[c]]
    OBVIOUS
  <2> HIDE DEF f
  <2>5. QED
    BY <2>3, <2>4, Zenon
<1> HIDE DEF f
<1>2. Path(T) = [c \in T |-> IF Parent[c] \in T THEN Append(Path(T)[Parent[c]], c) ELSE <<c>>]
  <2>1. \E g : g = [c \in T |-> IF Parent[c] \in T THEN Append(g[Parent[c]], c) ELSE <<c>>]
    BY <1>1, Zenon
  <2>2. QED
    BY <2>1, PathDefined
<1>3. \A c \in T : Path(T)[c] = IF Parent[c] \in T THEN Append(Path(T)[Parent[c]], c) ELSE <<c>>
  BY <1>2, Zenon
<1> DEFINE bad == {c \in T : Path(T)[c] # PathOf(T, c)}
<1>4. SUFFICES ASSUME bad # {} PROVE FALSE
  OBVIOUS
<1>5. PICK c \in bad : \A e \in bad : Height[c] <= Height[e]
  BY <1>4, LowestBlock
<1>6. Parent[c] \in T => Height[Parent[c]] < Height[c]
  BY BlockAssumption
<1>7. Parent[c] \in T => Parent[c] \notin bad
  BY <1>5, <1>6, BlockAssumption
<1>8. Path(T)[c] = PathOf(T, c)
  BY <1>3, <1>7, PathOfStep
<1>9. QED
  BY <1>8

-----------------------------------------------------------------------------
(* The resolved path.                                                      *)

\* The blocks connected to one that is connected to b are those connected to b.
LEMMA BottomOfConnected ==
    ASSUME NEW T \in SUBSET Block, NEW b \in T, NEW a \in ConnectedIn(T, b)
    PROVE  Bottom(T, a) = Bottom(T, b)
<1>1. /\ a \in T /\ a \in Branch[b] /\ Branch[b] \subseteq Block /\ Branch[a] \subseteq Branch[b]
      /\ Height[a] \in Nat /\ Height[b] \in Nat /\ Height[a] >= Bottom(T, b)
      /\ Bottom(T, b) \in 0 .. Height[b] /\ Bottom(T, a) \in 0 .. Height[a]
      /\ ConnectedIn(T, b) = {c \in Branch[b] : Height[c] >= Bottom(T, b)}
      /\ ConnectedIn(T, a) = {c \in Branch[a] : Height[c] >= Bottom(T, a)}
      /\ ConnectedIn(T, b) \subseteq T
  <2>1. a \in T /\ a \in Branch[b]
    BY BottomFacts DEF ConnectedIn
  <2>2. QED
    BY <2>1, BottomFacts, BranchTransitive, BranchFacts
<1>2. \A c \in Branch[b] : Height[c] \in Nat
  BY <1>1, BranchFacts
<1>3. ASSUME NEW c \in Branch[a], c \in ConnectedIn(T, b) PROVE c \in ConnectedIn(T, a)
  BY <1>3, <1>1 DEF ConnectedIn
<1>4. ASSUME NEW c \in Branch[a], c \in ConnectedIn(T, a) PROVE c \in ConnectedIn(T, b)
  <2>1. ASSUME NEW e \in Branch[b], Height[e] >= Height[c] PROVE e \in T
    <3>1. CASE Height[e] <= Height[a]
      <4>1. e \in Branch[a]
        BY <3>1, <1>1, BranchOrdered
      <4>2. QED
        BY <4>1, <2>1, <1>4 DEF ConnectedIn
    <3>2. CASE ~(Height[e] <= Height[a])
      BY <3>2, <1>1, <1>2
    <3>3. QED
      BY <3>1, <3>2
  <2>2. QED
    BY <2>1, <1>1 DEF ConnectedIn
<1>5. Bottom(T, b) \in 0 .. Height[a]
  BY <1>1
<1>6. PICK d \in Branch[a] : Height[d] = Bottom(T, b)
  BY <1>1, <1>5, EveryHeight
<1>7. PICK e \in Branch[a] : Height[e] = Bottom(T, a)
  BY <1>1, EveryHeight
<1>8. d \in ConnectedIn(T, a) /\ e \in ConnectedIn(T, b)
  <2>1. d \in ConnectedIn(T, b) /\ e \in ConnectedIn(T, a)
    BY <1>1, <1>2, <1>6, <1>7
  <2>2. QED
    BY <2>1, <1>3, <1>4
<1>9. QED
  BY <1>1, <1>2, <1>6, <1>7, <1>8

\* A set of indices that holds every smaller one of each is an interval.
LEMMA SharedIsInterval ==
    ASSUME NEW n \in Nat, NEW S \in SUBSET (1 .. n), \A i \in S : 1 .. i \subseteq S
    PROVE  Cardinality(S) \in 0 .. n /\ S = 1 .. Cardinality(S)
<1>1. CASE S = {}
  BY <1>1, FS_EmptySet
<1>2. CASE S # {}
  <2>1. S \in SUBSET Nat /\ \A i \in S : i <= n
    OBVIOUS
  <2>2. PICK m \in S : \A i \in S : i <= m
    BY <1>2, <2>1, GreatestNat
  <2>3. S = 1 .. m /\ m \in 1 .. n
    <3>1. 1 .. m \subseteq S /\ m \in 1 .. n
      OBVIOUS
    <3>2. \A i \in S : i \in 1 .. m
      BY <2>2, <2>1
    <3>3. QED
      BY <3>1, <3>2
  <2>4. Cardinality(1 .. m) = m
    BY <2>3, FS_Interval
  <2>5. QED
    BY <2>3, <2>4
<1>3. QED
  BY <1>1, <1>2

\* A path is a sequence of headers, one for each height.
LEMMA PathShape ==
    ASSUME NEW T \in SUBSET Block, NEW b \in T
    PROVE  /\ Path(T)[b] \in Seq(T) /\ Len(Path(T)[b]) = Height[b] - Bottom(T, b) + 1
           /\ Height[b] \in Nat /\ Bottom(T, b) \in 0 .. Height[b]
           /\ \A i \in 1 .. Height[b] - Bottom(T, b) + 1 :
                 /\ Path(T)[b][i] = AtHeight(b, Bottom(T, b) + i - 1)
                 /\ Path(T)[b][i] \in ConnectedIn(T, b)
                 /\ Height[Path(T)[b][i]] = Bottom(T, b) + i - 1
<1>1. /\ Height[b] \in Nat /\ Bottom(T, b) \in 0 .. Height[b]
      /\ ConnectedIn(T, b) = {a \in Branch[b] : Height[a] >= Bottom(T, b)}
      /\ ConnectedIn(T, b) \subseteq T
  BY BranchFacts, BottomFacts
<1>2. PICK n \in Nat : n = Height[b] - Bottom(T, b) + 1
  BY <1>1
<1>3. Path(T)[b] = [i \in 1 .. n |-> AtHeight(b, Bottom(T, b) + i - 1)]
  BY <1>2, PathIs DEF PathOf
<1>4. \A i \in 1 .. n : Bottom(T, b) + i - 1 \in 0 .. Height[b] /\ Bottom(T, b) + i - 1 >= Bottom(T, b)
  BY <1>1, <1>2
<1>5. \A i \in 1 .. n : /\ AtHeight(b, Bottom(T, b) + i - 1) \in ConnectedIn(T, b)
                        /\ Height[AtHeight(b, Bottom(T, b) + i - 1)] = Bottom(T, b) + i - 1
  BY <1>1, <1>4, AtHeightFacts
<1>6. Path(T)[b] \in [1 .. n -> T]
  BY <1>3, <1>5, <1>1
<1>7. Path(T)[b] \in Seq(T) /\ Len(Path(T)[b]) = n
  BY <1>6, SequenceOf
<1>8. \A i \in 1 .. n : /\ Path(T)[b][i] = AtHeight(b, Bottom(T, b) + i - 1)
                        /\ Path(T)[b][i] \in ConnectedIn(T, b)
                        /\ Height[Path(T)[b][i]] = Bottom(T, b) + i - 1
  BY <1>3, <1>5
<1>9. QED
  BY <1>1, <1>2, <1>7, <1>8

\* ResolvedPath, for any headers and tips.
Resolved(T, tips) ==
    LET paths == {Path(T)[t] : t \in tips}
        path == CHOOSE p \in paths : TRUE
        shared == {i \in 1 .. Len(path) : Agree(paths, i)}
    IN  SubSeq(path, 1, Cardinality(shared))

Common(T, tips) == {b \in Block : \A t \in tips : b \in ConnectedIn(T, t)}

LEMMA ResolvedNow ==
    ResolvedPath = Resolved(tree, ActiveTips) /\ ResolvedPath' = Resolved(tree', ActiveTips')
  BY PathNow DEF ResolvedPath, Resolved

\* It runs through the blocks connected to every tip, from the lowest to the highest.
LEMMA ResolvedFacts ==
    ASSUME NEW T \in SUBSET Block, NEW tips \in SUBSET T, tips # {}
    PROVE  LET r == Resolved(T, tips)
           IN  /\ r \in Seq(T)
               /\ Common(T, tips) = {r[i] : i \in 1 .. Len(r)}
               /\ \A i \in 1 .. Len(r) : Height[r[i]] = Height[r[1]] + i - 1
               /\ r # <<>> => Common(T, tips) = ConnectedIn(T, r[Len(r)])
<1> DEFINE paths == {Path(T)[t] : t \in tips}
           path == CHOOSE p \in paths : TRUE
           shared == {i \in 1 .. Len(path) : Agree(paths, i)}
           r == Resolved(T, tips)
<1>1. r = SubSeq(path, 1, Cardinality(shared))
  BY DEF Resolved
<1>2. PICK u \in tips : path = Path(T)[u]
  <2>1. path \in paths
    OBVIOUS
  <2>2. QED
    BY <2>1
<1> HIDE DEF path, r
<1>3. PICK low \in Nat : low = Bottom(T, u)
  <2>1. Bottom(T, u) \in 0 .. Height[u] /\ Height[u] \in Nat
    BY PathShape
  <2>2. QED
    BY <2>1
<1>4. PICK n \in Nat : n = Height[u] - low + 1
  <2>1. Bottom(T, u) \in 0 .. Height[u] /\ Height[u] \in Nat
    BY PathShape
  <2>2. QED
    BY <2>1, <1>3
<1>5. /\ path \in Seq(T) /\ Len(path) = n
      /\ \A i \in 1 .. n : /\ path[i] = AtHeight(u, low + i - 1) /\ path[i] \in ConnectedIn(T, u)
                           /\ Height[path[i]] = low + i - 1
  BY <1>2, <1>3, <1>4, PathShape
<1>6. shared \in SUBSET (1 .. n) /\ \A i \in shared : 1 .. i \subseteq shared
  <2>1. \A p \in paths : Len(p) \in Nat
    BY PathShape
  <2>2. ASSUME NEW i \in shared, NEW j \in 1 .. i PROVE j \in shared
    <3>1. i \in 1 .. n /\ Agree(paths, i)
      BY <1>5
    <3>2. j \in 1 .. n
      BY <3>1
    <3>3. Agree(paths, j)
      <4> SUFFICES ASSUME NEW p \in paths, NEW q \in paths
                   PROVE  j <= Len(p) /\ j <= Len(q) /\ \A k \in 1 .. j : p[k] = q[k]
        BY DEF Agree
      <4>1. i <= Len(p) /\ i <= Len(q) /\ \A k \in 1 .. i : p[k] = q[k]
        BY <3>1 DEF Agree
      <4>2. QED
        BY <4>1, <3>1, <2>1
    <3>4. QED
      BY <3>2, <3>3, <1>5
  <2>3. QED
    BY <2>2, <1>5
<1> HIDE DEF shared
<1>7. PICK k \in 0 .. n : k = Cardinality(shared) /\ shared = 1 .. k
  BY <1>6, SharedIsInterval
<1>8. \A i \in 1 .. k : i \in 1 .. n
  OBVIOUS
<1>9. r \in Seq(T) /\ Len(r) = k /\ \A i \in 1 .. k : r[i] = path[i]
  BY <1>1, <1>5, <1>7
<1>10. ASSUME NEW b \in Common(T, tips) PROVE \E i \in 1 .. k : r[i] = b
  <2>1. b \in Block /\ Height[b] \in Nat /\ \A t \in tips : b \in ConnectedIn(T, t)
    BY BranchFacts DEF Common
  <2>2. \A t \in tips : /\ Bottom(T, t) = Bottom(T, b) /\ b \in Branch[t]
                        /\ Height[b] >= Bottom(T, b) /\ Height[b] <= Height[t]
    <3> TAKE t \in tips
    <3>1. Bottom(T, t) = Bottom(T, b) /\ b \in Branch[t]
      BY <2>1, BottomOfConnected DEF ConnectedIn
    <3>2. Height[b] >= Bottom(T, t)
      BY <2>1, BottomFacts
    <3>3. QED
      BY <3>1, <3>2, <2>1, BranchFacts, AncestorsLower
  <2>3. low = Bottom(T, b)
    BY <2>2, <1>3
  <2>4. PICK i \in 1 .. n : i = Height[b] - low + 1
    BY <2>1, <2>2, <2>3, <1>4, BranchFacts
  <2>5. \A t \in tips : i <= Len(Path(T)[t]) /\ \A j \in 1 .. i : Path(T)[t][j] = AtHeight(b, low + j - 1)
    <3> TAKE t \in tips
    <3>1. Bottom(T, t) = low /\ Height[t] \in Nat /\ Height[b] <= Height[t] /\ b \in Branch[t]
      BY <2>2, <2>3, BranchFacts
    <3>2. i <= Height[t] - low + 1
      BY <3>1, <2>4, <2>1
    <3>3. ASSUME NEW j \in 1 .. i PROVE Path(T)[t][j] = AtHeight(b, low + j - 1)
      <4>1. j \in 1 .. Height[t] - low + 1
        BY <3>1, <3>2
      <4>2. Path(T)[t][j] = AtHeight(t, low + j - 1)
        BY <4>1, <3>1, PathShape
      <4>3. low + j - 1 \in 0 .. Height[b]
        BY <2>4, <2>1
      <4>4. QED
        BY <4>2, <4>3, <3>1, AtHeightOfAncestor
    <3>4. QED
      BY <3>1, <3>2, <3>3, PathShape
  <2>6. i \in shared
    <3>1. Agree(paths, i)
      BY <2>5 DEF Agree
    <3>2. QED
      BY <3>1, <1>5 DEF shared
  <2>7. i \in 1 .. k
    BY <2>6, <1>7
  <2>8. path[i] = b
    <3>1. low + i - 1 = Height[b] /\ b \in Branch[u] /\ Height[u] \in Nat /\ Height[b] <= Height[u]
      BY <2>1, <2>2, <2>4, BranchFacts
    <3>2. path[i] = AtHeight(u, Height[b])
      BY <3>1, <1>5
    <3>3. Height[b] \in 0 .. Height[u]
      BY <3>1, <2>1
    <3>4. QED
      BY <3>1, <3>2, <3>3, AtHeightFacts
  <2>9. QED
    BY <2>7, <2>8, <1>9
<1>11. ASSUME NEW i \in 1 .. k PROVE r[i] \in Common(T, tips)
  <2>1. i \in shared /\ i \in 1 .. n
    BY <1>7, <1>8
  <2>2. Agree(paths, i)
    BY <2>1 DEF shared
  <2>3. ASSUME NEW t \in tips PROVE path[i] \in ConnectedIn(T, t)
    <3>1. i <= Len(Path(T)[t]) /\ path[i] = Path(T)[t][i]
      BY <2>2, <1>2 DEF Agree
    <3>2. i \in 1 .. Height[t] - Bottom(T, t) + 1
      BY <3>1, PathShape
    <3>3. QED
      BY <3>1, <3>2, PathShape
  <2>4. path[i] \in Block
    BY <1>5, <2>1
  <2>5. QED
    BY <2>3, <2>4, <1>9 DEF Common
<1>12. Common(T, tips) = {r[i] : i \in 1 .. Len(r)}
  BY <1>9, <1>10, <1>11
<1>13. \A i \in 1 .. Len(r) : Height[r[i]] = Height[r[1]] + i - 1
  <2>1. \A i \in 1 .. k : Height[r[i]] = low + i - 1
    BY <1>5, <1>8, <1>9
  <2>2. QED
    BY <2>1, <1>9
<1>14. ASSUME r # <<>> PROVE Common(T, tips) = ConnectedIn(T, r[Len(r)])
  <2>1. k \in 1 .. n
    BY <1>14, <1>9
  <2>2. r[k] \in ConnectedIn(T, u) /\ r[k] \in Common(T, tips)
    BY <2>1, <1>5, <1>9, <1>11
  <2>3. \A a \in ConnectedIn(T, r[k]) : \A t \in tips : a \in ConnectedIn(T, t)
    <3> TAKE a \in ConnectedIn(T, r[k])
    <3> TAKE t \in tips
    <3>1. r[k] \in ConnectedIn(T, t)
      BY <2>2 DEF Common
    <3>2. r[k] \in T /\ r[k] \in Branch[t] /\ Bottom(T, r[k]) = Bottom(T, t)
      BY <3>1, BottomOfConnected, BottomFacts DEF ConnectedIn
    <3>3. a \in Branch[r[k]] /\ Height[a] >= Bottom(T, t)
      BY <3>2, BottomFacts DEF ConnectedIn
    <3>4. a \in Branch[t]
      BY <3>2, <3>3, BranchTransitive
    <3>5. QED
      BY <3>3, <3>4, BottomFacts
  <2>4. \A a \in ConnectedIn(T, r[k]) : a \in Common(T, tips)
    <3>1. r[k] \in T /\ r[k] \in Block
      BY <2>2, BottomFacts
    <3>2. ConnectedIn(T, r[k]) \subseteq Block
      BY <3>1, BranchFacts DEF ConnectedIn
    <3>3. QED
      BY <2>3, <3>2 DEF Common
  <2>5. ASSUME NEW a \in Common(T, tips) PROVE a \in ConnectedIn(T, r[k])
    <3>1. PICK i \in 1 .. k : r[i] = a
      BY <1>10
    <3>2. Height[r[i]] = low + i - 1 /\ Height[r[k]] = low + k - 1
      BY <1>5, <1>7, <1>9, <2>1
    <3>3. Height[a] <= Height[r[k]] /\ Height[a] >= low
      BY <3>1, <3>2
    <3>4. a \in Branch[u] /\ r[k] \in Branch[u] /\ r[k] \in T
      BY <2>2, BottomFacts DEF Common, ConnectedIn
    <3>5. a \in Branch[r[k]]
      BY <3>3, <3>4, BranchOrdered
    <3>6. Bottom(T, r[k]) = low
      BY <2>2, <1>3, BottomOfConnected
    <3>7. QED
      BY <3>3, <3>4, <3>5, <3>6, BottomFacts
  <2>6. QED
    BY <2>4, <2>5, <1>9
<1>15. QED
  BY <1>9, <1>12, <1>13, <1>14 DEF r


-----------------------------------------------------------------------------
(* The inputs.                                                             *)

\* The tree holds finitely many headers, none below the lowest height kept.
InputsType ==
    /\ tree \in SUBSET Tracked /\ IsFiniteSet(tree)
    /\ tip \in [Node -> Block \cup {NoBlock}]
    /\ reachable \in SUBSET Node

\* Every step keeps them so.
LEMMA InputsInductive ==
    ASSUME InputsType, [Next]_vars
    PROVE  InputsType'
<1>1. ASSUME NEW run \in Runs, InsertHeaders(run) PROVE InputsType'
  <2>1. PICK top \in Tracked, low \in {Height[b] : b \in Tracked} :
            run = {b \in Branch[top] : Height[b] >= low}
    BY DEF Runs
  <2>2. top \in Block /\ Branch[top] \subseteq Block /\ IsFiniteSet(Branch[top])
    BY BranchFacts, BranchAssumption DEF Tracked
  <2>3. IsFiniteSet(run) /\ run \subseteq Branch[top]
    BY <2>1, <2>2, FS_Subset
  <2>4. run \subseteq Tracked
    <3>1. low \in Nat /\ low >= FirstTracked /\ FirstTracked \in Nat
      BY BlockAssumption DEF Tracked
    <3>2. QED
      BY <3>1, <2>1, <2>2, BlockAssumption DEF Tracked
  <2>5. IsFiniteSet(tree \cup run)
    BY <2>3, FS_Union DEF InputsType
  <2>6. QED
    BY <1>1, <2>4, <2>5 DEF InsertHeaders, InsertNodes, InputsType
<1>2. ASSUME NEW n \in Node, NEW b \in Block, NodeTips(n, b) PROVE InputsType'
  BY <1>2 DEF NodeTips, InputsType
<1>3. ASSUME NEW n \in Node, NodeReachability(n) PROVE InputsType'
  BY <1>3 DEF NodeReachability, InputsType
<1>4. ASSUME UNCHANGED vars PROVE InputsType'
  BY <1>4 DEF vars, InputsType
<1>5. QED
  BY <1>1, <1>2, <1>3, <1>4 DEF Next

\* The inputs are always of these kinds: what the metrics read is a finite tree of
\* tracked headers (metrics.rs reads the tree and the cached tips).
THEOREM InputsCorrect == Spec => []InputsType
<1>1. Init => InputsType
  BY FS_EmptySet DEF Init, InputsType
<1>2. QED
  BY <1>1, InputsInductive, PTL DEF Spec

-----------------------------------------------------------------------------
(* The resolved block.                                                     *)

\* The tree is a finite set of blocks.
LEMMA TrackedBlocks == InputsType => tree \in SUBSET Block /\ IsFiniteSet(tree)
  BY DEF InputsType, Tracked

\* What resolved_tip_index returns in a state in which there are tips, all in the tree.
LEMMA ResolvedInState ==
    ASSUME InputsType, ActiveTips # {}, ActiveTips \subseteq tree
    PROVE  /\ ResolvedPath \in Seq(tree) /\ Len(ResolvedPath) \in Nat
           /\ Common(tree, ActiveTips) = {ResolvedPath[i] : i \in 1 .. Len(ResolvedPath)}
           /\ \A i \in 1 .. Len(ResolvedPath) : Height[ResolvedPath[i]] = Height[ResolvedPath[1]] + i - 1
           /\ ResolvedPath # <<>> =>
                 Common(tree, ActiveTips) = ConnectedIn(tree, ResolvedPath[Len(ResolvedPath)])
<1>1. tree \in SUBSET Block /\ ActiveTips \in SUBSET tree /\ ActiveTips # {}
  BY TrackedBlocks
<1> DEFINE tips == ActiveTips
           r == ResolvedPath
<1>2. r = Resolved(tree, tips)
  BY ResolvedNow
<1> HIDE DEF tips, r
<1>3. LET q == Resolved(tree, tips)
      IN  /\ q \in Seq(tree)
          /\ Common(tree, tips) = {q[i] : i \in 1 .. Len(q)}
          /\ \A i \in 1 .. Len(q) : Height[q[i]] = Height[q[1]] + i - 1
          /\ q # <<>> => Common(tree, tips) = ConnectedIn(tree, q[Len(q)])
  BY <1>1, ResolvedFacts DEF tips
<1>4. QED
  BY <1>2, <1>3 DEF tips, r

\* So the resolved block is the highest common ancestor the tree connects to the tips.
LEMMA ResolvedStep ==
    ASSUME InputsType
    PROVE  ResolvedIsCommonAncestor
<1> SUFFICES ASSUME ActiveTips # {}, ActiveTips \subseteq tree PROVE ResolvedIsCommonAncestor
  BY DEF ResolvedIsCommonAncestor
<1> DEFINE common == {b \in Block : \A t \in ActiveTips : b \in Connected(t)}
           r == ResolvedPath
<1>1. common = Common(tree, ActiveTips)
  BY ConnectedNow DEF Common
<1>2. /\ r \in Seq(tree) /\ Len(r) \in Nat
      /\ common = {r[i] : i \in 1 .. Len(r)}
      /\ \A i \in 1 .. Len(r) : Height[r[i]] = Height[r[1]] + i - 1
  BY <1>1, ResolvedInState
<1> HIDE DEF common, r
<1>3. (Status = "insufficient_history") = (r = <<>>)
  <2>1. Status = IF r = <<>> THEN "insufficient_history"
                 ELSE IF HasStaleTipObserver THEN "ok" ELSE "no_reachable_stale_tip_support"
    BY DEF Status, r
  <2>2. QED
    BY <2>1
<1>4. (r = <<>>) = (common = {})
  <2>1. r = <<>> <=> Len(r) = 0
    BY <1>2
  <2>2. Len(r) # 0 => r[1] \in common
    BY <1>2
  <2>3. Len(r) = 0 => common = {}
    BY <1>2
  <2>4. QED
    BY <2>1, <2>2, <2>3
<1>5. ASSUME common # {}
      PROVE  /\ Tip(r) \in common
             /\ \A b \in common : Height[b] <= Height[Tip(r)]
             /\ {r[i] : i \in DOMAIN r} = common
  <2>1. Len(r) \in 1 .. Len(r) /\ 1 \in 1 .. Len(r) /\ Tip(r) = r[Len(r)] /\ DOMAIN r = 1 .. Len(r)
    BY <1>2, <1>5 DEF Tip
  <2>2. Height[r[1]] \in Nat
    BY <1>2, <2>1, TrackedBlocks, BlockAssumption
  <2>3. \A i \in 1 .. Len(r) : Height[r[i]] <= Height[r[Len(r)]]
    BY <1>2, <2>1, <2>2
  <2>4. QED
    BY <1>2, <2>1, <2>3
<1>6. QED
  BY <1>3, <1>4, <1>5 DEF ResolvedIsCommonAncestor, common, r

\* Whatever gaps the tree has and whichever nodes answer, the metrics are taken at the
\* highest block that the tree connects to every reachable active tip, and there are
\* none exactly when there is no such block (resolved_tip_index).
THEOREM ResolvedCorrect == Spec => []ResolvedIsCommonAncestor
<1>1. InputsType => ResolvedIsCommonAncestor
  BY ResolvedStep
<1>2. QED
  BY <1>1, InputsCorrect, PTL


-----------------------------------------------------------------------------
(* The windows.                                                            *)

HeadersIn(T, start, end) == {b \in T : Height[b] \in start .. end}

GapIn(T, start, end) == \E b \in T : Parent[b] \notin T /\ Height[b] \in start + 1 .. end

ChainIn(last, start) == {b \in Branch[last] : Height[b] \in start .. Height[last]}

\* Without a gap, every header at these heights is connected down to the first one.
LEMMA NoGapConnected ==
    ASSUME NEW T \in SUBSET Block, NEW start \in Nat, NEW end \in Nat, ~GapIn(T, start, end),
           NEW b \in HeadersIn(T, start, end), NEW a \in Branch[b], Height[a] >= start
    PROVE  a \in T
<1> DEFINE missing == {c \in Branch[b] : Height[c] >= start /\ c \notin T}
<1>1. SUFFICES ASSUME missing # {} PROVE FALSE
  OBVIOUS
<1>2. b \in T /\ b \in Block /\ Branch[b] \subseteq Block /\ Height[b] \in Nat /\ Height[b] <= end
  BY BranchFacts DEF HeadersIn
<1>3. \A c \in Branch[b] : Height[c] \in Nat /\ Height[c] <= Height[b]
  BY <1>2, BranchFacts, AncestorsLower
<1>4. PICK c \in missing : \A d \in missing : Height[d] <= Height[c]
  BY <1>1, <1>2, <1>3, HighestBlock
<1>5. c # b
  BY <1>2
<1>6. PICK d \in Branch[b] : Parent[d] = c
  BY <1>2, <1>5, AncestorHasChild
<1>7. Height[d] = Height[c] + 1 /\ Height[d] <= end /\ Height[c] >= start
  BY <1>2, <1>3, <1>6, BlockAssumption
<1>8. d \in T
  BY <1>3, <1>4, <1>7
<1>9. QED
  BY <1>3, <1>6, <1>7, <1>8 DEF GapIn

\* The blocks of a tree that lead to its last one, as resolved_tip_index returns them.
IsChain(T, r) ==
    /\ r \in Seq(T) /\ Len(r) \in Nat \ {0}
    /\ \A i \in 1 .. Len(r) : Height[r[i]] = Height[r[1]] + i - 1
    /\ ConnectedIn(T, r[Len(r)]) = {r[i] : i \in 1 .. Len(r)}

\* The k-th block of a chain from its end is k - 1 below the last.
LEMMA ChainFacts ==
    ASSUME NEW T \in SUBSET Block, NEW r, IsChain(T, r), NEW k \in 1 .. Len(r)
    PROVE  /\ r[Len(r)] \in T /\ Height[r[Len(r)]] \in Nat
           /\ r[Len(r) - k + 1] \in T
           /\ Height[r[Len(r) - k + 1]] = Height[r[Len(r)]] - k + 1
           /\ Height[r[Len(r)]] - k + 1 \in Nat
           /\ Height[r[Len(r)]] - k + 1 >= Bottom(T, r[Len(r)])
<1> DEFINE n == Len(r)
           first == n - k + 1
<1>1. n \in 1 .. n /\ first \in 1 .. n /\ 1 \in 1 .. n /\ n \in Nat
  BY DEF IsChain
<1>2. r[n] \in T /\ r[first] \in T /\ r[1] \in T
  BY <1>1 DEF IsChain
<1>3. Height[r[n]] \in Nat /\ Height[r[first]] \in Nat /\ Height[r[1]] \in Nat
  BY <1>2, BlockAssumption
<1>4. Height[r[n]] = Height[r[1]] + n - 1 /\ Height[r[first]] = Height[r[1]] + first - 1
  BY <1>1 DEF IsChain
<1>5. r[first] \in ConnectedIn(T, r[n])
  BY <1>1 DEF IsChain
<1>6. Height[r[first]] >= Bottom(T, r[n])
  BY <1>2, <1>5, BottomFacts
<1>7. Height[r[first]] = Height[r[n]] - k + 1
  <2>1. PICK x \in Nat, y \in Nat, z \in Nat : x = Height[r[1]] /\ y = Height[r[n]] /\ z = Height[r[first]]
    BY <1>3
  <2>2. PICK m \in Nat : m = n
    BY <1>1
  <2>3. y = x + m - 1 /\ z = x + (m - k + 1) - 1
    BY <1>4, <2>1, <2>2
  <2>4. k \in Nat
    BY <1>1
  <2>5. z = y - k + 1
    BY <2>3, <2>4
  <2> HIDE DEF n, first
  <2>6. QED
    BY <2>1, <2>5
<1>8. QED
  BY <1>2, <1>3, <1>6, <1>7

\* What a window over the last k blocks counts.
LEMMA WindowCounts ==
    ASSUME NEW T \in SUBSET Block, IsFiniteSet(T), NEW r, IsChain(T, r), NEW k \in 1 .. Len(r)
    PROVE  LET last == r[Len(r)]
               start == Height[last] - k + 1
               headers == HeadersIn(T, start, Height[last])
               chain == ChainIn(last, start)
           IN  /\ Cardinality(chain) = k /\ chain \subseteq headers
               /\ IsFiniteSet(headers) /\ Cardinality(headers) \in Nat
               /\ Cardinality(headers \ chain) = Cardinality(headers) - k
               /\ Cardinality(headers) >= k
<1> DEFINE last == r[Len(r)]
           start == Height[last] - k + 1
           headers == HeadersIn(T, start, Height[last])
           chain == ChainIn(last, start)
<1>1. last \in T /\ last \in Block /\ Height[last] \in Nat /\ start \in Nat /\ start >= Bottom(T, last)
  BY ChainFacts
<1>2. \A b \in Branch[last] : Height[b] \in Nat /\ Height[b] <= Height[last]
  BY <1>1, BranchFacts, AncestorsLower
<1> HIDE DEF last
<1>3. chain = {b \in Branch[last] : Height[b] >= start}
  BY <1>1, <1>2 DEF ChainIn
<1>4. Cardinality(chain) = k
  <2>1. start <= Height[last] + 1 /\ Height[last] - start + 1 = k
    BY <1>1
  <2> HIDE DEF start, chain
  <2>2. QED
    BY <1>1, <1>3, <2>1, BranchCount
<1>5. chain \subseteq headers
  <2>1. ConnectedIn(T, last) = {b \in Branch[last] : Height[b] >= Bottom(T, last)}
        /\ ConnectedIn(T, last) \subseteq T /\ Bottom(T, last) \in Nat
    BY <1>1, BottomFacts
  <2>2. QED
    BY <1>1, <1>2, <2>1 DEF ChainIn, HeadersIn
<1>6. IsFiniteSet(headers)
  <2>1. headers \in SUBSET T
    BY DEF HeadersIn
  <2>2. QED
    BY <2>1, FS_Subset
<1> HIDE DEF start, headers, chain
<1>7. Cardinality(headers) \in Nat /\ Cardinality(headers \ chain) = Cardinality(headers) - k
  <2>1. headers \cap chain = chain
    BY <1>5
  <2>2. Cardinality(headers) \in Nat
    BY <1>6, FS_CardinalityType
  <2>3. Cardinality(headers \ chain) = Cardinality(headers) - Cardinality(headers \cap chain)
    BY <1>6, FS_Difference
  <2>4. QED
    BY <1>4, <2>1, <2>2, <2>3
<1>8. Cardinality(headers) >= k
  BY <1>4, <1>5, <1>6, <1>7, FS_Subset
<1>9. QED
  BY <1>4, <1>5, <1>6, <1>7, <1>8 DEF last, start, headers, chain


WindowIn(T, first, last, active) ==
    LET start == Height[first]
        end   == Height[last]
        total == Cardinality(HeadersIn(T, start, end))
    IN  IF GapIn(T, start, end) THEN Unavailable
        ELSE [available |-> TRUE, active |-> active,
              stale |-> IF total > active THEN total - active ELSE 0]

RollingIn(T, path, k) ==
    IF Len(path) < k THEN Unavailable ELSE WindowIn(T, path[Len(path) - k + 1], Tip(path), k)

LEMMA WindowNow ==
    /\ \A first, last, active : Window(first, last, active) = WindowIn(tree, first, last, active)
    /\ \A path, k : RollingWindow(path, k) = RollingIn(tree, path, k)
  BY DEF Window, WindowIn, RollingWindow, RollingIn, InHeightRange, HeadersIn, HistoryGap, GapIn

LEMMA RollingNext == \A k : RollingWindow(ResolvedPath, k)' = RollingIn(tree', ResolvedPath', k)
  BY DEF Window, WindowIn, RollingWindow, RollingIn, InHeightRange, HeadersIn, HistoryGap, GapIn,
         Unavailable, Tip

\* A window over the last k blocks of a chain.
LEMMA WindowFacts ==
    ASSUME NEW T \in SUBSET Block, IsFiniteSet(T), NEW r, IsChain(T, r), NEW k \in 1 .. Len(r)
    PROVE  LET w == WindowIn(T, r[Len(r) - k + 1], r[Len(r)], k)
               last == r[Len(r)]
               start == Height[last] - k + 1
           IN  /\ w.available = ~GapIn(T, start, Height[last])
               /\ w.available =>
                     /\ w.active = k
                     /\ w.stale = Cardinality(HeadersIn(T, start, Height[last]) \ ChainIn(last, start))
<1> DEFINE last == r[Len(r)]
           start == Height[last] - k + 1
           w == WindowIn(T, r[Len(r) - k + 1], last, k)
           total == Cardinality(HeadersIn(T, start, Height[last]))
           others == Cardinality(HeadersIn(T, start, Height[last]) \ ChainIn(last, start))
<1>1. total \in Nat /\ others = total - k /\ total >= k
  <2> DEFINE headers == HeadersIn(T, start, Height[last])
             chain == ChainIn(last, start)
  <2>1. Cardinality(headers) \in Nat
    BY WindowCounts
  <2>2. Cardinality(headers) >= k
    BY WindowCounts
  <2>3. Cardinality(headers \ chain) = Cardinality(headers) - k
    BY WindowCounts
  <2>4. QED
    BY <2>1, <2>2, <2>3
<1>2. Height[r[Len(r) - k + 1]] = start /\ k \in Nat
  BY ChainFacts DEF IsChain
<1>3. w = IF GapIn(T, start, Height[last]) THEN Unavailable
          ELSE [available |-> TRUE, active |-> k, stale |-> IF total > k THEN total - k ELSE 0]
  BY <1>2 DEF WindowIn
<1> HIDE DEF w, total, others, start, last
<1>4. /\ w.available = ~GapIn(T, start, Height[last])
      /\ w.available => w.active = k /\ w.stale = others
  <2>1. CASE GapIn(T, start, Height[last])
    BY <2>1, <1>3 DEF Unavailable
  <2>2. CASE ~GapIn(T, start, Height[last])
    <3>1. w = [available |-> TRUE, active |-> k, stale |-> IF total > k THEN total - k ELSE 0]
      BY <1>3, <2>2
    <3>2. (IF total > k THEN total - k ELSE 0) = others
      BY <1>1, <1>2
    <3>3. QED
      BY <3>1, <3>2, <2>2
  <2>3. QED
    BY <2>1, <2>2
<1>5. QED
  BY <1>4 DEF w, others, start, last

\* When the metrics are served, the resolved path is a chain of the tree.
LEMMA ResolvedIsChain ==
    ASSUME InputsType, Status = "ok"
    PROVE  /\ tree \in SUBSET Block /\ IsFiniteSet(tree)
           /\ ActiveTips # {} /\ ActiveTips \subseteq tree /\ HasStaleTipObserver
           /\ IsChain(tree, ResolvedPath)
           /\ Common(tree, ActiveTips) = ConnectedIn(tree, ResolvedPath[Len(ResolvedPath)])
<1>1. ActiveTips # {} /\ ActiveTips \subseteq tree
  BY DEF Status
<1>2. Status = IF ResolvedPath = <<>> THEN "insufficient_history"
               ELSE IF HasStaleTipObserver THEN "ok" ELSE "no_reachable_stale_tip_support"
  BY <1>1 DEF Status
<1>3. ResolvedPath # <<>> /\ HasStaleTipObserver
  BY <1>2
<1> DEFINE r == ResolvedPath
<1>4. /\ r \in Seq(tree) /\ Len(r) \in Nat
      /\ Common(tree, ActiveTips) = {r[i] : i \in 1 .. Len(r)}
      /\ \A i \in 1 .. Len(r) : Height[r[i]] = Height[r[1]] + i - 1
      /\ Common(tree, ActiveTips) = ConnectedIn(tree, r[Len(r)])
  BY <1>1, <1>3, ResolvedInState
<1> HIDE DEF r
<1>5. Len(r) \in Nat \ {0}
  BY <1>3, <1>4 DEF r
<1>6. IsChain(tree, r)
  BY <1>4, <1>5 DEF IsChain
<1>7. QED
  BY <1>1, <1>3, <1>4, <1>6, TrackedBlocks DEF r

\* A window over the last k blocks is exact.
LEMMA WindowIsExact ==
    ASSUME InputsType, Status = "ok", NEW k \in 1 .. Len(ResolvedPath)
    PROVE  WindowExact(Window(ResolvedPath[Len(ResolvedPath) - k + 1], Tip(ResolvedPath), k),
                       Height[Tip(ResolvedPath)] - k + 1)
<1> DEFINE r == ResolvedPath
           last == r[Len(r)]
           start == Height[last] - k + 1
           w == WindowIn(tree, r[Len(r) - k + 1], last, k)
           headers == HeadersIn(tree, start, Height[last])
           chain == ChainIn(last, start)
<1>1. tree \in SUBSET Block /\ IsFiniteSet(tree) /\ IsChain(tree, r)
  BY ResolvedIsChain
<1> HIDE DEF r
<1>2. k \in 1 .. Len(r)
  BY DEF r
<1>3. /\ w.available = ~GapIn(tree, start, Height[last])
      /\ w.available => w.active = k /\ w.stale = Cardinality(headers \ chain)
  BY <1>1, <1>2, WindowFacts
<1>4. Cardinality(chain) = k /\ chain \subseteq headers
  BY <1>1, <1>2, WindowCounts
<1>5. start \in Nat /\ Height[last] \in Nat
  BY <1>1, <1>2, ChainFacts
<1>6. ASSUME w.available, NEW b \in headers, NEW a \in Branch[b], Height[a] >= start PROVE a \in tree
  BY <1>6, <1>1, <1>3, <1>5, NoGapConnected
<1>7. Tip(r) = last /\ headers = InHeightRange(start, Height[last])
      /\ chain = {b \in Branch[last] : Height[b] \in start .. Height[last]}
      /\ Window(r[Len(r) - k + 1], last, k) = w
  BY WindowNow DEF Tip, HeadersIn, InHeightRange, ChainIn
<1>8. chain \subseteq tree
  BY <1>4 DEF HeadersIn
<1> HIDE DEF last, start, w, headers, chain
<1>9. WindowExact(w, start)
  <2>1. Tip(ResolvedPath) = last
    BY <1>7 DEF r
  <2>2. QED
    BY <2>1, <1>3, <1>4, <1>6, <1>7, <1>8 DEF WindowExact
<1>10. QED
  BY <1>7, <1>9 DEF r, last, start

\* So are all windows.
LEMMA WindowsStep ==
    ASSUME InputsType
    PROVE  WindowsExact
<1> SUFFICES ASSUME Status = "ok" PROVE WindowsExact
  BY DEF WindowsExact
<1> DEFINE r == ResolvedPath
<1>1. tree \in SUBSET Block /\ IsChain(tree, r)
  BY ResolvedIsChain
<1>2. \A k \in 1 .. Len(r) : WindowExact(Window(r[Len(r) - k + 1], Tip(r), k), Height[Tip(r)] - k + 1)
  BY WindowIsExact
<1> HIDE DEF r
<1>3. Len(r) \in Nat \ {0} /\ Len(r) \in 1 .. Len(r)
  BY <1>1 DEF IsChain
<1>4. WindowExact(AllTimeWindow(r), Height[r[1]])
  <2>1. Len(r) - Len(r) + 1 = 1
    BY <1>3
  <2>2. Height[Tip(r)] - Len(r) + 1 = Height[r[1]]
    BY <1>1, <1>3, <2>1, ChainFacts DEF Tip
  <2>3. QED
    BY <1>2, <1>3, <2>1, <2>2 DEF AllTimeWindow
<1>5. ASSUME NEW k \in Windows PROVE WindowExact(RollingWindow(r, k), Height[Tip(r)] - k + 1)
  <2>1. k \in Nat \ {0}
    BY MetricsAssumption DEF Windows
  <2>2. CASE Len(r) < k
    <3>1. ~RollingWindow(r, k).available
      BY <2>2 DEF RollingWindow, Unavailable
    <3>2. QED
      BY <3>1 DEF WindowExact
  <2>3. CASE ~(Len(r) < k)
    <3>1. k \in 1 .. Len(r)
      BY <2>1, <2>3, <1>3
    <3>2. RollingWindow(r, k) = Window(r[Len(r) - k + 1], Tip(r), k)
      BY <2>3 DEF RollingWindow
    <3>3. QED
      BY <3>1, <3>2, <1>2
  <2>4. QED
    BY <2>2, <2>3
<1>6. QED
  BY <1>4, <1>5 DEF WindowsExact, r

\* However the headers of the tree arrived, an available window's active blocks are the
\* blocks of the resolved chain in its heights and its stale blocks all other headers of
\* the tree there, none of them cut off from the window's first height (build_window).
THEOREM WindowsCorrect == Spec => []WindowsExact
<1>1. InputsType => WindowsExact
  BY WindowsStep
<1>2. QED
  BY <1>1, InputsCorrect, PTL


-----------------------------------------------------------------------------
(* The ranges.                                                             *)

Increasing(s) == \A i, j \in DOMAIN s : i < j => s[i] < s[j]

\* A finite set of naturals can be sorted.
LEMMA SortedExists ==
    ASSUME NEW S \in SUBSET Nat, IsFiniteSet(S)
    PROVE  \E s \in [1 .. Cardinality(S) -> S] : Increasing(s)
<1> DEFINE n == Cardinality(S)
           Lowest(s) == \A i \in DOMAIN s, x \in S : x \in {s[j] : j \in DOMAIN s} \/ s[i] < x
           sorted == {m \in 0 .. n : \E s \in [1 .. m -> S] : Increasing(s) /\ Lowest(s)}
<1>1. n \in Nat
  BY FS_CardinalityType
<1> HIDE DEF n
<1>2. 0 \in sorted
  <2> DEFINE s == [i \in 1 .. 0 |-> 0]
  <2>1. s \in [1 .. 0 -> S] /\ DOMAIN s = {}
    OBVIOUS
  <2> HIDE DEF s
  <2>2. Increasing(s) /\ Lowest(s)
    BY <2>1 DEF Increasing
  <2> HIDE DEF Lowest
  <2>3. \E q \in [1 .. 0 -> S] : Increasing(q) /\ Lowest(q)
    BY <2>1, <2>2
  <2>4. 0 \in 0 .. n
    BY <1>1
  <2>5. QED
    BY <2>3, <2>4
<1>3. sorted \in SUBSET Nat /\ \A m \in sorted : m <= n
  BY <1>1
<1> HIDE DEF sorted
<1>4. PICK m \in sorted : \A k \in sorted : k <= m
  BY <1>1, <1>2, <1>3, GreatestNat
<1>5. PICK s \in [1 .. m -> S] : Increasing(s) /\ Lowest(s)
  BY <1>4 DEF sorted
<1>6. m \in Nat /\ m <= n
  BY <1>3
<1>7. CASE m = n
  BY <1>5, <1>7 DEF n
<1>8. CASE m < n
  <2> DEFINE rest == {x \in S : x \notin {s[j] : j \in 1 .. m}}
  <2>1. rest # {}
    <3> SUFFICES ASSUME rest = {} PROVE FALSE
      OBVIOUS
    <3>1. s \in Surjection(1 .. m, S)
      BY DEF Surjection
    <3>2. Cardinality(S) <= m
      BY <3>1, <1>6, FS_SurjCardinalityBound DEF ExistsSurjection
    <3>3. QED
      BY <3>2, <1>8, <1>1, <1>6 DEF n
  <2>2. rest \in SUBSET Nat
    OBVIOUS
  <2>3. PICK x \in rest : \A y \in rest : x <= y
    BY <2>1, <2>2, LeastNat
  <2> DEFINE t == [i \in 1 .. m + 1 |-> IF i = m + 1 THEN x ELSE s[i]]
  <2>4. x \in S /\ x \in Nat /\ \A i \in 1 .. m : s[i] < x
    BY <1>5, <2>3
  <2>5. 1 .. m + 1 = 1 .. m \cup {m + 1} /\ m + 1 \in 1 .. m + 1 /\ m + 1 \notin 1 .. m
    BY <1>6
  <2>6. /\ DOMAIN t = 1 .. m + 1 /\ t[m + 1] = x
        /\ \A i \in 1 .. m : t[i] = s[i]
    BY <2>5
  <2>7. t \in [1 .. m + 1 -> S]
    BY <2>4, <2>5
  <2> HIDE DEF t
  <2>8. Increasing(t)
    <3> SUFFICES ASSUME NEW i \in 1 .. m + 1, NEW j \in 1 .. m + 1, i < j PROVE t[i] < t[j]
      BY <2>6 DEF Increasing
    <3>1. i \in 1 .. m
      BY <1>6
    <3>2. CASE j = m + 1
      BY <3>1, <3>2, <2>4, <2>6
    <3>3. CASE j # m + 1
      <4>1. j \in 1 .. m
        BY <3>3, <2>5
      <4>2. s[i] < s[j]
        BY <3>1, <4>1, <1>5 DEF Increasing
      <4>3. QED
        BY <3>1, <4>1, <4>2, <2>6
    <3>4. QED
      BY <3>2, <3>3
  <2>9. Lowest(t)
    <3> SUFFICES ASSUME NEW i \in 1 .. m + 1, NEW y \in S, y \notin {t[j] : j \in 1 .. m + 1}
                 PROVE  t[i] < y
      BY <2>6
    <3>1. y \in rest /\ y # x
      BY <2>5, <2>6
    <3>2. x < y
      BY <3>1, <2>2, <2>3
    <3>3. CASE i = m + 1
      BY <3>2, <3>3, <2>6
    <3>4. CASE i # m + 1
      BY <3>1, <3>4, <1>5, <2>5, <2>6
    <3>5. QED
      BY <3>3, <3>4
  <2>10. m + 1 \in 0 .. n
    BY <1>1, <1>6, <1>8
  <2>11. m + 1 \in sorted
    BY <2>7, <2>8, <2>9, <2>10 DEF sorted
  <2>12. QED
    BY <2>11, <1>4, <1>6
<1>9. QED
  BY <1>1, <1>6, <1>7, <1>8

\* The windows are served in increasing order, and all time after them.
LEMMA RangesFacts ==
    \E m \in Nat :
        /\ DOMAIN Ranges = IF IncludeAllTime THEN 1 .. m + 1 ELSE 1 .. m
        /\ \A i \in 1 .. m : Ranges[i] \in Windows
        /\ \A i, j \in 1 .. m : i < j => Ranges[i] < Ranges[j]
        /\ IncludeAllTime => Ranges[m + 1] = AllTime
<1>1. Configured \in Seq(Nat \ {0}) /\ Len(Configured) \in Nat /\ DOMAIN Configured = 1 .. Len(Configured)
  BY MetricsAssumption
<1>2. Windows \in SUBSET Nat
  BY <1>1 DEF Windows
<1>3. Configured \in Surjection(1 .. Len(Configured), Windows)
  BY <1>1 DEF Windows, Surjection
<1>4. IsFiniteSet(Windows)
  BY <1>1, <1>3, FS_NatSurjection DEF ExistsSurjection
<1>5. PICK m \in Nat : m = Cardinality(Windows)
  BY <1>4, FS_CardinalityType
<1>6. Sorted \in [1 .. m -> Windows] /\ \A i, j \in DOMAIN Sorted : i < j => Sorted[i] < Sorted[j]
  <2>1. \E s \in [1 .. Cardinality(Windows) -> Windows] : \A i, j \in DOMAIN s : i < j => s[i] < s[j]
    BY <1>2, <1>4, SortedExists DEF Increasing
  <2>2. QED
    BY <2>1, <1>5 DEF Sorted
<1>7. Sorted \in Seq(Windows) /\ Len(Sorted) = m
  BY <1>6, SequenceOf
<1>8. Sorted \in Seq(Nat)
  <2>1. Sorted \in [1 .. m -> Nat]
    BY <1>2, <1>6
  <2>2. QED
    BY <2>1, SequenceOf
<1>9. DOMAIN Sorted = 1 .. m
  BY <1>6
<1>10. CASE IncludeAllTime
  <2>1. Ranges = Sorted \o <<AllTime>> /\ AllTime \in Nat
    BY <1>10 DEF Ranges, AllTime
  <2>2. /\ DOMAIN Ranges = 1 .. m + 1 /\ Ranges[m + 1] = AllTime
        /\ \A i \in 1 .. m : Ranges[i] = Sorted[i]
    BY <2>1, <1>7, <1>8
  <2>3. QED
    BY <2>2, <1>6, <1>9, <1>10
<1>11. CASE ~IncludeAllTime
  <2>1. Ranges = Sorted \o <<>>
    BY <1>11 DEF Ranges
  <2>2. Ranges = Sorted
    BY <2>1, <1>8
  <2>3. QED
    BY <2>2, <1>6, <1>9, <1>11
<1>12. QED
  BY <1>10, <1>11, MetricsAssumption

\* Of two windows on one chain, the shorter is available when the longer is, and has
\* no more stale blocks.
LEMMA ShorterWindow ==
    ASSUME NEW T \in SUBSET Block, IsFiniteSet(T), NEW r, IsChain(T, r),
           NEW k \in 1 .. Len(r), NEW l \in 1 .. Len(r), k <= l,
           WindowIn(T, r[Len(r) - l + 1], r[Len(r)], l).available
    PROVE  LET short == WindowIn(T, r[Len(r) - k + 1], r[Len(r)], k)
               long  == WindowIn(T, r[Len(r) - l + 1], r[Len(r)], l)
           IN  /\ short.available /\ short.stale <= long.stale
               /\ short.active = k /\ long.active = l
<1> DEFINE last == r[Len(r)]
           short == WindowIn(T, r[Len(r) - k + 1], last, k)
           long == WindowIn(T, r[Len(r) - l + 1], last, l)
           end == Height[last]
           Others(start) == HeadersIn(T, start, end) \ ChainIn(last, start)
<1>1. /\ short.available = ~GapIn(T, end - k + 1, end)
      /\ short.available => short.active = k /\ short.stale = Cardinality(Others(end - k + 1))
  BY WindowFacts
<1>2. /\ long.available = ~GapIn(T, end - l + 1, end)
      /\ long.available => long.active = l /\ long.stale = Cardinality(Others(end - l + 1))
  BY WindowFacts
<1>3. end - k + 1 \in Nat /\ end - l + 1 \in Nat /\ end \in Nat /\ k \in Nat /\ l \in Nat
  <2>1. end - k + 1 \in Nat /\ end \in Nat
    BY ChainFacts
  <2>2. end - l + 1 \in Nat
    BY ChainFacts
  <2>3. Len(r) \in Nat
    BY DEF IsChain
  <2> HIDE DEF end
  <2>4. QED
    BY <2>1, <2>2, <2>3
<1>4. long.available
  OBVIOUS
<1>5. IsFiniteSet(HeadersIn(T, end - l + 1, end))
  BY WindowCounts
<1> HIDE DEF end, last, short, long
<1>6. end - l + 1 <= end - k + 1
  BY <1>3
<1>7. PICK low \in Nat, high \in Nat : low = end - l + 1 /\ high = end - k + 1 /\ low <= high
  BY <1>3, <1>6
<1>8. GapIn(T, high, end) => GapIn(T, low, end)
  <2>1. \A b \in T : Height[b] \in Nat
    BY BlockAssumption
  <2>2. QED
    BY <1>3, <1>7, <2>1 DEF GapIn
<1>9. Others(high) \subseteq Others(low)
  <2>1. \A b \in T : Height[b] \in Nat
    BY BlockAssumption
  <2>2. QED
    BY <1>3, <1>7, <2>1 DEF HeadersIn, ChainIn
<1>10. IsFiniteSet(Others(low))
  BY <1>5, <1>7, FS_Difference
<1>11. Cardinality(Others(high)) <= Cardinality(Others(low))
  BY <1>9, <1>10, FS_Subset
<1>12. QED
  BY <1>1, <1>2, <1>4, <1>7, <1>8, <1>11 DEF short, long, last


\* Along the ranges, every window is the shorter one of the next.
LEMMA RangesStep ==
    ASSUME InputsType
    PROVE  RangesNest
<1> SUFFICES ASSUME Status = "ok" PROVE RangesNest
  BY DEF RangesNest
<1> DEFINE r == ResolvedPath
           n == Len(r)
           windows == Served(r)
           Over(k) == WindowIn(tree, r[n - k + 1], r[n], k)
<1>1. tree \in SUBSET Block /\ IsFiniteSet(tree) /\ IsChain(tree, r)
  BY ResolvedIsChain
<1> HIDE DEF r
<1>2. n \in Nat \ {0}
  BY <1>1 DEF IsChain
<1>3. PICK m \in Nat :
          /\ DOMAIN Ranges = IF IncludeAllTime THEN 1 .. m + 1 ELSE 1 .. m
          /\ \A i \in 1 .. m : Ranges[i] \in Windows
          /\ \A i, j \in 1 .. m : i < j => Ranges[i] < Ranges[j]
          /\ IncludeAllTime => Ranges[m + 1] = AllTime
  BY RangesFacts
<1>4. \A k \in Windows : k \in Nat \ {0}
  BY MetricsAssumption DEF Windows
<1>5. ASSUME NEW i \in DOMAIN Ranges, Ranges[i] = AllTime PROVE windows[i] = Over(n)
  <2>1. n - n + 1 = 1
    BY <1>2
  <2>2. windows[i] = Window(r[1], r[n], n)
    BY <1>5 DEF Served, AllTimeWindow, Tip
  <2>3. QED
    BY <2>1, <2>2, WindowNow
<1>6. ASSUME NEW i \in DOMAIN Ranges, Ranges[i] # AllTime, Ranges[i] \in Nat
      PROVE  /\ windows[i].available => Ranges[i] <= n
             /\ Ranges[i] <= n => windows[i] = Over(Ranges[i])
  <2>1. windows[i] = IF n < Ranges[i] THEN Unavailable
                     ELSE Window(r[n - Ranges[i] + 1], r[n], Ranges[i])
    BY <1>6 DEF Served, RollingWindow, Tip
  <2>2. ~Unavailable.available
    BY DEF Unavailable
  <2>3. CASE n < Ranges[i]
    BY <2>1, <2>2, <2>3, <1>2, <1>6
  <2>4. CASE ~(n < Ranges[i])
    BY <2>1, <2>4, <1>2, <1>6, WindowNow
  <2>5. QED
    BY <2>3, <2>4
<1> HIDE DEF windows
<1>7. SUFFICES ASSUME NEW i \in DOMAIN Ranges, NEW j \in DOMAIN Ranges,
                      i < j, windows[j].available, Ranges[i] <= n
               PROVE  /\ windows[i].available
                      /\ windows[i].stale <= windows[j].stale
                      /\ windows[i].active < windows[j].active \/ Ranges[j] = AllTime
  BY DEF RangesNest, windows, r
<1>8. i \in 1 .. m /\ (j \in 1 .. m \/ (IncludeAllTime /\ j = m + 1))
  BY <1>3, <1>7
<1>9. Ranges[i] \in 1 .. n /\ Ranges[i] # AllTime
  BY <1>2, <1>3, <1>4, <1>7, <1>8 DEF AllTime
<1>10. windows[i] = Over(Ranges[i])
  BY <1>6, <1>7, <1>9
<1>11. CASE j \in 1 .. m
  <2>1. Ranges[j] \in Nat /\ Ranges[j] # AllTime /\ Ranges[i] < Ranges[j]
    BY <1>3, <1>4, <1>7, <1>8, <1>11 DEF AllTime
  <2>2. Ranges[j] \in 1 .. n /\ windows[j] = Over(Ranges[j])
    BY <2>1, <1>2, <1>6, <1>7, <1>9
  <2>3. Ranges[i] <= Ranges[j]
    BY <2>1, <2>2, <1>9
  <2>4. /\ Over(Ranges[i]).available /\ Over(Ranges[i]).stale <= Over(Ranges[j]).stale
        /\ Over(Ranges[i]).active = Ranges[i] /\ Over(Ranges[j]).active = Ranges[j]
    BY <2>2, <2>3, <1>1, <1>7, <1>9, ShorterWindow
  <2>5. QED
    BY <2>1, <2>2, <2>4, <1>10
<1>12. CASE IncludeAllTime /\ j = m + 1
  <2>1. Ranges[j] = AllTime
    BY <1>3, <1>12
  <2>2. windows[j] = Over(n) /\ n \in 1 .. n /\ Ranges[i] <= n
    BY <2>1, <1>2, <1>5, <1>7
  <2>3. Over(Ranges[i]).available /\ Over(Ranges[i]).stale <= Over(n).stale
    BY <2>2, <1>1, <1>7, <1>9, ShorterWindow
  <2>4. QED
    BY <2>1, <2>2, <2>3, <1>10
<1>13. QED
  BY <1>8, <1>11, <1>12

\* In whatever order the ranges are configured, they are served from the shortest to the
\* longest and all time last, and each available one contains the ones before it
\* (normalize_stale_rate_ranges, build_window).
THEOREM RangesCorrect == Spec => []RangesNest
<1>1. InputsType => RangesNest
  BY RangesStep
<1>2. QED
  BY <1>1, InputsCorrect, PTL

-----------------------------------------------------------------------------
(* Headers that arrive late.                                               *)

\* In a larger tree, the blocks connected to a header are more, and what is new among
\* them lies below the old ones.
LEMMA ConnectedGrows ==
    ASSUME NEW T \in SUBSET Block, NEW U \in SUBSET Block, T \subseteq U, NEW b \in T
    PROVE  /\ ConnectedIn(T, b) \subseteq ConnectedIn(U, b)
           /\ \A a \in ConnectedIn(U, b) : Height[a] >= Bottom(T, b) => a \in ConnectedIn(T, b)
<1>1. ConnectedIn(T, b) \subseteq ConnectedIn(U, b)
  BY DEF ConnectedIn
<1>2. ASSUME NEW a \in ConnectedIn(U, b), Height[a] >= Bottom(T, b) PROVE a \in ConnectedIn(T, b)
  <2>1. a \in Branch[b]
    BY DEF ConnectedIn
  <2>2. QED
    BY <2>1, <1>2, BottomFacts
<1>3. QED
  BY <1>1, <1>2

\* The chains to the same tips in a tree and in a larger one end in the same block.
LEMMA SameResolved ==
    ASSUME NEW T \in SUBSET Block, NEW U \in SUBSET Block, T \subseteq U,
           NEW tips \in SUBSET T, tips # {}, NEW q, NEW r, IsChain(T, q), IsChain(U, r),
           Common(T, tips) = ConnectedIn(T, q[Len(q)]), Common(U, tips) = ConnectedIn(U, r[Len(r)])
    PROVE  q[Len(q)] = r[Len(r)]
<1> DEFINE a == q[Len(q)]
           b == r[Len(r)]
<1>1. a \in T /\ b \in U
  BY DEF IsChain
<1> HIDE DEF a, b
<1>2. a \in Common(T, tips) /\ b \in Common(U, tips)
  BY <1>1, BottomFacts DEF a, b
<1>3. a \in Common(U, tips)
  BY <1>1, <1>2, ConnectedGrows DEF Common
<1>4. a \in ConnectedIn(U, b) /\ a \in Branch[b] /\ Height[a] \in Nat /\ Height[b] \in Nat
  BY <1>1, <1>3, BlockAssumption DEF ConnectedIn, b
<1>5. b \in Common(T, tips)
  <2>1. ASSUME NEW t \in tips PROVE b \in ConnectedIn(T, t)
    <3>1. a \in ConnectedIn(T, t) /\ b \in ConnectedIn(U, t)
      BY <1>2 DEF Common
    <3>2. Height[a] >= Bottom(T, t) /\ Bottom(T, t) \in Nat
      BY <3>1, BottomFacts
    <3>3. Height[a] <= Height[b]
      BY <1>1, <1>4, AncestorsLower
    <3>4. Height[b] >= Bottom(T, t)
      BY <3>2, <3>3, <1>4
    <3>5. QED
      BY <3>1, <3>4, ConnectedGrows
  <2>2. QED
    BY <2>1, <1>1 DEF Common
<1>6. b \in ConnectedIn(T, a)
  BY <1>5 DEF a
<1>7. b \in Branch[a]
  BY <1>6 DEF ConnectedIn
<1>8. ASSUME a # b PROVE FALSE
  <2>1. Height[a] < Height[b] /\ Height[b] < Height[a]
    BY <1>1, <1>4, <1>7, <1>8, AncestorsLower
  <2>2. QED
    BY <2>1, <1>4
<1>9. QED
  BY <1>8 DEF a, b

\* No step that changes the tree moves the resolved block or drops a stale block.
LEMMA InsertionStep ==
    ASSUME InputsType, [Next]_vars
    PROVE  InsertionKeepsStale
<1> SUFFICES ASSUME tree' # tree, Status = "ok"
             PROVE  /\ Status' = "ok" /\ Tip(ResolvedPath') = Tip(ResolvedPath)
                    /\ \A k \in Windows :
                          LET before == RollingWindow(ResolvedPath, k)
                              after == RollingWindow(ResolvedPath, k)'
                          IN  before.available /\ after.available => after.stale >= before.stale
  BY DEF InsertionKeepsStale
<1> DEFINE q == ResolvedPath
           r == ResolvedPath'
           tips == ActiveTips
<1>1. tree \subseteq tree' /\ UNCHANGED <<tip, reachable>>
  BY DEF Next, InsertHeaders, InsertNodes, NodeTips, NodeReachability, vars
<1>2. ActiveTips' = tips /\ HasStaleTipObserver' = HasStaleTipObserver
  BY <1>1 DEF ActiveTips, Reporting, HasStaleTipObserver
<1>3. InputsType'
  BY InputsInductive
<1>4. /\ tree \in SUBSET Block /\ IsFiniteSet(tree) /\ IsChain(tree, q) /\ HasStaleTipObserver
      /\ tips # {} /\ tips \in SUBSET tree
      /\ Common(tree, tips) = ConnectedIn(tree, q[Len(q)])
  BY ResolvedIsChain
<1>5. tree' \in SUBSET Block /\ IsFiniteSet(tree')
  BY <1>3 DEF InputsType, Tracked
<1>6. r = Resolved(tree', tips)
  BY <1>2, ResolvedNow
<1> HIDE DEF q, r, tips
<1>7. /\ r \in Seq(tree') /\ Common(tree', tips) = {r[i] : i \in 1 .. Len(r)}
      /\ \A i \in 1 .. Len(r) : Height[r[i]] = Height[r[1]] + i - 1
      /\ r # <<>> => Common(tree', tips) = ConnectedIn(tree', r[Len(r)])
  <2>1. tips \in SUBSET tree'
    BY <1>1, <1>4
  <2>2. LET p == Resolved(tree', tips)
        IN  /\ p \in Seq(tree')
            /\ Common(tree', tips) = {p[i] : i \in 1 .. Len(p)}
            /\ \A i \in 1 .. Len(p) : Height[p[i]] = Height[p[1]] + i - 1
            /\ p # <<>> => Common(tree', tips) = ConnectedIn(tree', p[Len(p)])
    BY <2>1, <1>4, <1>5, ResolvedFacts
  <2>3. QED
    BY <2>2, <1>6
<1>8. r # <<>>
  <2>1. q[Len(q)] \in tree
    BY <1>4 DEF IsChain
  <2>2. q[Len(q)] \in Common(tree, tips)
    BY <2>1, <1>4, BottomFacts
  <2>3. q[Len(q)] \in Common(tree', tips)
    BY <2>2, <1>1, <1>4, <1>5, ConnectedGrows DEF Common
  <2>4. QED
    BY <2>3, <1>7
<1>9. IsChain(tree', r)
  <2>1. Len(r) \in Nat \ {0}
    BY <1>7, <1>8
  <2>2. QED
    BY <2>1, <1>7, <1>8 DEF IsChain
<1>10. q[Len(q)] = r[Len(r)]
  <2> DEFINE T == tree
             U == tree'
  <2>1. T \in SUBSET Block /\ U \in SUBSET Block /\ T \subseteq U
    BY <1>1, <1>4, <1>5
  <2>2. tips \in SUBSET T /\ tips # {} /\ IsChain(T, q) /\ IsChain(U, r)
    BY <1>4, <1>9
  <2>3. Common(T, tips) = ConnectedIn(T, q[Len(q)]) /\ Common(U, tips) = ConnectedIn(U, r[Len(r)])
    BY <1>4, <1>7, <1>8
  <2> HIDE DEF T, U
  <2>4. QED
    BY <2>1, <2>2, <2>3, SameResolved
<1>11. Status' = "ok"
  <2>1. tips \subseteq tree'
    BY <1>1, <1>4
  <2>2. QED
    BY <2>1, <1>2, <1>4, <1>8 DEF Status, r
<1>12. Tip(ResolvedPath') = Tip(ResolvedPath)
  BY <1>10 DEF Tip, q, r
<1>13. ASSUME NEW k \in Windows,
              RollingWindow(ResolvedPath, k).available, RollingWindow(ResolvedPath, k)'.available
       PROVE  RollingWindow(ResolvedPath, k)'.stale >= RollingWindow(ResolvedPath, k).stale
  <2> DEFINE before == RollingIn(tree, q, k)
             after == RollingIn(tree', r, k)
             last == q[Len(q)]
             start == Height[last] - k + 1
             Others(T) == HeadersIn(T, start, Height[last]) \ ChainIn(last, start)
  <2>1. RollingWindow(ResolvedPath, k) = before /\ RollingWindow(ResolvedPath, k)' = after
    BY WindowNow, RollingNext DEF q, r
  <2>2. k \in Nat \ {0} /\ Len(q) \in Nat /\ Len(r) \in Nat
    BY <1>4, <1>9, MetricsAssumption DEF Windows, IsChain
  <2>3. ~Unavailable.available
    BY DEF Unavailable
  <2>4. k \in 1 .. Len(q) /\ before = WindowIn(tree, q[Len(q) - k + 1], last, k)
    BY <2>1, <2>2, <2>3, <1>13 DEF RollingIn, Tip
  <2>5. k \in 1 .. Len(r) /\ after = WindowIn(tree', r[Len(r) - k + 1], r[Len(r)], k)
    BY <2>1, <2>2, <2>3, <1>13 DEF RollingIn, Tip
  <2> HIDE DEF before, after
  <2>6. before.stale = Cardinality(Others(tree))
    BY <2>1, <2>4, <1>4, <1>13, WindowFacts
  <2>7. after.stale = Cardinality(Others(tree'))
    BY <2>1, <2>5, <1>5, <1>9, <1>10, <1>13, WindowFacts
  <2>8. Others(tree) \subseteq Others(tree')
    BY <1>1 DEF HeadersIn
  <2>9. IsFiniteSet(Others(tree'))
    <3>1. Others(tree') \subseteq tree'
      BY DEF HeadersIn
    <3>2. QED
      BY <3>1, <1>5, FS_Subset
  <2> HIDE DEF Others
  <2>10. /\ Cardinality(Others(tree)) <= Cardinality(Others(tree'))
         /\ Cardinality(Others(tree)) \in Nat /\ Cardinality(Others(tree')) \in Nat
    BY <2>8, <2>9, FS_Subset, FS_CardinalityType
  <2>11. QED
    BY <2>1, <2>6, <2>7, <2>10
<1>14. QED
  BY <1>11, <1>12, <1>13

\* Headers inserted late - a branch of another node, a repair below a root - neither move
\* the resolved block nor lower the stale blocks of a window that stays available
\* (insert_headers, calculate_network_metrics_with_tree).
THEOREM InsertionsCorrect == Spec => InsertionsKeepStale
<1>1. InputsType /\ [Next]_vars => InsertionKeepsStale
  BY InsertionStep
<1>2. QED
  BY <1>1, InputsCorrect, PTL DEF Spec, InsertionsKeepStale


-----------------------------------------------------------------------------
(* The forks and the heights worth showing.                                *)

\* A finite set of blocks has a highest one.
LEMMA FiniteHighest ==
    ASSUME NEW S \in SUBSET Block, IsFiniteSet(S), S # {}
    PROVE  \E b \in S : \A c \in S : Height[c] <= Height[b]
<1> DEFINE Above(b) == {c \in S : Height[c] > Height[b]}
           sizes == {Cardinality(Above(b)) : b \in S}
<1>1. \A b \in S : IsFiniteSet(Above(b)) /\ Cardinality(Above(b)) \in Nat
  <2> TAKE b \in S
  <2>1. Above(b) \in SUBSET S
    OBVIOUS
  <2>2. QED
    BY <2>1, FS_Subset, FS_CardinalityType
<1>2. PICK x \in sizes : \A y \in sizes : x <= y
  <2>1. sizes \in SUBSET Nat /\ sizes # {}
    BY <1>1
  <2>2. QED
    BY <2>1, LeastNat
<1>3. PICK b \in S : x = Cardinality(Above(b))
  OBVIOUS
<1>4. ASSUME NEW c \in S, ~(Height[c] <= Height[b]) PROVE FALSE
  <2>1. Height[b] \in Nat /\ Height[c] \in Nat /\ \A d \in S : Height[d] \in Nat
    BY BlockAssumption
  <2>2. Above(c) \subseteq Above(b) /\ c \in Above(b) /\ c \notin Above(c)
    BY <2>1, <1>4
  <2> HIDE DEF Above
  <2>3. Cardinality(Above(c)) <= Cardinality(Above(b)) /\ Cardinality(Above(b)) # Cardinality(Above(c))
    BY <2>2, <1>1, FS_Subset
  <2>4. Cardinality(Above(b)) <= Cardinality(Above(c))
    BY <1>2, <1>3
  <2>5. QED
    BY <2>3, <2>4, <1>1
<1>5. QED
  BY <1>4

\* Of a finite set of blocks, as many as asked for can be taken from the top.
LEMMA TopExists ==
    ASSUME NEW S \in SUBSET Block, IsFiniteSet(S), NEW k \in 0 .. Cardinality(S)
    PROVE  \E L \in SUBSET S : /\ Cardinality(L) = k
                               /\ \A b \in L, c \in S \ L : Height[b] >= Height[c]
<1> DEFINE Upper(L) == \A b \in L, c \in S \ L : Height[b] >= Height[c]
           sizes == {i \in 0 .. k : \E L \in SUBSET S : Cardinality(L) = i /\ Upper(L)}
<1>1. Cardinality(S) \in Nat /\ k \in Nat /\ k <= Cardinality(S)
  BY FS_CardinalityType
<1>2. 0 \in sizes
  <2>1. Cardinality({}) = 0 /\ Upper({}) /\ {} \in SUBSET S
    BY FS_EmptySet
  <2>2. 0 \in 0 .. k
    BY <1>1
  <2>3. QED
    BY <2>1, <2>2
<1>3. sizes \in SUBSET Nat /\ \A i \in sizes : i <= k
  BY <1>1
<1> HIDE DEF sizes
<1>4. PICK i \in sizes : \A j \in sizes : j <= i
  BY <1>1, <1>2, <1>3, GreatestNat
<1>5. PICK L \in SUBSET S : Cardinality(L) = i /\ Upper(L)
  BY <1>4 DEF sizes
<1>6. i \in Nat /\ i <= k
  BY <1>3
<1>7. ASSUME i # k PROVE FALSE
  <2> DEFINE rest == S \ L
  <2>1. rest # {}
    <3>1. L # S
      BY <1>1, <1>5, <1>6, <1>7
    <3>2. QED
      BY <3>1
  <2>2. rest \in SUBSET Block /\ IsFiniteSet(rest)
    BY FS_Difference
  <2>3. PICK b \in rest : \A c \in rest : Height[c] <= Height[b]
    BY <2>1, <2>2, FiniteHighest
  <2>4. IsFiniteSet(L) /\ b \notin L
    BY FS_Subset
  <2>5. Cardinality(L \cup {b}) = i + 1
    BY <2>4, <1>5, FS_AddElement
  <2>6. Upper(L \cup {b})
    <3>1. ASSUME NEW d \in L \cup {b}, NEW c \in S \ (L \cup {b}) PROVE Height[d] >= Height[c]
      <4>1. CASE d \in L
        BY <4>1, <1>5
      <4>2. CASE d = b
        <5>1. Height[c] <= Height[b] /\ Height[c] \in Nat /\ Height[b] \in Nat
          BY <2>3, BlockAssumption
        <5>2. QED
          BY <5>1, <4>2
      <4>3. QED
        BY <4>1, <4>2
    <3>2. QED
      BY <3>1
  <2>7. i + 1 \in 0 .. k /\ L \cup {b} \in SUBSET S
    BY <1>1, <1>6, <1>7
  <2>8. i + 1 \in sizes
    BY <2>5, <2>6, <2>7 DEF sizes
  <2>9. QED
    BY <2>8, <1>4, <1>6
<1>8. QED
  BY <1>5, <1>7

\* The list of forks is the top of the forks.
LEMMA ForksFacts ==
    ASSUME InputsType
    PROVE  /\ RecentForks \in SUBSET Forks
           /\ RecentForks = Forks \/ Cardinality(RecentForks) = MaxForks
           /\ \A b \in RecentForks, c \in Forks \ RecentForks : Height[b] >= Height[c]
<1> DEFINE k == IF Cardinality(Forks) < MaxForks THEN Cardinality(Forks) ELSE MaxForks
<1>1. Forks \in SUBSET Block /\ IsFiniteSet(Forks)
  <2>1. Forks \in SUBSET tree
    BY DEF Forks
  <2>2. QED
    BY <2>1, TrackedBlocks, FS_Subset
<1>2. Cardinality(Forks) \in Nat /\ MaxForks \in Nat
  BY <1>1, FS_CardinalityType, ViewAssumption
<1>3. k \in 0 .. Cardinality(Forks)
  BY <1>2
<1>4. \E listed \in SUBSET Forks :
         /\ Cardinality(listed) = k
         /\ \A b \in listed, c \in Forks \ listed : Height[b] >= Height[c]
  BY <1>1, <1>3, TopExists
<1>5. /\ RecentForks \in SUBSET Forks /\ Cardinality(RecentForks) = k
      /\ \A b \in RecentForks, c \in Forks \ RecentForks : Height[b] >= Height[c]
  BY <1>4 DEF RecentForks
<1>6. k = Cardinality(Forks) => RecentForks = Forks
  BY <1>1, <1>5, FS_Subset
<1>7. QED
  BY <1>5, <1>6

\* Where two branches part, each has a child of the split, and not the same one.
LEMMA SplitFacts ==
    ASSUME NEW T \in SUBSET Block, NEW t \in T, NEW u \in T, t \notin Branch[u],
           NEW split \in ConnectedIn(T, t) \cap ConnectedIn(T, u),
           \A c \in ConnectedIn(T, t) \cap ConnectedIn(T, u) : Height[c] <= Height[split]
    PROVE  \E c \in Branch[t] : /\ Parent[c] = split /\ c \in T /\ c \notin Branch[u]
                                /\ Height[c] = Height[split] + 1
<1>1. split \in Branch[t] /\ split \in Branch[u] /\ split \in T /\ split # t
  BY BottomFacts DEF ConnectedIn
<1>2. PICK c \in Branch[t] : Parent[c] = split
  BY <1>1, AncestorHasChild
<1>3. c \in Block /\ Height[c] = Height[split] + 1 /\ Height[split] \in Nat
  BY <1>1, <1>2, BranchFacts, BlockAssumption
<1>4. c \in ConnectedIn(T, t) /\ c \in T
  BY <1>1, <1>2, <1>3, BottomFacts
<1>5. ASSUME c \in Branch[u] PROVE FALSE
  <2>1. Height[split] >= Bottom(T, u) /\ Bottom(T, u) \in Nat
    BY BottomFacts
  <2>2. c \in ConnectedIn(T, u)
    BY <2>1, <1>3, <1>5, BottomFacts
  <2>3. QED
    BY <2>2, <1>3, <1>4
<1>6. QED
  BY <1>2, <1>3, <1>4, <1>5

\* Only finitely many heights are of interest.
LEMMA HotspotsFinite ==
    ASSUME InputsType, NEW S \in SUBSET Hotspots
    PROVE  IsFiniteSet(S) /\ Cardinality(S) \in Nat
<1>1. [b \in tree |-> Height[b]] \in Surjection(tree, Heights)
  BY DEF Heights, Surjection
<1>2. IsFiniteSet(Heights)
  BY <1>1, TrackedBlocks, FS_Surjection
<1>3. S \in SUBSET Heights
  BY DEF Hotspots
<1>4. QED
  BY <1>2, <1>3, FS_Subset, FS_CardinalityType

\* The split is a fork, and the height above it one of interest.
LEMMA SplitsStep ==
    ASSUME InputsType
    PROVE  SplitsShown
<1> SUFFICES ASSUME NEW t \in ActiveTips \cap tree, NEW u \in ActiveTips \cap tree,
                    Connected(t) \cap Connected(u) # {}, t \notin Branch[u], u \notin Branch[t]
             PROVE  LET common == Connected(t) \cap Connected(u)
                        split == CHOOSE b \in common : \A c \in common : Height[c] <= Height[b]
                        sides == {c \in Branch[t] \cup Branch[u] : Parent[c] = split}
                    IN  /\ sides \subseteq Children(split)
                        /\ \/ split \in RecentForks
                           \/ /\ Cardinality(RecentForks) = MaxForks
                              /\ \A b \in RecentForks : Height[b] >= Height[split]
                        /\ \/ sides \cup {split} \subseteq AskedFor
                           \/ Cardinality({h \in Hotspots : h > Height[split] + 1}) >= ExtraHotspots
                           \/ VisibleHeights = 0
  BY DEF SplitsShown
<1> DEFINE common == Connected(t) \cap Connected(u)
           split == CHOOSE b \in common : \A c \in common : Height[c] <= Height[b]
           sides == {c \in Branch[t] \cup Branch[u] : Parent[c] = split}
<1>1. tree \in SUBSET Block /\ IsFiniteSet(tree) /\ t \in tree /\ u \in tree /\ t \in Block /\ u \in Block
  BY TrackedBlocks
<1>2. common = ConnectedIn(tree, t) \cap ConnectedIn(tree, u) /\ common \subseteq tree
  BY <1>1, ConnectedNow, BottomFacts
<1>3. split \in common /\ \A c \in common : Height[c] <= Height[split]
  <2>1. common \in SUBSET Block /\ common # {} /\ \A c \in common : Height[c] <= Height[t]
    BY <1>1, <1>2, BranchFacts, AncestorsLower DEF ConnectedIn
  <2>2. \E b \in common : \A c \in common : Height[c] <= Height[b]
    BY <2>1, <1>1, BlockAssumption, HighestBlock
  <2> HIDE DEF common
  <2>3. QED
    BY <2>2
<1> HIDE DEF common, split
<1>4. split \in tree /\ split \in Block /\ Height[split] \in Nat
  BY <1>1, <1>2, <1>3, BlockAssumption
<1>5. PICK ct \in Branch[t] : /\ Parent[ct] = split /\ ct \in tree /\ ct \notin Branch[u]
                              /\ Height[ct] = Height[split] + 1
  BY <1>1, <1>2, <1>3, SplitFacts
<1>6. PICK cu \in Branch[u] : /\ Parent[cu] = split /\ cu \in tree /\ cu \notin Branch[t]
                              /\ Height[cu] = Height[split] + 1
  BY <1>1, <1>2, <1>3, SplitFacts
<1>7. ASSUME NEW c \in sides PROVE c \in tree /\ Height[c] = Height[split] + 1
  <2>1. c \in Block /\ Parent[c] = split /\ (c \in Branch[t] \/ c \in Branch[u])
    BY <1>1, BranchFacts
  <2>2. Height[c] = Height[split] + 1 /\ Height[c] >= Height[split]
    BY <2>1, <1>4, BlockAssumption
  <2>3. QED
    BY <2>1, <2>2, <1>2, <1>3 DEF ConnectedIn
<1> HIDE DEF sides
<1>8. ASSUME NEW c \in tree, Parent[c] = split PROVE c \in Children(split)
  BY <1>8, <1>4 DEF Children, Links, LinksInto
<1>9. sides \subseteq Children(split)
  BY <1>7, <1>8 DEF sides
<1>10. split \in Forks
  <2>1. ct \in Children(split) /\ cu \in Children(split) /\ ct # cu
    BY <1>5, <1>6, <1>8
  <2>2. IsFiniteSet(Children(split))
    BY <1>1, FS_Subset DEF Children
  <2>3. Cardinality(Children(split)) \in Nat \ {0, 1}
    BY <2>1, <2>2, FS_CardinalityType, FS_EmptySet, FS_Singleton
  <2>4. QED
    BY <2>3, <1>4 DEF Forks
<1>11. \/ split \in RecentForks
       \/ /\ Cardinality(RecentForks) = MaxForks
          /\ \A b \in RecentForks : Height[b] >= Height[split]
  BY <1>10, ForksFacts
<1>12. ASSUME VisibleHeights # 0,
              ~(Cardinality({h \in Hotspots : h > Height[split] + 1}) >= ExtraHotspots)
       PROVE  sides \cup {split} \subseteq AskedFor
  <2> DEFINE h == Height[split] + 1
  <2>1. h \in Hotspots
    <3>1. h \in Heights /\ h >= FirstTracked
      BY <1>5 DEF Heights, InputsType, Tracked
    <3>2. ct # cu /\ Height[ct] = h /\ Height[cu] = h
      BY <1>5, <1>6
    <3>3. QED
      BY <3>1, <3>2, <1>5, <1>6 DEF Hotspots
  <2>2. Cardinality({k \in Hotspots : k > h}) < ExtraHotspots
    <3>1. Cardinality({k \in Hotspots : k > h}) \in Nat
      BY HotspotsFinite
    <3>2. ExtraHotspots \in Nat
      BY ViewAssumption
    <3>3. QED
      BY <3>1, <3>2, <1>12
  <2>3. h \in InterestingHeights
    BY <2>1, <2>2, <1>1, <1>12 DEF InterestingHeights
  <2>4. ASSUME NEW c \in sides PROVE c \in AskedFor
    <3>1. h - Height[c] = 0 /\ c \in tree
      BY <1>4, <1>7
    <3>2. QED
      BY <3>1, <2>3 DEF AskedFor, NearInteresting
  <2>5. split \in AskedFor
    <3>1. h - Height[split] = 1
      BY <1>4
    <3>2. QED
      BY <3>1, <2>3, <1>4 DEF AskedFor, NearInteresting
  <2>6. QED
    BY <2>4, <2>5
<1>13. QED
  BY <1>9, <1>11, <1>12 DEF common, split, sides

\* Where the tips of two nodes are on different branches, the block at which they part is
\* listed as a fork unless the list is full of forks as high, and the miners of it and its
\* two children are asked for unless enough heights above are of interest or none is shown
\* (recent_forks, sorted_interesting_heights, the backfill of main.rs).
THEOREM SplitsCorrect == Spec => []SplitsShown
<1>1. InputsType => SplitsShown
  BY SplitsStep
<1>2. QED
  BY <1>1, InputsCorrect, PTL



-----------------------------------------------------------------------------
(* The test that the comment in metrics.rs describes.                      *)

\* A subtree that starts above a window's start, also above its end.
RootAbove(start) == \E b \in tree : Parent[b] \notin tree /\ Height[b] > start

\* NotUnderstated, with that test in place of HistoryGap.
NotUnderstatedWithoutRootAbove ==
    Status = "ok" =>
        \A k \in Windows :
            LET start == Height[Tip(ResolvedPath)] - k + 1
            IN  k <= Len(ResolvedPath) /\ ~RootAbove(start) =>
                  \A b \in tree : \A a \in Branch[b] : Height[a] >= start => a \in tree

\* "A root above the window start means at least one ancestor inside the range is
\* missing" (metrics.rs) would be the right test: where there is none, the tree holds
\* every ancestor from the window's start on of every header it holds. NotUnderstated is
\* violated only because has_history_gap_in_window leaves out roots above the window.
THEOREM CommentedTestSuffices == Spec => []NotUnderstatedWithoutRootAbove
<1>1. InputsType => NotUnderstatedWithoutRootAbove
  <2> SUFFICES ASSUME InputsType, Status = "ok", NEW k \in Windows, k <= Len(ResolvedPath),
                      ~RootAbove(Height[Tip(ResolvedPath)] - k + 1),
                      NEW b \in tree, NEW a \in Branch[b], Height[a] >= Height[Tip(ResolvedPath)] - k + 1
               PROVE  a \in tree
    BY DEF NotUnderstatedWithoutRootAbove
  <2> DEFINE start == Height[Tip(ResolvedPath)] - k + 1
  <2>1. tree \in SUBSET Block /\ IsChain(tree, ResolvedPath)
    BY ResolvedIsChain
  <2>2. k \in 1 .. Len(ResolvedPath)
    <3>1. k \in Nat \ {0}
      BY MetricsAssumption DEF Windows
    <3>2. QED
      BY <3>1, <2>1 DEF IsChain
  <2>3. start \in Nat
    BY <2>1, <2>2, ChainFacts DEF Tip
  <2>4. \A c \in tree : Height[c] \in Nat
    BY <2>1, BlockAssumption
  <2>5. ~RootAbove(start) /\ Height[a] >= start
    OBVIOUS
  <2> HIDE DEF start
  <2>6. ~GapIn(tree, start, Height[b])
    BY <2>3, <2>4, <2>5 DEF GapIn, RootAbove
  <2>7. CASE b \in HeadersIn(tree, start, Height[b])
    BY <2>1, <2>3, <2>4, <2>5, <2>6, <2>7, NoGapConnected
  <2>8. CASE b \notin HeadersIn(tree, start, Height[b])
    <3>1. Height[b] < start
      BY <2>3, <2>4, <2>8 DEF HeadersIn
    <3>2. Height[a] <= Height[b] /\ Height[a] \in Nat
      BY <2>1, BranchFacts, AncestorsLower
    <3>3. QED
      BY <3>1, <3>2, <2>3, <2>4, <2>5
  <2>9. QED
    BY <2>7, <2>8
<1>2. QED
  BY <1>1, InputsCorrect, PTL

=============================================================================
