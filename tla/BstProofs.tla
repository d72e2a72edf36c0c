----------------------------- MODULE BstProofs -----------------------------
(***************************************************************************)
(* Proofs about the binary search tree: for every finite set of keys and   *)
(* every set of i-numbers the tree is the map it stands for.               *)
(***************************************************************************)
EXTENDS Bst, FiniteSetTheorems, WellFoundedInduction, TLAPS

(***************************************************************************)
(* Induction.  What the provers cannot instantiate is a predicate; a set   *)
(* of the values that have the property does as well.                      *)
(***************************************************************************)
LEMMA NatSets ==
  ASSUME NEW S, 0 \in S, \A n \in Nat : n \in S => n + 1 \in S
  PROVE  \A n \in Nat : n \in S
<1> DEFINE Rest == {n \in Nat : n \notin S}
<1> SUFFICES ASSUME Rest # {} PROVE FALSE
  OBVIOUS
<1>1. PICK n \in Rest : \A k \in Rest : <<k, n>> \notin OpToRel(<, Nat)
  BY NatLessThanWellFounded, WFMin, Zenon
<1>2. n \in Nat /\ n \notin S /\ \A k \in Rest : ~(k < n)
  BY <1>1 DEF OpToRel
<1>3. n # 0 /\ n - 1 \in Nat /\ n - 1 < n
  BY <1>2
<1>4. n - 1 \in S
  BY <1>2, <1>3
<1> QED
  BY <1>2, <1>3, <1>4

(***************************************************************************)
(* The trees of each height.                                               *)
(***************************************************************************)
Over(Subtrees) == {NULL} \cup [key : Keys, inumber : INumbers, left : Subtrees, right : Subtrees]
Levels(f, m) == \A h \in 0 .. m : f[h] = IF h = 0 THEN {NULL} ELSE Over(f[h - 1])

LEMMA SomeLevels == \A m \in Nat : \E f : Levels(f, m)
<1> DEFINE S == {m \in Nat : \E f : Levels(f, m)}
<1>1. 0 \in S
  <2>1. Levels([h \in {0} |-> {NULL}], 0)
    BY DEF Levels
  <2> QED
    BY <2>1
<1>2. ASSUME NEW n \in Nat, n \in S PROVE n + 1 \in S
  <2>1. PICK f : Levels(f, n)
    BY <1>2
  <2>2. PICK next : next = Over(f[n])
    OBVIOUS
  <2> DEFINE g == [h \in 0 .. n + 1 |-> IF h = n + 1 THEN next ELSE f[h]]
  <2>3. ASSUME NEW h \in 0 .. n PROVE g[h] = f[h] /\ (h # 0 => h - 1 \in 0 .. n /\ g[h - 1] = f[h - 1])
    BY <2>3
  <2>4. g[n + 1] = next
    OBVIOUS
  <2> HIDE DEF g
  <2>5. ASSUME NEW h \in 0 .. n + 1 PROVE g[h] = IF h = 0 THEN {NULL} ELSE Over(g[h - 1])
    <3>1. CASE h = n + 1
      <4>1. h # 0 /\ h - 1 = n /\ g[n] = f[n]
        BY <2>3, <3>1
      <4> QED
        BY <2>2, <2>4, <3>1, <4>1
    <3>2. CASE h \in 0 .. n
      <4>1. f[h] = IF h = 0 THEN {NULL} ELSE Over(f[h - 1])
        BY <2>1, <3>2 DEF Levels
      <4> QED
        BY <2>3, <3>2, <4>1
    <3> QED
      BY <3>1, <3>2
  <2>6. Levels(g, n + 1)
    BY <2>5 DEF Levels
  <2> QED
    BY <2>6
<1> HIDE DEF S
<1>3. \A n \in Nat : n \in S
  BY <1>1, <1>2, NatSets
<1> QED
  BY <1>3 DEF S

LEMMA OneLevels ==
  ASSUME NEW m \in Nat, NEW k \in Nat, NEW f, NEW g, Levels(f, m), Levels(g, k)
  PROVE  \A h \in Nat : h <= m /\ h <= k => f[h] = g[h]
<1> DEFINE S == {h \in Nat : h <= m /\ h <= k => f[h] = g[h]}
<1>1. 0 \in S
  BY DEF Levels
<1>2. ASSUME NEW h \in Nat, h \in S PROVE h + 1 \in S
  <2> SUFFICES ASSUME h + 1 <= m, h + 1 <= k PROVE f[h + 1] = g[h + 1]
    OBVIOUS
  <2>1. f[h] = g[h] /\ h + 1 \in 0 .. m /\ h + 1 \in 0 .. k /\ h + 1 # 0 /\ (h + 1) - 1 = h
    BY <1>2
  <2>2. f[h + 1] = Over(f[h]) /\ g[h + 1] = Over(g[h])
    BY <2>1 DEF Levels
  <2> QED
    BY <2>1, <2>2
<1> HIDE DEF S
<1>3. \A n \in Nat : n \in S
  BY <1>1, <1>2, NatSets
<1> QED
  BY <1>3 DEF S

LEMMA TreesOfUnfolds ==
  /\ TreesOf[0] = {NULL}
  /\ \A h \in Nat : TreesOf[h + 1] = Over(TreesOf[h])
<1> DEFINE some(m) == CHOOSE f : Levels(f, m)
           body(f, h) == IF h = 0 THEN {NULL} ELSE Over(f[h - 1])
           g == [h \in Nat |-> some(h)[h]]
<1>1. \A m \in Nat : Levels(some(m), m)
  BY SomeLevels
<1> HIDE DEF some
<1>2. ASSUME NEW h \in Nat PROVE g[h] = body(g, h)
  <2>1. some(h)[h] = body(some(h), h)
    <3>1. Levels(some(h), h) /\ h \in 0 .. h
      BY <1>1
    <3> QED
      BY <3>1 DEF Levels
  <2>2. CASE h = 0
    BY <2>1, <2>2
  <2>3. CASE h # 0
    <3>1. h - 1 \in Nat /\ h - 1 <= h
      BY <2>3
    <3>2. some(h)[h - 1] = some(h - 1)[h - 1]
      BY <1>1, <3>1, OneLevels
    <3>3. g[h - 1] = some(h)[h - 1] /\ g[h] = some(h)[h]
      BY <3>1, <3>2
    <3> QED
      BY <2>1, <2>3, <3>3
  <2> QED
    BY <2>2, <2>3
<1>3. g = [h \in Nat |-> body(g, h)]
  BY <1>2
<1> HIDE DEF g
<1>4. \E f : f = [h \in Nat |-> body(f, h)]
  BY <1>3
<1>5. TreesOf = [h \in Nat |-> body(TreesOf, h)]
  BY <1>4 DEF TreesOf, Over
<1> HIDE DEF body
<1>6. \A h \in Nat : TreesOf[h] = body(TreesOf, h)
  BY <1>5
<1>7. ASSUME NEW h \in Nat PROVE TreesOf[h + 1] = Over(TreesOf[h])
  <2>1. TreesOf[h + 1] = body(TreesOf, h + 1) /\ (h + 1) - 1 = h /\ h + 1 # 0
    BY <1>6
  <2> QED
    BY <2>1 DEF body
<1> QED
  BY <1>6, <1>7 DEF body

-----------------------------------------------------------------------------
(***************************************************************************)
(* Trees of any height, and their nodes.                                   *)
(***************************************************************************)
AllTrees == UNION {TreesOf[h] : h \in Nat}
Nodes == AllTrees \ {NULL}
Node(k, i, l, r) == [key |-> k, inumber |-> i, left |-> l, right |-> r]

LEMMA OverGrows == ASSUME NEW S, NEW T, S \subseteq T PROVE Over(S) \subseteq Over(T)
  BY DEF Over

LEMMA OverNode ==
  ASSUME NEW S, NEW p \in Over(S), p # NULL
  PROVE  /\ p.key \in Keys /\ p.inumber \in INumbers /\ p.left \in S /\ p.right \in S
         /\ p = Node(p.key, p.inumber, p.left, p.right)
  BY DEF Over, Node

LEMMA NodeOver ==
  ASSUME NEW S, NEW k \in Keys, NEW i \in INumbers, NEW l \in S, NEW r \in S
  PROVE  Node(k, i, l, r) \in Over(S) /\ Node(k, i, l, r) # NULL
<1>1. Node(k, i, l, r).key = k /\ NULL.key = -1 /\ k \in Nat
  BY BstAssumption DEF Node, NULL
<1>2. Node(k, i, l, r) # NULL
  <2> SUFFICES ASSUME Node(k, i, l, r) = NULL PROVE FALSE
    OBVIOUS
  <2> QED
    BY <1>1
<1> QED
  BY <1>2 DEF Over, Node

LEMMA TreesGrowByOne == \A h \in Nat : TreesOf[h] \subseteq TreesOf[h + 1]
<1> DEFINE S == {h \in Nat : TreesOf[h] \subseteq TreesOf[h + 1]}
<1>1. 0 \in S
  BY TreesOfUnfolds DEF Over
<1>2. ASSUME NEW h \in Nat, h \in S PROVE h + 1 \in S
  <2>1. TreesOf[h] \subseteq TreesOf[h + 1]
    BY <1>2
  <2>2. TreesOf[h + 1] = Over(TreesOf[h]) /\ TreesOf[(h + 1) + 1] = Over(TreesOf[h + 1])
    BY TreesOfUnfolds
  <2> QED
    BY <2>1, <2>2, OverGrows
<1> HIDE DEF S
<1>3. \A h \in Nat : h \in S
  BY <1>1, <1>2, NatSets
<1> QED
  BY <1>3 DEF S

LEMMA TreesGrow ==
  ASSUME NEW h \in Nat, NEW m \in Nat, h <= m
  PROVE  TreesOf[h] \subseteq TreesOf[m]
<1> DEFINE S == {d \in Nat : TreesOf[h] \subseteq TreesOf[h + d]}
<1>1. 0 \in S
  <2>1. h + 0 = h
    OBVIOUS
  <2> QED
    BY <2>1, Zenon
<1>2. ASSUME NEW d \in Nat, d \in S PROVE d + 1 \in S
  <2>1. TreesOf[h] \subseteq TreesOf[h + d] /\ h + d \in Nat /\ (h + d) + 1 = h + (d + 1)
    BY <1>2
  <2>2. TreesOf[h + d] \subseteq TreesOf[(h + d) + 1]
    BY <2>1, TreesGrowByOne
  <2> QED
    BY <2>1, <2>2
<1> HIDE DEF S
<1>3. \A d \in Nat : d \in S
  BY <1>1, <1>2, NatSets
<1>4. m - h \in Nat /\ h + (m - h) = m
  OBVIOUS
<1>5. m - h \in S
  BY <1>3, <1>4
<1>6. TreesOf[h] \subseteq TreesOf[h + (m - h)]
  BY <1>5 DEF S
<1> QED
  BY <1>4, <1>6

LEMMA NullEverywhere == \A h \in Nat : NULL \in TreesOf[h]
<1>1. NULL \in TreesOf[0]
  BY TreesOfUnfolds
<1> QED
  BY <1>1, TreesGrow

\* A tree of height h that is a node has subtrees of height h - 1.
LEMMA Subtrees ==
  ASSUME NEW h \in Nat, NEW p \in TreesOf[h], p # NULL
  PROVE  /\ h # 0 /\ h - 1 \in Nat
         /\ p.key \in Keys /\ p.inumber \in INumbers
         /\ p.left \in TreesOf[h - 1] /\ p.right \in TreesOf[h - 1]
         /\ p = Node(p.key, p.inumber, p.left, p.right)
<1>1. h # 0
  BY TreesOfUnfolds
<1>2. h - 1 \in Nat /\ (h - 1) + 1 = h
  BY <1>1
<1>3. p \in Over(TreesOf[h - 1])
  BY <1>2, TreesOfUnfolds
<1> QED
  BY <1>1, <1>2, <1>3, OverNode

LEMMA NodeOfHeight ==
  ASSUME NEW h \in Nat, NEW k \in Keys, NEW i \in INumbers, NEW l \in TreesOf[h], NEW r \in TreesOf[h]
  PROVE  Node(k, i, l, r) \in TreesOf[h + 1] /\ Node(k, i, l, r) # NULL
  BY NodeOver, TreesOfUnfolds

LEMMA Height == \A p \in AllTrees : \E h \in Nat : p \in TreesOf[h]
  BY DEF AllTrees

LEMMA OfHeight == \A h \in Nat : TreesOf[h] \subseteq AllTrees
  BY DEF AllTrees

LEMMA NullTree == NULL \in AllTrees
  BY NullEverywhere, OfHeight

LEMMA NodeParts ==
  ASSUME NEW p \in Nodes
  PROVE  /\ p.key \in Keys /\ p.key \in Nat /\ p.inumber \in INumbers
         /\ p.left \in AllTrees /\ p.right \in AllTrees
         /\ p = Node(p.key, p.inumber, p.left, p.right)
<1>1. PICK h \in Nat : p \in TreesOf[h]
  BY Height DEF Nodes
<1> QED
  BY <1>1, Subtrees, OfHeight, BstAssumption DEF Nodes

LEMMA NodeMade ==
  ASSUME NEW k \in Keys, NEW i \in INumbers, NEW l \in AllTrees, NEW r \in AllTrees
  PROVE  Node(k, i, l, r) \in Nodes
<1>1. PICK a \in Nat : l \in TreesOf[a]
  BY Height
<1>2. PICK b \in Nat : r \in TreesOf[b]
  BY Height
<1>3. PICK h \in Nat : a <= h /\ b <= h
  <2>1. a <= a + b /\ b <= a + b /\ a + b \in Nat
    OBVIOUS
  <2> QED
    BY <2>1
<1>4. l \in TreesOf[h] /\ r \in TreesOf[h]
  BY <1>1, <1>2, <1>3, TreesGrow
<1>5. Node(k, i, l, r) \in TreesOf[h + 1] /\ Node(k, i, l, r) # NULL /\ h + 1 \in Nat
  BY <1>4, NodeOfHeight
<1> QED
  BY <1>5, OfHeight DEF Nodes

LEMMA NodeFields ==
  ASSUME NEW k, NEW i, NEW l, NEW r
  PROVE  /\ Node(k, i, l, r).key = k /\ Node(k, i, l, r).inumber = i
         /\ Node(k, i, l, r).left = l /\ Node(k, i, l, r).right = r
  BY DEF Node

\* What an assignment to a field of a node makes.
LEMMA NodeExcept ==
  ASSUME NEW p \in Nodes, NEW x
  PROVE  /\ [p EXCEPT !.left = x] = Node(p.key, p.inumber, x, p.right)
         /\ [p EXCEPT !.right = x] = Node(p.key, p.inumber, p.left, x)
         /\ [p EXCEPT !.inumber = x] = Node(p.key, x, p.left, p.right)
<1>1. p = Node(p.key, p.inumber, p.left, p.right)
  BY NodeParts
<1> QED
  BY <1>1 DEF Node

\* What holds of NULL, and of a node when it holds of its subtrees, holds of
\* every tree of height H or less.
LEMMA TreesOfSets ==
  ASSUME NEW S, NEW H \in Nat, NULL \in S,
         \A p \in TreesOf[H] : p # NULL /\ p.left \in S /\ p.right \in S => p \in S
  PROVE  TreesOf[H] \subseteq S
<1> DEFINE L == {h \in Nat : h <= H => TreesOf[h] \subseteq S}
<1>1. 0 \in L
  BY TreesOfUnfolds
<1>2. ASSUME NEW h \in Nat, h \in L PROVE h + 1 \in L
  <2> SUFFICES ASSUME h + 1 <= H, NEW p \in TreesOf[h + 1], p # NULL PROVE p \in S
    OBVIOUS
  <2>1. TreesOf[h] \subseteq S /\ h + 1 \in Nat /\ (h + 1) - 1 = h
    BY <1>2
  <2>2. p.left \in TreesOf[h] /\ p.right \in TreesOf[h]
    BY <2>1, Subtrees
  <2>3. p \in TreesOf[H]
    BY <2>1, TreesGrow
  <2> QED
    BY <2>1, <2>2, <2>3
<1> HIDE DEF L
<1>3. \A h \in Nat : h \in L
  BY <1>1, <1>2, NatSets
<1> QED
  BY <1>3 DEF L

LEMMA TreeSets ==
  ASSUME NEW S, NULL \in S, \A p \in Nodes : p.left \in S /\ p.right \in S => p \in S
  PROVE  AllTrees \subseteq S
<1>1. ASSUME NEW h \in Nat PROVE TreesOf[h] \subseteq S
  BY <1>1, OfHeight, TreesOfSets DEF Nodes
<1> QED
  BY <1>1, Height

LEMMA HeightType == Cardinality(Keys) \in Nat
  BY BstAssumption, FS_CardinalityType

LEMMA TreesClosed ==
  /\ NULL \in Trees /\ Trees \subseteq AllTrees
  /\ \A p \in Trees : p # NULL => p \in Nodes /\ p.left \in Trees /\ p.right \in Trees
<1>1. NULL \in Trees /\ Trees \subseteq AllTrees
  BY HeightType, NullEverywhere, OfHeight DEF Trees
<1>2. ASSUME NEW p \in Trees, p # NULL PROVE p \in Nodes /\ p.left \in Trees /\ p.right \in Trees
  <2> DEFINE h == Cardinality(Keys)
  <2>1. p.left \in TreesOf[h - 1] /\ p.right \in TreesOf[h - 1] /\ h - 1 \in Nat /\ h - 1 <= h
    BY <1>2, HeightType, Subtrees DEF Trees
  <2>2. TreesOf[h - 1] \subseteq TreesOf[h]
    BY <2>1, HeightType, TreesGrow
  <2> QED
    BY <1>1, <1>2, <2>1, <2>2 DEF Trees, Nodes
<1> QED
  BY <1>1, <1>2

-----------------------------------------------------------------------------
(***************************************************************************)
(* A recursive definition on trees has a value: what it makes of a node    *)
(* from what it makes of the two subtrees is a function, op.               *)
(***************************************************************************)
Folds(g, base, op, T) ==
  \A p \in T : g[p] = IF p = NULL THEN base ELSE op[<<p, g[p.left], g[p.right]>>]

LEMMA OneFold ==
  ASSUME NEW base, NEW op, NEW h \in Nat, NEW m \in Nat, NEW f, NEW g,
         Folds(f, base, op, TreesOf[h]), Folds(g, base, op, TreesOf[m])
  PROVE  \A p \in TreesOf[h] : p \in TreesOf[m] => f[p] = g[p]
<1> DEFINE S == {p \in TreesOf[h] : p \in TreesOf[m] => f[p] = g[p]}
<1>1. NULL \in S
  BY NullEverywhere DEF Folds
<1>2. ASSUME NEW p \in TreesOf[h], p # NULL, p.left \in S, p.right \in S PROVE p \in S
  <2> SUFFICES ASSUME p \in TreesOf[m] PROVE f[p] = g[p]
    OBVIOUS
  <2>1. p.left \in TreesOf[m - 1] /\ p.right \in TreesOf[m - 1] /\ m - 1 \in Nat /\ m - 1 <= m
    BY <1>2, Subtrees
  <2>2. p.left \in TreesOf[m] /\ p.right \in TreesOf[m]
    BY <2>1, TreesGrow
  <2>3. f[p.left] = g[p.left] /\ f[p.right] = g[p.right]
    BY <1>2, <2>2
  <2> QED
    BY <1>2, <2>3 DEF Folds
<1> HIDE DEF S
<1>3. TreesOf[h] \subseteq S
  BY <1>1, <1>2, TreesOfSets
<1> QED
  BY <1>3 DEF S

LEMMA OneFoldSets ==
  ASSUME NEW base, NEW op, NEW f, NEW g, NEW T, NEW U,
         \E h \in Nat : T = TreesOf[h], \E h \in Nat : U = TreesOf[h],
         Folds(f, base, op, T), Folds(g, base, op, U)
  PROVE  \A p \in T : p \in U => f[p] = g[p]
  BY OneFold

LEMMA FoldOfHeight ==
  ASSUME NEW V, NEW base \in V, NEW op \in [Nodes \X V \X V -> V]
  PROVE  \A h \in Nat : \E g \in [TreesOf[h] -> V] : Folds(g, base, op, TreesOf[h])
<1> DEFINE S == {h \in Nat : \E g \in [TreesOf[h] -> V] : Folds(g, base, op, TreesOf[h])}
<1>1. 0 \in S
  <2> DEFINE g == [p \in {NULL} |-> base]
  <2>1. g \in [TreesOf[0] -> V] /\ Folds(g, base, op, TreesOf[0])
    BY TreesOfUnfolds DEF Folds
  <2> QED
    BY <2>1
<1>2. ASSUME NEW h \in Nat, h \in S PROVE h + 1 \in S
  <2>1. PICK f \in [TreesOf[h] -> V] : Folds(f, base, op, TreesOf[h])
    BY <1>2
  <2> DEFINE g == [p \in TreesOf[h + 1] |-> IF p = NULL THEN base ELSE op[<<p, f[p.left], f[p.right]>>]]
  <2>2. ASSUME NEW p \in TreesOf[h + 1], p # NULL
        PROVE  /\ p \in Nodes /\ p.left \in TreesOf[h] /\ p.right \in TreesOf[h]
               /\ op[<<p, f[p.left], f[p.right]>>] \in V
    <3>1. p.left \in TreesOf[h] /\ p.right \in TreesOf[h] /\ p \in Nodes
      <4>1. h + 1 \in Nat /\ (h + 1) - 1 = h
        OBVIOUS
      <4> QED
        BY <2>2, <4>1, Subtrees, OfHeight DEF Nodes
    <3> QED
      BY <3>1
  <2>3. g \in [TreesOf[h + 1] -> V]
    BY <2>2
  <2>4. ASSUME NEW p \in TreesOf[h] PROVE g[p] = f[p]
    <3>1. p \in TreesOf[h + 1]
      BY TreesGrowByOne
    <3> QED
      BY <2>1, <3>1 DEF Folds
  <2>5. ASSUME NEW p \in TreesOf[h + 1]
        PROVE  g[p] = IF p = NULL THEN base ELSE op[<<p, g[p.left], g[p.right]>>]
    BY <2>2, <2>4
  <2> HIDE DEF g
  <2>6. Folds(g, base, op, TreesOf[h + 1])
    BY <2>5 DEF Folds
  <2> QED
    BY <2>3, <2>6
<1> HIDE DEF S
<1>3. \A h \in Nat : h \in S
  BY <1>1, <1>2, NatSets
<1> QED
  BY <1>3 DEF S

LEMMA FoldExists ==
  ASSUME NEW V, NEW base \in V, NEW op \in [Nodes \X V \X V -> V]
  PROVE  \E g \in [AllTrees -> V] : Folds(g, base, op, AllTrees)
<1> DEFINE fold(h) == CHOOSE f \in [TreesOf[h] -> V] : Folds(f, base, op, TreesOf[h])
           height(p) == CHOOSE h \in Nat : p \in TreesOf[h]
           all == [p \in AllTrees |-> fold(height(p))[p]]
<1>1. ASSUME NEW h \in Nat PROVE fold(h) \in [TreesOf[h] -> V] /\ Folds(fold(h), base, op, TreesOf[h])
  BY FoldOfHeight
<1>2. ASSUME NEW p \in AllTrees PROVE height(p) \in Nat /\ p \in TreesOf[height(p)]
  BY Height
<1> HIDE DEF fold, height
<1>3. ASSUME NEW h \in Nat, NEW k \in Nat
      PROVE  \A p \in TreesOf[k] : p \in TreesOf[h] => fold(k)[p] = fold(h)[p]
  <2>1. Folds(fold(k), base, op, TreesOf[k])
    BY <1>1
  <2>2. Folds(fold(h), base, op, TreesOf[h])
    BY <1>1
  <2> QED
    BY <2>1, <2>2, OneFoldSets
<1>4. ASSUME NEW h \in Nat, NEW p \in TreesOf[h] PROVE all[p] = fold(h)[p]
  BY <1>2, <1>3, OfHeight
<1>5. all \in [AllTrees -> V]
  BY <1>1, <1>2
<1> HIDE DEF all
<1>6. ASSUME NEW p \in AllTrees
      PROVE  all[p] = IF p = NULL THEN base ELSE op[<<p, all[p.left], all[p.right]>>]
  <2>1. PICK h \in Nat : p \in TreesOf[h]
    BY Height
  <2>2. fold(h)[p] = IF p = NULL THEN base ELSE op[<<p, fold(h)[p.left], fold(h)[p.right]>>]
    BY <1>1, <2>1 DEF Folds
  <2>3. CASE p = NULL
    BY <1>4, <2>1, <2>2, <2>3
  <2>4. CASE p # NULL
    <3>1. p.left \in TreesOf[h - 1] /\ p.right \in TreesOf[h - 1] /\ h - 1 \in Nat /\ h - 1 <= h
      BY <2>1, <2>4, Subtrees
    <3>2. p.left \in TreesOf[h] /\ p.right \in TreesOf[h]
      BY <3>1, TreesGrow
    <3>3. all[p] = fold(h)[p] /\ all[p.left] = fold(h)[p.left] /\ all[p.right] = fold(h)[p.right]
      BY <1>4, <2>1, <3>2
    <3> QED
      BY <2>2, <2>4, <3>3
  <2> QED
    BY <2>3, <2>4
<1>7. Folds(all, base, op, AllTrees)
  BY <1>6 DEF Folds
<1> QED
  BY <1>5, <1>7

\* The same on the trees that the operators recur on.
LEMMA FoldOnTrees ==
  ASSUME NEW V, NEW base \in V, NEW op \in [Nodes \X V \X V -> V]
  PROVE  \E f \in [Trees -> V] : Folds(f, base, op, Trees)
<1>1. PICK g \in [AllTrees -> V] : Folds(g, base, op, AllTrees)
  BY FoldExists
<1> DEFINE f == [p \in Trees |-> g[p]]
<1>2. f \in [Trees -> V]
  BY TreesClosed
<1>3. ASSUME NEW p \in Trees
      PROVE  f[p] = IF p = NULL THEN base ELSE op[<<p, f[p.left], f[p.right]>>]
  BY <1>1, TreesClosed DEF Folds
<1> HIDE DEF f
<1> QED
  BY <1>2, <1>3 DEF Folds

-----------------------------------------------------------------------------
(***************************************************************************)
(* The operators of module Bst do what their definitions say.              *)
(***************************************************************************)
LEMMA SearchUnfolds ==
  ASSUME NEW key, NEW p \in Trees
  PROVE  search(p, key) = IF p = NULL \/ p.key = key THEN p
                          ELSE IF key < p.key THEN search(p.left, key) ELSE search(p.right, key)
<1> DEFINE body(f, q) == IF q = NULL \/ q.key = key THEN q
                         ELSE IF key < q.key THEN f[q.left] ELSE f[q.right]
           step(q, a, b) == IF q.key = key THEN q ELSE IF key < q.key THEN a ELSE b
           op == [x \in Nodes \X AllTrees \X AllTrees |-> step(x[1], x[2], x[3])]
           find == CHOOSE f : f = [q \in Trees |-> body(f, q)]
<1>1. op \in [Nodes \X AllTrees \X AllTrees -> AllTrees]
  BY DEF Nodes
<1>2. ASSUME NEW q \in Nodes, NEW a \in AllTrees, NEW b \in AllTrees PROVE op[<<q, a, b>>] = step(q, a, b)
  OBVIOUS
<1> HIDE DEF op
<1>3. PICK f \in [Trees -> AllTrees] : Folds(f, NULL, op, Trees)
  BY <1>1, NullTree, FoldOnTrees
<1>4. ASSUME NEW q \in Trees PROVE f[q] = body(f, q)
  <2>1. CASE q = NULL
    BY <1>3, <2>1 DEF Folds
  <2>2. CASE q # NULL
    <3>1. q \in Nodes /\ f[q.left] \in AllTrees /\ f[q.right] \in AllTrees
      BY <1>3, <2>2, TreesClosed
    <3>2. f[q] = step(q, f[q.left], f[q.right])
      BY <1>2, <1>3, <2>2, <3>1 DEF Folds
    <3> QED
      BY <2>2, <3>2
  <2> QED
    BY <2>1, <2>2
<1>5. f = [q \in Trees |-> body(f, q)]
  BY <1>4
<1>6. find = [q \in Trees |-> body(find, q)]
  BY <1>5, Zenon
<1>7. \A q : search(q, key) = find[q]
  BY Zenon DEF search
<1> HIDE DEF find
<1> QED
  BY <1>6, <1>7

LEMMA InsertUnfolds ==
  ASSUME NEW key \in Keys, NEW inumber \in INumbers, NEW p \in Trees
  PROVE  insert(p, key, inumber) =
           IF p = NULL THEN Node(key, inumber, NULL, NULL)
           ELSE IF key < p.key THEN Node(p.key, p.inumber, insert(p.left, key, inumber), p.right)
           ELSE IF key > p.key THEN Node(p.key, p.inumber, p.left, insert(p.right, key, inumber))
           ELSE Node(p.key, inumber, p.left, p.right)
<1> DEFINE body(f, q) ==
             IF q = NULL THEN new_node(key, inumber)
             ELSE CASE key < q.key -> [q EXCEPT !.left = f[q.left]]
                    [] key > q.key -> [q EXCEPT !.right = f[q.right]]
                    [] OTHER       -> [q EXCEPT !.inumber = inumber]
           step(q, a, b) == IF key < q.key THEN Node(q.key, q.inumber, a, q.right)
                            ELSE IF key > q.key THEN Node(q.key, q.inumber, q.left, b)
                            ELSE Node(q.key, inumber, q.left, q.right)
           op == [x \in Nodes \X AllTrees \X AllTrees |-> step(x[1], x[2], x[3])]
           ins == CHOOSE f : f = [q \in Trees |-> body(f, q)]
<1>1. op \in [Nodes \X AllTrees \X AllTrees -> AllTrees]
  <2>1. ASSUME NEW q \in Nodes, NEW a \in AllTrees, NEW b \in AllTrees PROVE step(q, a, b) \in AllTrees
    BY <2>1, NodeParts, NodeMade DEF Nodes
  <2> QED
    BY <2>1
<1>2. ASSUME NEW q \in Nodes, NEW a \in AllTrees, NEW b \in AllTrees PROVE op[<<q, a, b>>] = step(q, a, b)
  OBVIOUS
<1> HIDE DEF op
<1>3. Node(key, inumber, NULL, NULL) \in AllTrees
  BY NullTree, NodeMade DEF Nodes
<1>4. PICK f \in [Trees -> AllTrees] : Folds(f, Node(key, inumber, NULL, NULL), op, Trees)
  BY <1>1, <1>3, FoldOnTrees
<1>5. ASSUME NEW q \in Trees, q # NULL
      PROVE  /\ q \in Nodes /\ f[q.left] \in AllTrees /\ f[q.right] \in AllTrees
             /\ f[q] = step(q, f[q.left], f[q.right])
  <2>1. q \in Nodes /\ f[q.left] \in AllTrees /\ f[q.right] \in AllTrees
    BY <1>4, <1>5, TreesClosed
  <2> QED
    BY <1>2, <1>4, <1>5, <2>1 DEF Folds
<1>6. f[NULL] = Node(key, inumber, NULL, NULL)
  BY <1>4, TreesClosed DEF Folds
<1>7. ASSUME NEW q \in Trees PROVE f[q] = body(f, q)
  <2>1. CASE q = NULL
    BY <1>6, <2>1, BstAssumption DEF new_node, Node
  <2>2. CASE q # NULL
    <3>1. q \in Nodes /\ q.key \in Nat /\ key \in Nat /\ f[q] = step(q, f[q.left], f[q.right])
      BY <1>5, <2>2, NodeParts, BstAssumption
    <3>2. /\ [q EXCEPT !.left = f[q.left]] = Node(q.key, q.inumber, f[q.left], q.right)
          /\ [q EXCEPT !.right = f[q.right]] = Node(q.key, q.inumber, q.left, f[q.right])
          /\ [q EXCEPT !.inumber = inumber] = Node(q.key, inumber, q.left, q.right)
      BY <3>1, NodeExcept
    <3>3. CASE key < q.key
      BY <2>2, <3>1, <3>2, <3>3
    <3>4. CASE key > q.key
      BY <2>2, <3>1, <3>2, <3>4
    <3>5. CASE key = q.key
      BY <2>2, <3>1, <3>2, <3>5
    <3> QED
      BY <3>1, <3>3, <3>4, <3>5
  <2> QED
    BY <2>1, <2>2
<1>8. f = [q \in Trees |-> body(f, q)]
  BY <1>7
<1>9. ins = [q \in Trees |-> body(ins, q)]
  BY <1>8, Zenon
<1>10. \A q : insert(q, key, inumber) = ins[q]
  BY Zenon DEF insert
<1> HIDE DEF ins
<1>11. insert(p, key, inumber) = body(ins, p)
  BY <1>9, <1>10
<1> QED
  BY <1>10, <1>11, TreesClosed, NodeParts, BstAssumption DEF new_node, Node, NodeExcept

LEMMA FindMinUnfolds ==
  ASSUME NEW p \in Trees \ {NULL}
  PROVE  find_min(p) = IF p.left # NULL THEN find_min(p.left) ELSE p
<1> DEFINE body(f, q) ==
             IF q.left # NULL THEN f[q.left] ELSE q
           step(q, a, b) == IF q.left # NULL THEN a ELSE q
           op == [x \in Nodes \X AllTrees \X AllTrees |-> step(x[1], x[2], x[3])]
           least == CHOOSE f : f = [q \in Trees \ {NULL} |-> body(f, q)]
<1>1. op \in [Nodes \X AllTrees \X AllTrees -> AllTrees]
  <2>1. ASSUME NEW q \in Nodes, NEW a \in AllTrees, NEW b \in AllTrees PROVE step(q, a, b) \in AllTrees
    BY <2>1, NodeParts DEF Nodes
  <2> QED
    BY <2>1
<1>2. ASSUME NEW q \in Nodes, NEW a \in AllTrees, NEW b \in AllTrees PROVE op[<<q, a, b>>] = step(q, a, b)
  OBVIOUS
<1> HIDE DEF op
<1>3. NULL \in AllTrees
  BY NullTree
<1>4. PICK f \in [Trees -> AllTrees] : Folds(f, NULL, op, Trees)
  BY <1>1, <1>3, FoldOnTrees
<1>5. ASSUME NEW q \in Trees, q # NULL
      PROVE  /\ q \in Nodes /\ f[q.left] \in AllTrees /\ f[q.right] \in AllTrees
             /\ f[q] = step(q, f[q.left], f[q.right])
  <2>1. q \in Nodes /\ f[q.left] \in AllTrees /\ f[q.right] \in AllTrees
    BY <1>4, <1>5, TreesClosed
  <2> QED
    BY <1>2, <1>4, <1>5, <2>1 DEF Folds
<1>6. f[NULL] = NULL
  BY <1>4, TreesClosed DEF Folds
<1> DEFINE g == [q \in Trees \ {NULL} |-> f[q]]
<1>7. ASSUME NEW q \in Trees \ {NULL} PROVE g[q] = body(g, q)
  BY <1>5, NodeParts, TreesClosed
<1>8. g = [q \in Trees \ {NULL} |-> body(g, q)]
  BY <1>7
<1> HIDE DEF g
<1>9. least = [q \in Trees \ {NULL} |-> body(least, q)]
  BY <1>8, Zenon
<1>10. \A q : find_min(q) = least[q]
  BY Zenon DEF find_min
<1> HIDE DEF least
<1>11. find_min(p) = body(least, p)
  BY <1>9, <1>10
<1> QED
  BY <1>10, <1>11, TreesClosed, NodeParts

LEMMA RemoveMinUnfolds ==
  ASSUME NEW p \in Trees \ {NULL}
  PROVE  remove_min(p) = IF p.left = NULL THEN p.right
                         ELSE Node(p.key, p.inumber, remove_min(p.left), p.right)
<1> DEFINE body(f, q) ==
             IF q.left = NULL THEN q.right ELSE [q EXCEPT !.left = f[q.left]]
           step(q, a, b) == IF q.left = NULL THEN q.right ELSE Node(q.key, q.inumber, a, q.right)
           op == [x \in Nodes \X AllTrees \X AllTrees |-> step(x[1], x[2], x[3])]
           rest == CHOOSE f : f = [q \in Trees \ {NULL} |-> body(f, q)]
<1>1. op \in [Nodes \X AllTrees \X AllTrees -> AllTrees]
  <2>1. ASSUME NEW q \in Nodes, NEW a \in AllTrees, NEW b \in AllTrees PROVE step(q, a, b) \in AllTrees
    BY <2>1, NodeParts, NodeMade DEF Nodes
  <2> QED
    BY <2>1
<1>2. ASSUME NEW q \in Nodes, NEW a \in AllTrees, NEW b \in AllTrees PROVE op[<<q, a, b>>] = step(q, a, b)
  OBVIOUS
<1> HIDE DEF op
<1>3. NULL \in AllTrees
  BY NullTree
<1>4. PICK f \in [Trees -> AllTrees] : Folds(f, NULL, op, Trees)
  BY <1>1, <1>3, FoldOnTrees
<1>5. ASSUME NEW q \in Trees, q # NULL
      PROVE  /\ q \in Nodes /\ f[q.left] \in AllTrees /\ f[q.right] \in AllTrees
             /\ f[q] = step(q, f[q.left], f[q.right])
  <2>1. q \in Nodes /\ f[q.left] \in AllTrees /\ f[q.right] \in AllTrees
    BY <1>4, <1>5, TreesClosed
  <2> QED
    BY <1>2, <1>4, <1>5, <2>1 DEF Folds
<1>6. f[NULL] = NULL
  BY <1>4, TreesClosed DEF Folds
<1> DEFINE g == [q \in Trees \ {NULL} |-> f[q]]
<1>7. ASSUME NEW q \in Trees \ {NULL} PROVE g[q] = body(g, q)
  <2>1. /\ q \in Nodes /\ q.left \in Trees /\ g[q] = step(q, f[q.left], f[q.right])
        /\ q.left # NULL => g[q.left] = f[q.left]
    BY <1>5, TreesClosed
  <2>2. \A x : [q EXCEPT !.left = x] = Node(q.key, q.inumber, x, q.right)
    BY <2>1, NodeExcept
  <2> QED
    BY <2>1, <2>2
<1>8. g = [q \in Trees \ {NULL} |-> body(g, q)]
  BY <1>7
<1> HIDE DEF g
<1>9. rest = [q \in Trees \ {NULL} |-> body(rest, q)]
  BY <1>8, Zenon
<1>10. \A q : remove_min(q) = rest[q]
  BY Zenon DEF remove_min
<1> HIDE DEF rest
<1>11. remove_min(p) = body(rest, p)
  BY <1>9, <1>10
<1> QED
  BY <1>10, <1>11, TreesClosed, NodeParts, NodeExcept

LEMMA PrintUnfolds ==
  ASSUME NEW p \in Trees
  PROVE  print_tree(p) = IF p = NULL THEN <<>>
                         ELSE print_tree(p.left) \o << <<p.key, p.inumber>> >> \o print_tree(p.right)
<1> DEFINE body(f, q) ==
             IF q = NULL THEN <<>> ELSE f[q.left] \o << <<q.key, q.inumber>> >> \o f[q.right]
           step(q, a, b) == a \o << <<q.key, q.inumber>> >> \o b
           op == [x \in Nodes \X Seq(Keys \X INumbers) \X Seq(Keys \X INumbers) |-> step(x[1], x[2], x[3])]
           out == CHOOSE f : f = [q \in Trees |-> body(f, q)]
<1>1. op \in [Nodes \X Seq(Keys \X INumbers) \X Seq(Keys \X INumbers) -> Seq(Keys \X INumbers)]
  <2>1. ASSUME NEW q \in Nodes, NEW a \in Seq(Keys \X INumbers), NEW b \in Seq(Keys \X INumbers)
        PROVE  step(q, a, b) \in Seq(Keys \X INumbers)
    BY <2>1, NodeParts
  <2> QED
    BY <2>1
<1>2. ASSUME NEW q \in Nodes, NEW a \in Seq(Keys \X INumbers), NEW b \in Seq(Keys \X INumbers)
      PROVE  op[<<q, a, b>>] = step(q, a, b)
  OBVIOUS
<1> HIDE DEF op
<1>3. <<>> \in Seq(Keys \X INumbers)
  OBVIOUS
<1>4. PICK f \in [Trees -> Seq(Keys \X INumbers)] : Folds(f, <<>>, op, Trees)
  BY <1>1, <1>3, FoldOnTrees
<1>5. ASSUME NEW q \in Trees, q # NULL
      PROVE  /\ q \in Nodes /\ f[q.left] \in Seq(Keys \X INumbers) /\ f[q.right] \in Seq(Keys \X INumbers)
             /\ f[q] = step(q, f[q.left], f[q.right])
  <2>1. q \in Nodes /\ f[q.left] \in Seq(Keys \X INumbers) /\ f[q.right] \in Seq(Keys \X INumbers)
    BY <1>4, <1>5, TreesClosed
  <2> QED
    BY <1>2, <1>4, <1>5, <2>1 DEF Folds
<1>6. f[NULL] = <<>>
  BY <1>4, TreesClosed DEF Folds
<1>7. ASSUME NEW q \in Trees PROVE f[q] = body(f, q)
  <2>1. CASE q = NULL
    BY <1>6, <2>1
  <2>2. CASE q # NULL
    BY <1>5, <2>2, NodeParts
  <2> QED
    BY <2>1, <2>2
<1>8. f = [q \in Trees |-> body(f, q)]
  BY <1>7
<1>9. out = [q \in Trees |-> body(out, q)]
  BY <1>8, Zenon
<1>10. \A q : print_tree(q) = out[q]
  BY Zenon DEF print_tree
<1> HIDE DEF out
<1>11. print_tree(p) = body(out, p)
  BY <1>9, <1>10
<1> QED
  BY <1>10, <1>11, TreesClosed, NodeParts

LEMMA FreeUnfolds ==
  ASSUME NEW p \in Trees
  PROVE  free_tree(p) = IF p = NULL THEN <<>> ELSE free_tree(p.left) \o free_tree(p.right) \o <<p.key>>
<1> DEFINE body(f, q) ==
             IF q = NULL THEN <<>> ELSE f[q.left] \o f[q.right] \o <<q.key>>
           step(q, a, b) == a \o b \o <<q.key>>
           op == [x \in Nodes \X Seq(Keys) \X Seq(Keys) |-> step(x[1], x[2], x[3])]
           freed == CHOOSE f : f = [q \in Trees |-> body(f, q)]
<1>1. op \in [Nodes \X Seq(Keys) \X Seq(Keys) -> Seq(Keys)]
  <2>1. ASSUME NEW q \in Nodes, NEW a \in Seq(Keys), NEW b \in Seq(Keys) PROVE step(q, a, b) \in Seq(Keys)
    BY <2>1, NodeParts
  <2> QED
    BY <2>1
<1>2. ASSUME NEW q \in Nodes, NEW a \in Seq(Keys), NEW b \in Seq(Keys) PROVE op[<<q, a, b>>] = step(q, a, b)
  OBVIOUS
<1> HIDE DEF op
<1>3. <<>> \in Seq(Keys)
  OBVIOUS
<1>4. PICK f \in [Trees -> Seq(Keys)] : Folds(f, <<>>, op, Trees)
  BY <1>1, <1>3, FoldOnTrees
<1>5. ASSUME NEW q \in Trees, q # NULL
      PROVE  /\ q \in Nodes /\ f[q.left] \in Seq(Keys) /\ f[q.right] \in Seq(Keys)
             /\ f[q] = step(q, f[q.left], f[q.right])
  <2>1. q \in Nodes /\ f[q.left] \in Seq(Keys) /\ f[q.right] \in Seq(Keys)
    BY <1>4, <1>5, TreesClosed
  <2> QED
    BY <1>2, <1>4, <1>5, <2>1 DEF Folds
<1>6. f[NULL] = <<>>
  BY <1>4, TreesClosed DEF Folds
<1>7. ASSUME NEW q \in Trees PROVE f[q] = body(f, q)
  <2>1. CASE q = NULL
    BY <1>6, <2>1
  <2>2. CASE q # NULL
    BY <1>5, <2>2, NodeParts
  <2> QED
    BY <2>1, <2>2
<1>8. f = [q \in Trees |-> body(f, q)]
  BY <1>7
<1>9. freed = [q \in Trees |-> body(freed, q)]
  BY <1>8, Zenon
<1>10. \A q : free_tree(q) = freed[q]
  BY Zenon DEF free_tree
<1> HIDE DEF freed
<1>11. free_tree(p) = body(freed, p)
  BY <1>9, <1>10
<1> QED
  BY <1>10, <1>11, TreesClosed, NodeParts

-----------------------------------------------------------------------------
(***************************************************************************)
(* What a tree holds, and what makes it a search tree.                     *)
(***************************************************************************)
\* The pairs of a key and an i-number in a tree.
Entries[p \in AllTrees] ==
  IF p = NULL THEN {} ELSE Entries[p.left] \cup {<<p.key, p.inumber>>} \cup Entries[p.right]

Before(E, k) == \A e \in E : e[1] < k
After(E, k) == \A e \in E : k < e[1]

\* Those on the wrong side of a node above them.
Misplaced[p \in AllTrees] ==
  IF p = NULL THEN {}
  ELSE UNION {Misplaced[p.left], Misplaced[p.right],
              {e \in Entries[p.left] : ~(e[1] < p.key)}, {e \in Entries[p.right] : ~(p.key < e[1])}}
Ordered(p) == Misplaced[p] = {}

LEMMA EntriesUnfold ==
  /\ Entries[NULL] = {}
  /\ \A p \in Nodes : Entries[p] = Entries[p.left] \cup {<<p.key, p.inumber>>} \cup Entries[p.right]
<1> DEFINE V == SUBSET (Keys \X INumbers)
           body(f, q) == IF q = NULL THEN {} ELSE f[q.left] \cup {<<q.key, q.inumber>>} \cup f[q.right]
           step(q, a, b) == a \cup {<<q.key, q.inumber>>} \cup b
           op == [x \in Nodes \X V \X V |-> step(x[1], x[2], x[3])]
<1>1. op \in [Nodes \X V \X V -> V]
  <2>1. ASSUME NEW q \in Nodes, NEW a \in V, NEW b \in V PROVE step(q, a, b) \in V
    BY NodeParts
  <2> QED
    BY <2>1
<1>2. ASSUME NEW q \in Nodes, NEW a \in V, NEW b \in V PROVE op[<<q, a, b>>] = step(q, a, b)
  OBVIOUS
<1>3. {} \in V
  OBVIOUS
<1> HIDE DEF op, V
<1>4. PICK f \in [AllTrees -> V] : Folds(f, {}, op, AllTrees)
  BY <1>1, <1>3, FoldExists
<1>5. ASSUME NEW q \in AllTrees PROVE f[q] = body(f, q)
  <2>1. CASE q = NULL
    BY <1>4, <2>1 DEF Folds
  <2>2. CASE q # NULL
    <3>1. q \in Nodes /\ f[q.left] \in V /\ f[q.right] \in V
      BY <1>4, <2>2, NodeParts DEF Nodes
    <3>2. f[q] = op[<<q, f[q.left], f[q.right]>>]
      BY <1>4, <2>2 DEF Folds
    <3>3. op[<<q, f[q.left], f[q.right]>>] = step(q, f[q.left], f[q.right])
      BY <1>2, <3>1
    <3> QED
      BY <2>2, <3>2, <3>3
  <2> QED
    BY <2>1, <2>2
<1>6. f = [q \in AllTrees |-> body(f, q)]
  BY <1>4, <1>5
<1>7. Entries = [q \in AllTrees |-> body(Entries, q)]
  BY <1>6, Zenon DEF Entries
<1> QED
  BY <1>7, NullTree DEF Nodes

LEMMA EntriesType == \A p \in AllTrees : Entries[p] \subseteq Keys \X INumbers
<1> DEFINE S == {p \in AllTrees : Entries[p] \subseteq Keys \X INumbers}
<1>1. NULL \in S
  BY NullTree, EntriesUnfold
<1>2. ASSUME NEW p \in Nodes, p.left \in S, p.right \in S PROVE p \in S
  BY <1>2, EntriesUnfold, NodeParts DEF Nodes
<1> HIDE DEF S
<1>3. AllTrees \subseteq S
  BY <1>1, <1>2, TreeSets
<1> QED
  BY <1>3 DEF S

LEMMA MisplacedUnfolds ==
  /\ Misplaced[NULL] = {}
  /\ \A p \in Nodes :
       Misplaced[p] = UNION {Misplaced[p.left], Misplaced[p.right],
                             {e \in Entries[p.left] : ~(e[1] < p.key)},
                             {e \in Entries[p.right] : ~(p.key < e[1])}}
<1> DEFINE V == SUBSET (Keys \X INumbers)
           wrong(q) == {e \in Entries[q.left] : ~(e[1] < q.key)}
                       \cup {e \in Entries[q.right] : ~(q.key < e[1])}
           body(f, q) == IF q = NULL THEN {}
                         ELSE UNION {f[q.left], f[q.right],
                                     {e \in Entries[q.left] : ~(e[1] < q.key)},
                                     {e \in Entries[q.right] : ~(q.key < e[1])}}
           step(q, a, b) == a \cup b \cup wrong(q)
           op == [x \in Nodes \X V \X V |-> step(x[1], x[2], x[3])]
<1>1. op \in [Nodes \X V \X V -> V]
  <2>1. ASSUME NEW q \in Nodes, NEW a \in V, NEW b \in V PROVE step(q, a, b) \in V
    BY NodeParts, EntriesType
  <2> QED
    BY <2>1
<1>2. ASSUME NEW q \in Nodes, NEW a \in V, NEW b \in V PROVE op[<<q, a, b>>] = step(q, a, b)
  OBVIOUS
<1>3. {} \in V
  OBVIOUS
<1> HIDE DEF op, V
<1>4. PICK f \in [AllTrees -> V] : Folds(f, {}, op, AllTrees)
  BY <1>1, <1>3, FoldExists
<1>5. ASSUME NEW q \in AllTrees PROVE f[q] = body(f, q)
  <2>1. CASE q = NULL
    BY <1>4, <2>1 DEF Folds
  <2>2. CASE q # NULL
    <3>1. q \in Nodes /\ f[q.left] \in V /\ f[q.right] \in V
      BY <1>4, <2>2, NodeParts DEF Nodes
    <3>2. f[q] = op[<<q, f[q.left], f[q.right]>>]
      BY <1>4, <2>2 DEF Folds
    <3>3. op[<<q, f[q.left], f[q.right]>>] = step(q, f[q.left], f[q.right])
      BY <1>2, <3>1
    <3>4. step(q, f[q.left], f[q.right]) = body(f, q)
      BY <2>2
    <3> QED
      BY <3>2, <3>3, <3>4
  <2> QED
    BY <2>1, <2>2
<1>6. f = [q \in AllTrees |-> body(f, q)]
  BY <1>4, <1>5
<1>7. Misplaced = [q \in AllTrees |-> body(Misplaced, q)]
  BY <1>6, Zenon DEF Misplaced
<1>8. NULL \in AllTrees /\ Nodes \subseteq AllTrees /\ NULL \notin Nodes
  BY NullTree DEF Nodes
<1>9. \A q \in AllTrees : Misplaced[q] = body(Misplaced, q)
  BY <1>7
<1> QED
  BY <1>8, <1>9

LEMMA OrderedNode ==
  /\ Ordered(NULL)
  /\ \A p \in Nodes : Ordered(p) <=> /\ Ordered(p.left) /\ Ordered(p.right)
                                     /\ Before(Entries[p.left], p.key) /\ After(Entries[p.right], p.key)
<1>1. Ordered(NULL)
  BY MisplacedUnfolds DEF Ordered
<1>2. ASSUME NEW p \in Nodes
      PROVE  Ordered(p) <=> /\ Ordered(p.left) /\ Ordered(p.right)
                            /\ Before(Entries[p.left], p.key) /\ After(Entries[p.right], p.key)
  <2>1. Misplaced[p] = UNION {Misplaced[p.left], Misplaced[p.right],
                             {e \in Entries[p.left] : ~(e[1] < p.key)},
                             {e \in Entries[p.right] : ~(p.key < e[1])}}
    BY MisplacedUnfolds
  <2> QED
    BY <2>1 DEF Ordered, Before, After
<1> QED
  BY <1>1, <1>2

LEMMA NodeEntries ==
  ASSUME NEW k \in Keys, NEW i \in INumbers, NEW l \in AllTrees, NEW r \in AllTrees
  PROVE  /\ Node(k, i, l, r) \in Nodes
         /\ Entries[Node(k, i, l, r)] = Entries[l] \cup {<<k, i>>} \cup Entries[r]
         /\ Ordered(l) /\ Ordered(r) /\ Before(Entries[l], k) /\ After(Entries[r], k)
            => Ordered(Node(k, i, l, r))
<1>1. PICK n : n = Node(k, i, l, r)
  OBVIOUS
<1>2. n \in Nodes /\ n.key = k /\ n.inumber = i /\ n.left = l /\ n.right = r
  BY <1>1, NodeMade, NodeFields
<1>3. Entries[n] = Entries[n.left] \cup {<<n.key, n.inumber>>} \cup Entries[n.right]
  BY <1>2, EntriesUnfold
<1>4. Ordered(n) <=> /\ Ordered(n.left) /\ Ordered(n.right)
                     /\ Before(Entries[n.left], n.key) /\ After(Entries[n.right], n.key)
  BY <1>2, OrderedNode
<1> QED
  BY <1>1, <1>2, <1>3, <1>4

\* A node of a search tree, its subtrees and its entries.
LEMMA TreeNode ==
  ASSUME NEW p \in Trees, p # NULL
  PROVE  /\ p \in Nodes /\ p.left \in Trees /\ p.right \in Trees
         /\ p.left \in AllTrees /\ p.right \in AllTrees
         /\ p.key \in Keys /\ p.key \in Nat /\ p.inumber \in INumbers
         /\ p = Node(p.key, p.inumber, p.left, p.right)
         /\ Entries[p] = Entries[p.left] \cup {<<p.key, p.inumber>>} \cup Entries[p.right]
         /\ Ordered(p) <=> /\ Ordered(p.left) /\ Ordered(p.right)
                           /\ Before(Entries[p.left], p.key) /\ After(Entries[p.right], p.key)
<1>1. p \in Nodes /\ p.left \in Trees /\ p.right \in Trees
  BY TreesClosed
<1> QED
  BY <1>1, NodeParts, EntriesUnfold, OrderedNode

LEMMA TreesSets ==
  ASSUME NEW S, NULL \in S,
         \A p \in Trees : p # NULL /\ p.left \in S /\ p.right \in S => p \in S
  PROVE  Trees \subseteq S
  BY HeightType, TreesOfSets DEF Trees

\* A search tree on the keys K is no higher than there are keys in K.
LEMMA OrderedHeight ==
  \A p \in AllTrees : \A K \in SUBSET Keys :
    Ordered(p) /\ (\A e \in Entries[p] : e[1] \in K) => p \in TreesOf[Cardinality(K)]
<1> DEFINE fits(p) == \A K \in SUBSET Keys :
                        Ordered(p) /\ (\A e \in Entries[p] : e[1] \in K) => p \in TreesOf[Cardinality(K)]
           S == {p \in AllTrees : fits(p)}
<1>0. \A K \in SUBSET Keys : IsFiniteSet(K) /\ Cardinality(K) \in Nat
  BY BstAssumption, FS_Subset, FS_CardinalityType
<1>1. NULL \in S
  BY <1>0, NullEverywhere, NullTree
<1>2. ASSUME NEW p \in Nodes, p.left \in S, p.right \in S PROVE p \in S
  <2> SUFFICES ASSUME NEW K \in SUBSET Keys, Ordered(p), \A e \in Entries[p] : e[1] \in K
               PROVE  p \in TreesOf[Cardinality(K)]
    BY DEF Nodes
  <2> DEFINE L == {x \in K : x < p.key}
             R == {x \in K : p.key < x}
             m == Cardinality(K) - 1
  <2>1. Entries[p] = Entries[p.left] \cup {<<p.key, p.inumber>>} \cup Entries[p.right]
    BY EntriesUnfold
  <2>2. /\ Ordered(p.left) /\ Ordered(p.right)
        /\ Before(Entries[p.left], p.key) /\ After(Entries[p.right], p.key)
    BY OrderedNode
  <2>3. p.key \in K /\ p.key \in Nat
    <3>1. <<p.key, p.inumber>> \in Entries[p]
      BY <2>1
    <3>2. <<p.key, p.inumber>>[1] \in K
      BY <3>1
    <3> QED
      BY <3>2, NodeParts
  <2>4. IsFiniteSet(K \ {p.key}) /\ Cardinality(K \ {p.key}) = m
    BY <1>0, <2>3, FS_RemoveElement
  <2>5. L \subseteq K \ {p.key} /\ R \subseteq K \ {p.key}
    BY <2>3
  <2>6. Cardinality(L) \in Nat /\ Cardinality(R) \in Nat /\ m \in Nat
    BY <1>0, <2>4
  <2>7. Cardinality(L) <= m /\ Cardinality(R) <= m
    BY <2>4, <2>5, FS_Subset
  <2>8. p.left \in TreesOf[Cardinality(L)]
    <3>1. \A e \in Entries[p.left] : e[1] \in L
      BY <2>1, <2>2 DEF Before
    <3> QED
      BY <1>2, <2>2, <3>1
  <2>9. p.right \in TreesOf[Cardinality(R)]
    <3>1. \A e \in Entries[p.right] : e[1] \in R
      BY <2>1, <2>2 DEF After
    <3> QED
      BY <1>2, <2>2, <3>1
  <2>10. p.left \in TreesOf[m] /\ p.right \in TreesOf[m]
    BY <2>6, <2>7, <2>8, <2>9, TreesGrow
  <2>11. p \in TreesOf[m + 1] /\ m + 1 = Cardinality(K)
    BY <1>0, <2>6, <2>10, NodeParts, NodeOfHeight
  <2> QED
    BY <2>11
<1> HIDE DEF S
<1>3. AllTrees \subseteq S
  BY <1>1, <1>2, TreeSets
<1> QED
  BY <1>3 DEF S

LEMMA OrderedFits == \A p \in AllTrees : Ordered(p) => p \in Trees
  BY OrderedHeight, EntriesType DEF Trees

-----------------------------------------------------------------------------
(***************************************************************************)
(* What each operator does to a search tree.                               *)
(***************************************************************************)
\* search finds the entry of a key, or NULL when there is none.
LEMMA SearchFinds ==
  ASSUME NEW key \in Keys
  PROVE  \A p \in Trees : Ordered(p) =>
           /\ search(p, key) = NULL => \A e \in Entries[p] : e[1] # key
           /\ search(p, key) # NULL => <<key, search(p, key).inumber>> \in Entries[p]
<1> DEFINE finds(p) == /\ search(p, key) = NULL => \A e \in Entries[p] : e[1] # key
                       /\ search(p, key) # NULL => <<key, search(p, key).inumber>> \in Entries[p]
           S == {p \in Trees : Ordered(p) => finds(p)}
<1>1. NULL \in S
  BY TreesClosed, EntriesUnfold, SearchUnfolds
<1>2. ASSUME NEW p \in Trees, p # NULL, p.left \in S, p.right \in S PROVE p \in S
  <2> SUFFICES ASSUME Ordered(p) PROVE finds(p)
    OBVIOUS
  <2>1. /\ p.key \in Nat /\ key \in Nat /\ Ordered(p.left) /\ Ordered(p.right)
        /\ Before(Entries[p.left], p.key) /\ After(Entries[p.right], p.key)
        /\ Entries[p] = Entries[p.left] \cup {<<p.key, p.inumber>>} \cup Entries[p.right]
        /\ p.left \in AllTrees /\ p.right \in AllTrees
    BY <1>2, TreeNode, BstAssumption
  <2>2. /\ \A e \in Entries[p.left] : e[1] \in Nat /\ e[1] < p.key
        /\ \A e \in Entries[p.right] : e[1] \in Nat /\ p.key < e[1]
    BY <2>1, EntriesType, BstAssumption DEF Before, After
  <2>3. finds(p.left) /\ finds(p.right)
    BY <1>2, <2>1
  <2>4. search(p, key) = IF p.key = key THEN p
                         ELSE IF key < p.key THEN search(p.left, key) ELSE search(p.right, key)
    BY <1>2, SearchUnfolds
  <2>5. CASE p.key = key
    BY <1>2, <2>1, <2>4, <2>5
  <2>6. CASE key < p.key
    <3>1. \A e \in Entries[p.right] : e[1] # key
      BY <2>1, <2>2, <2>6
    <3> QED
      BY <2>1, <2>3, <2>4, <2>6, <3>1
  <2>7. CASE p.key < key
    <3>1. \A e \in Entries[p.left] : e[1] # key
      BY <2>1, <2>2, <2>7
    <3> QED
      BY <2>1, <2>3, <2>4, <2>7, <3>1
  <2> QED
    BY <2>1, <2>5, <2>6, <2>7
<1> HIDE DEF S
<1>3. Trees \subseteq S
  BY <1>1, <1>2, TreesSets
<1> QED
  BY <1>3 DEF S

Others(E, key) == {e \in E : e[1] # key}

\* insert leaves a search tree with one entry under the key, the new one.
LEMMA InsertPuts ==
  ASSUME NEW key \in Keys, NEW inumber \in INumbers
  PROVE  \A p \in Trees : Ordered(p) =>
           /\ insert(p, key, inumber) \in AllTrees /\ Ordered(insert(p, key, inumber))
           /\ Entries[insert(p, key, inumber)] = Others(Entries[p], key) \cup {<<key, inumber>>}
<1> DEFINE ins(p) == insert(p, key, inumber)
           puts(p) == /\ ins(p) \in AllTrees /\ Ordered(ins(p))
                      /\ Entries[ins(p)] = Others(Entries[p], key) \cup {<<key, inumber>>}
           S == {p \in Trees : Ordered(p) => puts(p)}
<1>1. NULL \in S
  <2>1. NULL \in Trees /\ NULL \in AllTrees /\ ins(NULL) = Node(key, inumber, NULL, NULL)
    BY TreesClosed, NullTree, InsertUnfolds
  <2>2. Entries[NULL] = {} /\ Ordered(NULL)
    BY EntriesUnfold, OrderedNode
  <2>3. /\ ins(NULL) \in AllTrees /\ Ordered(ins(NULL))
        /\ Entries[ins(NULL)] = {<<key, inumber>>}
    BY <2>1, <2>2, NodeEntries DEF Nodes, Before, After
  <2> QED
    BY <2>1, <2>2, <2>3 DEF Others
<1>2. ASSUME NEW p \in Trees, p # NULL, p.left \in S, p.right \in S PROVE p \in S
  <2> SUFFICES ASSUME Ordered(p) PROVE puts(p)
    OBVIOUS
  <2>1. /\ p.key \in Keys /\ p.key \in Nat /\ key \in Nat /\ p.inumber \in INumbers
        /\ Ordered(p.left) /\ Ordered(p.right)
        /\ Before(Entries[p.left], p.key) /\ After(Entries[p.right], p.key)
        /\ Entries[p] = Entries[p.left] \cup {<<p.key, p.inumber>>} \cup Entries[p.right]
        /\ p.left \in AllTrees /\ p.right \in AllTrees
    BY <1>2, TreeNode, BstAssumption
  <2>2. /\ \A e \in Entries[p.left] : e[1] \in Nat /\ e[1] < p.key
        /\ \A e \in Entries[p.right] : e[1] \in Nat /\ p.key < e[1]
    BY <2>1, EntriesType, BstAssumption DEF Before, After
  <2>3. puts(p.left) /\ puts(p.right)
    BY <1>2, <2>1
  <2>4. ins(p) = IF key < p.key THEN Node(p.key, p.inumber, ins(p.left), p.right)
                 ELSE IF key > p.key THEN Node(p.key, p.inumber, p.left, ins(p.right))
                 ELSE Node(p.key, inumber, p.left, p.right)
    BY <1>2, InsertUnfolds
  <2> HIDE DEF ins
  <2>5. CASE key < p.key
    <3>1. Before(Entries[ins(p.left)], p.key)
      BY <2>1, <2>2, <2>3, <2>5 DEF Before, Others
    <3>2. /\ ins(p) \in Nodes /\ Ordered(ins(p))
          /\ Entries[ins(p)] = Entries[ins(p.left)] \cup {<<p.key, p.inumber>>} \cup Entries[p.right]
      <4>1. ins(p) = Node(p.key, p.inumber, ins(p.left), p.right)
        BY <2>4, <2>5
      <4>2. ins(p.left) \in AllTrees /\ Ordered(ins(p.left))
        BY <2>3
      <4> QED
        BY <2>1, <3>1, <4>1, <4>2, NodeEntries
    <3>3. Others(Entries[p], key)
            = Others(Entries[p.left], key) \cup {<<p.key, p.inumber>>} \cup Entries[p.right]
      BY <2>1, <2>2, <2>5 DEF Others
    <3> QED
      BY <2>3, <3>2, <3>3 DEF Nodes
  <2>6. CASE key > p.key
    <3>1. After(Entries[ins(p.right)], p.key)
      BY <2>1, <2>2, <2>3, <2>6 DEF After, Others
    <3>2. /\ ins(p) \in Nodes /\ Ordered(ins(p))
          /\ Entries[ins(p)] = Entries[p.left] \cup {<<p.key, p.inumber>>} \cup Entries[ins(p.right)]
      <4>1. ins(p) = Node(p.key, p.inumber, p.left, ins(p.right))
        BY <2>1, <2>4, <2>6
      <4>2. ins(p.right) \in AllTrees /\ Ordered(ins(p.right))
        BY <2>3
      <4> QED
        BY <2>1, <3>1, <4>1, <4>2, NodeEntries
    <3>3. Others(Entries[p], key)
            = Entries[p.left] \cup {<<p.key, p.inumber>>} \cup Others(Entries[p.right], key)
      BY <2>1, <2>2, <2>6 DEF Others
    <3> QED
      BY <2>3, <3>2, <3>3 DEF Nodes
  <2>7. CASE key = p.key
    <3>1. /\ ins(p) \in Nodes /\ Ordered(ins(p))
          /\ Entries[ins(p)] = Entries[p.left] \cup {<<p.key, inumber>>} \cup Entries[p.right]
      BY <2>1, <2>4, <2>7, NodeEntries
    <3>2. Others(Entries[p], key) = Entries[p.left] \cup Entries[p.right]
      BY <2>1, <2>2, <2>7 DEF Others
    <3> QED
      BY <2>7, <3>1, <3>2 DEF Nodes
  <2> QED
    BY <2>1, <2>5, <2>6, <2>7
<1> HIDE DEF S
<1>3. Trees \subseteq S
  BY <1>1, <1>2, TreesSets
<1> QED
  BY <1>3 DEF S

\* find_min and remove_min on any tree.
LEMMA MinTypes ==
  \A p \in Trees \ {NULL} : find_min(p) \in Nodes /\ remove_min(p) \in AllTrees
<1> DEFINE S == {p \in Trees : p # NULL => find_min(p) \in Nodes /\ remove_min(p) \in AllTrees}
<1>1. NULL \in S
  BY TreesClosed
<1>2. ASSUME NEW p \in Trees, p # NULL, p.left \in S, p.right \in S PROVE p \in S
  <2>1. /\ p \in Nodes /\ p.left \in Trees /\ p.right \in AllTrees
        /\ p.key \in Keys /\ p.inumber \in INumbers
    BY <1>2, TreeNode
  <2>2. find_min(p) = IF p.left # NULL THEN find_min(p.left) ELSE p
    BY <1>2, FindMinUnfolds
  <2>3. remove_min(p) = IF p.left = NULL THEN p.right
                        ELSE Node(p.key, p.inumber, remove_min(p.left), p.right)
    BY <1>2, RemoveMinUnfolds
  <2>4. CASE p.left = NULL
    BY <1>2, <2>1, <2>2, <2>3, <2>4
  <2>5. CASE p.left # NULL
    <3>1. find_min(p.left) \in Nodes /\ remove_min(p.left) \in AllTrees
      BY <1>2, <2>5
    <3>2. Node(p.key, p.inumber, remove_min(p.left), p.right) \in AllTrees
      BY <2>1, <3>1, NodeMade DEF Nodes
    <3> QED
      BY <1>2, <2>2, <2>3, <2>5, <3>1, <3>2
  <2> QED
    BY <2>4, <2>5
<1> HIDE DEF S
<1>3. Trees \subseteq S
  BY <1>1, <1>2, TreesSets
<1> QED
  BY <1>3 DEF S

\* find_min finds the entry with the smallest key, and remove_min takes that
\* entry out and no other.
LEMMA MinTaken ==
  \A p \in Trees : p # NULL /\ Ordered(p) =>
    /\ <<find_min(p).key, find_min(p).inumber>> \in Entries[p]
    /\ Ordered(remove_min(p)) /\ After(Entries[remove_min(p)], find_min(p).key)
    /\ Entries[p] = Entries[remove_min(p)] \cup {<<find_min(p).key, find_min(p).inumber>>}
<1> DEFINE e(p) == <<find_min(p).key, find_min(p).inumber>>
           taken(p) == /\ e(p) \in Entries[p]
                       /\ Ordered(remove_min(p)) /\ After(Entries[remove_min(p)], find_min(p).key)
                       /\ Entries[p] = Entries[remove_min(p)] \cup {e(p)}
           S == {p \in Trees : p # NULL /\ Ordered(p) => taken(p)}
<1>1. NULL \in S
  BY TreesClosed
<1>2. ASSUME NEW p \in Trees, p # NULL, p.left \in S, p.right \in S PROVE p \in S
  <2> SUFFICES ASSUME Ordered(p) PROVE taken(p)
    BY <1>2
  <2>1. /\ p.key \in Keys /\ p.key \in Nat /\ p.inumber \in INumbers
        /\ Ordered(p.left) /\ Ordered(p.right)
        /\ Before(Entries[p.left], p.key) /\ After(Entries[p.right], p.key)
        /\ Entries[p] = Entries[p.left] \cup {<<p.key, p.inumber>>} \cup Entries[p.right]
        /\ p.left \in AllTrees /\ p.right \in AllTrees /\ p.left \in Trees
    BY <1>2, TreeNode
  <2>2. find_min(p) = IF p.left # NULL THEN find_min(p.left) ELSE p
    BY <1>2, FindMinUnfolds
  <2>3. remove_min(p) = IF p.left = NULL THEN p.right
                        ELSE Node(p.key, p.inumber, remove_min(p.left), p.right)
    BY <1>2, RemoveMinUnfolds
  <2>4. CASE p.left = NULL
    <3>1. find_min(p) = p /\ remove_min(p) = p.right /\ Entries[p.left] = {}
      BY <2>2, <2>3, <2>4, EntriesUnfold
    <3> QED
      BY <2>1, <3>1
  <2>5. CASE p.left # NULL
    <3>1. PICK l, m, k : l = remove_min(p.left) /\ m = e(p.left) /\ k = find_min(p.left).key
      OBVIOUS
    <3>2. /\ m \in Entries[p.left] /\ Ordered(l) /\ After(Entries[l], k) /\ m[1] = k
          /\ Entries[p.left] = Entries[l] \cup {m}
      BY <1>2, <2>1, <2>5, <3>1
    <3>3. l \in AllTrees /\ k \in Nat /\ k < p.key
      <4>1. find_min(p.left) \in Nodes /\ l \in AllTrees
        BY <2>1, <2>5, <3>1, MinTypes
      <4> QED
        BY <2>1, <3>1, <3>2, <4>1, NodeParts DEF Before
    <3>4. find_min(p) = find_min(p.left) /\ remove_min(p) = Node(p.key, p.inumber, l, p.right)
      BY <2>2, <2>3, <2>5, <3>1
    <3>5. Before(Entries[l], p.key)
      BY <2>1, <3>2 DEF Before
    <3>6. /\ Entries[remove_min(p)] = Entries[l] \cup {<<p.key, p.inumber>>} \cup Entries[p.right]
          /\ Ordered(remove_min(p))
      BY <2>1, <3>2, <3>3, <3>4, <3>5, NodeEntries
    <3>7. \A x \in Entries[p.right] : x[1] \in Nat
      BY <2>1, EntriesType, BstAssumption
    <3>8. After(Entries[remove_min(p)], k)
      BY <2>1, <3>2, <3>3, <3>6, <3>7 DEF After
    <3>9. e(p) = m /\ find_min(p).key = k
      BY <3>1, <3>4
    <3> QED
      BY <2>1, <3>2, <3>6, <3>8, <3>9
  <2> QED
    BY <2>4, <2>5
<1> HIDE DEF S
<1>3. Trees \subseteq S
  BY <1>1, <1>2, TreesSets
<1> QED
  BY <1>3 DEF S

LEMMA NodeExceptTwo ==
  ASSUME NEW p \in Nodes, NEW l, NEW r
  PROVE  [p EXCEPT !.right = r, !.left = l] = Node(p.key, p.inumber, l, r)
<1>1. [p EXCEPT !.right = r, !.left = l] = [[p EXCEPT !.right = r] EXCEPT !.left = l]
  OBVIOUS
<1>2. PICK m : m = [p EXCEPT !.right = r]
  OBVIOUS
<1>3. m = Node(p.key, p.inumber, p.left, r)
  BY <1>2, NodeExcept
<1>4. [m EXCEPT !.left = l] = Node(p.key, p.inumber, l, r)
  BY <1>3 DEF Node
<1> QED
  BY <1>1, <1>2, <1>4

LEMMA UnlinkType == \A l, r \in Trees : Unlink(l, r) \in AllTrees
<1> SUFFICES ASSUME NEW l \in Trees, NEW r \in Trees PROVE Unlink(l, r) \in AllTrees
  OBVIOUS
<1>1. CASE r = NULL
  BY <1>1, TreesClosed DEF Unlink
<1>2. CASE r # NULL
  <2>1. PICK m, s : m = find_min(r) /\ s = remove_min(r)
    OBVIOUS
  <2>2. /\ m \in Nodes /\ s \in AllTrees /\ l \in AllTrees
        /\ m.key \in Keys /\ m.inumber \in INumbers
    BY <1>2, <2>1, MinTypes, TreesClosed, NodeParts
  <2>3. [m EXCEPT !.right = s, !.left = l] = Node(m.key, m.inumber, l, s)
    BY <2>2, NodeExceptTwo
  <2>4. Unlink(l, r) = Node(m.key, m.inumber, l, s)
    BY <1>2, <2>1, <2>3 DEF Unlink
  <2> QED
    BY <2>2, <2>4, NodeMade DEF Nodes
<1> QED
  BY <1>1, <1>2

\* Two search trees with a key between them become one.
LEMMA UnlinkJoins ==
  ASSUME NEW l \in Trees, NEW r \in Trees, NEW k \in Nat,
         Ordered(l), Ordered(r), Before(Entries[l], k), After(Entries[r], k)
  PROVE  Ordered(Unlink(l, r)) /\ Entries[Unlink(l, r)] = Entries[l] \cup Entries[r]
<1>1. CASE r = NULL
  BY <1>1, EntriesUnfold DEF Unlink
<1>2. CASE r # NULL
  <2>1. PICK m, s : m = find_min(r) /\ s = remove_min(r)
    OBVIOUS
  <2>2. /\ m \in Nodes /\ s \in AllTrees /\ l \in AllTrees /\ r \in AllTrees
        /\ m.key \in Keys /\ m.key \in Nat /\ m.inumber \in INumbers
    BY <1>2, <2>1, MinTypes, TreesClosed, NodeParts
  <2>3. /\ <<m.key, m.inumber>> \in Entries[r] /\ Ordered(s) /\ After(Entries[s], m.key)
        /\ Entries[r] = Entries[s] \cup {<<m.key, m.inumber>>}
    BY <1>2, <2>1, MinTaken
  <2>4. [m EXCEPT !.right = s, !.left = l] = Node(m.key, m.inumber, l, s)
    BY <2>2, NodeExceptTwo
  <2>5. Unlink(l, r) = Node(m.key, m.inumber, l, s)
    BY <1>2, <2>1, <2>4 DEF Unlink
  <2>6. k < m.key
    BY <2>3 DEF After
  <2>7. Before(Entries[l], m.key)
    <3>1. \A e \in Entries[l] : e[1] \in Nat /\ e[1] < k
      BY <2>2, EntriesType, BstAssumption DEF Before
    <3> QED
      BY <2>2, <2>6, <3>1 DEF Before
  <2>8. /\ Ordered(Unlink(l, r))
        /\ Entries[Unlink(l, r)] = Entries[l] \cup {<<m.key, m.inumber>>} \cup Entries[s]
    BY <2>2, <2>3, <2>5, <2>7, NodeEntries
  <2> QED
    BY <2>3, <2>8
<1> QED
  BY <1>1, <1>2

LEMMA RemoveUnfolds ==
  ASSUME NEW key \in Keys, NEW p \in Trees
  PROVE  remove_item(p, key) =
           IF p = NULL THEN NULL
           ELSE IF key < p.key THEN Node(p.key, p.inumber, remove_item(p.left, key), p.right)
           ELSE IF key > p.key THEN Node(p.key, p.inumber, p.left, remove_item(p.right, key))
           ELSE Unlink(p.left, p.right)
<1> DEFINE body(f, q) ==
             IF q = NULL THEN NULL
             ELSE CASE key < q.key -> [q EXCEPT !.left = f[q.left]]
                    [] key > q.key -> [q EXCEPT !.right = f[q.right]]
                    [] OTHER       -> Unlink(q.left, q.right)
           step(q, a, b) == IF key < q.key THEN Node(q.key, q.inumber, a, q.right)
                            ELSE IF key > q.key THEN Node(q.key, q.inumber, q.left, b)
                            ELSE IF q \in Trees THEN Unlink(q.left, q.right) ELSE NULL
           op == [x \in Nodes \X AllTrees \X AllTrees |-> step(x[1], x[2], x[3])]
           rem == CHOOSE f : f = [q \in Trees |-> body(f, q)]
<1>1. op \in [Nodes \X AllTrees \X AllTrees -> AllTrees]
  <2>1. ASSUME NEW q \in Nodes, NEW a \in AllTrees, NEW b \in AllTrees PROVE step(q, a, b) \in AllTrees
    <3>1. /\ q # NULL /\ q.key \in Keys /\ q.inumber \in INumbers
          /\ q.left \in AllTrees /\ q.right \in AllTrees
      BY NodeParts DEF Nodes
    <3>2. /\ Node(q.key, q.inumber, a, q.right) \in AllTrees
          /\ Node(q.key, q.inumber, q.left, b) \in AllTrees
      BY <2>1, <3>1, NodeMade DEF Nodes
    <3>3. q \in Trees => Unlink(q.left, q.right) \in AllTrees
      BY <3>1, TreesClosed, UnlinkType
    <3> QED
      BY <3>2, <3>3, NullTree
  <2> QED
    BY <2>1
<1>2. ASSUME NEW q \in Nodes, NEW a \in AllTrees, NEW b \in AllTrees PROVE op[<<q, a, b>>] = step(q, a, b)
  OBVIOUS
<1> HIDE DEF op
<1>3. PICK f \in [Trees -> AllTrees] : Folds(f, NULL, op, Trees)
  BY <1>1, NullTree, FoldOnTrees
<1>4. ASSUME NEW q \in Trees PROVE f[q] = body(f, q)
  <2>1. CASE q = NULL
    BY <1>3, <2>1 DEF Folds
  <2>2. CASE q # NULL
    <3>1. /\ q \in Nodes /\ q.key \in Nat /\ key \in Nat
          /\ f[q.left] \in AllTrees /\ f[q.right] \in AllTrees
      BY <1>3, <2>2, TreeNode, BstAssumption
    <3>2. f[q] = op[<<q, f[q.left], f[q.right]>>]
      BY <1>3, <2>2 DEF Folds
    <3>3. f[q] = step(q, f[q.left], f[q.right])
      BY <1>2, <3>1, <3>2
    <3>4. /\ [q EXCEPT !.left = f[q.left]] = Node(q.key, q.inumber, f[q.left], q.right)
          /\ [q EXCEPT !.right = f[q.right]] = Node(q.key, q.inumber, q.left, f[q.right])
      BY <3>1, NodeExcept
    <3>5. CASE key < q.key
      BY <2>2, <3>1, <3>3, <3>4, <3>5
    <3>6. CASE key > q.key
      BY <2>2, <3>1, <3>3, <3>4, <3>6
    <3>7. CASE key = q.key
      BY <2>2, <3>1, <3>3, <3>7
    <3> QED
      BY <3>1, <3>5, <3>6, <3>7
  <2> QED
    BY <2>1, <2>2
<1>5. f = [q \in Trees |-> body(f, q)]
  BY <1>4
<1>6. rem = [q \in Trees |-> body(rem, q)]
  BY <1>5, Zenon
<1>7. \A q : remove_item(q, key) = rem[q]
  BY Zenon DEF remove_item
<1> HIDE DEF rem
<1>8. remove_item(p, key) = body(rem, p)
  BY <1>6, <1>7
<1>9. CASE p = NULL
  BY <1>8, <1>9
<1>10. CASE p # NULL
  <2>1. p \in Nodes /\ p.key \in Nat /\ key \in Nat
    BY <1>10, TreeNode, BstAssumption
  <2>2. /\ [p EXCEPT !.left = rem[p.left]] = Node(p.key, p.inumber, rem[p.left], p.right)
        /\ [p EXCEPT !.right = rem[p.right]] = Node(p.key, p.inumber, p.left, rem[p.right])
    BY <2>1, NodeExcept
  <2>3. CASE key < p.key
    BY <1>7, <1>8, <1>10, <2>1, <2>2, <2>3
  <2>4. CASE key > p.key
    BY <1>7, <1>8, <1>10, <2>1, <2>2, <2>4
  <2>5. CASE key = p.key
    BY <1>8, <1>10, <2>1, <2>5
  <2> QED
    BY <2>1, <2>3, <2>4, <2>5
<1> QED
  BY <1>9, <1>10

\* remove_item leaves a search tree without the entry of the key, and the very
\* same tree when there is none.
LEMMA RemoveTakes ==
  ASSUME NEW key \in Keys
  PROVE  \A p \in Trees : Ordered(p) =>
           /\ remove_item(p, key) \in AllTrees /\ Ordered(remove_item(p, key))
           /\ Entries[remove_item(p, key)] = Others(Entries[p], key)
           /\ (\A e \in Entries[p] : e[1] # key) => remove_item(p, key) = p
<1> DEFINE rem(p) == remove_item(p, key)
           takes(p) == /\ rem(p) \in AllTrees /\ Ordered(rem(p))
                       /\ Entries[rem(p)] = Others(Entries[p], key)
                       /\ (\A e \in Entries[p] : e[1] # key) => rem(p) = p
           S == {p \in Trees : Ordered(p) => takes(p)}
<1>1. NULL \in S
  BY TreesClosed, NullTree, RemoveUnfolds, EntriesUnfold, OrderedNode DEF Others
<1>2. ASSUME NEW p \in Trees, p # NULL, p.left \in S, p.right \in S PROVE p \in S
  <2> SUFFICES ASSUME Ordered(p) PROVE takes(p)
    OBVIOUS
  <2>1. /\ p.key \in Keys /\ p.key \in Nat /\ key \in Nat /\ p.inumber \in INumbers
        /\ Ordered(p.left) /\ Ordered(p.right)
        /\ Before(Entries[p.left], p.key) /\ After(Entries[p.right], p.key)
        /\ Entries[p] = Entries[p.left] \cup {<<p.key, p.inumber>>} \cup Entries[p.right]
        /\ p.left \in AllTrees /\ p.right \in AllTrees /\ p.left \in Trees /\ p.right \in Trees
        /\ p = Node(p.key, p.inumber, p.left, p.right)
    BY <1>2, TreeNode, BstAssumption
  <2>2. /\ \A e \in Entries[p.left] : e[1] \in Nat /\ e[1] < p.key
        /\ \A e \in Entries[p.right] : e[1] \in Nat /\ p.key < e[1]
    BY <2>1, EntriesType, BstAssumption DEF Before, After
  <2>3. takes(p.left) /\ takes(p.right)
    BY <1>2, <2>1
  <2>4. rem(p) = IF key < p.key THEN Node(p.key, p.inumber, rem(p.left), p.right)
                 ELSE IF key > p.key THEN Node(p.key, p.inumber, p.left, rem(p.right))
                 ELSE Unlink(p.left, p.right)
    BY <1>2, RemoveUnfolds
  <2> HIDE DEF rem
  <2>5. CASE key < p.key
    <3>1. Before(Entries[rem(p.left)], p.key)
      BY <2>1, <2>3 DEF Before, Others
    <3>2. rem(p) = Node(p.key, p.inumber, rem(p.left), p.right)
      BY <2>4, <2>5
    <3>3. rem(p.left) \in AllTrees /\ Ordered(rem(p.left))
      BY <2>3
    <3>4. /\ rem(p) \in Nodes /\ Ordered(rem(p))
          /\ Entries[rem(p)] = Entries[rem(p.left)] \cup {<<p.key, p.inumber>>} \cup Entries[p.right]
      BY <2>1, <3>1, <3>2, <3>3, NodeEntries
    <3>5. Others(Entries[p], key)
            = Others(Entries[p.left], key) \cup {<<p.key, p.inumber>>} \cup Entries[p.right]
      BY <2>1, <2>2, <2>5 DEF Others
    <3>6. (\A e \in Entries[p] : e[1] # key) => rem(p) = p
      BY <2>1, <2>3, <3>2
    <3> QED
      BY <2>3, <3>4, <3>5, <3>6 DEF Nodes
  <2>6. CASE key > p.key
    <3>1. After(Entries[rem(p.right)], p.key)
      BY <2>1, <2>3 DEF After, Others
    <3>2. rem(p) = Node(p.key, p.inumber, p.left, rem(p.right))
      BY <2>1, <2>4, <2>6
    <3>3. rem(p.right) \in AllTrees /\ Ordered(rem(p.right))
      BY <2>3
    <3>4. /\ rem(p) \in Nodes /\ Ordered(rem(p))
          /\ Entries[rem(p)] = Entries[p.left] \cup {<<p.key, p.inumber>>} \cup Entries[rem(p.right)]
      BY <2>1, <3>1, <3>2, <3>3, NodeEntries
    <3>5. Others(Entries[p], key)
            = Entries[p.left] \cup {<<p.key, p.inumber>>} \cup Others(Entries[p.right], key)
      BY <2>1, <2>2, <2>6 DEF Others
    <3>6. (\A e \in Entries[p] : e[1] # key) => rem(p) = p
      BY <2>1, <2>3, <3>2
    <3> QED
      BY <2>3, <3>4, <3>5, <3>6 DEF Nodes
  <2>7. CASE key = p.key
    <3>1. rem(p) = Unlink(p.left, p.right)
      BY <2>1, <2>4, <2>7
    <3>2. rem(p) \in AllTrees
      BY <2>1, <3>1, UnlinkType
    <3>3. Ordered(rem(p)) /\ Entries[rem(p)] = Entries[p.left] \cup Entries[p.right]
      BY <2>1, <3>1, UnlinkJoins
    <3>4. Others(Entries[p], key) = Entries[p.left] \cup Entries[p.right]
      BY <2>1, <2>2, <2>7 DEF Others
    <3>5. <<p.key, p.inumber>> \in Entries[p] /\ <<p.key, p.inumber>>[1] = key
      BY <2>1, <2>7
    <3> QED
      BY <3>2, <3>3, <3>4, <3>5
  <2> QED
    BY <2>1, <2>5, <2>6, <2>7
<1> HIDE DEF S
<1>3. Trees \subseteq S
  BY <1>1, <1>2, TreesSets
<1> QED
  BY <1>3 DEF S

-----------------------------------------------------------------------------
(***************************************************************************)
(* The order in which nodes are printed and freed.                         *)
(***************************************************************************)
Increasing(s) == \A i, j \in DOMAIN s : i < j => s[i][1] < s[j][1]

\* Sequences joined around, or before, one element.
LEMMA JoinAround ==
  ASSUME NEW T, NEW s \in Seq(T), NEW t \in Seq(T), NEW x \in T
  PROVE  LET u == s \o <<x>> \o t
         IN  /\ u \in Seq(T) /\ DOMAIN u = 1 .. Len(s) + Len(t) + 1
             /\ \A i \in 1 .. Len(s) : u[i] = s[i]
             /\ u[Len(s) + 1] = x
             /\ \A i \in 1 .. Len(t) : u[Len(s) + 1 + i] = t[i]
  OBVIOUS

LEMMA JoinBefore ==
  ASSUME NEW T, NEW s \in Seq(T), NEW t \in Seq(T), NEW x \in T
  PROVE  LET u == s \o t \o <<x>>
         IN  /\ u \in Seq(T) /\ DOMAIN u = 1 .. Len(s) + Len(t) + 1
             /\ \A i \in 1 .. Len(s) : u[i] = s[i]
             /\ \A i \in 1 .. Len(t) : u[Len(s) + i] = t[i]
             /\ u[Len(s) + Len(t) + 1] = x
  OBVIOUS

\* The place of an element of the second of two joined sequences.
LEMMA Offset ==
  \A m, n \in Nat : \A i \in 1 .. m + n + 1 : i > m + 1 => i - m - 1 \in 1 .. n /\ m + 1 + (i - m - 1) = i
  OBVIOUS

LEMMA OffsetIn ==
  \A m, n \in Nat : \A i \in 1 .. m + n + 1 :
    i \notin 1 .. m /\ i # m + n + 1 => i - m \in 1 .. n /\ m + (i - m) = i
  OBVIOUS

LEMMA SetAround ==
  ASSUME NEW T, NEW s \in Seq(T), NEW t \in Seq(T), NEW x \in T
  PROVE  ToSet(s \o <<x>> \o t) = ToSet(s) \cup {x} \cup ToSet(t)
<1>1. PICK u : u = s \o <<x>> \o t
  OBVIOUS
<1>2. /\ u \in Seq(T) /\ DOMAIN u = 1 .. Len(s) + Len(t) + 1
      /\ \A i \in 1 .. Len(s) : u[i] = s[i]
      /\ u[Len(s) + 1] = x
      /\ \A i \in 1 .. Len(t) : u[Len(s) + 1 + i] = t[i]
  BY <1>1, JoinAround
<1>3. Len(s) \in Nat /\ Len(t) \in Nat /\ DOMAIN s = 1 .. Len(s) /\ DOMAIN t = 1 .. Len(t)
  OBVIOUS
<1>4. ASSUME NEW i \in DOMAIN u PROVE u[i] \in ToSet(s) \cup {x} \cup ToSet(t)
  <2>1. CASE i <= Len(s)
    BY <1>2, <1>3, <2>1 DEF ToSet
  <2>2. CASE i = Len(s) + 1
    BY <1>2, <2>2
  <2>3. CASE i > Len(s) + 1
    <3>0. i \in 1 .. Len(s) + Len(t) + 1
      BY <1>2
    <3>1. i - Len(s) - 1 \in 1 .. Len(t) /\ Len(s) + 1 + (i - Len(s) - 1) = i
      BY <1>3, <2>3, <3>0
    <3>2. u[i] = t[i - Len(s) - 1]
      BY <1>2, <3>1
    <3> QED
      BY <1>3, <3>1, <3>2 DEF ToSet
  <2> QED
    BY <1>2, <1>3, <2>1, <2>2, <2>3
<1>5. ASSUME NEW i \in 1 .. Len(s) PROVE s[i] \in ToSet(u)
  <2>1. i \in DOMAIN u /\ u[i] = s[i]
    BY <1>2, <1>3
  <2> QED
    BY <2>1 DEF ToSet
<1>6. ASSUME NEW i \in 1 .. Len(t) PROVE t[i] \in ToSet(u)
  <2>1. Len(s) + 1 + i \in DOMAIN u /\ u[Len(s) + 1 + i] = t[i]
    BY <1>2, <1>3
  <2> QED
    BY <2>1 DEF ToSet
<1>7. x \in ToSet(u)
  <2>1. Len(s) + 1 \in DOMAIN u /\ u[Len(s) + 1] = x
    BY <1>2, <1>3
  <2> QED
    BY <2>1 DEF ToSet
<1>8. ToSet(u) \subseteq ToSet(s) \cup {x} \cup ToSet(t)
  BY <1>4 DEF ToSet
<1>9. ToSet(s) \subseteq ToSet(u) /\ ToSet(t) \subseteq ToSet(u)
  BY <1>3, <1>5, <1>6 DEF ToSet
<1> QED
  BY <1>1, <1>7, <1>8, <1>9

LEMMA SetBefore ==
  ASSUME NEW T, NEW s \in Seq(T), NEW t \in Seq(T), NEW x \in T
  PROVE  ToSet(s \o t \o <<x>>) = ToSet(s) \cup ToSet(t) \cup {x}
<1>1. PICK u : u = s \o t \o <<x>>
  OBVIOUS
<1>2. /\ u \in Seq(T) /\ DOMAIN u = 1 .. Len(s) + Len(t) + 1
      /\ \A i \in 1 .. Len(s) : u[i] = s[i]
      /\ \A i \in 1 .. Len(t) : u[Len(s) + i] = t[i]
      /\ u[Len(s) + Len(t) + 1] = x
  BY <1>1, JoinBefore
<1>3. Len(s) \in Nat /\ Len(t) \in Nat /\ DOMAIN s = 1 .. Len(s) /\ DOMAIN t = 1 .. Len(t)
  OBVIOUS
<1>4. ASSUME NEW i \in DOMAIN u PROVE u[i] \in ToSet(s) \cup ToSet(t) \cup {x}
  <2>1. CASE i <= Len(s)
    BY <1>2, <1>3, <2>1 DEF ToSet
  <2>2. CASE i = Len(s) + Len(t) + 1
    BY <1>2, <2>2
  <2>3. CASE i > Len(s) /\ i # Len(s) + Len(t) + 1
    <3>0. i \in 1 .. Len(s) + Len(t) + 1
      BY <1>2
    <3>1. i - Len(s) \in 1 .. Len(t) /\ Len(s) + (i - Len(s)) = i
      BY <1>3, <2>3, <3>0
    <3>2. u[i] = t[i - Len(s)]
      BY <1>2, <3>1
    <3> QED
      BY <1>3, <3>1, <3>2 DEF ToSet
  <2> QED
    BY <1>2, <1>3, <2>1, <2>2, <2>3
<1>5. ASSUME NEW i \in 1 .. Len(s) PROVE s[i] \in ToSet(u)
  <2>1. i \in DOMAIN u /\ u[i] = s[i]
    BY <1>2, <1>3
  <2> QED
    BY <2>1 DEF ToSet
<1>6. ASSUME NEW i \in 1 .. Len(t) PROVE t[i] \in ToSet(u)
  <2>1. Len(s) + i \in DOMAIN u /\ u[Len(s) + i] = t[i]
    BY <1>2, <1>3
  <2> QED
    BY <2>1 DEF ToSet
<1>7. x \in ToSet(u)
  <2>1. Len(s) + Len(t) + 1 \in DOMAIN u
    BY <1>2, <1>3
  <2> QED
    BY <1>2, <2>1 DEF ToSet
<1>8. ToSet(u) \subseteq ToSet(s) \cup ToSet(t) \cup {x}
  BY <1>4 DEF ToSet
<1>9. ToSet(s) \subseteq ToSet(u) /\ ToSet(t) \subseteq ToSet(u)
  BY <1>3, <1>5, <1>6 DEF ToSet
<1> QED
  BY <1>1, <1>7, <1>8, <1>9

LEMMA IncreasingAround ==
  ASSUME NEW s \in Seq(Keys \X INumbers), NEW t \in Seq(Keys \X INumbers), NEW x \in Keys \X INumbers,
         Increasing(s), Increasing(t), Before(ToSet(s), x[1]), After(ToSet(t), x[1])
  PROVE  Increasing(s \o <<x>> \o t)
<1> DEFINE T == Keys \X INumbers
<1>1. PICK u : u = s \o <<x>> \o t
  OBVIOUS
<1>2. /\ u \in Seq(T) /\ DOMAIN u = 1 .. Len(s) + Len(t) + 1
      /\ \A i \in 1 .. Len(s) : u[i] = s[i]
      /\ u[Len(s) + 1] = x
      /\ \A i \in 1 .. Len(t) : u[Len(s) + 1 + i] = t[i]
  BY <1>1, JoinAround
<1>3. Len(s) \in Nat /\ Len(t) \in Nat /\ DOMAIN s = 1 .. Len(s) /\ DOMAIN t = 1 .. Len(t)
  OBVIOUS
<1>4. x[1] \in Nat /\ \A i \in DOMAIN u : u[i][1] \in Nat
  <2>1. \A i \in DOMAIN u : u[i] \in T
    BY <1>2
  <2>2. \A e \in T : e[1] \in Nat
    BY BstAssumption
  <2> QED
    BY <2>1, <2>2
<1>5. ASSUME NEW i \in 1 .. Len(s) PROVE u[i][1] < x[1]
  <2>1. u[i] \in ToSet(s)
    BY <1>2, <1>3 DEF ToSet
  <2> QED
    BY <2>1 DEF Before
<1>6. ASSUME NEW i \in DOMAIN u, i > Len(s) + 1
      PROVE  i - Len(s) - 1 \in 1 .. Len(t) /\ u[i] = t[i - Len(s) - 1] /\ x[1] < u[i][1]
  <2>0. i \in 1 .. Len(s) + Len(t) + 1
    BY <1>2
  <2>1. i - Len(s) - 1 \in 1 .. Len(t) /\ Len(s) + 1 + (i - Len(s) - 1) = i
    BY <1>3, <1>6, <2>0, Offset
  <2>2. u[i] = t[i - Len(s) - 1]
    BY <1>2, <2>1
  <2>3. u[i] \in ToSet(t)
    BY <1>3, <2>1, <2>2 DEF ToSet
  <2> QED
    BY <2>1, <2>2, <2>3 DEF After
<1>7. ASSUME NEW i \in DOMAIN u, NEW j \in DOMAIN u, i < j PROVE u[i][1] < u[j][1]
  <2>1. i \in Nat /\ j \in Nat /\ i >= 1 /\ u[i][1] \in Nat /\ u[j][1] \in Nat
    BY <1>2, <1>4
  <2>2. CASE j <= Len(s)
    <3>1. i \in 1 .. Len(s) /\ j \in 1 .. Len(s)
      BY <1>3, <1>7, <2>1, <2>2
    <3>2. s[i][1] < s[j][1]
      BY <1>3, <1>7, <3>1 DEF Increasing
    <3> QED
      BY <1>2, <3>1, <3>2
  <2>3. CASE j = Len(s) + 1
    <3>1. i \in 1 .. Len(s)
      BY <1>3, <1>7, <2>1, <2>3
    <3> QED
      BY <1>2, <1>5, <2>3, <3>1
  <2>4. CASE j > Len(s) + 1
    <3>1. x[1] < u[j][1]
      BY <1>6, <2>4
    <3>2. CASE i <= Len(s)
      <4>1. u[i][1] < x[1]
        BY <1>3, <1>5, <2>1, <3>2
      <4> QED
        BY <1>4, <2>1, <3>1, <4>1
    <3>3. CASE i = Len(s) + 1
      BY <1>2, <3>1, <3>3
    <3>4. CASE i > Len(s) + 1
      <4>1. /\ i - Len(s) - 1 \in DOMAIN t /\ j - Len(s) - 1 \in DOMAIN t
            /\ i - Len(s) - 1 < j - Len(s) - 1
            /\ u[i] = t[i - Len(s) - 1] /\ u[j] = t[j - Len(s) - 1]
        BY <1>3, <1>6, <1>7, <2>1, <2>4, <3>4
      <4> QED
        BY <4>1 DEF Increasing
    <3> QED
      BY <1>3, <2>1, <3>2, <3>3, <3>4
  <2> QED
    BY <1>3, <2>1, <2>2, <2>3, <2>4
<1> QED
  BY <1>1, <1>7 DEF Increasing

LEMMA InjectiveBefore ==
  ASSUME NEW T, NEW s \in Seq(T), NEW t \in Seq(T), NEW x \in T,
         IsInjective(s), IsInjective(t), ToSet(s) \cap ToSet(t) = {}, x \notin ToSet(s), x \notin ToSet(t)
  PROVE  IsInjective(s \o t \o <<x>>)
<1>1. PICK u : u = s \o t \o <<x>>
  OBVIOUS
<1>2. /\ u \in Seq(T) /\ DOMAIN u = 1 .. Len(s) + Len(t) + 1
      /\ \A i \in 1 .. Len(s) : u[i] = s[i]
      /\ \A i \in 1 .. Len(t) : u[Len(s) + i] = t[i]
      /\ u[Len(s) + Len(t) + 1] = x
  BY <1>1, JoinBefore
<1>3. Len(s) \in Nat /\ Len(t) \in Nat /\ DOMAIN s = 1 .. Len(s) /\ DOMAIN t = 1 .. Len(t)
  OBVIOUS
<1>4. ASSUME NEW i \in 1 .. Len(s) PROVE i \in DOMAIN s /\ u[i] = s[i] /\ u[i] \in ToSet(s)
  BY <1>2, <1>3 DEF ToSet
<1>5. ASSUME NEW i \in DOMAIN u, i \notin 1 .. Len(s), i # Len(s) + Len(t) + 1
      PROVE  i - Len(s) \in DOMAIN t /\ u[i] = t[i - Len(s)] /\ u[i] \in ToSet(t)
  <2>1. i \in 1 .. Len(s) + Len(t) + 1
    BY <1>2
  <2>2. i - Len(s) \in 1 .. Len(t) /\ Len(s) + (i - Len(s)) = i
    BY <1>3, <1>5, <2>1, OffsetIn
  <2>3. u[i] = t[i - Len(s)]
    BY <1>2, <2>2
  <2> QED
    BY <1>3, <2>2, <2>3 DEF ToSet
<1>6. ASSUME NEW i \in DOMAIN u, NEW j \in DOMAIN u, u[i] = u[j] PROVE i = j
  <2>1. i \in Int /\ j \in Int
    BY <1>2
  <2>2. CASE i \in 1 .. Len(s)
    <3>1. j \in 1 .. Len(s)
      BY <1>2, <1>4, <1>5, <1>6, <2>2
    <3>2. i \in DOMAIN s /\ j \in DOMAIN s /\ s[i] = s[j]
      BY <1>4, <1>6, <2>2, <3>1
    <3> QED
      BY <3>2 DEF IsInjective
  <2>3. CASE i = Len(s) + Len(t) + 1
    BY <1>2, <1>4, <1>5, <1>6, <2>3
  <2>4. CASE i \notin 1 .. Len(s) /\ i # Len(s) + Len(t) + 1
    <3>1. i - Len(s) \in DOMAIN t /\ u[i] = t[i - Len(s)] /\ u[i] \in ToSet(t)
      BY <1>5, <2>4
    <3>2. j \notin 1 .. Len(s) /\ j # Len(s) + Len(t) + 1
      BY <1>2, <1>4, <1>6, <3>1
    <3>3. j - Len(s) \in DOMAIN t /\ u[j] = t[j - Len(s)]
      BY <1>5, <3>2
    <3>4. i - Len(s) = j - Len(s)
      BY <1>6, <3>1, <3>3 DEF IsInjective
    <3> QED
      BY <1>3, <2>1, <3>4
  <2> QED
    BY <2>2, <2>3, <2>4
<1> QED
  BY <1>1, <1>6 DEF IsInjective

\* print_tree writes the entries of a search tree in the order of their keys.
LEMMA PrintInOrder ==
  \A p \in Trees : Ordered(p) =>
    /\ print_tree(p) \in Seq(Keys \X INumbers)
    /\ ToSet(print_tree(p)) = Entries[p] /\ Increasing(print_tree(p))
<1> DEFINE prints(p) == /\ print_tree(p) \in Seq(Keys \X INumbers)
                        /\ ToSet(print_tree(p)) = Entries[p] /\ Increasing(print_tree(p))
           S == {p \in Trees : Ordered(p) => prints(p)}
<1>1. NULL \in S
  <2>1. NULL \in Trees /\ print_tree(NULL) = <<>> /\ Entries[NULL] = {}
    BY TreesClosed, PrintUnfolds, EntriesUnfold
  <2> QED
    BY <2>1 DEF ToSet, Increasing
<1>2. ASSUME NEW p \in Trees, p # NULL, p.left \in S, p.right \in S PROVE p \in S
  <2> SUFFICES ASSUME Ordered(p) PROVE prints(p)
    OBVIOUS
  <2>1. /\ p.key \in Keys /\ p.inumber \in INumbers /\ Ordered(p.left) /\ Ordered(p.right)
        /\ Before(Entries[p.left], p.key) /\ After(Entries[p.right], p.key)
        /\ Entries[p] = Entries[p.left] \cup {<<p.key, p.inumber>>} \cup Entries[p.right]
    BY <1>2, TreeNode
  <2>2. PICK s, t, x : s = print_tree(p.left) /\ t = print_tree(p.right) /\ x = <<p.key, p.inumber>>
    OBVIOUS
  <2>3. /\ s \in Seq(Keys \X INumbers) /\ ToSet(s) = Entries[p.left] /\ Increasing(s)
        /\ t \in Seq(Keys \X INumbers) /\ ToSet(t) = Entries[p.right] /\ Increasing(t)
        /\ x \in Keys \X INumbers /\ x[1] = p.key
    BY <1>2, <2>1, <2>2
  <2>4. print_tree(p) = s \o <<x>> \o t
    BY <1>2, <2>2, PrintUnfolds
  <2>5. s \o <<x>> \o t \in Seq(Keys \X INumbers)
    BY <2>3
  <2>6. ToSet(s \o <<x>> \o t) = ToSet(s) \cup {x} \cup ToSet(t)
    BY <2>3, SetAround
  <2>7. Increasing(s \o <<x>> \o t)
    BY <2>1, <2>3, IncreasingAround
  <2> QED
    BY <2>1, <2>2, <2>3, <2>4, <2>5, <2>6, <2>7
<1> HIDE DEF S
<1>3. Trees \subseteq S
  BY <1>1, <1>2, TreesSets
<1> QED
  BY <1>3 DEF S

KeysOf(E) == {e[1] : e \in E}

\* free_tree frees every node of a search tree once.
LEMMA FreeOnce ==
  \A p \in Trees : Ordered(p) =>
    /\ free_tree(p) \in Seq(Keys)
    /\ ToSet(free_tree(p)) = KeysOf(Entries[p]) /\ IsInjective(free_tree(p))
<1> DEFINE frees(p) == /\ free_tree(p) \in Seq(Keys)
                       /\ ToSet(free_tree(p)) = KeysOf(Entries[p]) /\ IsInjective(free_tree(p))
           S == {p \in Trees : Ordered(p) => frees(p)}
<1>1. NULL \in S
  <2>1. NULL \in Trees /\ free_tree(NULL) = <<>> /\ Entries[NULL] = {}
    BY TreesClosed, FreeUnfolds, EntriesUnfold
  <2> QED
    BY <2>1 DEF ToSet, IsInjective, KeysOf
<1>2. ASSUME NEW p \in Trees, p # NULL, p.left \in S, p.right \in S PROVE p \in S
  <2> SUFFICES ASSUME Ordered(p) PROVE frees(p)
    OBVIOUS
  <2>1. /\ p.key \in Keys /\ p.key \in Nat /\ Ordered(p.left) /\ Ordered(p.right)
        /\ Before(Entries[p.left], p.key) /\ After(Entries[p.right], p.key)
        /\ Entries[p] = Entries[p.left] \cup {<<p.key, p.inumber>>} \cup Entries[p.right]
        /\ p.left \in AllTrees /\ p.right \in AllTrees
    BY <1>2, TreeNode
  <2>2. PICK s, t, x : s = free_tree(p.left) /\ t = free_tree(p.right) /\ x = p.key
    OBVIOUS
  <2>3. /\ s \in Seq(Keys) /\ ToSet(s) = KeysOf(Entries[p.left]) /\ IsInjective(s)
        /\ t \in Seq(Keys) /\ ToSet(t) = KeysOf(Entries[p.right]) /\ IsInjective(t)
        /\ x \in Keys
    BY <1>2, <2>1, <2>2
  <2>4. free_tree(p) = s \o t \o <<x>>
    BY <1>2, <2>2, FreeUnfolds
  <2>5. s \o t \o <<x>> \in Seq(Keys)
    BY <2>3
  <2>6. ToSet(s \o t \o <<x>>) = ToSet(s) \cup ToSet(t) \cup {x}
    BY <2>3, SetBefore
  <2>7. /\ \A k \in ToSet(s) : k \in Nat /\ k < x
        /\ \A k \in ToSet(t) : k \in Nat /\ x < k
    BY <2>1, <2>2, <2>3, EntriesType, BstAssumption DEF KeysOf, Before, After
  <2>8. ToSet(s) \cap ToSet(t) = {} /\ x \notin ToSet(s) /\ x \notin ToSet(t)
    BY <2>1, <2>2, <2>7
  <2>9. IsInjective(s \o t \o <<x>>)
    BY <2>3, <2>8, InjectiveBefore
  <2>10. KeysOf(Entries[p]) = KeysOf(Entries[p.left]) \cup {x} \cup KeysOf(Entries[p.right])
    <3>1. <<p.key, p.inumber>>[1] = x
      BY <2>2
    <3> QED
      BY <2>1, <3>1 DEF KeysOf
  <2> QED
    BY <2>3, <2>4, <2>5, <2>6, <2>9, <2>10
<1> HIDE DEF S
<1>3. Trees \subseteq S
  BY <1>1, <1>2, TreesSets
<1> QED
  BY <1>3 DEF S

\* Overwriting the i-number of a key leaves every node where it is.
LEMMA InsertKeepsOrder ==
  ASSUME NEW key \in Keys, NEW inumber \in INumbers
  PROVE  \A p \in Trees : Ordered(p) /\ (\E e \in Entries[p] : e[1] = key) =>
           free_tree(insert(p, key, inumber)) = free_tree(p)
<1> DEFINE ins(p) == insert(p, key, inumber)
           S == {p \in Trees : Ordered(p) /\ (\E e \in Entries[p] : e[1] = key)
                               => free_tree(ins(p)) = free_tree(p)}
<1>1. NULL \in S
  BY TreesClosed, EntriesUnfold
<1>2. ASSUME NEW p \in Trees, p # NULL, p.left \in S, p.right \in S PROVE p \in S
  <2> SUFFICES ASSUME Ordered(p), \E e \in Entries[p] : e[1] = key PROVE free_tree(ins(p)) = free_tree(p)
    OBVIOUS
  <2>1. /\ p.key \in Keys /\ p.key \in Nat /\ key \in Nat /\ Ordered(p.left) /\ Ordered(p.right)
        /\ Before(Entries[p.left], p.key) /\ After(Entries[p.right], p.key)
        /\ Entries[p] = Entries[p.left] \cup {<<p.key, p.inumber>>} \cup Entries[p.right]
        /\ p.left \in AllTrees /\ p.right \in AllTrees
    BY <1>2, TreeNode, BstAssumption
  <2>2. /\ \A e \in Entries[p.left] : e[1] \in Nat /\ e[1] < p.key
        /\ \A e \in Entries[p.right] : e[1] \in Nat /\ p.key < e[1]
    BY <2>1, EntriesType, BstAssumption DEF Before, After
  <2>3. ins(p) = IF key < p.key THEN Node(p.key, p.inumber, ins(p.left), p.right)
                 ELSE IF key > p.key THEN Node(p.key, p.inumber, p.left, ins(p.right))
                 ELSE Node(p.key, inumber, p.left, p.right)
    BY <1>2, InsertUnfolds
  <2>4. PICK q : q = ins(p)
    OBVIOUS
  <2>5. q \in Trees
    BY <1>2, <2>4, InsertPuts, OrderedFits
  <2>6. q # NULL /\ \E e \in Entries[q] : e[1] = key
    <3>1. <<key, inumber>> \in Entries[q] /\ <<key, inumber>>[1] = key
      BY <1>2, <2>4, InsertPuts
    <3>2. Entries[NULL] = {}
      BY EntriesUnfold
    <3> QED
      BY <3>1, <3>2
  <2>7. free_tree(q) = free_tree(q.left) \o free_tree(q.right) \o <<q.key>>
    BY <2>5, <2>6, FreeUnfolds
  <2>8. free_tree(p) = free_tree(p.left) \o free_tree(p.right) \o <<p.key>>
    BY <1>2, FreeUnfolds
  <2>9. CASE key < p.key
    <3>1. q.key = p.key /\ q.left = ins(p.left) /\ q.right = p.right
      BY <2>3, <2>4, <2>9, NodeFields
    <3>2. \E e \in Entries[p.left] : e[1] = key
      BY <2>1, <2>2, <2>9
    <3>3. free_tree(ins(p.left)) = free_tree(p.left)
      BY <1>2, <2>1, <3>2
    <3> QED
      BY <2>4, <2>7, <2>8, <3>1, <3>3
  <2>10. CASE key > p.key
    <3>1. q.key = p.key /\ q.left = p.left /\ q.right = ins(p.right)
      BY <2>1, <2>3, <2>4, <2>10, NodeFields
    <3>2. \E e \in Entries[p.right] : e[1] = key
      BY <2>1, <2>2, <2>10
    <3>3. free_tree(ins(p.right)) = free_tree(p.right)
      BY <1>2, <2>1, <3>2
    <3> QED
      BY <2>4, <2>7, <2>8, <3>1, <3>3
  <2>11. CASE key = p.key
    <3>1. q.key = p.key /\ q.left = p.left /\ q.right = p.right
      BY <2>1, <2>3, <2>4, <2>11, NodeFields
    <3> QED
      BY <2>4, <2>7, <2>8, <3>1
  <2> QED
    BY <2>1, <2>9, <2>10, <2>11
<1> HIDE DEF S
<1>3. Trees \subseteq S
  BY <1>1, <1>2, TreesSets
<1> QED
  BY <1>3 DEF S

-----------------------------------------------------------------------------
(***************************************************************************)
(* The program.                                                            *)
(***************************************************************************)
\* The tree is a search tree of the entries of the map.  That it is ordered is
\* what an insertion or a removal needs to find its place.
Stands ==
  /\ tree \in Trees /\ Ordered(tree)
  /\ DOMAIN map \subseteq Keys
  /\ \A k \in DOMAIN map : map[k] \in INumbers
  /\ Entries[tree] = {<<k, map[k]>> : k \in DOMAIN map}

LEMMA InitStands == Init => Stands
<1> SUFFICES ASSUME Init PROVE Stands
  OBVIOUS
<1>1. tree = NULL /\ DOMAIN map = {}
  BY DEF Init
<1> QED
  BY <1>1, TreesClosed, OrderedNode, EntriesUnfold DEF Stands

LEMMA PutStands ==
  ASSUME Stands, NEW k \in Keys, NEW i \in INumbers, Put(k, i)
  PROVE  Stands'
<1>1. PICK t : t = insert(tree, k, i)
  OBVIOUS
<1>2. t \in Trees /\ Ordered(t) /\ Entries[t] = Others(Entries[tree], k) \cup {<<k, i>>}
  BY <1>1, InsertPuts, OrderedFits DEF Stands
<1>3. /\ DOMAIN map' = DOMAIN map \cup {k} /\ map'[k] = i
      /\ \A x \in DOMAIN map : x # k => map'[x] = map[x]
  BY DEF Put
<1>4. Entries[t] = {<<x, map'[x]>> : x \in DOMAIN map'}
  <2>1. Others(Entries[tree], k) = {<<x, map[x]>> : x \in DOMAIN map \ {k}}
    BY DEF Stands, Others
  <2>2. {<<x, map'[x]>> : x \in DOMAIN map'} = {<<x, map'[x]>> : x \in DOMAIN map \ {k}} \cup {<<k, i>>}
    BY <1>3
  <2>3. {<<x, map'[x]>> : x \in DOMAIN map \ {k}} = {<<x, map[x]>> : x \in DOMAIN map \ {k}}
    BY <1>3
  <2> QED
    BY <1>2, <2>1, <2>2, <2>3
<1>5. tree' = t
  BY <1>1 DEF Put
<1> QED
  BY <1>2, <1>3, <1>4, <1>5 DEF Stands, Ordered

LEMMA TakeStands ==
  ASSUME Stands, NEW k \in Keys, Take(k)
  PROVE  Stands'
<1>1. PICK t : t = remove_item(tree, k)
  OBVIOUS
<1>2. t \in Trees /\ Ordered(t) /\ Entries[t] = Others(Entries[tree], k)
  BY <1>1, RemoveTakes, OrderedFits DEF Stands
<1>3. /\ DOMAIN map' = DOMAIN map \ {k}
      /\ \A x \in DOMAIN map' : map'[x] = map[x]
  BY DEF Take
<1>4. Entries[t] = {<<x, map'[x]>> : x \in DOMAIN map'}
  <2>1. Others(Entries[tree], k) = {<<x, map[x]>> : x \in DOMAIN map \ {k}}
    BY DEF Stands, Others
  <2>2. {<<x, map'[x]>> : x \in DOMAIN map'} = {<<x, map[x]>> : x \in DOMAIN map \ {k}}
    BY <1>3
  <2> QED
    BY <1>2, <2>1, <2>2
<1>5. tree' = t
  BY <1>1 DEF Take
<1> QED
  BY <1>2, <1>3, <1>4, <1>5 DEF Stands, Ordered

LEMMA StepStands == Stands /\ [Next]_vars => Stands'
<1> SUFFICES ASSUME Stands, [Next]_vars PROVE Stands'
  OBVIOUS
<1>1. ASSUME NEW k \in Keys, NEW i \in INumbers, Put(k, i) PROVE Stands'
  BY <1>1, PutStands
<1>2. ASSUME NEW k \in Keys, Take(k) PROVE Stands'
  BY <1>2, TakeStands
<1>3. CASE UNCHANGED vars
  BY <1>3 DEF vars, Stands, Ordered
<1> QED
  BY <1>1, <1>2, <1>3 DEF Next

LEMMA TreeStands == Spec => []Stands
  BY InitStands, StepStands, PTL DEF Spec

\* Whatever is inserted and removed, the tree holds what was stored, once each
\* and in order, and is no higher than there are keys.
THEOREM BstRepresents == Spec => []Represents
<1>1. Stands => Represents
  <2> SUFFICES ASSUME Stands PROVE Represents
    OBVIOUS
  <2>1. ToSet(print_tree(tree)) = Entries[tree] /\ Increasing(print_tree(tree))
    BY PrintInOrder DEF Stands
  <2> QED
    BY <2>1 DEF Represents, Stands, Increasing
<1> QED
  BY <1>1, TreeStands, PTL

\* A search answers what was last stored under a key, or NULL.
THEOREM BstSearchFindsLast == Spec => []SearchFindsLast
<1>1. Stands => SearchFindsLast
  <2> SUFFICES ASSUME Stands, NEW k \in Keys
               PROVE  IF k \in DOMAIN map THEN search(tree, k).inumber = map[k] ELSE search(tree, k) = NULL
    BY DEF SearchFindsLast
  <2>1. /\ search(tree, k) = NULL => \A e \in Entries[tree] : e[1] # k
        /\ search(tree, k) # NULL => <<k, search(tree, k).inumber>> \in Entries[tree]
    BY SearchFinds DEF Stands
  <2>2. \A x, y : <<x, y>> \in Entries[tree] <=> x \in DOMAIN map /\ y = map[x]
    BY DEF Stands
  <2>3. CASE search(tree, k) = NULL
    <3>1. k \notin DOMAIN map
      <4> SUFFICES ASSUME k \in DOMAIN map PROVE FALSE
        OBVIOUS
      <4>1. <<k, map[k]>> \in Entries[tree] /\ <<k, map[k]>>[1] = k
        BY <2>2
      <4> QED
        BY <2>1, <2>3, <4>1
    <3> QED
      BY <2>3, <3>1
  <2>4. CASE search(tree, k) # NULL
    BY <2>1, <2>2, <2>4
  <2> QED
    BY <2>3, <2>4
<1> QED
  BY <1>1, TreeStands, PTL

\* Destroying the tree frees each of its nodes once and nothing else.
THEOREM BstFreedOnce == Spec => []FreedOnce
<1>1. Stands => FreedOnce
  <2> SUFFICES ASSUME Stands PROVE FreedOnce
    OBVIOUS
  <2>1. ToSet(free_tree(tree)) = KeysOf(Entries[tree]) /\ IsInjective(free_tree(tree))
    BY FreeOnce DEF Stands
  <2>2. KeysOf(Entries[tree]) = DOMAIN map
    <3>1. \A k \in DOMAIN map : <<k, map[k]>> \in Entries[tree] /\ <<k, map[k]>>[1] = k
      BY DEF Stands
    <3>2. \A e \in Entries[tree] : e[1] \in DOMAIN map
      BY DEF Stands
    <3>3. DOMAIN map \subseteq KeysOf(Entries[tree])
      BY <3>1 DEF KeysOf
    <3> QED
      BY <3>2, <3>3 DEF KeysOf
  <2> QED
    BY <2>1, <2>2 DEF FreedOnce
<1> QED
  BY <1>1, TreeStands, PTL

\* Storing under a key that is present and removing one that is absent move no
\* node of the tree.
THEOREM BstReinsertKeepsShape == Spec => ReinsertKeepsShape
<1>1. Stands /\ [Next]_vars => [DOMAIN map' = DOMAIN map => free_tree(tree') = free_tree(tree)]_vars
  <2> SUFFICES ASSUME Stands, Next, DOMAIN map' = DOMAIN map PROVE free_tree(tree') = free_tree(tree)
    BY DEF vars
  <2>1. ASSUME NEW k \in Keys, NEW i \in INumbers, Put(k, i) PROVE free_tree(tree') = free_tree(tree)
    <3>1. k \in DOMAIN map
      BY <2>1 DEF Put
    <3>2. <<k, map[k]>> \in Entries[tree] /\ <<k, map[k]>>[1] = k
      BY <3>1 DEF Stands
    <3>3. free_tree(insert(tree, k, i)) = free_tree(tree)
      BY <3>2, InsertKeepsOrder DEF Stands
    <3>4. tree' = insert(tree, k, i)
      BY <2>1 DEF Put
    <3> QED
      BY <3>3, <3>4
  <2>2. ASSUME NEW k \in Keys, Take(k) PROVE free_tree(tree') = free_tree(tree)
    <3>1. k \notin DOMAIN map
      BY <2>2 DEF Take
    <3>2. \A e \in Entries[tree] : e[1] # k
      BY <3>1 DEF Stands
    <3>3. remove_item(tree, k) = tree
      BY <3>2, RemoveTakes DEF Stands
    <3>4. tree' = remove_item(tree, k)
      BY <2>2 DEF Take
    <3> QED
      BY <3>3, <3>4
  <2> QED
    BY <2>1, <2>2 DEF Next
<1> QED
  BY <1>1, TreeStands, PTL DEF Spec, ReinsertKeepsShape
=============================================================================
