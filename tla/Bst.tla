-------------------------------- MODULE Bst --------------------------------
(***************************************************************************)
(* The binary search tree every delivery of TecnicoFS keeps its directory  *)
(* in (Operating Systems/proj2/lib/bst.c; proj1 and proj3 carry the same   *)
(* algorithms), and a single thread that inserts into it and removes from  *)
(* it.  A key is its rank in the order of strcmp.  A recursive function of *)
(* C is a recursive function on trees; a tree whose keys differ is no      *)
(* higher than there are keys, so that Trees holds every one of them.      *)
(***************************************************************************)
EXTENDS Integers, Sequences, SequencesExt, FiniteSets

CONSTANTS Keys,      \* the keys, by their rank; names have at most MAX_INPUT_SIZE characters
          INumbers   \* the i-numbers stored with them

ASSUME BstAssumption == Keys \subseteq Nat /\ INumbers \subseteq Nat /\ IsFiniteSet(Keys)

\* The null pointer is a record too, so that trees can be compared.
NULL == [key |-> -1]
new_node(key, inumber) == [key |-> key, inumber |-> inumber, left |-> NULL, right |-> NULL]

\* The trees of height h or less.
TreesOf[h \in Nat] ==
  IF h = 0 THEN {NULL}
  ELSE LET Subtrees == TreesOf[h - 1]
       IN  {NULL} \cup [key : Keys, inumber : INumbers, left : Subtrees, right : Subtrees]
Trees == TreesOf[Cardinality(Keys)]

search(p, key) ==
  LET find[q \in Trees] ==
        IF q = NULL \/ q.key = key THEN q
        ELSE IF key < q.key THEN find[q.left] ELSE find[q.right]
  IN  find[p]

\* Faults: a key that is present keeps its old i-number, or loses its subtrees.
insertOnce(p, key, inumber) ==
  LET ins[q \in Trees] ==
        IF q = NULL THEN new_node(key, inumber)
        ELSE CASE key < q.key -> [q EXCEPT !.left = ins[q.left]]
               [] key > q.key -> [q EXCEPT !.right = ins[q.right]]
               [] OTHER       -> q
  IN  ins[p]
insertAnew(p, key, inumber) ==
  LET ins[q \in Trees] ==
        IF q = NULL THEN new_node(key, inumber)
        ELSE CASE key < q.key -> [q EXCEPT !.left = ins[q.left]]
               [] key > q.key -> [q EXCEPT !.right = ins[q.right]]
               [] OTHER       -> new_node(key, inumber)
  IN  ins[p]

insert(p, key, inumber) ==
  LET ins[q \in Trees] ==
        IF q = NULL THEN new_node(key, inumber)
        ELSE CASE key < q.key -> [q EXCEPT !.left = ins[q.left]]
               [] key > q.key -> [q EXCEPT !.right = ins[q.right]]
               [] OTHER       -> [q EXCEPT !.inumber = inumber]
  IN  ins[p]

\* Called on a node, never on NULL.
find_min(p) ==
  LET least[q \in Trees \ {NULL}] == IF q.left # NULL THEN least[q.left] ELSE q
  IN  least[p]

remove_min(p) ==
  LET rest[q \in Trees \ {NULL}] == IF q.left = NULL THEN q.right
                                    ELSE [q EXCEPT !.left = rest[q.left]]
  IN  rest[p]

\* Fault: the node that moves up keeps its own right subtree.
UnlinkForgetsRight(l, r) == IF r = NULL THEN l ELSE [find_min(r) EXCEPT !.left = l]

\* A node with a right child is replaced by the smallest node of its right
\* subtree, a node without one by its left subtree.
Unlink(l, r) == IF r = NULL THEN l
                ELSE [find_min(r) EXCEPT !.right = remove_min(r), !.left = l]

remove_item(p, key) ==
  LET rem[q \in Trees] ==
        IF q = NULL THEN NULL
        ELSE CASE key < q.key -> [q EXCEPT !.left = rem[q.left]]
               [] key > q.key -> [q EXCEPT !.right = rem[q.right]]
               [] OTHER       -> Unlink(q.left, q.right)
  IN  rem[p]

\* The order in which print_tree writes the nodes.
print_tree(p) ==
  LET out[q \in Trees] ==
        IF q = NULL THEN <<>>
        ELSE out[q.left] \o << <<q.key, q.inumber>> >> \o out[q.right]
  IN  out[p]

\* Fault: the left subtree is freed twice, the right one never.
free_left(p) ==
  LET freed[q \in Trees] ==
        IF q = NULL THEN <<>> ELSE freed[q.left] \o freed[q.left] \o <<q.key>>
  IN  freed[p]

\* The pointers that free_tree passes to free, children before parents.
free_tree(p) ==
  LET freed[q \in Trees] ==
        IF q = NULL THEN <<>> ELSE freed[q.left] \o freed[q.right] \o <<q.key>>
  IN  freed[p]
-----------------------------------------------------------------------------
VARIABLES tree,   \* the root
          map     \* what the tree stands for: a function from keys to i-numbers

vars == <<tree, map>>

Init == tree = NULL /\ map = <<>>

Put(k, i) == /\ tree' = insert(tree, k, i)
             /\ map' = [x \in DOMAIN map \cup {k} |-> IF x = k THEN i ELSE map[x]]

Take(k) == /\ tree' = remove_item(tree, k)
           /\ map' = [x \in DOMAIN map \ {k} |-> map[x]]

Next == \E k \in Keys : Take(k) \/ \E i \in INumbers : Put(k, i)

Spec == Init /\ [][Next]_vars
-----------------------------------------------------------------------------
\* The tree holds exactly the entries of the map, and print_tree writes them
\* once each in the order of their keys: no insertion or removal loses,
\* repeats or misplaces a node, whatever the shape of the tree, or makes it
\* higher than there are keys.
Represents ==
  /\ tree \in Trees
  /\ ToSet(print_tree(tree)) = {<<k, map[k]>> : k \in DOMAIN map}
  /\ \A i, j \in DOMAIN print_tree(tree) : i < j => print_tree(tree)[i][1] < print_tree(tree)[j][1]

\* A search finds the i-number last stored under a key, and nothing for a
\* key that was removed.
SearchFindsLast ==
  \A k \in Keys : IF k \in DOMAIN map THEN search(tree, k).inumber = map[k]
                                      ELSE search(tree, k) = NULL

\* Destroying the tree frees every node once.
FreedOnce ==
  /\ ToSet(free_tree(tree)) = DOMAIN map
  /\ IsInjective(free_tree(tree))

\* Inserting a key that is present and removing one that is absent move no
\* node.  The keys in the order in which free_tree comes to them determine the
\* shape of a search tree.
ReinsertKeepsShape ==
  [][DOMAIN map' = DOMAIN map => free_tree(tree') = free_tree(tree)]_vars
=============================================================================
