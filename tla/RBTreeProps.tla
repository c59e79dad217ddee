----------------------------- MODULE RBTreeProps -----------------------------
(***************************************************************************)
(* What the trees of RBTree promise: an ordered set, in a tree that is red *)
(* and black as it should be but for the one place the running loop works  *)
(* at, and the walks of rb_first, rb_last, rb_next and rb_prev through it. *)
(***************************************************************************)
EXTENDS RBTree, SequencesExt

Members == {n \in Nodes : InTree(n)}

\* In the order of the keys, a comes on side d of b.
Before(d, a, b) == IF d = "left" THEN Key[a] < Key[b] ELSE Key[b] < Key[a]

\* rb_first (d = "left") and rb_last (d = "right"), and the second half of
\* rb_prev and rb_next: down on one side as far as it goes.
Down(n, d) ==
  LET go[x \in Nodes] == IF t[d][x] = NULL THEN x ELSE go[t[d][x]]
  IN  go[n]
FirstNode(d) == IF t.root = NULL THEN NULL ELSE Down(t.root, d)

\* The climb of rb_next (d = "right") and of rb_prev (d = "left").
Climb(n, d) ==
  LET go[x \in Nodes] ==
        IF t.parent[x] # NULL /\ x = t[d][t.parent[x]] THEN go[t.parent[x]] ELSE t.parent[x]
  IN  go[n]

\* Mutant of NextNode: only the parent is asked, not those above it.
NextOrParent(n, d) ==
  IF t[d][n] # NULL THEN Down(t[d][n], Opp(d)) ELSE t.parent[n]

\* rb_next (d = "right") and rb_prev (d = "left") of a node in the tree.
NextNode(n, d) == IF t[d][n] # NULL THEN Down(t[d][n], Opp(d)) ELSE Climb(n, d)

-----------------------------------------------------------------------------

\* Types.
TypeOK ==
  /\ t \in [root : Nodes \cup {NULL}, left : [Nodes -> Nodes \cup {NULL}],
            right : [Nodes -> Nodes \cup {NULL}], parent : [Nodes -> Nodes \cup {NULL}],
            color : [Nodes -> {"red", "black"}]]
  /\ pc \in {"idle", "insert", "erase"}
  /\ node \in IF pc = "insert" THEN Nodes ELSE Nodes \cup {NULL}
  /\ parent \in Nodes \cup {NULL}

\* rbtree.c:29, 161, 222, 372: the child and the parent pointers agree, whatever
\* loop is at work: the root has no parent, each child knows its parent, each node
\* is a child of its parent, and no nodes hang on one another in a ring or on a
\* node that left the tree, so that every node with a parent is below the root.
PointersAgree ==
  /\ TypeOK
  /\ t.root # NULL => t.parent[t.root] = NULL
  /\ \A n \in Nodes, d \in Sides : t[d][n] # NULL => t.parent[t[d][n]] = n
  /\ \A n \in Nodes : t.parent[n] # NULL =>
       InTree(t.parent[n]) /\ n \in {t.left[t.parent[n]], t.right[t.parent[n]]}
  /\ \A S \in SUBSET Members : S # {} => \E n \in S : t.parent[n] \notin S

\* No red node has a red parent and the root is black, except where the loop
\* stands: an insertion may leave its node red under a red parent, an erasure
\* its node red, which will be black when it is done.
RedRule ==
  \A n \in Nodes :
    IsRed(t, n) /\ (n = t.root \/ IsRed(t, t.parent[n])) =>
      \/ pc # "idle" /\ n = node
      \/ pc = "erase" /\ node # NULL /\ t.parent[n] = node

\* The black an erasure still owes to the paths through node.
Owed(n, d) == IF pc = "erase" /\ node # t.root /\ n = parent /\ d = Short THEN 1 ELSE 0

\* The black nodes on the leftmost path down from each node, with what is owed.
Height ==
  LET h[n \in Nodes] == (IF IsBlack(t, n) THEN 1 ELSE 0) + Owed(n, "left")
                         + (IF t.left[n] = NULL THEN 0 ELSE h[t.left[n]])
  IN  h

\* Both subtrees of every node have as many black nodes on each path down, once
\* the black that the running erasure owes to one subtree is counted in.
BlackBalanced ==
  \A n \in Nodes, d \in Sides :
    Height[n] = (IF IsBlack(t, n) THEN 1 ELSE 0) + Owed(n, d)
                + (IF t[d][n] = NULL THEN 0 ELSE Height[t[d][n]])

\* rbtree.c:79, 146: a red-black tree at every moment, but for that one place; so
\* no tree at rest is higher than twice the logarithm of its size.
RedBlack == RedRule /\ BlackBalanced

\* rbtree.c:292, 305, 318, 347: rb_first is the node of the least key and rb_last
\* that of the greatest; rb_next leads from each node to the one with the next key,
\* rb_prev back, and both end with NULL.
WalksInOrder ==
  \A d \in Sides :
    /\ IF Members = {} THEN FirstNode(d) = NULL
       ELSE FirstNode(d) \in Members /\ \A m \in Members \ {FirstNode(d)} : Before(d, FirstNode(d), m)
    /\ \A n \in Members :
         LET Further == {m \in Members : Before(d, m, n)}
             next == NextNode(n, d)
         IN  IF Further = {} THEN next = NULL
             ELSE next \in Further /\ \A m \in Further \ {next} : Before(d, m, next)

\* The nodes of a tree in its order: those of the left subtree, the node, those of
\* the right one.
InOrder(u) ==
  LET of[n \in Nodes] == (IF u.left[n] = NULL THEN <<>> ELSE of[u.left[n]]) \o <<n>>
                         \o (IF u.right[n] = NULL THEN <<>> ELSE of[u.right[n]])
  IN  IF u.root = NULL THEN <<>> ELSE of[u.root]

\* The tree is an ordered set: each insertion adds its node at the place of
\* its key, each erasure and replacement does what it says, at once, and the
\* rebalancing steps that follow change nothing for the user.
Set == INSTANCE OrderedSet WITH seq <- InOrder(t)
IsOrderedSet == Set!Spec

\* Every insertion and every deletion returns.
CallsReturn == pc # "idle" ~> pc = "idle"

=============================================================================
