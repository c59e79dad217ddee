------------------------------- MODULE RBShape -------------------------------
(*****************************************************************************)
(* The form of the trees of RBTree: what the assignments of each function    *)
(* of rbtree.c do to the pointers, to the set of nodes of each subtree and   *)
(* to their order, what the descents through such a tree find, and what each *)
(* step of rb_insert_color and __rb_erase_color does to the black nodes on   *)
(* each path and to the red nodes that stand where they should not, for      *)
(* every finite set of nodes with any keys.                                  *)
(*****************************************************************************)
EXTENDS RBTreeProps, FiniteSetTheorems, WellFoundedInduction, TLAPS

\* A node or NULL.
N0 == Nodes \cup {NULL}

\* The types of the root and the fields.
Trees == [root : N0, left : [Nodes -> N0], right : [Nodes -> N0], parent : [Nodes -> N0],
          color : [Nodes -> {"red", "black"}]]

-----------------------------------------------------------------------------
(* Finite sets, and functions defined by a descent                         *)

\* A set of sets of nodes has a member that holds no other.
LEMMA LeastSet ==
  ASSUME FiniteNodes, NEW G \in SUBSET SUBSET Nodes, G # {}
  PROVE  \E D \in G : \A E \in G : E \subseteq D => E = D
<1>1. IsWellFoundedOn(StrictSubsetOrdering(Nodes), FiniteSubsetsOf(Nodes))
  BY FS_StrictSubsetOrderingWellFounded
<1>2. G \subseteq FiniteSubsetsOf(Nodes)
  <2>1. \A D \in SUBSET Nodes : IsFiniteSet(D) BY FS_Subset DEF FiniteNodes
  <2> QED BY <2>1 DEF FiniteSubsetsOf
<1>3. PICK D \in G : \A E \in G : <<E, D>> \notin StrictSubsetOrdering(Nodes)
  <2> HIDE DEF FiniteNodes
  <2> QED BY ONLY <1>1, <1>2, G # {}, WFMin
<1>4. \A E \in G : E \subseteq D => E = D
  BY <1>3 DEF StrictSubsetOrdering
<1> QED BY <1>4

\* And it has one that no other holds.
LEMMA GreatestSet ==
  ASSUME FiniteNodes, NEW G \in SUBSET SUBSET Nodes, G # {}
  PROVE  \E D \in G : \A E \in G : D \subseteq E => E = D
<1> DEFINE C == {Nodes \ D : D \in G}
<1>1. C \in SUBSET SUBSET Nodes /\ C # {}
  <2>1. \A D \in G : Nodes \ D \in SUBSET Nodes OBVIOUS
  <2>2. PICK D \in G : TRUE OBVIOUS
  <2>3. Nodes \ D \in C OBVIOUS
  <2>4. C \in SUBSET SUBSET Nodes BY <2>1
  <2> QED BY <2>3, <2>4
<1>2. PICK K \in C : \A E \in C : E \subseteq K => E = K
  <2> HIDE DEF C
  <2> QED BY <1>1, LeastSet
<1>3. PICK D \in G : K = Nodes \ D OBVIOUS
<1>4. ASSUME NEW E \in G, D \subseteq E PROVE E = D
  <2>1. Nodes \ E \in C /\ Nodes \ E \subseteq K BY <1>3, <1>4
  <2>2. Nodes \ E = Nodes \ D BY <2>1, <1>2, <1>3
  <2> QED BY <2>2
<1> QED BY <1>4

\* A function that is a[x] at the end of a descent, and elsewhere what it is
\* one step down, exists when each descent ends.
EndsIn(base, next) ==
  /\ \A x \in Nodes \ base : next[x] \in Nodes
  /\ \A S \in SUBSET Nodes : S # {} => \E n \in S : n \in base \/ next[n] \notin S

\* What such a function is.
Descent(f, base, a, next) ==
  \A x \in Nodes : f[x] = IF x \in base THEN a[x] ELSE f[next[x]]

\* Such a function exists: the recursive definitions of the model have a value.
LEMMA DescentExists ==
  ASSUME FiniteNodes, NEW base \in SUBSET Nodes, NEW a \in [Nodes -> N0], NEW next,
         EndsIn(base, next)
  PROVE  \E f \in [Nodes -> N0] : Descent(f, base, a, next)
<1> USE DEF EndsIn, Descent
<1> DEFINE OnSet(D, f) == /\ \A x \in D : x \in base \/ next[x] \in D
                          /\ \A x \in D : f[x] = IF x \in base THEN a[x] ELSE f[next[x]]
           G == {D \in SUBSET Nodes : \E f \in [D -> N0] : OnSet(D, f)}
<1>1. {} \in G
  <2>1. [x \in {} |-> NULL] \in [{} -> N0] OBVIOUS
  <2>2. OnSet({}, [x \in {} |-> NULL]) OBVIOUS
  <2> QED BY <2>1, <2>2
<1>2. PICK D \in G : \A E \in G : D \subseteq E => E = D
  <2>1. G \in SUBSET SUBSET Nodes /\ G # {} BY <1>1
  <2> HIDE DEF G
  <2> QED BY <2>1, GreatestSet
<1>3. PICK f \in [D -> N0] : OnSet(D, f) OBVIOUS
<1>4. D = Nodes
  <2> SUFFICES ASSUME D # Nodes PROVE FALSE OBVIOUS
  <2>1. PICK n \in Nodes \ D : n \in base \/ next[n] \notin Nodes \ D
    <3>1. Nodes \ D # {} /\ Nodes \ D \in SUBSET Nodes BY <1>2
    <3> QED BY <3>1
  <2>2. n \in base \/ next[n] \in D BY <2>1
  <2> DEFINE E == D \cup {n}
             g == [x \in E |-> IF x = n THEN IF n \in base THEN a[n] ELSE f[next[n]] ELSE f[x]]
  <2>3. g \in [E -> N0] BY <2>2, <1>3
  <2>4. \A x \in D : x # n /\ g[x] = f[x] BY <2>1
  <2>5. g[n] = IF n \in base THEN a[n] ELSE f[next[n]] OBVIOUS
  <2> HIDE DEF g
  <2>6. OnSet(E, g)
    <3>1. \A x \in E : x \in base \/ next[x] \in E BY <2>2, <1>3
    <3>2. \A x \in D : g[x] = IF x \in base THEN a[x] ELSE g[next[x]] BY <1>3, <2>4
    <3>3. g[n] = IF n \in base THEN a[n] ELSE g[next[n]] BY <2>2, <2>4, <2>5
    <3> QED BY <3>1, <3>2, <3>3
  <2>7. E \in G
    <3>1. E \in SUBSET Nodes BY <1>2
    <3> HIDE DEF E, OnSet
    <3> QED BY <3>1, <2>3, <2>6
  <2>8. E # D /\ D \subseteq E BY <2>1
  <2> QED BY <2>7, <2>8, <1>2
<1> QED BY <1>3, <1>4

-----------------------------------------------------------------------------
(* What the assignments of the code do to the fields                       *)

\* There are two sides.
LEMMA OppSides ==
  /\ \A d \in Sides : Opp(d) \in Sides /\ Opp(d) # d /\ Opp(Opp(d)) = d
  /\ \A d, e \in Sides : e = d \/ e = Opp(d)
  /\ "left" \in Sides /\ "right" \in Sides
BY DEF Sides, Opp

\* The types of the fields.
LEMMA Fields ==
  ASSUME NEW u \in Trees
  PROVE  /\ \A d \in Sides : u[d] \in [Nodes -> N0]
         /\ \A d \in Sides, n \in Nodes : u[d][n] \in N0
         /\ u.left = u["left"] /\ u.right = u["right"] /\ u.root \in N0
         /\ u.parent \in [Nodes -> N0] /\ u.color \in [Nodes -> {"red", "black"}]
         /\ \A n \in Nodes : u.parent[n] \in N0 /\ u.color[n] \in {"red", "black"}
BY SMTT(10) DEF Trees, Sides

\* The child of p on side d is x.
SetChild(u, d, p, x) == [u EXCEPT ![d][p] = x]

\* An assignment to a child pointer.
LEMMA SetChildFields ==
  ASSUME NEW u \in Trees, NEW d \in Sides, NEW p \in Nodes, NEW x \in N0
  PROVE  LET v == SetChild(u, d, p, x)
         IN  /\ v \in Trees /\ v.root = u.root /\ v.parent = u.parent /\ v.color = u.color
             /\ \A e \in Sides, m \in Nodes : v[e][m] = IF e = d /\ m = p THEN x ELSE u[e][m]
BY SMTT(10) DEF Trees, Sides, SetChild

\* An assignment to the root pointer.
LEMMA SetRootFields ==
  ASSUME NEW u \in Trees, NEW x \in N0
  PROVE  LET v == [u EXCEPT !.root = x]
         IN  /\ v \in Trees /\ v.root = x /\ v.parent = u.parent /\ v.color = u.color
             /\ \A e \in Sides : v[e] = u[e]
BY SMTT(10) DEF Trees, Sides

\* v is u with another parent of n.
ParentSet(u, v, n, p) ==
  /\ v \in Trees /\ v.root = u.root /\ v.color = u.color
  /\ \A e \in Sides : v[e] = u[e]
  /\ \A m \in Nodes : v.parent[m] = IF m = n THEN p ELSE u.parent[m]

\* rb_set_parent, which does nothing for NULL.
LEMMA SetParentFields ==
  ASSUME RBTreeAssumption, NEW u \in Trees, NEW n \in N0, NEW p \in N0
  PROVE  ParentSet(u, SetParent(u, n, p), n, p)
BY SMTT(10) DEF Trees, Sides, SetParent, N0, RBTreeAssumption, ParentSet

\* What the assignment to the pointer that led to a node changes.
LEMMA RelinkFields ==
  ASSUME RBTreeAssumption, NEW u \in Trees, NEW p \in N0, NEW old, NEW new \in N0
  PROVE  LET v == Relink(u, p, old, new)
         IN  /\ v \in Trees /\ v.parent = u.parent /\ v.color = u.color
             /\ v.root = IF p = NULL THEN new ELSE u.root
             /\ \A e \in Sides, m \in Nodes :
                   v[e][m] = IF m = p /\ e = (IF u.left[p] = old THEN "left" ELSE "right")
                             THEN new ELSE u[e][m]
<1>1. CASE p = NULL
  BY <1>1, SetRootFields, SMTT(10) DEF Relink, RBTreeAssumption
<1>2. CASE p # NULL
  <2> DEFINE d == IF u.left[p] = old THEN "left" ELSE "right"
  <2>1. d \in Sides BY DEF Sides
  <2>2. Relink(u, p, old, new) = SetChild(u, d, p, new) BY <1>2 DEF Relink, SetChild
  <2>3. p \in Nodes BY <1>2 DEF N0
  <2> HIDE DEF d
  <2>4. LET v == SetChild(u, d, p, new)
        IN  /\ v \in Trees /\ v.root = u.root /\ v.parent = u.parent /\ v.color = u.color
            /\ \A e \in Sides, m \in Nodes : v[e][m] = IF e = d /\ m = p THEN new ELSE u[e][m]
    BY <2>1, <2>3, SetChildFields
  <2> QED BY <1>2, <2>2, <2>4 DEF d
<1> QED BY <1>1, <1>2

-----------------------------------------------------------------------------
(* The shape of a tree, and the set B[n] of the nodes of each subtree      *)

\* Before is a strict order, and its mirror image on the other side.
LEMMA BeforeOrder ==
  ASSUME RBTreeAssumption
  PROVE  /\ \A d \in Sides, a \in Nodes : ~Before(d, a, a)
         /\ \A d \in Sides, a, b \in Nodes : Before(Opp(d), a, b) <=> Before(d, b, a)
         /\ \A d \in Sides, a, b \in Nodes : ~(Before(d, a, b) /\ Before(d, b, a))
         /\ \A d \in Sides, a, b, c \in Nodes :
              Before(d, a, b) /\ Before(d, b, c) => Before(d, a, c)
BY SMTT(10) DEF Before, Opp, Sides, RBTreeAssumption

\* InTree, of any tree.
In(u, n) == n = u.root \/ u.parent[n] # NULL

\* The two kinds of pointers agree, and a node outside the tree has no children.
Pointers(u) ==
  /\ u.root # NULL => u.parent[u.root] = NULL
  /\ \A n \in Nodes, d \in Sides : u[d][n] # NULL => u.parent[u[d][n]] = n
  /\ \A n \in Nodes : u.parent[n] # NULL => \E d \in Sides : u[d][u.parent[n]] = n
  /\ \A n \in Nodes, d \in Sides : ~In(u, n) => u[d][n] = NULL

\* B[n] holds n and the sets of its children, the nodes of each of these on its side
\* of n; a node is in the tree when it is in the set of the root.
Subtrees(u, B) ==
  /\ B \in [Nodes -> SUBSET Nodes]
  /\ \A n \in Nodes : n \in B[n]
  /\ \A n \in Nodes, d \in Sides : u[d][n] # NULL =>
       \A m \in B[u[d][n]] : m \in B[n] /\ Before(d, m, n)
  /\ \A n \in Nodes : \A m \in B[n] :
       m = n \/ \E d \in Sides : u[d][n] # NULL /\ m \in B[u[d][n]]
  /\ \A n \in Nodes : In(u, n) <=> u.root # NULL /\ n \in B[u.root]

\* u is a search tree, and B[n] the set of nodes of each subtree.
Shape(u, B) == u \in Trees /\ Pointers(u) /\ Subtrees(u, B)

\* Each descent to children, and each climb to parents, comes to an end.
LEMMA NoRing ==
  ASSUME RBTreeAssumption, FiniteNodes, NEW u, NEW B, Shape(u, B),
         NEW S \in SUBSET Nodes, S # {}
  PROVE  /\ \E n \in S : \A d \in Sides : u[d][n] \notin S
         /\ \E n \in S : u.parent[n] \notin S
<1> USE DEF Shape
<1>1. \A n \in Nodes, d \in Sides : u[d][n] # NULL =>
        u[d][n] \in Nodes /\ B[u[d][n]] \subseteq B[n] /\ B[u[d][n]] # B[n]
  <2> SUFFICES ASSUME NEW n \in Nodes, NEW d \in Sides, u[d][n] # NULL
               PROVE  u[d][n] \in Nodes /\ B[u[d][n]] \subseteq B[n] /\ B[u[d][n]] # B[n]
    OBVIOUS
  <2>1. u[d][n] \in Nodes BY Fields DEF N0
  <2>2. \A m \in B[u[d][n]] : m \in B[n] /\ Before(d, m, n) BY DEF Subtrees
  <2>3. n \notin B[u[d][n]] BY <2>2, BeforeOrder
  <2>4. n \in B[n] BY DEF Subtrees
  <2> QED BY <2>1, <2>2, <2>3, <2>4
<1> DEFINE G == {B[n] : n \in S}
<1>2. G \in SUBSET SUBSET Nodes /\ G # {}
  <2>1. \A n \in S : B[n] \in SUBSET Nodes BY DEF Subtrees
  <2>2. PICK n \in S : TRUE OBVIOUS
  <2>3. B[n] \in G OBVIOUS
  <2>4. G \in SUBSET SUBSET Nodes BY <2>1
  <2> QED BY <2>3, <2>4
<1>3. \E n \in S : \A d \in Sides : u[d][n] \notin S
  <2>1. PICK D \in G : \A E \in G : E \subseteq D => E = D
    <3> HIDE DEF G
    <3> QED BY <1>2, LeastSet
  <2>2. PICK n \in S : D = B[n] OBVIOUS
  <2>3. ASSUME NEW d \in Sides, u[d][n] \in S PROVE FALSE
    <3>1. u[d][n] # NULL BY <2>3 DEF RBTreeAssumption
    <3>2. B[u[d][n]] \in G BY <2>3
    <3> QED BY <3>1, <3>2, <1>1, <2>1, <2>2
  <2> QED BY <2>3
<1>4. \E n \in S : u.parent[n] \notin S
  <2>1. PICK D \in G : \A E \in G : D \subseteq E => E = D
    <3> HIDE DEF G
    <3> QED BY <1>2, GreatestSet
  <2>2. PICK n \in S : D = B[n] OBVIOUS
  <2>3. ASSUME u.parent[n] \in S PROVE FALSE
    <3>1. u.parent[n] # NULL BY <2>3 DEF RBTreeAssumption
    <3>2. PICK d \in Sides : u[d][u.parent[n]] = n BY <3>1 DEF Pointers
    <3>3. B[u.parent[n]] \in G BY <2>3
    <3>4. n # NULL /\ u.parent[n] \in Nodes BY <2>3 DEF RBTreeAssumption
    <3>5. u[d][u.parent[n]] # NULL BY <3>2, <3>4
    <3>6. B[n] \subseteq B[u.parent[n]] /\ B[n] # B[u.parent[n]] BY <3>2, <3>4, <3>5, <1>1
    <3> QED BY <3>3, <3>6, <2>1, <2>2
  <2> QED BY <2>3
<1> QED BY <1>3, <1>4

\* A node and its child, and what the shape of the tree says of the two.
LEMMA Kin ==
  ASSUME RBTreeAssumption, NEW u, NEW B, Shape(u, B),
         NEW n \in Nodes, NEW d \in Sides, u[d][n] # NULL
  PROVE  LET c == u[d][n]
         IN  /\ c \in Nodes /\ c # n /\ u.parent[c] = n /\ u.parent[n] # c
             /\ In(u, n) /\ In(u, c) /\ c # u.root
             /\ Before(d, c, n) /\ ~Before(Opp(d), c, n)
             /\ u[Opp(d)][n] # c
             /\ \A e \in Sides : u[e][c] # n
             /\ \A m \in Nodes, e \in Sides : u[e][m] = c => m = n /\ e = d
             /\ c \in B[n] /\ n \notin B[c]
<1> DEFINE c == u[d][n]
<1> USE DEF Shape
<1>1. c \in Nodes BY Fields DEF N0
<1>2. c \in B[c] /\ n \in B[n] BY <1>1 DEF Subtrees
<1>3. \A m \in B[c] : m \in B[n] /\ Before(d, m, n) /\ m \in Nodes BY <1>1 DEF Subtrees
<1>4. c \in B[n] /\ Before(d, c, n) BY <1>2, <1>3
<1>5. n \notin B[c] BY <1>3, BeforeOrder
<1>6. c # n BY <1>2, <1>5
<1>7. ~Before(Opp(d), c, n) BY <1>1, <1>4, BeforeOrder
<1>8. \A e \in Sides : u[e][c] # n
  <2> SUFFICES ASSUME NEW e \in Sides, u[e][c] = n PROVE FALSE OBVIOUS
  <2>1. u[e][c] # NULL BY DEF RBTreeAssumption
  <2>2. n \in B[c] BY <1>1, <1>2, <2>1 DEF Subtrees
  <2> QED BY <2>2, <1>5
<1>9. n # NULL /\ c # NULL BY <1>1 DEF RBTreeAssumption
<1>10. u.parent[c] = n BY DEF Pointers
<1>11. u.parent[n] # c
  <2> SUFFICES ASSUME u.parent[n] = c PROVE FALSE OBVIOUS
  <2>1. \E e \in Sides : u[e][u.parent[n]] = n BY <1>9 DEF Pointers
  <2> QED BY <2>1, <1>8
<1>12. In(u, n) BY DEF Pointers
<1>13. In(u, c) BY <1>9, <1>10 DEF In
<1>14. c # u.root BY <1>9, <1>10 DEF Pointers
<1>15. \A e \in Sides : u[e][n] = c => e = d
  <2> SUFFICES ASSUME NEW e \in Sides, u[e][n] = c, e # d PROVE FALSE OBVIOUS
  <2>1. e = Opp(d) BY OppSides
  <2>2. Before(e, c, n) BY <1>1, <1>2, <1>9 DEF Subtrees
  <2> QED BY <1>7, <2>1, <2>2
<1>16. u[Opp(d)][n] # c BY <1>15, OppSides
<1>17. \A m \in Nodes, e \in Sides : u[e][m] = c => m = n /\ e = d
  <2> SUFFICES ASSUME NEW m \in Nodes, NEW e \in Sides, u[e][m] = c PROVE m = n /\ e = d
    OBVIOUS
  <2>1. u.parent[c] = m BY <1>9 DEF Pointers
  <2> QED BY <2>1, <1>10, <1>15
<1> QED BY <1>1, <1>4, <1>5, <1>6, <1>7, <1>8, <1>10, <1>11, <1>12, <1>13, <1>14, <1>16, <1>17

\* A child's parent.
LEMMA ParentOf ==
  ASSUME RBTreeAssumption, NEW u, NEW B, Shape(u, B),
         NEW n \in Nodes, NEW d \in Sides, u[d][n] # NULL
  PROVE  u[d][n] \in Nodes /\ u[d][n] # n /\ u.parent[u[d][n]] = n
BY Kin

-----------------------------------------------------------------------------
(* Rotations                                                               *)

\* The pointers of v are those of u after a rotation of n to side d.
Rotated(u, v, n, d) ==
  LET up == u[Opp(d)][n]
      moved == u[d][up]
  IN  /\ v \in Trees
      /\ v.root = IF u.parent[n] = NULL THEN up ELSE u.root
      /\ \A m \in Nodes : v.parent[m] = IF m = n THEN up ELSE IF m = up THEN u.parent[n]
                                        ELSE IF m = moved THEN n ELSE u.parent[m]
      /\ \A e \in Sides, m \in Nodes :
           v[e][m] = IF m = n THEN IF e = d THEN u[d][n] ELSE moved
                     ELSE IF m = up THEN IF e = d THEN n ELSE u[e][up]
                     ELSE IF u[e][m] = n THEN up ELSE u[e][m]

\* The assignments of __rb_rotate_left and __rb_rotate_right (rbtree.c:22, 49)
\* together are a rotation, and leave the colours.
LEMMA RotateFields ==
  ASSUME RBTreeAssumption, NEW u, NEW B, Shape(u, B),
         NEW n \in Nodes, NEW d \in Sides, u[Opp(d)][n] # NULL
  PROVE  /\ Rotated(u, Rotate(u, n, d), n, d)
         /\ Rotate(u, n, d).color = u.color
<1> DEFINE up == u[Opp(d)][n]
           moved == u[d][up]
           p == u.parent[n]
           a == SetChild(u, Opp(d), n, moved)
           b == SetChild(a, d, up, n)
           c == SetParent(b, moved, n)
           f == SetParent(c, up, p)
           r == Relink(f, p, n, up)
           v == SetParent(r, n, up)
<1>1. Rotate(u, n, d) = v BY DEF Rotate, SetChild
<1>2. u \in Trees /\ Opp(d) \in Sides /\ Opp(d) # d /\ up \in Nodes /\ up # NULL /\ up # n /\ p # up
  BY OppSides, Kin DEF Shape
<1>3. moved \in N0 /\ p \in N0 /\ n \in N0 /\ up \in N0 /\ n # NULL
  BY <1>2, Fields DEF N0, RBTreeAssumption
<1>4. moved # n /\ moved # up
  <2>1. CASE moved = NULL BY <2>1, <1>2, <1>3
  <2>2. CASE moved # NULL
    <3>1. moved # up BY <2>2, <1>2, Kin
    <3>2. u.parent[moved] = up /\ u.parent[up] = n BY <2>2, <1>2, Kin DEF Shape, Pointers
    <3> QED BY <3>1, <3>2, <1>2
  <2> QED BY <2>1, <2>2
<1>5. p # NULL => \E e \in Sides : u[e][p] = n /\ u[Opp(e)][p] # n /\ p # n
  <2> SUFFICES ASSUME p # NULL PROVE \E e \in Sides : u[e][p] = n /\ u[Opp(e)][p] # n /\ p # n
    OBVIOUS
  <2>1. p \in Nodes BY <1>3 DEF N0
  <2>2. PICK e \in Sides : u[e][p] = n BY DEF Shape, Pointers
  <2>3. u[Opp(e)][p] # n /\ p # n BY <2>1, <2>2, <1>3, Kin
  <2> QED BY <2>2, <2>3
<1> HIDE DEF up, moved, p
<1>6. /\ a \in Trees /\ a.root = u.root /\ a.parent = u.parent /\ a.color = u.color
      /\ \A e \in Sides, m \in Nodes : a[e][m] = IF e = Opp(d) /\ m = n THEN moved ELSE u[e][m]
  BY <1>2, <1>3, SetChildFields
<1> HIDE DEF a
<1>7. /\ b \in Trees /\ b.root = u.root /\ b.parent = u.parent /\ b.color = u.color
      /\ \A e \in Sides, m \in Nodes : b[e][m] = IF e = d /\ m = up THEN n ELSE a[e][m]
  BY <1>2, <1>3, <1>6, SetChildFields
<1> HIDE DEF b
<1>8. /\ c \in Trees /\ c.root = u.root /\ c.color = u.color
      /\ \A e \in Sides : c[e] = b[e]
      /\ \A m \in Nodes : c.parent[m] = IF m = moved THEN n ELSE u.parent[m]
  <2>1. ParentSet(b, c, moved, n) BY <1>3, <1>7, SetParentFields
  <2> QED BY <2>1, <1>3, <1>7 DEF ParentSet
<1> HIDE DEF c
<1>9. /\ f \in Trees /\ f.root = u.root /\ f.color = u.color
      /\ \A e \in Sides : f[e] = b[e]
      /\ \A m \in Nodes : f.parent[m] = IF m = up THEN p ELSE c.parent[m]
  <2>1. ParentSet(c, f, up, p) BY <1>3, <1>8, SetParentFields
  <2> QED BY <2>1, <1>3, <1>8 DEF ParentSet
<1> HIDE DEF f
<1>10. /\ r \in Trees /\ r.parent = f.parent /\ r.color = u.color
       /\ r.root = IF p = NULL THEN up ELSE u.root
       /\ \A e \in Sides, m \in Nodes :
            r[e][m] = IF m = p /\ e = (IF f.left[p] = n THEN "left" ELSE "right") THEN up ELSE f[e][m]
  BY <1>3, <1>9, RelinkFields
<1> HIDE DEF r
<1>11. /\ v \in Trees /\ v.root = r.root /\ v.color = u.color
       /\ \A e \in Sides : v[e] = r[e]
       /\ \A m \in Nodes : v.parent[m] = IF m = n THEN up ELSE r.parent[m]
  <2>1. ParentSet(r, v, n, up) BY <1>3, <1>10, SetParentFields
  <2> QED BY <2>1, <1>3, <1>10 DEF ParentSet
<1> HIDE DEF v
<1>12. \A m \in Nodes : v.parent[m] = IF m = n THEN up ELSE IF m = up THEN p
                                      ELSE IF m = moved THEN n ELSE u.parent[m]
  BY <1>8, <1>9, <1>10, <1>11
<1>13. \A e \in Sides, m \in Nodes :
         b[e][m] = IF m = n THEN IF e = d THEN u[d][n] ELSE moved
                   ELSE IF m = up THEN IF e = d THEN n ELSE u[e][up]
                   ELSE u[e][m]
  BY <1>2, <1>6, <1>7, OppSides
<1>14. \A e \in Sides, m \in Nodes :
         v[e][m] = IF m = n THEN IF e = d THEN u[d][n] ELSE moved
                   ELSE IF m = up THEN IF e = d THEN n ELSE u[e][up]
                   ELSE IF u[e][m] = n THEN up ELSE u[e][m]
  <2>1. ASSUME NEW e \in Sides, NEW m \in Nodes, m # n, m # up, u[e][m] = n
        PROVE  m = p /\ e = (IF f.left[p] = n THEN "left" ELSE "right")
    <3>1. m = p BY <2>1, <1>3 DEF Shape, Pointers, p
    <3>2. f[e][p] = n /\ f[Opp(e)][p] # n
      <4>1. \E x \in Sides : u[x][p] = n /\ u[Opp(x)][p] # n BY <3>1, <1>5, <2>1 DEF RBTreeAssumption
      <4>2. u[Opp(e)][p] # n BY <4>1, <2>1, <3>1, OppSides
      <4>3. Opp(e) \in Sides BY OppSides
      <4> QED BY <2>1, <3>1, <4>2, <4>3, <1>9, <1>13
    <3>3. f.left = f["left"] BY <1>9, Fields
    <3> QED BY <3>1, <3>2, <3>3 DEF Sides, Opp
  <2>2. ASSUME NEW e \in Sides, NEW m \in Nodes, m = p,
               e = (IF f.left[p] = n THEN "left" ELSE "right")
        PROVE  m # n /\ m # up /\ u[e][m] = n
    <3>1. p # NULL BY <2>2 DEF RBTreeAssumption
    <3>2. PICK x \in Sides : u[x][p] = n /\ u[Opp(x)][p] # n /\ p # n BY <3>1, <1>5
    <3>3. m # n /\ m # up BY <3>2, <2>2, <1>2
    <3>4. f["left"][p] = u["left"][p] BY <2>2, <3>3, <1>9, <1>13 DEF Sides
    <3>5. f.left = f["left"] BY <1>9, Fields
    <3> QED BY <2>2, <3>2, <3>3, <3>4, <3>5 DEF Sides, Opp
  <2>3. ASSUME NEW e \in Sides, NEW m \in Nodes
        PROVE  v[e][m] = IF m = n THEN IF e = d THEN u[d][n] ELSE moved
                         ELSE IF m = up THEN IF e = d THEN n ELSE u[e][up]
                         ELSE IF u[e][m] = n THEN up ELSE u[e][m]
    BY <2>1, <2>2, <1>9, <1>10, <1>11, <1>13
  <2> QED BY <2>3
<1> QED BY <1>1, <1>10, <1>11, <1>12, <1>14 DEF Rotated, up, moved, p

\* The subtrees after a rotation of n to side d.
Turned(u, B, n, d) ==
  LET up == u[Opp(d)][n]
      moved == u[d][up]
  IN  [x \in Nodes |->
        IF x = up THEN B[n]
        ELSE IF x = n THEN {m \in B[n] : \/ m = n
                                         \/ u[d][n] # NULL /\ m \in B[u[d][n]]
                                         \/ moved # NULL /\ m \in B[moved]}
        ELSE B[x]]

\* A rotation leaves a tree of the same nodes in the same order.
LEMMA RotatedShape ==
  ASSUME RBTreeAssumption, NEW u, NEW B, Shape(u, B),
         NEW n \in Nodes, NEW d \in Sides, u[Opp(d)][n] # NULL,
         NEW v, Rotated(u, v, n, d)
  PROVE  /\ Shape(v, Turned(u, B, n, d))
         /\ \A m \in Nodes : In(v, m) <=> In(u, m)
<1> DEFINE up == u[Opp(d)][n]
           moved == u[d][up]
           p == u.parent[n]
           C == Turned(u, B, n, d)
<1>1. /\ u \in Trees /\ Opp(d) \in Sides /\ Opp(d) # d /\ up \in Nodes /\ up # NULL /\ up # n
      /\ p # up /\ u.parent[up] = n /\ up # u.root /\ n # NULL /\ In(u, n) /\ In(u, up)
      /\ Before(Opp(d), up, n) /\ NULL \notin Nodes
      /\ \A e \in Sides : u[e][up] # n
      /\ \A m \in Nodes, e \in Sides : u[e][m] = up => m = n /\ e = Opp(d)
  BY OppSides, Kin DEF Shape, RBTreeAssumption
<1>2. moved # NULL =>
        /\ moved \in Nodes /\ u.parent[moved] = up /\ moved # up /\ moved # n /\ moved # u.root
        /\ \A m \in Nodes, e \in Sides : u[e][moved] # up /\ (u[e][m] = moved => m = up /\ e = d)
  <2> SUFFICES ASSUME moved # NULL
               PROVE  /\ moved \in Nodes /\ u.parent[moved] = up /\ moved # up /\ moved # n
                      /\ moved # u.root
                      /\ \A m \in Nodes, e \in Sides :
                           u[e][moved] # up /\ (u[e][m] = moved => m = up /\ e = d)
    OBVIOUS
  <2>1. /\ moved \in Nodes /\ u.parent[moved] = up /\ moved # up /\ u.parent[up] # moved
        /\ moved # u.root
        /\ \A m \in Nodes, e \in Sides : u[e][moved] # up /\ (u[e][m] = moved => m = up /\ e = d)
    BY <1>1, Kin
  <2> QED BY <2>1, <1>1
<1>3. /\ p \in N0 /\ moved \in N0 /\ \A m \in Nodes, e \in Sides : u[e][m] \in N0
      /\ \A m \in Nodes : u.parent[m] \in N0
  BY <1>1, Fields
<1>4. \A m \in Nodes, e \in Sides : u[e][m] = n => m = p /\ m # n /\ m # up /\ u[Opp(e)][m] # n
  <2> SUFFICES ASSUME NEW m \in Nodes, NEW e \in Sides, u[e][m] = n
               PROVE  m = p /\ m # n /\ m # up /\ u[Opp(e)][m] # n
    OBVIOUS
  <2> QED BY <1>1, Kin
<1>5. p # NULL => p \in Nodes /\ p # n /\ p # up /\ \E e \in Sides : u[e][p] = n
  <2> SUFFICES ASSUME p # NULL PROVE p \in Nodes /\ p # n /\ p # up /\ \E e \in Sides : u[e][p] = n
    OBVIOUS
  <2>1. p \in Nodes BY <1>3 DEF N0
  <2>2. \E e \in Sides : u[e][p] = n BY DEF Shape, Pointers
  <2> QED BY <2>1, <2>2, <1>1, <1>4
<1>6. /\ v \in Trees
      /\ v.root = IF p = NULL THEN up ELSE u.root
      /\ \A m \in Nodes : v.parent[m] = IF m = n THEN up ELSE IF m = up THEN p
                                        ELSE IF m = moved THEN n ELSE u.parent[m]
      /\ \A e \in Sides, m \in Nodes :
           v[e][m] = IF m = n THEN IF e = d THEN u[d][n] ELSE moved
                     ELSE IF m = up THEN IF e = d THEN n ELSE u[e][up]
                     ELSE IF u[e][m] = n THEN up ELSE u[e][m]
  BY DEF Rotated
<1>7. C \in [Nodes -> SUBSET Nodes] /\ B \in [Nodes -> SUBSET Nodes]
  BY DEF Turned, Shape, Subtrees
<1>8. /\ C[up] = B[n]
      /\ \A m \in Nodes : m \in C[n] <=> /\ m \in B[n]
                                         /\ \/ m = n
                                            \/ u[d][n] # NULL /\ m \in B[u[d][n]]
                                            \/ moved # NULL /\ m \in B[moved]
      /\ \A x \in Nodes \ {n, up} : C[x] = B[x]
  BY <1>1, <1>7 DEF Turned
<1> HIDE DEF up, moved, p, C
<1>9. u.root # NULL => u.parent[u.root] = NULL BY DEF Shape, Pointers
<1>10. \A m \in Nodes, e \in Sides : u[e][m] # NULL => u.parent[u[e][m]] = m
  BY DEF Shape, Pointers
<1>11. \A m \in Nodes : u.parent[m] # NULL => \E e \in Sides : u[e][u.parent[m]] = m
  BY DEF Shape, Pointers
<1>12. \A m \in Nodes : In(v, m) <=> In(u, m)
  <2>1. \A m \in Nodes \ {n, up} : v.parent[m] # NULL <=> u.parent[m] # NULL BY <1>1, <1>2, <1>6
  <2>2. In(v, n) /\ In(v, up) BY <1>1, <1>6 DEF In
  <2>3. p = NULL => n = u.root BY <1>1 DEF In, p
  <2>4. \A m \in Nodes \ {n, up} : m = v.root <=> m = u.root BY <1>1, <1>6, <2>3
  <2> QED BY <1>1, <2>1, <2>2, <2>4 DEF In
<1>13. Pointers(v)
  <2>1. v.root # NULL => v.parent[v.root] = NULL
    <3>1. CASE p = NULL BY <3>1, <1>1, <1>6
    <3>2. CASE p # NULL
      <4>1. u.root # NULL => u.root \in Nodes BY <1>1, Fields DEF N0
      <4>2. u.root # n BY <3>2, <1>1, <1>9 DEF p
      <4> QED BY <3>2, <4>1, <4>2, <1>1, <1>2, <1>6, <1>9
    <3> QED BY <3>1, <3>2
  <2>2. ASSUME NEW m \in Nodes, NEW e \in Sides, v[e][m] # NULL PROVE v.parent[v[e][m]] = m
    <3>1. CASE m = n
      <4>1. CASE e = d
        <5>1. v[e][m] = u[d][n] /\ u[d][n] \in Nodes BY <2>2, <3>1, <4>1, <1>3, <1>6 DEF N0
        <5>2. u.parent[u[d][n]] = n BY <2>2, <5>1, <1>10
        <5>3. u[d][n] # n /\ u[d][n] # up /\ u[d][n] # moved
          BY <2>2, <5>1, <5>2, <1>1, <1>2, <1>4
        <5> QED BY <3>1, <5>1, <5>2, <5>3, <1>6
      <4>2. CASE e # d BY <2>2, <3>1, <4>2, <1>2, <1>6
      <4> QED BY <4>1, <4>2
    <3>2. CASE m = up
      <4>1. CASE e = d BY <3>2, <4>1, <1>1, <1>6
      <4>2. CASE e # d
        <5>1. v[e][m] = u[e][up] /\ u[e][up] \in Nodes BY <2>2, <3>2, <4>2, <1>1, <1>3, <1>6 DEF N0
        <5>2. u.parent[u[e][up]] = up BY <2>2, <5>1, <1>1, <1>10
        <5>3. u[e][up] # n /\ u[e][up] # up /\ u[e][up] # moved
          BY <2>2, <4>2, <5>1, <1>1, <1>2
        <5> QED BY <3>2, <5>1, <5>2, <5>3, <1>6
      <4> QED BY <4>1, <4>2
    <3>3. CASE m # n /\ m # up /\ u[e][m] = n BY <3>3, <1>1, <1>4, <1>6
    <3>4. CASE m # n /\ m # up /\ u[e][m] # n
      <4>1. v[e][m] = u[e][m] /\ u[e][m] \in Nodes BY <2>2, <3>4, <1>3, <1>6 DEF N0
      <4>2. u.parent[u[e][m]] = m BY <2>2, <4>1, <1>10
      <4>3. u[e][m] # up /\ u[e][m] # moved BY <3>4, <2>2, <4>1, <1>1, <1>2
      <4> QED BY <3>4, <4>1, <4>2, <4>3, <1>6
    <3> QED BY <3>1, <3>2, <3>3, <3>4
  <2>3. ASSUME NEW m \in Nodes, v.parent[m] # NULL PROVE \E e \in Sides : v[e][v.parent[m]] = m
    <3>1. CASE m = n BY <3>1, <1>1, <1>6
    <3>2. CASE m = up
      <4>1. p \in Nodes /\ p # n /\ p # up /\ v.parent[m] = p BY <2>3, <3>2, <1>1, <1>5, <1>6
      <4>2. PICK e \in Sides : u[e][p] = n BY <4>1, <1>1, <1>5
      <4> QED BY <3>2, <4>1, <4>2, <1>6
    <3>3. CASE m = moved /\ m # n /\ m # up BY <3>3, <1>1, <1>2, <1>6
    <3>4. CASE m # n /\ m # up /\ m # moved
      <4>1. v.parent[m] = u.parent[m] /\ u.parent[m] \in Nodes BY <2>3, <3>4, <1>3, <1>6 DEF N0
      <4>2. PICK e \in Sides : u[e][u.parent[m]] = m BY <2>3, <4>1, <1>11
      <4>3. CASE u.parent[m] = n BY <3>4, <4>1, <4>2, <4>3, <1>1, <1>6, OppSides DEF up
      <4>4. CASE u.parent[m] = up BY <3>4, <4>1, <4>2, <4>4, <1>1, <1>6 DEF moved
      <4>5. CASE u.parent[m] # n /\ u.parent[m] # up BY <3>4, <4>1, <4>2, <4>5, <1>6
      <4> QED BY <4>3, <4>4, <4>5
    <3> QED BY <3>1, <3>2, <3>3, <3>4
  <2>4. ASSUME NEW m \in Nodes, NEW e \in Sides, ~In(v, m) PROVE v[e][m] = NULL
    <3>1. ~In(u, m) /\ m # n /\ m # up BY <2>4, <1>1, <1>12
    <3>2. u[e][m] = NULL BY <3>1 DEF Shape, Pointers
    <3> QED BY <3>1, <3>2, <1>1, <1>6
  <2> QED BY <2>1, <2>2, <2>3, <2>4 DEF Pointers
<1>14. Subtrees(v, C)
  <2>1. \A m \in Nodes : m \in B[m] BY DEF Shape, Subtrees
  <2>2. \A m \in Nodes, e \in Sides : u[e][m] # NULL =>
          \A x \in B[u[e][m]] : x \in B[m] /\ Before(e, x, m)
    BY DEF Shape, Subtrees
  <2>3. \A m \in Nodes : \A x \in B[m] :
          x = m \/ \E e \in Sides : u[e][m] # NULL /\ x \in B[u[e][m]]
    BY DEF Shape, Subtrees
  <2>4. B[up] \subseteq B[n] /\ \A x \in B[up] : Before(Opp(d), x, n)
    BY <1>1, <2>2 DEF up
  <2>5. moved # NULL => B[moved] \subseteq B[up] /\ \A x \in B[moved] : Before(d, x, up)
    BY <1>1, <2>2 DEF moved
  <2>6. u[d][n] # NULL => B[u[d][n]] \subseteq B[n] /\ \A x \in B[u[d][n]] : Before(d, x, n)
    BY <2>2
  <2>7. \A m \in Nodes : m \in C[m] BY <1>7, <1>8, <1>1, <2>1, <2>4
  <2>8. C[n] \subseteq B[n] BY <1>7, <1>8
  <2>9. Before(d, n, up) BY <1>1, BeforeOrder
  <2>10. \A x \in C[n] : Before(d, x, up)
    <3> SUFFICES ASSUME NEW x \in C[n] PROVE Before(d, x, up) OBVIOUS
    <3>1. x \in Nodes BY <1>7
    <3>2. CASE x = n BY <3>2, <2>9
    <3>3. CASE u[d][n] # NULL /\ x \in B[u[d][n]]
      <4>1. Before(d, x, n) BY <3>3, <2>6
      <4> QED BY <3>1, <4>1, <2>9, <1>1, BeforeOrder
    <3>4. CASE moved # NULL /\ x \in B[moved] BY <3>4, <2>5
    <3> QED BY <3>1, <3>2, <3>3, <3>4, <1>8
  <2>11. ASSUME NEW m \in Nodes, NEW e \in Sides, v[e][m] # NULL
         PROVE  \A x \in C[v[e][m]] : x \in C[m] /\ Before(e, x, m)
    <3>1. CASE m = n
      <4>1. CASE e = d
        <5>1. v[e][m] = u[d][n] /\ u[d][n] \in Nodes BY <2>11, <3>1, <4>1, <1>3, <1>6 DEF N0
        <5>2. u[d][n] # n /\ u[d][n] # up BY <5>1, <1>1, <1>4
        <5>3. C[u[d][n]] = B[u[d][n]] BY <5>1, <5>2, <1>8
        <5> QED BY <2>11, <3>1, <4>1, <5>1, <5>3, <2>6, <1>7, <1>8
      <4>2. CASE e # d
        <5>1. v[e][m] = moved /\ e = Opp(d) BY <3>1, <4>2, <1>6, OppSides
        <5>2. C[moved] = B[moved] BY <5>1, <2>11, <1>2, <1>8
        <5>3. moved # NULL BY <5>1, <2>11
        <5>4. \A x \in B[moved] : x \in B[n] /\ Before(Opp(d), x, n) BY <5>3, <2>4, <2>5
        <5> QED BY <3>1, <5>1, <5>2, <5>3, <5>4, <1>2, <1>7, <1>8
      <4> QED BY <4>1, <4>2
    <3>2. CASE m = up
      <4>1. CASE e = d
        <5>1. v[e][m] = n BY <3>2, <4>1, <1>1, <1>6
        <5> QED BY <3>2, <4>1, <5>1, <2>8, <2>10, <1>8
      <4>2. CASE e # d
        <5>1. v[e][m] = u[e][up] /\ u[e][up] \in Nodes BY <2>11, <3>2, <4>2, <1>1, <1>3, <1>6 DEF N0
        <5>2. u[e][up] # n /\ u[e][up] # up BY <5>1, <1>1
        <5>3. C[u[e][up]] = B[u[e][up]] BY <5>1, <5>2, <1>8
        <5>4. \A x \in B[u[e][up]] : x \in B[up] /\ Before(e, x, up) BY <1>1, <5>1, <2>11, <2>2
        <5> QED BY <3>2, <5>1, <5>3, <5>4, <2>4, <1>8
      <4> QED BY <4>1, <4>2
    <3>3. CASE m # n /\ m # up /\ u[e][m] = n
      <4>1. v[e][m] = up /\ C[up] = B[n] /\ C[m] = B[m] BY <3>3, <1>6, <1>8
      <4> QED BY <3>3, <4>1, <2>2, <1>1
    <3>4. CASE m # n /\ m # up /\ u[e][m] # n
      <4>1. v[e][m] = u[e][m] /\ u[e][m] \in Nodes BY <2>11, <3>4, <1>3, <1>6 DEF N0
      <4>2. u[e][m] # up /\ u[e][m] # n BY <3>4, <1>1
      <4>3. C[u[e][m]] = B[u[e][m]] /\ C[m] = B[m] BY <3>4, <4>1, <4>2, <1>8
      <4> QED BY <4>1, <4>3, <2>2, <2>11
    <3> QED BY <3>1, <3>2, <3>3, <3>4
  <2>12. ASSUME NEW m \in Nodes, NEW x \in C[m], x # m
         PROVE  \E e \in Sides : v[e][m] # NULL /\ x \in C[v[e][m]]
    <3>1. x \in Nodes BY <1>7
    <3>2. CASE m = n
      <4>1. CASE u[d][n] # NULL /\ x \in B[u[d][n]]
        <5>1. v[d][n] = u[d][n] /\ u[d][n] \in Nodes BY <4>1, <1>3, <1>6 DEF N0
        <5>2. u[d][n] # n /\ u[d][n] # up BY <5>1, <1>1, <1>4
        <5>3. x \in C[v[d][n]] BY <4>1, <5>1, <5>2, <1>8
        <5> QED BY <3>2, <4>1, <5>1, <5>3
      <4>2. CASE moved # NULL /\ x \in B[moved]
        <5>1. v[Opp(d)][n] = moved /\ C[moved] = B[moved] BY <4>2, <1>1, <1>2, <1>6, <1>8
        <5> QED BY <3>2, <4>2, <5>1, <1>1
      <4> QED BY <3>1, <3>2, <4>1, <4>2, <2>12, <1>8
    <3>3. CASE m = up
      <4>1. x \in B[n] /\ v[d][up] = n BY <3>3, <1>1, <1>6, <1>8
      <4>2. CASE x \in C[n] BY <3>3, <4>1, <4>2, <1>1
      <4>3. CASE x \notin C[n]
        <5>1. x # n /\ ~(u[d][n] # NULL /\ x \in B[u[d][n]]) /\ ~(moved # NULL /\ x \in B[moved])
          BY <4>1, <4>3, <3>1, <1>8
        <5>2. x \in B[up] BY <5>1, <4>1, <2>3, OppSides DEF up
        <5>3. PICK e \in Sides : u[e][up] # NULL /\ x \in B[u[e][up]]
          BY <5>2, <2>3, <2>12, <3>3, <1>1
        <5>4. e # d /\ u[e][up] \in Nodes BY <5>1, <5>3, <1>1, <1>3 DEF N0, moved
        <5>5. v[e][up] = u[e][up] BY <5>4, <1>1, <1>6
        <5>6. u[e][up] # n /\ u[e][up] # up BY <5>4, <1>1
        <5>7. C[u[e][up]] = B[u[e][up]] BY <5>4, <5>6, <1>8
        <5> QED BY <3>3, <5>3, <5>5, <5>7
      <4> QED BY <4>2, <4>3
    <3>4. CASE m # n /\ m # up
      <4>1. x \in B[m] BY <3>4, <1>8
      <4>2. PICK e \in Sides : u[e][m] # NULL /\ x \in B[u[e][m]] BY <4>1, <2>3, <2>12
      <4>3. CASE u[e][m] = n
        <5>1. v[e][m] = up /\ C[up] = B[n] BY <3>4, <4>3, <1>6, <1>8
        <5> QED BY <4>2, <4>3, <5>1, <1>1
      <4>4. CASE u[e][m] # n
        <5>1. v[e][m] = u[e][m] /\ u[e][m] \in Nodes /\ u[e][m] # up
          BY <3>4, <4>2, <4>4, <1>1, <1>3, <1>6 DEF N0
        <5>2. C[u[e][m]] = B[u[e][m]] BY <4>4, <5>1, <1>8
        <5> QED BY <4>2, <5>1, <5>2
      <4> QED BY <4>3, <4>4
    <3> QED BY <3>2, <3>3, <3>4
  <2>13. ASSUME NEW m \in Nodes PROVE In(v, m) <=> v.root # NULL /\ m \in C[v.root]
    <3>1. In(u, m) <=> u.root # NULL /\ m \in B[u.root] BY DEF Shape, Subtrees
    <3>2. CASE p = NULL
      <4>1. u.root = n /\ v.root = up BY <3>2, <1>1, <1>6 DEF In, p
      <4> QED BY <3>1, <4>1, <1>1, <1>8, <1>12
    <3>3. CASE p # NULL
      <4>1. v.root = u.root /\ u.root # n /\ u.root # up BY <3>3, <1>1, <1>6, <1>9 DEF p
      <4>2. u.root # NULL => C[u.root] = B[u.root]
        <5>1. u.root \in N0 BY <1>1, Fields
        <5> QED BY <5>1, <4>1, <1>8 DEF N0
      <4> QED BY <3>1, <4>1, <4>2, <1>12
    <3> QED BY <3>2, <3>3
  <2> QED BY <1>7, <2>7, <2>11, <2>12, <2>13 DEF Subtrees
<1> QED BY <1>6, <1>12, <1>13, <1>14 DEF Shape, C

-----------------------------------------------------------------------------
(* A subtree holds the subtrees of its nodes                               *)

\* The subtree of a node of a subtree is part of it.
LEMMA SubtreeOf ==
  ASSUME RBTreeAssumption, FiniteNodes, NEW u, NEW B, Shape(u, B)
  PROVE  \A m \in Nodes : \A n \in B[m] : B[n] \subseteq B[m]
<1> DEFINE S == {m \in Nodes : \E n \in B[m] : ~(B[n] \subseteq B[m])}
<1>1. SUFFICES ASSUME S # {} PROVE FALSE OBVIOUS
<1>2. PICK m \in S : \A d \in Sides : u[d][m] \notin S BY <1>1, NoRing
<1>3. PICK n \in B[m] : ~(B[n] \subseteq B[m]) OBVIOUS
<1>4. PICK d \in Sides : u[d][m] # NULL /\ n \in B[u[d][m]]
  BY <1>3 DEF Shape, Subtrees
<1>5. u[d][m] \in Nodes BY <1>4, Kin
<1>6. B[n] \subseteq B[u[d][m]] BY <1>2, <1>4, <1>5
<1>7. B[u[d][m]] \subseteq B[m] BY <1>4, <1>5 DEF Shape, Subtrees
<1> QED BY <1>3, <1>6, <1>7

\* What is below a node of the tree is in the tree.
LEMMA Below ==
  ASSUME RBTreeAssumption, FiniteNodes, NEW u, NEW B, Shape(u, B),
         NEW n \in Nodes, In(u, n), NEW m \in B[n]
  PROVE  m \in Nodes /\ In(u, m)
<1>1. u.root # NULL /\ n \in B[u.root] BY DEF Shape, Subtrees
<1>2. u.root \in Nodes BY <1>1, Fields DEF Shape, N0
<1>3. m \in B[u.root] BY <1>1, <1>2, SubtreeOf
<1>4. m \in Nodes BY <1>2, <1>3 DEF Shape, Subtrees
<1> QED BY <1>1, <1>3, <1>4 DEF Shape, Subtrees

-----------------------------------------------------------------------------
(* A new leaf                                                              *)

\* v is u with the red leaf n on side d of p, or as the only node.
Linked(u, v, n, p, d) ==
  /\ v \in Trees
  /\ v.root = IF p = NULL THEN n ELSE u.root
  /\ \A m \in Nodes : v.parent[m] = IF m = n THEN p ELSE u.parent[m]
  /\ \A m \in Nodes : v.color[m] = IF m = n THEN "red" ELSE u.color[m]
  /\ \A e \in Sides, m \in Nodes :
       v[e][m] = IF m = n THEN NULL ELSE IF m = p /\ e = d THEN n ELSE u[e][m]

\* All the fields of a node are set.
Filled(u, v, n, l, r, p, c) ==
  /\ v \in Trees /\ v.root = u.root
  /\ \A m \in Nodes : v.parent[m] = IF m = n THEN p ELSE u.parent[m]
  /\ \A m \in Nodes : v.color[m] = IF m = n THEN c ELSE u.color[m]
  /\ \A e \in Sides, m \in Nodes :
       v[e][m] = IF m = n THEN IF e = "left" THEN l ELSE r ELSE u[e][m]

\* All fields of a node are set, in the order of Forget.
Fill(u, n, l, r, p, c) ==
  [u EXCEPT !.left[n] = l, !.right[n] = r, !.parent[n] = p, !.color[n] = c]

\* And in that of rb_link_node.
FillUp(u, n, l, r, p, c) ==
  [u EXCEPT !.parent[n] = p, !.color[n] = c, !.left[n] = l, !.right[n] = r]

\* The four assignments to the fields of a node, in either order.
LEMMA FillFields ==
  ASSUME NEW u \in Trees, NEW n \in Nodes, NEW l \in N0, NEW r \in N0, NEW p \in N0,
         NEW c \in {"red", "black"}
  PROVE  /\ Filled(u, Fill(u, n, l, r, p, c), n, l, r, p, c)
         /\ Filled(u, FillUp(u, n, l, r, p, c), n, l, r, p, c)
<1> DEFINE a == [u EXCEPT !.left[n] = l]
           b == [a EXCEPT !.right[n] = r]
           f == [b EXCEPT !.parent[n] = p]
           v == [f EXCEPT !.color[n] = c]
           aa == [u EXCEPT !.parent[n] = p]
           bb == [aa EXCEPT !.color[n] = c]
           ff == [bb EXCEPT !.left[n] = l]
           vv == [ff EXCEPT !.right[n] = r]
<1>1. v = Fill(u, n, l, r, p, c) /\ vv = FillUp(u, n, l, r, p, c) BY DEF Fill, FillUp
<1>2. Filled(u, v, n, l, r, p, c)
  <2>1. a \in Trees /\ a.root = u.root /\ a.right = u.right /\ a.parent = u.parent
        /\ a.color = u.color /\ a.left = [u.left EXCEPT ![n] = l]
    BY SMTT(10) DEF Trees
  <2> HIDE DEF a
  <2>2. b \in Trees /\ b.root = a.root /\ b.left = a.left /\ b.parent = a.parent
        /\ b.color = a.color /\ b.right = [a.right EXCEPT ![n] = r]
    BY <2>1, SMTT(10) DEF Trees
  <2> HIDE DEF b
  <2>3. f \in Trees /\ f.root = b.root /\ f.left = b.left /\ f.right = b.right
        /\ f.color = b.color /\ f.parent = [b.parent EXCEPT ![n] = p]
    BY <2>2, SMTT(10) DEF Trees
  <2> HIDE DEF f
  <2>4. v \in Trees /\ v.root = f.root /\ v.left = f.left /\ v.right = f.right
        /\ v.parent = f.parent /\ v.color = [f.color EXCEPT ![n] = c]
    BY <2>3, SMTT(10) DEF Trees
  <2> HIDE DEF v
  <2>5. v.left = v["left"] /\ v.right = v["right"] /\ u.left = u["left"] /\ u.right = u["right"]
    BY <2>4, Fields
  <2> QED BY <2>1, <2>2, <2>3, <2>4, <2>5, Fields, SMTT(10) DEF Filled, Sides
<1>3. Filled(u, vv, n, l, r, p, c)
  <2>1. aa \in Trees /\ aa.root = u.root /\ aa.right = u.right /\ aa.left = u.left
        /\ aa.color = u.color /\ aa.parent = [u.parent EXCEPT ![n] = p]
    BY SMTT(10) DEF Trees
  <2> HIDE DEF aa
  <2>2. bb \in Trees /\ bb.root = aa.root /\ bb.left = aa.left /\ bb.parent = aa.parent
        /\ bb.right = aa.right /\ bb.color = [aa.color EXCEPT ![n] = c]
    BY <2>1, SMTT(10) DEF Trees
  <2> HIDE DEF bb
  <2>3. ff \in Trees /\ ff.root = bb.root /\ ff.parent = bb.parent /\ ff.right = bb.right
        /\ ff.color = bb.color /\ ff.left = [bb.left EXCEPT ![n] = l]
    BY <2>2, SMTT(10) DEF Trees
  <2> HIDE DEF ff
  <2>4. vv \in Trees /\ vv.root = ff.root /\ vv.left = ff.left /\ vv.color = ff.color
        /\ vv.parent = ff.parent /\ vv.right = [ff.right EXCEPT ![n] = r]
    BY <2>3, SMTT(10) DEF Trees
  <2> HIDE DEF vv
  <2>5. vv.left = vv["left"] /\ vv.right = vv["right"] /\ u.left = u["left"] /\ u.right = u["right"]
    BY <2>4, Fields
  <2> QED BY <2>1, <2>2, <2>3, <2>4, <2>5, Fields, SMTT(10) DEF Filled, Sides
<1> QED BY <1>1, <1>2, <1>3

\* What rb_link_node (rbtree.h) assigns.
LEMMA LinkFields ==
  ASSUME RBTreeAssumption, NEW u \in Trees, NEW n \in Nodes, NEW p \in N0, NEW d \in Sides, p # n
  PROVE  Linked(u, LinkNode(u, n, p, d), n, p, d)
<1> DEFINE w == [u EXCEPT !.parent[n] = p, !.color[n] = "red", !.left[n] = NULL, !.right[n] = NULL]
<1>1. Filled(u, w, n, NULL, NULL, p, "red")
  <2>1. NULL \in N0 BY DEF N0
  <2>2. w = FillUp(u, n, NULL, NULL, p, "red") BY DEF FillUp
  <2> QED BY <2>1, <2>2, FillFields
<1> HIDE DEF w
<1>2. CASE p = NULL
  <2> DEFINE v == [w EXCEPT !.root = n]
  <2>1. LinkNode(u, n, p, d) = v BY <1>2 DEF LinkNode, w
  <2>2. /\ v \in Trees /\ v.root = n /\ v.parent = w.parent /\ v.color = w.color
        /\ \A e \in Sides : v[e] = w[e]
    BY <1>1, SetRootFields DEF N0, Filled
  <2> HIDE DEF v
  <2>3. Linked(u, v, n, p, d) BY <1>1, <1>2, <2>2, SMTT(10) DEF Linked, Filled, RBTreeAssumption
  <2> QED BY <2>1, <2>3
<1>3. CASE p # NULL
  <2> DEFINE v == SetChild(w, d, p, n)
  <2>1. p \in Nodes /\ n \in N0 BY <1>3 DEF N0
  <2>2. LinkNode(u, n, p, d) = v BY <1>3 DEF LinkNode, w, SetChild
  <2>3. /\ v \in Trees /\ v.root = w.root /\ v.parent = w.parent /\ v.color = w.color
        /\ \A e \in Sides, m \in Nodes : v[e][m] = IF e = d /\ m = p THEN n ELSE w[e][m]
    BY <2>1, <1>1, SetChildFields DEF Filled
  <2> HIDE DEF v
  <2>4. Linked(u, v, n, p, d) BY <1>1, <1>3, <2>3, SMTT(10) DEF Linked, Filled
  <2> QED BY <2>2, <2>4
<1> QED BY <1>2, <1>3

\* The sets of the subtrees with a new leaf n below p.
Grown(B, n, p) ==
  [x \in Nodes |-> IF x = n THEN {n} ELSE IF p \in B[x] THEN B[x] \cup {n} ELSE B[x]]

\* A node that is linked where its key belongs makes a tree with one node more.
LEMMA LinkedShape ==
  ASSUME RBTreeAssumption, NEW u, NEW B, Shape(u, B), NEW n \in Nodes, ~In(u, n),
         NEW d \in Sides, NEW p \in N0,
         p = NULL => u.root = NULL,
         p # NULL => In(u, p) /\ u[d][p] = NULL /\ Before(d, n, p),
         \A x \in Nodes, e \in Sides : u[e][x] # NULL /\ p \in B[u[e][x]] => Before(e, n, x),
         NEW v, Linked(u, v, n, p, d)
  PROVE  /\ Shape(v, Grown(B, n, p))
         /\ \A m \in Nodes : In(v, m) <=> In(u, m) \/ m = n
<1> DEFINE C == Grown(B, n, p)
<1>1. /\ v \in Trees
      /\ v.root = IF p = NULL THEN n ELSE u.root
      /\ \A m \in Nodes : v.parent[m] = IF m = n THEN p ELSE u.parent[m]
      /\ \A e \in Sides, m \in Nodes :
           v[e][m] = IF m = n THEN NULL ELSE IF m = p /\ e = d THEN n ELSE u[e][m]
  BY DEF Linked
<1>2. /\ n # u.root /\ u.parent[n] = NULL /\ n # NULL /\ n # p /\ NULL \notin Nodes
      /\ p # NULL => p \in Nodes
      /\ \A m \in Nodes, e \in Sides : u[e][m] # NULL => u[e][m] \in Nodes /\ u[e][m] # n
      /\ \A m \in Nodes : u.parent[m] # NULL => u.parent[m] \in Nodes
      /\ \A m \in Nodes : u.parent[m] # n
      /\ u \in Trees
      /\ u.root # NULL => u.root \in Nodes
  <2>1. \A e \in Sides : u[e][n] = NULL BY DEF Shape, Pointers
  <2>2. \A m \in Nodes : u.parent[m] # n
    <3>1. \A m \in Nodes : u.parent[m] # NULL => \E e \in Sides : u[e][u.parent[m]] = m
      BY DEF Shape, Pointers
    <3> QED BY <3>1, <2>1 DEF RBTreeAssumption
  <2>3. \A m \in Nodes, e \in Sides : u[e][m] # NULL => u[e][m] # n
    BY DEF Shape, Pointers, In, RBTreeAssumption
  <2>4. u \in Trees BY DEF Shape
  <2>5. \A m \in Nodes, e \in Sides : u[e][m] # NULL => u[e][m] \in Nodes BY <2>4, Fields DEF N0
  <2>6. \A m \in Nodes : u.parent[m] # NULL => u.parent[m] \in Nodes BY <2>4, Fields DEF N0
  <2>7. u.root # NULL => u.root \in Nodes BY <2>4, Fields DEF N0
  <2>8. n # p BY DEF RBTreeAssumption
  <2> QED BY <2>2, <2>3, <2>4, <2>5, <2>6, <2>7, <2>8 DEF In, N0, RBTreeAssumption
<1>3. \A m \in Nodes : In(v, m) <=> In(u, m) \/ m = n BY <1>1, <1>2 DEF In
<1>4. Pointers(v)
  <2>1. v.root # NULL => v.parent[v.root] = NULL BY <1>1, <1>2 DEF Shape, Pointers
  <2>2. ASSUME NEW m \in Nodes, NEW e \in Sides, v[e][m] # NULL PROVE v.parent[v[e][m]] = m
    <3>1. u[e][m] # NULL => u.parent[u[e][m]] = m BY DEF Shape, Pointers
    <3> QED BY <3>1, <2>2, <1>1, <1>2
  <2>3. ASSUME NEW m \in Nodes, v.parent[m] # NULL PROVE \E e \in Sides : v[e][v.parent[m]] = m
    <3>1. CASE m = n BY <3>1, <2>3, <1>1, <1>2
    <3>2. CASE m # n
      <4>1. v.parent[m] = u.parent[m] /\ u.parent[m] \in Nodes /\ u.parent[m] # n
        BY <3>2, <2>3, <1>1, <1>2
      <4>2. PICK e \in Sides : u[e][u.parent[m]] = m BY <4>1, <2>3 DEF Shape, Pointers
      <4>3. v[e][u.parent[m]] = m BY <4>1, <4>2, <1>1, <1>2
      <4> QED BY <4>1, <4>3
    <3> QED BY <3>1, <3>2
  <2>4. ASSUME NEW m \in Nodes, NEW e \in Sides, ~In(v, m) PROVE v[e][m] = NULL
    <3>1. ~In(u, m) /\ m # n BY <2>4, <1>3
    <3>2. u[e][m] = NULL BY <3>1 DEF Shape, Pointers
    <3>3. m # p BY <3>1, <1>2
    <3> QED BY <3>1, <3>2, <3>3, <1>1
  <2> QED BY <2>1, <2>2, <2>3, <2>4 DEF Pointers
<1>5. Subtrees(v, C)
  <2>1. /\ B \in [Nodes -> SUBSET Nodes]
        /\ \A m \in Nodes : m \in B[m]
    BY DEF Shape, Subtrees
  <2>2. \A m \in Nodes, e \in Sides : u[e][m] # NULL =>
          \A x \in B[u[e][m]] : x \in B[m] /\ Before(e, x, m)
    BY DEF Shape, Subtrees
  <2>3. \A m \in Nodes : \A x \in B[m] :
          x = m \/ \E e \in Sides : u[e][m] # NULL /\ x \in B[u[e][m]]
    BY DEF Shape, Subtrees
  <2>4. /\ C \in [Nodes -> SUBSET Nodes] /\ C[n] = {n}
        /\ \A x \in Nodes \ {n} : \A m \in Nodes : m \in C[x] <=> m \in B[x] \/ (m = n /\ p \in B[x])
    BY <2>1 DEF Grown
  <2> HIDE DEF C
  <2>5. \A m \in Nodes : m \in C[m] BY <2>1, <2>4
  <2>6. ASSUME NEW m \in Nodes, NEW e \in Sides, v[e][m] # NULL, NEW x \in C[v[e][m]]
        PROVE  x \in C[m] /\ Before(e, x, m)
    <3>1. m # n BY <2>6, <1>1
    <3>2. CASE m = p /\ e = d
      <4>1. x = n BY <3>2, <2>6, <3>1, <2>4, <1>1
      <4> QED BY <4>1, <3>1, <3>2, <2>1, <2>4, <1>2
    <3>3. CASE ~(m = p /\ e = d)
      <4>1. v[e][m] = u[e][m] /\ u[e][m] \in Nodes /\ u[e][m] # n BY <3>1, <3>3, <2>6, <1>1, <1>2
      <4>2. x \in Nodes BY <2>4, <2>6, <4>1
      <4>3. CASE x \in B[u[e][m]] BY <3>1, <4>1, <4>2, <4>3, <2>2, <2>4, <2>6
      <4>4. CASE x = n /\ p \in B[u[e][m]]
        <5>1. p \in B[m] BY <4>1, <4>4, <2>2, <2>6
        <5> QED BY <3>1, <4>1, <4>2, <4>4, <5>1, <2>4, <2>6
      <4> QED BY <4>1, <4>2, <4>3, <4>4, <2>4, <2>6
    <3> QED BY <3>2, <3>3
  <2>7. ASSUME NEW m \in Nodes, NEW x \in C[m], x # m
        PROVE  \E e \in Sides : v[e][m] # NULL /\ x \in C[v[e][m]]
    <3>1. m # n /\ x \in Nodes BY <2>7, <2>4
    <3>2. CASE m = p /\ x = n
      <4>1. v[d][m] = n BY <3>1, <3>2, <1>1
      <4> QED BY <3>2, <4>1, <2>4, <1>2
    <3>3. CASE ~(m = p /\ x = n)
      <4>1. \E y \in B[m] : y # m /\ (y = x \/ (y = p /\ x = n)) BY <3>1, <3>3, <2>4, <2>7, <1>2
      <4>2. PICK y \in B[m] : y # m /\ (y = x \/ (y = p /\ x = n)) BY <4>1
      <4>3. PICK e \in Sides : u[e][m] # NULL /\ y \in B[u[e][m]] BY <4>2, <2>3
      <4>4. u[e][m] \in Nodes /\ u[e][m] # n /\ v[e][m] = u[e][m] BY <3>1, <4>3, <1>1, <1>2
      <4>5. x \in C[u[e][m]] BY <3>1, <4>2, <4>3, <4>4, <2>4
      <4> QED BY <4>3, <4>4, <4>5
    <3> QED BY <3>2, <3>3
  <2>8. ASSUME NEW m \in Nodes PROVE In(v, m) <=> v.root # NULL /\ m \in C[v.root]
    <3>1. \A y \in Nodes : In(u, y) <=> u.root # NULL /\ y \in B[u.root] BY DEF Shape, Subtrees
    <3>2. CASE p = NULL
      <4>1. u.root = NULL /\ v.root = n BY <3>2, <1>1
      <4>2. In(u, m) <=> FALSE BY <3>1, <4>1
      <4> QED BY <4>1, <4>2, <1>2, <1>3, <2>4
    <3>3. CASE p # NULL
      <4>1. v.root = u.root /\ u.root # NULL /\ u.root \in Nodes /\ p \in B[u.root]
        BY <3>3, <3>1, <1>1, <1>2
      <4> QED BY <4>1, <3>1, <1>2, <1>3, <2>4
    <3> QED BY <3>2, <3>3
  <2> QED BY <2>4, <2>5, <2>6, <2>7, <2>8 DEF Subtrees
<1> QED BY <1>1, <1>3, <1>4, <1>5 DEF Shape

-----------------------------------------------------------------------------
(* Cutting out a node with at most one child                               *)

\* v is u without n, whose only child is child, if it has one.
Cut(u, v, n, child) ==
  /\ v \in Trees
  /\ v.root = IF u.parent[n] = NULL THEN child ELSE u.root
  /\ \A m \in Nodes : v.parent[m] = IF m = n THEN NULL ELSE IF m = child THEN u.parent[n]
                                    ELSE u.parent[m]
  /\ \A m \in Nodes : v.color[m] = IF m = n THEN "red" ELSE u.color[m]
  /\ \A e \in Sides, m \in Nodes :
       v[e][m] = IF m = n THEN NULL ELSE IF u[e][m] = n THEN child ELSE u[e][m]

\* Relinking a child of its parent: the one pointer that led to it.
Relinked(u, w, v, n, new) ==
  /\ v \in Trees /\ v.parent = w.parent /\ v.color = w.color
  /\ v.root = IF u.parent[n] = NULL THEN new ELSE u.root
  /\ \A e \in Sides, m \in Nodes : v[e][m] = IF u[e][m] = n THEN new ELSE u[e][m]

\* The pointer of the parent, or of the root, that led to n leads to new.
LEMMA RelinkChild ==
  ASSUME RBTreeAssumption, NEW u, NEW B, Shape(u, B), NEW n \in Nodes, In(u, n),
         NEW w \in Trees, \A e \in Sides : w[e] = u[e], w.root = u.root, NEW new \in N0
  PROVE  Relinked(u, w, Relink(w, u.parent[n], n, new), n, new)
<1> DEFINE p == u.parent[n]
           v == Relink(w, p, n, new)
<1>1. p \in N0 BY Fields DEF Shape
<1>2. /\ v \in Trees /\ v.parent = w.parent /\ v.color = w.color
      /\ v.root = IF p = NULL THEN new ELSE u.root
      /\ \A e \in Sides, m \in Nodes :
           v[e][m] = IF m = p /\ e = (IF w.left[p] = n THEN "left" ELSE "right")
                     THEN new ELSE u[e][m]
  BY <1>1, RelinkFields
<1> HIDE DEF v
<1>3. ASSUME NEW e \in Sides, NEW m \in Nodes
      PROVE  u[e][m] = n <=> m = p /\ e = (IF w.left[p] = n THEN "left" ELSE "right")
  <2>1. w.left = u["left"] /\ n # NULL BY Fields, OppSides DEF RBTreeAssumption
  <2>2. CASE u[e][m] = n
    <3>1. m = p BY <2>2, <2>1 DEF Shape, Pointers
    <3>2. u[Opp(e)][m] # n BY <2>2, <2>1, Kin
    <3> QED BY <2>1, <2>2, <3>1, <3>2 DEF Sides, Opp
  <2>3. CASE m = p /\ e = (IF w.left[p] = n THEN "left" ELSE "right")
    <3>1. p # NULL BY <2>3 DEF RBTreeAssumption
    <3>2. PICK x \in Sides : u[x][p] = n BY <3>1 DEF Shape, Pointers
    <3> QED BY <2>1, <2>3, <3>2 DEF Sides
  <2> QED BY <2>2, <2>3
<1> QED BY <1>2, <1>3 DEF Relinked, p, v

\* child is the only child of n.
OnlyChild(u, n, child) == \E s \in Sides : child = u[s][n] /\ u[Opp(s)][n] = NULL

\* The assignments of rb_erase for a node with one child at most (rbtree.c:264).
LEMMA CutFields ==
  ASSUME RBTreeAssumption, NEW u, NEW B, Shape(u, B), NEW n \in Nodes, In(u, n),
         NEW child, OnlyChild(u, n, child)
  PROVE  Cut(u, CutOut(u, n, child), n, child)
<1> DEFINE p == u.parent[n]
           a == SetParent(u, child, p)
           b == Relink(a, p, n, child)
           v == Forget(b, n)
<1>1. PICK s \in Sides : child = u[s][n] /\ u[Opp(s)][n] = NULL BY DEF OnlyChild
<1>2. p \in N0 /\ child \in N0 /\ u \in Trees BY <1>1, Fields DEF Shape
<1>3. child # n BY <1>1, Kin DEF RBTreeAssumption
<1>4. \A e \in Sides, m \in Nodes : u[e][m] = n => m # n
  BY Kin DEF RBTreeAssumption
<1>5. CutOut(u, n, child) = v BY DEF CutOut
<1>6. ParentSet(u, a, child, p) BY <1>2, SetParentFields
<1> HIDE DEF a
<1>7. Relinked(u, a, b, n, child) BY <1>2, <1>6, RelinkChild DEF ParentSet, p
<1> HIDE DEF b
<1>8. Filled(b, v, n, NULL, NULL, NULL, "red")
  <2>1. NULL \in N0 /\ b \in Trees BY <1>7 DEF N0, Relinked
  <2>2. v = Fill(b, n, NULL, NULL, NULL, "red") BY DEF Forget, Fill
  <2> QED BY <2>1, <2>2, FillFields
<1> HIDE DEF v
<1>9. \A m \in Nodes : b.parent[m] = IF m = child THEN p ELSE u.parent[m]
  BY <1>6, <1>7 DEF ParentSet, Relinked
<1>10. b.color = u.color BY <1>6, <1>7 DEF ParentSet, Relinked
<1>11. b.root = (IF p = NULL THEN child ELSE u.root) BY <1>7 DEF Relinked, p
<1>12. \A e \in Sides, m \in Nodes : b[e][m] = IF u[e][m] = n THEN child ELSE u[e][m]
  BY <1>7 DEF Relinked
<1>13. /\ v \in Trees
       /\ v.root = IF p = NULL THEN child ELSE u.root
       /\ \A m \in Nodes : v.parent[m] = IF m = n THEN NULL ELSE IF m = child THEN p
                                         ELSE u.parent[m]
       /\ \A m \in Nodes : v.color[m] = IF m = n THEN "red" ELSE u.color[m]
  BY <1>8, <1>9, <1>10, <1>11 DEF Filled
<1>14. \A e \in Sides, m \in Nodes :
         v[e][m] = IF m = n THEN NULL ELSE IF u[e][m] = n THEN child ELSE u[e][m]
  BY <1>8, <1>12 DEF Filled
<1> QED BY <1>5, <1>13, <1>14 DEF Cut, p

\* The sets of the subtrees without n.
Pruned(B, n) == [x \in Nodes |-> IF x = n THEN {n} ELSE B[x] \ {n}]

\* They leave a tree with one node less.
LEMMA CutShape ==
  ASSUME RBTreeAssumption, NEW u, NEW B, Shape(u, B), NEW n \in Nodes, In(u, n),
         NEW child, OnlyChild(u, n, child), NEW v, Cut(u, v, n, child)
  PROVE  /\ Shape(v, Pruned(B, n))
         /\ \A m \in Nodes : In(v, m) <=> In(u, m) /\ m # n
<1> DEFINE C == Pruned(B, n)
           p == u.parent[n]
<1>1. /\ v \in Trees
      /\ v.root = IF p = NULL THEN child ELSE u.root
      /\ \A m \in Nodes : v.parent[m] = IF m = n THEN NULL ELSE IF m = child THEN p
                                        ELSE u.parent[m]
      /\ \A e \in Sides, m \in Nodes :
           v[e][m] = IF m = n THEN NULL ELSE IF u[e][m] = n THEN child ELSE u[e][m]
  BY DEF Cut
<1>2. PICK s \in Sides : child = u[s][n] /\ u[Opp(s)][n] = NULL BY DEF OnlyChild
<1>3. /\ u \in Trees /\ n # NULL /\ NULL \notin Nodes /\ p \in N0 /\ child \in N0
      /\ u.root # NULL /\ u.root \in Nodes /\ n \in B[u.root]
      /\ u.parent[u.root] = NULL
  <2>1. u \in Trees /\ n # NULL BY DEF Shape, RBTreeAssumption
  <2>2. u.root # NULL /\ n \in B[u.root] /\ u.parent[u.root] = NULL
    BY DEF Shape, Subtrees, Pointers
  <2>3. u.root \in Nodes BY <2>1, <2>2, Fields DEF N0
  <2>4. p \in N0 /\ child \in N0 BY <1>2, <2>1, Fields
  <2> QED BY <2>1, <2>2, <2>3, <2>4 DEF RBTreeAssumption
<1>4. p = NULL <=> n = u.root BY <1>3 DEF In
<1>5. child # NULL =>
        /\ child \in Nodes /\ child # n /\ u.parent[child] = n /\ p # child /\ child # u.root
        /\ \A m \in Nodes, e \in Sides : u[e][m] = child => m = n
        /\ \A e \in Sides : u[e][child] # n
        /\ In(u, child)
  <2> SUFFICES ASSUME child # NULL
      PROVE /\ child \in Nodes /\ child # n /\ u.parent[child] = n /\ p # child /\ child # u.root
            /\ \A m \in Nodes, e \in Sides : u[e][m] = child => m = n
            /\ \A e \in Sides : u[e][child] # n
            /\ In(u, child)
    OBVIOUS
  <2> QED BY <1>2, Kin
<1>6. \A m \in Nodes, e \in Sides : u[e][m] = n =>
        m = p /\ m # n /\ u[Opp(e)][m] # n
  <2> SUFFICES ASSUME NEW m \in Nodes, NEW e \in Sides, u[e][m] = n
               PROVE  m = p /\ m # n /\ u[Opp(e)][m] # n
    OBVIOUS
  <2> QED BY <1>3, Kin
<1>7. \A m \in Nodes, e \in Sides : u[e][m] # NULL => u[e][m] \in Nodes /\ u.parent[u[e][m]] = m
  BY <1>3, Fields DEF Shape, Pointers, N0
<1>8. \A m \in Nodes : u.parent[m] # NULL => u.parent[m] \in Nodes /\ \E e \in Sides : u[e][u.parent[m]] = m
  BY <1>3, Fields DEF Shape, Pointers, N0
<1>9. \A m \in Nodes : u.parent[m] = n => m = child
  <2> SUFFICES ASSUME NEW m \in Nodes, u.parent[m] = n PROVE m = child OBVIOUS
  <2>1. PICK e \in Sides : u[e][n] = m BY <1>3, <1>8
  <2>2. e = s \/ e = Opp(s) BY OppSides
  <2> QED BY <1>2, <1>3, <2>1, <2>2
<1>10. \A m \in Nodes : In(v, m) <=> In(u, m) /\ m # n
  <2>1. ~In(v, n) BY <1>1, <1>3, <1>4, <1>5 DEF In
  <2>2. child # NULL => In(v, child) BY <1>1, <1>5 DEF In
  <2>3. \A m \in Nodes \ {n, child} : In(v, m) <=> In(u, m) BY <1>1, <1>3, <1>4 DEF In
  <2>4. child # NULL => In(u, child) /\ child # n BY <1>5
  <2>5. \A m \in Nodes : m # NULL BY <1>3
  <2> QED BY <2>1, <2>2, <2>3, <2>4, <2>5
<1>11. Pointers(v)
  <2>1. v.root # NULL => v.parent[v.root] = NULL BY <1>1, <1>3, <1>4, <1>5
  <2>2. ASSUME NEW m \in Nodes, NEW e \in Sides, v[e][m] # NULL PROVE v.parent[v[e][m]] = m
    <3>1. m # n BY <2>2, <1>1
    <3>2. CASE u[e][m] = n BY <3>1, <3>2, <2>2, <1>1, <1>5, <1>6
    <3>3. CASE u[e][m] # n BY <3>1, <3>3, <2>2, <1>1, <1>5, <1>7
    <3> QED BY <3>2, <3>3
  <2>3. ASSUME NEW m \in Nodes, v.parent[m] # NULL PROVE \E e \in Sides : v[e][v.parent[m]] = m
    <3>1. m # n BY <2>3, <1>1
    <3>2. CASE m = child
      <4>1. p # NULL /\ v.parent[m] = p BY <2>3, <3>1, <3>2, <1>1
      <4>2. p \in Nodes /\ \E e \in Sides : u[e][p] = n BY <4>1, <1>8
      <4>3. PICK e \in Sides : u[e][p] = n BY <4>2
      <4>4. v[e][p] = child BY <4>2, <4>3, <1>1, <1>6
      <4> QED BY <3>2, <4>1, <4>4
    <3>3. CASE m # child
      <4>1. v.parent[m] = u.parent[m] /\ u.parent[m] # n BY <3>1, <3>3, <1>1, <1>9
      <4>2. u.parent[m] \in Nodes /\ \E e \in Sides : u[e][u.parent[m]] = m BY <2>3, <4>1, <1>8
      <4>3. PICK e \in Sides : u[e][u.parent[m]] = m BY <4>2
      <4>4. v[e][u.parent[m]] = m BY <3>1, <4>1, <4>2, <4>3, <1>1
      <4> QED BY <4>1, <4>4
    <3> QED BY <3>2, <3>3
  <2>4. ASSUME NEW m \in Nodes, NEW e \in Sides, ~In(v, m) PROVE v[e][m] = NULL
    <3>1. CASE m = n BY <3>1, <1>1
    <3>2. CASE m # n
      <4>1. ~In(u, m) BY <2>4, <3>2, <1>10
      <4>2. u[e][m] = NULL BY <4>1 DEF Shape, Pointers
      <4> QED BY <3>2, <4>2, <1>1, <1>3
    <3> QED BY <3>1, <3>2
  <2> QED BY <2>1, <2>2, <2>3, <2>4 DEF Pointers
<1>12. Subtrees(v, C)
  <2>1. /\ B \in [Nodes -> SUBSET Nodes]
        /\ \A m \in Nodes : m \in B[m]
    BY DEF Shape, Subtrees
  <2>2. \A m \in Nodes, e \in Sides : u[e][m] # NULL =>
          \A x \in B[u[e][m]] : x \in B[m] /\ Before(e, x, m)
    BY DEF Shape, Subtrees
  <2>3. \A m \in Nodes : \A x \in B[m] :
          x = m \/ \E e \in Sides : u[e][m] # NULL /\ x \in B[u[e][m]]
    BY DEF Shape, Subtrees
  <2>4. /\ C \in [Nodes -> SUBSET Nodes] /\ C[n] = {n}
        /\ \A x \in Nodes \ {n} : C[x] = B[x] \ {n}
    BY <2>1 DEF Pruned
  <2> HIDE DEF C
  <2>5. \A m \in Nodes : m \in C[m] BY <2>1, <2>4
  <2>6. child # NULL => B[child] \subseteq B[n] /\ n \notin B[child]
    <3> SUFFICES ASSUME child # NULL PROVE B[child] \subseteq B[n] /\ n \notin B[child] OBVIOUS
    <3>1. n \notin B[child] BY <1>2, Kin
    <3> QED BY <3>1, <1>2, <2>2
  <2>7. ASSUME NEW m \in Nodes, NEW e \in Sides, v[e][m] # NULL, NEW x \in C[v[e][m]]
        PROVE  x \in C[m] /\ Before(e, x, m)
    <3>1. m # n BY <2>7, <1>1
    <3>2. CASE u[e][m] = n
      <4>1. v[e][m] = child BY <3>1, <3>2, <1>1
      <4>2. x \in B[child] /\ x # n BY <4>1, <2>4, <2>7, <1>5
      <4>3. x \in B[u[e][m]] /\ u[e][m] # NULL BY <3>2, <4>1, <4>2, <2>6, <2>7, <1>3
      <4> QED BY <3>1, <4>2, <4>3, <2>2, <2>4
    <3>3. CASE u[e][m] # n
      <4>1. v[e][m] = u[e][m] /\ u[e][m] \in Nodes /\ u[e][m] # NULL BY <3>1, <3>3, <2>7, <1>1, <1>7
      <4>2. x \in B[u[e][m]] /\ x # n BY <3>3, <4>1, <2>4, <2>7
      <4> QED BY <3>1, <4>1, <4>2, <2>2, <2>4
    <3> QED BY <3>2, <3>3
  <2>8. ASSUME NEW m \in Nodes, NEW x \in C[m], x # m
        PROVE  \E e \in Sides : v[e][m] # NULL /\ x \in C[v[e][m]]
    <3>1. m # n /\ x # n /\ x \in B[m] BY <2>8, <2>4
    <3>2. PICK e \in Sides : u[e][m] # NULL /\ x \in B[u[e][m]] BY <3>1, <2>3, <2>8
    <3>3. CASE u[e][m] = n
      <4>1. PICK f \in Sides : u[f][n] # NULL /\ x \in B[u[f][n]] BY <3>1, <3>2, <3>3, <2>3
      <4>2. u[f][n] = child BY <4>1, <1>2, OppSides
      <4>3. v[e][m] = child /\ child # NULL /\ x \in C[child]
        BY <3>1, <3>3, <4>1, <4>2, <2>4, <1>1, <1>5
      <4> QED BY <4>3
    <3>4. CASE u[e][m] # n
      <4>1. v[e][m] = u[e][m] /\ u[e][m] \in Nodes BY <3>1, <3>2, <3>4, <1>1, <1>7
      <4>2. x \in C[u[e][m]] BY <3>1, <3>2, <3>4, <4>1, <2>4
      <4> QED BY <3>2, <4>1, <4>2
    <3> QED BY <3>3, <3>4
  <2>9. ASSUME NEW m \in Nodes PROVE In(v, m) <=> v.root # NULL /\ m \in C[v.root]
    <3>1. In(u, m) <=> m \in B[u.root] BY <1>3 DEF Shape, Subtrees
    <3>2. CASE p = NULL
      <4>1. u.root = n /\ v.root = child BY <3>2, <1>1, <1>4
      <4>2. m \in B[n] /\ m # n <=> child # NULL /\ m \in B[child]
        <5>1. ASSUME m \in B[n], m # n PROVE child # NULL /\ m \in B[child]
          <6>1. PICK f \in Sides : u[f][n] # NULL /\ m \in B[u[f][n]] BY <5>1, <2>3
          <6>2. u[f][n] = child BY <6>1, <1>2, OppSides
          <6> QED BY <6>1, <6>2
        <5> QED BY <5>1, <2>6
      <4>3. child # NULL => C[child] = B[child] \ {n} BY <1>5, <2>4
      <4> QED BY <3>1, <4>1, <4>2, <4>3, <1>10, <2>6
    <3>3. CASE p # NULL
      <4>1. v.root = u.root /\ u.root # n BY <3>3, <1>1, <1>4
      <4> QED BY <3>1, <4>1, <1>3, <1>10, <2>4
    <3> QED BY <3>2, <3>3
  <2> QED BY <2>4, <2>5, <2>7, <2>8, <2>9 DEF Subtrees
<1> QED BY <1>1, <1>10, <1>11, <1>12 DEF Shape

-----------------------------------------------------------------------------
(* A node takes the place of another                                       *)

\* v is u with b, which was not in the tree, where a was.
Renamed(u, v, a, b) ==
  /\ v \in Trees
  /\ v.root = IF u.root = a THEN b ELSE u.root
  /\ \A m \in Nodes : v.parent[m] = IF m = a THEN NULL ELSE IF m = b THEN u.parent[a]
                                    ELSE IF u.parent[m] = a THEN b ELSE u.parent[m]
  /\ \A m \in Nodes : v.color[m] = IF m = a THEN "red" ELSE IF m = b THEN u.color[a]
                                   ELSE u.color[m]
  /\ \A e \in Sides, m \in Nodes :
       v[e][m] = IF m = a THEN NULL ELSE IF m = b THEN u[e][a]
                 ELSE IF u[e][m] = a THEN b ELSE u[e][m]

\* The root is the node without a parent.
LEMMA RootIffNoParent ==
  ASSUME RBTreeAssumption, NEW u, NEW B, Shape(u, B), NEW n \in Nodes, In(u, n)
  PROVE  u.parent[n] = NULL <=> u.root = n
BY DEF Shape, Pointers, In, RBTreeAssumption

\* The node that nothing links to.
LEMMA Outsider ==
  ASSUME RBTreeAssumption, NEW u, NEW B, Shape(u, B), NEW n \in Nodes, ~In(u, n)
  PROVE  /\ n # u.root /\ u.parent[n] = NULL
         /\ \A e \in Sides : u[e][n] = NULL
         /\ \A m \in Nodes : u.parent[m] # n
         /\ \A m \in Nodes, e \in Sides : u[e][m] # n
<1>1. n # u.root /\ u.parent[n] = NULL BY DEF In
<1>2. \A e \in Sides : u[e][n] = NULL BY DEF Shape, Pointers
<1>3. \A m \in Nodes : u.parent[m] # n
  <2>1. \A m \in Nodes : u.parent[m] # NULL => \E e \in Sides : u[e][u.parent[m]] = m
    BY DEF Shape, Pointers
  <2> QED BY <2>1, <1>2 DEF RBTreeAssumption
<1>4. \A m \in Nodes, e \in Sides : u[e][m] # n
  <2>1. \A m \in Nodes, e \in Sides : u[e][m] # NULL => u.parent[u[e][m]] = m
    BY DEF Shape, Pointers
  <2> QED BY <2>1, <1>1 DEF RBTreeAssumption
<1> QED BY <1>1, <1>2, <1>3, <1>4

\* The children of a node are those that know it as their parent.
LEMMA Children ==
  ASSUME RBTreeAssumption, NEW u, NEW B, Shape(u, B), NEW n \in Nodes
  PROVE  \A m \in Nodes : u.parent[m] = n <=> m = u["left"][n] \/ m = u["right"][n]
<1> SUFFICES ASSUME NEW m \in Nodes
             PROVE  u.parent[m] = n <=> m = u["left"][n] \/ m = u["right"][n]
  OBVIOUS
<1>1. ASSUME u.parent[m] = n PROVE m = u["left"][n] \/ m = u["right"][n]
  <2>1. u.parent[m] # NULL BY <1>1 DEF RBTreeAssumption
  <2>2. \E d \in Sides : u[d][n] = m BY <1>1, <2>1 DEF Shape, Pointers
  <2> QED BY <2>2 DEF Sides
<1>2. ASSUME NEW d \in Sides, m = u[d][n] PROVE u.parent[m] = n
  <2>1. m # NULL BY DEF RBTreeAssumption
  <2> QED BY <1>2, <2>1 DEF Shape, Pointers
<1> QED BY <1>1, <1>2, OppSides

\* The assignments of rb_replace_node (rbtree.c:372): the new node takes the place of
\* the victim.
LEMMA ReplaceFields ==
  ASSUME RBTreeAssumption, NEW u, NEW B, Shape(u, B), NEW a \in Nodes, In(u, a),
         NEW b \in Nodes, ~In(u, b)
  PROVE  LET w == SetParent(SetParent(Relink(u, u.parent[a], a, b), u.left[a], b), u.right[a], b)
         IN  Renamed(u, Forget([w EXCEPT !.left[b] = w.left[a], !.right[b] = w.right[a],
                                         !.parent[b] = w.parent[a], !.color[b] = w.color[a]], a),
                     a, b)
<1> DEFINE l == u["left"][a]
           r == u["right"][a]
           w1 == Relink(u, u.parent[a], a, b)
           w2 == SetParent(w1, l, b)
           w == SetParent(w2, r, b)
           f == [w EXCEPT !.left[b] = w.left[a], !.right[b] = w.right[a],
                          !.parent[b] = w.parent[a], !.color[b] = w.color[a]]
           v == Forget(f, a)
<1>1. /\ u \in Trees /\ l \in N0 /\ r \in N0 /\ b \in N0 /\ NULL \in N0 /\ a # b /\ a # NULL
      /\ u.left[a] = l /\ u.right[a] = r
  BY Fields DEF Shape, Sides, N0, RBTreeAssumption
<1>2. \A m \in Nodes, e \in Sides : u[e][m] = a => m # a BY Kin DEF RBTreeAssumption
<1>3. l # a /\ r # a BY <1>1, <1>2 DEF Sides
<1>4. /\ b # u.root /\ u.parent[b] = NULL /\ b # l /\ b # r
      /\ \A e \in Sides : u[e][b] = NULL
      /\ \A m \in Nodes, e \in Sides : u[e][m] # b
  BY Outsider DEF Sides
<1>5. \A m \in Nodes : u.parent[m] = a <=> m = l \/ m = r BY Children
<1>6. u.parent[a] = NULL <=> u.root = a BY RootIffNoParent
<1>7. Relinked(u, u, w1, a, b) BY <1>1, RelinkChild
<1> HIDE DEF w1, l, r
<1>8. ParentSet(w1, w2, l, b) BY <1>1, <1>7, SetParentFields DEF Relinked
<1> HIDE DEF w2
<1>9. ParentSet(w2, w, r, b)
  <2>1. w2 \in Trees BY <1>8 DEF ParentSet
  <2> QED BY <1>1, <2>1, SetParentFields
<1> HIDE DEF w
<1>10. Filled(w, f, b, w.left[a], w.right[a], w.parent[a], w.color[a])
  <2>1. w \in Trees BY <1>9 DEF ParentSet
  <2>2. w.left[a] \in N0 /\ w.right[a] \in N0 /\ w.parent[a] \in N0 /\ w.color[a] \in {"red", "black"}
    BY <2>1, Fields DEF Sides
  <2>3. f = Fill(w, b, w.left[a], w.right[a], w.parent[a], w.color[a]) BY DEF Fill
  <2> QED BY <2>1, <2>2, <2>3, FillFields
<1> HIDE DEF f
<1>11. Filled(f, v, a, NULL, NULL, NULL, "red")
  <2>1. f \in Trees BY <1>10 DEF Filled
  <2>2. v = Fill(f, a, NULL, NULL, NULL, "red") BY DEF Forget, Fill
  <2> QED BY <1>1, <2>1, <2>2, FillFields
<1> HIDE DEF v
<1>12. /\ w \in Trees /\ w.color = u.color
       /\ w.root = IF u.root = a THEN b ELSE u.root
       /\ \A m \in Nodes : w.parent[m] = IF u.parent[m] = a THEN b ELSE u.parent[m]
       /\ \A e \in Sides, m \in Nodes : w[e][m] = IF u[e][m] = a THEN b ELSE u[e][m]
  <2>1. w \in Trees /\ w.color = u.color BY <1>7, <1>8, <1>9 DEF Relinked, ParentSet
  <2>2. w.root = (IF u.root = a THEN b ELSE u.root) BY <1>6, <1>7, <1>8, <1>9 DEF Relinked, ParentSet
  <2>3. \A m \in Nodes : w.parent[m] = IF u.parent[m] = a THEN b ELSE u.parent[m]
    BY <1>5, <1>7, <1>8, <1>9 DEF Relinked, ParentSet
  <2>4. \A e \in Sides, m \in Nodes : w[e][m] = IF u[e][m] = a THEN b ELSE u[e][m]
    BY <1>7, <1>8, <1>9 DEF Relinked, ParentSet
  <2> QED BY <2>1, <2>2, <2>3, <2>4
<1>13. /\ w["left"][a] = u["left"][a] /\ w["right"][a] = u["right"][a] /\ w.parent[a] = u.parent[a]
       /\ w.left[a] = w["left"][a] /\ w.right[a] = w["right"][a]
  BY <1>1, <1>2, <1>3, <1>5, <1>12, Fields DEF Sides
<1>14. \A e \in Sides : (IF e = "left" THEN w.left[a] ELSE w.right[a]) = u[e][a]
  BY <1>13 DEF Sides
<1>15. /\ v \in Trees
       /\ v.root = IF u.root = a THEN b ELSE u.root
       /\ \A m \in Nodes : v.parent[m] = IF m = a THEN NULL ELSE IF m = b THEN u.parent[a]
                                         ELSE IF u.parent[m] = a THEN b ELSE u.parent[m]
       /\ \A m \in Nodes : v.color[m] = IF m = a THEN "red" ELSE IF m = b THEN u.color[a]
                                        ELSE u.color[m]
  BY <1>10, <1>11, <1>12, <1>13 DEF Filled
<1>16. \A e \in Sides, m \in Nodes :
         v[e][m] = IF m = a THEN NULL ELSE IF m = b THEN u[e][a]
                   ELSE IF u[e][m] = a THEN b ELSE u[e][m]
  BY <1>10, <1>11, <1>12, <1>14 DEF Filled
<1>17. Renamed(u, v, a, b) BY <1>15, <1>16 DEF Renamed
<1> QED BY <1>17, <1>1 DEF v, f, w, w1, w2

\* All the fields of a node but its right child are set.
FillRest(u, n, l, p, c) == [u EXCEPT !.parent[n] = p, !.color[n] = c, !.left[n] = l]

\* What that leaves.
FilledRest(u, v, n, l, p, c) ==
  /\ v \in Trees /\ v.root = u.root
  /\ \A m \in Nodes : v.parent[m] = IF m = n THEN p ELSE u.parent[m]
  /\ \A m \in Nodes : v.color[m] = IF m = n THEN c ELSE u.color[m]
  /\ \A m \in Nodes : v["left"][m] = IF m = n THEN l ELSE u["left"][m]
  /\ v["right"] = u["right"]

\* Those assignments.
LEMMA FillRestFields ==
  ASSUME NEW u \in Trees, NEW n \in Nodes, NEW l \in N0, NEW p \in N0, NEW c \in {"red", "black"}
  PROVE  FilledRest(u, FillRest(u, n, l, p, c), n, l, p, c)
<1> DEFINE a == [u EXCEPT !.parent[n] = p]
           b == [a EXCEPT !.color[n] = c]
           v == [b EXCEPT !.left[n] = l]
<1>1. v = FillRest(u, n, l, p, c) BY DEF FillRest
<1>2. a \in Trees /\ a.root = u.root /\ a.right = u.right /\ a.left = u.left
      /\ a.color = u.color /\ a.parent = [u.parent EXCEPT ![n] = p]
  BY SMTT(10) DEF Trees
<1> HIDE DEF a
<1>3. b \in Trees /\ b.root = a.root /\ b.left = a.left /\ b.parent = a.parent
      /\ b.right = a.right /\ b.color = [a.color EXCEPT ![n] = c]
  BY <1>2, SMTT(10) DEF Trees
<1> HIDE DEF b
<1>4. v \in Trees /\ v.root = b.root /\ v.parent = b.parent /\ v.right = b.right
      /\ v.color = b.color /\ v.left = [b.left EXCEPT ![n] = l]
  BY <1>3, SMTT(10) DEF Trees
<1> HIDE DEF v
<1>5. v.left = v["left"] /\ v.right = v["right"] /\ u.left = u["left"] /\ u.right = u["right"]
  BY <1>4, Fields
<1>6. v \in Trees /\ v.root = u.root /\ v["right"] = u["right"]
  BY <1>2, <1>3, <1>4, <1>5
<1>7. \A m \in Nodes : v.parent[m] = IF m = n THEN p ELSE u.parent[m]
  <2>1. v.parent = [u.parent EXCEPT ![n] = p] BY <1>2, <1>3, <1>4
  <2>2. u.parent \in [Nodes -> N0] BY Fields
  <2> QED BY <2>1, <2>2
<1>8. \A m \in Nodes : v.color[m] = IF m = n THEN c ELSE u.color[m]
  BY <1>2, <1>3, <1>4, Fields, SMTT(10)
<1>9. \A m \in Nodes : v["left"][m] = IF m = n THEN l ELSE u["left"][m]
  BY <1>2, <1>3, <1>4, <1>5, Fields, OppSides, SMTT(10)
<1> QED BY <1>1, <1>6, <1>8, <1>9, <1>7 DEF FilledRest

\* rb_erase of a node with two children (rbtree.c:229) is the same as to cut out the
\* successor first, and then to put it in the place of the node.
LEMMA PutInPlaceFields ==
  ASSUME RBTreeAssumption, NEW u, NEW B, Shape(u, B), NEW n \in Nodes, In(u, n),
         NEW y \in Nodes, y # n, u["left"][n] # NULL, u["right"][n] # NULL,
         u["left"][y] = NULL, u["right"][y] # n, u.parent[y] # NULL,
         u.parent[y] = n => u["right"][n] = y,
         u.parent[y] # n => u["left"][u.parent[y]] = y,
         NEW w, Cut(u, w, y, u["right"][y])
  PROVE  Renamed(w, PutInPlace(u, n, y), n, y)
<1> DEFINE l == u["left"][n]
           rn == u["right"][n]
           ry == u["right"][y]
           q == u.parent[y]
           p == u.parent[n]
           c == u.color[n]
           u1 == Relink(u, p, n, y)
           s1 == SetParent(u1, ry, q)
           s2 == SetChild(s1, "left", q, ry)
           s3 == SetChild(s2, "right", y, rn)
           s4 == SetParent(s3, rn, y)
           u2 == IF q = n THEN u1 ELSE s4
           u3 == FillRest(u2, y, l, p, c)
           u4 == SetParent(u3, l, y)
           v == Forget(u4, n)
<1>1. /\ u \in Trees /\ l \in Nodes /\ rn \in Nodes /\ ry \in N0 /\ q \in Nodes /\ p \in N0
      /\ c \in {"red", "black"} /\ y \in N0 /\ NULL \in N0 /\ n # NULL /\ y # NULL
      /\ u.left[n] = l /\ u.right[n] = rn /\ u.right[y] = ry /\ NULL \notin Nodes
  BY Fields, OppSides DEF Shape, Sides, N0, RBTreeAssumption
<1>2. PutInPlace(u, n, y) = v
  BY <1>1 DEF PutInPlace, FillRest, SetChild
<1>3. /\ q # y /\ l # n /\ rn # n /\ l # rn
      /\ \A m \in Nodes, e \in Sides : u[e][m] = n => m # n /\ m = p
      /\ \A m \in Nodes, e \in Sides : u[e][m] = y =>
           /\ m # y /\ m = q
           /\ IF q = n THEN e = "right" ELSE e = "left"
      /\ l # p /\ rn # p
  <2>1. q # y
    <3>1. \E e \in Sides : u[e][q] = y BY <1>1 DEF Shape, Pointers
    <3> QED BY <3>1, <1>1, Kin
  <2>2. l # n /\ rn # n /\ l # rn /\ l # p /\ rn # p BY Kin DEF Sides, Opp
  <2>3. \A m \in Nodes, e \in Sides : u[e][m] = n => m # n /\ m = p
    <3> SUFFICES ASSUME NEW m \in Nodes, NEW e \in Sides, u[e][m] = n PROVE m # n /\ m = p
      OBVIOUS
    <3> QED BY <1>1, Kin
  <2>4. \A m \in Nodes, e \in Sides : u[e][m] = y =>
           /\ m # y /\ m = q
           /\ IF q = n THEN e = "right" ELSE e = "left"
    <3> SUFFICES ASSUME NEW m \in Nodes, NEW e \in Sides, u[e][m] = y
        PROVE  m # y /\ m = q /\ IF q = n THEN e = "right" ELSE e = "left"
      OBVIOUS
    <3>1. m # y /\ m = q BY <1>1, Kin
    <3>2. u[Opp(e)][m] # y BY <1>1, Kin
    <3> QED BY <3>1, <3>2 DEF Sides, Opp
  <2> QED BY <2>1, <2>2, <2>3, <2>4
<1>4. ry # NULL => ry # n /\ ry # y /\ ry # l /\ ry # rn /\ u.parent[ry] = y
  <2>1. ry # NULL => ry # y /\ u.parent[ry] = y /\ u["right"][ry] # y /\ u["left"][ry] # y
                     /\ u.parent[y] # ry
    BY <1>1, Kin DEF Sides
  <2>2. u.parent[l] = n /\ u.parent[rn] = n BY <1>1, Kin DEF Sides
  <2> QED BY <2>1, <2>2, <1>1
<1>5. l # y
  <2>1. u.parent[l] = n BY <1>1, Kin DEF Sides
  <2> QED BY <2>1, <1>3
<1>6. rn = y <=> q = n
  <2>1. u.parent[rn] = n BY <1>1, Kin DEF Sides
  <2> QED BY <2>1
<1>7. \A m \in Nodes : u.parent[m] = n <=> m = l \/ m = rn BY Children
<1>8. p = NULL <=> u.root = n BY RootIffNoParent
<1>9. Relinked(u, u, u1, n, y) BY <1>1, RelinkChild
<1>10. /\ w \in Trees /\ w.root = u.root
       /\ \A m \in Nodes : w.parent[m] = IF m = y THEN NULL ELSE IF m = ry THEN q
                                         ELSE u.parent[m]
       /\ \A m \in Nodes : w.color[m] = IF m = y THEN "red" ELSE u.color[m]
       /\ \A e \in Sides, m \in Nodes :
            w[e][m] = IF m = y THEN NULL ELSE IF u[e][m] = y THEN ry ELSE u[e][m]
  BY <1>1 DEF Cut
<1> HIDE DEF u1, l, rn, ry, q, p, c
<1>11. /\ u2 \in Trees /\ u2.root = u1.root /\ u2.color = u.color
       /\ \A m \in Nodes : u2.parent[m] = IF q = n THEN u.parent[m]
                                          ELSE IF m = rn THEN y ELSE IF m = ry THEN q ELSE u.parent[m]
       /\ \A e \in Sides, m \in Nodes :
            u2[e][m] = IF q = n THEN u1[e][m]
                       ELSE IF m = y /\ e = "right" THEN rn
                       ELSE IF m = q /\ e = "left" THEN ry ELSE u1[e][m]
  <2>1. CASE q = n BY <2>1, <1>9 DEF Relinked
  <2>2. CASE q # n
    <3>1. u2 = s4 BY <2>2
    <3>2. ParentSet(u1, s1, ry, q)
      <4>1. u1 \in Trees /\ q \in N0 BY <1>1, <1>9 DEF Relinked, N0
      <4> QED BY <1>1, <4>1, SetParentFields
    <3> HIDE DEF s1
    <3>3. /\ s2 \in Trees /\ s2.root = s1.root /\ s2.parent = s1.parent /\ s2.color = s1.color
          /\ \A e \in Sides, m \in Nodes : s2[e][m] = IF e = "left" /\ m = q THEN ry ELSE s1[e][m]
      <4>1. s1 \in Trees BY <3>2 DEF ParentSet
      <4> QED BY <1>1, <4>1, SetChildFields, OppSides
    <3> HIDE DEF s2
    <3>4. /\ s3 \in Trees /\ s3.root = s2.root /\ s3.parent = s2.parent /\ s3.color = s2.color
          /\ \A e \in Sides, m \in Nodes : s3[e][m] = IF e = "right" /\ m = y THEN rn ELSE s2[e][m]
      <4>1. s2 \in Trees /\ rn \in N0 BY <3>3, <1>1 DEF N0
      <4> QED BY <1>1, <4>1, SetChildFields, OppSides
    <3> HIDE DEF s3
    <3>5. ParentSet(s3, s4, rn, y)
      <4>1. s3 \in Trees /\ rn \in N0 BY <3>4, <1>1 DEF N0
      <4> QED BY <1>1, <4>1, SetParentFields
    <3> HIDE DEF s4, u2
    <3>6. u1.parent = u.parent /\ u1.color = u.color BY <1>9 DEF Relinked
    <3>7. u2 \in Trees /\ u2.root = u1.root /\ u2.color = u.color
      BY <3>1, <3>2, <3>3, <3>4, <3>5, <3>6 DEF ParentSet
    <3>8. \A m \in Nodes : u2.parent[m] = IF m = rn THEN y ELSE IF m = ry THEN q ELSE u.parent[m]
      BY <3>1, <3>2, <3>3, <3>4, <3>5, <3>6 DEF ParentSet
    <3>9. \A e \in Sides, m \in Nodes :
            u2[e][m] = IF m = y /\ e = "right" THEN rn
                       ELSE IF m = q /\ e = "left" THEN ry ELSE u1[e][m]
      BY <3>1, <3>2, <3>3, <3>4, <3>5, <1>3 DEF ParentSet
    <3> QED BY <2>2, <3>7, <3>8, <3>9
  <2> QED BY <2>1, <2>2
<1> HIDE DEF u2
<1>12. FilledRest(u2, u3, y, l, p, c)
  <2>1. u2 \in Trees /\ l \in N0 BY <1>1, <1>11 DEF N0
  <2> QED BY <1>1, <2>1, FillRestFields
<1> HIDE DEF u3
<1>13. ParentSet(u3, u4, l, y)
  <2>1. u3 \in Trees /\ l \in N0 BY <1>1, <1>12 DEF N0, FilledRest
  <2> QED BY <1>1, <2>1, SetParentFields
<1> HIDE DEF u4
<1>14. Filled(u4, v, n, NULL, NULL, NULL, "red")
  <2>1. u4 \in Trees BY <1>13 DEF ParentSet
  <2>2. v = Fill(u4, n, NULL, NULL, NULL, "red") BY DEF Forget, Fill
  <2> QED BY <1>1, <2>1, <2>2, FillFields
<1> HIDE DEF v
<1>15. \A m \in Nodes : v.parent[m] = IF m = n THEN NULL ELSE IF m = l THEN y ELSE IF m = y THEN p
                                      ELSE u2.parent[m]
  BY <1>12, <1>13, <1>14 DEF ParentSet, Filled, FilledRest
<1>16. \A m \in Nodes : v.color[m] = IF m = n THEN "red" ELSE IF m = y THEN c ELSE u.color[m]
  BY <1>11, <1>12, <1>13, <1>14 DEF ParentSet, Filled, FilledRest
<1>17. \A m \in Nodes :
         /\ v["left"][m] = IF m = n THEN NULL ELSE IF m = y THEN l ELSE u2["left"][m]
         /\ v["right"][m] = IF m = n THEN NULL ELSE u2["right"][m]
  <2>1. \A m \in Nodes, e \in Sides : v[e][m] = IF m = n THEN NULL ELSE u3[e][m]
    BY <1>13, <1>14 DEF ParentSet, Filled
  <2> QED BY <2>1, <1>12, OppSides DEF FilledRest
<1>18. v \in Trees /\ v.root = (IF w.root = n THEN y ELSE w.root)
  BY <1>8, <1>9, <1>10, <1>11, <1>12, <1>13, <1>14 DEF Relinked, ParentSet, Filled, FilledRest, p
<1>19. \A m \in Nodes : v.parent[m] = IF m = n THEN NULL ELSE IF m = y THEN w.parent[n]
                                      ELSE IF w.parent[m] = n THEN y ELSE w.parent[m]
  <2>1. w.parent[n] = p BY <1>1, <1>4, <1>10 DEF p
  <2>2. CASE q = n BY <2>1, <2>2, <1>1, <1>3, <1>4, <1>5, <1>6, <1>7, <1>10, <1>11, <1>15
  <2>3. CASE q # n BY <2>1, <2>3, <1>1, <1>3, <1>4, <1>5, <1>6, <1>7, <1>10, <1>11, <1>15
  <2> QED BY <2>2, <2>3
<1>20. \A m \in Nodes : v.color[m] = IF m = n THEN "red" ELSE IF m = y THEN w.color[n]
                                     ELSE w.color[m]
  BY <1>10, <1>16 DEF c
<1>21. \A e \in Sides, m \in Nodes :
         u1[e][m] = IF u[e][m] = n THEN y ELSE u[e][m]
  BY <1>9 DEF Relinked
<1>22. \A m \in Nodes :
         v["left"][m] = IF m = n THEN NULL ELSE IF m = y THEN w["left"][n]
                        ELSE IF w["left"][m] = n THEN y ELSE w["left"][m]
  <2>1. w["left"][n] = l BY <1>5, <1>10, OppSides DEF l
  <2>2. CASE q = n
    BY <2>1, <2>2, <1>1, <1>3, <1>4, <1>10, <1>11, <1>17, <1>21, OppSides
  <2>3. CASE q # n
    <3>1. u["left"][q] = y BY <2>3 DEF q
    <3>2. \A m \in Nodes : u["left"][m] = y <=> m = q BY <3>1, <1>3, OppSides
    <3> QED BY <2>1, <2>3, <3>1, <3>2, <1>1, <1>3, <1>4, <1>10, <1>11, <1>17, <1>21, OppSides
  <2> QED BY <2>2, <2>3
<1>23. \A m \in Nodes :
         v["right"][m] = IF m = n THEN NULL ELSE IF m = y THEN w["right"][n]
                        ELSE IF w["right"][m] = n THEN y ELSE w["right"][m]
  <2>1. w["right"][n] = IF q = n THEN ry ELSE rn BY <1>6, <1>10, OppSides DEF rn
  <2>2. u["right"][y] = ry /\ u["right"][n] = rn BY DEF ry, rn
  <2>3. CASE q = n
    <3>1. \A m \in Nodes : u["right"][m] = y <=> m = n BY <2>2, <2>3, <1>3, <1>6, OppSides
    <3> QED BY <2>1, <2>2, <2>3, <3>1, <1>1, <1>3, <1>4, <1>10, <1>11, <1>17, <1>21, OppSides
  <2>4. CASE q # n
    <3>1. \A m \in Nodes : u["right"][m] # y BY <2>4, <1>3, OppSides
    <3> QED BY <2>1, <2>2, <2>4, <3>1, <1>1, <1>3, <1>4, <1>10, <1>11, <1>17, <1>21, OppSides
  <2> QED BY <2>3, <2>4
<1>24. Renamed(w, v, n, y) BY <1>18, <1>19, <1>20, <1>22, <1>23 DEF Renamed, Sides
<1> QED BY <1>2, <1>24

\* The sets of the subtrees with b in the place of a.
Swapped(B, a, b) ==
  [x \in Nodes |->
    IF x = a THEN {a}
    ELSE {m \in Nodes \ {a} : (IF m = b THEN a ELSE m) \in B[IF x = b THEN a ELSE x]}]

\* A node that takes the place of another of the same neighbours leaves a tree.
LEMMA RenamedShape ==
  ASSUME RBTreeAssumption, FiniteNodes, NEW u, NEW B, Shape(u, B), NEW a \in Nodes, In(u, a),
         NEW b \in Nodes, ~In(u, b),
         \A m \in Nodes \ {a}, e \in Sides : In(u, m) /\ Before(e, m, a) => Before(e, m, b),
         NEW v, Renamed(u, v, a, b)
  PROVE  /\ Shape(v, Swapped(B, a, b))
         /\ \A m \in Nodes : In(v, m) <=> (In(u, m) /\ m # a) \/ m = b
<1> DEFINE old(x) == IF x = b THEN a ELSE x
           new(x) == IF x = a THEN b ELSE x
           C == Swapped(B, a, b)
<1>1. /\ u \in Trees /\ a # NULL /\ b # NULL /\ a # b /\ NULL \notin Nodes
      /\ \A m \in Nodes, e \in Sides : u[e][m] \in N0
      /\ \A m \in Nodes : u.parent[m] \in N0
      /\ u.root \in N0
  BY Fields DEF Shape, RBTreeAssumption
<1>2. /\ b # u.root /\ u.parent[b] = NULL
      /\ \A e \in Sides : u[e][b] = NULL
      /\ \A m \in Nodes : u.parent[m] # b
      /\ \A m \in Nodes, e \in Sides : u[e][m] # b
  BY Outsider
<1>3. /\ \A e \in Sides : u[e][a] # a
      /\ u.parent[a] # a
  <2>1. \A e \in Sides : u[e][a] # a BY Kin DEF RBTreeAssumption
  <2>2. u.parent[a] # a
    <3>1. \A m \in Nodes : u.parent[m] # NULL => \E e \in Sides : u[e][u.parent[m]] = m
      BY DEF Shape, Pointers
    <3> QED BY <3>1, <2>1, <1>1
  <2> QED BY <2>1, <2>2
<1>4. /\ v \in Trees /\ v.root = new(u.root)
      /\ \A m \in Nodes \ {a} : v.parent[m] = new(u.parent[old(m)])
      /\ \A m \in Nodes \ {a}, e \in Sides : v[e][m] = new(u[e][old(m)])
      /\ v.parent[a] = NULL /\ \A e \in Sides : v[e][a] = NULL
  BY <1>1, <1>3 DEF Renamed
<1>5. /\ \A x \in Nodes : old(x) \in Nodes \ {b} /\ new(x) \in Nodes \ {a}
      /\ \A x \in Nodes \ {a} : new(old(x)) = x
      /\ \A x \in N0 \ {b} : old(new(x)) = x /\ (x = NULL <=> new(x) = NULL)
      /\ new(NULL) = NULL /\ new(a) = b
  BY <1>1 DEF N0
<1>6. /\ C \in [Nodes -> SUBSET Nodes] /\ C[a] = {a}
      /\ \A x \in Nodes \ {a} : \A m \in Nodes : m \in C[x] <=> m # a /\ old(m) \in B[old(x)]
  BY DEF Swapped
<1>7. ~In(v, a) BY <1>1, <1>4 DEF In
<1>8. \A m \in Nodes \ {a} : In(v, m) <=> In(u, old(m))
  <2> SUFFICES ASSUME NEW m \in Nodes \ {a} PROVE In(v, m) <=> In(u, old(m)) OBVIOUS
  <2>1. m = v.root <=> old(m) = u.root BY <1>1, <1>2, <1>4
  <2>2. v.parent[m] = NULL <=> u.parent[old(m)] = NULL BY <1>1, <1>4
  <2> QED BY <2>1, <2>2 DEF In
<1>9. \A m \in Nodes : In(v, m) <=> (In(u, m) /\ m # a) \/ m = b
  BY <1>1, <1>7, <1>8
<1>10. /\ \A m \in Nodes, e \in Sides : u[e][m] # NULL => u.parent[u[e][m]] = m
       /\ \A m \in Nodes : u.parent[m] # NULL => \E e \in Sides : u[e][u.parent[m]] = m
       /\ u.root # NULL => u.parent[u.root] = NULL
       /\ \A m \in Nodes, e \in Sides : ~In(u, m) => u[e][m] = NULL
  BY DEF Shape, Pointers
<1>11. /\ B \in [Nodes -> SUBSET Nodes]
       /\ \A m \in Nodes : m \in B[m]
       /\ \A m \in Nodes, e \in Sides : u[e][m] # NULL =>
            \A x \in B[u[e][m]] : x \in B[m] /\ Before(e, x, m)
       /\ \A m \in Nodes : \A x \in B[m] :
            x = m \/ \E e \in Sides : u[e][m] # NULL /\ x \in B[u[e][m]]
       /\ \A m \in Nodes : In(u, m) <=> u.root # NULL /\ m \in B[u.root]
  BY DEF Shape, Subtrees
<1> HIDE DEF C
<1>12. Pointers(v)
  <2>1. v.root # NULL => v.parent[v.root] = NULL
    <3> SUFFICES ASSUME v.root # NULL PROVE v.parent[v.root] = NULL OBVIOUS
    <3>1. u.root # NULL /\ u.root \in Nodes BY <1>1, <1>4 DEF N0
    <3>2. old(v.root) = u.root /\ v.root \in Nodes \ {a} BY <3>1, <1>1, <1>2, <1>4
    <3> QED BY <3>1, <3>2, <1>1, <1>4, <1>10
  <2>2. ASSUME NEW m \in Nodes, NEW e \in Sides, v[e][m] # NULL PROVE v.parent[v[e][m]] = m
    <3>1. m # a BY <2>2, <1>4
    <3> DEFINE c == u[e][old(m)]
    <3>2. c \in Nodes /\ c # NULL /\ c # b /\ v[e][m] = new(c)
      BY <2>2, <3>1, <1>1, <1>2, <1>4 DEF N0
    <3>3. u.parent[c] = old(m) BY <3>1, <3>2, <1>5, <1>10
    <3>4. v.parent[new(c)] = new(u.parent[old(new(c))]) BY <3>2, <1>4, <1>5
    <3>5. old(new(c)) = c BY <3>2
    <3>6. new(old(m)) = m BY <3>1, <1>5
    <3> QED BY <3>2, <3>3, <3>4, <3>5, <3>6
  <2>3. ASSUME NEW m \in Nodes, v.parent[m] # NULL PROVE \E e \in Sides : v[e][v.parent[m]] = m
    <3>1. m # a BY <2>3, <1>4
    <3> DEFINE c == u.parent[old(m)]
    <3>2. c \in Nodes /\ c # NULL /\ c # b /\ v.parent[m] = new(c)
      BY <2>3, <3>1, <1>1, <1>2, <1>4 DEF N0
    <3>3. PICK e \in Sides : u[e][c] = old(m) BY <3>1, <3>2, <1>5, <1>10
    <3>4. v[e][new(c)] = new(u[e][old(new(c))]) BY <3>2, <1>4, <1>5
    <3>5. old(new(c)) = c BY <3>2
    <3>6. new(old(m)) = m BY <3>1, <1>5
    <3> QED BY <3>2, <3>3, <3>4, <3>5, <3>6
  <2>4. ASSUME NEW m \in Nodes, NEW e \in Sides, ~In(v, m) PROVE v[e][m] = NULL
    <3>1. CASE m = a BY <3>1, <1>4
    <3>2. CASE m # a
      <4>1. u[e][old(m)] = NULL BY <2>4, <3>2, <1>5, <1>8, <1>10
      <4> QED BY <3>2, <4>1, <1>1, <1>4
    <3> QED BY <3>1, <3>2
  <2> QED BY <2>1, <2>2, <2>3, <2>4 DEF Pointers
<1>13. Subtrees(v, C)
  <2>1. \A m \in Nodes : m \in C[m] BY <1>5, <1>6, <1>11
  <2>2. ASSUME NEW m \in Nodes, NEW e \in Sides, v[e][m] # NULL, NEW x \in C[v[e][m]]
        PROVE  x \in C[m] /\ Before(e, x, m)
    <3>1. m # a BY <2>2, <1>4
    <3> DEFINE c == u[e][old(m)]
    <3>2. c \in Nodes /\ c # NULL /\ c # b /\ v[e][m] = new(c) /\ new(c) \in Nodes \ {a}
      BY <2>2, <3>1, <1>1, <1>2, <1>4 DEF N0
    <3>3. x \in Nodes /\ x # a /\ old(x) \in B[c] BY <2>2, <3>2, <1>5, <1>6
    <3>4. old(m) \in Nodes /\ old(x) \in Nodes BY <3>1, <3>3, <1>5
    <3>5. old(x) \in B[old(m)] /\ Before(e, old(x), old(m)) BY <3>2, <3>3, <3>4, <1>11
    <3>6. x \in C[m] BY <3>1, <3>3, <3>5, <1>6
    <3>7. Before(e, x, m)
      <4>1. In(u, old(m)) BY <3>2, <3>4, <1>10
      <4>2. In(u, old(x)) BY <3>4, <3>5, <4>1, Below
      <4>3. old(x) # old(m) BY <3>4, <3>5, BeforeOrder
      <4>4. CASE x = b
        <5>1. m # b /\ old(m) = m /\ old(x) = a BY <4>3, <4>4
        <5>2. Before(Opp(e), m, a) /\ Opp(e) \in Sides BY <3>5, <5>1, OppSides, BeforeOrder
        <5>3. Before(Opp(e), m, b) BY <3>1, <4>1, <5>1, <5>2
        <5> QED BY <4>4, <5>3, BeforeOrder
      <4>5. CASE x # b /\ m = b BY <3>3, <3>5, <4>2, <4>5
      <4>6. CASE x # b /\ m # b BY <3>5, <4>6
      <4> QED BY <4>4, <4>5, <4>6
    <3> QED BY <3>6, <3>7
  <2>3. ASSUME NEW m \in Nodes, NEW x \in C[m], x # m
        PROVE  \E e \in Sides : v[e][m] # NULL /\ x \in C[v[e][m]]
    <3>1. m # a /\ x \in Nodes /\ x # a /\ old(x) \in B[old(m)] BY <2>3, <1>6
    <3>2. old(x) # old(m) BY <2>3, <3>1
    <3>3. PICK e \in Sides : u[e][old(m)] # NULL /\ old(x) \in B[u[e][old(m)]]
      BY <3>1, <3>2, <1>5, <1>11
    <3> DEFINE c == u[e][old(m)]
    <3>4. c \in Nodes /\ c # b /\ v[e][m] = new(c) BY <3>1, <3>3, <1>1, <1>2, <1>4 DEF N0
    <3>5. new(c) \in Nodes \ {a} /\ old(new(c)) = c /\ new(c) # NULL BY <3>4, <1>1
    <3>6. x \in C[new(c)] BY <3>1, <3>3, <3>5, <1>6
    <3> QED BY <3>4, <3>5, <3>6
  <2>4. ASSUME NEW m \in Nodes PROVE In(v, m) <=> v.root # NULL /\ m \in C[v.root]
    <3>1. u.root # NULL /\ u.root \in Nodes /\ u.root # b BY <1>1, <1>2, <1>11 DEF N0
    <3>2. v.root = new(u.root) /\ v.root \in Nodes \ {a} /\ v.root # NULL /\ old(v.root) = u.root
      BY <3>1, <1>1, <1>4
    <3>3. CASE m = a BY <3>2, <3>3, <1>6, <1>7
    <3>4. CASE m # a
      <4>1. In(v, m) <=> old(m) \in B[u.root] BY <3>1, <3>4, <1>5, <1>8, <1>11
      <4> QED BY <3>2, <3>4, <4>1, <1>6
    <3> QED BY <3>3, <3>4
  <2> QED BY <1>6, <2>1, <2>2, <2>3, <2>4 DEF Subtrees
<1> QED BY <1>4, <1>9, <1>12, <1>13 DEF Shape, C

-----------------------------------------------------------------------------
(* Searches                                                                *)

\* Down on one side as far as it goes: the extreme node of a subtree.
LEMMA Extreme ==
  ASSUME RBTreeAssumption, FiniteNodes, NEW u, NEW B, Shape(u, B), NEW d \in Sides,
         NEW g, \A x \in Nodes : g[x] = IF u[d][x] = NULL THEN x ELSE g[u[d][x]]
  PROVE  \A x \in Nodes :
           /\ g[x] \in B[x] /\ g[x] \in Nodes
           /\ u[d][g[x]] = NULL
           /\ \A m \in B[x] : m = g[x] \/ Before(d, g[x], m)
           /\ g[x] # x => u.parent[g[x]] \in B[x] /\ u[d][u.parent[g[x]]] = g[x]
<1> DEFINE P(x) == /\ g[x] \in B[x] /\ g[x] \in Nodes
                   /\ u[d][g[x]] = NULL
                   /\ \A m \in B[x] : m = g[x] \/ Before(d, g[x], m)
                   /\ g[x] # x => u.parent[g[x]] \in B[x] /\ u[d][u.parent[g[x]]] = g[x]
           S == {x \in Nodes : ~P(x)}
<1>1. /\ B \in [Nodes -> SUBSET Nodes]
      /\ \A m \in Nodes : m \in B[m]
      /\ \A m \in Nodes, e \in Sides : u[e][m] # NULL =>
           \A x \in B[u[e][m]] : x \in B[m] /\ Before(e, x, m)
      /\ \A m \in Nodes : \A x \in B[m] :
           x = m \/ \E e \in Sides : u[e][m] # NULL /\ x \in B[u[e][m]]
  BY DEF Shape, Subtrees
<1>2. SUFFICES ASSUME S # {} PROVE FALSE OBVIOUS
<1>3. PICK x \in S : \A e \in Sides : u[e][x] \notin S
  <2> HIDE DEF S
  <2>1. S \in SUBSET Nodes BY DEF S
  <2> QED BY <1>2, <2>1, NoRing
<1>4. x \in Nodes /\ ~P(x) OBVIOUS
<1>5. CASE u[d][x] = NULL
  <2>1. g[x] = x BY <1>4, <1>5
  <2>2. \A m \in B[x] : m = x \/ Before(d, x, m)
    <3> SUFFICES ASSUME NEW m \in B[x], m # x PROVE Before(d, x, m) OBVIOUS
    <3>1. PICK e \in Sides : u[e][x] # NULL /\ m \in B[u[e][x]] BY <1>1, <1>4
    <3>2. e = Opp(d) BY <1>5, <3>1, OppSides
    <3>3. m \in Nodes /\ Before(Opp(d), m, x) BY <1>1, <1>4, <3>1, <3>2
    <3> QED BY <1>4, <3>3, BeforeOrder
  <2> QED BY <1>1, <1>4, <1>5, <2>1, <2>2
<1>6. CASE u[d][x] # NULL
  <2> DEFINE c == u[d][x]
  <2>1. c \in Nodes /\ u.parent[c] = x /\ c \in B[x] BY <1>4, <1>6, Kin
  <2>2. g[x] = g[c] /\ P(c) BY <1>3, <1>4, <1>6, <2>1
  <2>3. B[c] \subseteq B[x] /\ \A m \in B[c] : Before(d, m, x) BY <1>1, <1>4, <1>6
  <2>4. g[x] \in B[x] /\ g[x] \in Nodes /\ u[d][g[x]] = NULL BY <2>2, <2>3
  <2>5. \A m \in B[x] : m = g[x] \/ Before(d, g[x], m)
    <3> SUFFICES ASSUME NEW m \in B[x], m # g[x] PROVE Before(d, g[x], m) OBVIOUS
    <3>1. Before(d, g[x], x) BY <2>2, <2>3
    <3>2. CASE m = x BY <3>1, <3>2
    <3>3. CASE m \in B[c] BY <3>3, <2>2
    <3>4. CASE m # x /\ m \notin B[c]
      <4>1. PICK e \in Sides : u[e][x] # NULL /\ m \in B[u[e][x]] BY <1>1, <1>4, <3>4
      <4>2. e = Opp(d) BY <3>4, <4>1, OppSides
      <4>3. m \in Nodes /\ Before(Opp(d), m, x) BY <1>1, <1>4, <4>1, <4>2
      <4>4. Before(d, x, m) BY <1>4, <4>3, BeforeOrder
      <4> QED BY <1>4, <2>4, <3>1, <4>3, <4>4, BeforeOrder
    <3> QED BY <3>2, <3>3, <3>4
  <2>6. g[x] # x => u.parent[g[x]] \in B[x] /\ u[d][u.parent[g[x]]] = g[x]
    <3>1. CASE g[c] = c BY <2>1, <2>2, <3>1, <1>1, <1>4
    <3>2. CASE g[c] # c BY <2>2, <2>3, <3>2
    <3> QED BY <3>1, <3>2
  <2> QED BY <1>4, <2>4, <2>5, <2>6
<1> QED BY <1>5, <1>6

\* The descent on one side ends.
LEMMA ExtremeExists ==
  ASSUME RBTreeAssumption, FiniteNodes, NEW u, NEW B, Shape(u, B), NEW d \in Sides
  PROVE  \E g : g = [x \in Nodes |-> IF u[d][x] = NULL THEN x ELSE g[u[d][x]]]
<1> DEFINE base == {x \in Nodes : u[d][x] = NULL}
           a == [x \in Nodes |-> x]
           next == u[d]
<1>1. \A x \in Nodes \ base : next[x] \in Nodes BY Fields DEF Shape, N0
<1>2. EndsIn(base, next)
  <2>1. \A S \in SUBSET Nodes : S # {} => \E n \in S : n \in base \/ next[n] \notin S
    BY NoRing
  <2> QED BY <1>1, <2>1 DEF EndsIn
<1>3. a \in [Nodes -> N0] BY DEF N0
<1>4. base \in SUBSET Nodes OBVIOUS
<1> HIDE DEF base, a, next
<1>5. PICK f \in [Nodes -> N0] : Descent(f, base, a, next)
  BY <1>2, <1>3, <1>4, DescentExists
<1>6. f = [x \in Nodes |-> IF u[d][x] = NULL THEN x ELSE f[u[d][x]]]
  BY <1>5 DEF base, a, next, Descent
<1> QED BY <1>6

\* The successor that rb_erase looks for.
LEMMA LeftmostIs ==
  ASSUME RBTreeAssumption, FiniteNodes, NEW u, NEW B, Shape(u, B), NEW n \in Nodes
  PROVE  LET y == Leftmost(u, n)
         IN  /\ y \in B[n] /\ y \in Nodes
             /\ u["left"][y] = NULL
             /\ \A m \in B[n] : m = y \/ Before("left", y, m)
             /\ y # n => u.parent[y] \in B[n] /\ u["left"][u.parent[y]] = y
<1> DEFINE F(f) == [x \in Nodes |-> IF u.left[x] = NULL THEN x ELSE f[u.left[x]]]
           g == CHOOSE f : f = F(f)
<1>1. u.left = u["left"] BY Fields DEF Shape
<1>2. \E f : f = F(f) BY <1>1, ExtremeExists, OppSides
<1>3. Leftmost(u, n) = g[n] BY DEF Leftmost
<1>4. g = F(g)
  <2> HIDE DEF F
  <2> QED BY <1>2
<1> HIDE DEF g
<1>5. \A x \in Nodes : g[x] = IF u["left"][x] = NULL THEN x ELSE g[u["left"][x]]
  BY <1>1, <1>4
<1> QED BY <1>3, <1>5, Extreme, OppSides

\* Where the search for a key ends.
LEMMA SearchStopIs ==
  ASSUME RBTreeAssumption, FiniteNodes, NEW u, NEW B, Shape(u, B), NEW k \in Int,
         u.root # NULL
  PROVE  LET p == SearchStop(u, k)
         IN  /\ p \in Nodes /\ In(u, p)
             /\ Key[p] # k =>
                  /\ u[IF k < Key[p] THEN "left" ELSE "right"][p] = NULL
                  /\ \A x \in Nodes, e \in Sides :
                       In(u, x) /\ u[e][x] # NULL /\ p \in B[u[e][x]] =>
                         IF e = "left" THEN k < Key[x] ELSE Key[x] < k
<1> DEFINE D(x) == IF k < Key[x] THEN "left" ELSE "right"
           F(f) == [x \in Nodes |-> LET d == D(x)
                                    IN  IF Key[x] = k \/ u[d][x] = NULL THEN x ELSE f[u[d][x]]]
           g == CHOOSE f : f = F(f)
<1>1. u \in Trees /\ u.root \in Nodes BY Fields DEF Shape, N0
<1>2. SearchStop(u, k) = g[u.root] BY DEF SearchStop
<1>3. \E f : f = F(f)
  <2> DEFINE base == {x \in Nodes : Key[x] = k \/ u[D(x)][x] = NULL}
             a == [x \in Nodes |-> x]
             next == [x \in Nodes |-> u[D(x)][x]]
  <2>1. \A x \in Nodes : D(x) \in Sides BY OppSides
  <2> HIDE DEF D
  <2>2. \A x \in Nodes \ base : next[x] \in Nodes BY <1>1, <2>1, Fields DEF N0
  <2>3. \A S \in SUBSET Nodes : S # {} => \E n \in S : n \in base \/ next[n] \notin S
    <3> SUFFICES ASSUME NEW S \in SUBSET Nodes, S # {}
                 PROVE  \E n \in S : n \in base \/ next[n] \notin S
      OBVIOUS
    <3>1. PICK n \in S : \A d \in Sides : u[d][n] \notin S BY NoRing
    <3> QED BY <3>1, <2>1
  <2>4. a \in [Nodes -> N0] BY DEF N0
  <2>5. base \in SUBSET Nodes OBVIOUS
  <2> HIDE DEF base, a, next
  <2>6. PICK f \in [Nodes -> N0] : Descent(f, base, a, next)
    <3>1. EndsIn(base, next) BY <2>2, <2>3 DEF EndsIn
    <3> QED BY <2>4, <2>5, <3>1, DescentExists
  <2>7. f = F(f) BY <2>6 DEF base, a, next, Descent
  <2> QED BY <2>7
<1>4. g = F(g)
  <2> HIDE DEF F
  <2> QED BY <1>3
<1> HIDE DEF g
<1>5. \A x \in Nodes : g[x] = IF Key[x] = k \/ u[D(x)][x] = NULL THEN x ELSE g[u[D(x)][x]]
  BY <1>4
<1> HIDE DEF F
<1>6. \A x \in Nodes : D(x) \in Sides BY OppSides
<1> DEFINE Right(x, e) == IF e = "left" THEN k < Key[x] ELSE Key[x] < k
           P(z) == /\ g[z] \in B[z] /\ g[z] \in Nodes
                   /\ Key[g[z]] # k =>
                        /\ u[D(g[z])][g[z]] = NULL
                        /\ \A x \in B[z], e \in Sides :
                             u[e][x] # NULL /\ g[z] \in B[u[e][x]] => Right(x, e)
           S == {z \in Nodes : ~P(z)}
<1>7. /\ B \in [Nodes -> SUBSET Nodes]
      /\ \A m \in Nodes : m \in B[m]
      /\ \A m \in Nodes, e \in Sides : u[e][m] # NULL =>
           \A x \in B[u[e][m]] : x \in B[m] /\ Before(e, x, m)
      /\ \A m \in Nodes : \A x \in B[m] :
           x = m \/ \E e \in Sides : u[e][m] # NULL /\ x \in B[u[e][m]]
  BY DEF Shape, Subtrees
<1>8. S = {}
  <2> SUFFICES ASSUME S # {} PROVE FALSE OBVIOUS
  <2>1. PICK z \in S : \A e \in Sides : u[e][z] \notin S
    <3> HIDE DEF S
    <3>1. S \in SUBSET Nodes BY DEF S
    <3> QED BY <3>1, NoRing
  <2>2. z \in Nodes /\ ~P(z) OBVIOUS
  <2>3. CASE Key[z] = k \/ u[D(z)][z] = NULL
    <3>1. g[z] = z BY <1>5, <2>2, <2>3
    <3>2. \A x \in B[z], e \in Sides : ~(u[e][x] # NULL /\ z \in B[u[e][x]])
      <4> SUFFICES ASSUME NEW x \in B[z], NEW e \in Sides, u[e][x] # NULL, z \in B[u[e][x]]
                   PROVE FALSE
        OBVIOUS
      <4>1. x \in Nodes BY <1>7, <2>2
      <4>2. B[z] \subseteq B[u[e][x]] BY <4>1, Kin, SubtreeOf
      <4>3. x \notin B[u[e][x]] BY <4>1, Kin
      <4> QED BY <4>2, <4>3
    <3> QED BY <1>7, <2>2, <2>3, <3>1, <3>2
  <2>4. CASE Key[z] # k /\ u[D(z)][z] # NULL
    <3> DEFINE d == D(z)
               c == u[d][z]
    <3>1. d \in Sides BY <1>6, <2>2
    <3>2. c \in Nodes BY <2>2, <2>4, <3>1, Kin
    <3>3. g[z] = g[c] /\ P(c) BY <1>5, <2>1, <2>2, <2>4, <3>1, <3>2
    <3>4. B[c] \subseteq B[z] /\ \A m \in B[c] : Before(d, m, z) BY <1>7, <2>2, <2>4, <3>1
    <3>5. ASSUME Key[g[z]] # k, NEW x \in B[z], NEW e \in Sides, u[e][x] # NULL, g[z] \in B[u[e][x]]
          PROVE  Right(x, e)
      <4>1. x \in Nodes BY <1>7, <2>2
      <4>2. CASE x = z
        <5>1. Before(e, g[z], z) BY <1>7, <2>2, <3>5, <4>2
        <5>2. Before(d, g[z], z) BY <3>3, <3>4
        <5>3. e = d
          <6>1. CASE e = Opp(d)
            <7>1. ~(Before(d, g[z], z) /\ Before(d, z, g[z])) BY <2>2, <3>1, <3>3, BeforeOrder
            <7>2. Before(d, z, g[z]) BY <2>2, <3>1, <3>3, <5>1, <6>1, BeforeOrder
            <7> QED BY <5>2, <7>1, <7>2
          <6> QED BY <3>1, <6>1, OppSides
        <5>4. Key[z] \in Int BY <2>2 DEF RBTreeAssumption
        <5> QED BY <4>2, <5>3, <5>4, <2>4
      <4>3. CASE x # z /\ x \in B[c] BY <3>3, <3>5, <4>3
      <4>4. CASE x # z /\ x \notin B[c]
        <5>1. PICK f \in Sides : u[f][z] # NULL /\ x \in B[u[f][z]] BY <1>7, <2>2, <4>4
        <5>2. f # d /\ f = Opp(d) BY <3>1, <4>4, <5>1, OppSides
        <5>3. g[z] \in B[x] BY <1>7, <3>5, <4>1
        <5>4. u[f][z] \in Nodes BY <2>2, <5>1, Kin
        <5>5. g[z] \in B[u[f][z]] BY <5>1, <5>3, <5>4, SubtreeOf
        <5>6. Before(f, g[z], z) BY <1>7, <2>2, <5>1, <5>5
        <5>7. Before(d, g[z], z) BY <3>3, <3>4
        <5>8. Before(d, z, g[z]) BY <2>2, <3>1, <3>3, <5>2, <5>6, BeforeOrder
        <5> QED BY <2>2, <3>1, <3>3, <5>7, <5>8, BeforeOrder
      <4> QED BY <4>2, <4>3, <4>4
    <3> QED BY <2>2, <3>3, <3>4, <3>5
  <2> QED BY <2>3, <2>4
<1>9. P(u.root) BY <1>1, <1>8
<1>10. In(u, g[u.root]) BY <1>1, <1>9 DEF Shape, Subtrees
<1>11. \A x \in Nodes : In(u, x) => x \in B[u.root] BY DEF Shape, Subtrees
<1> QED BY <1>1, <1>2, <1>9, <1>10, <1>11

-----------------------------------------------------------------------------
(* Colours and heights                                                     *)

\* v is u with other colours.
SamePointers(u, v) ==
  /\ v \in Trees /\ v.root = u.root /\ v.parent = u.parent
  /\ \A e \in Sides : v[e] = u[e]

\* Colours do not matter to the shape.
LEMMA SameShape ==
  ASSUME NEW u, NEW B, Shape(u, B), NEW v, SamePointers(u, v)
  PROVE  Shape(v, B) /\ \A n \in Nodes : In(v, n) <=> In(u, n)
<1>1. \A n \in Nodes : In(v, n) <=> In(u, n) BY DEF SamePointers, In
<1>2. Pointers(v) BY <1>1 DEF Shape, Pointers, SamePointers
<1>3. Subtrees(v, B) BY <1>1 DEF Shape, Subtrees, SamePointers
<1> QED BY <1>1, <1>2, <1>3 DEF Shape, SamePointers

\* v is u with another colour of n.
Painted(u, v, n, c) ==
  SamePointers(u, v) /\ \A m \in Nodes : v.color[m] = IF m = n THEN c ELSE u.color[m]

\* An assignment to a colour.
LEMMA PaintFields ==
  ASSUME NEW u \in Trees, NEW n \in Nodes, NEW c \in {"red", "black"}
  PROVE  Painted(u, SetColor(u, n, c), n, c)
BY SMTT(10) DEF Trees, Sides, SetColor, N0, Painted, SamePointers

\* Two of them.
LEMMA PaintTwo ==
  ASSUME NEW u \in Trees, NEW a \in Nodes, NEW b \in Nodes,
         NEW x \in {"red", "black"}, NEW y \in {"red", "black"}
  PROVE  LET v == SetColor(SetColor(u, a, x), b, y)
         IN  /\ SamePointers(u, v)
             /\ \A m \in Nodes : v.color[m] = IF m = b THEN y ELSE IF m = a THEN x ELSE u.color[m]
<1> DEFINE w == SetColor(u, a, x)
           v == SetColor(w, b, y)
<1>1. Painted(u, w, a, x) BY PaintFields
<1> HIDE DEF w
<1>2. Painted(w, v, b, y)
  <2>1. w \in Trees BY <1>1 DEF Painted, SamePointers
  <2> QED BY <2>1, PaintFields
<1> HIDE DEF v
<1>3. SamePointers(u, v) BY <1>1, <1>2 DEF Painted, SamePointers
<1>4. \A m \in Nodes : v.color[m] = IF m = b THEN y ELSE IF m = a THEN x ELSE u.color[m]
  BY <1>1, <1>2 DEF Painted
<1> QED BY <1>3, <1>4 DEF v, w

\* v is u with other colours at a, b and c.
ThreePainted(u, v, a, x, b, y, c, z) ==
  /\ SamePointers(u, v)
  /\ \A m \in Nodes : v.color[m] = IF m = c THEN z ELSE IF m = b THEN y
                                   ELSE IF m = a THEN x ELSE u.color[m]

\* Three of them.
LEMMA PaintThree ==
  ASSUME NEW u \in Trees, NEW a \in Nodes, NEW b \in Nodes, NEW c \in Nodes,
         NEW x \in {"red", "black"}, NEW y \in {"red", "black"}, NEW z \in {"red", "black"}
  PROVE  ThreePainted(u, SetColor(SetColor(SetColor(u, a, x), b, y), c, z), a, x, b, y, c, z)
<1> DEFINE w == SetColor(SetColor(u, a, x), b, y)
           v == SetColor(w, c, z)
<1>1. /\ SamePointers(u, w)
      /\ \A m \in Nodes : w.color[m] = IF m = b THEN y ELSE IF m = a THEN x ELSE u.color[m]
  BY PaintTwo
<1> HIDE DEF w
<1>2. Painted(w, v, c, z)
  <2>1. w \in Trees BY <1>1 DEF SamePointers
  <2> QED BY <2>1, PaintFields
<1> HIDE DEF v
<1>3. SamePointers(u, v) BY <1>1, <1>2 DEF Painted, SamePointers
<1>4. \A m \in Nodes : v.color[m] = IF m = c THEN z ELSE IF m = b THEN y
                                    ELSE IF m = a THEN x ELSE u.color[m]
  BY <1>1, <1>2 DEF Painted
<1> QED BY <1>3, <1>4 DEF v, w, ThreePainted

\* No red node is the root or has a red parent, but for the nodes of X.
RedOK(u, X) ==
  \A n \in Nodes : IsRed(u, n) /\ (n = u.root \/ IsRed(u, u.parent[n])) => n \in X

\* What a node counts for.
Bl(u, n) == IF IsBlack(u, n) THEN 1 ELSE 0

\* The height of a subtree that may be empty.
Ht(h, n) == IF n = NULL THEN 0 ELSE h[n]

\* What is owed at side e of n, if it is at side s of p.
Owes(p, s, n, e) == IF n = p /\ e = s THEN 1 ELSE 0

\* h counts the black nodes on each path down; one more is owed on side s of p.
HeightAt(u, h, p, s, n, e) == h[n] = Bl(u, n) + Ht(h, u[e][n]) + Owes(p, s, n, e)
Heights(u, h, p, s) ==
  h \in [Nodes -> Nat] /\ \A n \in Nodes, e \in Sides : HeightAt(u, h, p, s, n, e)

\* A node counts as one black node or none.
LEMMA BlType ==
  ASSUME RBTreeAssumption, NEW u, NEW n \in Nodes
  PROVE  /\ Bl(u, n) \in Nat
         /\ Bl(u, n) = IF u.color[n] = "red" THEN 0 ELSE 1
BY DEF Bl, IsBlack, IsRed, RBTreeAssumption

\* Heights are natural numbers.
LEMMA HtType ==
  ASSUME NEW h \in [Nodes -> Nat], NEW n \in N0
  PROVE  Ht(h, n) \in Nat
BY DEF Ht, N0

\* After a rotation and changes at the nodes that turned, and at x below them,
\* the rest of the tree is as before.
LEMMA RotatedHeights ==
  ASSUME RBTreeAssumption, NEW u, NEW B, Shape(u, B), NEW n \in Nodes, NEW d \in Sides,
         u[Opp(d)][n] # NULL, NEW v, Rotated(u, v, n, d),
         NEW h, NEW p, NEW s, Heights(u, h, p, s), NEW p2, NEW s2,
         NEW x \in Nodes, x = n \/ u[Opp(d)][u[Opp(d)][n]] = x,
         NEW h2 \in [Nodes -> Nat], h2[u[Opp(d)][n]] = h[n],
         \A m \in Nodes \ {n, u[Opp(d)][n], x} :
           /\ h2[m] = h[m] /\ v.color[m] = u.color[m]
           /\ \A e \in Sides : Owes(p2, s2, m, e) = Owes(p, s, m, e),
         \A m \in {n, u[Opp(d)][n], x}, e \in Sides : HeightAt(v, h2, p2, s2, m, e)
  PROVE  Heights(v, h2, p2, s2)
<1> DEFINE up == u[Opp(d)][n]
<1>1. /\ up \in Nodes /\ u.parent[up] = n /\ n # NULL /\ NULL \notin Nodes /\ up # n
      /\ \A m \in Nodes, e \in Sides : u[e][m] \in N0 /\ (u[e][m] # NULL => u.parent[u[e][m]] = m)
  BY Kin, OppSides, Fields DEF Shape, Pointers, RBTreeAssumption
<1>2. x = n \/ u.parent[x] = up
  BY <1>1, OppSides DEF RBTreeAssumption
<1>3. ASSUME NEW m \in Nodes, NEW e \in Sides, m \notin {n, up, x}
      PROVE  HeightAt(v, h2, p2, s2, m, e)
  <2>1. HeightAt(u, h, p, s, m, e) BY DEF Heights
  <2>2. Bl(v, m) = Bl(u, m) BY <1>3, BlType
  <2>3. v[e][m] = IF u[e][m] = n THEN up ELSE u[e][m] BY <1>3 DEF Rotated
  <2>4. Ht(h2, v[e][m]) = Ht(h, u[e][m])
    <3>1. CASE u[e][m] = n BY <3>1, <2>3, <1>1 DEF Ht
    <3>2. CASE u[e][m] = NULL BY <3>2, <2>3, <1>1 DEF Ht
    <3>3. CASE u[e][m] # n /\ u[e][m] # NULL
      <4>1. u[e][m] \in Nodes /\ u.parent[u[e][m]] = m BY <3>3, <1>1 DEF N0
      <4>2. u[e][m] \notin {n, up, x} BY <4>1, <3>3, <1>1, <1>2, <1>3
      <4>3. h2[u[e][m]] = h[u[e][m]] BY <4>1, <4>2
      <4> QED BY <3>3, <2>3, <4>3 DEF Ht
    <3> QED BY <3>1, <3>2, <3>3
  <2>5. h2[m] = h[m] /\ Owes(p2, s2, m, e) = Owes(p, s, m, e) BY <1>3
  <2> QED BY <2>1, <2>2, <2>4, <2>5 DEF HeightAt
<1>4. ASSUME NEW m \in Nodes, NEW e \in Sides PROVE HeightAt(v, h2, p2, s2, m, e)
  BY <1>3
<1> QED BY <1>4 DEF Heights

\* The parent of an excepted node apart, a red node has a black parent.
LEMMA RedParent ==
  ASSUME RBTreeAssumption, NEW u, NEW B, Shape(u, B), NEW X, RedOK(u, X),
         NEW n \in Nodes, IsRed(u, n), In(u, n), n \notin X
  PROVE  /\ n # u.root /\ u.parent[n] \in Nodes /\ u.parent[n] # n
         /\ IsBlack(u, u.parent[n]) /\ u.color[u.parent[n]] = "black"
         /\ In(u, u.parent[n])
<1>1. n # u.root /\ ~IsRed(u, u.parent[n]) BY DEF RedOK
<1>2. u.parent[n] # NULL BY <1>1 DEF In
<1>3. u \in Trees BY DEF Shape
<1>4. u.parent[n] \in Nodes BY <1>2, <1>3, Fields DEF N0
<1>5. u.color[u.parent[n]] \in {"red", "black"} BY <1>3, <1>4, Fields
<1>6. PICK e \in Sides : u[e][u.parent[n]] = n BY <1>2 DEF Shape, Pointers
<1>7. u.parent[n] # n /\ In(u, u.parent[n]) BY <1>4, <1>6, Kin DEF RBTreeAssumption
<1> QED BY <1>1, <1>2, <1>4, <1>5, <1>7 DEF IsRed, IsBlack

-----------------------------------------------------------------------------
(* Insertion                                                               *)

\* A new red leaf changes no height, and is the only node that may be too red.
LEMMA LinkedBalance ==
  ASSUME RBTreeAssumption, NEW u, NEW B, Shape(u, B), NEW n \in Nodes, ~In(u, n),
         NEW p \in N0, NEW d \in Sides, p # NULL => u[d][p] = NULL,
         NEW v, Linked(u, v, n, p, d),
         RedOK(u, {}), NEW h, Heights(u, h, NULL, "left")
  PROVE  /\ RedOK(v, {n}) /\ IsRed(v, n)
         /\ Heights(v, [h EXCEPT ![n] = 0], NULL, "left")
<1> DEFINE h2 == [h EXCEPT ![n] = 0]
<1>1. /\ n # u.root /\ u.parent[n] = NULL
      /\ \A e \in Sides : u[e][n] = NULL
      /\ \A m \in Nodes : u.parent[m] # n
      /\ \A m \in Nodes, e \in Sides : u[e][m] # n
  BY Outsider
<1>2. IsRed(v, n) BY DEF IsRed, Linked, RBTreeAssumption
<1>3. u \in Trees /\ n # NULL /\ NULL \notin Nodes BY DEF Shape, RBTreeAssumption
<1>4. RedOK(v, {n})
  <2> SUFFICES ASSUME NEW m \in Nodes, m # n, IsRed(v, m), m = v.root \/ IsRed(v, v.parent[m])
               PROVE  FALSE
    BY DEF RedOK
  <2>1. IsRed(u, m) BY DEF IsRed, Linked
  <2>2. CASE m = v.root
    <3>1. m = u.root BY <2>2 DEF Linked
    <3> QED BY <2>1, <3>1 DEF RedOK
  <2>3. CASE IsRed(v, v.parent[m])
    <3>1. v.parent[m] = u.parent[m] /\ u.parent[m] # n BY <1>1 DEF Linked
    <3>2. u.parent[m] # NULL BY <2>3, <3>1 DEF IsRed
    <3>3. u.parent[m] \in Nodes BY <1>3, <3>2, Fields DEF N0
    <3>4. IsRed(u, u.parent[m]) BY <2>3, <3>1, <3>3 DEF IsRed, Linked
    <3> QED BY <2>1, <3>4 DEF RedOK
  <2> QED BY <2>2, <2>3
<1>5. h2 \in [Nodes -> Nat] /\ h2[n] = 0 /\ \A m \in Nodes \ {n} : h2[m] = h[m]
  BY DEF Heights
<1> HIDE DEF h2
<1>6. ASSUME NEW m \in Nodes, NEW e \in Sides PROVE HeightAt(v, h2, NULL, "left", m, e)
  <2>1. HeightAt(u, h, NULL, "left", m, e) /\ Owes(NULL, "left", m, e) = 0
    BY <1>3 DEF Heights, Owes
  <2>2. CASE m = n
    <3>1. Bl(v, n) = 0 BY <1>2 DEF Bl, IsBlack
    <3>2. v[e][n] = NULL BY DEF Linked
    <3> QED BY <2>1, <2>2, <3>1, <3>2, <1>5 DEF HeightAt, Ht
  <2>3. CASE m # n
    <3>1. Bl(v, m) = Bl(u, m) BY <2>3 DEF Bl, IsBlack, IsRed, Linked
    <3>2. Ht(h2, v[e][m]) = Ht(h, u[e][m])
      <4>1. CASE m = p /\ e = d
        <5>1. u[e][m] = NULL /\ v[e][m] = n BY <2>3, <4>1, <1>3 DEF Linked
        <5> QED BY <5>1, <1>3, <1>5 DEF Ht
      <4>2. CASE ~(m = p /\ e = d)
        <5>1. v[e][m] = u[e][m] /\ u[e][m] # n /\ u[e][m] \in N0
          BY <2>3, <4>2, <1>1, <1>3, Fields DEF Linked
        <5> QED BY <5>1, <1>5 DEF Ht, N0
      <4> QED BY <4>1, <4>2
    <3> QED BY <2>1, <2>3, <3>1, <3>2, <1>5 DEF HeightAt
  <2> QED BY <2>2, <2>3
<1> QED BY <1>2, <1>4, <1>5, <1>6 DEF Heights, h2

\* The parent g of two red nodes becomes red, and they black.
LEMMA RecolorBalance ==
  ASSUME RBTreeAssumption, NEW u, NEW B, Shape(u, B),
         NEW n \in Nodes, RedOK(u, {n}), NEW h, Heights(u, h, NULL, "left"),
         NEW g \in Nodes, NEW d \in Sides, u[d][g] # NULL, u.parent[n] = u[d][g],
         u.color[g] = "black", IsRed(u, u[d][g]), IsRed(u, u[Opp(d)][g]),
         NEW v, SamePointers(u, v),
         \A m \in Nodes : v.color[m] = IF m = g THEN "red"
                                       ELSE IF m = u[d][g] \/ m = u[Opp(d)][g] THEN "black"
                                       ELSE u.color[m]
  PROVE  /\ RedOK(v, {g}) /\ IsRed(v, g) /\ In(v, g)
         /\ \E h2 : Heights(v, h2, NULL, "left")
<1> DEFINE p == u[d][g]
           q == u[Opp(d)][g]
           h2 == [m \in Nodes |-> IF m = p \/ m = q THEN h[m] + 1 ELSE h[m]]
<1>1. /\ u \in Trees /\ NULL \notin Nodes /\ g # NULL /\ q # NULL /\ p # q
      /\ p \in Nodes /\ q \in Nodes /\ p # g /\ q # g /\ u.parent[p] = g /\ u.parent[q] = g
      /\ In(u, g) /\ p # u.root /\ q # u.root
      /\ \A m \in Nodes, e \in Sides : u[e][m] \in {p, q} => m = g
  BY Kin, OppSides DEF Shape, IsRed, RBTreeAssumption
<1>2. \A m \in Nodes : u.parent[m] = g <=> m = p \/ m = q
  BY Children DEF Sides, Opp
<1>3. In(v, g) BY <1>1, SameShape
<1>4. IsRed(v, g) BY <1>1 DEF IsRed
<1>5. RedOK(v, {g})
  <2> SUFFICES ASSUME NEW m \in Nodes, m # g, IsRed(v, m), m = v.root \/ IsRed(v, v.parent[m])
               PROVE  FALSE
    BY DEF RedOK
  <2>1. IsRed(u, m) /\ m # p /\ m # q BY DEF IsRed
  <2>2. v.root = u.root /\ v.parent = u.parent BY DEF SamePointers
  <2>3. u.parent[m] # g BY <2>1, <1>2
  <2>4. m = u.root \/ IsRed(u, u.parent[m])
    <3>1. u.parent[m] \in N0 BY <1>1, Fields
    <3> QED BY <2>2, <2>3, <3>1 DEF IsRed, N0
  <2>5. m = n BY <2>1, <2>4 DEF RedOK
  <2>6. m # u.root
    <3>1. u.parent[m] # NULL BY <2>5, <1>1
    <3> QED BY <3>1, <1>1 DEF Shape, Pointers, RBTreeAssumption
  <2>7. ~IsRed(v, p) BY <1>1 DEF IsRed
  <2> QED BY <2>2, <2>5, <2>6, <2>7
<1>6. h2 \in [Nodes -> Nat] /\ h \in [Nodes -> Nat] BY DEF Heights
<1>7. \A m \in Nodes : h2[m] = IF m = p \/ m = q THEN h[m] + 1 ELSE h[m] OBVIOUS
<1> HIDE DEF h2, p, q
<1>8. ASSUME NEW m \in Nodes, NEW e \in Sides PROVE HeightAt(v, h2, NULL, "left", m, e)
  <2>1. HeightAt(u, h, NULL, "left", m, e) BY DEF Heights
  <2>2. v[e] = u[e] /\ u[e][m] \in N0 BY <1>1, Fields DEF SamePointers
  <2>3. Owes(NULL, "left", m, e) = 0 BY <1>1 DEF Owes
  <2>4. Bl(u, m) \in Nat /\ Bl(v, m) \in Nat /\ Ht(h, u[e][m]) \in Nat BY <1>6, <2>2, BlType, HtType
  <2>5. h[m] = Bl(u, m) + Ht(h, u[e][m]) BY <2>1, <2>3, <2>4, <1>6 DEF HeightAt
  <2>6. CASE m = g
    <3>1. u[e][m] = p \/ u[e][m] = q BY <2>6, OppSides DEF p, q
    <3>2. Ht(h2, u[e][m]) = Ht(h, u[e][m]) + 1 BY <3>1, <1>1, <1>7 DEF Ht
    <3>3. Bl(u, m) = 1 /\ Bl(v, m) = 0 BY <2>6, BlType DEF p, q
    <3>4. h2[m] = h[m] BY <2>6, <1>1, <1>7
    <3> QED BY <2>2, <2>3, <2>4, <2>5, <3>2, <3>3, <3>4 DEF HeightAt
  <2>7. CASE m # g
    <3>1. Ht(h2, u[e][m]) = Ht(h, u[e][m]) BY <2>2, <2>7, <1>1, <1>7 DEF Ht, N0
    <3>2. CASE m = p \/ m = q
      <4>1. Bl(u, m) = 0 BY <3>2 DEF Bl, IsBlack, p, q
      <4>2. Bl(v, m) = 1 BY <2>7, <3>2, BlType DEF p, q
      <4> QED BY <2>2, <2>3, <2>4, <2>5, <3>1, <3>2, <4>1, <4>2, <1>7 DEF HeightAt
    <3>3. CASE m # p /\ m # q
      <4>1. Bl(u, m) = Bl(v, m) BY <2>7, <3>3, BlType DEF p, q
      <4> QED BY <2>2, <2>3, <2>4, <2>5, <3>1, <3>3, <4>1, <1>7 DEF HeightAt
    <3> QED BY <3>2, <3>3
  <2> QED BY <2>6, <2>7
<1>9. Heights(v, h2, NULL, "left") BY <1>6, <1>8 DEF Heights
<1> QED BY <1>3, <1>4, <1>5, <1>9

\* A rotation after a change of colours is one of the tree before it.
LEMMA SameRotated ==
  ASSUME NEW u, NEW w, SamePointers(u, w), NEW n \in Nodes, NEW r \in Sides, NEW v,
         Rotated(w, v, n, r)
  PROVE  Rotated(u, v, n, r)
BY OppSides DEF Rotated, SamePointers

\* The height of a node, seen from one of its sides where nothing is owed.
LEMMA HeightFrom ==
  ASSUME RBTreeAssumption, NEW u \in Trees, NEW h, NEW p, NEW s, Heights(u, h, p, s),
         NEW n \in Nodes, NEW e \in Sides, n # p \/ e # s
  PROVE  /\ h[n] \in Nat /\ Ht(h, u[e][n]) \in Nat
         /\ h[n] = (IF u.color[n] = "red" THEN 0 ELSE 1) + Ht(h, u[e][n])
<1>1. HeightAt(u, h, p, s, n, e) /\ h \in [Nodes -> Nat] BY DEF Heights
<1>2. u[e][n] \in N0 BY Fields
<1>3. Ht(h, u[e][n]) \in Nat BY <1>1, <1>2, HtType
<1>4. Owes(p, s, n, e) = 0 BY DEF Owes
<1>5. Bl(u, n) \in Nat /\ Bl(u, n) = IF u.color[n] = "red" THEN 0 ELSE 1 BY BlType
<1> QED BY <1>1, <1>3, <1>4, <1>5 DEF HeightAt

\* How the equation of a height is shown where nothing is owed.
LEMMA HeightShown ==
  ASSUME RBTreeAssumption, NEW v \in Trees, NEW h \in [Nodes -> Nat], NEW p, NEW s,
         NEW n \in Nodes, NEW e \in Sides, n # p \/ e # s,
         h[n] = (IF v.color[n] = "red" THEN 0 ELSE 1) + Ht(h, v[e][n])
  PROVE  HeightAt(v, h, p, s, n, e)
<1>1. v[e][n] \in N0 BY Fields
<1>2. Ht(h, v[e][n]) \in Nat BY <1>1, HtType
<1>3. Owes(p, s, n, e) = 0 BY DEF Owes
<1>4. Bl(v, n) \in Nat /\ Bl(v, n) = IF v.color[n] = "red" THEN 0 ELSE 1 BY BlType
<1> QED BY <1>2, <1>3, <1>4 DEF HeightAt

\* The node n on the inner side of its red parent p changes places with it.
LEMMA InnerTurn ==
  ASSUME RBTreeAssumption, NEW u, NEW B, Shape(u, B), NEW n \in Nodes, RedOK(u, {n}),
         NEW h, Heights(u, h, NULL, "left"),
         NEW g \in Nodes, NEW d \in Sides, NEW p \in Nodes, u[d][g] = p, u[Opp(d)][p] = n,
         u.color[n] = "red", u.color[p] = "red", u.color[g] = "black",
         NEW v, Rotated(u, v, p, d), v.color = u.color
  PROVE  /\ RedOK(v, {p}) /\ Heights(v, h, NULL, "left")
         /\ v[d][g] = n /\ v[d][n] = p /\ v[Opp(d)][g] = u[Opp(d)][g]
<1> DEFINE moved == u[d][n]
<1>1. /\ u \in Trees /\ v \in Trees /\ NULL \notin Nodes /\ p # NULL /\ n # NULL /\ g # NULL
      /\ Opp(d) \in Sides /\ Opp(d) # d /\ Opp(Opp(d)) = d
      /\ h \in [Nodes -> Nat]
  BY OppSides DEF Shape, RBTreeAssumption, Rotated, Heights
<1>2. /\ p # g /\ n # p /\ n # g /\ u.parent[p] = g /\ u.parent[n] = p /\ In(u, p)
      /\ u[Opp(d)][g] # p
      /\ \A e \in Sides : u[e][p] # g /\ u[e][n] # p
  <2>1. p # g /\ u.parent[p] = g /\ In(u, p) /\ u[Opp(d)][g] # p /\ \A e \in Sides : u[e][p] # g
    BY <1>1, Kin
  <2>2. n # p /\ u.parent[n] = p /\ \A e \in Sides : u[e][n] # p BY <1>1, Kin
  <2> QED BY <1>1, <2>1, <2>2
<1>3. /\ \A m \in Nodes : v.parent[m] = IF m = p THEN n ELSE IF m = n THEN g
                                        ELSE IF m = moved THEN p ELSE u.parent[m]
      /\ v.root = u.root
      /\ \A e \in Sides, m \in Nodes :
           v[e][m] = IF m = p THEN IF e = d THEN u[d][p] ELSE moved
                     ELSE IF m = n THEN IF e = d THEN p ELSE u[e][n]
                     ELSE IF u[e][m] = p THEN n ELSE u[e][m]
  BY <1>1, <1>2 DEF Rotated
<1>4. v[d][g] = n /\ v[d][n] = p /\ v[Opp(d)][g] = u[Opp(d)][g]
  BY <1>1, <1>2, <1>3
<1>5. RedOK(v, {p})
  <2> SUFFICES ASSUME NEW m \in Nodes, m # p, IsRed(v, m), m = v.root \/ IsRed(v, v.parent[m])
               PROVE  FALSE
    BY DEF RedOK
  <2>1. IsRed(u, m) BY DEF IsRed
  <2>2. CASE m = n
    <3>1. m # v.root
      <4>1. u.parent[n] # NULL BY <1>1, <1>2
      <4> QED BY <2>2, <4>1, <1>1, <1>3 DEF Shape, Pointers
    <3>2. v.parent[m] = g /\ ~IsRed(v, g) BY <2>2, <1>2, <1>3 DEF IsRed
    <3> QED BY <3>1, <3>2
  <2>3. CASE m = moved /\ m # n
    <3>1. u.parent[m] = n BY <2>3, <1>1, Kin DEF RBTreeAssumption
    <3>2. IsRed(u, n) BY <1>1 DEF IsRed
    <3> QED BY <2>1, <2>3, <3>1, <3>2 DEF RedOK
  <2>4. CASE m # n /\ m # moved
    <3>1. v.parent[m] = u.parent[m] BY <2>4, <1>3
    <3>2. m = u.root \/ IsRed(u, u.parent[m]) BY <3>1, <1>3 DEF IsRed
    <3> QED BY <2>1, <2>4, <3>2 DEF RedOK
  <2> QED BY <2>2, <2>3, <2>4
<1>6. Heights(v, h, NULL, "left")
  <2>1. \A m \in Nodes, e \in Sides :
          h[m] \in Nat /\ h[m] = (IF u.color[m] = "red" THEN 0 ELSE 1) + Ht(h, u[e][m])
          /\ Ht(h, u[e][m]) \in Nat
    BY <1>1, HeightFrom
  <2>2. Ht(h, n) = h[n] /\ Ht(h, p) = h[p] BY <1>1 DEF Ht
  <2>3. h[n] = h[p] BY <2>1, <2>2, <1>1
  <2>4. \A e \in Sides : h[n] = Ht(h, u[e][n]) BY <2>1
  <2>5. \A e \in Sides : h[p] = Ht(h, u[e][p]) BY <2>1
  <2>6. \A m \in {p, n}, e \in Sides : HeightAt(v, h, NULL, "left", m, e)
    <3> SUFFICES ASSUME NEW m \in {p, n}, NEW e \in Sides PROVE HeightAt(v, h, NULL, "left", m, e)
      OBVIOUS
    <3>1. v.color[m] = "red" /\ m # NULL BY <1>1
    <3>2. h[m] = Ht(h, v[e][m])
      <4>1. CASE m = p /\ e = d BY <4>1, <2>5, <1>3
      <4>2. CASE m = p /\ e # d BY <4>2, <2>3, <2>4, <1>3
      <4>3. CASE m = n /\ e = d BY <4>3, <2>2, <2>3, <1>2, <1>3
      <4>4. CASE m = n /\ e # d BY <4>4, <2>4, <1>2, <1>3
      <4> QED BY <4>1, <4>2, <4>3, <4>4
    <3>3. h[m] = 0 + Ht(h, v[e][m]) BY <3>2, <1>1
    <3> QED BY <3>1, <3>3, <1>1, HeightShown
  <2>7. u[Opp(d)][p] # NULL /\ p \in Nodes BY <1>1
  <2>8. \A m \in {p, u[Opp(d)][p], p}, e \in Sides : HeightAt(v, h, NULL, "left", m, e)
    BY <2>6
  <2>9. \A m \in Nodes \ {p, u[Opp(d)][p], p} :
           /\ h[m] = h[m] /\ v.color[m] = u.color[m]
           /\ \A e \in Sides : Owes(NULL, "left", m, e) = Owes(NULL, "left", m, e)
    OBVIOUS
  <2>10. h[u[Opp(d)][p]] = h[p] BY <2>3
  <2> QED BY <2>7, <2>8, <2>9, <2>10, <1>1, RotatedHeights
<1> QED BY <1>4, <1>5, <1>6

\* The node n, its red parent top and the black g above on one line: top
\* becomes black and takes the place of g, which becomes red.
LEMMA OuterTurn ==
  ASSUME RBTreeAssumption, NEW u, NEW B, Shape(u, B), NEW n \in Nodes, RedOK(u, {n}),
         NEW h, Heights(u, h, NULL, "left"),
         NEW g \in Nodes, NEW r \in Sides, NEW top \in Nodes,
         u[Opp(r)][g] = top, u[Opp(r)][top] = n, IsBlack(u, u[r][g]),
         u.color[n] = "red", u.color[top] = "red", u.color[g] = "black",
         NEW w, SamePointers(u, w),
         \A m \in Nodes : w.color[m] = IF m = g THEN "red" ELSE IF m = top THEN "black"
                                       ELSE u.color[m],
         NEW v, Rotated(w, v, g, r), v.color = w.color
  PROVE  /\ RedOK(v, {}) /\ IsRed(v, n)
         /\ \E h2 : Heights(v, h2, NULL, "left")
<1> DEFINE moved == u[r][top]
           h2 == [h EXCEPT ![top] = h[top] + 1, ![g] = h[top]]
<1>1. /\ u \in Trees /\ v \in Trees /\ NULL \notin Nodes /\ n # NULL /\ top # NULL /\ g # NULL
      /\ Opp(r) \in Sides /\ Opp(r) # r /\ Opp(Opp(r)) = r
      /\ h \in [Nodes -> Nat]
  BY OppSides DEF Shape, RBTreeAssumption, Rotated, Heights
<1>2. /\ top # g /\ n # top /\ n # g /\ u.parent[top] = g /\ u.parent[n] = top /\ In(u, g)
      /\ u[r][top] # n /\ u[r][g] # top /\ top # u.root /\ n # u.root
  <2>1. top # g /\ u.parent[top] = g /\ In(u, g) /\ u[r][g] # top /\ top # u.root
    BY <1>1, Kin
  <2>2. n # top /\ u.parent[n] = top /\ u[r][top] # n /\ n # u.root BY <1>1, Kin
  <2> QED BY <1>1, <2>1, <2>2
<1>3. Rotated(u, v, g, r) BY SameRotated
<1>4. /\ \A m \in Nodes : v.parent[m] = IF m = g THEN top ELSE IF m = top THEN u.parent[g]
                                        ELSE IF m = moved THEN g ELSE u.parent[m]
      /\ v.root = IF u.parent[g] = NULL THEN top ELSE u.root
      /\ \A e \in Sides, m \in Nodes :
           v[e][m] = IF m = g THEN IF e = r THEN u[r][g] ELSE moved
                     ELSE IF m = top THEN IF e = r THEN g ELSE u[e][top]
                     ELSE IF u[e][m] = g THEN top ELSE u[e][m]
  BY <1>3 DEF Rotated
<1>5. \A m \in Nodes : v.color[m] = IF m = g THEN "red" ELSE IF m = top THEN "black" ELSE u.color[m]
  OBVIOUS
<1>6. IsRed(v, n) BY <1>1, <1>2, <1>5 DEF IsRed
<1>7. RedOK(v, {})
  <2> SUFFICES ASSUME NEW m \in Nodes, IsRed(v, m), m = v.root \/ IsRed(v, v.parent[m])
               PROVE  FALSE
    BY DEF RedOK
  <2>1. ~IsRed(v, top) BY <1>2, <1>5 DEF IsRed
  <2>2. m # top BY <2>1
  <2>3. CASE m = g
    <3>1. v.parent[m] = top BY <2>3, <1>4
    <3>2. m # v.root
      <4>1. g = u.root => u.parent[g] = NULL BY <1>1 DEF Shape, Pointers
      <4> QED BY <2>3, <4>1, <1>2, <1>4
    <3> QED BY <2>1, <3>1, <3>2
  <2>4. CASE m # g
    <3>1. IsRed(u, m) BY <2>2, <2>4, <1>5 DEF IsRed
    <3>2. m # n
      <4>1. v.parent[n] = top BY <1>2, <1>4
      <4>2. n # v.root BY <1>2, <1>4
      <4> QED BY <2>1, <4>1, <4>2
    <3>3. m # u[r][g] BY <3>1 DEF IsBlack
    <3>4. m # moved
      <4>1. CASE m = moved
        <5>1. u.parent[m] = top BY <4>1, <1>1, Kin
        <5>2. IsRed(u, top) BY <1>1 DEF IsRed
        <5> QED BY <3>1, <3>2, <5>1, <5>2 DEF RedOK
      <4> QED BY <4>1
    <3>5. v.parent[m] = u.parent[m] BY <2>2, <2>4, <3>4, <1>4
    <3>6. u.parent[m] # g
      <4>1. \A x \in Nodes : u.parent[x] = g <=> x = u["left"][g] \/ x = u["right"][g] BY Children
      <4>2. \A x \in Nodes : u.parent[x] = g => x = u[r][g] \/ x = u[Opp(r)][g]
        BY <4>1 DEF Sides, Opp
      <4> QED BY <2>2, <3>3, <4>2
    <3>7. m = u.root \/ IsRed(u, u.parent[m])
      <4>1. u.parent[m] \in N0 BY <1>1, Fields
      <4>2. m = v.root => m = u.root BY <2>2, <1>4
      <4>3. IsRed(v, u.parent[m]) => IsRed(u, u.parent[m])
        BY <3>6, <4>1, <1>5 DEF IsRed, N0
      <4> QED BY <3>5, <4>2, <4>3
    <3> QED BY <3>1, <3>2, <3>7 DEF RedOK
  <2> QED BY <2>3, <2>4
<1>8. Heights(v, h2, NULL, "left")
  <2>1. \A m \in Nodes, e \in Sides :
          h[m] \in Nat /\ h[m] = (IF u.color[m] = "red" THEN 0 ELSE 1) + Ht(h, u[e][m])
          /\ Ht(h, u[e][m]) \in Nat
    BY <1>1, HeightFrom
  <2>2. Ht(h, n) = h[n] /\ Ht(h, top) = h[top] BY <1>1 DEF Ht
  <2>3. h[g] = 1 + h[top] BY <2>1, <2>2, <1>1
  <2>4. \A e \in Sides : h[top] = Ht(h, u[e][top]) BY <2>1
  <2>5. h[top] = Ht(h, u[r][g]) BY <2>1, <2>3
  <2>6. /\ h2 \in [Nodes -> Nat] /\ h2[top] = h[top] + 1 /\ h2[g] = h[top]
        /\ \A m \in Nodes \ {top, g} : h2[m] = h[m]
    BY <2>1, <1>1, <1>2
  <2> HIDE DEF h2
  <2>7. /\ u[r][g] \notin {top, g} /\ moved \notin {top, g} /\ n \notin {top, g}
        /\ u[r][g] \in N0 /\ moved \in N0
    <3>1. u[r][g] # g BY <1>1, Kin
    <3>2. moved # top /\ moved # g
      <4>1. CASE moved = NULL BY <4>1, <1>1
      <4>2. CASE moved # NULL
        <5>1. moved # top /\ u.parent[top] # moved BY <4>2, Kin
        <5> QED BY <5>1, <1>2
      <4> QED BY <4>1, <4>2
    <3> QED BY <3>1, <3>2, <1>1, <1>2, Fields
  <2>8. Ht(h2, u[r][g]) = h[top] /\ Ht(h2, moved) = h[top] /\ Ht(h2, n) = h[top]
    BY <2>2, <2>4, <2>5, <2>6, <2>7, <1>1 DEF Ht, N0
  <2>9. Ht(h2, g) = h[top] BY <2>6, <1>1 DEF Ht
  <2>10. \A m \in {g, top}, e \in Sides : HeightAt(v, h2, NULL, "left", m, e)
    <3> SUFFICES ASSUME NEW m \in {g, top}, NEW e \in Sides PROVE HeightAt(v, h2, NULL, "left", m, e)
      OBVIOUS
    <3>1. Ht(h2, v[e][m]) = h[top]
      <4>1. e = r \/ e = Opp(r) BY OppSides
      <4>2. CASE m = g /\ e = r BY <4>2, <2>8, <1>4
      <4>3. CASE m = g /\ e # r BY <4>3, <2>8, <1>4
      <4>4. CASE m = top /\ e = r BY <4>4, <2>9, <1>2, <1>4
      <4>5. CASE m = top /\ e # r BY <4>1, <4>5, <2>8, <1>2, <1>4
      <4> QED BY <4>2, <4>3, <4>4, <4>5
    <3>2. h2[m] = (IF v.color[m] = "red" THEN 0 ELSE 1) + Ht(h2, v[e][m])
      BY <3>1, <2>1, <2>6, <1>2, <1>5
    <3>3. m # NULL /\ m \in Nodes BY <1>1
    <3> QED BY <3>2, <3>3, <2>6, <1>1, HeightShown
  <2>11. \A m \in {g, u[Opp(r)][g], g}, e \in Sides : HeightAt(v, h2, NULL, "left", m, e)
    BY <2>10
  <2>12. \A m \in Nodes \ {g, u[Opp(r)][g], g} :
           /\ h2[m] = h[m] /\ v.color[m] = u.color[m]
           /\ \A e \in Sides : Owes(NULL, "left", m, e) = Owes(NULL, "left", m, e)
    BY <2>6, <1>5
  <2>13. h2[u[Opp(r)][g]] = h[g] BY <2>1, <2>3, <2>6
  <2>14. u[Opp(r)][g] # NULL BY <1>1
  <2> QED BY <2>6, <2>11, <2>12, <2>13, <2>14, <1>3, RotatedHeights
<1> QED BY <1>6, <1>7, <1>8

\* A red root, or a root whose colour is not known, is painted black.
LEMMA RootBlack ==
  ASSUME RBTreeAssumption, NEW u, NEW B, Shape(u, B), u.root # NULL,
         NEW h, Heights(u, h, NULL, "left"),
         NEW v, Painted(u, v, u.root, "black")
  PROVE  \E h2 : Heights(v, h2, NULL, "left")
<1> DEFINE n == u.root
           h2 == [h EXCEPT ![n] = Bl(v, n) + Ht(h, u["left"][n])]
<1>1. /\ u \in Trees /\ v \in Trees /\ n \in Nodes /\ NULL \notin Nodes /\ n # NULL
      /\ h \in [Nodes -> Nat]
  BY Fields DEF Shape, N0, RBTreeAssumption, Painted, SamePointers, Heights
<1>2. \A m \in Nodes, e \in Sides : u[e][m] # n
  <2>1. \A m \in Nodes, e \in Sides : u[e][m] # NULL => u.parent[u[e][m]] = m
    BY DEF Shape, Pointers
  <2>2. u.parent[n] = NULL BY DEF Shape, Pointers
  <2> QED BY <2>1, <2>2, <1>1
<1>3. \A m \in Nodes, e \in Sides :
        h[m] \in Nat /\ h[m] = (IF u.color[m] = "red" THEN 0 ELSE 1) + Ht(h, u[e][m])
        /\ Ht(h, u[e][m]) \in Nat /\ u[e][m] \in N0
  BY <1>1, HeightFrom, Fields
<1>4. Bl(v, n) = 1 BY <1>1, BlType DEF Painted
<1>5. /\ h2 \in [Nodes -> Nat] /\ h2[n] = 1 + Ht(h, u["left"][n])
      /\ \A m \in Nodes \ {n} : h2[m] = h[m]
  BY <1>1, <1>3, <1>4, OppSides
<1> HIDE DEF h2
<1>6. \A e \in Sides : Ht(h, u[e][n]) = Ht(h, u["left"][n]) BY <1>1, <1>3, OppSides
<1>7. ASSUME NEW m \in Nodes, NEW e \in Sides PROVE HeightAt(v, h2, NULL, "left", m, e)
  <2>1. v[e][m] = u[e][m] BY DEF Painted, SamePointers
  <2>2. Ht(h2, u[e][m]) = Ht(h, u[e][m]) BY <1>2, <1>3, <1>5 DEF Ht, N0
  <2>3. h2[m] = (IF v.color[m] = "red" THEN 0 ELSE 1) + Ht(h2, v[e][m])
    BY <2>1, <2>2, <1>3, <1>5, <1>6 DEF Painted
  <2>4. m # NULL BY <1>1
  <2> QED BY <2>3, <2>4, <1>1, <1>5, HeightShown
<1> QED BY <1>5, <1>7 DEF Heights

\* rb_insert_color ends with a black root.
LEMMA InsertEnds ==
  ASSUME RBTreeAssumption, NEW u, NEW B, Shape(u, B), NEW n \in Nodes, In(u, n),
         RedOK(u, {n}), ~IsRed(u, u.parent[n]),
         NEW h, Heights(u, h, NULL, "left"),
         NEW v, Painted(u, v, u.root, "black")
  PROVE  RedOK(v, {}) /\ \E h2 : Heights(v, h2, NULL, "left")
<1>1. u.root # NULL BY DEF Shape, Subtrees
<1>2. \E h2 : Heights(v, h2, NULL, "left") BY <1>1, RootBlack
<1>3. RedOK(v, {})
  <2> SUFFICES ASSUME NEW m \in Nodes, IsRed(v, m), m = v.root \/ IsRed(v, v.parent[m])
               PROVE  FALSE
    BY DEF RedOK
  <2>1. u \in Trees BY DEF Shape
  <2>2. m # u.root /\ IsRed(u, m) BY DEF Painted, IsRed
  <2>3. IsRed(v, u.parent[m]) BY <2>2 DEF Painted, SamePointers
  <2>4. u.parent[m] \in N0 BY <2>1, Fields
  <2>5. IsRed(u, u.parent[m]) BY <2>3, <2>4 DEF Painted, IsRed, N0
  <2> QED BY <2>2, <2>5 DEF RedOK
<1> QED BY <1>2, <1>3

-----------------------------------------------------------------------------
(* Deletion                                                                *)

\* The equation of a height where a black is owed.
LEMMA HeightOwed ==
  ASSUME RBTreeAssumption, NEW u \in Trees, NEW h, NEW p \in Nodes, NEW s \in Sides,
         Heights(u, h, p, s)
  PROVE  /\ h[p] \in Nat /\ Ht(h, u[s][p]) \in Nat
         /\ h[p] = (IF u.color[p] = "red" THEN 0 ELSE 1) + Ht(h, u[s][p]) + 1
<1>1. HeightAt(u, h, p, s, p, s) /\ h \in [Nodes -> Nat] BY DEF Heights
<1>2. u[s][p] \in N0 BY Fields
<1>3. Ht(h, u[s][p]) \in Nat BY <1>1, <1>2, HtType
<1>4. Owes(p, s, p, s) = 1 BY DEF Owes
<1>5. Bl(u, p) \in Nat /\ Bl(u, p) = IF u.color[p] = "red" THEN 0 ELSE 1 BY BlType
<1> QED BY <1>1, <1>3, <1>4, <1>5 DEF HeightAt

\* And what shows that equation.
LEMMA OwedShown ==
  ASSUME RBTreeAssumption, NEW v \in Trees, NEW h \in [Nodes -> Nat],
         NEW p \in Nodes, NEW s \in Sides,
         h[p] = (IF v.color[p] = "red" THEN 0 ELSE 1) + Ht(h, v[s][p]) + 1
  PROVE  HeightAt(v, h, p, s, p, s)
<1>1. v[s][p] \in N0 BY Fields
<1>2. Ht(h, v[s][p]) \in Nat BY <1>1, HtType
<1>3. Owes(p, s, p, s) = 1 BY DEF Owes
<1>4. Bl(v, p) \in Nat /\ Bl(v, p) = IF v.color[p] = "red" THEN 0 ELSE 1 BY BlType
<1> QED BY <1>2, <1>3, <1>4 DEF HeightAt

\* A red node is cut out without harm.  With a black one the paths through its child
\* lack a black, unless that was the root.
LEMMA CutBalance ==
  ASSUME RBTreeAssumption, NEW u, NEW B, Shape(u, B), NEW n \in Nodes, In(u, n),
         NEW child, OnlyChild(u, n, child), NEW v, Cut(u, v, n, child),
         RedOK(u, {}), NEW h, Heights(u, h, NULL, "left"),
         NEW p, p = u.parent[n],
         NEW s, s = IF v.left[p] = child THEN "left" ELSE "right"
  PROVE  /\ u.color[n] = "red" => RedOK(v, {}) /\ \E h2 : Heights(v, h2, NULL, "left")
         /\ u.color[n] = "black" /\ p = NULL =>
              v.root = child /\ RedOK(v, {child}) /\ \E h2 : Heights(v, h2, NULL, "left")
         /\ u.color[n] = "black" /\ p # NULL =>
              /\ RedOK(v, {child}) /\ p \in Nodes /\ p # n /\ In(v, p) /\ v[s][p] = child
              /\ \E h2 : Heights(v, h2, p, s)
<1> DEFINE h2 == [h EXCEPT ![n] = 0]
<1>1. /\ u \in Trees /\ v \in Trees /\ n # NULL /\ NULL \notin Nodes
      /\ h \in [Nodes -> Nat]
      /\ v.root = IF p = NULL THEN child ELSE u.root
      /\ \A m \in Nodes : v.parent[m] = IF m = n THEN NULL ELSE IF m = child THEN p
                                        ELSE u.parent[m]
      /\ \A m \in Nodes : v.color[m] = IF m = n THEN "red" ELSE u.color[m]
      /\ \A e \in Sides, m \in Nodes :
           v[e][m] = IF m = n THEN NULL ELSE IF u[e][m] = n THEN child ELSE u[e][m]
  BY DEF Cut, Shape, RBTreeAssumption, Heights
<1>2. PICK k \in Sides : child = u[k][n] /\ u[Opp(k)][n] = NULL BY DEF OnlyChild
<1>3. /\ child \in N0 /\ p \in N0
      /\ child # NULL => child \in Nodes /\ child # n /\ u.parent[child] = n
      /\ \A m \in Nodes, e \in Sides : u[e][m] = n => m = p /\ m # n /\ u[Opp(e)][m] # n
  <2>1. child # NULL => child \in Nodes /\ child # n /\ u.parent[child] = n BY <1>2, Kin
  <2>2. \A m \in Nodes, e \in Sides : u[e][m] = n => m = p /\ m # n /\ u[Opp(e)][m] # n
    <3> SUFFICES ASSUME NEW m \in Nodes, NEW e \in Sides, u[e][m] = n
                 PROVE  m = p /\ m # n /\ u[Opp(e)][m] # n
      OBVIOUS
    <3> QED BY <1>1, Kin
  <2> QED BY <2>1, <2>2, <1>1, <1>2, Fields
<1>4. \A m \in Nodes : u.parent[m] = n => m = child
  <2>1. \A m \in Nodes : u.parent[m] = n => m = u["left"][n] \/ m = u["right"][n] BY Children
  <2> QED BY <2>1, <1>1, <1>2 DEF Sides, Opp
<1>5. p # NULL => p \in Nodes /\ p # n /\ \E e \in Sides : u[e][p] = n /\ u[Opp(e)][p] # n
  <2> SUFFICES ASSUME p # NULL
               PROVE  p \in Nodes /\ p # n /\ \E e \in Sides : u[e][p] = n /\ u[Opp(e)][p] # n
    OBVIOUS
  <2>1. p \in Nodes BY <1>3 DEF N0
  <2>2. PICK e \in Sides : u[e][p] = n BY DEF Shape, Pointers
  <2> QED BY <2>1, <2>2, <1>3
<1>6. ASSUME NEW m \in Nodes, IsRed(v, m), m = v.root \/ IsRed(v, v.parent[m])
      PROVE  m = child /\ u.color[n] = "black"
  <2>1. m # n
    <3>1. ~In(v, n) BY CutShape
    <3>2. v.parent[n] = NULL BY <1>1
    <3> QED BY <1>6, <3>1, <3>2 DEF In, IsRed
  <2>2. IsRed(u, m) BY <1>1, <1>6, <2>1 DEF IsRed
  <2>3. CASE m # child
    <3>1. v.parent[m] = u.parent[m] /\ u.parent[m] # n BY <2>1, <2>3, <1>1, <1>4
    <3>2. u.parent[m] \in N0 BY <1>1, Fields
    <3>3. IsRed(v, v.parent[m]) => IsRed(u, u.parent[m]) BY <3>1, <3>2, <1>1 DEF IsRed, N0
    <3>4. m = v.root => m = u.root BY <2>3, <1>1
    <3> QED BY <2>2, <3>3, <3>4, <1>6 DEF RedOK
  <2>4. CASE m = child
    <3>1. u.parent[m] = n BY <2>4, <1>1, <1>3
    <3>2. ~IsRed(u, n) BY <2>2, <3>1 DEF RedOK
    <3>3. u.color[n] \in {"red", "black"} BY <1>1, Fields
    <3> QED BY <2>4, <3>2, <3>3, <1>1 DEF IsRed
  <2> QED BY <2>3, <2>4
<1>7. RedOK(v, {child}) /\ (u.color[n] = "red" => RedOK(v, {})) BY <1>6 DEF RedOK
<1>8. \A m \in Nodes, e \in Sides :
        h[m] \in Nat /\ h[m] = (IF u.color[m] = "red" THEN 0 ELSE 1) + Ht(h, u[e][m])
        /\ Ht(h, u[e][m]) \in Nat /\ u[e][m] \in N0
  BY <1>1, HeightFrom, Fields
<1>9. /\ h2 \in [Nodes -> Nat] /\ h2[n] = 0
      /\ \A m \in Nodes \ {n} : h2[m] = h[m]
  BY <1>1
<1> HIDE DEF h2
<1>10. Ht(h2, child) = Ht(h, child) /\ Ht(h, child) \in Nat
  BY <1>1, <1>2, <1>3, <1>8, <1>9 DEF Ht, N0
<1>11. h[n] = (IF u.color[n] = "red" THEN 0 ELSE 1) + Ht(h2, child) BY <1>2, <1>8, <1>10
<1>12. ASSUME NEW m \in Nodes, NEW e \in Sides, u[e][m] # n
       PROVE  h2[m] = (IF v.color[m] = "red" THEN 0 ELSE 1) + Ht(h2, v[e][m])
  <2>1. CASE m = n BY <2>1, <1>1, <1>9 DEF Ht
  <2>2. CASE m # n
    <3>1. v[e][m] = u[e][m] BY <2>2, <1>1, <1>12
    <3>2. Ht(h2, u[e][m]) = Ht(h, u[e][m]) BY <1>8, <1>9, <1>12 DEF Ht, N0
    <3> QED BY <2>2, <3>1, <3>2, <1>1, <1>8, <1>9
  <2> QED BY <2>1, <2>2
<1>13. ASSUME NEW m \in Nodes, NEW e \in Sides, u[e][m] = n
       PROVE  h2[m] = (IF v.color[m] = "red" THEN 0 ELSE 1)
                      + (IF u.color[n] = "red" THEN 0 ELSE 1) + Ht(h2, v[e][m])
  <2>1. m # n BY <1>3, <1>13
  <2>2. v[e][m] = child BY <2>1, <1>1, <1>13
  <2>3. Ht(h, n) = h[n] BY <1>1 DEF Ht
  <2>4. h[m] = (IF u.color[m] = "red" THEN 0 ELSE 1) + h[n] BY <2>3, <1>8, <1>13
  <2> QED BY <2>1, <2>2, <2>4, <1>1, <1>9, <1>10, <1>11
<1>14. u.color[n] = "red" => Heights(v, h2, NULL, "left")
  <2> SUFFICES ASSUME u.color[n] = "red", NEW m \in Nodes, NEW e \in Sides
               PROVE  HeightAt(v, h2, NULL, "left", m, e)
    BY <1>9 DEF Heights
  <2>1. v[e][m] \in N0 BY <1>1, Fields
  <2>2. Ht(h2, v[e][m]) \in Nat BY <2>1, <1>9, HtType
  <2>3. h2[m] = (IF v.color[m] = "red" THEN 0 ELSE 1) + Ht(h2, v[e][m])
    BY <2>2, <1>12, <1>13
  <2> QED BY <2>3, <1>1, <1>9, HeightShown
<1>15. p = NULL => Heights(v, h2, NULL, "left")
  <2> SUFFICES ASSUME p = NULL, NEW m \in Nodes, NEW e \in Sides
               PROVE  HeightAt(v, h2, NULL, "left", m, e)
    BY <1>9 DEF Heights
  <2>1. u[e][m] # n BY <1>1, <1>3
  <2> QED BY <2>1, <1>1, <1>9, <1>12, HeightShown
<1>16. ASSUME u.color[n] = "black", p # NULL
       PROVE  p \in Nodes /\ p # n /\ In(v, p) /\ v[s][p] = child /\ Heights(v, h2, p, s)
  <2>1. PICK f \in Sides : u[f][p] = n /\ u[Opp(f)][p] # n BY <1>5, <1>16
  <2>2. p \in Nodes /\ p # n BY <1>5, <1>16
  <2>3. In(v, p)
    <3>1. In(u, p) BY <1>1, <2>1, <2>2, Kin
    <3> QED BY <2>2, <3>1, CutShape
  <2>4. v[f][p] = child BY <2>1, <2>2, <1>1
  <2>5. v.left = v["left"] BY <1>1, Fields
  <2>6. s = f
    <3>1. CASE f = "left" BY <2>4, <2>5, <3>1
    <3>2. CASE f = "right"
      <4>1. v["left"][p] = u["left"][p] BY <2>1, <2>2, <3>2, <1>1 DEF Opp, Sides
      <4>2. Ht(h, u["left"][p]) = Ht(h, u["right"][p])
        BY <2>2, <1>8, OppSides
      <4>3. Ht(h, u["right"][p]) = h[n] BY <2>1, <3>2, <1>1 DEF Ht
      <4>4. h[n] >= 1 BY <1>10, <1>11, <1>16
      <4>5. u["left"][p] # NULL BY <4>2, <4>3, <4>4 DEF Ht
      <4>6. u["left"][p] # child
        <5>1. u["left"][p] = child => u.parent[child] = p
          BY <2>2, <4>5 DEF Shape, Pointers, Sides
        <5> QED BY <5>1, <4>5, <2>2, <1>3
      <4> QED BY <3>2, <4>1, <4>6, <2>5
    <3> QED BY <3>1, <3>2 DEF Sides
  <2>7. ASSUME NEW m \in Nodes, NEW e \in Sides PROVE HeightAt(v, h2, p, s, m, e)
    <3>1. CASE u[e][m] = n
      <4>1. m = p BY <3>1, <1>3
      <4>2. e = f BY <2>1, <3>1, <4>1, OppSides
      <4>3. Ht(h2, v[e][m]) \in Nat BY <4>1, <4>2, <2>4, <1>10
      <4>4. h2[m] = (IF v.color[m] = "red" THEN 0 ELSE 1) + Ht(h2, v[e][m]) + 1
        BY <3>1, <4>3, <1>13, <1>16
      <4> QED BY <4>1, <4>2, <4>4, <2>6, <1>1, <1>9, OwedShown
    <3>2. CASE u[e][m] # n
      <4>1. m # p \/ e # s BY <2>1, <2>6, <3>2
      <4> QED BY <3>2, <4>1, <1>1, <1>9, <1>12, HeightShown
    <3> QED BY <3>1, <3>2
  <2>8. Heights(v, h2, p, s) BY <2>7, <1>9 DEF Heights
  <2> QED BY <2>2, <2>3, <2>4, <2>6, <2>8
<1> QED BY <1>1, <1>7, <1>14, <1>15, <1>16

\* A node that takes the place and the colour of another changes no height.
LEMMA RenamedBalance ==
  ASSUME RBTreeAssumption, NEW u, NEW B, Shape(u, B), NEW a \in Nodes, In(u, a),
         NEW b \in Nodes, ~In(u, b), NEW v, Renamed(u, v, a, b),
         NEW X, a \notin X, RedOK(u, X),
         NEW h, NEW p, NEW s, p # b, Heights(u, h, p, s)
  PROVE  RedOK(v, X) /\ \E h2 : Heights(v, h2, IF p = a THEN b ELSE p, s)
<1> DEFINE h2 == [h EXCEPT ![b] = h[a], ![a] = 0]
           q == IF p = a THEN b ELSE p
<1>1. /\ u \in Trees /\ v \in Trees /\ a # NULL /\ b # NULL /\ a # b /\ NULL \notin Nodes
      /\ h \in [Nodes -> Nat]
      /\ \A m \in Nodes, e \in Sides : u[e][m] \in N0
      /\ \A m \in Nodes : u.parent[m] \in N0
  BY Fields DEF Shape, RBTreeAssumption, Renamed, Heights
<1>2. /\ b # u.root /\ u.parent[b] = NULL
      /\ \A e \in Sides : u[e][b] = NULL
      /\ \A m \in Nodes : u.parent[m] # b
      /\ \A m \in Nodes, e \in Sides : u[e][m] # b
  BY Outsider
<1>3. /\ v.root = IF u.root = a THEN b ELSE u.root
      /\ \A m \in Nodes : v.parent[m] = IF m = a THEN NULL ELSE IF m = b THEN u.parent[a]
                                        ELSE IF u.parent[m] = a THEN b ELSE u.parent[m]
      /\ \A m \in Nodes : v.color[m] = IF m = a THEN "red" ELSE IF m = b THEN u.color[a]
                                       ELSE u.color[m]
      /\ \A e \in Sides, m \in Nodes :
           v[e][m] = IF m = a THEN NULL ELSE IF m = b THEN u[e][a]
                     ELSE IF u[e][m] = a THEN b ELSE u[e][m]
  BY DEF Renamed
<1>4. \A e \in Sides : u[e][a] # a BY Kin, <1>1
<1>5. u.parent[a] # a
  <2>1. u.parent[a] # NULL => \E e \in Sides : u[e][u.parent[a]] = a BY DEF Shape, Pointers
  <2> QED BY <2>1, <1>1, <1>4
<1>6. RedOK(v, X)
  <2> SUFFICES ASSUME NEW m \in Nodes, IsRed(v, m), m = v.root \/ IsRed(v, v.parent[m])
               PROVE  m \in X
    BY DEF RedOK
  <2>1. m # a
    <3>1. v.parent[a] = NULL /\ v.root # a BY <1>1, <1>3
    <3> QED BY <3>1 DEF IsRed
  <2>2. CASE m = b
    <3>1. IsRed(u, a) BY <2>1, <2>2, <1>1, <1>3 DEF IsRed
    <3>2. v.parent[m] = u.parent[a] BY <2>1, <2>2, <1>3
    <3>3. IsRed(v, v.parent[m]) => IsRed(u, u.parent[a])
      BY <3>2, <1>1, <1>2, <1>3, <1>5 DEF IsRed, N0
    <3>4. m = v.root => a = u.root BY <2>2, <1>2, <1>3
    <3> QED BY <3>1, <3>3, <3>4 DEF RedOK
  <2>3. CASE m # b
    <3>1. IsRed(u, m) BY <2>1, <2>3, <1>3 DEF IsRed
    <3>2. m = v.root => m = u.root BY <2>1, <2>3, <1>3
    <3>3. IsRed(v, v.parent[m]) => IsRed(u, u.parent[m])
      BY <2>1, <2>3, <1>1, <1>2, <1>3 DEF IsRed, N0
    <3> QED BY <3>1, <3>2, <3>3 DEF RedOK
  <2> QED BY <2>2, <2>3
<1>7. /\ h2 \in [Nodes -> Nat] /\ h2[a] = 0 /\ h2[b] = h[a]
      /\ \A m \in Nodes \ {a, b} : h2[m] = h[m]
  BY <1>1
<1> HIDE DEF h2
<1>8. ASSUME NEW m \in Nodes, NEW e \in Sides PROVE HeightAt(v, h2, q, s, m, e)
  <2>1. q # a BY <1>1
  <2>2. CASE m = a
    <3>1. v.color[m] = "red" /\ v[e][m] = NULL /\ h2[m] = 0 BY <2>2, <1>3, <1>7
    <3>2. h2[m] = (IF v.color[m] = "red" THEN 0 ELSE 1) + Ht(h2, v[e][m]) BY <3>1 DEF Ht
    <3> QED BY <2>1, <2>2, <3>2, <1>1, <1>7, HeightShown
  <2>3. CASE m = b
    <3>1. HeightAt(u, h, p, s, a, e) BY DEF Heights
    <3>2. v[e][m] = u[e][a] BY <2>3, <1>1, <1>3
    <3>3. Ht(h2, v[e][m]) = Ht(h, u[e][a]) BY <3>2, <1>1, <1>2, <1>4, <1>7 DEF Ht, N0
    <3>4. Bl(v, m) = Bl(u, a) BY <2>3, <1>1, <1>3, BlType
    <3>5. Owes(q, s, m, e) = Owes(p, s, a, e) BY <2>3, <1>1 DEF Owes
    <3> QED BY <2>3, <3>1, <3>3, <3>4, <3>5, <1>7 DEF HeightAt
  <2>4. CASE m # a /\ m # b
    <3>1. HeightAt(u, h, p, s, m, e) BY DEF Heights
    <3>2. v[e][m] = IF u[e][m] = a THEN b ELSE u[e][m] BY <2>4, <1>3
    <3>3. Ht(h2, v[e][m]) = Ht(h, u[e][m]) BY <3>2, <1>1, <1>2, <1>7 DEF Ht, N0
    <3>4. Bl(v, m) = Bl(u, m) BY <2>4, <1>3, BlType
    <3>5. Owes(q, s, m, e) = Owes(p, s, m, e) BY <2>4, <1>1 DEF Owes
    <3> QED BY <2>4, <3>1, <3>3, <3>4, <3>5, <1>7 DEF HeightAt
  <2> QED BY <2>2, <2>3, <2>4
<1> QED BY <1>6, <1>7, <1>8 DEF Heights

\* A rotation leaves no red node under a red one if the nodes that turned, and
\* the subtrees that hang on them, do not stand so.
LEMMA RotatedRed ==
  ASSUME RBTreeAssumption, NEW u, NEW B, Shape(u, B), RedOK(u, {}),
         NEW n \in Nodes, NEW d \in Sides, NEW up \in Nodes, u[Opp(d)][n] = up,
         NEW v, Rotated(u, v, n, d),
         NEW moved, moved = u[d][up], NEW outer, outer = u[Opp(d)][up],
         \A m \in Nodes \ {n, up, outer} : v.color[m] = u.color[m],
         IsRed(v, outer) => IsRed(u, outer) /\ IsBlack(v, up),
         IsRed(v, n) => IsBlack(v, up),
         IsRed(v, u[d][n]) => IsBlack(v, n),
         IsRed(v, moved) => IsBlack(v, n),
         IsRed(v, up) => u.parent[n] # NULL /\ IsBlack(v, u.parent[n])
  PROVE  RedOK(v, {})
<1>1. /\ u \in Trees /\ v \in Trees /\ NULL \notin Nodes /\ n # NULL /\ up # NULL
      /\ Opp(d) \in Sides /\ Opp(d) # d /\ Opp(Opp(d)) = d
  BY OppSides DEF Shape, RBTreeAssumption, Rotated
<1>2. /\ up # n /\ u.parent[up] = n /\ up # u.root
  BY <1>1, Kin
<1>3. /\ v.root = IF u.parent[n] = NULL THEN up ELSE u.root
      /\ \A m \in Nodes : v.parent[m] = IF m = n THEN up ELSE IF m = up THEN u.parent[n]
                                        ELSE IF m = moved THEN n ELSE u.parent[m]
  BY DEF Rotated
<1>4. \A x, m \in Nodes : u.parent[m] = x => \E e \in {d, Opp(d)} : m = u[e][x]
  <2>1. \A x, m \in Nodes : u.parent[m] = x => m = u["left"][x] \/ m = u["right"][x] BY Children
  <2> QED BY <2>1 DEF Sides, Opp
<1>5. u.root # NULL => u.parent[u.root] = NULL BY DEF Shape, Pointers
<1>6. SUFFICES ASSUME NEW m \in Nodes, IsRed(v, m), m = v.root \/ IsRed(v, v.parent[m])
               PROVE  FALSE
  BY DEF RedOK
<1>7. CASE m = n
  <2>1. v.parent[m] = up BY <1>7, <1>3
  <2>2. m # v.root BY <1>1, <1>2, <1>3, <1>5, <1>7
  <2> QED BY <2>1, <2>2, <1>6, <1>7 DEF IsBlack
<1>8. CASE m = up
  <2>1. v.parent[m] = u.parent[n] BY <1>2, <1>3, <1>8
  <2>2. u.parent[n] # NULL /\ ~IsRed(v, u.parent[n]) BY <1>6, <1>8 DEF IsBlack
  <2>3. m # v.root BY <2>2, <1>2, <1>3, <1>8
  <2> QED BY <2>1, <2>2, <2>3, <1>6
<1>9. CASE m = moved /\ m # n /\ m # up
  <2>1. v.parent[m] = n BY <1>9, <1>3
  <2>2. u.parent[m] = up BY <1>1, <1>9, Kin
  <2>3. m # v.root BY <2>2, <1>1, <1>3, <1>5, <1>9
  <2> QED BY <2>1, <2>3, <1>6, <1>9 DEF IsBlack
<1>10. CASE m # moved /\ m # n /\ m # up
  <2>1. v.parent[m] = u.parent[m] BY <1>3, <1>10
  <2>2. m = v.root => m = u.root BY <1>3, <1>10
  <2>3. CASE u.parent[m] = n
    <3>1. m = u[d][n] BY <2>3, <1>4, <1>10
    <3>2. m # v.root BY <2>2, <2>3, <1>1, <1>5
    <3> QED BY <2>1, <2>3, <3>1, <3>2, <1>6 DEF IsBlack
  <2>4. CASE u.parent[m] = up
    <3>1. m = outer BY <2>4, <1>4, <1>10
    <3>2. m # v.root BY <2>2, <2>4, <1>1, <1>5
    <3> QED BY <2>1, <2>4, <3>1, <3>2, <1>6 DEF IsBlack
  <2>5. CASE u.parent[m] # n /\ u.parent[m] # up
    <3>1. m # outer
      <4>1. m = outer => u.parent[m] = up BY <1>1, Kin
      <4> QED BY <2>5, <4>1
    <3>2. IsRed(u, m) BY <3>1, <1>6, <1>10 DEF IsRed
    <3>3. IsRed(v, u.parent[m]) => IsRed(u, u.parent[m])
      <4>1. u.parent[m] \in N0 BY <1>1, Fields
      <4>2. CASE u.parent[m] = outer BY <4>2
      <4>3. CASE u.parent[m] # outer BY <4>1, <4>3, <2>5 DEF IsRed, N0
      <4> QED BY <4>2, <4>3
    <3>4. m = u.root \/ IsRed(u, u.parent[m]) BY <2>1, <2>2, <3>3, <1>6
    <3> QED BY <3>2, <3>4 DEF RedOK
  <2> QED BY <2>3, <2>4, <2>5
<1> QED BY <1>7, <1>8, <1>9, <1>10

-----------------------------------------------------------------------------
(* A black is owed on side d of p                                          *)

\* The paths through the child on side d of p, which is black, lack a black.
Lacking(u, B, h, p, d) ==
  /\ Shape(u, B) /\ RedOK(u, {}) /\ Heights(u, h, p, d)
  /\ p \in Nodes /\ d \in Sides /\ IsBlack(u, u[d][p])

\* The side that lacks a black has a sibling.
LEMMA SiblingThere ==
  ASSUME RBTreeAssumption, NEW u, NEW B, NEW h, NEW p, NEW d, Lacking(u, B, h, p, d)
  PROVE  LET s == u[Opp(d)][p]
         IN  /\ s \in Nodes /\ s # NULL /\ p # NULL /\ s # p /\ In(u, p) /\ In(u, s)
             /\ u.parent[s] = p /\ s # u[d][p] /\ u.parent[p] # s
             /\ Ht(h, u[d][p]) \in Nat /\ h[s] \in Nat
             /\ h[s] = Ht(h, u[d][p]) + 1
             /\ h[p] = (IF u.color[p] = "red" THEN 0 ELSE 1) + h[s]
<1> DEFINE s == u[Opp(d)][p]
<1>1. /\ u \in Trees /\ NULL \notin Nodes /\ p # NULL /\ p \in Nodes /\ d \in Sides
      /\ Opp(d) \in Sides /\ Opp(d) # d /\ Opp(Opp(d)) = d
      /\ Heights(u, h, p, d) /\ Shape(u, B)
  BY OppSides DEF Lacking, Shape, RBTreeAssumption
<1>2. /\ h[p] \in Nat /\ Ht(h, s) \in Nat
      /\ h[p] = (IF u.color[p] = "red" THEN 0 ELSE 1) + Ht(h, s)
  BY <1>1, HeightFrom
<1>3. /\ Ht(h, u[d][p]) \in Nat
      /\ h[p] = (IF u.color[p] = "red" THEN 0 ELSE 1) + Ht(h, u[d][p]) + 1
  BY <1>1, HeightOwed
<1>4. Ht(h, s) = Ht(h, u[d][p]) + 1 BY <1>2, <1>3
<1>5. s # NULL BY <1>3, <1>4 DEF Ht
<1>6. /\ s \in Nodes /\ s # p /\ u.parent[s] = p /\ u.parent[p] # s /\ In(u, p) /\ In(u, s)
      /\ u[d][p] # s
  BY <1>1, <1>5, Kin
<1>7. Ht(h, s) = h[s] BY <1>5 DEF Ht
<1> QED BY <1>1, <1>2, <1>3, <1>4, <1>5, <1>6, <1>7

\* What a step of the erasure keeps: the nodes of the tree, and the debt.
StillLacking(u, v, p, d) ==
  /\ \E C, h2 : Lacking(v, C, h2, p, d)
  /\ \A m \in Nodes : In(v, m) <=> In(u, m)
  /\ v[d][p] = u[d][p]

\* A red sibling: the rotation gives the side that lacks a black another sibling, a
\* black one (rbtree.c:158).
LEMMA BlackSiblingRed ==
  ASSUME RBTreeAssumption, NEW u, NEW B, NEW h, NEW p, NEW d, Lacking(u, B, h, p, d),
         IsRed(u, u[Opp(d)][p])
  PROVE  LET v == BlackSibling(u, p, d)
         IN  /\ StillLacking(u, v, p, d)
             /\ v.color[v[Opp(d)][p]] = "black"
<1> DEFINE s == u[Opp(d)][p]
           w == SetColor(SetColor(u, s, "black"), p, "red")
           v == Rotate(w, p, d)
           moved == u[d][s]
           outer == u[Opp(d)][s]
           h2 == [h EXCEPT ![p] = h[s], ![s] = h[p]]
<1>1. BlackSibling(u, p, d) = v BY DEF BlackSibling, SetColor
<1>2. /\ u \in Trees /\ NULL \notin Nodes /\ p \in Nodes /\ d \in Sides
      /\ Opp(d) \in Sides /\ Opp(d) # d /\ Opp(Opp(d)) = d
      /\ Shape(u, B) /\ RedOK(u, {}) /\ Heights(u, h, p, d) /\ h \in [Nodes -> Nat]
      /\ IsBlack(u, u[d][p])
  BY OppSides DEF Lacking, Shape, Heights, RBTreeAssumption
<1>3. /\ s \in Nodes /\ s # NULL /\ p # NULL /\ s # p /\ In(u, p) /\ In(u, s)
      /\ u.parent[s] = p /\ s # u[d][p] /\ u.parent[p] # s
      /\ Ht(h, u[d][p]) \in Nat /\ h[s] \in Nat
      /\ h[s] = Ht(h, u[d][p]) + 1
      /\ h[p] = (IF u.color[p] = "red" THEN 0 ELSE 1) + h[s]
  BY SiblingThere
<1>4. u.color[s] = "red" /\ u.color[p] = "black"
  <2>1. u.color[s] = "red" BY DEF IsRed
  <2>2. ~IsRed(u, p) BY <1>2, <1>3 DEF RedOK
  <2>3. u.color[p] \in {"red", "black"} BY <1>2, Fields
  <2> QED BY <2>1, <2>2, <2>3, <1>3 DEF IsRed
<1>5. /\ SamePointers(u, w)
      /\ \A m \in Nodes : w.color[m] = IF m = p THEN "red" ELSE IF m = s THEN "black" ELSE u.color[m]
  BY <1>2, <1>3, PaintTwo
<1> HIDE DEF w
<1>6. Shape(w, B) /\ \A m \in Nodes : In(w, m) <=> In(u, m) BY <1>2, <1>5, SameShape
<1>7. Rotated(w, v, p, d) /\ v.color = w.color
  <2>1. w[Opp(d)][p] # NULL BY <1>2, <1>3, <1>5 DEF SamePointers
  <2> QED BY <2>1, <1>2, <1>6, RotateFields
<1>8. Rotated(u, v, p, d) BY <1>2, <1>5, <1>7, SameRotated
<1> HIDE DEF v
<1>9. Shape(v, Turned(u, B, p, d)) /\ \A m \in Nodes : In(v, m) <=> In(u, m)
  BY <1>2, <1>3, <1>8, RotatedShape
<1>10. /\ v \in Trees
       /\ \A e \in Sides, m \in Nodes :
            v[e][m] = IF m = p THEN IF e = d THEN u[d][p] ELSE moved
                      ELSE IF m = s THEN IF e = d THEN p ELSE u[e][s]
                      ELSE IF u[e][m] = p THEN s ELSE u[e][m]
       /\ \A m \in Nodes : v.color[m] = IF m = p THEN "red" ELSE IF m = s THEN "black" ELSE u.color[m]
  BY <1>5, <1>7, <1>8 DEF Rotated
<1>11. h[s] = Ht(h, moved) /\ h[s] = Ht(h, outer)
  BY <1>2, <1>3, <1>4, HeightFrom
<1>12. moved # NULL BY <1>3, <1>11 DEF Ht
<1>13. /\ moved \in Nodes /\ u.parent[moved] = s /\ moved # s /\ moved # p
       /\ outer \in N0 /\ outer # s /\ outer # p /\ u[d][p] \in N0 /\ u[d][p] # p
  <2>1. /\ moved \in Nodes /\ u.parent[moved] = s /\ moved # s BY <1>2, <1>3, <1>12, Kin
  <2>2. \A e \in Sides : u[e][s] # p BY <1>2, <1>3, Kin
  <2>3. u[d][p] # p BY <1>2, <1>3, Kin
  <2>4. outer # s BY <1>2, <1>3, Kin
  <2> QED BY <2>1, <2>2, <2>3, <2>4, <1>2, <1>3, Fields
<1>14. ~IsRed(u, moved) BY <1>2, <1>3, <1>4, <1>13 DEF RedOK, IsRed
<1>15. v.color[moved] = "black"
  <2>1. u.color[moved] \in {"red", "black"} BY <1>2, <1>13, Fields
  <2> QED BY <2>1, <1>10, <1>12, <1>13, <1>14 DEF IsRed
<1>16. RedOK(v, {})
  <2>1. \A m \in Nodes \ {p, s, outer} : v.color[m] = u.color[m] BY <1>10
  <2>2. ~IsRed(v, s) BY <1>3, <1>10 DEF IsRed
  <2>3. IsRed(v, outer) => IsRed(u, outer) /\ IsBlack(v, s)
    BY <2>2, <1>10, <1>13 DEF IsRed, IsBlack, N0
  <2>4. ~IsRed(v, u[d][p])
    BY <1>2, <1>3, <1>10, <1>13 DEF IsRed, IsBlack, N0
  <2>5. ~IsRed(v, moved) BY <1>15 DEF IsRed
  <2> QED BY <2>1, <2>2, <2>3, <2>4, <2>5, <1>2, <1>3, <1>8, RotatedRed DEF IsBlack
<1>17. /\ h2 \in [Nodes -> Nat] /\ h2[p] = h[s] /\ h2[s] = h[p]
       /\ \A m \in Nodes \ {p, s} : h2[m] = h[m]
       /\ h[p] \in Nat
  BY <1>2, <1>3
<1> HIDE DEF h2
<1>18. /\ Ht(h2, moved) = h[s] /\ Ht(h2, outer) = h[s] /\ Ht(h2, p) = h[s]
       /\ Ht(h2, u[d][p]) = Ht(h, u[d][p])
  BY <1>2, <1>3, <1>11, <1>13, <1>17 DEF Ht, N0
<1>19. Heights(v, h2, p, d)
  <2>1. HeightAt(v, h2, p, d, p, d)
    <3>1. h2[p] = (IF v.color[p] = "red" THEN 0 ELSE 1) + Ht(h2, v[d][p]) + 1
      BY <1>2, <1>3, <1>10, <1>17, <1>18
    <3> QED BY <3>1, <1>2, <1>10, <1>17, OwedShown
  <2>2. HeightAt(v, h2, p, d, p, Opp(d))
    <3>1. h2[p] = (IF v.color[p] = "red" THEN 0 ELSE 1) + Ht(h2, v[Opp(d)][p])
      BY <1>2, <1>3, <1>10, <1>17, <1>18
    <3> QED BY <3>1, <1>2, <1>10, <1>17, HeightShown
  <2>3. \A e \in Sides : HeightAt(v, h2, p, d, s, e)
    <3> SUFFICES ASSUME NEW e \in Sides PROVE HeightAt(v, h2, p, d, s, e) OBVIOUS
    <3>1. Ht(h2, v[e][s]) = h[s] BY <1>2, <1>3, <1>10, <1>18, OppSides
    <3>2. h2[s] = (IF v.color[s] = "red" THEN 0 ELSE 1) + Ht(h2, v[e][s])
      BY <3>1, <1>3, <1>4, <1>10, <1>17
    <3> QED BY <3>2, <1>2, <1>3, <1>10, <1>17, HeightShown
  <2>4. \A m \in {p, s, p}, e \in Sides : HeightAt(v, h2, p, d, m, e)
    BY <2>1, <2>2, <2>3, <1>2, OppSides
  <2>5. \A m \in Nodes \ {p, s, p} :
           /\ h2[m] = h[m] /\ v.color[m] = u.color[m]
           /\ \A e \in Sides : Owes(p, d, m, e) = Owes(p, d, m, e)
    BY <1>10, <1>17
  <2> QED BY <2>4, <2>5, <1>2, <1>3, <1>8, <1>17, RotatedHeights
<1>20. v[d][p] = u[d][p] /\ v[Opp(d)][p] = moved BY <1>2, <1>10
<1>21. IsBlack(v, v[d][p])
  BY <1>2, <1>3, <1>10, <1>13, <1>20 DEF IsRed, IsBlack, N0
<1> QED BY <1>1, <1>2, <1>9, <1>15, <1>16, <1>19, <1>20, <1>21 DEF Lacking, StillLacking

\* In either case the sibling is black then.
LEMMA BlackSiblingIs ==
  ASSUME RBTreeAssumption, NEW u, NEW B, NEW h, NEW p, NEW d, Lacking(u, B, h, p, d)
  PROVE  LET v == BlackSibling(u, p, d)
         IN  /\ StillLacking(u, v, p, d)
             /\ v.color[v[Opp(d)][p]] = "black"
<1>1. CASE IsRed(u, u[Opp(d)][p]) BY <1>1, BlackSiblingRed
<1>2. CASE ~IsRed(u, u[Opp(d)][p])
  <2>1. BlackSibling(u, p, d) = u BY <1>2 DEF BlackSibling
  <2>2. StillLacking(u, u, p, d) BY DEF StillLacking
  <2>3. u[Opp(d)][p] \in Nodes BY SiblingThere
  <2>4. u.color[u[Opp(d)][p]] \in {"red", "black"} BY <2>3, Fields DEF Lacking, Shape
  <2> QED BY <2>1, <2>2, <2>3, <2>4, <1>2 DEF IsRed, RBTreeAssumption
<1> QED BY <1>1, <1>2

\* A black sibling with a red child: afterwards the far child is red (rbtree.c:179).
LEMMA RedFarIs ==
  ASSUME RBTreeAssumption, NEW u, NEW B, NEW h, NEW p, NEW d, Lacking(u, B, h, p, d),
         NEW r, r = Opp(d), NEW s, s = u[r][p], u.color[s] = "black",
         \E e \in Sides : IsRed(u, u[e][s])
  PROVE  LET v == RedFar(u, p, d)
         IN  /\ StillLacking(u, v, p, d)
             /\ v.color[v[r][p]] = "black"
             /\ IsRed(v, v[r][v[r][p]])
<1> DEFINE near == u[d][s]
           far == u[r][s]
           w == SetColor(SetColor(u, near, "black"), s, "red")
           v == Rotate(w, s, r)
           moved == u[r][near]
           outer == u[d][near]
           h2 == [h EXCEPT ![s] = h[near], ![near] = h[s]]
<1>1. /\ u \in Trees /\ NULL \notin Nodes /\ p \in Nodes /\ d \in Sides
      /\ r \in Sides /\ r # d /\ Opp(r) = d
      /\ Shape(u, B) /\ RedOK(u, {}) /\ Heights(u, h, p, d) /\ h \in [Nodes -> Nat]
      /\ IsBlack(u, u[d][p])
  BY OppSides DEF Lacking, Shape, Heights, RBTreeAssumption
<1>2. /\ s \in Nodes /\ s # NULL /\ p # NULL /\ s # p /\ In(u, p) /\ In(u, s)
      /\ u.parent[s] = p /\ s # u[d][p] /\ u.parent[p] # s
  BY SiblingThere
<1>3. CASE IsRed(u, far)
  <2>1. RedFar(u, p, d) = u BY <1>3 DEF RedFar, IsBlack
  <2>2. StillLacking(u, u, p, d) BY DEF StillLacking
  <2> QED BY <2>1, <2>2, <1>3
<1>4. CASE ~IsRed(u, far)
  <2>1. RedFar(u, p, d) = v BY <1>4 DEF RedFar, SetColor, IsBlack
  <2>2. IsRed(u, near) BY <1>4, <1>1, OppSides
  <2>3. /\ near \in Nodes /\ near # NULL /\ near # s /\ u.parent[near] = s /\ u.color[near] = "red"
        /\ far # near /\ \A e \in Sides : u[e][near] # s
        /\ p # near /\ p # s
    <3>1. near # NULL /\ u.color[near] = "red" BY <2>2 DEF IsRed
    <3>2. near \in Nodes /\ near # s /\ u.parent[near] = s /\ far # near
          /\ \A e \in Sides : u[e][near] # s
      BY <3>1, <1>1, <1>2, Kin
    <3>3. p # near BY <3>2, <1>1, <1>2
    <3> QED BY <3>1, <3>2, <3>3, <1>2
  <2>4. /\ SamePointers(u, w)
        /\ \A m \in Nodes : w.color[m] = IF m = s THEN "red" ELSE IF m = near THEN "black"
                                          ELSE u.color[m]
    <3>1. u \in Trees /\ s \in Nodes /\ near \in Nodes BY <1>1, <1>2, <2>3
    <3> HIDE DEF near
    <3> QED BY <3>1, PaintTwo
  <2> HIDE DEF w
  <2>5. Shape(w, B) /\ \A m \in Nodes : In(w, m) <=> In(u, m) BY <1>1, <2>4, SameShape
  <2>6. Rotated(w, v, s, r) /\ v.color = w.color
    <3>1. w[Opp(r)][s] # NULL BY <1>1, <2>3, <2>4 DEF SamePointers
    <3> QED BY <3>1, <1>1, <1>2, <2>5, RotateFields
  <2> HIDE DEF v
  <2>7. r \in Sides /\ d \in Sides /\ r # d /\ Opp(r) = d BY <1>1
  <2>8. Rotated(u, v, s, r) BY <1>2, <2>7, <2>4, <2>6, SameRotated
  <2>9. Shape(v, Turned(u, B, s, r)) /\ \A m \in Nodes : In(v, m) <=> In(u, m)
    BY <1>1, <1>2, <2>3, <2>8, RotatedShape
  <2>10. /\ v \in Trees
         /\ \A e \in Sides, m \in Nodes :
              v[e][m] = IF m = s THEN IF e = r THEN far ELSE moved
                        ELSE IF m = near THEN IF e = r THEN s ELSE u[e][near]
                        ELSE IF u[e][m] = s THEN near ELSE u[e][m]
         /\ \A m \in Nodes : v.color[m] = IF m = s THEN "red" ELSE IF m = near THEN "black"
                                           ELSE u.color[m]
    <3>1. /\ v \in Trees
          /\ \A e \in Sides, m \in Nodes :
               v[e][m] = IF m = s THEN IF e = r THEN far ELSE moved
                         ELSE IF m = near THEN IF e = r THEN s ELSE u[e][near]
                         ELSE IF u[e][m] = s THEN near ELSE u[e][m]
      BY <2>7, <2>8 DEF Rotated
    <3>2. \A m \in Nodes : v.color[m] = IF m = s THEN "red" ELSE IF m = near THEN "black"
                                          ELSE u.color[m]
      BY <2>4, <2>6
    <3> QED BY <3>1, <3>2
  <2>11. \A m \in Nodes, e \in Sides : m # p \/ e # d =>
           /\ h[m] \in Nat /\ Ht(h, u[e][m]) \in Nat
           /\ h[m] = (IF u.color[m] = "red" THEN 0 ELSE 1) + Ht(h, u[e][m])
    BY <1>1, HeightFrom
  <2>12. h[near] = Ht(h, moved) /\ h[near] = Ht(h, outer) /\ h[near] \in Nat
    <3>1. /\ h[near] \in Nat
          /\ h[near] = (IF u.color[near] = "red" THEN 0 ELSE 1) + Ht(h, moved)
          /\ Ht(h, moved) \in Nat
      BY <2>3, <2>7, <2>11
    <3>2. /\ h[near] = (IF u.color[near] = "red" THEN 0 ELSE 1) + Ht(h, outer)
          /\ Ht(h, outer) \in Nat
      BY <2>3, <2>7, <2>11
    <3>3. u.color[near] = "red" BY <2>3
    <3> HIDE DEF moved, outer, near
    <3>4. h[near] = Ht(h, moved) BY <3>1, <3>3
    <3>5. h[near] = Ht(h, outer) BY <3>2, <3>3
    <3> QED BY <3>1, <3>4, <3>5
  <2>13. h[s] = 1 + h[near] /\ h[s] = 1 + Ht(h, far) /\ Ht(h, far) \in Nat
    <3>1. Ht(h, near) = h[near] BY <2>3 DEF Ht
    <3>2. Ht(h, far) \in Nat BY <1>1, <1>2, HeightFrom
    <3> QED BY <3>1, <3>2, <1>1, <1>2, <2>11
  <2>14. /\ moved \in N0 /\ moved # s /\ moved # near
         /\ outer \in N0 /\ outer # s /\ outer # near
         /\ far \in N0 /\ far # s /\ far # near
    <3>1. moved # near /\ outer # near BY <1>1, <2>3, ParentOf
    <3>2. far # s BY <1>1, <1>2, Kin
    <3> QED BY <3>1, <3>2, <1>1, <1>2, <2>3, Fields
  <2>15. RedOK(v, {})
    <3>1. \A m \in Nodes \ {s, near, outer} : v.color[m] = u.color[m] BY <2>10
    <3>2. ~IsRed(v, near) BY <2>3, <2>10 DEF IsRed
    <3>3. IsRed(v, outer) => IsRed(u, outer) /\ IsBlack(v, near)
      BY <3>2, <2>10, <2>14 DEF IsRed, IsBlack, N0
    <3>4. ~IsRed(v, far)
      BY <1>4, <2>10, <2>14 DEF IsRed, N0
    <3>5. ~IsRed(v, moved)
      <4>1. CASE moved = NULL BY <4>1 DEF IsRed
      <4>2. CASE moved # NULL
        <5>1. moved \in Nodes /\ u.parent[moved] = near
          <6>1. Shape(u, B) /\ near \in Nodes /\ r \in Sides /\ moved = u[r][near]
            BY <1>1, <2>3
          <6> HIDE DEF near, moved
          <6> QED BY <6>1, <4>2, ParentOf
        <5>2. ~IsRed(u, moved) BY <5>1, <1>1, <2>2 DEF RedOK
        <5> QED BY <5>1, <5>2, <2>10, <2>14 DEF IsRed
      <4> QED BY <4>1, <4>2
    <3>6. u[Opp(r)][s] = near /\ outer = u[Opp(r)][near] /\ moved = u[r][near]
          /\ far = u[r][s] BY <1>1
    <3>7. ~IsRed(v, s) \/ IsBlack(v, near) BY <3>2 DEF IsBlack
    <3>8. Shape(u, B) /\ RedOK(u, {}) /\ s \in Nodes /\ r \in Sides /\ near \in Nodes
      BY <1>1, <1>2, <2>3
    <3> HIDE DEF near, far, moved, outer
    <3> QED BY <3>1, <3>2, <3>3, <3>4, <3>5, <3>6, <3>7, <3>8, <2>8, RotatedRed
  <2>16. /\ h2 \in [Nodes -> Nat] /\ h2[s] = h[near] /\ h2[near] = h[s]
         /\ \A m \in Nodes \ {s, near} : h2[m] = h[m]
         /\ h[s] \in Nat
    BY <1>1, <1>2, <2>3, <2>12
  <2> HIDE DEF h2
  <2>17. /\ Ht(h2, moved) = h[near] /\ Ht(h2, outer) = h[near] /\ Ht(h2, s) = h[near]
         /\ Ht(h2, far) = h[near]
    <3>1. Ht(h2, s) = h[near] BY <1>2, <2>16 DEF Ht
    <3>2. Ht(h2, moved) = Ht(h, moved) /\ Ht(h2, outer) = Ht(h, outer) /\ Ht(h2, far) = Ht(h, far)
      BY <2>14, <2>16 DEF Ht, N0
    <3>3. Ht(h, far) = h[near] BY <2>12, <2>13
    <3> QED BY <3>1, <3>2, <3>3, <2>12
  <2>18. Heights(v, h2, p, d)
    <3>1. \A e \in Sides : HeightAt(v, h2, p, d, s, e)
      <4> SUFFICES ASSUME NEW e \in Sides PROVE HeightAt(v, h2, p, d, s, e) OBVIOUS
      <4>1. Ht(h2, v[e][s]) = h[near] BY <1>2, <2>10, <2>17
      <4>2. h2[s] = (IF v.color[s] = "red" THEN 0 ELSE 1) + Ht(h2, v[e][s])
        <5>1. v.color[s] = "red" /\ h2[s] = h[near] BY <1>2, <2>10, <2>16
        <5> QED BY <5>1, <4>1, <2>12
      <4> QED BY <4>2, <1>1, <1>2, <2>10, <2>16, HeightShown
    <3>2. \A e \in Sides : HeightAt(v, h2, p, d, near, e)
      <4> SUFFICES ASSUME NEW e \in Sides PROVE HeightAt(v, h2, p, d, near, e) OBVIOUS
      <4>1. e = r \/ e = d BY <1>1, OppSides
      <4>2. Ht(h2, v[e][near]) = h[near]
        <5>1. CASE e = r
          <6>1. v[e][near] = s BY <5>1, <2>7, <2>3, <2>10
          <6> QED BY <6>1, <2>17
        <5>2. CASE e = d
          <6>1. v[e][near] = outer BY <5>2, <2>7, <2>3, <2>10
          <6> QED BY <6>1, <2>17
        <5> QED BY <4>1, <5>1, <5>2
      <4>3. h2[near] = (IF v.color[near] = "red" THEN 0 ELSE 1) + Ht(h2, v[e][near])
        BY <4>2, <2>3, <2>10, <2>12, <2>13, <2>16
      <4> QED BY <4>3, <1>1, <2>3, <2>10, <2>16, HeightShown
    <3>3. \A m \in {s, near, s}, e \in Sides : HeightAt(v, h2, p, d, m, e)
      BY <3>1, <3>2
    <3>4. \A m \in Nodes \ {s, near, s} :
             /\ h2[m] = h[m] /\ v.color[m] = u.color[m]
             /\ \A e \in Sides : Owes(p, d, m, e) = Owes(p, d, m, e)
      BY <2>10, <2>16
    <3>5. u[Opp(r)][s] = near /\ near # NULL BY <1>1, <2>3
    <3>6. \A m \in {s, u[Opp(r)][s], s}, e \in Sides : HeightAt(v, h2, p, d, m, e)
      BY <3>3, <3>5
    <3>7. \A m \in Nodes \ {s, u[Opp(r)][s], s} :
             /\ h2[m] = h[m] /\ v.color[m] = u.color[m]
             /\ \A e \in Sides : Owes(p, d, m, e) = Owes(p, d, m, e)
      BY <3>4, <3>5
    <3>8. h2[u[Opp(r)][s]] = h[s] /\ u[Opp(r)][s] # NULL BY <3>5, <2>16
    <3>9. s \in Nodes /\ r \in Sides BY <1>2, <2>7
    <3>10. Shape(u, B) /\ Heights(u, h, p, d) /\ h2 \in [Nodes -> Nat] BY <1>1, <2>16
    <3> HIDE DEF near, far, moved, outer
    <3> QED BY <3>6, <3>7, <3>8, <3>9, <3>10, <2>8, RotatedHeights
  <2>19. v[d][p] = u[d][p] /\ v[r][p] = near /\ v[r][near] = s
    BY <1>1, <1>2, <2>3, <2>10
  <2>20. IsBlack(v, v[d][p])
    <3>1. u[d][p] \in N0 BY <1>1, Fields
    <3>2. u[d][p] # near
      <4>1. u[d][p] = near => u.parent[near] = p BY <1>1, <2>3, ParentOf
      <4> QED BY <4>1, <2>3, <1>2
    <3>3. v[d][p] = u[d][p] /\ ~IsRed(u, u[d][p]) /\ u[d][p] # s
      BY <1>1, <1>2, <2>19 DEF IsBlack
    <3>4. PICK x : x = u[d][p] OBVIOUS
    <3>5. x \in N0 /\ x # s /\ x # near /\ ~IsRed(u, x) BY <3>1, <3>2, <3>3, <3>4
    <3>6. x # NULL => v.color[x] = u.color[x] BY <3>5, <2>10 DEF N0
    <3>7. ~IsRed(v, x) BY <3>5, <3>6 DEF IsRed
    <3> QED BY <3>3, <3>4, <3>7 DEF IsBlack
  <2>21. IsRed(v, s) /\ v.color[near] = "black" BY <1>2, <2>3, <2>10 DEF IsRed
  <2> QED BY <2>1, <1>1, <2>9, <2>15, <2>18, <2>19, <2>20, <2>21 DEF Lacking, StillLacking
<1> QED BY <1>3, <1>4

\* The red far child of the sibling s pays the debt: s goes up in the place and
\* the colour of p.
LEMMA DebtPaid ==
  ASSUME RBTreeAssumption, NEW u, NEW B, NEW h, NEW p, NEW d, Lacking(u, B, h, p, d),
         NEW r, r = Opp(d), NEW s, s = u[r][p], u.color[s] = "black",
         NEW far, far = u[r][s], IsRed(u, far),
         NEW w, SamePointers(u, w),
         \A m \in Nodes : w.color[m] = IF m = far THEN "black" ELSE IF m = p THEN "black"
                                       ELSE IF m = s THEN u.color[p] ELSE u.color[m],
         NEW v, Rotated(w, v, p, d), v.color = w.color
  PROVE  /\ Shape(v, Turned(u, B, p, d)) /\ \A m \in Nodes : In(v, m) <=> In(u, m)
         /\ RedOK(v, {})
         /\ \E h2 : Heights(v, h2, NULL, "left")
<1> DEFINE moved == u[d][s]
           low == u[d][p]
           h2 == [h EXCEPT ![far] = h[far] + 1, ![p] = 1 + Ht(h, low), ![s] = h[p]]
<1>1. /\ u \in Trees /\ NULL \notin Nodes /\ p \in Nodes /\ d \in Sides
      /\ r \in Sides /\ r # d /\ Opp(d) = r
      /\ Shape(u, B) /\ RedOK(u, {}) /\ Heights(u, h, p, d) /\ h \in [Nodes -> Nat]
      /\ IsBlack(u, u[d][p])
  BY OppSides DEF Lacking, Shape, Heights, RBTreeAssumption
<1>2. /\ s \in Nodes /\ s # NULL /\ p # NULL /\ s # p /\ In(u, p) /\ In(u, s)
      /\ u.parent[s] = p /\ s # u[d][p] /\ u.parent[p] # s
      /\ Ht(h, low) \in Nat /\ h[s] \in Nat
      /\ h[s] = Ht(h, low) + 1
      /\ h[p] = (IF u.color[p] = "red" THEN 0 ELSE 1) + h[s]
  BY SiblingThere
<1>3. far # NULL /\ u.color[far] = "red" BY DEF IsRed
<1>4. /\ far \in Nodes /\ far # s /\ far # p /\ u.parent[far] = s
      /\ \A e \in Sides : u[e][far] # s
  <2>1. far \in Nodes /\ far # s /\ u.parent[far] = s /\ \A e \in Sides : u[e][far] # s
    BY <1>1, <1>2, <1>3, Kin
  <2> QED BY <2>1, <1>2
<1>5. Rotated(u, v, p, d) BY <1>1, SameRotated
<1>6. u[Opp(d)][p] = s BY <1>1
<1>7. Shape(v, Turned(u, B, p, d)) /\ \A m \in Nodes : In(v, m) <=> In(u, m)
  BY <1>1, <1>2, <1>5, <1>6, RotatedShape
<1>8. /\ v \in Trees
      /\ \A e \in Sides, m \in Nodes :
           v[e][m] = IF m = p THEN IF e = d THEN low ELSE moved
                     ELSE IF m = s THEN IF e = d THEN p ELSE u[e][s]
                     ELSE IF u[e][m] = p THEN s ELSE u[e][m]
  BY <1>5, <1>6 DEF Rotated
<1>9. /\ \A m \in Nodes \ {far, p, s} : v.color[m] = u.color[m]
      /\ v.color[far] = "black" /\ v.color[p] = "black" /\ v.color[s] = u.color[p]
  BY <1>1, <1>2, <1>4
<1>10. RedOK(v, {})
  <2>1. \A m \in Nodes \ {p, s, far} : v.color[m] = u.color[m] BY <1>9
  <2>2. ~IsRed(v, far) /\ ~IsRed(v, p) BY <1>9 DEF IsRed
  <2>3. IsRed(v, s) => u.parent[p] # NULL /\ IsBlack(v, u.parent[p])
    <3> SUFFICES ASSUME IsRed(v, s) PROVE u.parent[p] # NULL /\ ~IsRed(v, u.parent[p])
      BY DEF IsBlack
    <3>1. IsRed(u, p) BY <1>2, <1>9 DEF IsRed
    <3>2. /\ p # u.root /\ u.parent[p] \in Nodes /\ u.parent[p] # p
          /\ u.color[u.parent[p]] = "black"
      BY <3>1, <1>1, <1>2, RedParent
    <3>3. u.parent[p] # far BY <3>2, <1>3
    <3>4. v.color[u.parent[p]] = "black" BY <3>2, <3>3, <1>2, <1>9
    <3> QED BY <3>2, <3>4, <1>1 DEF IsRed
  <2>4. p \in Nodes /\ d \in Sides /\ s \in Nodes /\ Shape(u, B) /\ RedOK(u, {}) BY <1>1, <1>2
  <2>5. IsBlack(v, p) /\ ~IsRed(v, far) BY <2>2 DEF IsBlack
  <2>6. far = u[Opp(d)][s] BY <1>1
  <2> QED BY <2>1, <2>2, <2>3, <2>4, <2>5, <2>6, <1>5, <1>6, RotatedRed
<1>11. h[s] = 1 + Ht(h, moved) /\ h[s] = 1 + h[far] /\ Ht(h, moved) \in Nat /\ h[far] \in Nat
  <2>1. h[s] = 1 + Ht(h, moved) /\ Ht(h, moved) \in Nat BY <1>1, <1>2, HeightFrom
  <2>2. h[s] = 1 + Ht(h, far) BY <1>1, <1>2, HeightFrom
  <2>3. Ht(h, far) = h[far] BY <1>3 DEF Ht
  <2>4. h[far] \in Nat BY <1>1, <1>4
  <2> QED BY <2>1, <2>2, <2>3, <2>4
<1>12. /\ h2 \in [Nodes -> Nat] /\ h2[far] = h[far] + 1 /\ h2[p] = 1 + Ht(h, low) /\ h2[s] = h[p]
       /\ \A m \in Nodes \ {far, p, s} : h2[m] = h[m]
  <2>1. far \in Nodes /\ p \in Nodes /\ s \in Nodes /\ far # p /\ far # s /\ p # s
    BY <1>1, <1>2, <1>4
  <2>2. h[far] + 1 \in Nat /\ 1 + Ht(h, low) \in Nat /\ h[p] \in Nat BY <1>1, <1>2, <1>11
  <2> HIDE DEF low
  <2> QED BY <2>1, <2>2, <1>1
<1> HIDE DEF h2
<1>13. /\ low \in N0 /\ low \notin {far, p, s} /\ moved \in N0 /\ moved \notin {far, p, s}
  <2>1. low # p BY <1>1, <1>2, Kin
  <2>2. low # far
    <3>1. low = far => u.parent[far] = p BY <1>1, <1>3, Kin
    <3> QED BY <3>1, <1>2, <1>4
  <2>3. moved # s /\ moved # p BY <1>1, <1>2, Kin
  <2>4. moved # far
    <3>1. u[Opp(r)][s] # far BY <1>1, <1>2, <1>3, Kin
    <3> QED BY <3>1, <1>1, OppSides
  <2> QED BY <2>1, <2>2, <2>3, <2>4, <1>1, <1>2, Fields
<1>14. Ht(h2, low) = Ht(h, low) /\ Ht(h2, moved) = Ht(h, moved)
  BY <1>12, <1>13 DEF Ht, N0
<1>15. Ht(h2, p) = 1 + Ht(h, low) /\ Ht(h2, far) = h[far] + 1 BY <1>2, <1>3, <1>12 DEF Ht
<1>16. h[p] \in Nat BY <1>1
<1> HIDE DEF low, moved
<1>17. ASSUME NEW e \in Sides PROVE HeightAt(v, h2, NULL, "left", p, e)
  <2>1. v[e][p] = IF e = d THEN low ELSE moved BY <1>1, <1>8
  <2>2. Ht(h2, v[e][p]) = Ht(h, low) BY <2>1, <1>2, <1>11, <1>14
  <2>3. h2[p] = 1 + Ht(h2, v[e][p]) BY <2>2, <1>12
  <2> QED BY <2>3, <1>1, <1>2, <1>8, <1>9, <1>12, HeightShown
<1>18. ASSUME NEW e \in Sides PROVE HeightAt(v, h2, NULL, "left", s, e)
  <2>1. e = d \/ e = r BY <1>1, OppSides
  <2>2. Ht(h2, v[e][s]) = h[s]
    <3>1. CASE e = d
      <4>1. v[e][s] = p BY <3>1, <1>1, <1>2, <1>8
      <4> QED BY <4>1, <1>2, <1>15
    <3>2. CASE e = r
      <4>1. v[e][s] = far BY <3>2, <1>1, <1>2, <1>8
      <4> QED BY <4>1, <1>11, <1>15
    <3> QED BY <2>1, <3>1, <3>2
  <2>3. h2[s] = (IF v.color[s] = "red" THEN 0 ELSE 1) + Ht(h2, v[e][s])
    BY <2>2, <1>2, <1>9, <1>12
  <2> QED BY <2>3, <1>1, <1>2, <1>8, <1>12, HeightShown
<1>19. ASSUME NEW e \in Sides PROVE HeightAt(v, h2, NULL, "left", far, e)
  <2>1. h[far] = (IF u.color[far] = "red" THEN 0 ELSE 1) + Ht(h, u[e][far]) /\ Ht(h, u[e][far]) \in Nat
    BY <1>1, <1>4, HeightFrom
  <2>2. h[far] = Ht(h, u[e][far]) BY <2>1, <1>3
  <2>3. u[e][far] \in N0 /\ u[e][far] # far /\ u[e][far] # s /\ u[e][far] # p
    <3>1. u[e][far] # far BY <1>1, <1>4, Kin
    <3>2. u[e][far] # p
      <4> SUFFICES ASSUME u[e][far] = p PROVE FALSE OBVIOUS
      <4>1. p \in B[far] BY <1>1, <1>2, <1>4, Kin
      <4>2. \A m \in B[far] : m \in B[s] BY <1>1, <1>2, <1>3 DEF Shape, Subtrees
      <4>3. \A m \in B[s] : Before(r, m, p) BY <1>1, <1>2 DEF Shape, Subtrees
      <4> QED BY <4>1, <4>2, <4>3, <1>1, BeforeOrder
    <3> QED BY <3>1, <3>2, <1>1, <1>4, Fields
  <2>4. v[e][far] = u[e][far] BY <2>3, <1>4, <1>8
  <2>5. Ht(h2, u[e][far]) = Ht(h, u[e][far]) BY <2>3, <1>12 DEF Ht, N0
  <2>6. h2[far] = 1 + Ht(h2, v[e][far]) BY <2>2, <2>4, <2>5, <1>11, <1>12
  <2> QED BY <2>6, <1>1, <1>4, <1>8, <1>9, <1>12, HeightShown
<1>20. Heights(v, h2, NULL, "left")
  <2>1. \A m \in {p, u[Opp(d)][p], far}, e \in Sides : HeightAt(v, h2, NULL, "left", m, e)
    BY <1>6, <1>17, <1>18, <1>19
  <2>2. \A m \in Nodes \ {p, u[Opp(d)][p], far} :
           /\ h2[m] = h[m] /\ v.color[m] = u.color[m]
           /\ \A e \in Sides : Owes(NULL, "left", m, e) = Owes(p, d, m, e)
    BY <1>1, <1>6, <1>9, <1>12 DEF Owes
  <2>3. u[Opp(d)][u[Opp(d)][p]] = far /\ u[Opp(d)][p] # NULL /\ h2[u[Opp(d)][p]] = h[p]
    BY <1>1, <1>2, <1>6, <1>12
  <2>4. p \in Nodes /\ d \in Sides /\ far \in Nodes /\ Shape(u, B) /\ Heights(u, h, p, d)
        /\ h2 \in [Nodes -> Nat]
    BY <1>1, <1>4, <1>12
  <2> QED BY <2>1, <2>2, <2>3, <2>4, <1>5, RotatedHeights
<1> QED BY <1>7, <1>10, <1>20

\* The sibling s has no red child: it becomes red, and the paths through p all
\* lack a black.
LEMMA DebtUp ==
  ASSUME RBTreeAssumption, NEW u, NEW B, NEW h, NEW p, NEW d, Lacking(u, B, h, p, d),
         NEW r, r = Opp(d), NEW s, s = u[r][p], u.color[s] = "black",
         \A e \in Sides : IsBlack(u, u[e][s]),
         NEW v, Painted(u, v, s, "red")
  PROVE  /\ RedOK(v, {m \in Nodes : v.parent[m] = p})
         /\ u.parent[p] = NULL => \E h2 : Heights(v, h2, NULL, "left")
         /\ \A q \in Nodes, f \in Sides : u[f][q] = p => \E h2 : Heights(v, h2, q, f)
<1> DEFINE h2 == [h EXCEPT ![s] = h[s] - 1, ![p] = h[p] - 1]
           low == u[d][p]
<1>1. /\ u \in Trees /\ NULL \notin Nodes /\ p \in Nodes /\ d \in Sides
      /\ r \in Sides /\ r # d /\ Opp(d) = r
      /\ Shape(u, B) /\ RedOK(u, {}) /\ Heights(u, h, p, d) /\ h \in [Nodes -> Nat]
  BY OppSides DEF Lacking, Shape, Heights, RBTreeAssumption
<1>2. /\ s \in Nodes /\ s # NULL /\ p # NULL /\ s # p /\ In(u, p) /\ In(u, s)
      /\ u.parent[s] = p /\ s # low
      /\ Ht(h, low) \in Nat /\ h[s] \in Nat
      /\ h[s] = Ht(h, low) + 1
      /\ h[p] = (IF u.color[p] = "red" THEN 0 ELSE 1) + h[s]
  BY SiblingThere
<1>3. /\ v \in Trees /\ v.root = u.root /\ v.parent = u.parent
      /\ \A e \in Sides : v[e] = u[e]
      /\ \A m \in Nodes \ {s} : v.color[m] = u.color[m]
      /\ v.color[s] = "red"
  BY <1>2 DEF Painted, SamePointers
<1>4. RedOK(v, {m \in Nodes : v.parent[m] = p})
  <2> SUFFICES ASSUME NEW m \in Nodes, IsRed(v, m), m = u.root \/ IsRed(v, u.parent[m]),
                      u.parent[m] # p
               PROVE  FALSE
    BY <1>3 DEF RedOK
  <2>1. m # s BY <1>2
  <2>2. IsRed(u, m) BY <2>1, <1>3 DEF IsRed
  <2>3. CASE m = u.root BY <2>2, <2>3, <1>1 DEF RedOK
  <2>4. CASE IsRed(v, u.parent[m]) /\ u.parent[m] # s
    <3>1. u.parent[m] \in N0 BY <1>1, Fields
    <3>2. IsRed(u, u.parent[m]) BY <2>4, <3>1, <1>3 DEF IsRed, N0
    <3> QED BY <2>2, <3>2, <1>1 DEF RedOK
  <2>5. CASE u.parent[m] = s
    <3>1. m = u["left"][s] \/ m = u["right"][s] BY <2>5, <1>1, <1>2, Children
    <3> QED BY <2>2, <3>1 DEF IsBlack, Sides
  <2> QED BY <2>3, <2>4, <2>5
<1>5. /\ h2 \in [Nodes -> Nat] /\ h2[s] = h[s] - 1 /\ h2[p] = h[p] - 1
      /\ \A m \in Nodes \ {s, p} : h2[m] = h[m]
      /\ h[p] \in Nat /\ h[p] >= 1
  <2>1. h[p] \in Nat BY <1>1
  <2>2. h[s] >= 1 BY <1>2
  <2>3. h[p] >= 1 BY <1>2, <2>2
  <2>4. h[s] - 1 \in Nat /\ h[p] - 1 \in Nat BY <2>1, <2>2, <2>3, <1>2
  <2> QED BY <2>1, <2>3, <2>4, <1>1, <1>2
<1> HIDE DEF h2
<1>6. /\ low \in N0 /\ low # p /\ low # s
      /\ \A m \in Nodes, e \in Sides : u[e][m] = s => m = p /\ e = r
      /\ \A e \in Sides : u[e][s] # s /\ u[e][s] # p /\ u[e][s] \in N0
  <2>1. \A m \in Nodes, e \in Sides : u[e][m] = s => m = p /\ e = r BY <1>1, <1>2, Kin
  <2>2. \A e \in Sides : u[e][s] # s /\ u[e][s] # p BY <1>1, <1>2, Kin
  <2>3. low # p BY <1>1, <1>2, Kin
  <2> QED BY <2>1, <2>2, <2>3, <1>1, <1>2, Fields
\* The equations of s and p, and those of the nodes that do not lead to them.
<1>7. ASSUME NEW q, NEW f, q # s, q # p, NEW e \in Sides
      PROVE  HeightAt(v, h2, q, f, s, e) /\ HeightAt(v, h2, q, f, p, e)
  <2>1. h[s] = 1 + Ht(h, u[e][s]) /\ Ht(h, u[e][s]) \in Nat BY <1>1, <1>2, HeightFrom
  <2>2. Ht(h2, v[e][s]) = Ht(h, u[e][s]) BY <1>1, <1>2, <1>3, <1>5, <1>6 DEF Ht, N0
  <2>3. h2[s] = 0 + Ht(h2, v[e][s]) BY <2>1, <2>2, <1>5
  <2>4. HeightAt(v, h2, q, f, s, e)
    <3>1. h2[s] = (IF v.color[s] = "red" THEN 0 ELSE 1) + Ht(h2, v[e][s]) BY <2>3, <1>3
    <3> QED BY <3>1, <1>2, <1>3, <1>5, <1>7, HeightShown
  <2>5. Ht(h2, v[e][p]) = h[s] - 1
    <3>1. CASE e = d
      <4>1. Ht(h2, low) = Ht(h, low) BY <1>1, <1>2, <1>5, <1>6 DEF Ht, N0
      <4> QED BY <3>1, <4>1, <1>2, <1>3
    <3>2. CASE e = r
      <4>1. Ht(h2, s) = h2[s] BY <1>2 DEF Ht
      <4> QED BY <3>2, <4>1, <1>3, <1>5
    <3> QED BY <3>1, <3>2, <1>1, OppSides
  <2>6. h2[p] = (IF v.color[p] = "red" THEN 0 ELSE 1) + Ht(h2, v[e][p])
    <3>1. v.color[p] = u.color[p] BY <1>1, <1>2, <1>3
    <3>2. h2[p] = (IF u.color[p] = "red" THEN 0 ELSE 1) + h[s] - 1 BY <1>2, <1>5
    <3> QED BY <2>5, <3>1, <3>2, <1>2
  <2>7. HeightAt(v, h2, q, f, p, e)
    BY <2>6, <1>1, <1>3, <1>5, <1>7, HeightShown
  <2> QED BY <2>4, <2>7
<1>8. ASSUME NEW q, NEW f, NEW m \in Nodes \ {s, p}, NEW e \in Sides, u[e][m] # p,
             m # q \/ e # f
      PROVE  HeightAt(v, h2, q, f, m, e)
  <2>1. u[e][m] # s /\ u[e][m] \in N0 BY <1>1, <1>6, <1>8, Fields
  <2>2. h[m] = (IF u.color[m] = "red" THEN 0 ELSE 1) + Ht(h, u[e][m]) BY <1>1, <1>8, HeightFrom
  <2>3. Ht(h2, v[e][m]) = Ht(h, u[e][m]) BY <2>1, <1>3, <1>5, <1>8 DEF Ht, N0
  <2>4. h2[m] = (IF v.color[m] = "red" THEN 0 ELSE 1) + Ht(h2, v[e][m])
    BY <2>2, <2>3, <1>3, <1>5
  <2> QED BY <2>4, <1>3, <1>5, <1>8, HeightShown
<1>9. ASSUME u.parent[p] = NULL PROVE Heights(v, h2, NULL, "left")
  <2>1. \A m \in Nodes, e \in Sides : u[e][m] # p
    BY <1>1, <1>2, <1>9 DEF Shape, Pointers
  <2>2. \A m \in Nodes, e \in Sides : HeightAt(v, h2, NULL, "left", m, e)
    BY <2>1, <1>1, <1>2, <1>7, <1>8
  <2> QED BY <2>2, <1>5 DEF Heights
<1>10. ASSUME NEW q \in Nodes, NEW f \in Sides, u[f][q] = p PROVE Heights(v, h2, q, f)
  <2>1. /\ q # p /\ \A m \in Nodes, e \in Sides : u[e][m] = p => m = q /\ e = f
        /\ \A e \in Sides : u[e][p] # q
    BY <1>1, <1>2, <1>10, Kin
  <2>2. q # s BY <2>1, <1>1
  <2>3. HeightAt(v, h2, q, f, q, f)
    <3>1. h[q] = (IF u.color[q] = "red" THEN 0 ELSE 1) + Ht(h, p) BY <2>1, <1>1, <1>10, HeightFrom
    <3>2. Ht(h, p) = h[p] /\ Ht(h2, p) = h2[p] BY <1>2 DEF Ht
    <3>3. h2[q] = h[q] /\ v.color[q] = u.color[q] /\ v[f][q] = p BY <2>1, <2>2, <1>3, <1>5, <1>10
    <3>4. h2[q] = (IF v.color[q] = "red" THEN 0 ELSE 1) + Ht(h2, v[f][q]) + 1
      BY <3>1, <3>2, <3>3, <1>5
    <3> QED BY <3>4, <1>3, <1>5, OwedShown
  <2>4. \A m \in Nodes, e \in Sides : HeightAt(v, h2, q, f, m, e)
    <3> SUFFICES ASSUME NEW m \in Nodes, NEW e \in Sides PROVE HeightAt(v, h2, q, f, m, e)
      OBVIOUS
    <3>1. CASE m \in {s, p} BY <3>1, <2>1, <2>2, <1>7
    <3>2. CASE m = q /\ e = f BY <3>2, <2>3
    <3>3. CASE m \notin {s, p} /\ ~(m = q /\ e = f) BY <3>3, <2>1, <1>8
    <3> QED BY <3>1, <3>2, <3>3
  <2> QED BY <2>4, <1>5 DEF Heights
<1> QED BY <1>4, <1>9, <1>10

\* The red node n under a debt, or the root, is painted black.
LEMMA EraseEnds ==
  ASSUME RBTreeAssumption, NEW u, NEW B, Shape(u, B), NEW n \in Nodes, In(u, n),
         RedOK(u, {n} \cup {m \in Nodes : u.parent[m] = n}),
         n # u.root => u.color[n] = "red",
         NEW h, NEW p, NEW d \in Sides,
         IF n = u.root THEN Heights(u, h, NULL, "left")
         ELSE p \in Nodes /\ u[d][p] = n /\ Heights(u, h, p, d),
         NEW v, Painted(u, v, n, "black")
  PROVE  RedOK(v, {}) /\ \E h2 : Heights(v, h2, NULL, "left")
<1>1. /\ u \in Trees /\ v \in Trees /\ NULL \notin Nodes /\ n # NULL
      /\ v.root = u.root /\ v.parent = u.parent /\ \A e \in Sides : v[e] = u[e]
      /\ v.color[n] = "black" /\ \A m \in Nodes \ {n} : v.color[m] = u.color[m]
  BY DEF Shape, RBTreeAssumption, Painted, SamePointers
<1>2. RedOK(v, {})
  <2> SUFFICES ASSUME NEW m \in Nodes, IsRed(v, m), m = u.root \/ IsRed(v, u.parent[m])
               PROVE  FALSE
    BY <1>1 DEF RedOK
  <2>1. m # n /\ IsRed(u, m) BY <1>1 DEF IsRed
  <2>2. u.parent[m] \in N0 BY <1>1, Fields
  <2>3. IsRed(v, u.parent[m]) => u.parent[m] # n /\ IsRed(u, u.parent[m])
    BY <2>2, <1>1 DEF IsRed, N0
  <2>4. m = u.root => u.parent[m] # n BY <1>1 DEF Shape, Pointers
  <2> QED BY <2>1, <2>3, <2>4 DEF RedOK
<1>3. CASE n = u.root
  <2>1. u.root # NULL /\ Heights(u, h, NULL, "left") /\ Painted(u, v, u.root, "black")
    BY <1>1, <1>3
  <2>2. \E h2 : Heights(v, h2, NULL, "left") BY <2>1, RootBlack
  <2> QED BY <1>2, <2>2
<1>4. CASE n # u.root
  <2> DEFINE h2 == [h EXCEPT ![n] = h[n] + 1]
  <2>1. /\ p \in Nodes /\ u[d][p] = n /\ Heights(u, h, p, d) /\ u.color[n] = "red"
        /\ h \in [Nodes -> Nat]
    BY <1>4 DEF Heights
  <2>2. /\ p # n /\ \A m \in Nodes, e \in Sides : u[e][m] = n => m = p /\ e = d
    BY <2>1, <1>1, Kin
  <2>3. /\ h2 \in [Nodes -> Nat] /\ h2[n] = h[n] + 1 /\ \A m \in Nodes \ {n} : h2[m] = h[m]
        /\ h[n] \in Nat
    BY <2>1
  <2> HIDE DEF h2
  <2>4. ASSUME NEW m \in Nodes, NEW e \in Sides PROVE HeightAt(v, h2, NULL, "left", m, e)
    <3>1. u[e][m] \in N0 /\ m # NULL BY <1>1, Fields
    <3>2. CASE m = p /\ e = d
      <4>1. h[p] = (IF u.color[p] = "red" THEN 0 ELSE 1) + Ht(h, u[d][p]) + 1
        BY <2>1, <1>1, HeightOwed
      <4>2. Ht(h, u[d][p]) = h[n] /\ Ht(h2, v[d][p]) = h[n] + 1 BY <2>1, <2>3, <1>1 DEF Ht
      <4>3. h2[p] = (IF v.color[p] = "red" THEN 0 ELSE 1) + Ht(h2, v[d][p])
        BY <4>1, <4>2, <2>1, <2>2, <2>3, <1>1
      <4> QED BY <3>1, <3>2, <4>3, <2>1, <2>3, <1>1, HeightShown
    <3>3. CASE ~(m = p /\ e = d)
      <4>1. u[e][m] # n BY <3>3, <2>2
      <4>2. /\ h[m] = (IF u.color[m] = "red" THEN 0 ELSE 1) + Ht(h, u[e][m])
            /\ Ht(h, u[e][m]) \in Nat
        BY <3>3, <2>1, <1>1, HeightFrom
      <4>3. Ht(h2, v[e][m]) = Ht(h, u[e][m]) BY <3>1, <4>1, <2>3, <1>1 DEF Ht, N0
      <4>4. h2[m] = (IF v.color[m] = "red" THEN 0 ELSE 1) + Ht(h2, v[e][m])
        <5>1. CASE m = n BY <5>1, <4>2, <4>3, <2>1, <2>3, <1>1
        <5>2. CASE m # n BY <5>2, <4>2, <4>3, <2>3, <1>1
        <5> QED BY <5>1, <5>2
      <4> QED BY <3>1, <4>4, <2>3, <1>1, HeightShown
    <3> QED BY <3>2, <3>3
  <2> QED BY <2>3, <2>4, <1>2 DEF Heights
<1> QED BY <1>3, <1>4

=============================================================================
