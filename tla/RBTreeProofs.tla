---------------------------- MODULE RBTreeProofs ----------------------------
(*****************************************************************************)
(* The trees of RBTree are red-black trees in the order of the keys, whatever *)
(* is inserted, erased and replaced, the walks through them are in order, and *)
(* for their user they are the ordered sets of OrderedSet.                   *)
(*                                                                           *)
(* The invariant says what the tree is at rest, while rb_insert_color runs,  *)
(* and while __rb_erase_color runs.                                          *)
(*****************************************************************************)
EXTENDS RBShape, SequenceTheorems

-----------------------------------------------------------------------------
(* The inductive invariant                                                 *)

\* u is a search tree.
HasShape(u) == \E B : Shape(u, B)

\* And all its paths have as many black nodes.
Even(u) == \E h : Heights(u, h, NULL, "left")

\* The trees u and v have the same nodes.
SameNodes(u, v) == \A m \in Nodes : In(v, m) <=> In(u, m)

\* The tree at rest, in the loop of rb_insert_color, and in that of
\* __rb_erase_color.
Rest(u) == HasShape(u) /\ RedOK(u, {}) /\ Even(u)

\* A red node n of the tree, the only one that may be too red.
Inserting(u, n) ==
  /\ HasShape(u) /\ Even(u)
  /\ n \in Nodes /\ In(u, n) /\ IsRed(u, n) /\ RedOK(u, {n})

\* A red n will be black, so it and its children need not follow the red rule.
Excused(u, n) == {n} \cup {m \in Nodes : n # NULL /\ u.parent[m] = n}

\* The side of p that n is on.
ShortSide(u, n, p) == IF u.left[p] = n THEN "left" ELSE "right"

\* A black is owed to the paths through n, the child of p, unless it is the root.
Erasing(u, n, p) ==
  /\ HasShape(u) /\ RedOK(u, Excused(u, n))
  /\ n \in N0 /\ p \in N0
  /\ n = u.root => Even(u)
  /\ n # u.root => /\ p \in Nodes /\ u[ShortSide(u, n, p)][p] = n
                   /\ \E h : Heights(u, h, p, ShortSide(u, n, p))

\* The inductive invariant.
IInv ==
  /\ TypeOK
  /\ pc = "idle" => Rest(t)
  /\ pc = "insert" => Inserting(t, node)
  /\ pc = "erase" => Erasing(t, node, parent)

\* The two ways to name the child of a node agree.
LEMMA SideNames ==
  ASSUME RBTreeAssumption, NEW u, NEW B, Shape(u, B), NEW p \in Nodes, NEW n \in Nodes,
         NEW d \in Sides, u[d][p] = n
  PROVE  /\ ShortSide(u, n, p) = d /\ u.parent[n] = p
         /\ SideOf(u, n) = d /\ n # u.root
<1>1. u.left = u["left"] /\ n # NULL BY Fields DEF Shape, RBTreeAssumption
<1>2. u[Opp(d)][p] # n /\ u.parent[n] = p /\ n # u.root BY <1>1, Kin
<1>3. d = "left" <=> u.left[p] = n BY <1>1, <1>2 DEF Sides, Opp
<1> QED BY <1>2, <1>3 DEF ShortSide, SideOf, Sides

-----------------------------------------------------------------------------
(* Insertion keeps the invariant                                           *)

\* A new node is linked: it may be too red, nothing else is.
LEMMA InsertKeeps ==
  ASSUME RBTreeAssumption, FiniteNodes, NEW u, Rest(u), NEW n \in Nodes, ~In(u, n),
         NEW p, p = SearchStop(u, Key[n]), p # NULL => Key[p] # Key[n]
  PROVE  LET v == LinkNode(u, n, p, IF p # NULL /\ Key[n] > Key[p] THEN "right" ELSE "left")
         IN  /\ v \in Trees /\ Inserting(v, n)
             /\ \A m \in Nodes : In(v, m) <=> In(u, m) \/ m = n
<1> DEFINE d == IF p # NULL /\ Key[n] > Key[p] THEN "right" ELSE "left"
           v == LinkNode(u, n, p, d)
<1>1. PICK B : Shape(u, B) BY DEF Rest, HasShape
<1>2. PICK h : Heights(u, h, NULL, "left") BY DEF Rest, Even
<1>3. /\ u \in Trees /\ u.root \in N0 /\ NULL \notin Nodes /\ d \in Sides /\ RedOK(u, {})
      /\ \A m \in Nodes : Key[m] \in Int
  BY <1>1, Fields DEF Shape, RBTreeAssumption, Sides, Rest
<1>4. p = NULL <=> u.root = NULL
  <2>1. u.root = NULL => p = NULL BY DEF SearchStop
  <2>2. u.root # NULL => p \in Nodes BY <1>1, <1>3, SearchStopIs
  <2> QED BY <2>1, <2>2, <1>3
<1>5. p # NULL => /\ p \in Nodes /\ In(u, p)
                  /\ u[d][p] = NULL /\ Before(d, n, p)
                  /\ \A x \in Nodes, e \in Sides :
                       In(u, x) /\ u[e][x] # NULL /\ p \in B[u[e][x]] => Before(e, n, x)
  <2> SUFFICES ASSUME p # NULL
               PROVE  /\ p \in Nodes /\ In(u, p)
                      /\ u[d][p] = NULL /\ Before(d, n, p)
                      /\ \A x \in Nodes, e \in Sides :
                           In(u, x) /\ u[e][x] # NULL /\ p \in B[u[e][x]] => Before(e, n, x)
    OBVIOUS
  <2>1. /\ p \in Nodes /\ In(u, p)
        /\ u[IF Key[n] < Key[p] THEN "left" ELSE "right"][p] = NULL
        /\ \A x \in Nodes, e \in Sides :
             In(u, x) /\ u[e][x] # NULL /\ p \in B[u[e][x]] =>
               IF e = "left" THEN Key[n] < Key[x] ELSE Key[x] < Key[n]
    BY <1>1, <1>3, <1>4, SearchStopIs
  <2>2. d = IF Key[n] < Key[p] THEN "left" ELSE "right" BY <2>1, <1>3
  <2>3. Before(d, n, p) BY <2>1, <1>3 DEF Before
  <2> QED BY <2>1, <2>2, <2>3 DEF Before
<1>6. p \in N0 /\ p # n BY <1>3, <1>5 DEF N0
<1>7. Linked(u, v, n, p, d) BY <1>3, <1>6, LinkFields
<1> HIDE DEF v, d
<1>8. \A x \in Nodes, e \in Sides : u[e][x] # NULL /\ p \in B[u[e][x]] => Before(e, n, x)
  <2> SUFFICES ASSUME NEW x \in Nodes, NEW e \in Sides, u[e][x] # NULL, p \in B[u[e][x]]
               PROVE  Before(e, n, x)
    OBVIOUS
  <2>1. In(u, x) /\ u[e][x] \in Nodes BY <1>1, Kin
  <2>2. p \in Nodes BY <2>1, <1>1 DEF Shape, Subtrees
  <2> QED BY <2>1, <2>2, <1>3, <1>5
<1>9. /\ Shape(v, Grown(B, n, p)) /\ In(v, n)
      /\ \A m \in Nodes : In(v, m) <=> In(u, m) \/ m = n
  BY <1>1, <1>3, <1>4, <1>5, <1>6, <1>7, <1>8, LinkedShape
<1>10. /\ RedOK(v, {n}) /\ IsRed(v, n)
       /\ Heights(v, [h EXCEPT ![n] = 0], NULL, "left")
  BY <1>1, <1>2, <1>3, <1>5, <1>6, <1>7, LinkedBalance
<1>11. v \in Trees BY <1>9 DEF Shape
<1>12. Inserting(v, n) BY <1>9, <1>10 DEF Inserting, HasShape, Even
<1> QED BY <1>9, <1>11, <1>12 DEF v, d

\* Who is above a node that is too red.
LEMMA RedFamily ==
  ASSUME RBTreeAssumption, NEW u, NEW B, Shape(u, B), NEW n \in Nodes, IsRed(u, n), In(u, n),
         RedOK(u, {n}), NEW p, p = u.parent[n], IsRed(u, p),
         NEW g, g = u.parent[p], NEW d, d = SideOf(u, p)
  PROVE  /\ p \in Nodes /\ u.color[p] = "red" /\ u.color[n] = "red" /\ n # p
         /\ g \in Nodes /\ u.color[g] = "black" /\ g # p
         /\ d \in Sides /\ u[d][g] = p
         /\ \E e \in Sides : u[e][p] = n
<1>1. u \in Trees /\ p # NULL BY DEF Shape, IsRed
<1>2. p \in Nodes BY <1>1, Fields DEF N0
<1>3. PICK e \in Sides : u[e][p] = n BY <1>1 DEF Shape, Pointers
<1>4. n # p /\ In(u, p) BY <1>2, <1>3, Kin DEF RBTreeAssumption
<1>5. /\ g \in Nodes /\ g # p /\ u.color[g] = "black" /\ p # u.root
  BY <1>2, <1>4, RedParent
<1>6. PICK f \in Sides : u[f][g] = p BY <1>2, <1>5 DEF Shape, Pointers, RBTreeAssumption
<1>7. d = f BY <1>2, <1>5, <1>6, SideNames
<1> QED BY <1>2, <1>3, <1>4, <1>5, <1>6, <1>7 DEF IsRed

\* A red uncle (rbtree.c:92): the node that may be too red is the grandparent now.
LEMMA InsertRecolorKeeps ==
  ASSUME RBTreeAssumption, Inserting(t, node), InsertRecolor
  PROVE  t' \in Trees /\ Inserting(t', node') /\ SameNodes(t, t')
<1> DEFINE p == t.parent[node]
           g == t.parent[p]
           d == SideOf(t, p)
           q == t[Opp(d)][g]
<1>1. PICK B : Shape(t, B) BY DEF Inserting, HasShape
<1>2. PICK h : Heights(t, h, NULL, "left") BY DEF Inserting, Even
<1>3. node \in Nodes /\ In(t, node) /\ IsRed(t, node) /\ RedOK(t, {node}) /\ t \in Trees
  BY <1>1 DEF Inserting, Shape
<1>4. IsRed(t, p) /\ IsRed(t, q) BY DEF InsertRecolor, TooRed, Grand
<1>5. /\ p \in Nodes /\ t.color[p] = "red" /\ g \in Nodes /\ t.color[g] = "black" /\ g # p
      /\ d \in Sides /\ t[d][g] = p
  BY <1>1, <1>3, <1>4, RedFamily
<1>6. q \in Nodes
  <2>1. q # NULL BY <1>4 DEF IsRed
  <2> QED BY <2>1, <1>3, <1>5, OppSides, Fields DEF N0
<1>7. t' = SetColor(SetColor(SetColor(t, q, "black"), p, "black"), g, "red") /\ node' = g
  BY DEF InsertRecolor, Grand, SetColor
<1> HIDE DEF p, g, d, q
<1>8. /\ SamePointers(t, t')
      /\ \A m \in Nodes : t'.color[m] = IF m = g THEN "red" ELSE IF m = p THEN "black"
                                        ELSE IF m = q THEN "black" ELSE t.color[m]
  <2> DEFINE v == SetColor(SetColor(SetColor(t, q, "black"), p, "black"), g, "red")
  <2>1. ThreePainted(t, v, q, "black", p, "black", g, "red") BY <1>3, <1>5, <1>6, PaintThree
  <2> HIDE DEF v
  <2> QED BY <2>1, <1>7 DEF v, ThreePainted
<1>9. \A m \in Nodes : t'.color[m] = IF m = g THEN "red"
                                     ELSE IF m = t[d][g] \/ m = t[Opp(d)][g] THEN "black"
                                     ELSE t.color[m]
  BY <1>5, <1>8 DEF q
<1>10. t.parent[node] = t[d][g] /\ IsRed(t, t[d][g]) /\ IsRed(t, t[Opp(d)][g]) /\ t[d][g] # NULL
  BY <1>4, <1>5 DEF p, q, IsRed
<1>11. /\ RedOK(t', {g}) /\ IsRed(t', g) /\ In(t', g)
       /\ \E h2 : Heights(t', h2, NULL, "left")
  BY <1>1, <1>2, <1>3, <1>5, <1>8, <1>9, <1>10, RecolorBalance
<1>12. Shape(t', B) /\ SameNodes(t, t') BY <1>1, <1>8, SameShape DEF SameNodes
<1> QED BY <1>5, <1>7, <1>11, <1>12 DEF Inserting, HasShape, Even, Shape

\* The last rotation of an insertion.
LEMMA OuterStep ==
  ASSUME RBTreeAssumption, NEW u, NEW B, Shape(u, B), NEW n \in Nodes, RedOK(u, {n}),
         NEW h, Heights(u, h, NULL, "left"),
         NEW g \in Nodes, NEW r \in Sides, NEW top \in Nodes,
         u[Opp(r)][g] = top, u[Opp(r)][top] = n, IsBlack(u, u[r][g]),
         u.color[n] = "red", u.color[top] = "red", u.color[g] = "black"
  PROVE  LET v == Rotate(SetColor(SetColor(u, top, "black"), g, "red"), g, r)
         IN  v \in Trees /\ Inserting(v, n) /\ SameNodes(u, v)
<1> DEFINE w == SetColor(SetColor(u, top, "black"), g, "red")
           v == Rotate(w, g, r)
<1>1. u \in Trees /\ Opp(r) \in Sides /\ top # NULL /\ n # NULL
  BY OppSides DEF Shape, RBTreeAssumption
<1>2. /\ SamePointers(u, w)
      /\ \A m \in Nodes : w.color[m] = IF m = g THEN "red" ELSE IF m = top THEN "black"
                                       ELSE u.color[m]
  BY <1>1, PaintTwo
<1> HIDE DEF w
<1>3. Shape(w, B) BY <1>2, SameShape
<1>4. w[Opp(r)][g] # NULL BY <1>1, <1>2 DEF SamePointers
<1>5. Rotated(w, v, g, r) /\ v.color = w.color BY <1>3, <1>4, RotateFields
<1> HIDE DEF v
<1>6. Shape(v, Turned(w, B, g, r)) /\ \A m \in Nodes : In(v, m) <=> In(w, m)
  BY <1>3, <1>4, <1>5, RotatedShape
<1>7. /\ RedOK(v, {}) /\ IsRed(v, n) /\ \E h2 : Heights(v, h2, NULL, "left")
  BY <1>2, <1>5, OuterTurn
<1>8. In(v, n) /\ SameNodes(u, v)
  <2>1. In(u, n) BY <1>1, Kin
  <2>2. SameNodes(u, v) BY <1>2, <1>6, SameShape DEF SameNodes
  <2> QED BY <2>1, <2>2 DEF SameNodes
<1>9. RedOK(v, {n}) BY <1>7 DEF RedOK
<1>10. v \in Trees /\ Inserting(v, n) BY <1>6, <1>7, <1>8, <1>9 DEF Inserting, HasShape, Even, Shape
<1> QED BY <1>8, <1>10 DEF v, w

\* A black uncle (rbtree.c:103): no node is too red any more.
LEMMA InsertRotateKeeps ==
  ASSUME RBTreeAssumption, Inserting(t, node), InsertRotate
  PROVE  t' \in Trees /\ Inserting(t', node') /\ SameNodes(t, t')
<1> DEFINE p == t.parent[node]
           g == t.parent[p]
           d == SideOf(t, p)
           r == Opp(d)
<1>1. PICK B : Shape(t, B) BY DEF Inserting, HasShape
<1>2. PICK h : Heights(t, h, NULL, "left") BY DEF Inserting, Even
<1>3. node \in Nodes /\ In(t, node) /\ IsRed(t, node) /\ RedOK(t, {node}) /\ t \in Trees
  BY <1>1 DEF Inserting, Shape
<1>4. IsRed(t, p) /\ IsBlack(t, t[r][g]) BY DEF InsertRotate, TooRed, Grand
<1>5. /\ p \in Nodes /\ t.color[p] = "red" /\ t.color[node] = "red" /\ node # p
      /\ g \in Nodes /\ t.color[g] = "black" /\ g # p
      /\ d \in Sides /\ t[d][g] = p /\ \E e \in Sides : t[e][p] = node
  BY <1>1, <1>3, <1>4, RedFamily
<1>6. r \in Sides /\ Opp(r) = d BY <1>5, OppSides
<1>7. CASE t[r][p] = node
  <2> DEFINE u == Rotate(t, p, d)
  <2>1. /\ t' = Rotate(SetColor(SetColor(u, node, "black"), g, "red"), g, r)
        /\ node' = p
    BY <1>7 DEF InsertRotate, Grand, SetColor
  <2> HIDE DEF p, g, d, r
  <2>2. t[Opp(d)][p] = node BY <1>7 DEF r
  <2>3. Rotated(t, u, p, d) /\ u.color = t.color
    BY <2>2, <1>1, <1>3, <1>5, RotateFields DEF RBTreeAssumption
  <2> HIDE DEF u
  <2>4. Shape(u, Turned(t, B, p, d)) /\ SameNodes(t, u)
    BY <2>2, <2>3, <1>1, <1>3, <1>5, RotatedShape DEF RBTreeAssumption, SameNodes
  <2>5. /\ RedOK(u, {p}) /\ Heights(u, h, NULL, "left")
        /\ u[d][g] = node /\ u[d][node] = p /\ u[Opp(d)][g] = t[Opp(d)][g]
    BY <2>2, <2>3, <1>1, <1>2, <1>3, <1>5, InnerTurn
  <2>6. IsBlack(u, u[r][g]) BY <2>3, <2>5, <1>4 DEF IsBlack, IsRed, r
  <2>7. u[Opp(r)][g] = node /\ u[Opp(r)][node] = p BY <2>5, <1>6
  <2>8. u.color[p] = "red" /\ u.color[node] = "red" /\ u.color[g] = "black" BY <2>3, <1>5
  <2> DEFINE v == Rotate(SetColor(SetColor(u, node, "black"), g, "red"), g, r)
  <2>9. v \in Trees /\ Inserting(v, p) /\ SameNodes(u, v)
    BY <2>4, <2>5, <2>6, <2>7, <2>8, <1>3, <1>5, <1>6, OuterStep
  <2> HIDE DEF v
  <2> QED BY <2>1, <2>4, <2>9 DEF v, SameNodes
<1>8. CASE t[r][p] # node
  <2> DEFINE v == Rotate(SetColor(SetColor(t, p, "black"), g, "red"), g, r)
  <2>1. t' = v /\ node' = node
    BY <1>8 DEF InsertRotate, Grand, SetColor
  <2>2. t[d][p] = node BY <1>5, <1>6, <1>8, OppSides
  <2> HIDE DEF v, p, g, d, r
  <2>3. t[Opp(r)][g] = p /\ t[Opp(r)][p] = node BY <2>2, <1>5, <1>6
  <2>4. v \in Trees /\ Inserting(v, node) /\ SameNodes(t, v)
    BY <2>3, <1>1, <1>2, <1>3, <1>4, <1>5, <1>6, OuterStep DEF v
  <2> QED BY <2>1, <2>4
<1> QED BY <1>7, <1>8

\* The loop is left with a tree at rest.
LEMMA InsertDoneKeeps ==
  ASSUME RBTreeAssumption, Inserting(t, node), InsertDone
  PROVE  t' \in Trees /\ Rest(t') /\ SameNodes(t, t')
<1>1. PICK B : Shape(t, B) BY DEF Inserting, HasShape
<1>2. PICK h : Heights(t, h, NULL, "left") BY DEF Inserting, Even
<1>3. node \in Nodes /\ In(t, node) /\ RedOK(t, {node}) /\ t \in Trees
  BY <1>1 DEF Inserting, Shape
<1>4. ~IsRed(t, t.parent[node]) /\ t' = SetColor(t, t.root, "black") BY DEF InsertDone, TooRed
<1>5. t.root \in Nodes
  <2>1. t.root # NULL BY <1>1, <1>3 DEF Shape, Subtrees
  <2> QED BY <2>1, <1>3, Fields DEF N0
<1>6. Painted(t, t', t.root, "black") BY <1>3, <1>4, <1>5, PaintFields
<1>7. RedOK(t', {}) /\ \E h2 : Heights(t', h2, NULL, "left")
  BY <1>1, <1>2, <1>3, <1>4, <1>6, InsertEnds
<1>8. Shape(t', B) /\ SameNodes(t, t') BY <1>1, <1>6, SameShape DEF Painted, SameNodes
<1> QED BY <1>7, <1>8 DEF Rest, HasShape, Even, Shape

-----------------------------------------------------------------------------
(* Deletion keeps the invariant                                            *)

\* A debt at the parent of n.
LEMMA DebtBelow ==
  ASSUME RBTreeAssumption, NEW u, NEW B, Shape(u, B), NEW n, NEW X, RedOK(u, X),
         X \cap Nodes \subseteq Excused(u, n),
         NEW p \in Nodes, In(u, p), NEW d, d = ShortSide(u, n, p), u[d][p] = n,
         NEW h, Heights(u, h, p, d)
  PROVE  u \in Trees /\ Erasing(u, n, p)
<1>1. u \in Trees /\ d \in Sides /\ NULL \notin Nodes BY DEF Shape, ShortSide, Sides, RBTreeAssumption
<1>2. n \in N0 /\ p \in N0 BY <1>1, Fields DEF N0
<1>3. n # u.root
  <2>1. CASE n = NULL BY <2>1, <1>1 DEF Shape, Subtrees
  <2>2. CASE n # NULL BY <2>2, <1>1, Kin
  <2> QED BY <2>1, <2>2
<1>4. RedOK(u, Excused(u, n)) BY DEF RedOK
<1> QED BY <1>1, <1>2, <1>3, <1>4 DEF Erasing, HasShape

\* The debt reached the root.
LEMMA DebtAtRoot ==
  ASSUME NEW u, NEW B, Shape(u, B), NEW n, n = u.root, NEW X, RedOK(u, X),
         X \cap Nodes \subseteq Excused(u, n), NEW p \in N0,
         NEW h, Heights(u, h, NULL, "left")
  PROVE  u \in Trees /\ Erasing(u, n, p)
<1>1. u \in Trees /\ n \in N0 BY Fields DEF Shape
<1>2. RedOK(u, Excused(u, n)) BY DEF RedOK
<1> QED BY <1>1, <1>2 DEF Erasing, HasShape, Even

\* A node with one child at most is cut out: at rest, or a black is owed.
LEMMA EraseOuterKeeps ==
  ASSUME RBTreeAssumption, NEW u, Rest(u), NEW n \in Nodes, In(u, n),
         NEW child, child = (IF u.left[n] = NULL THEN u.right[n] ELSE u.left[n]),
         u.left[n] = NULL \/ u.right[n] = NULL,
         NEW v, v = CutOut(u, n, child)
  PROVE  /\ v \in Trees /\ child \in N0 /\ u.parent[n] \in N0 /\ u.color[n] \in {"red", "black"}
         /\ u.color[n] # "black" => Rest(v)
         /\ u.color[n] = "black" => Erasing(v, child, u.parent[n])
         /\ \A m \in Nodes : In(v, m) <=> In(u, m) /\ m # n
<1>1. PICK B : Shape(u, B) BY DEF Rest, HasShape
<1>2. PICK h : Heights(u, h, NULL, "left") BY DEF Rest, Even
<1>3. u \in Trees /\ RedOK(u, {}) /\ u.left = u["left"] /\ u.right = u["right"]
  BY <1>1, Fields DEF Shape, Rest
<1>4. OnlyChild(u, n, child) BY <1>3 DEF OnlyChild, Sides, Opp
<1>5. Cut(u, v, n, child) BY <1>1, <1>4, CutFields
<1>6. Shape(v, Pruned(B, n)) /\ \A m \in Nodes : In(v, m) <=> In(u, m) /\ m # n
  BY <1>1, <1>4, <1>5, CutShape
<1>7. v \in Trees BY <1>6 DEF Shape
<1>8. child \in N0 /\ u.parent[n] \in N0 /\ u.color[n] \in {"red", "black"}
  BY <1>3, Fields DEF Sides
<1> DEFINE p == u.parent[n]
           s == ShortSide(v, child, p)
<1>9. s = IF v.left[p] = child THEN "left" ELSE "right" BY DEF ShortSide
<1>10. /\ u.color[n] = "red" => RedOK(v, {}) /\ \E h2 : Heights(v, h2, NULL, "left")
       /\ u.color[n] = "black" /\ p = NULL =>
            v.root = child /\ RedOK(v, {child}) /\ \E h2 : Heights(v, h2, NULL, "left")
       /\ u.color[n] = "black" /\ p # NULL =>
            /\ RedOK(v, {child}) /\ p \in Nodes /\ p # n /\ In(v, p) /\ v[s][p] = child
            /\ \E h2 : Heights(v, h2, p, s)
  BY <1>1, <1>2, <1>3, <1>4, <1>5, <1>9, CutBalance
<1> HIDE DEF p, s
<1>11. ASSUME u.color[n] # "black" PROVE Rest(v)
  <2>1. u.color[n] = "red" BY <1>8, <1>11
  <2> QED BY <2>1, <1>6, <1>10 DEF Rest, HasShape, Even
<1>12. ASSUME u.color[n] = "black" PROVE Erasing(v, child, p)
  <2>1. {child} \cap Nodes \subseteq Excused(v, child) BY DEF Excused
  <2>2. CASE p = NULL
    <3>1. child = v.root /\ RedOK(v, {child}) BY <2>2, <1>10, <1>12
    <3>2. PICK h2 : Heights(v, h2, NULL, "left") BY <2>2, <1>10, <1>12
    <3>3. p \in N0 BY <1>8 DEF p
    <3> QED BY <2>1, <3>1, <3>2, <3>3, <1>6, DebtAtRoot
  <2>3. CASE p # NULL
    <3>1. RedOK(v, {child}) /\ p \in Nodes /\ In(v, p) /\ v[s][p] = child BY <2>3, <1>10, <1>12
    <3>2. PICK h2 : Heights(v, h2, p, s) BY <2>3, <1>10, <1>12
    <3>3. s = ShortSide(v, child, p) BY DEF s
    <3> QED BY <2>1, <3>1, <3>2, <3>3, <1>6, DebtBelow
  <2> QED BY <2>2, <2>3
<1> QED BY <1>6, <1>7, <1>8, <1>11, <1>12 DEF p

\* A subtree is an interval of the order: what is not in it lies on one side.
LEMMA Convex ==
  ASSUME RBTreeAssumption, FiniteNodes, NEW u, NEW B, Shape(u, B), NEW n \in Nodes
  PROVE  \A x \in Nodes : n \in B[x] =>
           \A m \in B[x] \ B[n] : \E e \in Sides : \A k \in B[n] : Before(e, m, k)
<1> DEFINE P(x) == n \in B[x] =>
             \A m \in B[x] \ B[n] : \E e \in Sides : \A k \in B[n] : Before(e, m, k)
           S == {x \in Nodes : ~P(x)}
<1>1. SUFFICES ASSUME S # {} PROVE FALSE OBVIOUS
<1>2. PICK x \in S : \A e \in Sides : u[e][x] \notin S
  <2> HIDE DEF S
  <2>1. S \in SUBSET Nodes BY DEF S
  <2> QED BY <1>1, <2>1, NoRing
<1>3. PICK m \in B[x] \ B[n] : \A e \in Sides : ~\A k \in B[n] : Before(e, m, k)
  OBVIOUS
<1>4. /\ B \in [Nodes -> SUBSET Nodes]
      /\ \A y \in Nodes : y \in B[y]
      /\ \A y \in Nodes, f \in Sides : u[f][y] # NULL =>
           \A z \in B[u[f][y]] : z \in B[y] /\ Before(f, z, y)
      /\ \A y \in Nodes : \A z \in B[y] :
           z = y \/ \E f \in Sides : u[f][y] # NULL /\ z \in B[u[f][y]]
  BY DEF Shape, Subtrees
<1>5. x \in Nodes /\ n \in B[x] /\ m \in Nodes BY <1>3, <1>4
<1>6. n # x BY <1>3
<1>7. PICK f \in Sides : u[f][x] # NULL /\ n \in B[u[f][x]] BY <1>4, <1>5, <1>6
<1> DEFINE c == u[f][x]
<1>8. c \in Nodes BY <1>5, <1>7, Kin
<1>9. B[n] \subseteq B[c] BY <1>7, <1>8, SubtreeOf
<1>10. \A k \in B[n] : k \in Nodes /\ Before(f, k, x) BY <1>4, <1>5, <1>7, <1>9
<1>11. m \notin B[c]
  <2>1. P(c) BY <1>2, <1>8
  <2> QED BY <2>1, <1>3, <1>7
<1>12. m = x \/ Before(Opp(f), m, x)
  <2> SUFFICES ASSUME m # x PROVE Before(Opp(f), m, x) OBVIOUS
  <2>1. PICK i \in Sides : u[i][x] # NULL /\ m \in B[u[i][x]] BY <1>3, <1>4, <1>5
  <2>2. i = Opp(f) BY <2>1, <1>11, OppSides
  <2> QED BY <2>1, <2>2, <1>4, <1>5
<1>13. Opp(f) \in Sides BY OppSides
<1>14. \A k \in B[n] : Before(Opp(f), x, k)
  BY <1>5, <1>10, BeforeOrder
<1>15. \A k \in B[n] : Before(Opp(f), m, k)
  BY <1>5, <1>10, <1>12, <1>13, <1>14, BeforeOrder
<1> QED BY <1>3, <1>13, <1>15

\* The extreme node of the subtree on side d comes next on that side.
LEMMA NextKey ==
  ASSUME RBTreeAssumption, FiniteNodes, NEW u, NEW B, Shape(u, B), NEW n \in Nodes,
         NEW d \in Sides, u[d][n] # NULL, NEW y, y \in B[u[d][n]],
         \A m \in B[u[d][n]] : m = y \/ Before(Opp(d), y, m)
  PROVE  /\ y \in Nodes /\ In(u, y) /\ Before(d, y, n)
         /\ \A m \in Nodes \ {n, y}, e \in Sides :
              In(u, m) /\ Before(e, m, n) => Before(e, m, y)
<1>1. /\ Opp(d) \in Sides /\ Opp(Opp(d)) = d
      /\ \A e \in Sides : e = d \/ e = Opp(d)
  BY OppSides
<1>2. /\ B \in [Nodes -> SUBSET Nodes]
      /\ \A x \in Nodes : x \in B[x]
      /\ \A x \in Nodes, f \in Sides : u[f][x] # NULL =>
           \A z \in B[u[f][x]] : z \in B[x] /\ Before(f, z, x)
      /\ \A x \in Nodes : \A z \in B[x] :
           z = x \/ \E f \in Sides : u[f][x] # NULL /\ z \in B[u[f][x]]
      /\ \A x \in Nodes : In(u, x) <=> u.root # NULL /\ x \in B[u.root]
      /\ u.root \in N0
  BY Fields DEF Shape, Subtrees
<1>3. y \in B[n] /\ y \in Nodes /\ Before(d, y, n) /\ In(u, n)
  BY <1>1, <1>2, Kin
<1>4. In(u, y) BY <1>3, Below
<1> SUFFICES ASSUME NEW m \in Nodes \ {n, y}, NEW e \in Sides, In(u, m), Before(e, m, n)
             PROVE  Before(e, m, y)
  BY <1>3, <1>4
<1>5. CASE m \notin B[n]
  <2>1. u.root \in Nodes /\ n \in B[u.root] /\ m \in B[u.root] BY <1>2, <1>3 DEF N0
  <2>2. PICK f \in Sides : \A k \in B[n] : Before(f, m, k) BY <2>1, <1>5, Convex
  <2>3. Before(f, m, n) /\ Before(f, m, y) BY <2>2, <1>2, <1>3
  <2>4. f = e
    <3>1. f # Opp(e) BY <2>3, BeforeOrder
    <3> QED BY <3>1, OppSides
  <2> QED BY <2>3, <2>4
<1>6. CASE m \in B[n]
  <2>1. CASE e = Opp(d)
    <3>1. Before(Opp(d), n, y) BY <1>1, <1>3, BeforeOrder
    <3> QED BY <2>1, <3>1, <1>1, <1>3, BeforeOrder
  <2>2. CASE e = d
    <3>1. PICK f \in Sides : u[f][n] # NULL /\ m \in B[u[f][n]] BY <1>2, <1>6
    <3>2. Before(f, m, n) BY <1>2, <3>1
    <3>3. f = d BY <2>2, <3>2, <1>1, BeforeOrder
    <3>4. Before(Opp(d), y, m) BY <3>1, <3>3
    <3> QED BY <2>2, <3>4, <1>1, <1>3, BeforeOrder
  <2> QED BY <2>1, <2>2, <1>1
<1> QED BY <1>5, <1>6

\* A node with two children gives its place to its successor: at rest, or a black is
\* owed where the successor was.
LEMMA EraseInnerKeeps ==
  ASSUME RBTreeAssumption, FiniteNodes, NEW u, Rest(u), NEW n \in Nodes, In(u, n),
         u.left[n] # NULL, u.right[n] # NULL,
         NEW y, y = Leftmost(u, u.right[n]),
         NEW v, v = PutInPlace(u, n, y),
         NEW p, p = IF u.parent[y] = n THEN y ELSE u.parent[y]
  PROVE  /\ v \in Trees /\ u.right[y] \in N0 /\ p \in N0 /\ u.color[y] \in {"red", "black"}
         /\ u.color[y] # "black" => Rest(v)
         /\ u.color[y] = "black" => Erasing(v, u.right[y], p)
         /\ \A m \in Nodes : In(v, m) <=> In(u, m) /\ m # n
<1> DEFINE r == u["right"][n]
           c == u["right"][y]
           q == u.parent[y]
           w == CutOut(u, y, c)
<1>1. PICK B : Shape(u, B) BY DEF Rest, HasShape
<1>2. PICK h : Heights(u, h, NULL, "left") BY DEF Rest, Even
<1>3. /\ u \in Trees /\ RedOK(u, {}) /\ u.left = u["left"] /\ u.right = u["right"]
      /\ "left" \in Sides /\ "right" \in Sides /\ Opp("right") = "left" /\ NULL \notin Nodes
  BY <1>1, Fields DEF Shape, Rest, Sides, Opp, RBTreeAssumption
<1>4. /\ r \in Nodes /\ r # n /\ u.parent[r] = n /\ n \notin B[r] /\ r # NULL
  BY <1>1, <1>3, Kin
<1>5. /\ y \in B[r] /\ y \in Nodes /\ u["left"][y] = NULL
      /\ \A m \in B[r] : m = y \/ Before("left", y, m)
      /\ y # r => u.parent[y] \in B[r] /\ u["left"][u.parent[y]] = y
  <2> DEFINE z == Leftmost(u, r)
  <2>1. /\ z \in B[r] /\ z \in Nodes /\ u["left"][z] = NULL
        /\ \A m \in B[r] : m = z \/ Before("left", z, m)
        /\ z # r => u.parent[z] \in B[r] /\ u["left"][u.parent[z]] = z
    BY <1>1, <1>4, LeftmostIs
  <2>2. y = z BY <1>3
  <2> HIDE DEF z, r
  <2> QED BY <2>1, <2>2
<1>6. y # n /\ y # NULL BY <1>3, <1>4, <1>5
<1>7. /\ q # NULL /\ q \in Nodes /\ q # y
      /\ q = n => u["right"][n] = y
      /\ q # n => u["left"][q] = y
      /\ In(u, y)
  <2>1. CASE y = r
    <3>1. q = n BY <2>1, <1>4
    <3> QED BY <2>1, <3>1, <1>3, <1>4, <1>6 DEF In
  <2>2. CASE y # r
    <3>1. q \in B[r] /\ u["left"][q] = y BY <2>2, <1>5
    <3>2. q \in Nodes /\ q # n BY <3>1, <1>1, <1>4 DEF Shape, Subtrees
    <3>3. q # NULL BY <3>2, <1>3
    <3>4. q # y BY <3>1, <3>2, <1>1, <1>3, <1>6, Kin
    <3> QED BY <3>1, <3>2, <3>3, <3>4 DEF In
  <2> QED BY <2>1, <2>2
<1>8. c # n /\ c \in N0 /\ c # y
  <2>1. c \in N0 BY <1>3, <1>5, Fields
  <2>2. CASE c = NULL BY <2>1, <2>2, <1>3, <1>5
  <2>3. CASE c # NULL
    <3>1. c \in B[y] /\ c # y BY <2>3, <1>1, <1>3, <1>5, Kin
    <3>2. B[y] \subseteq B[r] BY <1>1, <1>4, <1>5, SubtreeOf
    <3> QED BY <2>1, <3>1, <3>2, <1>4
  <2> QED BY <2>2, <2>3
\* First y is cut out, ...
<1>9. OnlyChild(u, y, c) BY <1>3, <1>5 DEF OnlyChild
<1>10. Cut(u, w, y, c) BY <1>1, <1>5, <1>7, <1>9, CutFields
<1> HIDE DEF w
<1>11. Shape(w, Pruned(B, y)) /\ \A m \in Nodes : In(w, m) <=> In(u, m) /\ m # y
  BY <1>1, <1>5, <1>7, <1>9, <1>10, CutShape
<1> DEFINE s == ShortSide(w, c, q)
<1>12. s = IF w.left[q] = c THEN "left" ELSE "right" BY DEF ShortSide
<1>13. /\ u.color[y] = "red" => RedOK(w, {}) /\ \E h2 : Heights(w, h2, NULL, "left")
       /\ u.color[y] = "black" /\ q # NULL =>
            /\ RedOK(w, {c}) /\ q \in Nodes /\ q # y /\ In(w, q) /\ w[s][q] = c
            /\ \E h2 : Heights(w, h2, q, s)
  <2>1. RedOK(u, {}) /\ y \in Nodes /\ In(u, y) BY <1>3, <1>5, <1>7
  <2> HIDE DEF c, s
  <2>2. /\ u.color[y] = "red" => RedOK(w, {}) /\ \E h2 : Heights(w, h2, NULL, "left")
        /\ u.color[y] = "black" /\ q = NULL =>
             w.root = c /\ RedOK(w, {c}) /\ \E h2 : Heights(w, h2, NULL, "left")
        /\ u.color[y] = "black" /\ q # NULL =>
             /\ RedOK(w, {c}) /\ q \in Nodes /\ q # y /\ In(w, q) /\ w[s][q] = c
             /\ \E h2 : Heights(w, h2, q, s)
    BY <2>1, <1>1, <1>2, <1>9, <1>10, <1>12, CutBalance
  <2> QED BY <2>2
<1> HIDE DEF s
\* ... and then it takes the place of n.
<1>14. Renamed(w, v, n, y)
  <2> DEFINE z == PutInPlace(u, n, y)
  <2>1. Renamed(w, z, n, y)
    BY <1>1, <1>3, <1>5, <1>6, <1>7, <1>8, <1>10, PutInPlaceFields
  <2>2. v = z OBVIOUS
  <2> HIDE DEF z
  <2> QED BY <2>1, <2>2
<1>15. In(w, n) /\ ~In(w, y) BY <1>5, <1>6, <1>11
<1>16. \A m \in Nodes \ {n}, e \in Sides : In(w, m) /\ Before(e, m, n) => Before(e, m, y)
  <2>1. \A m \in Nodes \ {n, y}, e \in Sides : In(u, m) /\ Before(e, m, n) => Before(e, m, y)
    <3>1. \A m \in B[r] : m = y \/ Before(Opp("right"), y, m) BY <1>3, <1>5
    <3> QED BY <3>1, <1>1, <1>3, <1>4, <1>5, NextKey
  <2> QED BY <2>1, <1>11
<1>17. /\ Shape(v, Swapped(Pruned(B, y), n, y))
       /\ \A m \in Nodes : In(v, m) <=> (In(w, m) /\ m # n) \/ m = y
  BY <1>5, <1>11, <1>14, <1>15, <1>16, RenamedShape
<1>18. v \in Trees /\ \A m \in Nodes : In(v, m) <=> In(u, m) /\ m # n
  <2>1. \A m \in Nodes : In(v, m) <=> In(u, m) /\ m # n BY <1>6, <1>7, <1>11, <1>17
  <2> QED BY <2>1, <1>17 DEF Shape
<1>19. u.right[y] = c /\ p \in Nodes /\ p \in N0 /\ p = (IF q = n THEN y ELSE q)
       /\ u.color[y] \in {"red", "black"}
  BY <1>3, <1>5, <1>7, Fields DEF N0
<1>20. ASSUME u.color[y] # "black" PROVE Rest(v)
  <2>1. u.color[y] = "red" BY <1>19, <1>20
  <2>2. RedOK(w, {}) BY <2>1, <1>13
  <2>3. PICK h2 : Heights(w, h2, NULL, "left") BY <2>1, <1>13
  <2>4. NULL # y /\ n # NULL BY <1>3, <1>5
  <2>5. RedOK(v, {}) /\ \E h3 : Heights(v, h3, IF NULL = n THEN y ELSE NULL, "left")
    BY <2>2, <2>3, <2>4, <1>5, <1>11, <1>14, <1>15, RenamedBalance
  <2> QED BY <2>4, <2>5, <1>17 DEF Rest, HasShape, Even
<1>21. ASSUME u.color[y] = "black" PROVE Erasing(v, c, p)
  <2>1. RedOK(w, {c}) /\ In(w, q) /\ w[s][q] = c BY <1>7, <1>13, <1>21
  <2>2. PICK h2 : Heights(w, h2, q, s) BY <1>7, <1>13, <1>21
  <2>3. RedOK(v, {c}) /\ \E h3 : Heights(v, h3, IF q = n THEN y ELSE q, s)
    <3>1. n \notin {c} /\ q # y /\ y \in Nodes BY <1>5, <1>7, <1>8
    <3>2. PICK C : Shape(w, C) BY <1>11
    <3> HIDE DEF c, q
    <3> QED BY <3>1, <3>2, <2>1, <2>2, <1>14, <1>15, RenamedBalance
  <2>4. PICK h3 : Heights(v, h3, p, s) BY <2>3, <1>19
  <2>5. In(v, p) BY <2>1, <1>7, <1>17, <1>19
  <2>6. \A e \in Sides : v[e][p] = c <=> w[e][q] = c
    <3> SUFFICES ASSUME NEW e \in Sides PROVE v[e][p] = c <=> w[e][q] = c OBVIOUS
    <3>1. \A m \in Nodes : v[e][m] = IF m = n THEN NULL ELSE IF m = y THEN w[e][n]
                                     ELSE IF w[e][m] = n THEN y ELSE w[e][m]
      BY <1>14 DEF Renamed
    <3>2. CASE q = n BY <3>1, <3>2, <1>5, <1>6, <1>19
    <3>3. CASE q # n BY <3>1, <3>3, <1>7, <1>8, <1>19
    <3> QED BY <3>2, <3>3
  <2>7. w \in Trees /\ w.left = w["left"] /\ v.left = v["left"]
    BY <1>11, <1>18, Fields DEF Shape
  <2>8. s = ShortSide(v, c, p) BY <2>6, <2>7, <1>3, <1>12 DEF ShortSide
  <2>9. s \in Sides BY <1>3, <1>12
  <2>10. v[s][p] = c BY <2>1, <2>6, <2>9
  <2>11. {c} \cap Nodes \subseteq Excused(v, c) BY DEF Excused
  <2> QED BY <2>3, <2>4, <2>5, <2>8, <2>10, <2>11, <1>17, <1>19, DebtBelow
<1> QED BY <1>8, <1>18, <1>19, <1>20, <1>21

\* While the loop of an erasure runs, its node is black and so lacks a black.
LEMMA Owing ==
  ASSUME RBTreeAssumption, NEW u, NEW n, NEW p, Erasing(u, n, p), IsBlack(u, n), n # u.root,
         NEW d, d = ShortSide(u, n, p)
  PROVE  u[d][p] = n /\ \E B, h : Lacking(u, B, h, p, d)
<1>1. PICK B : Shape(u, B) BY DEF Erasing, HasShape
<1>2. /\ p \in Nodes /\ u[d][p] = n /\ d \in Sides /\ RedOK(u, Excused(u, n))
  BY DEF Erasing, ShortSide, Sides
<1>3. PICK h : Heights(u, h, p, d) BY DEF Erasing
<1>4. RedOK(u, {})
  <2> SUFFICES ASSUME NEW m \in Nodes, IsRed(u, m), m = u.root \/ IsRed(u, u.parent[m])
               PROVE  FALSE
    BY DEF RedOK
  <2>1. m \in Excused(u, n) BY <1>2 DEF RedOK
  <2>2. m # n BY DEF IsBlack
  <2>3. u.parent[m] = n /\ n # NULL BY <2>1, <2>2 DEF Excused
  <2>4. m # u.root BY <2>3, <1>1 DEF Shape, Pointers, RBTreeAssumption
  <2> QED BY <2>3, <2>4 DEF IsBlack
<1> QED BY <1>1, <1>2, <1>3, <1>4 DEF Lacking

\* The sibling s is painted red, and the debt passes to the parent.
LEMMA DebtRises ==
  ASSUME RBTreeAssumption, NEW w, NEW C, NEW h, NEW p, NEW d, Lacking(w, C, h, p, d),
         NEW r, r = Opp(d), NEW s, s = w[r][p], w.color[s] = "black",
         \A e \in Sides : IsBlack(w, w[e][s]),
         NEW v, Painted(w, v, s, "red")
  PROVE  v \in Trees /\ Erasing(v, p, w.parent[p]) /\ SameNodes(w, v)
<1>1. s \in Nodes /\ In(w, p) /\ p # NULL BY SiblingThere
<1>2. w \in Trees /\ Shape(w, C) /\ p \in Nodes
  BY DEF Lacking, Shape
<1>3. /\ RedOK(v, {m \in Nodes : v.parent[m] = p})
      /\ w.parent[p] = NULL => \E h3 : Heights(v, h3, NULL, "left")
      /\ \A q \in Nodes, f \in Sides : w[f][q] = p => \E h3 : Heights(v, h3, q, f)
  BY DebtUp
<1>4. /\ v \in Trees /\ v.root = w.root /\ v.parent = w.parent /\ \A e \in Sides : v[e] = w[e]
  BY DEF Painted, SamePointers
<1>5. Shape(v, C) /\ In(v, p) /\ SameNodes(w, v)
  BY <1>1, <1>2, SameShape DEF Painted, SameNodes
<1> DEFINE X == {m \in Nodes : v.parent[m] = p}
           q == w.parent[p]
<1>6. X \cap Nodes \subseteq Excused(v, p) BY <1>1 DEF Excused
<1>7. q \in N0 BY <1>2, Fields
<1>8. ASSUME q = NULL PROVE v \in Trees /\ Erasing(v, p, q)
  <2>1. p = v.root BY <1>4, <1>5, <1>8 DEF In
  <2>2. PICK h3 : Heights(v, h3, NULL, "left") BY <1>3, <1>8
  <2> HIDE DEF X, q
  <2>3. RedOK(v, X) BY <1>3 DEF X
  <2> QED BY <2>1, <2>2, <2>3, <1>5, <1>6, <1>7, DebtAtRoot
<1>9. ASSUME q # NULL PROVE v \in Trees /\ Erasing(v, p, q)
  <2>1. q \in Nodes BY <1>7, <1>9 DEF N0
  <2>2. PICK f \in Sides : w[f][q] = p BY <1>2, <1>9 DEF Shape, Pointers
  <2>3. PICK h3 : Heights(v, h3, q, f) BY <1>3, <2>1, <2>2
  <2>4. v[f][q] = p BY <2>2, <1>4
  <2>5. ShortSide(v, p, q) = f BY <2>1, <2>4, <1>2, <1>5, SideNames
  <2>6. In(v, q) BY <2>1, <2>4, <1>1, <1>5, Kin
  <2> HIDE DEF X, q
  <2>7. RedOK(v, X) BY <1>3 DEF X
  <2> QED BY <2>1, <2>3, <2>4, <2>5, <2>6, <2>7, <1>5, <1>6, DebtBelow
<1> QED BY <1>5, <1>8, <1>9

\* The sibling has no red child (rbtree.c:169): the black is owed one node higher.
LEMMA EraseRecolorKeeps ==
  ASSUME RBTreeAssumption, NEW u, NEW n, NEW p, Erasing(u, n, p), IsBlack(u, n), n # u.root,
         NEW d, d = ShortSide(u, n, p), NEW w, w = BlackSibling(u, p, d),
         NEW s, s = w[Opp(d)][p],
         IsBlack(w, w.left[s]) /\ IsBlack(w, w.right[s]),
         NEW v, v = SetColor(w, s, "red")
  PROVE  v \in Trees /\ Erasing(v, p, w.parent[p]) /\ SameNodes(u, v)
<1>1. PICK B, h : Lacking(u, B, h, p, d) BY Owing
<1>2. StillLacking(u, w, p, d) /\ w.color[s] = "black"
  <2> DEFINE z == BlackSibling(u, p, d)
  <2>1. StillLacking(u, z, p, d) /\ z.color[z[Opp(d)][p]] = "black" BY <1>1, BlackSiblingIs
  <2>2. w = z OBVIOUS
  <2> HIDE DEF z
  <2> QED BY <2>1, <2>2
<1>3. PICK C, h2 : Lacking(w, C, h2, p, d) BY <1>2 DEF StillLacking
<1>4. s \in Nodes BY <1>3, SiblingThere
<1>5. w \in Trees /\ w.left = w["left"] /\ w.right = w["right"]
  BY <1>3, Fields DEF Lacking, Shape
<1>6. Painted(w, v, s, "red") BY <1>4, <1>5, PaintFields
<1>7. \A e \in Sides : IsBlack(w, w[e][s]) BY <1>5 DEF Sides
<1>8. v \in Trees /\ Erasing(v, p, w.parent[p]) /\ SameNodes(w, v)
  BY <1>2, <1>3, <1>6, <1>7, DebtRises
<1>9. SameNodes(u, v) BY <1>2, <1>8 DEF SameNodes, StillLacking
<1> QED BY <1>8, <1>9

\* The end of the loop: the sibling and its far child are painted, and it goes up.
Settled(z, p, d) ==
  LET other == z[Opp(d)][p]
  IN  Rotate([z EXCEPT !.color[other] = z.color[p], !.color[p] = "black",
                       !.color[z[Opp(d)][other]] = "black"], p, d)

\* The red far child is black then, and the debt is paid.
LEMMA DebtSettled ==
  ASSUME RBTreeAssumption, NEW z, NEW D, NEW h, NEW p, NEW d, Lacking(z, D, h, p, d),
         NEW r, r = Opp(d), NEW other, other = z[r][p], z.color[other] = "black",
         NEW far, far = z[r][other], IsRed(z, far), NEW x, x = Settled(z, p, d)
  PROVE  x \in Trees /\ Erasing(x, x.root, p) /\ SameNodes(z, x)
<1> DEFINE y == SetColor(SetColor(SetColor(z, other, z.color[p]), p, "black"), far, "black")
           v == Rotate(y, p, d)
<1>0. x = v BY DEF Settled, SetColor
<1>1. /\ z \in Trees /\ p \in Nodes /\ other \in Nodes /\ d \in Sides /\ Shape(z, D) /\ far \in Nodes
      /\ z.color[p] \in {"red", "black"} /\ other # NULL
  <2>1. other \in Nodes /\ other # NULL BY SiblingThere
  <2>2. z \in Trees /\ p \in Nodes /\ d \in Sides /\ Shape(z, D) BY DEF Lacking, Shape
  <2>3. far # NULL /\ r \in Sides BY <2>2, OppSides DEF IsRed
  <2>4. far \in Nodes BY <2>1, <2>2, <2>3, Fields DEF N0
  <2> QED BY <2>1, <2>2, <2>4, Fields
<1>2. /\ SamePointers(z, y)
      /\ \A m \in Nodes : y.color[m] = IF m = far THEN "black" ELSE IF m = p THEN "black"
                                       ELSE IF m = other THEN z.color[p] ELSE z.color[m]
  <2>1. ThreePainted(z, y, other, z.color[p], p, "black", far, "black") BY <1>1, PaintThree
  <2> QED BY <2>1 DEF ThreePainted
<1> HIDE DEF y
<1>3. Shape(y, D) BY <1>1, <1>2, SameShape
<1>4. Rotated(y, v, p, d) /\ v.color = y.color
  <2>1. y[Opp(d)][p] # NULL BY <1>1, <1>2, OppSides DEF SamePointers
  <2> QED BY <2>1, <1>1, <1>3, RotateFields
<1> HIDE DEF v
<1>5. /\ Shape(v, Turned(z, D, p, d)) /\ SameNodes(z, v) /\ RedOK(v, {})
      /\ \E h4 : Heights(v, h4, NULL, "left")
  BY <1>2, <1>4, DebtPaid DEF SameNodes
<1>6. PICK h4 : Heights(v, h4, NULL, "left") BY <1>5
<1>7. p \in N0 /\ {} \cap Nodes \subseteq Excused(v, v.root) BY <1>1 DEF N0
<1>8. v \in Trees /\ Erasing(v, v.root, p) BY <1>5, <1>6, <1>7, DebtAtRoot
<1> QED BY <1>0, <1>5, <1>8

\* The sibling has a red child (rbtree.c:179): the black is paid.
LEMMA EraseRotateKeeps ==
  ASSUME RBTreeAssumption, NEW u, NEW n, NEW p, Erasing(u, n, p), IsBlack(u, n), n # u.root,
         NEW d, d = ShortSide(u, n, p), NEW w, w = BlackSibling(u, p, d),
         NEW s, s = w[Opp(d)][p],
         IsRed(w, w.left[s]) \/ IsRed(w, w.right[s]),
         NEW z, z = RedFar(w, p, d), NEW v, v = Settled(z, p, d)
  PROVE  v \in Trees /\ Erasing(v, v.root, p) /\ SameNodes(u, v)
<1>1. PICK B, h : Lacking(u, B, h, p, d) BY Owing
<1>2. StillLacking(u, w, p, d) /\ w.color[s] = "black"
  <2> DEFINE x == BlackSibling(u, p, d)
  <2>1. StillLacking(u, x, p, d) /\ x.color[x[Opp(d)][p]] = "black" BY <1>1, BlackSiblingIs
  <2>2. w = x OBVIOUS
  <2> HIDE DEF x
  <2> QED BY <2>1, <2>2
<1>3. PICK C, h2 : Lacking(w, C, h2, p, d) BY <1>2 DEF StillLacking
<1>4. \E e \in Sides : IsRed(w, w[e][s])
  <2>1. w.left = w["left"] /\ w.right = w["right"] BY <1>3, Fields DEF Lacking, Shape
  <2> QED BY <2>1 DEF Sides
<1>5. /\ StillLacking(w, z, p, d)
      /\ z.color[z[Opp(d)][p]] = "black" /\ IsRed(z, z[Opp(d)][z[Opp(d)][p]])
  <2> DEFINE x == RedFar(w, p, d)
  <2>1. /\ StillLacking(w, x, p, d)
        /\ x.color[x[Opp(d)][p]] = "black"
        /\ IsRed(x, x[Opp(d)][x[Opp(d)][p]])
    BY <1>2, <1>3, <1>4, RedFarIs
  <2>2. z = x OBVIOUS
  <2> HIDE DEF x
  <2> QED BY <2>1, <2>2
<1>6. PICK D, h3 : Lacking(z, D, h3, p, d) BY <1>5 DEF StillLacking
<1>7. v \in Trees /\ Erasing(v, v.root, p) /\ SameNodes(z, v)
  BY <1>5, <1>6, DebtSettled
<1>8. SameNodes(u, v) BY <1>2, <1>5, <1>7 DEF SameNodes, StillLacking
<1> QED BY <1>7, <1>8

\* The loop is left at a red node or at the root, which becomes black.
LEMMA EraseDoneKeeps ==
  ASSUME RBTreeAssumption, NEW u, NEW n, NEW p, Erasing(u, n, p), IsRed(u, n) \/ n = u.root,
         NEW v, v = IF n = NULL THEN u ELSE SetColor(u, n, "black")
  PROVE  v \in Trees /\ Rest(v) /\ SameNodes(u, v)
<1>1. PICK B : Shape(u, B) BY DEF Erasing, HasShape
<1>2. u \in Trees /\ n \in N0 /\ RedOK(u, Excused(u, n)) /\ NULL \notin Nodes
  BY <1>1 DEF Erasing, Shape, RBTreeAssumption
<1>3. CASE n = NULL
  <2>1. n = u.root /\ v = u BY <1>3 DEF IsRed
  <2>2. RedOK(u, {}) BY <1>2, <1>3 DEF RedOK, Excused
  <2> QED BY <2>1, <2>2, <1>1, <1>2 DEF Erasing, Rest, HasShape, SameNodes
<1>4. CASE n # NULL
  <2> DEFINE d == ShortSide(u, n, p)
  <2>1. n \in Nodes /\ d \in Sides BY <1>2, <1>4 DEF N0, ShortSide, Sides
  <2>2. v = SetColor(u, n, "black") BY <1>4
  <2>3. Painted(u, v, n, "black") BY <2>1, <2>2, <1>2, PaintFields
  <2>4. Shape(v, B) /\ SameNodes(u, v) BY <2>3, <1>1, SameShape DEF Painted, SameNodes
  <2>5. RedOK(u, {n} \cup {m \in Nodes : u.parent[m] = n}) BY <1>2 DEF RedOK, Excused
  <2>6. PICK h : IF n = u.root THEN Heights(u, h, NULL, "left")
                 ELSE p \in Nodes /\ u[d][p] = n /\ Heights(u, h, p, d)
    BY DEF Erasing, Even
  <2>7. n # u.root => u.color[n] = "red" BY DEF IsRed
  <2>8. In(u, n)
    <3>1. CASE n = u.root BY <3>1 DEF In
    <3>2. CASE n # u.root BY <2>1, <2>6, <3>2, <1>1, <1>4, Kin
    <3> QED BY <3>1, <3>2
  <2> HIDE DEF d
  <2>9. RedOK(v, {}) /\ \E h2 : Heights(v, h2, NULL, "left")
    BY <2>1, <2>3, <2>5, <2>6, <2>7, <2>8, <1>1, EraseEnds
  <2> QED BY <2>4, <2>9 DEF Rest, HasShape, Even, Shape
<1> QED BY <1>3, <1>4

\* A node of the same key takes the place of another in a tree at rest.
LEMMA RenamedKeeps ==
  ASSUME RBTreeAssumption, FiniteNodes, NEW u, Rest(u), NEW a \in Nodes, In(u, a),
         NEW b \in Nodes, ~In(u, b), Key[a] = Key[b], NEW v, Renamed(u, v, a, b)
  PROVE  /\ v \in Trees /\ Rest(v)
         /\ \A m \in Nodes : In(v, m) <=> (In(u, m) /\ m # a) \/ m = b
<1>1. PICK B : Shape(u, B) BY DEF Rest, HasShape
<1>2. PICK h : Heights(u, h, NULL, "left") BY DEF Rest, Even
<1>3. RedOK(u, {}) /\ NULL # a /\ NULL # b /\ a \notin {} BY DEF Rest, RBTreeAssumption
<1>4. \A m \in Nodes \ {a}, e \in Sides : In(u, m) /\ Before(e, m, a) => Before(e, m, b)
  BY DEF Before
<1>5. /\ Shape(v, Swapped(B, a, b))
      /\ \A m \in Nodes : In(v, m) <=> (In(u, m) /\ m # a) \/ m = b
  BY <1>1, <1>4, RenamedShape
<1>6. RedOK(v, {}) /\ \E h2 : Heights(v, h2, IF NULL = a THEN b ELSE NULL, "left")
  BY <1>1, <1>2, <1>3, RenamedBalance
<1> QED BY <1>3, <1>5, <1>6 DEF Rest, HasShape, Even, Shape

\* The tree that rb_replace_node leaves.
Replaced(u, a, b) ==
  LET w == SetParent(SetParent(Relink(u, u.parent[a], a, b), u.left[a], b), u.right[a], b)
  IN  Forget([w EXCEPT !.left[b] = w.left[a], !.right[b] = w.right[a],
                       !.parent[b] = w.parent[a], !.color[b] = w.color[a]], a)

\* That is what it does.
LEMMA ReplaceKeeps ==
  ASSUME RBTreeAssumption, FiniteNodes, NEW u, Rest(u), NEW a \in Nodes, In(u, a),
         NEW b \in Nodes, ~In(u, b), Key[a] = Key[b]
  PROVE  /\ Replaced(u, a, b) \in Trees /\ Rest(Replaced(u, a, b))
         /\ \A m \in Nodes : In(Replaced(u, a, b), m) <=> (In(u, m) /\ m # a) \/ m = b
<1>1. PICK B : Shape(u, B) BY DEF Rest, HasShape
<1>2. Renamed(u, Replaced(u, a, b), a, b) BY <1>1, ReplaceFields DEF Replaced
<1> QED BY <1>2, RenamedKeeps

-----------------------------------------------------------------------------
(* The invariant                                                           *)

\* The two ways to say that a node is in the tree.
LEMMA InIs == \A n : In(t, n) <=> InTree(n)
BY DEF In, InTree

\* The empty tree is at rest.
LEMMA InitInv ==
  ASSUME RBTreeAssumption, Init
  PROVE  IInv
<1> DEFINE B == [n \in Nodes |-> {n}]
           h == [n \in Nodes |-> 0]
<1>1. /\ t \in Trees /\ t.root = NULL
      /\ \A d \in Sides, n \in Nodes : t[d][n] = NULL
      /\ \A n \in Nodes : t.parent[n] = NULL /\ t.color[n] = "red"
  BY DEF Init, Empty, Trees, N0, Sides
<1>2. pc = "idle" /\ node = NULL /\ parent = NULL /\ NULL \notin Nodes
  BY DEF Init, RBTreeAssumption
<1>3. \A n \in Nodes : ~In(t, n) BY <1>1, <1>2 DEF In
<1>4. Pointers(t) BY <1>1, <1>3 DEF Pointers
<1>5. Subtrees(t, B) BY <1>1, <1>3 DEF Subtrees
<1>6. RedOK(t, {}) BY <1>1, <1>2 DEF RedOK, IsRed
<1>7. Heights(t, h, NULL, "left")
  <2>1. h \in [Nodes -> Nat] /\ \A n \in Nodes : h[n] = 0 OBVIOUS
  <2> HIDE DEF h
  <2>2. ASSUME NEW n \in Nodes, NEW e \in Sides PROVE HeightAt(t, h, NULL, "left", n, e)
    <3>1. h[n] = (IF t.color[n] = "red" THEN 0 ELSE 1) + Ht(h, t[e][n])
      BY <1>1, <2>1 DEF Ht
    <3> QED BY <3>1, <2>1, <1>1, <1>2, HeightShown
  <2> QED BY <2>1, <2>2 DEF Heights
<1>8. Rest(t) BY <1>1, <1>4, <1>5, <1>6, <1>7 DEF Rest, HasShape, Even, Shape
<1>9. TypeOK BY <1>1, <1>2 DEF TypeOK, Trees, N0
<1> QED BY <1>2, <1>8, <1>9 DEF IInv

\* A call of the user's insertion keeps the invariant.
LEMMA InsertStep ==
  ASSUME RBTreeAssumption, FiniteNodes, IInv, NEW n \in Nodes, Insert(n)
  PROVE  IInv' /\ ~In(t, n) /\ \A m \in Nodes : In(t', m) <=> In(t, m) \/ m = n
<1> DEFINE p == SearchStop(t, Key[n])
           v == LinkNode(t, n, p, IF p # NULL /\ Key[n] > Key[p] THEN "right" ELSE "left")
<1>1. /\ Rest(t) /\ ~In(t, n) /\ (p # NULL => Key[p] # Key[n])
      /\ t' = v /\ pc' = "insert" /\ node' = n /\ parent' = parent
  BY InIs DEF Insert, IInv
<1> HIDE DEF p
<1>2. v \in Trees /\ Inserting(v, n) /\ \A m \in Nodes : In(v, m) <=> In(t, m) \/ m = n
  BY <1>1, InsertKeeps DEF p
<1> HIDE DEF v
<1>3. parent \in Nodes \cup {NULL} BY DEF IInv, TypeOK
<1>4. TypeOK' BY <1>1, <1>2, <1>3 DEF TypeOK, Trees, N0
<1>5. Inserting(t', node') BY <1>1, <1>2
<1> QED BY <1>1, <1>2, <1>4, <1>5 DEF IInv

\* Each step of rb_insert_color keeps it.
LEMMA InsertLoopStep ==
  ASSUME RBTreeAssumption, IInv, InsertRecolor \/ InsertRotate \/ InsertDone
  PROVE  IInv' /\ SameNodes(t, t')
<1>1. Inserting(t, node) /\ parent \in Nodes \cup {NULL} /\ NULL \notin Nodes
  BY DEF InsertRecolor, InsertRotate, InsertDone, IInv, TypeOK, RBTreeAssumption
<1>2. CASE InsertRecolor \/ InsertRotate
  <2>1. t' \in Trees /\ Inserting(t', node') /\ SameNodes(t, t')
    BY <1>1, <1>2, InsertRecolorKeeps, InsertRotateKeeps
  <2>2. pc' = "insert" /\ parent' = parent BY <1>2 DEF InsertRecolor, InsertRotate
  <2>3. node' \in Nodes BY <2>1 DEF Inserting
  <2>4. TypeOK' BY <1>1, <2>1, <2>2, <2>3 DEF TypeOK, Trees, N0
  <2>5. Inserting(t, node)' BY <2>1 DEF Inserting, HasShape, Even
  <2> QED BY <2>1, <2>2, <2>4 DEF IInv
<1>3. CASE InsertDone
  <2>1. t' \in Trees /\ Rest(t') /\ SameNodes(t, t') BY <1>1, <1>3, InsertDoneKeeps
  <2>2. pc' = "idle" /\ node' = NULL /\ parent' = parent BY <1>3 DEF InsertDone
  <2>3. TypeOK' BY <1>1, <2>1, <2>2 DEF TypeOK, Trees, N0
  <2> QED BY <2>1, <2>2, <2>3 DEF IInv
<1> QED BY <1>2, <1>3

\* What the erasing functions leave: a loop to run, or a tree at rest.
LEMMA RebalanceStep ==
  ASSUME RBTreeAssumption, IInv, pc = "idle", NEW v, v \in Trees, NEW child \in N0, NEW p \in N0,
         NEW c \in {"red", "black"}, t' = v, Rebalance(c, child, p),
         c # "black" => Rest(v),
         c = "black" => Erasing(v, child, p)
  PROVE  IInv'
<1>1. node \in N0 /\ parent \in N0 BY DEF IInv, TypeOK, N0
<1>2. CASE c = "black"
  <2>1. pc' = "erase" /\ node' = child /\ parent' = p BY <1>2 DEF Rebalance
  <2>2. TypeOK' BY <2>1 DEF TypeOK, Trees, N0
  <2>3. Erasing(t', node', parent') BY <1>2, <2>1
  <2> QED BY <2>1, <2>2, <2>3 DEF IInv
<1>3. CASE c # "black"
  <2>1. pc' = pc /\ node' = node /\ parent' = parent BY <1>3 DEF Rebalance
  <2>2. TypeOK' BY <1>1, <2>1 DEF TypeOK, Trees, N0
  <2>3. Rest(t') BY <1>3
  <2> QED BY <2>1, <2>2, <2>3 DEF IInv
<1> QED BY <1>2, <1>3

\* rb_erase of a node with one child at most keeps it.
LEMMA EraseOuterStep ==
  ASSUME RBTreeAssumption, IInv, NEW n \in Nodes, EraseOuter(n)
  PROVE  IInv' /\ In(t, n) /\ \A m \in Nodes : In(t', m) <=> In(t, m) /\ m # n
<1> DEFINE child == IF t.left[n] = NULL THEN t.right[n] ELSE t.left[n]
           v == CutOut(t, n, child)
<1>1. /\ pc = "idle" /\ Rest(t) /\ In(t, n) /\ (t.left[n] = NULL \/ t.right[n] = NULL)
      /\ t' = v /\ Rebalance(t.color[n], child, t.parent[n])
  BY InIs DEF EraseOuter, IInv
<1> HIDE DEF child
<1>2. /\ v \in Trees /\ child \in N0 /\ t.parent[n] \in N0 /\ t.color[n] \in {"red", "black"}
      /\ t.color[n] # "black" => Rest(v)
      /\ t.color[n] = "black" => Erasing(v, child, t.parent[n])
      /\ \A m \in Nodes : In(v, m) <=> In(t, m) /\ m # n
  BY <1>1, EraseOuterKeeps DEF child
<1> HIDE DEF v
<1> QED BY <1>1, <1>2, RebalanceStep

\* rb_erase of a node with two children keeps it.
LEMMA EraseInnerStep ==
  ASSUME RBTreeAssumption, FiniteNodes, IInv, NEW n \in Nodes, EraseInner(n)
  PROVE  IInv' /\ In(t, n) /\ \A m \in Nodes : In(t', m) <=> In(t, m) /\ m # n
<1> DEFINE y == Leftmost(t, t.right[n])
           v == PutInPlace(t, n, y)
           p == IF t.parent[y] = n THEN y ELSE t.parent[y]
<1>1. /\ pc = "idle" /\ Rest(t) /\ In(t, n) /\ t.left[n] # NULL /\ t.right[n] # NULL
      /\ t' = v /\ Rebalance(t.color[y], t.right[y], p)
  BY InIs DEF EraseInner, IInv
<1> HIDE DEF y
<1>2. /\ v \in Trees /\ t.right[y] \in N0 /\ p \in N0 /\ t.color[y] \in {"red", "black"}
      /\ t.color[y] # "black" => Rest(v)
      /\ t.color[y] = "black" => Erasing(v, t.right[y], p)
      /\ \A m \in Nodes : In(v, m) <=> In(t, m) /\ m # n
  BY <1>1, EraseInnerKeeps DEF y
<1> HIDE DEF v, p
<1> QED BY <1>1, <1>2, RebalanceStep

\* An iteration of __rb_erase_color that moves up keeps it.
LEMMA EraseRecolorStep ==
  ASSUME RBTreeAssumption, IInv, EraseRecolor
  PROVE  IInv' /\ SameNodes(t, t')
<1> DEFINE w == BlackSibling(t, parent, Short)
           s == w[Opp(Short)][parent]
           v == SetColor(w, s, "red")
<1>1. /\ pc = "erase" /\ Erasing(t, node, parent) /\ IsBlack(t, node) /\ node # t.root
      /\ Short = ShortSide(t, node, parent) /\ parent \in N0
  BY DEF EraseRecolor, TooBlack, Short, ShortSide, IInv, TypeOK, N0
<1>2. /\ IsBlack(w, w.left[s]) /\ IsBlack(w, w.right[s])
      /\ t' = v /\ node' = parent /\ parent' = w.parent[parent] /\ pc' = pc
  BY DEF EraseRecolor
<1> HIDE DEF w, s
<1>3. v \in Trees /\ Erasing(v, parent, w.parent[parent]) /\ SameNodes(t, v)
  BY <1>1, <1>2, EraseRecolorKeeps DEF w, s
<1> HIDE DEF v
<1>4. w.parent[parent] \in N0 BY <1>3 DEF Erasing
<1>5. TypeOK' BY <1>1, <1>2, <1>3, <1>4 DEF TypeOK, Trees, N0
<1>6. Erasing(t', node', parent') BY <1>2, <1>3
<1> QED BY <1>1, <1>2, <1>3, <1>5, <1>6 DEF IInv

\* One that pays the debt keeps it.
LEMMA EraseRotateStep ==
  ASSUME RBTreeAssumption, IInv, EraseRotate
  PROVE  IInv' /\ SameNodes(t, t')
<1> DEFINE d == Short
           w == BlackSibling(t, parent, d)
           s == w[Opp(d)][parent]
           z == RedFar(w, parent, d)
           v == Settled(z, parent, d)
<1>1. /\ pc = "erase" /\ Erasing(t, node, parent) /\ IsBlack(t, node) /\ node # t.root
      /\ d = ShortSide(t, node, parent) /\ parent \in N0
  BY DEF EraseRotate, TooBlack, Short, ShortSide, IInv, TypeOK, N0
<1>2. /\ IsRed(w, w.left[s]) \/ IsRed(w, w.right[s])
      /\ t' = v /\ node' = t'.root /\ parent' = parent /\ pc' = pc
  BY DEF EraseRotate, Settled
<1> HIDE DEF d, w, s, z
<1>3. v \in Trees /\ Erasing(v, v.root, parent) /\ SameNodes(t, v)
  <2>1. w = BlackSibling(t, parent, d) /\ s = w[Opp(d)][parent] /\ z = RedFar(w, parent, d)
    BY DEF d, w, s, z
  <2> QED BY <1>1, <1>2, <2>1, EraseRotateKeeps
<1> HIDE DEF v
<1>4. v.root \in N0 BY <1>3 DEF Erasing
<1>5. TypeOK' BY <1>1, <1>2, <1>3, <1>4 DEF TypeOK, Trees, N0
<1>6. Erasing(t', node', parent') BY <1>2, <1>3
<1> QED BY <1>1, <1>2, <1>3, <1>5, <1>6 DEF IInv

\* The end of __rb_erase_color keeps it.
LEMMA EraseDoneStep ==
  ASSUME RBTreeAssumption, IInv, EraseDone
  PROVE  IInv' /\ SameNodes(t, t')
<1> DEFINE v == IF node = NULL THEN t ELSE SetColor(t, node, "black")
<1>1. /\ Erasing(t, node, parent) /\ (IsRed(t, node) \/ node = t.root)
      /\ t' = v /\ pc' = "idle" /\ node' = NULL /\ parent' = NULL
  BY DEF EraseDone, TooBlack, IsBlack, IInv
<1>2. v \in Trees /\ Rest(v) /\ SameNodes(t, v) BY <1>1, EraseDoneKeeps
<1> HIDE DEF v
<1>3. TypeOK' BY <1>1, <1>2 DEF TypeOK, Trees, N0
<1> QED BY <1>1, <1>2, <1>3 DEF IInv

\* rb_replace_node keeps it.
LEMMA ReplaceStep ==
  ASSUME RBTreeAssumption, FiniteNodes, IInv, NEW a \in Nodes, NEW b \in Nodes, Replace(a, b)
  PROVE  /\ IInv' /\ In(t, a) /\ ~In(t, b) /\ Key[a] = Key[b]
         /\ \A m \in Nodes : In(t', m) <=> (In(t, m) /\ m # a) \/ m = b
<1> DEFINE v == Replaced(t, a, b)
<1>1. /\ pc = "idle" /\ Rest(t) /\ In(t, a) /\ ~In(t, b) /\ Key[a] = Key[b]
      /\ pc' = pc /\ node' = node /\ parent' = parent
  BY InIs DEF Replace, IInv
<1>2. t' = v
  BY DEF Replace, Replaced
<1>3. /\ v \in Trees /\ Rest(v)
      /\ \A m \in Nodes : In(v, m) <=> (In(t, m) /\ m # a) \/ m = b
  BY <1>1, ReplaceKeeps
<1> HIDE DEF v
<1>4. TypeOK' BY <1>1, <1>2, <1>3 DEF TypeOK, Trees, N0, IInv
<1> QED BY <1>1, <1>2, <1>3, <1>4 DEF IInv

\* Every step keeps it.
LEMMA NextInv ==
  ASSUME RBTreeAssumption, FiniteNodes, IInv, [Next]_vars
  PROVE  IInv'
<1>1. CASE UNCHANGED vars
  BY <1>1 DEF vars, IInv, TypeOK, Rest, Inserting, Erasing, HasShape, Even
<1>2. CASE \E n \in Nodes : Insert(n) \/ EraseOuter(n) \/ EraseInner(n)
  BY <1>2, InsertStep, EraseOuterStep, EraseInnerStep
<1>3. CASE \E victim, new \in Nodes : Replace(victim, new)
  BY <1>3, ReplaceStep
<1>4. CASE Loop
  BY <1>4, InsertLoopStep, EraseRecolorStep, EraseRotateStep, EraseDoneStep DEF Loop
<1> QED BY <1>1, <1>2, <1>3, <1>4 DEF Next

-----------------------------------------------------------------------------
(* What it says of the properties                                          *)

\* At every moment the tree has a shape.
LEMMA InvShape == ASSUME IInv PROVE \E B : Shape(t, B)
BY DEF IInv, TypeOK, Rest, Inserting, Erasing, HasShape

\* The shape is what PointersAgree asks for.
LEMMA InvPointersAgree ==
  ASSUME RBTreeAssumption, FiniteNodes, IInv
  PROVE  PointersAgree
<1>1. PICK B : Shape(t, B) BY InvShape
<1>2. TypeOK BY DEF IInv
<1>3. t.root # NULL => t.parent[t.root] = NULL BY <1>1 DEF Shape, Pointers
<1>4. \A n \in Nodes, d \in Sides : t[d][n] # NULL => t.parent[t[d][n]] = n
  BY <1>1 DEF Shape, Pointers
<1>5. ASSUME NEW n \in Nodes, t.parent[n] # NULL
      PROVE  InTree(t.parent[n]) /\ n \in {t.left[t.parent[n]], t.right[t.parent[n]]}
  <2>1. t \in Trees /\ t.left = t["left"] /\ t.right = t["right"] BY <1>1, Fields DEF Shape
  <2>2. t.parent[n] \in Nodes BY <2>1, <1>5, Fields DEF N0
  <2>3. PICK d \in Sides : t[d][t.parent[n]] = n BY <1>1, <1>5 DEF Shape, Pointers
  <2>4. In(t, t.parent[n]) BY <2>2, <2>3, <1>1, Kin DEF RBTreeAssumption
  <2> QED BY <2>1, <2>3, <2>4, InIs DEF Sides
<1>6. ASSUME NEW S \in SUBSET Members, S # {} PROVE \E n \in S : t.parent[n] \notin S
  <2>1. S \in SUBSET Nodes BY DEF Members
  <2> QED BY <2>1, <1>1, <1>6, NoRing
<1> QED BY <1>2, <1>3, <1>4, <1>5, <1>6 DEF PointersAgree

\* Only the node the loop stands at, or a child of it, may be too red.
LEMMA InvRedRule ==
  ASSUME RBTreeAssumption, IInv
  PROVE  RedRule
<1> SUFFICES ASSUME NEW n \in Nodes, IsRed(t, n), n = t.root \/ IsRed(t, t.parent[n])
             PROVE  \/ pc # "idle" /\ n = node
                    \/ pc = "erase" /\ node # NULL /\ t.parent[n] = node
  BY DEF RedRule
<1>1. CASE pc = "idle" BY <1>1 DEF IInv, Rest, RedOK
<1>2. CASE pc = "insert" BY <1>2 DEF IInv, Inserting, RedOK
<1>3. CASE pc = "erase" BY <1>3 DEF IInv, Erasing, RedOK, Excused
<1> QED BY <1>1, <1>2, <1>3 DEF IInv, TypeOK

\* The heights of the invariant are those of the model.
LEMMA InvBlackBalanced ==
  ASSUME RBTreeAssumption, FiniteNodes, IInv
  PROVE  BlackBalanced
<1> DEFINE owing == pc = "erase" /\ node # t.root
           F(f) == [n \in Nodes |-> (IF IsBlack(t, n) THEN 1 ELSE 0) + Owed(n, "left")
                                    + (IF t.left[n] = NULL THEN 0 ELSE f[t.left[n]])]
           g == CHOOSE f : f = F(f)
<1>1. PICK B : Shape(t, B) BY InvShape
<1>2. t \in Trees /\ t.left = t["left"] /\ "left" \in Sides /\ NULL \notin Nodes
  BY <1>1, Fields DEF Shape, Sides, RBTreeAssumption
<1>3. PICK p, s, h : /\ Heights(t, h, p, s)
                     /\ \A n \in Nodes, d \in Sides : Owes(p, s, n, d) = Owed(n, d)
  <2>1. CASE owing
    <3>1. PICK h : Heights(t, h, parent, ShortSide(t, node, parent)) BY <2>1 DEF IInv, Erasing
    <3>2. Short = ShortSide(t, node, parent) BY DEF Short, ShortSide
    <3>3. \A n \in Nodes, d \in Sides : Owes(parent, Short, n, d) = Owed(n, d)
      BY <2>1 DEF Owes, Owed
    <3> QED BY <3>1, <3>2, <3>3
  <2>2. CASE ~owing
    <3>1. PICK h : Heights(t, h, NULL, "left")
      BY <2>2 DEF IInv, TypeOK, Rest, Inserting, Erasing, Even
    <3>2. \A n \in Nodes, d \in Sides : Owes(NULL, "left", n, d) = Owed(n, d)
      BY <2>2, <1>2 DEF Owes, Owed
    <3> QED BY <3>1, <3>2
  <2> QED BY <2>1, <2>2
<1>4. \A n \in Nodes, d \in Sides :
        h[n] = (IF IsBlack(t, n) THEN 1 ELSE 0) + Owed(n, d)
               + (IF t[d][n] = NULL THEN 0 ELSE h[t[d][n]])
  <2> SUFFICES ASSUME NEW n \in Nodes, NEW d \in Sides
               PROVE  h[n] = (IF IsBlack(t, n) THEN 1 ELSE 0) + Owed(n, d)
                             + (IF t[d][n] = NULL THEN 0 ELSE h[t[d][n]])
    OBVIOUS
  <2>1. h[n] = Bl(t, n) + Ht(h, t[d][n]) + Owed(n, d) /\ h \in [Nodes -> Nat]
    BY <1>3 DEF Heights, HeightAt
  <2>2. t[d][n] \in N0 BY <1>2, Fields
  <2>3. Ht(h, t[d][n]) \in Nat BY <2>1, <2>2, HtType
  <2>4. Owed(n, d) \in Nat /\ Bl(t, n) \in Nat BY DEF Owed, Bl
  <2>5. h[n] = Bl(t, n) + Owed(n, d) + Ht(h, t[d][n]) BY <2>1, <2>3, <2>4
  <2> QED BY <2>5 DEF Bl, Ht
<1>5. h = F(h)
  <2>1. h \in [Nodes -> Nat] BY <1>3 DEF Heights
  <2>2. \A n \in Nodes : h[n] = F(h)[n] BY <1>2, <1>4
  <2> QED BY <2>1, <2>2
<1>6. g = F(g)
  <2> HIDE DEF F
  <2> QED BY <1>5
<1>7. Height = g BY DEF Height
<1> HIDE DEF g
<1>8. \A n \in Nodes : g[n] = (IF IsBlack(t, n) THEN 1 ELSE 0) + Owed(n, "left")
                              + (IF t.left[n] = NULL THEN 0 ELSE g[t.left[n]])
  BY <1>6
<1>9. \A n \in Nodes : g[n] = h[n]
  <2> DEFINE S == {n \in Nodes : g[n] # h[n]}
  <2> SUFFICES ASSUME S # {} PROVE FALSE OBVIOUS
  <2>1. PICK n \in S : \A d \in Sides : t[d][n] \notin S
    <3>1. S \in SUBSET Nodes OBVIOUS
    <3> HIDE DEF S
    <3> QED BY <3>1, <1>1, NoRing
  <2>2. n \in Nodes /\ g[n] # h[n] /\ t.left[n] \notin S BY <2>1, <1>2
  <2>3. t.left[n] # NULL => t.left[n] \in Nodes BY <2>2, <1>2, Fields DEF N0
  <2>4. t.left[n] # NULL => g[t.left[n]] = h[t.left[n]] BY <2>2, <2>3
  <2>5. h[n] = (IF IsBlack(t, n) THEN 1 ELSE 0) + Owed(n, "left")
               + (IF t.left[n] = NULL THEN 0 ELSE h[t.left[n]])
    BY <1>2, <1>4, <2>2
  <2>6. g[n] = (IF IsBlack(t, n) THEN 1 ELSE 0) + Owed(n, "left")
               + (IF t.left[n] = NULL THEN 0 ELSE g[t.left[n]])
    BY <1>8, <2>2
  <2> QED BY <2>2, <2>4, <2>5, <2>6
<1>10. ASSUME NEW n \in Nodes, NEW d \in Sides
       PROVE  g[n] = (IF IsBlack(t, n) THEN 1 ELSE 0) + Owed(n, d)
                     + (IF t[d][n] = NULL THEN 0 ELSE g[t[d][n]])
  <2>1. t[d][n] # NULL => t[d][n] \in Nodes BY <1>2, Fields DEF N0
  <2>2. t[d][n] # NULL => g[t[d][n]] = h[t[d][n]] BY <2>1, <1>9
  <2> QED BY <2>2, <1>4, <1>9
<1> QED BY <1>7, <1>10 DEF BlackBalanced

-----------------------------------------------------------------------------
(* Theorems                                                                *)

\* The invariant holds of every state.
THEOREM InvHolds == Spec => []IInv
<1>1. Init => IInv BY InitInv, RBTreeAssumption
<1>2. IInv /\ [Next]_vars => IInv' BY NextInv, RBTreeAssumption, FiniteNodes
<1> QED BY <1>1, <1>2, PTL DEF Spec

\* rbtree.c:29, 161, 222, 372: for every finite set of nodes and every keys, whatever
\* is inserted, erased and replaced, and at each step of the loops, the pointers agree.
THEOREM PointersAlwaysAgree == Spec => []PointersAgree
<1>1. IInv => PointersAgree BY InvPointersAgree, RBTreeAssumption, FiniteNodes
<1> QED BY <1>1, InvHolds, PTL

\* rbtree.c:79, 146: and the tree is a red-black tree, but for the one place the
\* running loop works at.
THEOREM AlwaysRedBlack == Spec => []RedBlack
<1>1. IInv => RedBlack
  BY InvRedRule, InvBlackBalanced, RBTreeAssumption, FiniteNodes DEF RedBlack
<1> QED BY <1>1, InvHolds, PTL

\* rb_first, rb_last and the second half of rb_next and rb_prev find the extreme node
\* of a subtree.
LEMMA DownIs ==
  ASSUME RBTreeAssumption, FiniteNodes, NEW B, Shape(t, B), NEW d \in Sides, NEW n \in Nodes
  PROVE  LET y == Down(n, d)
         IN  y \in B[n] /\ y \in Nodes /\ \A m \in B[n] : m = y \/ Before(d, y, m)
<1> DEFINE F(f) == [x \in Nodes |-> IF t[d][x] = NULL THEN x ELSE f[t[d][x]]]
           g == CHOOSE f : f = F(f)
<1>1. \E f : f = F(f) BY ExtremeExists
<1>2. Down(n, d) = g[n] BY DEF Down
<1>3. g = F(g)
  <2> HIDE DEF F
  <2> QED BY <1>1
<1> HIDE DEF g
<1>4. \A x \in Nodes : g[x] = IF t[d][x] = NULL THEN x ELSE g[t[d][x]] BY <1>3
<1> QED BY <1>2, <1>4, Extreme

\* rb_first and rb_last find the first and the last node (rbtree.c:292, 305).
LEMMA FirstNodeIs ==
  ASSUME RBTreeAssumption, FiniteNodes, NEW B, Shape(t, B), NEW d \in Sides
  PROVE  IF Members = {} THEN FirstNode(d) = NULL
         ELSE /\ FirstNode(d) \in Members
              /\ \A m \in Members \ {FirstNode(d)} : Before(d, FirstNode(d), m)
<1>1. t.root \in N0 BY Fields DEF Shape
<1>2. \A n \in Nodes : n \in Members <=> t.root # NULL /\ n \in B[t.root]
  BY InIs DEF Members, Shape, Subtrees
<1>3. Members \subseteq Nodes BY DEF Members
<1>4. CASE t.root = NULL BY <1>2, <1>3, <1>4 DEF FirstNode
<1>5. CASE t.root # NULL
  <2>1. t.root \in Nodes BY <1>1, <1>5 DEF N0
  <2> DEFINE y == Down(t.root, d)
  <2>2. y \in B[t.root] /\ y \in Nodes /\ \A m \in B[t.root] : m = y \/ Before(d, y, m)
    BY <2>1, DownIs
  <2>3. FirstNode(d) = y BY <1>5 DEF FirstNode
  <2> HIDE DEF y
  <2> QED BY <2>2, <2>3, <1>2, <1>3, <1>5
<1> QED BY <1>4, <1>5

\* What the climb from x finds outside the subtree of x: the next node, or that
\* there is none.
Climbed(B, d, x, r) ==
  IF r = NULL THEN \A m \in B[t.root] \ B[x] : Before(Opp(d), m, x)
  ELSE /\ r \in B[t.root] \ B[x] /\ Before(d, r, x)
       /\ \A m \in B[t.root] \ B[x] : Before(d, m, x) => m = r \/ Before(d, m, r)

\* The climb ends.
LEMMA ClimbFunction ==
  ASSUME RBTreeAssumption, FiniteNodes, NEW B, Shape(t, B), NEW d \in Sides, NEW n \in Nodes
  PROVE  \E g : /\ Climb(n, d) = g[n]
                /\ \A x \in Nodes :
                     g[x] = IF t.parent[x] # NULL /\ x = t[d][t.parent[x]]
                            THEN g[t.parent[x]] ELSE t.parent[x]
<1> DEFINE F(f) == [x \in Nodes |-> IF t.parent[x] # NULL /\ x = t[d][t.parent[x]]
                                    THEN f[t.parent[x]] ELSE t.parent[x]]
           g == CHOOSE f : f = F(f)
<1>1. \E f : f = F(f)
  <2> DEFINE base == {x \in Nodes : ~(t.parent[x] # NULL /\ x = t[d][t.parent[x]])}
             next == t.parent
  <2>1. next \in [Nodes -> N0] BY Fields DEF Shape
  <2>2. \A x \in Nodes \ base : next[x] \in Nodes BY <2>1 DEF N0
  <2>3. \A S \in SUBSET Nodes : S # {} => \E x \in S : x \in base \/ next[x] \notin S
    BY NoRing
  <2>4. base \in SUBSET Nodes OBVIOUS
  <2> HIDE DEF base, next
  <2>5. PICK f \in [Nodes -> N0] : Descent(f, base, next, next)
    <3>1. EndsIn(base, next) BY <2>2, <2>3 DEF EndsIn
    <3> QED BY <2>1, <2>4, <3>1, DescentExists
  <2>6. f = F(f) BY <2>5 DEF base, next, Descent
  <2> QED BY <2>6
<1>2. Climb(n, d) = g[n] BY DEF Climb
<1>3. g = F(g)
  <2> HIDE DEF F
  <2> QED BY <1>1
<1> HIDE DEF g
<1> QED BY <1>2, <1>3

\* The climb of rb_next and rb_prev finds the first ancestor on that side, which is the
\* next of all nodes outside the subtree it comes from (rbtree.c:335, 364).
LEMMA ClimbIs ==
  ASSUME RBTreeAssumption, FiniteNodes, NEW B, Shape(t, B), NEW d \in Sides,
         NEW n \in Nodes, In(t, n)
  PROVE  Climbed(B, d, n, Climb(n, d))
<1>1. PICK g : /\ Climb(n, d) = g[n]
               /\ \A x \in Nodes :
                    g[x] = IF t.parent[x] # NULL /\ x = t[d][t.parent[x]]
                           THEN g[t.parent[x]] ELSE t.parent[x]
  BY ClimbFunction
<1> DEFINE S == {x \in Nodes : In(t, x) /\ ~Climbed(B, d, x, g[x])}
<1> SUFFICES ASSUME S # {} PROVE FALSE BY <1>1
<1>2. PICK x \in S : t.parent[x] \notin S
  <2> HIDE DEF S
  <2>1. S \in SUBSET Nodes BY DEF S
  <2> QED BY <2>1, NoRing
<1>3. x \in Nodes /\ In(t, x) /\ ~Climbed(B, d, x, g[x]) OBVIOUS
<1>4. /\ B \in [Nodes -> SUBSET Nodes]
      /\ \A y \in Nodes : y \in B[y]
      /\ \A y \in Nodes, f \in Sides : t[f][y] # NULL =>
           \A z \in B[t[f][y]] : z \in B[y] /\ Before(f, z, y)
      /\ \A y \in Nodes : \A z \in B[y] :
           z = y \/ \E f \in Sides : t[f][y] # NULL /\ z \in B[t[f][y]]
      /\ \A y \in Nodes : In(t, y) <=> t.root # NULL /\ y \in B[t.root]
      /\ t.root \in N0
  BY Fields DEF Shape, Subtrees
<1>5. t.root \in Nodes /\ x \in B[t.root] BY <1>3, <1>4 DEF N0
<1>6. t.parent[x] # NULL
  <2> SUFFICES ASSUME t.parent[x] = NULL PROVE FALSE OBVIOUS
  <2>1. x = t.root BY <1>3 DEF In
  <2>2. g[x] = NULL BY <1>1, <1>3
  <2> QED BY <1>3, <2>1, <2>2 DEF Climbed
<1> DEFINE p == t.parent[x]
<1>7. p \in Nodes BY <1>3, <1>6, Fields DEF Shape, N0
<1>8. PICK e \in Sides : t[e][p] = x BY <1>3, <1>6 DEF Shape, Pointers
<1>9. /\ In(t, p) /\ Before(e, x, p) /\ x \in B[p] /\ p \notin B[x] /\ t[Opp(e)][p] # x
      /\ p \in B[t.root] /\ B[x] \subseteq B[p] /\ t[e][p] # NULL
  <2>1. t[e][p] # NULL BY <1>3, <1>8 DEF RBTreeAssumption
  <2>2. In(t, p) /\ Before(e, x, p) /\ x \in B[p] /\ p \notin B[x] /\ t[Opp(e)][p] # x
    BY <1>7, <1>8, <2>1, Kin
  <2>3. p \in B[t.root] BY <1>4, <1>7, <2>2
  <2>4. B[x] \subseteq B[p] BY <1>4, <1>7, <1>8, <2>1
  <2> QED BY <2>1, <2>2, <2>3, <2>4
<1>10. \A m \in B[t.root] \ B[p] : \E f \in Sides : \A k \in B[p] : Before(f, m, k)
  BY <1>5, <1>7, <1>9, Convex
<1>11. /\ Opp(d) \in Sides /\ Opp(Opp(d)) = d
       /\ \A f \in Sides : f = d \/ f = Opp(d)
  BY OppSides
<1>12. p \in B[p] /\ \A m \in B[t.root] : m \in Nodes BY <1>4, <1>5, <1>7
<1>13. p # NULL BY <1>6
<1> HIDE DEF p
<1>14. CASE e = d
  <2>1. g[x] = g[p] BY <1>1, <1>3, <1>8, <1>13, <1>14 DEF p
  <2>2. Climbed(B, d, p, g[p]) BY <1>2, <1>7, <1>9 DEF p
  <2>3. ASSUME NEW m \in B[t.root] \ B[x], m \in B[p]
        PROVE  m = p \/ Before(Opp(d), m, p)
    <3>1. m = p \/ \E f \in Sides : t[f][p] # NULL /\ m \in B[t[f][p]] BY <1>4, <1>7, <2>3
    <3>2. m \notin B[t[d][p]] BY <1>8, <1>14
    <3> QED BY <3>1, <3>2, <1>4, <1>7, <1>11
  <2>4. Before(Opp(d), p, x) BY <1>3, <1>7, <1>9, <1>11, <1>14, BeforeOrder
  <2>5. CASE g[p] = NULL
    <3> SUFFICES ASSUME NEW m \in B[t.root] \ B[x] PROVE Before(Opp(d), m, x)
      BY <1>3, <2>1, <2>5 DEF Climbed
    <3>1. m = p \/ Before(Opp(d), m, p) BY <2>2, <2>3, <2>5 DEF Climbed
    <3> QED BY <3>1, <2>4, <1>3, <1>7, <1>11, <1>12, BeforeOrder
  <2>6. CASE g[p] # NULL
    <3> DEFINE r == g[p]
    <3>1. /\ r \in B[t.root] \ B[p] /\ Before(d, r, p)
          /\ \A m \in B[t.root] \ B[p] : Before(d, m, p) => m = r \/ Before(d, m, r)
      BY <2>2, <2>6 DEF Climbed
    <3> HIDE DEF r
    <3>2. PICK f \in Sides : \A k \in B[p] : Before(f, r, k) BY <1>10, <3>1
    <3>3. f = d
      <4>1. Before(f, r, p) BY <1>12, <3>2
      <4> QED BY <4>1, <3>1, <1>7, <1>11, <1>12, BeforeOrder
    <3>4. Before(d, r, x) BY <3>2, <3>3, <1>9
    <3>5. ASSUME NEW m \in B[t.root] \ B[x], Before(d, m, x) PROVE m = r \/ Before(d, m, r)
      <4>1. Before(d, m, p) BY <3>5, <1>3, <1>7, <1>9, <1>12, <1>14, BeforeOrder
      <4>2. m \notin B[p]
        <5> SUFFICES ASSUME m \in B[p] PROVE FALSE OBVIOUS
        <5>1. m = p \/ Before(Opp(d), m, p) BY <2>3
        <5> QED BY <5>1, <4>1, <1>7, <1>12, BeforeOrder
      <4> QED BY <3>1, <4>1, <4>2
    <3>6. r \in B[t.root] \ B[x] BY <3>1, <1>9
    <3>7. g[x] = r /\ r # NULL BY <2>1, <2>6 DEF r
    <3> QED BY <1>3, <3>4, <3>5, <3>6, <3>7 DEF Climbed
  <2> QED BY <2>5, <2>6
<1>15. CASE e # d
  <2>1. e = Opp(d) BY <1>11, <1>15
  <2>2. g[x] = p
    <3>1. x # t[d][p] BY <1>9, <1>11, <2>1
    <3> QED BY <1>1, <1>3, <3>1 DEF p
  <2>3. Before(d, p, x) BY <1>3, <1>7, <1>9, <2>1, BeforeOrder
  <2>4. ASSUME NEW m \in B[t.root] \ B[x], Before(d, m, x) PROVE m = p \/ Before(d, m, p)
    <3>1. CASE m \in B[p]
      <4>1. m = p \/ \E f \in Sides : t[f][p] # NULL /\ m \in B[t[f][p]] BY <1>4, <1>7, <3>1
      <4>2. m \notin B[t[e][p]] BY <1>8
      <4> QED BY <4>1, <4>2, <2>1, <1>4, <1>7, <1>11
    <3>2. CASE m \notin B[p]
      <4>1. PICK f \in Sides : \A k \in B[p] : Before(f, m, k) BY <1>10, <3>2
      <4>2. Before(f, m, x) /\ Before(f, m, p) BY <4>1, <1>9, <1>12
      <4>3. f = d BY <2>4, <4>2, <1>3, <1>11, <1>12, BeforeOrder
      <4> QED BY <4>2, <4>3
    <3> QED BY <3>1, <3>2
  <2> QED BY <1>3, <1>9, <1>13, <2>2, <2>3, <2>4 DEF Climbed
<1> QED BY <1>14, <1>15

\* rb_next and rb_prev find the next node in the order of the keys.
LEMMA NextNodeIs ==
  ASSUME RBTreeAssumption, FiniteNodes, NEW B, Shape(t, B), NEW d \in Sides,
         NEW n \in Members
  PROVE  LET Further == {m \in Members : Before(d, m, n)}
             next == NextNode(n, d)
         IN  IF Further = {} THEN next = NULL
             ELSE next \in Further /\ \A m \in Further \ {next} : Before(d, m, next)
<1> DEFINE Further == {m \in Members : Before(d, m, n)}
           next == NextNode(n, d)
<1>1. \A m : m \in Members <=> m \in Nodes /\ In(t, m) BY InIs DEF Members
<1>2. n \in Nodes /\ In(t, n) BY <1>1
<1>3. ~Before(d, n, n) BY <1>2, BeforeOrder
<1>4. CASE t[d][n] # NULL
  <2>1. t[d][n] \in Nodes BY <1>2, <1>4, Kin
  <2> DEFINE y == Down(t[d][n], Opp(d))
  <2>2. y \in B[t[d][n]] /\ \A m \in B[t[d][n]] : m = y \/ Before(Opp(d), y, m)
    BY <2>1, DownIs, OppSides
  <2>3. next = y BY <1>4 DEF NextNode
  <2> HIDE DEF y, next
  <2>4. /\ y \in Nodes /\ In(t, y) /\ Before(d, y, n)
        /\ \A m \in Nodes \ {n, y} : In(t, m) /\ Before(d, m, n) => Before(d, m, y)
    BY <1>2, <1>4, <2>2, NextKey
  <2>5. y \in Further BY <1>1, <2>4
  <2>6. \A m \in Further \ {y} : Before(d, m, y) BY <1>1, <1>3, <2>4
  <2> QED BY <2>3, <2>5, <2>6 DEF next
<1>5. CASE t[d][n] = NULL
  <2>1. next = Climb(n, d) BY <1>5 DEF NextNode
  <2>2. Climbed(B, d, n, next) BY <1>2, <2>1, ClimbIs
  <2> HIDE DEF next
  <2>3. /\ B \in [Nodes -> SUBSET Nodes]
        /\ \A y \in Nodes, f \in Sides : t[f][y] # NULL =>
             \A z \in B[t[f][y]] : z \in B[y] /\ Before(f, z, y)
        /\ \A y \in Nodes : \A z \in B[y] :
             z = y \/ \E f \in Sides : t[f][y] # NULL /\ z \in B[t[f][y]]
        /\ \A y \in Nodes : In(t, y) <=> t.root # NULL /\ y \in B[t.root]
        /\ t.root \in N0
    BY Fields DEF Shape, Subtrees
  <2>4. t.root \in Nodes /\ \A m : m \in Members <=> m \in B[t.root]
    BY <1>1, <1>2, <2>3 DEF N0
  <2>5. \A m \in Further : m \in B[t.root] \ B[n] /\ m \in Nodes
    <3> SUFFICES ASSUME NEW m \in Further, m \in B[n] PROVE FALSE BY <1>1, <2>4
    <3>1. m \in Nodes /\ Before(d, m, n) /\ m # n BY <1>1, <1>3
    <3>2. PICK f \in Sides : t[f][n] # NULL /\ m \in B[t[f][n]] BY <1>2, <2>3, <3>1
    <3>3. f = Opp(d) BY <1>5, <3>2, OppSides
    <3> QED BY <1>2, <2>3, <3>1, <3>2, <3>3, BeforeOrder
  <2>6. CASE next = NULL
    <3>1. ASSUME NEW m \in Further PROVE FALSE
      <4>1. Before(Opp(d), m, n) BY <2>2, <2>5, <2>6 DEF Climbed
      <4> QED BY <4>1, <2>5, <1>2, BeforeOrder
    <3> QED BY <2>6, <3>1 DEF next
  <2>7. CASE next # NULL
    <3>1. next \in Further BY <2>2, <2>4, <2>7 DEF Climbed
    <3>2. \A m \in Further \ {next} : Before(d, m, next) BY <2>2, <2>5, <2>7 DEF Climbed
    <3> QED BY <3>1, <3>2 DEF next
  <2> QED BY <2>6, <2>7
<1> QED BY <1>4, <1>5

\* In every tree of that shape the walks are in order.
LEMMA InvWalksInOrder ==
  ASSUME RBTreeAssumption, FiniteNodes, IInv
  PROVE  WalksInOrder
<1>1. PICK B : Shape(t, B) BY InvShape
<1>2. ASSUME NEW d \in Sides
      PROVE  IF Members = {} THEN FirstNode(d) = NULL
             ELSE /\ FirstNode(d) \in Members
                  /\ \A m \in Members \ {FirstNode(d)} : Before(d, FirstNode(d), m)
  BY <1>1, FirstNodeIs
<1>3. ASSUME NEW d \in Sides, NEW n \in Members
      PROVE  LET Further == {m \in Members : Before(d, m, n)}
                 next == NextNode(n, d)
             IN  IF Further = {} THEN next = NULL
                 ELSE next \in Further /\ \A m \in Further \ {next} : Before(d, m, next)
  BY <1>1, NextNodeIs
<1> QED BY <1>2, <1>3 DEF WalksInOrder

\* rbtree.c:292, 305, 318, 347: and the walks meet the nodes in the order of their keys.
THEOREM WalksAlwaysInOrder == Spec => []WalksInOrder
<1>1. IInv => WalksInOrder BY InvWalksInOrder, RBTreeAssumption, FiniteNodes
<1> QED BY <1>1, InvHolds, PTL

-----------------------------------------------------------------------------
(* The sequence of the nodes in the order of the tree                      *)

\* s lists the nodes of M in the strict order of their keys.
Lists(s, M) ==
  /\ s \in Seq(Nodes) /\ Set!Sorted(s)
  /\ \A m \in Nodes : m \in M <=> \E i \in 1 .. Len(s) : s[i] = m

\* A set of nodes has one of the least key.
LEMMA LeastKey ==
  ASSUME RBTreeAssumption, FiniteNodes, NEW K \in SUBSET Nodes, K # {}
  PROVE  \E x \in K : \A y \in K : Key[x] <= Key[y]
<1> DEFINE UpTo(x) == {y \in Nodes : Key[y] <= Key[x]}
           G == {UpTo(x) : x \in K}
<1>1. \A x \in Nodes : Key[x] \in Int BY DEF RBTreeAssumption
<1>2. G \in SUBSET SUBSET Nodes /\ G # {} OBVIOUS
<1>3. PICK D \in G : \A E \in G : E \subseteq D => E = D
  <2> HIDE DEF G
  <2> QED BY <1>2, LeastSet
<1>4. PICK x \in K : D = UpTo(x) OBVIOUS
<1>5. ASSUME NEW y \in K PROVE Key[x] <= Key[y]
  <2> SUFFICES ASSUME Key[y] < Key[x] PROVE FALSE BY <1>1
  <2>1. UpTo(y) \subseteq UpTo(x) BY <1>1
  <2>2. UpTo(y) = UpTo(x) BY <2>1, <1>3, <1>4
  <2>3. x \in UpTo(x) BY <1>1
  <2>4. x \in UpTo(y) BY <2>2, <2>3
  <2> QED BY <2>4, <1>1
<1> QED BY <1>5

\* Where a node of a sorted list is.
LEMMA Places ==
  ASSUME RBTreeAssumption, NEW M, NEW s, Lists(s, M)
  PROVE  /\ Len(s) \in Nat /\ DOMAIN s = 1 .. Len(s)
         /\ \A i \in 1 .. Len(s) : s[i] \in Nodes /\ s[i] \in M /\ Key[s[i]] \in Int
         /\ \A i, j \in 1 .. Len(s) : i < j => Key[s[i]] < Key[s[j]]
         /\ \A i, j \in 1 .. Len(s) : s[i] = s[j] => i = j
<1>1. Len(s) \in Nat /\ DOMAIN s = 1 .. Len(s) /\ \A i \in 1 .. Len(s) : s[i] \in Nodes
  BY DEF Lists
<1>2. \A i \in 1 .. Len(s) : s[i] \in M /\ Key[s[i]] \in Int
  BY <1>1 DEF Lists, RBTreeAssumption
<1>3. \A i, j \in 1 .. Len(s) : i < j => Key[s[i]] < Key[s[j]] BY <1>1 DEF Lists, Set!Sorted
<1>4. \A i, j \in 1 .. Len(s) : s[i] = s[j] => i = j BY <1>1, <1>2, <1>3
<1> QED BY <1>1, <1>2, <1>3, <1>4

\* A set is listed in one way only: of the nodes that stand at different places in two
\* lists, consider the one of the least key.
LEMMA OneOrder ==
  ASSUME RBTreeAssumption, FiniteNodes, NEW M, NEW r, NEW s, Lists(r, M), Lists(s, M)
  PROVE  r = s
<1> DEFINE K == {x \in Nodes : \E i \in 1 .. Len(r), j \in 1 .. Len(s) :
                                 r[i] = x /\ s[j] = x /\ i # j}
<1>1. /\ Len(r) \in Nat /\ Len(s) \in Nat
      /\ \A i \in 1 .. Len(r) : r[i] \in Nodes /\ r[i] \in M /\ Key[r[i]] \in Int
      /\ \A i \in 1 .. Len(s) : s[i] \in Nodes /\ s[i] \in M /\ Key[s[i]] \in Int
      /\ \A i, j \in 1 .. Len(r) : i < j => Key[r[i]] < Key[r[j]]
      /\ \A i, j \in 1 .. Len(s) : i < j => Key[s[i]] < Key[s[j]]
      /\ \A i, j \in 1 .. Len(r) : r[i] = r[j] => i = j
      /\ \A i, j \in 1 .. Len(s) : s[i] = s[j] => i = j
  BY Places
<1>2. /\ \A i \in 1 .. Len(r) : \E j \in 1 .. Len(s) : s[j] = r[i]
      /\ \A j \in 1 .. Len(s) : \E i \in 1 .. Len(r) : r[i] = s[j]
  BY <1>1 DEF Lists
<1>3. K = {}
  <2> SUFFICES ASSUME K # {} PROVE FALSE OBVIOUS
  <2>1. PICK x \in K : \A y \in K : Key[x] <= Key[y]
    <3>1. K \in SUBSET Nodes OBVIOUS
    <3> HIDE DEF K
    <3> QED BY <3>1, LeastKey
  <2>2. PICK i \in 1 .. Len(r), j \in 1 .. Len(s) : r[i] = x /\ s[j] = x /\ i # j OBVIOUS
  <2>3. CASE i < j
    <3>1. i \in 1 .. Len(s) BY <2>3, <1>1
    <3>2. Key[s[i]] < Key[x] BY <2>2, <2>3, <3>1, <1>1
    <3>3. PICK k \in 1 .. Len(r) : r[k] = s[i] BY <3>1, <1>2
    <3>4. s[i] \notin K
      <4>1. Key[x] \in Int /\ Key[s[i]] \in Int BY <3>1, <2>2, <1>1
      <4> HIDE DEF K
      <4> QED BY <4>1, <3>2, <2>1
    <3>5. k = i BY <3>1, <3>3, <3>4, <1>1
    <3> QED BY <3>2, <3>3, <3>5, <2>2, <1>1
  <2>4. CASE j < i
    <3>1. j \in 1 .. Len(r) BY <2>4, <1>1
    <3>2. Key[r[j]] < Key[x] BY <2>2, <2>4, <3>1, <1>1
    <3>3. PICK k \in 1 .. Len(s) : s[k] = r[j] BY <3>1, <1>2
    <3>4. r[j] \notin K
      <4>1. Key[x] \in Int /\ Key[r[j]] \in Int BY <3>1, <2>2, <1>1
      <4> HIDE DEF K
      <4> QED BY <4>1, <3>2, <2>1
    <3>5. k = j BY <3>1, <3>3, <3>4, <1>1
    <3> QED BY <3>2, <3>3, <3>5, <2>2, <1>1
  <2> QED BY <2>2, <2>3, <2>4
<1>4. \A i \in 1 .. Len(r) : i \in 1 .. Len(s) /\ s[i] = r[i]
  <2> SUFFICES ASSUME NEW i \in 1 .. Len(r) PROVE i \in 1 .. Len(s) /\ s[i] = r[i] OBVIOUS
  <2>1. PICK j \in 1 .. Len(s) : s[j] = r[i] BY <1>2
  <2>2. r[i] \in Nodes /\ r[i] \notin K BY <1>1, <1>3
  <2>3. i = j BY <2>1, <2>2
  <2> QED BY <2>1, <2>3
<1>5. \A j \in 1 .. Len(s) : j \in 1 .. Len(r)
  <2> SUFFICES ASSUME NEW j \in 1 .. Len(s) PROVE j \in 1 .. Len(r) OBVIOUS
  <2>1. PICK i \in 1 .. Len(r) : r[i] = s[j] BY <1>2
  <2>2. s[j] \in Nodes /\ s[j] \notin K BY <1>1, <1>3
  <2>3. i = j BY <2>1, <2>2
  <2> QED BY <2>3
<1>6. Len(r) = Len(s) BY <1>1, <1>4, <1>5
<1> HIDE DEF K
<1> QED BY <1>4, <1>6, SeqEqual DEF Lists

\* A list without the element at place i.
LEMMA RemoveAtIs ==
  ASSUME NEW s \in Seq(Nodes), NEW i \in 1 .. Len(s)
  PROVE  /\ RemoveAt(s, i) \in Seq(Nodes) /\ Len(RemoveAt(s, i)) = Len(s) - 1
         /\ \A k \in 1 .. Len(s) - 1 : RemoveAt(s, i)[k] = IF k < i THEN s[k] ELSE s[k + 1]
         /\ s = InsertAt(RemoveAt(s, i), i, s[i])
<1> DEFINE a == SubSeq(s, 1, i - 1)
           b == SubSeq(s, i + 1, Len(s))
           r == a \o b
<1>1. Len(s) \in Nat /\ i \in Nat /\ s[i] \in Nodes OBVIOUS
<1>2. a \in Seq(Nodes) /\ Len(a) = i - 1 /\ \A k \in 1 .. i - 1 : a[k] = s[k]
  BY <1>1, SubSeqProperties
<1>3. b \in Seq(Nodes) /\ Len(b) = Len(s) - i /\ \A k \in 1 .. Len(s) - i : b[k] = s[i + k]
  BY <1>1, SubSeqProperties
<1>4. RemoveAt(s, i) = r BY DEF RemoveAt
<1> HIDE DEF a, b
<1>5. /\ r \in Seq(Nodes) /\ Len(r) = Len(s) - 1
      /\ \A k \in 1 .. Len(r) : r[k] = IF k <= Len(a) THEN a[k] ELSE b[k - Len(a)]
  <2>1. /\ r \in Seq(Nodes) /\ Len(r) = Len(a) + Len(b)
        /\ \A k \in 1 .. Len(a) + Len(b) : r[k] = IF k <= Len(a) THEN a[k] ELSE b[k - Len(a)]
    BY <1>2, <1>3, ConcatProperties
  <2> HIDE DEF r
  <2> QED BY <2>1, <1>1, <1>2, <1>3
<1> HIDE DEF r
<1>6. \A k \in 1 .. Len(s) - 1 : r[k] = IF k < i THEN s[k] ELSE s[k + 1]
  <2> SUFFICES ASSUME NEW k \in 1 .. Len(s) - 1
               PROVE  r[k] = IF k < i THEN s[k] ELSE s[k + 1]
    OBVIOUS
  <2>1. CASE k < i BY <2>1, <1>1, <1>2, <1>5
  <2>2. CASE ~(k < i)
    <3>1. r[k] = b[k - (i - 1)] BY <2>2, <1>1, <1>2, <1>5
    <3>2. k - (i - 1) \in 1 .. Len(s) - i BY <2>2, <1>1
    <3>3. b[k - (i - 1)] = s[i + (k - (i - 1))] BY <3>2, <1>3
    <3>4. i + (k - (i - 1)) = k + 1 BY <1>1
    <3> QED BY <3>1, <3>3, <3>4, <2>2
  <2> QED BY <2>1, <2>2
<1> DEFINE a2 == SubSeq(r, 1, i - 1)
           b2 == SubSeq(r, i, Len(r))
           c == a2 \o <<s[i]>>
           z == c \o b2
<1>7. a2 \in Seq(Nodes) /\ Len(a2) = i - 1 /\ \A k \in 1 .. i - 1 : a2[k] = r[k]
  BY <1>1, <1>5, SubSeqProperties
<1>8. /\ b2 \in Seq(Nodes) /\ Len(b2) = Len(s) - i
      /\ \A k \in 1 .. Len(s) - i : b2[k] = r[i + k - 1]
  BY <1>1, <1>5, SubSeqProperties
<1>9. InsertAt(r, i, s[i]) = z BY DEF InsertAt
<1> HIDE DEF a2, b2
<1>10. /\ c \in Seq(Nodes) /\ Len(c) = i
       /\ \A k \in 1 .. i : c[k] = IF k <= i - 1 THEN a2[k] ELSE s[i]
  <2>1. <<s[i]>> \in Seq(Nodes) /\ Len(<<s[i]>>) = 1 /\ <<s[i]>>[1] = s[i] BY <1>1
  <2>2. /\ c \in Seq(Nodes) /\ Len(c) = Len(a2) + 1
        /\ \A k \in 1 .. Len(c) : c[k] = IF k <= Len(a2) THEN a2[k] ELSE <<s[i]>>[k - Len(a2)]
    BY <2>1, <1>7, ConcatProperties
  <2> HIDE DEF c
  <2>3. \A k \in 1 .. i : ~(k <= i - 1) => k - Len(a2) = 1 BY <1>1, <1>7
  <2> QED BY <2>1, <2>2, <2>3, <1>1, <1>7
<1> HIDE DEF c
<1>11. /\ z \in Seq(Nodes) /\ Len(z) = Len(s)
       /\ \A k \in 1 .. Len(z) : z[k] = IF k <= i THEN c[k] ELSE b2[k - i]
  <2>1. /\ z \in Seq(Nodes) /\ Len(z) = Len(c) + Len(b2)
        /\ \A k \in 1 .. Len(c) + Len(b2) : z[k] = IF k <= Len(c) THEN c[k] ELSE b2[k - Len(c)]
    BY <1>8, <1>10, ConcatProperties
  <2> HIDE DEF z
  <2> QED BY <2>1, <1>1, <1>8, <1>10
<1> HIDE DEF z
<1>12. ASSUME NEW k \in 1 .. Len(s) PROVE z[k] = s[k]
  <2>1. CASE k < i
    <3>1. k \in 1 .. i - 1 /\ k \in 1 .. Len(s) - 1 /\ k <= i BY <2>1, <1>1
    <3>2. z[k] = c[k] /\ c[k] = a2[k] BY <3>1, <1>1, <1>10, <1>11
    <3> QED BY <2>1, <3>1, <3>2, <1>6, <1>7
  <2>2. CASE k = i BY <2>2, <1>1, <1>10, <1>11
  <2>3. CASE k > i
    <3>1. z[k] = b2[k - i] /\ k - i \in 1 .. Len(s) - i BY <2>3, <1>1, <1>11
    <3>2. b2[k - i] = r[i + (k - i) - 1] BY <3>1, <1>8
    <3>3. i + (k - i) - 1 = k - 1 /\ k - 1 \in 1 .. Len(s) - 1 /\ ~(k - 1 < i) /\ (k - 1) + 1 = k
      BY <2>3, <1>1
    <3>4. r[k - 1] = s[(k - 1) + 1] BY <3>3, <1>6
    <3> QED BY <3>1, <3>2, <3>3, <3>4
  <2> QED BY <2>1, <2>2, <2>3, <1>1
<1>13. z = s BY <1>11, <1>12, SeqEqual
<1> QED BY <1>4, <1>5, <1>6, <1>9, <1>13

\* It lists the others.
LEMMA ListedWithout ==
  ASSUME RBTreeAssumption, NEW M \in SUBSET Nodes, NEW n \in Nodes, n \notin M,
         NEW s, Lists(s, M \cup {n}), NEW i \in 1 .. Len(s), s[i] = n
  PROVE  Lists(RemoveAt(s, i), M)
<1> DEFINE r == RemoveAt(s, i)
           at(k) == IF k < i THEN k ELSE k + 1
<1>1. /\ Len(s) \in Nat
      /\ \A k \in 1 .. Len(s) : s[k] \in Nodes /\ s[k] \in M \cup {n} /\ Key[s[k]] \in Int
      /\ \A k, j \in 1 .. Len(s) : k < j => Key[s[k]] < Key[s[j]]
      /\ \A k, j \in 1 .. Len(s) : s[k] = s[j] => k = j
  BY Places
<1>2. s \in Seq(Nodes) BY DEF Lists
<1>3. /\ r \in Seq(Nodes) /\ Len(r) = Len(s) - 1
      /\ \A k \in 1 .. Len(s) - 1 : r[k] = s[at(k)]
  <2>1. /\ r \in Seq(Nodes) /\ Len(r) = Len(s) - 1
        /\ \A k \in 1 .. Len(s) - 1 : r[k] = IF k < i THEN s[k] ELSE s[k + 1]
    BY <1>2, RemoveAtIs
  <2> HIDE DEF r
  <2> QED BY <2>1
<1> HIDE DEF r
<1>4. \A k \in 1 .. Len(r) : at(k) \in 1 .. Len(s) /\ at(k) # i BY <1>1, <1>3
<1>5. \A k, j \in 1 .. Len(r) : k < j => at(k) < at(j) BY <1>1, <1>3
<1>6. \A j \in 1 .. Len(s) : j # i => \E k \in 1 .. Len(r) : at(k) = j
  <2> SUFFICES ASSUME NEW j \in 1 .. Len(s), j # i PROVE \E k \in 1 .. Len(r) : at(k) = j
    OBVIOUS
  <2>1. CASE j < i
    <3>1. j \in 1 .. Len(r) /\ at(j) = j BY <2>1, <1>1, <1>3
    <3> QED BY <3>1
  <2>2. CASE j > i
    <3>1. j - 1 \in 1 .. Len(r) /\ at(j - 1) = j BY <2>2, <1>1, <1>3
    <3> QED BY <3>1
  <2> QED BY <2>1, <2>2, <1>1
<1> HIDE DEF at
<1>7. DOMAIN r = 1 .. Len(r) BY <1>3
<1>8. Set!Sorted(r)
  <2> SUFFICES ASSUME NEW k \in 1 .. Len(r), NEW j \in 1 .. Len(r), k < j
               PROVE  Key[r[k]] < Key[r[j]]
    BY <1>7 DEF Set!Sorted
  <2>1. at(k) \in 1 .. Len(s) /\ at(j) \in 1 .. Len(s) /\ at(k) < at(j) BY <1>4, <1>5
  <2>2. r[k] = s[at(k)] /\ r[j] = s[at(j)] BY <1>3
  <2> QED BY <2>1, <2>2, <1>1
<1>9. ASSUME NEW m \in Nodes PROVE m \in M <=> \E k \in 1 .. Len(r) : r[k] = m
  <2>1. ASSUME m \in M PROVE \E k \in 1 .. Len(r) : r[k] = m
    <3>1. PICK j \in 1 .. Len(s) : s[j] = m BY <2>1 DEF Lists
    <3>2. j # i BY <3>1, <2>1
    <3>3. PICK k \in 1 .. Len(r) : at(k) = j BY <3>2, <1>6
    <3> QED BY <3>1, <3>3, <1>3
  <2>2. ASSUME NEW k \in 1 .. Len(r), r[k] = m PROVE m \in M
    <3>1. at(k) \in 1 .. Len(s) /\ at(k) # i /\ s[at(k)] = m BY <2>2, <1>3, <1>4
    <3>2. m # n BY <3>1, <1>1
    <3> QED BY <3>1, <3>2, <1>1
  <2> QED BY <2>1, <2>2
<1>10. Lists(r, M) BY <1>3, <1>8, <1>9 DEF Lists
<1> QED BY <1>10 DEF r

\* A node gives its place to one of the same key.
LEMMA ListedExchange ==
  ASSUME RBTreeAssumption, NEW M \in SUBSET Nodes, NEW a \in M, NEW b \in Nodes, b \notin M,
         Key[a] = Key[b], NEW s, Lists(s, M)
  PROVE  Lists(ReplaceAll(s, a, b), (M \ {a}) \cup {b})
<1> DEFINE r == ReplaceAll(s, a, b)
           N == (M \ {a}) \cup {b}
<1>1. /\ Len(s) \in Nat
      /\ \A i \in 1 .. Len(s) : s[i] \in Nodes /\ s[i] \in M /\ Key[s[i]] \in Int
      /\ \A i, j \in 1 .. Len(s) : i < j => Key[s[i]] < Key[s[j]]
  BY Places
<1>2. r = [i \in 1 .. Len(s) |-> IF s[i] = a THEN b ELSE s[i]] BY DEF ReplaceAll
<1> HIDE DEF r
<1>3. \A i \in 1 .. Len(s) : r[i] \in Nodes /\ r[i] = IF s[i] = a THEN b ELSE s[i]
  BY <1>1, <1>2
<1>4. r \in Seq(Nodes) /\ Len(r) = Len(s) /\ DOMAIN r = 1 .. Len(s)
  <2>1. r \in [1 .. Len(s) -> Nodes] BY <1>2, <1>3
  <2> QED BY <2>1, <1>1
<1>5. Set!Sorted(r)
  <2> SUFFICES ASSUME NEW i \in 1 .. Len(s), NEW j \in 1 .. Len(s), i < j
               PROVE  Key[r[i]] < Key[r[j]]
    BY <1>4 DEF Set!Sorted
  <2>1. Key[r[i]] = Key[s[i]] /\ Key[r[j]] = Key[s[j]] BY <1>3
  <2> QED BY <2>1, <1>1
<1>6. ASSUME NEW m \in Nodes PROVE m \in N <=> \E i \in 1 .. Len(r) : r[i] = m
  <2>1. ASSUME m = b PROVE \E i \in 1 .. Len(r) : r[i] = m
    <3>1. PICK i \in 1 .. Len(s) : s[i] = a BY DEF Lists
    <3> QED BY <3>1, <2>1, <1>3, <1>4
  <2>2. ASSUME m \in M \ {a} PROVE \E i \in 1 .. Len(r) : r[i] = m
    <3>1. PICK i \in 1 .. Len(s) : s[i] = m BY <2>2 DEF Lists
    <3> QED BY <3>1, <2>2, <1>3, <1>4
  <2>3. ASSUME NEW i \in 1 .. Len(r), r[i] = m PROVE m \in N
    <3>1. m = IF s[i] = a THEN b ELSE s[i] BY <2>3, <1>3, <1>4
    <3>2. s[i] \in M BY <1>1, <1>4
    <3> QED BY <3>1, <3>2
  <2> QED BY <2>1, <2>2, <2>3
<1>7. Lists(r, N) BY <1>4, <1>5, <1>6 DEF Lists
<1> QED BY <1>7 DEF r, N

\* A node between those of two lists.
LEMMA ListedBetween ==
  ASSUME RBTreeAssumption, NEW n \in Nodes, NEW K \in SUBSET Nodes, NEW L \in SUBSET Nodes,
         \A m \in K : Key[m] < Key[n], \A m \in L : Key[n] < Key[m],
         NEW a, Lists(a, K), NEW b, Lists(b, L)
  PROVE  Lists(a \o <<n>> \o b, K \cup {n} \cup L)
<1> DEFINE c == a \o <<n>>
           s == c \o b
           p == Len(a) + 1
<1>1. /\ Len(a) \in Nat /\ Len(b) \in Nat /\ a \in Seq(Nodes) /\ b \in Seq(Nodes)
      /\ \A i \in 1 .. Len(a) : a[i] \in Nodes /\ a[i] \in K /\ Key[a[i]] \in Int
      /\ \A i \in 1 .. Len(b) : b[i] \in Nodes /\ b[i] \in L /\ Key[b[i]] \in Int
      /\ \A i, j \in 1 .. Len(a) : i < j => Key[a[i]] < Key[a[j]]
      /\ \A i, j \in 1 .. Len(b) : i < j => Key[b[i]] < Key[b[j]]
  BY Places DEF Lists
<1>2. /\ c \in Seq(Nodes) /\ Len(c) = p
      /\ \A i \in 1 .. Len(a) : c[i] = a[i]
      /\ c[p] = n
  <2>1. <<n>> \in Seq(Nodes) /\ Len(<<n>>) = 1 /\ <<n>>[1] = n OBVIOUS
  <2>2. /\ c \in Seq(Nodes) /\ Len(c) = Len(a) + 1
        /\ \A i \in 1 .. Len(a) + 1 : c[i] = IF i <= Len(a) THEN a[i] ELSE <<n>>[i - Len(a)]
    BY <2>1, <1>1, ConcatProperties
  <2> HIDE DEF c
  <2>3. p - Len(a) = 1 /\ ~(p <= Len(a)) /\ p \in 1 .. Len(a) + 1 BY <1>1
  <2>4. c[p] = n BY <2>1, <2>2, <2>3
  <2>5. \A i \in 1 .. Len(a) : c[i] = a[i] BY <2>2, <1>1
  <2> QED BY <2>2, <2>4, <2>5
<1> HIDE DEF c
<1>3. /\ s \in Seq(Nodes) /\ Len(s) = p + Len(b)
      /\ \A i \in 1 .. p + Len(b) : s[i] = IF i <= p THEN c[i] ELSE b[i - p]
  <2>1. /\ s \in Seq(Nodes) /\ Len(s) = Len(c) + Len(b)
        /\ \A i \in 1 .. Len(c) + Len(b) : s[i] = IF i <= Len(c) THEN c[i] ELSE b[i - Len(c)]
    BY <1>1, <1>2, ConcatProperties
  <2> HIDE DEF s, p
  <2> QED BY <2>1, <1>2
<1> HIDE DEF s
<1>4. /\ \A i \in 1 .. Len(a) : i \in 1 .. Len(s) /\ s[i] = a[i]
      /\ p \in 1 .. Len(s) /\ s[p] = n
      /\ \A i \in 1 .. Len(b) : p + i \in 1 .. Len(s) /\ s[p + i] = b[i]
  <2>1. ASSUME NEW i \in 1 .. Len(a) PROVE i \in 1 .. Len(s) /\ s[i] = a[i]
    <3>1. i \in 1 .. p + Len(b) /\ i <= p BY <1>1
    <3> QED BY <3>1, <1>2, <1>3
  <2>2. p \in 1 .. Len(s) /\ s[p] = n
    <3>1. p \in 1 .. p + Len(b) /\ p <= p BY <1>1
    <3> QED BY <3>1, <1>2, <1>3
  <2>3. ASSUME NEW i \in 1 .. Len(b) PROVE p + i \in 1 .. Len(s) /\ s[p + i] = b[i]
    <3>1. p + i \in 1 .. p + Len(b) /\ ~(p + i <= p) /\ (p + i) - p = i BY <1>1
    <3> QED BY <3>1, <1>3
  <2> QED BY <2>1, <2>2, <2>3
<1>5. p \in Nat /\ p = Len(a) + 1 BY <1>1
<1> HIDE DEF p
<1>6. ASSUME NEW i \in 1 .. Len(s)
      PROVE  \/ i \in 1 .. Len(a) \/ i = p \/ \E k \in 1 .. Len(b) : i = p + k
  <2>1. CASE i > p
    <3>1. i - p \in 1 .. Len(b) /\ i = p + (i - p) BY <2>1, <1>1, <1>3, <1>5
    <3> QED BY <3>1
  <2> QED BY <2>1, <1>1, <1>5
<1>7. Set!Sorted(s)
  <2> SUFFICES ASSUME NEW i \in 1 .. Len(s), NEW j \in 1 .. Len(s), i < j
               PROVE  Key[s[i]] < Key[s[j]]
    BY <1>3 DEF Set!Sorted
  <2>1. Key[n] \in Int BY DEF RBTreeAssumption
  <2>2. CASE j \in 1 .. Len(a)
    <3>1. i \in 1 .. Len(a) BY <2>2, <1>1
    <3>2. s[i] = a[i] /\ s[j] = a[j] BY <2>2, <3>1, <1>4
    <3> QED BY <2>2, <3>1, <3>2, <1>1
  <2>3. CASE j = p
    <3>1. i \in 1 .. Len(a) BY <2>3, <1>1, <1>5
    <3> QED BY <2>3, <3>1, <1>1, <1>4
  <2>4. ASSUME NEW k \in 1 .. Len(b), j = p + k PROVE Key[s[i]] < Key[s[j]]
    <3>1. s[j] = b[k] /\ b[k] \in L /\ Key[b[k]] \in Int BY <2>4, <1>1, <1>4
    <3>2. CASE i \in 1 .. Len(a)
      <4>1. s[i] = a[i] /\ a[i] \in K /\ Key[a[i]] \in Int BY <3>2, <1>1, <1>4
      <4>2. Key[a[i]] < Key[n] /\ Key[n] < Key[b[k]] BY <3>1, <4>1
      <4> QED BY <2>1, <3>1, <4>1, <4>2
    <3>3. CASE i = p BY <3>1, <3>3, <1>4
    <3>4. ASSUME NEW l \in 1 .. Len(b), i = p + l PROVE Key[s[i]] < Key[s[j]]
      <4>1. l < k BY <2>4, <3>4, <1>1, <1>5
      <4> QED BY <3>1, <3>4, <4>1, <1>1, <1>4
    <3> QED BY <3>2, <3>3, <3>4, <1>6
  <2> QED BY <2>2, <2>3, <2>4, <1>6
<1>8. ASSUME NEW m \in Nodes
      PROVE  m \in K \cup {n} \cup L <=> \E i \in 1 .. Len(s) : s[i] = m
  <2>1. ASSUME m \in K PROVE \E i \in 1 .. Len(s) : s[i] = m
    <3>1. PICK i \in 1 .. Len(a) : a[i] = m BY <2>1 DEF Lists
    <3> QED BY <3>1, <1>4
  <2>2. ASSUME m \in L PROVE \E i \in 1 .. Len(s) : s[i] = m
    <3>1. PICK i \in 1 .. Len(b) : b[i] = m BY <2>2 DEF Lists
    <3>2. p + i \in 1 .. Len(s) /\ s[p + i] = m BY <3>1, <1>4
    <3> QED BY <3>2
  <2>3. m = n => \E i \in 1 .. Len(s) : s[i] = m BY <1>4
  <2>4. ASSUME NEW i \in 1 .. Len(s), s[i] = m PROVE m \in K \cup {n} \cup L
    BY <2>4, <1>1, <1>4, <1>6
  <2> QED BY <2>1, <2>2, <2>3, <2>4
<1>9. Lists(s, K \cup {n} \cup L) BY <1>3, <1>7, <1>8 DEF Lists
<1> QED BY <1>9 DEF s, c

\* The list of a subtree, from those of its halves.
Around(u, f, n) ==
  (IF u.left[n] = NULL THEN <<>> ELSE f[u.left[n]]) \o <<n>>
  \o (IF u.right[n] = NULL THEN <<>> ELSE f[u.right[n]])

\* The recursive definition of InOrder has a value: it is found for larger and larger
\* sets of nodes that hold the children of theirs.
LEMMA InOrderExists ==
  ASSUME RBTreeAssumption, FiniteNodes, NEW u, NEW B, Shape(u, B)
  PROVE  \E f : f = [n \in Nodes |-> Around(u, f, n)]
<1> DEFINE OnSet(D, f) == \A x \in D : /\ \A d \in Sides : u[d][x] # NULL => u[d][x] \in D
                                       /\ f[x] = Around(u, f, x)
           G == {D \in SUBSET Nodes : \E f \in [D -> Seq(Nodes)] : OnSet(D, f)}
<1>1. {} \in G
  <2>1. [x \in {} |-> <<>>] \in [{} -> Seq(Nodes)] OBVIOUS
  <2>2. OnSet({}, [x \in {} |-> <<>>]) OBVIOUS
  <2> QED BY <2>1, <2>2
<1>2. PICK D \in G : \A E \in G : D \subseteq E => E = D
  <2>1. G \in SUBSET SUBSET Nodes /\ G # {} BY <1>1
  <2> HIDE DEF G
  <2> QED BY <2>1, GreatestSet
<1>3. PICK f \in [D -> Seq(Nodes)] : OnSet(D, f) OBVIOUS
<1>4. /\ u \in Trees /\ u.left = u["left"] /\ u.right = u["right"] /\ NULL \notin Nodes
      /\ \A d \in Sides, x \in Nodes : u[d][x] # NULL => u[d][x] \in Nodes
      /\ "left" \in Sides /\ "right" \in Sides
  BY Fields DEF Shape, RBTreeAssumption, N0, Sides
<1>5. D = Nodes
  <2> SUFFICES ASSUME D # Nodes PROVE FALSE OBVIOUS
  <2>1. PICK n \in Nodes \ D : \A d \in Sides : u[d][n] \notin Nodes \ D
    <3>1. Nodes \ D # {} /\ Nodes \ D \in SUBSET Nodes BY <1>2
    <3> QED BY <3>1, NoRing
  <2>2. \A d \in Sides : u[d][n] # NULL => u[d][n] \in D BY <2>1, <1>4
  <2> DEFINE E == D \cup {n}
             a == Around(u, f, n)
             g == [x \in E |-> IF x = n THEN a ELSE f[x]]
  <2>3. a \in Seq(Nodes)
    <3>1. PICK p : p = IF u.left[n] = NULL THEN <<>> ELSE f[u.left[n]] OBVIOUS
    <3>2. PICK q : q = IF u.right[n] = NULL THEN <<>> ELSE f[u.right[n]] OBVIOUS
    <3>3. p \in Seq(Nodes) /\ q \in Seq(Nodes) BY <3>1, <3>2, <2>2, <1>3, <1>4
    <3>4. a = p \o <<n>> \o q BY <3>1, <3>2 DEF Around
    <3>5. <<n>> \in Seq(Nodes) OBVIOUS
    <3> HIDE DEF a
    <3> QED BY <3>3, <3>4, <3>5, ConcatProperties
  <2>4. g \in [E -> Seq(Nodes)] BY <2>3, <1>3
  <2>5. \A x \in D : x # n /\ g[x] = f[x] BY <2>1
  <2>6. g[n] = a OBVIOUS
  <2> HIDE DEF g
  <2>7. \A x \in E : Around(u, g, x) = Around(u, f, x)
    <3> SUFFICES ASSUME NEW x \in E PROVE Around(u, g, x) = Around(u, f, x) OBVIOUS
    <3>1. \A d \in Sides : u[d][x] # NULL => u[d][x] \in D BY <2>2, <1>3
    <3>2. /\ u.left[x] # NULL => g[u.left[x]] = f[u.left[x]]
          /\ u.right[x] # NULL => g[u.right[x]] = f[u.right[x]]
      BY <3>1, <2>5, <1>4
    <3> QED BY <3>2 DEF Around
  <2>8. OnSet(E, g)
    <3> SUFFICES ASSUME NEW x \in E
                 PROVE  /\ \A d \in Sides : u[d][x] # NULL => u[d][x] \in E
                        /\ g[x] = Around(u, g, x)
      OBVIOUS
    <3>1. \A d \in Sides : u[d][x] # NULL => u[d][x] \in D BY <2>2, <1>3
    <3>2. g[x] = Around(u, f, x) BY <2>5, <2>6, <1>3
    <3> QED BY <3>1, <3>2, <2>7
  <2>9. E \in G
    <3>1. E \in SUBSET Nodes BY <1>2
    <3> HIDE DEF E, OnSet
    <3> QED BY <3>1, <2>4, <2>8
  <2>10. E # D /\ D \subseteq E BY <2>1
  <2> QED BY <2>9, <2>10, <1>2
<1>6. \A n \in Nodes : f[n] = Around(u, f, n) BY <1>3, <1>5
<1>7. f = [n \in Nodes |-> f[n]] BY <1>3, <1>5
<1>8. f = [n \in Nodes |-> Around(u, f, n)] BY <1>6, <1>7
<1> QED BY <1>8

\* InOrder lists the nodes of the tree.
LEMMA InOrderLists ==
  ASSUME RBTreeAssumption, FiniteNodes, NEW u, NEW B, Shape(u, B)
  PROVE  Lists(InOrder(u), {m \in Nodes : In(u, m)})
<1> DEFINE F(f) == [n \in Nodes |-> (IF u.left[n] = NULL THEN <<>> ELSE f[u.left[n]]) \o <<n>>
                                    \o (IF u.right[n] = NULL THEN <<>> ELSE f[u.right[n]])]
           g == CHOOSE f : f = F(f)
<1>1. InOrder(u) = IF u.root = NULL THEN <<>> ELSE g[u.root] BY DEF InOrder
<1>2. \E f : f = F(f) BY InOrderExists DEF Around
<1>3. g = F(g)
  <2> HIDE DEF F
  <2> QED BY <1>2
<1> HIDE DEF g
<1>4. \A n \in Nodes : g[n] = Around(u, g, n) BY <1>3 DEF Around
<1> HIDE DEF F
<1>5. /\ u \in Trees /\ u.left = u["left"] /\ u.right = u["right"] /\ NULL \notin Nodes
      /\ \A d \in Sides, x \in Nodes : u[d][x] # NULL => u[d][x] \in Nodes
      /\ "left" \in Sides /\ "right" \in Sides /\ u.root \in N0
  BY Fields DEF Shape, RBTreeAssumption, N0, Sides
<1>6. Lists(<<>>, {})
  <2>1. <<>> \in Seq(Nodes) /\ Len(<<>>) = 0 /\ DOMAIN <<>> = {} OBVIOUS
  <2> QED BY <2>1 DEF Lists, Set!Sorted
<1>7. \A n \in Nodes : Lists(g[n], B[n])
  <2> DEFINE S == {n \in Nodes : ~Lists(g[n], B[n])}
  <2> SUFFICES ASSUME S # {} PROVE FALSE OBVIOUS
  <2>1. PICK n \in S : \A d \in Sides : u[d][n] \notin S
    <3>1. S \in SUBSET Nodes OBVIOUS
    <3> HIDE DEF S
    <3> QED BY <3>1, NoRing
  <2>2. n \in Nodes /\ ~Lists(g[n], B[n]) BY <2>1
  <2> DEFINE part(d) == IF u[d][n] = NULL THEN <<>> ELSE g[u[d][n]]
             under(d) == IF u[d][n] = NULL THEN {} ELSE B[u[d][n]]
  <2>3. ASSUME NEW d \in Sides PROVE Lists(part(d), under(d))
    <3>1. u[d][n] # NULL => Lists(g[u[d][n]], B[u[d][n]]) BY <2>1, <2>2, <1>5
    <3> QED BY <3>1, <1>6
  <2>4. ASSUME NEW d \in Sides PROVE under(d) \in SUBSET Nodes /\ \A m \in under(d) : Before(d, m, n)
    BY <2>2, <1>5 DEF Shape, Subtrees
  <2>5. B[n] = under("left") \cup {n} \cup under("right")
    <3>1. \A m \in B[n] : m = n \/ \E d \in Sides : m \in under(d)
      BY <2>2 DEF Shape, Subtrees
    <3>2. n \in B[n] /\ \A d \in Sides : under(d) \subseteq B[n]
      BY <2>2 DEF Shape, Subtrees
    <3> HIDE DEF under
    <3> QED BY <3>1, <3>2 DEF Sides
  <2>6. g[n] = part("left") \o <<n>> \o part("right") BY <2>2, <1>4, <1>5 DEF Around
  <2> HIDE DEF part, under, S
  <2>7. /\ \A m \in under("left") : Key[m] < Key[n]
        /\ \A m \in under("right") : Key[n] < Key[m]
    BY <2>4, <1>5 DEF Before
  <2>8. Lists(part("left") \o <<n>> \o part("right"), under("left") \cup {n} \cup under("right"))
    BY <2>2, <2>3, <2>4, <2>7, <1>5, ListedBetween
  <2> QED BY <2>2, <2>5, <2>6, <2>8
<1> DEFINE M == {m \in Nodes : In(u, m)}
<1>8. CASE u.root = NULL
  <2>1. M = {} BY <1>8 DEF Shape, Subtrees
  <2> QED BY <2>1, <1>1, <1>6, <1>8
<1>9. CASE u.root # NULL
  <2>1. u.root \in Nodes BY <1>5, <1>9 DEF N0
  <2>2. M = B[u.root] BY <2>1, <1>9 DEF Shape, Subtrees
  <2> QED BY <2>1, <2>2, <1>1, <1>7, <1>9
<1> QED BY <1>8, <1>9

-----------------------------------------------------------------------------
(* The tree implements the ordered set                                     *)

\* The nodes of a tree.
NodesOf(u) == {m \in Nodes : In(u, m)}

\* At every moment the sequence is the nodes of the tree, in order.
LEMMA InvLists ==
  ASSUME RBTreeAssumption, FiniteNodes, IInv
  PROVE  Lists(InOrder(t), NodesOf(t))
BY InvShape, InOrderLists DEF NodesOf

\* And so it is after a step.
LEMMA InvListsNext ==
  ASSUME RBTreeAssumption, FiniteNodes, IInv'
  PROVE  Lists(InOrder(t'), NodesOf(t'))
<1>1. \E B : Shape(t', B) BY DEF IInv, TypeOK, Rest, Inserting, Erasing, HasShape
<1> QED BY <1>1, InOrderLists DEF NodesOf

\* An insertion (rbtree.h:120) adds its node at the place of its key.
LEMMA AddsOne ==
  ASSUME RBTreeAssumption, FiniteNodes, NEW u, NEW v, NEW n \in Nodes, ~In(u, n),
         \A m \in Nodes : In(v, m) <=> In(u, m) \/ m = n,
         NEW r, NEW s, Lists(r, NodesOf(u)), Lists(s, NodesOf(v))
  PROVE  /\ ~Contains(r, n)
         /\ \E i \in 1 .. Len(r) + 1 : Set!Sorted(InsertAt(r, i, n)) /\ s = InsertAt(r, i, n)
<1>1. NodesOf(v) = NodesOf(u) \cup {n} /\ n \notin NodesOf(u) /\ NodesOf(u) \in SUBSET Nodes
  BY DEF NodesOf
<1>2. PICK i \in 1 .. Len(s) : s[i] = n BY <1>1 DEF Lists
<1>3. Lists(RemoveAt(s, i), NodesOf(u)) BY <1>1, <1>2, ListedWithout
<1>4. r = RemoveAt(s, i) BY <1>3, OneOrder
<1>5. s \in Seq(Nodes) /\ r \in Seq(Nodes) /\ Len(s) \in Nat BY DEF Lists
<1>6. Len(r) = Len(s) - 1 /\ s = InsertAt(r, i, n)
  BY <1>2, <1>4, <1>5, RemoveAtIs
<1>7. i \in 1 .. Len(r) + 1 BY <1>5, <1>6
<1>8. Set!Sorted(InsertAt(r, i, n)) BY <1>6 DEF Lists
<1>9. ~Contains(r, n) BY <1>1 DEF Contains, Lists
<1> QED BY <1>6, <1>7, <1>8, <1>9

\* An erasure (rbtree.c:222) takes its node out.
LEMMA RemovesOne ==
  ASSUME RBTreeAssumption, FiniteNodes, NEW u, NEW v, NEW n \in Nodes, In(u, n),
         \A m \in Nodes : In(v, m) <=> In(u, m) /\ m # n,
         NEW r, NEW s, Lists(r, NodesOf(u)), Lists(s, NodesOf(v))
  PROVE  \E i \in 1 .. Len(r) : r[i] = n /\ s = RemoveAt(r, i)
<1>1. NodesOf(u) = NodesOf(v) \cup {n} /\ n \notin NodesOf(v) /\ NodesOf(v) \in SUBSET Nodes
  BY DEF NodesOf
<1>2. PICK i \in 1 .. Len(r) : r[i] = n BY <1>1 DEF Lists
<1>3. Lists(RemoveAt(r, i), NodesOf(v)) BY <1>1, <1>2, ListedWithout
<1>4. s = RemoveAt(r, i) BY <1>3, OneOrder
<1> QED BY <1>2, <1>4

\* A replacement (rbtree.c:372) puts its node in the other's place.
LEMMA ExchangesOne ==
  ASSUME RBTreeAssumption, FiniteNodes, NEW u, NEW v, NEW a \in Nodes, In(u, a),
         NEW b \in Nodes, ~In(u, b), Key[a] = Key[b],
         \A m \in Nodes : In(v, m) <=> (In(u, m) /\ m # a) \/ m = b,
         NEW r, NEW s, Lists(r, NodesOf(u)), Lists(s, NodesOf(v))
  PROVE  Contains(r, a) /\ ~Contains(r, b) /\ s = ReplaceAll(r, a, b)
<1>1. /\ NodesOf(v) = (NodesOf(u) \ {a}) \cup {b} /\ NodesOf(u) \in SUBSET Nodes
      /\ a \in NodesOf(u) /\ b \notin NodesOf(u)
  BY DEF NodesOf
<1>2. Lists(ReplaceAll(r, a, b), NodesOf(v)) BY <1>1, ListedExchange
<1>3. s = ReplaceAll(r, a, b) BY <1>2, OneOrder
<1>4. Contains(r, a) /\ ~Contains(r, b) BY <1>1 DEF Contains, Lists
<1> QED BY <1>3, <1>4

\* A step of a loop changes nothing for the user.
LEMMA LoopStutters ==
  ASSUME RBTreeAssumption, FiniteNodes, NEW u, NEW v, SameNodes(u, v),
         NEW r, NEW s, Lists(r, NodesOf(u)), Lists(s, NodesOf(v))
  PROVE  s = r
<1>1. NodesOf(u) = NodesOf(v) BY DEF NodesOf, SameNodes
<1> QED BY <1>1, OneOrder

\* The operators of SequencesExt, as the ordered set and as the tree names them.
LEMMA SetOperators ==
  /\ \A s, n : Set!Contains(s, n) <=> Contains(s, n)
  /\ \A s, i, n : Set!InsertAt(s, i, n) = InsertAt(s, i, n)
  /\ \A s, i : Set!RemoveAt(s, i) = RemoveAt(s, i)
  /\ \A s, a, b : Set!ReplaceAll(s, a, b) = ReplaceAll(s, a, b)
<1>1. \A s, n : Set!Contains(s, n) <=> Contains(s, n) BY DEF Set!Contains, Contains
<1>2. \A s, i, n : Set!InsertAt(s, i, n) = InsertAt(s, i, n) BY DEF Set!InsertAt, InsertAt
<1>3. \A s, i : Set!RemoveAt(s, i) = RemoveAt(s, i) BY DEF Set!RemoveAt, RemoveAt
<1>4. \A s, a, b : Set!ReplaceAll(s, a, b) = ReplaceAll(s, a, b)
  BY DEF Set!ReplaceAll, ReplaceAll
<1> QED BY <1>1, <1>2, <1>3, <1>4

\* Every step of the tree is one of the ordered set, or none.
LEMMA StepOfSet ==
  ASSUME RBTreeAssumption, FiniteNodes, IInv, [Next]_vars
  PROVE  [Set!Next]_(InOrder(t))
<1>1. IInv' BY NextInv
<1>2. PICK r : r = InOrder(t) OBVIOUS
<1>3. PICK s : s = InOrder(t') OBVIOUS
<1>4. Lists(r, NodesOf(t)) /\ Lists(s, NodesOf(t'))
  BY <1>1, <1>2, <1>3, InvLists, InvListsNext
<1>5. InOrder(t)' = s BY <1>3
<1>6. CASE UNCHANGED vars
  <2>1. SameNodes(t, t') BY <1>6 DEF vars, SameNodes
  <2> QED BY <2>1, <1>2, <1>4, <1>5, LoopStutters
<1>7. ASSUME NEW n \in Nodes, Insert(n) PROVE Set!Next
  <2>1. ~In(t, n) /\ \A m \in Nodes : In(t', m) <=> In(t, m) \/ m = n BY <1>7, InsertStep
  <2>2. /\ ~Contains(r, n)
        /\ \E i \in 1 .. Len(r) + 1 : Set!Sorted(InsertAt(r, i, n)) /\ s = InsertAt(r, i, n)
    BY <2>1, <1>4, AddsOne
  <2>3. Set!Add(n) BY <2>2, <1>2, <1>5, SetOperators DEF Set!Add
  <2> QED BY <2>3 DEF Set!Next
<1>8. ASSUME NEW n \in Nodes, EraseOuter(n) \/ EraseInner(n) PROVE Set!Next
  <2>1. In(t, n) /\ \A m \in Nodes : In(t', m) <=> In(t, m) /\ m # n
    BY <1>8, EraseOuterStep, EraseInnerStep
  <2>2. \E i \in 1 .. Len(r) : r[i] = n /\ s = RemoveAt(r, i) BY <2>1, <1>4, RemovesOne
  <2>3. Set!Remove1(n) BY <2>2, <1>2, <1>5, SetOperators DEF Set!Remove1
  <2> QED BY <2>3 DEF Set!Next
<1>9. ASSUME NEW victim \in Nodes, NEW new \in Nodes, Replace(victim, new) PROVE Set!Next
  <2>1. /\ In(t, victim) /\ ~In(t, new) /\ Key[victim] = Key[new]
        /\ \A m \in Nodes : In(t', m) <=> (In(t, m) /\ m # victim) \/ m = new
    BY <1>9, ReplaceStep
  <2>2. Contains(r, victim) /\ ~Contains(r, new) /\ s = ReplaceAll(r, victim, new)
    BY <2>1, <1>4, ExchangesOne
  <2>3. Set!Exchange(victim, new) BY <2>1, <2>2, <1>2, <1>5, SetOperators DEF Set!Exchange
  <2> QED BY <2>3 DEF Set!Next
<1>10. CASE Loop
  <2>1. SameNodes(t, t')
    BY <1>10, InsertLoopStep, EraseRecolorStep, EraseRotateStep, EraseDoneStep DEF Loop
  <2> QED BY <2>1, <1>2, <1>4, <1>5, LoopStutters
<1> QED BY <1>6, <1>7, <1>8, <1>9, <1>10 DEF Next

\* The tree implements the ordered set, for every finite set of nodes and every keys:
\* each insertion, erasure and replacement does at once what it says, and the steps of
\* rb_insert_color and __rb_erase_color change nothing that the user sees.
THEOREM TreeIsOrderedSet == Spec => IsOrderedSet
<1>1. Init => Set!Init BY DEF Init, Empty, Set!Init, InOrder
<1>2. IInv /\ [Next]_vars => [Set!Next]_(InOrder(t))
  BY StepOfSet, RBTreeAssumption, FiniteNodes
<1> QED BY <1>1, <1>2, InvHolds, PTL DEF Spec, IsOrderedSet, Set!Spec

=============================================================================
