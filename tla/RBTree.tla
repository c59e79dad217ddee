------------------------------- MODULE RBTree -------------------------------
(***************************************************************************)
(* The red-black trees of rbtree/rbtree.c and rbtree/rbtree.h, one step    *)
(* per iteration of the loops of rb_insert_color and __rb_erase_color.     *)
(*                                                                         *)
(* The two halves of these loops, and the two rotations, are mirror images *)
(* of each other: they are written once, for a side d.  The fields of a    *)
(* node that is in no tree are not kept (rb_link_node sets all of them).   *)
(***************************************************************************)
EXTENDS Integers, FiniteSets

CONSTANTS Nodes, Key, NULL

RBTreeAssumption == NULL \notin Nodes /\ Key \in [Nodes -> Int]
ASSUME RBTreeAssumption

\* A tree has as many nodes as its user has memory for.
FiniteNodes == IsFiniteSet(Nodes)
ASSUME FiniteNodes

VARIABLES
  t,         \* the root and the fields of the nodes
  pc,        \* "idle", or the function whose loop runs: "insert" or "erase"
  node,      \* its local of this name
  parent     \* the local parent of __rb_erase_color

vars == <<t, pc, node, parent>>

Sides == {"left", "right"}
Opp(d) == IF d = "left" THEN "right" ELSE "left"

InTree(n) == n = t.root \/ t.parent[n] # NULL

\* No node counts as a black one.
IsRed(u, n) == n # NULL /\ u.color[n] = "red"
IsBlack(u, n) == ~IsRed(u, n)

SetColor(u, n, c) == [u EXCEPT !.color[n] = c]

\* rb_set_parent, where the code guards it against NULL or knows better.
SetParent(u, n, p) == IF n = NULL THEN u ELSE [u EXCEPT !.parent[n] = p]

\* The pointer of p, or of the root, that leads to old leads to new.
Relink(u, p, old, new) ==
  IF p = NULL THEN [u EXCEPT !.root = new]
  ELSE [u EXCEPT ![IF u.left[p] = old THEN "left" ELSE "right"][p] = new]

\* Mutant of Rotate: the subtree that changes sides keeps its parent.
RotateForget(u, n, d) ==
  LET up == u[Opp(d)][n]
      v == [u EXCEPT ![Opp(d)][n] = u[d][up], ![d][up] = n]
  IN  SetParent(Relink(SetParent(v, up, u.parent[n]), u.parent[n], n, up), n, up)

\* __rb_rotate_left for d = "left", __rb_rotate_right for d = "right": n goes
\* down on side d and its other child takes its place.
Rotate(u, n, d) ==
  LET up == u[Opp(d)][n]
      moved == u[d][up]
      v == SetParent([u EXCEPT ![Opp(d)][n] = moved, ![d][up] = n], moved, n)
  IN  SetParent(Relink(SetParent(v, up, u.parent[n]), u.parent[n], n, up), n, up)

Empty == [root |-> NULL, left |-> [n \in Nodes |-> NULL], right |-> [n \in Nodes |-> NULL],
          parent |-> [n \in Nodes |-> NULL], color |-> [n \in Nodes |-> "red"]]

Init == t = Empty /\ pc = "idle" /\ node = NULL /\ parent = NULL

-----------------------------------------------------------------------------
(* Insertion                                                               *)

\* rb_link_node: a red leaf (RB_RED is 0) on side d of p.
LinkNode(u, n, p, d) ==
  LET v == [u EXCEPT !.parent[n] = p, !.color[n] = "red", !.left[n] = NULL, !.right[n] = NULL]
  IN  IF p = NULL THEN [v EXCEPT !.root = n] ELSE [v EXCEPT ![d][p] = n]

\* The path of the search for a key, from the root to where it stops.
SearchStop(u, k) ==
  LET go[n \in Nodes] ==
        LET d == IF k < Key[n] THEN "left" ELSE "right"
        IN  IF Key[n] = k \/ u[d][n] = NULL THEN n ELSE go[u[d][n]]
  IN  IF u.root = NULL THEN NULL ELSE go[u.root]

\* The user's part of an insertion, as rbtree.h shows it: search for the place
\* of the node, give up if its key is there, link it and call rb_insert_color.
Insert(n) ==
  LET p == SearchStop(t, Key[n])
  IN  /\ pc = "idle" /\ ~InTree(n)
      /\ p # NULL => Key[p] # Key[n]
      /\ t' = LinkNode(t, n, p, IF p # NULL /\ Key[n] > Key[p] THEN "right" ELSE "left")
      /\ pc' = "insert" /\ node' = n
      /\ UNCHANGED parent

\* The loop condition of rb_insert_color, and the nodes it is about.
TooRed == IsRed(t, t.parent[node])
Grand == t.parent[t.parent[node]]
SideOf(u, n) == IF n = u.left[u.parent[n]] THEN "left" ELSE "right"

\* The uncle is red: the colours are changed and the loop moves up.
InsertRecolor ==
  /\ pc = "insert" /\ TooRed
  /\ LET uncle == t[Opp(SideOf(t, t.parent[node]))][Grand]
     IN  /\ IsRed(t, uncle)
         /\ t' = [t EXCEPT !.color[uncle] = "black", !.color[t.parent[node]] = "black",
                           !.color[Grand] = "red"]
  /\ node' = Grand
  /\ UNCHANGED <<pc, parent>>

\* The uncle is black: one rotation if the node is on the inner side, which
\* exchanges it with its parent, and another at the grandparent.
InsertRotate ==
  /\ pc = "insert" /\ TooRed
  /\ LET p == t.parent[node]
         d == SideOf(t, p)
         inner == t[Opp(d)][p] = node
         u == IF inner THEN Rotate(t, p, d) ELSE t
         top == IF inner THEN node ELSE p
     IN  /\ IsBlack(t, t[Opp(d)][Grand])
         /\ t' = Rotate([u EXCEPT !.color[top] = "black", !.color[Grand] = "red"], Grand, Opp(d))
         /\ node' = IF inner THEN p ELSE node
  /\ UNCHANGED <<pc, parent>>

InsertDone ==
  /\ pc = "insert" /\ ~TooRed
  /\ t' = SetColor(t, t.root, "black")
  /\ pc' = "idle" /\ node' = NULL
  /\ UNCHANGED parent

-----------------------------------------------------------------------------
(* Deletion                                                                *)

\* Mutant of Leftmost: the child itself, which may have smaller nodes below it.
ChildItself(u, n) == n

\* The successor of a node with two children: leftmost in its right subtree.
Leftmost(u, n) ==
  LET go[x \in Nodes] == IF u.left[x] = NULL THEN x ELSE go[u.left[x]]
  IN  go[n]

\* A node that left the tree has no fields.
Forget(u, n) ==
  [u EXCEPT !.left[n] = NULL, !.right[n] = NULL, !.parent[n] = NULL, !.color[n] = "red"]

\* rb_erase of a node with at most one child.
CutOut(u, n, child) ==
  Forget(Relink(SetParent(u, child, u.parent[n]), u.parent[n], n, child), n)

\* rb_erase of a node with two children: y, its successor, takes its place.
PutInPlace(u, n, y) ==
  LET u1 == Relink(u, u.parent[n], n, y)
      u2 == IF u.parent[y] = n THEN u1
            ELSE SetParent([SetParent(u1, u.right[y], u.parent[y])
                              EXCEPT !.left[u.parent[y]] = u.right[y], !.right[y] = u.right[n]],
                           u.right[n], y)
      u3 == [u2 EXCEPT !.parent[y] = u.parent[n], !.color[y] = u.color[n], !.left[y] = u.left[n]]
  IN  Forget(SetParent(u3, u.left[n], y), n)

\* The rest of rb_erase: the loop runs only if a black node was cut out.
Rebalance(c, child, p) ==
  IF c = "black"
  THEN pc' = "erase" /\ node' = child /\ parent' = p
  ELSE UNCHANGED <<pc, node, parent>>

EraseOuter(n) ==
  /\ pc = "idle" /\ InTree(n)
  /\ t.left[n] = NULL \/ t.right[n] = NULL
  /\ LET child == IF t.left[n] = NULL THEN t.right[n] ELSE t.left[n]
     IN  /\ t' = CutOut(t, n, child)
         /\ Rebalance(t.color[n], child, t.parent[n])

EraseInner(n) ==
  /\ pc = "idle" /\ InTree(n)
  /\ t.left[n] # NULL /\ t.right[n] # NULL
  /\ LET y == Leftmost(t, t.right[n])
     IN  /\ t' = PutInPlace(t, n, y)
         /\ Rebalance(t.color[y], t.right[y], IF t.parent[y] = n THEN y ELSE t.parent[y])

\* The loop condition of __rb_erase_color, and the side that lacks a black.
TooBlack == IsBlack(t, node) /\ node # t.root
Short == IF t.left[parent] = node THEN "left" ELSE "right"

\* The sibling is made black if it is red.
BlackSibling(u, p, d) ==
  LET other == u[Opp(d)][p]
  IN  IF IsRed(u, other)
      THEN Rotate([u EXCEPT !.color[other] = "black", !.color[p] = "red"], p, d)
      ELSE u

\* The far child of the sibling is made red if it is black.
RedFar(u, p, d) ==
  LET other == u[Opp(d)][p]
  IN  IF IsBlack(u, u[Opp(d)][other])
      THEN Rotate([u EXCEPT !.color[u[d][other]] = "black", !.color[other] = "red"], other, Opp(d))
      ELSE u

\* Mutant of EraseRotate: the sibling's near child is not turned out first.
EraseRotateOnce ==
  /\ pc = "erase" /\ TooBlack
  /\ LET d == Short
         u == BlackSibling(t, parent, d)
         s == u[Opp(d)][parent]
         w == [u EXCEPT !.color[s] = u.color[parent], !.color[parent] = "black"]
     IN  /\ IsRed(u, u.left[s]) \/ IsRed(u, u.right[s])
         /\ t' = Rotate(IF u[Opp(d)][s] = NULL THEN w ELSE SetColor(w, u[Opp(d)][s], "black"),
                        parent, d)
         /\ node' = t'.root
  /\ UNCHANGED <<pc, parent>>

\* The sibling has a red child: rotations restore the black count, and the
\* loop is left with node at the root.
EraseRotate ==
  /\ pc = "erase" /\ TooBlack
  /\ LET d == Short
         u == BlackSibling(t, parent, d)
         s == u[Opp(d)][parent]
         v == RedFar(u, parent, d)
         other == v[Opp(d)][parent]
     IN  /\ IsRed(u, u.left[s]) \/ IsRed(u, u.right[s])
         /\ t' = Rotate([v EXCEPT !.color[other] = v.color[parent], !.color[parent] = "black",
                                  !.color[v[Opp(d)][other]] = "black"], parent, d)
         /\ node' = t'.root
  /\ UNCHANGED <<pc, parent>>

\* Mutant of EraseRecolor: the loop stays where it is.
EraseRecolorStay ==
  /\ pc = "erase" /\ TooBlack
  /\ LET u == BlackSibling(t, parent, Short)
         other == u[Opp(Short)][parent]
     IN  /\ IsBlack(u, u.left[other]) /\ IsBlack(u, u.right[other])
         /\ t' = u
  /\ UNCHANGED <<pc, node, parent>>

\* The sibling has no red child: it becomes red and the loop moves up.
EraseRecolor ==
  /\ pc = "erase" /\ TooBlack
  /\ LET d == Short
         u == BlackSibling(t, parent, d)
         other == u[Opp(d)][parent]
     IN  /\ IsBlack(u, u.left[other]) /\ IsBlack(u, u.right[other])
         /\ t' = SetColor(u, other, "red")
         /\ node' = parent /\ parent' = u.parent[parent]
  /\ UNCHANGED pc

EraseDone ==
  /\ pc = "erase" /\ ~TooBlack
  /\ t' = IF node = NULL THEN t ELSE SetColor(t, node, "black")
  /\ pc' = "idle" /\ node' = NULL /\ parent' = NULL

-----------------------------------------------------------------------------
(* Replacement                                                             *)

\* rb_replace_node with a node of the same key.
Replace(victim, new) ==
  /\ pc = "idle" /\ InTree(victim) /\ ~InTree(new) /\ Key[victim] = Key[new]
  /\ LET u == SetParent(SetParent(Relink(t, t.parent[victim], victim, new),
                                  t.left[victim], new), t.right[victim], new)
     IN  t' = Forget([u EXCEPT !.left[new] = u.left[victim], !.right[new] = u.right[victim],
                        !.parent[new] = u.parent[victim], !.color[new] = u.color[victim]],
                     victim)
  /\ UNCHANGED <<pc, node, parent>>

Loop == InsertRecolor \/ InsertRotate \/ InsertDone \/ EraseRecolor \/ EraseRotate \/ EraseDone

Next ==
  \/ \E n \in Nodes : Insert(n) \/ EraseOuter(n) \/ EraseInner(n)
  \/ \E victim, new \in Nodes : Replace(victim, new)
  \/ Loop

\* A function that was called runs on.
Spec == Init /\ [][Next]_vars /\ WF_vars(Loop)

=============================================================================
