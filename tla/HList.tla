-------------------------------- MODULE HList --------------------------------
(***************************************************************************)
(* The hash lists of list.h: singly linked, each node holding the address  *)
(* of the field that points to it, which is the first field of a head or   *)
(* the next field of a node.  That field is named here by its object.      *)
(* Users add a node that is on no list, next to one that is on a list or   *)
(* at the head of an initialised one; they delete a node that is on one.   *)
(***************************************************************************)
EXTENDS Naturals, SequencesExt

CONSTANTS Nodes, Heads, NULL, POISON1, POISON2

Objects == Nodes \cup Heads

VARIABLES
  fwd,        \* first of a head, next of a node
  pprev,      \* the object whose fwd points to the node
  on          \* the list a node is on: what the user knows

vars == <<fwd, pprev, on>>

\* Nodes and heads that were never initialised hold what hlist_del leaves.
Init ==
  /\ fwd = [x \in Objects |-> POISON1]
  /\ pprev = [n \in Nodes |-> POISON2]
  /\ on = [n \in Nodes |-> NULL]

Ready(h) == fwd[h] # POISON1

InitHead(h) ==
  /\ \A n \in Nodes : on[n] # h
  /\ fwd' = [fwd EXCEPT ![h] = NULL]
  /\ UNCHANGED <<pprev, on>>

InitNode(n) ==
  /\ on[n] = NULL
  /\ fwd' = [fwd EXCEPT ![n] = NULL]
  /\ pprev' = [pprev EXCEPT ![n] = NULL]
  /\ UNCHANGED on

\* Mutant of SetPprev: nobody tells the node after n.
PprevKept(n, m) == pprev

\* "if (next) next->pprev = ...": n learns that m points to it.
SetPprev(n, m) == [x \in Nodes |-> IF x = n THEN m ELSE pprev[x]]

\* __hlist_del, then what the callers leave in the node.
TakeOut(n, newNext, newPprev) ==
  /\ fwd' = [fwd EXCEPT ![pprev[n]] = fwd[n], ![n] = newNext]
  /\ pprev' = [SetPprev(fwd[n], pprev[n]) EXCEPT ![n] = newPprev]
  /\ on' = [on EXCEPT ![n] = NULL]

Del(n) == on[n] # NULL /\ TakeOut(n, POISON1, POISON2)

\* hlist_del_init asks hlist_unhashed itself, so any initialised node will do.
DelInit(n) ==
  /\ on[n] # NULL \/ pprev[n] = NULL
  /\ IF pprev[n] # NULL THEN TakeOut(n, NULL, NULL) ELSE UNCHANGED vars

AddHead(n, h) ==
  /\ on[n] = NULL /\ Ready(h)
  /\ fwd' = [fwd EXCEPT ![n] = fwd[h], ![h] = n]
  /\ pprev' = [SetPprev(fwd[h], n) EXCEPT ![n] = h]
  /\ on' = [on EXCEPT ![n] = h]

\* Mutant of AddBefore: the node goes to the head of the list.
AddBeforeFirst(n, next) ==
  /\ on[n] = NULL /\ on[next] # NULL
  /\ fwd' = [fwd EXCEPT ![n] = fwd[on[next]], ![on[next]] = n]
  /\ pprev' = [SetPprev(fwd[on[next]], n) EXCEPT ![n] = on[next]]
  /\ on' = [on EXCEPT ![n] = on[next]]

AddBefore(n, next) ==
  /\ on[n] = NULL /\ on[next] # NULL
  /\ fwd' = [fwd EXCEPT ![n] = next, ![pprev[next]] = n]
  /\ pprev' = [pprev EXCEPT ![n] = pprev[next], ![next] = n]
  /\ on' = [on EXCEPT ![n] = on[next]]

\* hlist_add_after(n, next) puts its second argument after its first.
AddAfter(n, next) ==
  /\ on[n] # NULL /\ on[next] = NULL
  /\ fwd' = [fwd EXCEPT ![next] = fwd[n], ![n] = next]
  /\ pprev' = [SetPprev(fwd[n], next) EXCEPT ![next] = n]
  /\ on' = [on EXCEPT ![next] = on[n]]

Next ==
  \/ \E h \in Heads : InitHead(h)
  \/ \E n \in Nodes : InitNode(n) \/ Del(n) \/ DelInit(n)
  \/ \E n \in Nodes, h \in Heads : AddHead(n, h)
  \/ \E n, m \in Nodes : AddBefore(n, m) \/ AddAfter(n, m)

Spec == Init /\ [][Next]_vars

-----------------------------------------------------------------------------
(* Properties                                                              *)

\* Types.
TypeOK ==
  /\ fwd \in [Objects -> Nodes \cup {NULL, POISON1}]
  /\ pprev \in [Nodes -> Objects \cup {NULL, POISON2}]
  /\ on \in [Nodes -> Heads \cup {NULL}]

\* Every node on a list can be reached through the field it names, so that
\* __hlist_del writes to the list the node is on and to no other; the fields
\* a user follows never hold a poisoned or a removed node.
BackPointers ==
  /\ \A n \in Nodes : on[n] # NULL =>
       /\ pprev[n] \in Objects /\ fwd[pprev[n]] = n
       /\ pprev[n] \in Nodes => on[pprev[n]] = on[n]
       /\ pprev[n] \in Heads => on[n] = pprev[n]
  /\ \A x \in Heads \cup {n \in Nodes : on[n] # NULL} :
       fwd[x] \in Nodes => on[fwd[x]] # NULL /\ pprev[fwd[x]] = x

\* What hlist_for_each meets; a walk that does not end meets too many.
Contents(h) ==
  LET N == Cardinality(Nodes)
      w[i \in 0 .. N + 1] == IF i = 0 THEN h ELSE IF w[i - 1] \in Objects THEN fwd[w[i - 1]] ELSE NULL
      ends == {i \in 1 .. N + 1 : w[i] \notin Nodes}
  IN  [i \in 1 .. (IF ends = {} THEN N + 1 ELSE Min(ends) - 1) |-> w[i]]

\* The walk from a head ends, and meets the nodes added to the list and not
\* deleted from it, all of them and no other.
WalkMeetsAll ==
  \A h \in Heads :
    /\ Len(Contents(h)) = Cardinality({n \in Nodes : on[n] = h})
    /\ ToSet(Contents(h)) = {n \in Nodes : on[n] = h}

Stay(h) == {n \in Nodes : on[n] = h /\ on'[n] = h}

\* The walk from h meets n before m, and m right after n.
Before(h, n, m) == \E i, j \in DOMAIN Contents(h) : i < j /\ Contents(h)[i] = n /\ Contents(h)[j] = m
NextTo(h, n, m) == \E i, j \in DOMAIN Contents(h) : j = i + 1 /\ Contents(h)[i] = n /\ Contents(h)[j] = m

\* No operation reorders the nodes that stay, and each of the three that add
\* one puts it at the head or right next to the neighbour it names.
OrderKept ==
  [][ /\ \A h \in Heads : \A n, m \in Stay(h) : Before(h, n, m)' <=> Before(h, n, m)
      /\ \A n \in Nodes, h \in Heads : AddHead(n, h) => Contents(h)'[1] = n
      /\ \A n, m \in Nodes : AddBefore(n, m) => NextTo(on[m], n, m)'
      /\ \A n, m \in Nodes : AddAfter(n, m) => NextTo(on[n], n, m)' ]_vars

=============================================================================
