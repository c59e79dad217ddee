------------------------------- MODULE ListOps -------------------------------
(***************************************************************************)
(* The pointer assignments of the circular doubly linked lists of list.h.  *)
(*                                                                         *)
(* l.next and l.prev map every struct list_head, be it the head of a list  *)
(* or embedded in an entry, to what its two fields hold.  The EXCEPTs are  *)
(* in the order of the assignments in the code, which matters when two of  *)
(* the objects are the same.                                               *)
(***************************************************************************)
CONSTANTS POISON1, POISON2     \* what list_del leaves in the fields

InitListHead(l, x) ==
  [next |-> [l.next EXCEPT ![x] = x], prev |-> [l.prev EXCEPT ![x] = x]]

\* Mutant of InsertBetween: the object after the new one keeps its prev.
InsertHalf(l, new, before, after) ==
  [next |-> [l.next EXCEPT ![new] = after, ![before] = new],
   prev |-> [l.prev EXCEPT ![new] = before]]

\* __list_add
InsertBetween(l, new, before, after) ==
  [next |-> [l.next EXCEPT ![new] = after, ![before] = new],
   prev |-> [l.prev EXCEPT ![after] = new, ![new] = before]]

ListAdd(l, new, head) == InsertBetween(l, new, head, l.next[head])

\* Mutant of ListAddTail: the call pushes as list_add does.
AddTailAtHead(l, new, head) == InsertBetween(l, new, head, l.next[head])

ListAddTail(l, new, head) == InsertBetween(l, new, l.prev[head], head)

\* Mutant of Unlink: only the forward pointer is mended.
UnlinkForward(l, x) ==
  [next |-> [l.next EXCEPT ![l.prev[x]] = l.next[x]], prev |-> l.prev]

\* __list_del(x->prev, x->next)
Unlink(l, x) ==
  [next |-> [l.next EXCEPT ![l.prev[x]] = l.next[x]],
   prev |-> [l.prev EXCEPT ![l.next[x]] = l.prev[x]]]

ListDel(l, x) ==
  LET u == Unlink(l, x)
  IN  [next |-> [u.next EXCEPT ![x] = POISON1], prev |-> [u.prev EXCEPT ![x] = POISON2]]

ListDelInit(l, x) == InitListHead(Unlink(l, x), x)

ListMove(l, x, head) == ListAdd(Unlink(l, x), x, head)

ListMoveTail(l, x, head) == ListAddTail(Unlink(l, x), x, head)

ListEmpty(l, head) == l.next[head] = head

ListEmptyCareful(l, head) == l.next[head] = head /\ l.prev[head] = head

\* Mutant of SpliceIn: the last entry spliced in closes a ring of its own.
SpliceShort(l, list, head) ==
  [next |-> [l.next EXCEPT ![head] = l.next[list]],
   prev |-> [l.prev EXCEPT ![l.next[list]] = head, ![l.next[head]] = l.prev[list]]]

\* __list_splice: first, last and at are read before anything is written.
SpliceIn(l, list, head) ==
  [next |-> [l.next EXCEPT ![head] = l.next[list], ![l.prev[list]] = l.next[head]],
   prev |-> [l.prev EXCEPT ![l.next[list]] = head, ![l.next[head]] = l.prev[list]]]

=============================================================================
