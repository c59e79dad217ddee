-------------------------------- MODULE KList --------------------------------
(***************************************************************************)
(* The lists of list.h under every sequence of calls a user may make: an   *)
(* entry is added when it is on no list, deleted or moved when it is on    *)
(* one or stands alone (INIT_LIST_HEAD on an entry), and a list that was   *)
(* spliced away is not used again before INIT_LIST_HEAD.                   *)
(***************************************************************************)
EXTENDS Naturals, FiniteSetsExt, ListOps

CONSTANTS Nodes, Heads, NULL

Objects == Nodes \cup Heads

KListAssumption ==
  /\ Nodes \cap Heads = {} /\ IsFiniteSet(Nodes)
  /\ {NULL, POISON1, POISON2} \cap Objects = {}
  /\ NULL # POISON1 /\ NULL # POISON2 /\ POISON1 # POISON2
ASSUME KListAssumption

VARIABLES
  l,          \* the next and prev fields of all objects
  on,         \* the list an entry is on: what the user knows
  ready       \* the heads that may be used

vars == <<l, on, ready>>

Init ==
  /\ l = [next |-> [x \in Objects |-> NULL], prev |-> [x \in Objects |-> NULL]]
  /\ on = [n \in Nodes |-> NULL]
  /\ ready = {}

Alone(n) == on[n] = NULL /\ l.next[n] = n

\* INIT_LIST_HEAD on a head that holds nothing, and on a free entry.
InitHead(h) ==
  /\ \A n \in Nodes : on[n] # h
  /\ l' = InitListHead(l, h)
  /\ ready' = ready \cup {h}
  /\ UNCHANGED on

InitEntry(n) ==
  /\ on[n] = NULL
  /\ l' = InitListHead(l, n)
  /\ UNCHANGED <<on, ready>>

Put(n, h) == on' = [on EXCEPT ![n] = h] /\ UNCHANGED ready

Add(n, h) ==
  /\ on[n] = NULL /\ h \in ready
  /\ l' = ListAdd(l, n, h)
  /\ Put(n, h)

AddTail(n, h) ==
  /\ on[n] = NULL /\ h \in ready
  /\ l' = ListAddTail(l, n, h)
  /\ Put(n, h)

Del(n) ==
  /\ on[n] # NULL \/ Alone(n)
  /\ l' = ListDel(l, n)
  /\ Put(n, NULL)

DelInit(n) ==
  /\ on[n] # NULL \/ Alone(n)
  /\ l' = ListDelInit(l, n)
  /\ Put(n, NULL)

Move(n, h) ==
  /\ on[n] # NULL \/ Alone(n)
  /\ h \in ready
  /\ l' = ListMove(l, n, h)
  /\ Put(n, h)

MoveTail(n, h) ==
  /\ on[n] # NULL \/ Alone(n)
  /\ h \in ready
  /\ l' = ListMoveTail(l, n, h)
  /\ Put(n, h)

\* The entries of g are now on h.
Rehome(g, h) == on' = [n \in Nodes |-> IF on[n] = g THEN h ELSE on[n]]

\* list_splice: the head g is left pointing into h, unless it was empty.
Splice(g, h) ==
  /\ {g, h} \subseteq ready /\ g # h
  /\ IF ListEmpty(l, g)
     THEN UNCHANGED vars
     ELSE /\ l' = SpliceIn(l, g, h)
          /\ Rehome(g, h)
          /\ ready' = ready \ {g}

SpliceInit(g, h) ==
  /\ {g, h} \subseteq ready /\ g # h
  /\ IF ListEmpty(l, g)
     THEN UNCHANGED vars
     ELSE /\ l' = InitListHead(SpliceIn(l, g, h), g)
          /\ Rehome(g, h)
          /\ UNCHANGED ready

Next ==
  \/ \E h \in Heads : InitHead(h)
  \/ \E n \in Nodes : InitEntry(n) \/ Del(n) \/ DelInit(n)
  \/ \E n \in Nodes, h \in Heads : Add(n, h) \/ AddTail(n, h) \/ Move(n, h) \/ MoveTail(n, h)
  \/ \E g, h \in Heads : Splice(g, h) \/ SpliceInit(g, h)

Spec == Init /\ [][Next]_vars

-----------------------------------------------------------------------------
(* Properties                                                              *)

\* Types.
TypeOK ==
  /\ l \in [next : [Objects -> Objects \cup {NULL, POISON1}],
            prev : [Objects -> Objects \cup {NULL, POISON2}]]
  /\ on \in [Nodes -> Heads \cup {NULL}]
  /\ ready \subseteq Heads

\* The list an object in use belongs to; a lone entry is a list of its own.
Linked == ready \cup {n \in Nodes : on[n] # NULL \/ l.next[n] = n}
Home(x) == IF x \in Heads \/ on[x] = NULL THEN x ELSE on[x]

\* next and prev of the objects in use are inverse of each other and never
\* leave the list: whatever is spliced, moved or deleted, no pointer that a
\* user may follow leads to a poisoned entry, a stale head or another list.
Links ==
  \A x \in Linked :
    /\ l.next[x] \in Linked /\ Home(l.next[x]) = Home(x) /\ l.prev[l.next[x]] = x
    /\ l.prev[x] \in Linked /\ Home(l.prev[x]) = Home(x) /\ l.next[l.prev[x]] = x

\* The entries list_for_each meets from head h, in order.
Contents(h) ==
  LET N == Cardinality(Nodes)
      w[i \in 0 .. N + 1] == IF i = 0 THEN h ELSE l.next[w[i - 1]]
      back == {i \in 1 .. N + 1 : w[i] = h}
  IN  IF h \in ready /\ back # {}
      THEN [i \in 1 .. Min(back) - 1 |-> w[i]]
      ELSE <<>>

\* A walk of a list meets the entries put on it, all of them and no other: no
\* operation loses part of a list in a ring of its own.
WalkMeetsAll ==
  \A h \in ready :
    /\ {n \in Nodes : on[n] = h} = {Contents(h)[i] : i \in DOMAIN Contents(h)}
    /\ ListEmpty(l, h) <=> Contents(h) = <<>>
    /\ ListEmptyCareful(l, h) <=> ListEmpty(l, h)

Lists == INSTANCE SeqLists WITH content <- [h \in Heads |-> Contents(h)]

\* What each call of list.h does to the sequences.
CallsAsNamed ==
  /\ \A h \in Heads : InitHead(h) => Lists!Prepare(h)
  /\ \A n \in Nodes :
       /\ InitEntry(n) => UNCHANGED Lists!specVars
       /\ Del(n) \/ DelInit(n) => Lists!Delete(n)
  /\ \A n \in Nodes, h \in Heads :
       /\ Add(n, h) => Lists!Push(n, h)
       /\ AddTail(n, h) => Lists!Enqueue(n, h)
       /\ Move(n, h) => Lists!MoveFirst(n, h)
       /\ MoveTail(n, h) => Lists!MoveLast(n, h)
  /\ \A g, h \in Heads :
       /\ Splice(g, h) => Lists!JoinAway(g, h)
       /\ SpliceInit(g, h) => Lists!JoinInit(g, h)

\* The lists are sequences, and each call changes them as its name says:
\* list_add pushes, list_add_tail enqueues, list_del takes one entry out,
\* list_move and list_move_tail put it first or last on the other list, and a
\* splice puts one list before the other and leaves it empty, ready again only
\* if it was empty before or the call is list_splice_init.
IsSeqLists == Lists!Spec /\ [][CallsAsNamed]_vars

=============================================================================
