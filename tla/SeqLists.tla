------------------------------ MODULE SeqLists ------------------------------
(***************************************************************************)
(* What the lists of list.h are for their users: sequences of entries.     *)
(* A list that was spliced away without being reinitialised is not ready:  *)
(* it has no content until INIT_LIST_HEAD.                                 *)
(***************************************************************************)
EXTENDS SequencesExt

CONSTANTS Nodes, Heads

VARIABLES content, ready

specVars == <<content, ready>>

Init == content = [h \in Heads |-> <<>>] /\ ready = {}

Free(n) == \A h \in Heads : ~Contains(content[h], n)

Drop(c, n) == [h \in Heads |-> RemoveFirst(c[h], n)]

Prepare(h) ==
  /\ content[h] = <<>>
  /\ ready' = ready \cup {h}
  /\ UNCHANGED content

Push(n, h) ==
  /\ Free(n) /\ h \in ready
  /\ content' = [content EXCEPT ![h] = <<n>> \o @]
  /\ UNCHANGED ready

Enqueue(n, h) ==
  /\ Free(n) /\ h \in ready
  /\ content' = [content EXCEPT ![h] = Append(@, n)]
  /\ UNCHANGED ready

Delete(n) == content' = Drop(content, n) /\ UNCHANGED ready

MoveFirst(n, h) ==
  /\ h \in ready
  /\ content' = [Drop(content, n) EXCEPT ![h] = <<n>> \o @]
  /\ UNCHANGED ready

MoveLast(n, h) ==
  /\ h \in ready
  /\ content' = [Drop(content, n) EXCEPT ![h] = Append(@, n)]
  /\ UNCHANGED ready

\* The entries of g go before those of h, in their order.
Join(g, h) ==
  /\ {g, h} \subseteq ready /\ g # h
  /\ content' = [content EXCEPT ![h] = content[g] \o @, ![g] = <<>>]

\* list_splice: g is unusable afterwards, unless it was empty.
JoinAway(g, h) ==
  /\ Join(g, h)
  /\ ready' = IF content[g] = <<>> THEN ready ELSE ready \ {g}

\* list_splice_init: g stays in use, empty.
JoinInit(g, h) == Join(g, h) /\ UNCHANGED ready

Next ==
  \/ \E h \in Heads : Prepare(h)
  \/ \E n \in Nodes : Delete(n)
  \/ \E n \in Nodes, h \in Heads :
       Push(n, h) \/ Enqueue(n, h) \/ MoveFirst(n, h) \/ MoveLast(n, h)
  \/ \E g, h \in Heads : JoinAway(g, h) \/ JoinInit(g, h)

Spec == Init /\ [][Next]_specVars

=============================================================================
