----------------------------- MODULE OrderedSet -----------------------------
(***************************************************************************)
(* What a red-black tree is for its user: a set of nodes with different    *)
(* keys, kept as the sequence that goes through them in the order of their *)
(* keys.                                                                   *)
(***************************************************************************)
EXTENDS Integers, SequencesExt

CONSTANTS Nodes, Key

VARIABLE seq

Sorted(s) == \A i, j \in DOMAIN s : i < j => Key[s[i]] < Key[s[j]]

Init == seq = <<>>

Add(n) ==
  /\ ~Contains(seq, n)
  /\ \E i \in 1 .. Len(seq) + 1 : Sorted(InsertAt(seq, i, n)) /\ seq' = InsertAt(seq, i, n)

Remove1(n) == \E i \in 1 .. Len(seq) : seq[i] = n /\ seq' = RemoveAt(seq, i)

\* A node gives its place to one of the same key.
Exchange(victim, new) ==
  /\ Contains(seq, victim) /\ ~Contains(seq, new) /\ Key[victim] = Key[new]
  /\ seq' = ReplaceAll(seq, victim, new)

Next ==
  \/ \E n \in Nodes : Add(n) \/ Remove1(n)
  \/ \E victim, new \in Nodes : Exchange(victim, new)

Spec == Init /\ [][Next]_seq

=============================================================================
