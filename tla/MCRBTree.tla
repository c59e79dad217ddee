------------------------------ MODULE MCRBTree ------------------------------
(* Instances of RBTree for TLC.  Nodes are numbers, and so are their keys.  *)
EXTENDS RBTreeProps

\* The last two nodes have the same key: one may replace the other.
SharedKey == [n \in Nodes |-> IF n = Cardinality(Nodes) THEN n - 1 ELSE n]

=============================================================================
