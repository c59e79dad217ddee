------------------------------- MODULE AcsmRef -------------------------------
(* What an Aho-Corasick automaton is, said of the patterns alone and of no    *)
(* table: the words its states stand for, the word a text ends in, and the    *)
(* patterns that end there.  The two builders (acsmx.c, acsmx2.c) are checked *)
(* against these definitions.                                                 *)
EXTENDS Integers, Sequences, FiniteSets, SequencesExt

\* A finite set of integers, each once, the least first.
Ascending(S) ==
  [k \in 1..Cardinality(S) |-> CHOOSE x \in S : Cardinality({ y \in S : y < x }) = k - 1]

\* The suffixes of w, w itself and the empty word among them.
SuffixesOf(w) == { SubSeq(w, i, Len(w)) : i \in 1..(Len(w) + 1) }

\* The words of the keyword trie: every prefix of every text of a set.
WordsOf(texts) ==
  {<<>>} \cup UNION { { SubSeq(t, 1, i) : i \in 1..Len(t) } : t \in texts }

\* The longest suffix of w that belongs to S (S holds the empty word).
LongestSuffixIn(w, S) ==
  CHOOSE u \in SuffixesOf(w) \cap S :
    \A v \in SuffixesOf(w) \cap S : Len(v) <= Len(u)

\* The longest suffix of w, other than w, that belongs to S.
LongestProperSuffixIn(w, S) == LongestSuffixIn(w, S \ {w})

\* Text t occurs in stream so that it ends at position i.
EndsAt(t, stream, i) == i <= Len(stream) /\ IsSuffix(t, SubSeq(stream, 1, i))
==============================================================================
