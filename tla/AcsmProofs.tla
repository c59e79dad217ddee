----------------------------- MODULE AcsmProofs -----------------------------
(*****************************************************************************)
(* What acsmx.c compiles and finds, for every list of patterns, every        *)
(* alphabet, every folding of the case and every text: the automaton after   *)
(* acsmCompile is the one the definition of Aho and Corasick asks for, the   *)
(* stored rows are the table, and acsmSearch reports what occurs and no more.*)
(*                                                                           *)
(* The argument has three parts: words and the suffixes they end in; the     *)
(* trie of the patterns and the breadth-first pass of Build_DFA over it; the *)
(* search, which is after each character at the longest suffix of what it    *)
(* has read that the trie holds.                                             *)
(*****************************************************************************)
EXTENDS MCAcsm, SequenceTheorems, FiniteSetTheorems, WellFoundedInduction, TLAPS

-----------------------------------------------------------------------------
(* The least and the greatest of some inputs. *)

\* A set of natural numbers that has an element has a least one.
LEMMA LeastNatural ==
  ASSUME NEW S \in SUBSET Nat, S # {}
  PROVE  \E x \in S : \A y \in S : x <= y
<1>1. \E x \in S : \A y \in S : <<y, x>> \notin OpToRel(<, Nat)
  BY NatLessThanWellFounded, WFMin
<1>2. \A x, y \in S : <<y, x>> \notin OpToRel(<, Nat) => x <= y
  BY DEF OpToRel
<1> QED BY <1>1, <1>2

\* Min of some inputs is the least of them.
LEMMA MinOfInputs ==
  ASSUME NEW S \in SUBSET Inputs, S # {}
  PROVE  Min(S) \in S /\ \A y \in S : Min(S) <= y
<1>1. S \in SUBSET Nat
  BY RowsAssumption, SMTT(10) DEF Inputs
<1>2. \E x \in S : \A y \in S : x <= y
  BY <1>1, LeastNatural
<1> QED BY <1>2 DEF Min

\* Max of some inputs is the greatest of them: the one nearest to the end of the
\* alphabet.
LEMMA MaxOfInputs ==
  ASSUME NEW S \in SUBSET Inputs, S # {}
  PROVE  Max(S) \in S /\ \A y \in S : y <= Max(S)
<1> DEFINE D == { AlphabetSize - x : x \in S }
<1>1. S \in SUBSET Int /\ \A x \in S : x < AlphabetSize /\ AlphabetSize \in Int
  BY RowsAssumption, SMTT(10) DEF Inputs
<1>2. D \in SUBSET Nat /\ D # {}
  <2>1. \A x \in S : AlphabetSize - x \in Nat
    BY <1>1, SMTT(10)
  <2> QED BY <2>1
<1>3. PICK d \in D : \A e \in D : d <= e
  BY <1>2, LeastNatural
<1>4. PICK x \in S : d = AlphabetSize - x
  OBVIOUS
<1>5. \A y \in S : y <= x
  <2> TAKE y \in S
  <2>1. d <= AlphabetSize - y
    BY <1>3
  <2> QED BY <1>1, <1>4, <2>1, SMTT(10)
<1>6. \E z \in S : \A y \in S : z >= y
  BY <1>1, <1>5, SMTT(10)
<1>7. Max(S) \in S /\ \A y \in S : Max(S) >= y
  BY <1>6 DEF Max
<1> QED BY <1>1, <1>7, SMTT(10)

-----------------------------------------------------------------------------
(* Words and their suffixes *)

\* u is what w ends in.
Suf(u, w) == Len(u) <= Len(w) /\ \A j \in 1..Len(u) : u[j] = w[Len(w) - Len(u) + j]

\* The words that are a state of a trie.
PrefixClosed(W) ==
  /\ <<>> \in W /\ W \subseteq Seq(Inputs)
  /\ \A v \in Seq(Inputs), i \in Inputs : Append(v, i) \in W => v \in W

\* u is the longest word of W that w ends in.
Longest(u, w, W) == u \in W /\ Suf(u, w) /\ \A v \in W : Suf(v, w) => Len(v) <= Len(u)

\* u is the longest one but w itself.
LongestProper(u, w, W) ==
  u \in W /\ Suf(u, w) /\ u # w /\ \A v \in W : Suf(v, w) /\ v # w => Len(v) <= Len(u)

\* The end of a word is a word.
LEMMA TailWord ==
  ASSUME NEW w \in Seq(Inputs), NEW k \in 1..(Len(w) + 1)
  PROVE  /\ SubSeq(w, k, Len(w)) \in Seq(Inputs) /\ Len(SubSeq(w, k, Len(w))) = Len(w) - k + 1
         /\ \A j \in 1..(Len(w) - k + 1) : SubSeq(w, k, Len(w))[j] = w[k + j - 1]
<1>1. Len(w) \in Nat
  BY LenProperties
<1>2. \A i \in k..Len(w) : w[i] \in Inputs
  <2> TAKE i \in k..Len(w)
  <2>1. i \in 1..Len(w)
    BY <1>1, SMTT(10)
  <2> QED BY <2>1, ElementOfSeq
<1>3. k \in Int /\ Len(w) \in Int
  BY <1>1, SMTT(10)
<1>4. PICK t : t = SubSeq(w, k, Len(w))
  OBVIOUS
<1>5. /\ t \in Seq(Inputs) /\ Len(t) = IF k <= Len(w) THEN Len(w) - k + 1 ELSE 0
      /\ \A j \in 1..(Len(w) - k + 1) : t[j] = w[k + j - 1]
  BY <1>2, <1>3, <1>4, SubSeqProperties
<1>6. Len(t) = Len(w) - k + 1
  BY <1>1, <1>5, SMTT(10)
<1> QED BY <1>4, <1>5, <1>6

\* Words of one length that both are what a word ends in are the same.
LEMMA SufSame ==
  ASSUME NEW u \in Seq(Inputs), NEW v \in Seq(Inputs), NEW w \in Seq(Inputs),
         Suf(u, w), Suf(v, w), Len(u) <= Len(v)
  PROVE  Suf(u, v) /\ (Len(u) = Len(v) => u = v)
<1>1. Len(u) \in Nat /\ Len(v) \in Nat /\ Len(w) \in Nat
  BY LenProperties
<1>2. ASSUME NEW j \in 1..Len(u)
      PROVE  u[j] = v[Len(v) - Len(u) + j]
  <2>1. u[j] = w[Len(w) - Len(u) + j]
    BY DEF Suf
  <2>2. PICK k : k = Len(v) - Len(u) + j
    OBVIOUS
  <2>3. k \in 1..Len(v) /\ Len(w) - Len(v) + k = Len(w) - Len(u) + j
    BY <1>1, <2>2, SMTT(10)
  <2>4. v[k] = w[Len(w) - Len(v) + k]
    BY <2>3 DEF Suf
  <2> QED BY <2>1, <2>2, <2>3, <2>4
<1>3. Suf(u, v)
  BY <1>2 DEF Suf
<1>4. ASSUME Len(u) = Len(v)
      PROVE  u = v
  <2>1. \A j \in 1..Len(u) : Len(v) - Len(u) + j = j
    BY <1>1, <1>4, SMTT(10)
  <2>2. \A j \in 1..Len(u) : u[j] = v[j]
    BY <1>2, <2>1
  <2> QED BY <1>4, <2>2, SeqEqual
<1> QED BY <1>3, <1>4

\* What a word ends in, ends in what it ends in.
LEMMA SufTrans ==
  ASSUME NEW u \in Seq(Inputs), NEW v \in Seq(Inputs), NEW w \in Seq(Inputs),
         Suf(u, v), Suf(v, w)
  PROVE  Suf(u, w)
<1>1. Len(u) \in Nat /\ Len(v) \in Nat /\ Len(w) \in Nat
  BY LenProperties
<1>2. Len(u) <= Len(w)
  BY <1>1, SMTT(10) DEF Suf
<1>3. ASSUME NEW j \in 1..Len(u)
      PROVE  u[j] = w[Len(w) - Len(u) + j]
  <2>1. PICK k : k = Len(v) - Len(u) + j
    OBVIOUS
  <2>2. k \in 1..Len(v) /\ Len(w) - Len(v) + k = Len(w) - Len(u) + j
    BY <1>1, <2>1, SMTT(10) DEF Suf
  <2>3. v[k] = w[Len(w) - Len(v) + k] /\ u[j] = v[k]
    BY <2>1, <2>2 DEF Suf
  <2> QED BY <2>2, <2>3
<1> QED BY <1>2, <1>3 DEF Suf

\* Every word ends in itself and in the empty word.
LEMMA SufRefl ==
  ASSUME NEW w \in Seq(Inputs)
  PROVE  Suf(w, w) /\ Suf(<<>>, w) /\ <<>> \in Seq(Inputs) /\ Len(<<>>) = 0
<1>1. Len(w) \in Nat /\ Len(<<>>) = 0 /\ <<>> \in Seq(Inputs)
  BY LenProperties, EmptySeq
<1>2. \A j \in 1..Len(w) : Len(w) - Len(w) + j = j
  BY <1>1, SMTT(10)
<1>3. \A j \in 1..0 : FALSE
  BY SMTT(10)
<1>4. 0 <= Len(w) /\ Len(w) <= Len(w)
  BY <1>1, SMTT(10)
<1> QED BY <1>1, <1>2, <1>3, <1>4 DEF Suf

\* A word and one more input.
LEMMA AppendWord ==
  ASSUME NEW w \in Seq(Inputs), NEW i \in Inputs
  PROVE  /\ Append(w, i) \in Seq(Inputs) /\ Len(Append(w, i)) = Len(w) + 1 /\ Len(w) \in Nat
         /\ Append(w, i)[Len(w) + 1] = i /\ \A j \in 1..Len(w) : Append(w, i)[j] = w[j]
         /\ Append(w, i) # <<>>
<1>1. Append(w, i) # <<>>
  BY AppendProperties
<1> QED BY <1>1, AppendProperties, LenProperties

\* Words that differ, or end differently, differ with one more input.
LEMMA SameAppend ==
  ASSUME NEW v \in Seq(Inputs), NEW w \in Seq(Inputs), NEW i \in Inputs, NEW j \in Inputs,
         Append(v, i) = Append(w, j)
  PROVE  v = w /\ i = j
<1>1. Len(v) = Len(w)
  <2>1. Len(v) + 1 = Len(w) + 1 /\ Len(v) \in Nat /\ Len(w) \in Nat
    BY AppendWord
  <2> QED BY <2>1, SMTT(10)
<1>2. \A k \in 1..Len(v) : v[k] = w[k]
  <2>1. \A k \in 1..Len(v) : Append(v, i)[k] = v[k]
    BY AppendWord
  <2>2. \A k \in 1..Len(w) : Append(w, j)[k] = w[k]
    BY AppendWord
  <2> QED BY <1>1, <2>1, <2>2
<1>3. v = w
  BY <1>1, <1>2, SeqEqual
<1>4. i = j
  <2>1. Append(v, i)[Len(v) + 1] = i /\ Append(w, j)[Len(w) + 1] = j
    BY AppendWord
  <2> QED BY <1>1, <2>1
<1> QED BY <1>3, <1>4

\* A word that is not empty is a word and one more input.
LEMMA WordFront ==
  ASSUME NEW w \in Seq(Inputs), w # <<>>
  PROVE  \E v \in Seq(Inputs), i \in Inputs : w = Append(v, i)
<1>1. Len(w) \in Nat \ {0}
  BY EmptySeq
<1>2. PICK v : v = [k \in 1..(Len(w) - 1) |-> w[k]]
  OBVIOUS
<1>3. Len(w) - 1 \in Nat /\ \A k \in 1..(Len(w) - 1) : k \in 1..Len(w)
  BY <1>1, SMTT(10)
<1>4. v \in Seq(Inputs) /\ Len(v) = Len(w) - 1
  <2>1. \A k \in 1..(Len(w) - 1) : w[k] \in Inputs
    BY <1>3, ElementOfSeq
  <2>2. v \in [1..(Len(w) - 1) -> Inputs]
    BY <1>2, <2>1
  <2> QED BY <1>3, <2>2, SMTT(10)
<1>5. Len(w) \in 1..Len(w) /\ Len(v) + 1 = Len(w)
  BY <1>1, <1>4, SMTT(10)
<1>6. PICK i \in Inputs : i = w[Len(w)]
  BY <1>5, ElementOfSeq
<1>7. PICK a : a = Append(v, i)
  OBVIOUS
<1>8. /\ a \in Seq(Inputs) /\ Len(a) = Len(w) /\ a[Len(w)] = w[Len(w)]
      /\ \A k \in 1..Len(v) : a[k] = w[k]
  BY <1>2, <1>4, <1>5, <1>6, <1>7, AppendWord
<1>9. \A k \in 1..Len(w) : k = Len(w) \/ k \in 1..Len(v)
  BY <1>1, <1>4, SMTT(10)
<1>10. \A k \in 1..Len(a) : a[k] = w[k]
  BY <1>8, <1>9
<1>11. a = w
  BY <1>8, <1>10, SeqEqual
<1> QED BY <1>4, <1>6, <1>7, <1>11

\* What a word with one more input ends in.
LEMMA SufAppend ==
  ASSUME NEW v \in Seq(Inputs), NEW w \in Seq(Inputs), NEW i \in Inputs, NEW j \in Inputs
  PROVE  Suf(Append(v, i), Append(w, j)) <=> i = j /\ Suf(v, w)
<1>1. PICK a, b : a = Append(v, i) /\ b = Append(w, j)
  OBVIOUS
<1>2. /\ Len(a) = Len(v) + 1 /\ a[Len(v) + 1] = i /\ \A k \in 1..Len(v) : a[k] = v[k]
      /\ Len(b) = Len(w) + 1 /\ b[Len(w) + 1] = j /\ \A k \in 1..Len(w) : b[k] = w[k]
      /\ Len(v) \in Nat /\ Len(w) \in Nat
  BY <1>1, AppendWord
<1>3. /\ Len(a) <= Len(b) <=> Len(v) <= Len(w)
      /\ Len(b) - Len(a) = Len(w) - Len(v)
  BY <1>2, SMTT(10)
<1>4. \A k \in 1..Len(a) : k \in 1..Len(v) \/ k = Len(v) + 1
  BY <1>2, SMTT(10)
<1>5. \A k \in 1..Len(v) : k \in 1..Len(a) /\ Len(b) - Len(a) + k = Len(w) - Len(v) + k
  BY <1>2, <1>3, SMTT(10)
<1>6. ASSUME Len(v) <= Len(w), NEW k \in 1..Len(v)
      PROVE  b[Len(b) - Len(a) + k] = w[Len(w) - Len(v) + k]
  <2>1. Len(w) - Len(v) + k \in 1..Len(w)
    BY <1>2, <1>6, SMTT(10)
  <2> QED BY <1>2, <1>5, <2>1
<1>7. Len(v) + 1 \in 1..Len(a) /\ Len(b) - Len(a) + (Len(v) + 1) = Len(w) + 1
  BY <1>2, SMTT(10)
<1>8. ASSUME Suf(a, b)
      PROVE  i = j /\ Suf(v, w)
  <2>1. \A k \in 1..Len(a) : a[k] = b[Len(b) - Len(a) + k]
    BY <1>8 DEF Suf
  <2>2. Len(v) <= Len(w)
    BY <1>3, <1>8 DEF Suf
  <2>3. i = j
    BY <1>2, <1>7, <2>1
  <2> QED BY <1>2, <1>5, <1>6, <2>1, <2>2, <2>3 DEF Suf
<1>9. ASSUME i = j, Suf(v, w)
      PROVE  Suf(a, b)
  <2>1. Len(v) <= Len(w)
    BY <1>9 DEF Suf
  <2>2. ASSUME NEW k \in 1..Len(a)
        PROVE  a[k] = b[Len(b) - Len(a) + k]
    <3>1. CASE k = Len(v) + 1
      BY <1>2, <1>7, <1>9, <3>1
    <3>2. CASE k \in 1..Len(v)
      BY <1>2, <1>6, <1>9, <2>1, <3>2 DEF Suf
    <3> QED BY <1>4, <3>1, <3>2
  <2> QED BY <1>3, <2>1, <2>2 DEF Suf
<1> QED BY <1>1, <1>8, <1>9

\* A word ends in one longest word of W.
LEMMA LongestUnique ==
  ASSUME NEW W \in SUBSET Seq(Inputs), NEW w \in Seq(Inputs), NEW u, NEW v,
         Longest(u, w, W), Longest(v, w, W)
  PROVE  u = v
<1>1. u \in Seq(Inputs) /\ v \in Seq(Inputs) /\ Len(u) \in Nat /\ Len(v) \in Nat
  BY LenProperties DEF Longest
<1>2. Len(u) <= Len(v) /\ Len(v) <= Len(u)
  BY DEF Longest
<1>3. Len(u) = Len(v)
  BY <1>1, <1>2, SMTT(10)
<1> QED BY <1>1, <1>2, <1>3, SufSame DEF Longest

\* The suffixes that AcsmRef speaks of.
LEMMA SuffixWords ==
  ASSUME NEW w \in Seq(Inputs)
  PROVE  SuffixesOf(w) = { u \in Seq(Inputs) : Suf(u, w) }
<1>1. Len(w) \in Nat
  BY LenProperties
<1>2. ASSUME NEW k \in 1..(Len(w) + 1)
      PROVE  SubSeq(w, k, Len(w)) \in Seq(Inputs) /\ Suf(SubSeq(w, k, Len(w)), w)
  <2>1. PICK t : t = SubSeq(w, k, Len(w))
    OBVIOUS
  <2>2. t \in Seq(Inputs) /\ Len(t) = Len(w) - k + 1 /\ \A j \in 1..(Len(w) - k + 1) : t[j] = w[k + j - 1]
    BY <2>1, TailWord
  <2>3. Len(t) <= Len(w) /\ \A j \in 1..Len(t) : Len(w) - Len(t) + j = k + j - 1
    BY <1>1, <2>2, SMTT(10)
  <2> QED BY <2>1, <2>2, <2>3 DEF Suf
<1>3. ASSUME NEW u \in Seq(Inputs), Suf(u, w)
      PROVE  \E k \in 1..(Len(w) + 1) : u = SubSeq(w, k, Len(w))
  <2>1. Len(u) \in Nat /\ Len(u) <= Len(w)
    BY <1>3, LenProperties DEF Suf
  <2>2. PICK k : k = Len(w) - Len(u) + 1
    OBVIOUS
  <2>3. k \in 1..(Len(w) + 1) /\ Len(w) - k + 1 = Len(u)
    BY <1>1, <2>1, <2>2, SMTT(10)
  <2>4. PICK t : t = SubSeq(w, k, Len(w))
    OBVIOUS
  <2>5. t \in Seq(Inputs) /\ Suf(t, w) /\ Len(t) = Len(u)
    BY <1>2, <2>3, <2>4, TailWord
  <2>6. Len(u) <= Len(t)
    BY <2>1, <2>5, SMTT(10)
  <2>7. u = t
    BY <1>3, <2>5, <2>6, SufSame
  <2> QED BY <2>3, <2>4, <2>7
<1> QED BY <1>2, <1>3 DEF SuffixesOf

\* The longest word in the sense of AcsmRef.
LEMMA LongestIs ==
  ASSUME NEW W \in SUBSET Seq(Inputs), NEW w \in Seq(Inputs), NEW u, Longest(u, w, W)
  PROVE  u = LongestSuffixIn(w, W)
<1>1. SuffixesOf(w) \cap W = { v \in W : Suf(v, w) }
  BY SuffixWords
<1>2. PICK x : x = LongestSuffixIn(w, W)
  OBVIOUS
<1>3. u \in SuffixesOf(w) \cap W /\ \A v \in SuffixesOf(w) \cap W : Len(v) <= Len(u)
  BY <1>1 DEF Longest
<1>4. x \in SuffixesOf(w) \cap W /\ \A v \in SuffixesOf(w) \cap W : Len(v) <= Len(x)
  BY <1>2, <1>3 DEF LongestSuffixIn
<1>5. Longest(x, w, W)
  BY <1>1, <1>4 DEF Longest
<1> QED BY <1>2, <1>5, LongestUnique

\* The longest proper one.
LEMMA LongestProperIs ==
  ASSUME NEW W \in SUBSET Seq(Inputs), NEW w \in Seq(Inputs), NEW u, LongestProper(u, w, W)
  PROVE  u = LongestProperSuffixIn(w, W)
<1>1. Longest(u, w, W \ {w})
  BY DEF LongestProper, Longest
<1>2. W \ {w} \in SUBSET Seq(Inputs)
  OBVIOUS
<1> QED BY <1>1, <1>2, LongestIs DEF LongestProperSuffixIn

\* The words of W that a word and one more input end in, but the empty one, are
\* the words of W that the word ends in and the input.
LEMMA LastInput ==
  ASSUME NEW W, PrefixClosed(W), NEW v \in W, NEW w \in Seq(Inputs), NEW i \in Inputs,
         Suf(v, Append(w, i)), v # <<>>
  PROVE  \E x \in W : v = Append(x, i) /\ Suf(x, w)
<1>1. v \in Seq(Inputs)
  BY DEF PrefixClosed
<1>2. PICK x \in Seq(Inputs), j \in Inputs : v = Append(x, j)
  BY <1>1, WordFront
<1>3. x \in W
  BY <1>2 DEF PrefixClosed
<1>4. j = i /\ Suf(x, w)
  BY <1>2, SufAppend
<1> QED BY <1>2, <1>3, <1>4

\* The longest word that a stream ends in gives the next one: this is what makes
\* the automaton right.
LEMMA LongestNext ==
  ASSUME NEW W, PrefixClosed(W), NEW w \in Seq(Inputs), NEW i \in Inputs,
         NEW u, NEW x, Longest(u, w, W), Longest(x, Append(u, i), W)
  PROVE  Longest(x, Append(w, i), W)
<1>1. W \subseteq Seq(Inputs)
  BY DEF PrefixClosed
<1>2. u \in Seq(Inputs) /\ x \in Seq(Inputs) /\ u \in W /\ x \in W
  BY <1>1 DEF Longest
<1>3. Append(u, i) \in Seq(Inputs) /\ Append(w, i) \in Seq(Inputs)
  BY <1>2, AppendWord
<1>4. Suf(x, Append(w, i))
  <2>1. Suf(Append(u, i), Append(w, i))
    BY <1>2, SufAppend DEF Longest
  <2> QED BY <1>2, <1>3, <2>1, SufTrans DEF Longest
<1>5. ASSUME NEW v \in W, Suf(v, Append(w, i))
      PROVE  Len(v) <= Len(x)
  <2>1. CASE v = <<>>
    <3>1. Len(v) = 0 /\ Len(x) \in Nat
      BY <1>2, <2>1, EmptySeq, LenProperties
    <3> QED BY <3>1, SMTT(10)
  <2>2. CASE v # <<>>
    <3>1. PICK y \in W : v = Append(y, i) /\ Suf(y, w)
      BY <1>5, <2>2, LastInput
    <3>2. Len(y) <= Len(u)
      BY <3>1 DEF Longest
    <3>3. Suf(y, u)
      BY <1>1, <1>2, <3>1, <3>2, SufSame DEF Longest
    <3>4. Suf(v, Append(u, i))
      BY <1>1, <1>2, <3>1, <3>3, SufAppend
    <3> QED BY <3>4 DEF Longest
  <2> QED BY <2>1, <2>2
<1> QED BY <1>2, <1>4, <1>5 DEF Longest

\* So does the longest proper one: the failure state of a child.
LEMMA ProperNext ==
  ASSUME NEW W, PrefixClosed(W), NEW w \in Seq(Inputs), NEW i \in Inputs,
         NEW u, NEW x, LongestProper(u, w, W), Longest(x, Append(u, i), W)
  PROVE  LongestProper(x, Append(w, i), W)
<1>1. W \subseteq Seq(Inputs)
  BY DEF PrefixClosed
<1>2. u \in Seq(Inputs) /\ x \in Seq(Inputs) /\ u \in W /\ x \in W
  BY <1>1 DEF Longest, LongestProper
<1>3. Append(u, i) \in Seq(Inputs) /\ Append(w, i) \in Seq(Inputs)
  BY <1>2, AppendWord
<1>4. Suf(x, Append(w, i))
  <2>1. Suf(Append(u, i), Append(w, i))
    BY <1>2, SufAppend DEF LongestProper
  <2> QED BY <1>2, <1>3, <2>1, SufTrans DEF Longest
<1>5. x # Append(w, i)
  <2>1. Len(u) # Len(w) /\ Len(u) <= Len(w) /\ Len(u) \in Nat /\ Len(w) \in Nat
    <3>1. Suf(u, w) /\ u # w /\ Suf(w, w)
      BY SufRefl DEF LongestProper
    <3>2. Len(u) <= Len(w)
      BY <3>1 DEF Suf
    <3> QED BY <1>2, <3>1, <3>2, SufSame, LenProperties
  <2>2. Len(x) <= Len(Append(u, i)) /\ Len(Append(u, i)) = Len(u) + 1
        /\ Len(Append(w, i)) = Len(w) + 1 /\ Len(x) \in Nat
    BY <1>2, AppendWord, LenProperties DEF Longest, Suf
  <2>3. Len(x) # Len(Append(w, i))
    BY <2>1, <2>2, SMTT(10)
  <2> QED BY <2>3
<1>6. ASSUME NEW v \in W, Suf(v, Append(w, i)), v # Append(w, i)
      PROVE  Len(v) <= Len(x)
  <2>1. CASE v = <<>>
    <3>1. Len(v) = 0 /\ Len(x) \in Nat
      BY <1>2, <2>1, EmptySeq, LenProperties
    <3> QED BY <3>1, SMTT(10)
  <2>2. CASE v # <<>>
    <3>1. PICK y \in W : v = Append(y, i) /\ Suf(y, w)
      BY <1>6, <2>2, LastInput
    <3>2. y # w
      BY <1>6, <3>1
    <3>3. Len(y) <= Len(u)
      BY <3>1, <3>2 DEF LongestProper
    <3>4. Suf(y, u)
      BY <1>1, <1>2, <3>1, <3>3, SufSame DEF LongestProper
    <3>5. Suf(v, Append(u, i))
      BY <1>1, <1>2, <3>1, <3>4, SufAppend
    <3> QED BY <3>5 DEF Longest
  <2> QED BY <2>1, <2>2
<1> QED BY <1>2, <1>4, <1>5, <1>6 DEF LongestProper

\* A word of W is its own longest, and the longest of another is a proper one.
LEMMA LongestOwn ==
  ASSUME NEW W \in SUBSET Seq(Inputs), NEW w \in Seq(Inputs)
  PROVE  /\ w \in W => Longest(w, w, W)
         /\ w \notin W => \A u : LongestProper(u, w, W) => Longest(u, w, W)
<1>1. ASSUME w \in W
      PROVE  Longest(w, w, W)
  BY <1>1, SufRefl DEF Longest, Suf
<1>2. ASSUME w \notin W, NEW u, LongestProper(u, w, W)
      PROVE  Longest(u, w, W)
  BY <1>2 DEF Longest, LongestProper
<1> QED BY <1>1, <1>2

\* A single input ends in itself and in the empty word.
LEMMA LongestOfInput ==
  ASSUME NEW W, PrefixClosed(W), NEW i \in Inputs
  PROVE  LongestProper(<<>>, Append(<<>>, i), W)
<1>1. /\ <<>> \in W /\ <<>> \in Seq(Inputs) /\ Len(<<>>) = 0
      /\ Append(<<>>, i) \in Seq(Inputs) /\ Append(<<>>, i) # <<>>
  BY EmptySeq, AppendWord DEF PrefixClosed
<1>2. Suf(<<>>, Append(<<>>, i))
  BY <1>1, SufRefl
<1>3. ASSUME NEW v \in W, Suf(v, Append(<<>>, i)), v # Append(<<>>, i)
      PROVE  Len(v) <= Len(<<>>)
  <2>1. CASE v = <<>>
    BY <1>1, <2>1, SMTT(10)
  <2>2. CASE v # <<>>
    <3>1. PICK e : e = <<>>
      OBVIOUS
    <3>2. e \in Seq(Inputs) /\ v \in W /\ Suf(v, Append(e, i)) /\ v # <<>>
      BY <1>1, <1>3, <2>2, <3>1
    <3>3. PICK y \in W : v = Append(y, i) /\ Suf(y, e)
      BY <3>2, LastInput
    <3>4. y \in Seq(Inputs) /\ Len(y) <= 0
      BY <1>1, <3>1, <3>3 DEF Suf, PrefixClosed
    <3>5. y = <<>>
      <4>1. Len(y) \in Nat /\ (y # <<>> => Len(y) \in Nat \ {0})
        BY <3>4, LenProperties, EmptySeq
      <4>2. ~(Len(y) \in Nat \ {0})
        BY <3>4, <4>1, SMTT(10)
      <4> QED BY <4>1, <4>2
    <3> QED BY <1>3, <3>3, <3>5
  <2> QED BY <2>1, <2>2
<1> QED BY <1>1, <1>2, <1>3 DEF LongestProper

\* EndsAt of AcsmRef.
LEMMA EndsAtIs ==
  ASSUME NEW t \in Seq(Inputs), NEW w \in Seq(Inputs), NEW i \in 0..Len(w)
  PROVE  EndsAt(t, w, i) <=> Suf(t, SubSeq(w, 1, i))
<1>1. Len(w) \in Nat /\ Len(t) \in Nat
  BY LenProperties
<1>2. PICK u : u = SubSeq(w, 1, i)
  OBVIOUS
<1>3. u \in Seq(Inputs) /\ Len(u) = i /\ i \in Nat /\ i <= Len(w)
  <2>1. \A j \in 1..i : w[j] \in Inputs
    <3>1. \A j \in 1..i : j \in 1..Len(w)
      BY <1>1, SMTT(10)
    <3> QED BY <3>1, ElementOfSeq
  <2>2. i \in Int
    BY SMTT(10)
  <2>3. u \in Seq(Inputs) /\ Len(u) = IF 1 <= i THEN i - 1 + 1 ELSE 0
    BY <1>2, <2>1, <2>2, SubSeqProperties
  <2> QED BY <1>1, <2>3, SMTT(10)
<1>4. PICK r, s : r = Reverse(t) /\ s = Reverse(u)
  OBVIOUS
<1>5. ASSUME NEW x \in Seq(Inputs), NEW y, y = Reverse(x)
      PROVE  y \in Seq(Inputs) /\ Len(y) = Len(x) /\ \A j \in 1..Len(x) : y[j] = x[Len(x) - j + 1]
  <2>1. Len(x) \in Nat
    BY LenProperties
  <2>2. y = [j \in 1..Len(x) |-> x[Len(x) - j + 1]]
    BY <1>5 DEF Reverse
  <2>3. \A j \in 1..Len(x) : Len(x) - j + 1 \in 1..Len(x)
    BY <2>1, SMTT(10)
  <2>4. y \in [1..Len(x) -> Inputs]
    BY <2>2, <2>3, ElementOfSeq
  <2> QED BY <2>1, <2>2, <2>4, SMTT(10)
<1>6. /\ r \in Seq(Inputs) /\ Len(r) = Len(t) /\ \A j \in 1..Len(t) : r[j] = t[Len(t) - j + 1]
      /\ s \in Seq(Inputs) /\ Len(s) = i /\ \A j \in 1..i : s[j] = u[i - j + 1]
  BY <1>3, <1>4, <1>5
<1>7. ASSUME Len(t) <= i
      PROVE  SubSeq(r, 1, Len(r)) = SubSeq(s, 1, Len(r)) <=> \A j \in 1..Len(t) : r[j] = s[j]
  <2>1. \A j \in 1..Len(t) : j \in 1..Len(r) /\ j \in 1..Len(s)
    BY <1>1, <1>3, <1>6, <1>7, SMTT(10)
  <2>2. \A j \in 1..Len(r) : r[j] \in Inputs /\ s[j] \in Inputs
    BY <1>6, <2>1, ElementOfSeq
  <2>3. PICK a, b : a = SubSeq(r, 1, Len(r)) /\ b = SubSeq(s, 1, Len(r))
    OBVIOUS
  <2>4. 1 \in Int /\ Len(r) \in Int
    BY <1>1, <1>6, SMTT(10)
  <2>5. /\ a \in Seq(Inputs) /\ Len(a) = IF 1 <= Len(r) THEN Len(r) - 1 + 1 ELSE 0
        /\ \A j \in 1..(Len(r) - 1 + 1) : a[j] = r[1 + j - 1]
    BY <2>2, <2>3, <2>4, SubSeqProperties
  <2>6. /\ b \in Seq(Inputs) /\ Len(b) = IF 1 <= Len(r) THEN Len(r) - 1 + 1 ELSE 0
        /\ \A j \in 1..(Len(r) - 1 + 1) : b[j] = s[1 + j - 1]
    BY <2>2, <2>3, <2>4, SubSeqProperties
  <2>7. Len(a) = Len(r) /\ \A j \in 1..Len(r) : a[j] = r[j]
    BY <1>1, <1>6, <2>5, SMTT(10)
  <2>8. Len(b) = Len(r) /\ \A j \in 1..Len(r) : b[j] = s[j]
    BY <1>1, <1>6, <2>6, SMTT(10)
  <2>9. (\A j \in 1..Len(r) : a[j] = b[j]) => a = b
    BY <2>5, <2>6, <2>7, <2>8, SeqEqual
  <2> QED BY <1>6, <2>3, <2>7, <2>8, <2>9
<1>8. ASSUME Len(t) <= i
      PROVE  (\A j \in 1..Len(t) : r[j] = s[j]) <=> \A j \in 1..Len(t) : t[j] = u[i - Len(t) + j]
  <2>1. ASSUME NEW j \in 1..Len(t)
        PROVE  /\ Len(t) - j + 1 \in 1..Len(t) /\ j \in 1..i /\ Len(t) - j + 1 \in 1..i
               /\ i - j + 1 = i - Len(t) + (Len(t) - j + 1)
               /\ i - (Len(t) - j + 1) + 1 = i - Len(t) + j
               /\ Len(t) - (Len(t) - j + 1) + 1 = j
    BY <1>1, <1>3, <1>8, SMTT(10)
  <2>2. \A j \in 1..Len(t) : r[j] = t[Len(t) - j + 1] /\ s[j] = u[i - Len(t) + (Len(t) - j + 1)]
    BY <1>6, <2>1
  <2>3. ASSUME NEW j \in 1..Len(t)
        PROVE  r[Len(t) - j + 1] = t[j] /\ s[Len(t) - j + 1] = u[i - Len(t) + j]
    <3>1. PICK k : k = Len(t) - j + 1
      OBVIOUS
    <3>2. k \in 1..Len(t) /\ k \in 1..i /\ Len(t) - k + 1 = j /\ i - k + 1 = i - Len(t) + j
      BY <2>1, <3>1
    <3>3. r[k] = t[Len(t) - k + 1] /\ s[k] = u[i - k + 1]
      BY <1>6, <3>2
    <3> QED BY <3>1, <3>2, <3>3
  <2>4. ASSUME \A j \in 1..Len(t) : r[j] = s[j], NEW j \in 1..Len(t)
        PROVE  t[j] = u[i - Len(t) + j]
    BY <2>1, <2>3, <2>4
  <2>5. ASSUME \A j \in 1..Len(t) : t[j] = u[i - Len(t) + j], NEW j \in 1..Len(t)
        PROVE  r[j] = s[j]
    <3>1. PICK k : k = Len(t) - j + 1
      OBVIOUS
    <3>2. k \in 1..Len(t)
      BY <2>1, <3>1
    <3>3. t[k] = u[i - Len(t) + k]
      BY <2>5, <3>2
    <3> QED BY <2>2, <3>1, <3>3
  <2> QED BY <2>4, <2>5
<1>9. EndsAt(t, w, i) <=> Len(r) <= Len(s) /\ SubSeq(r, 1, Len(r)) = SubSeq(s, 1, Len(r))
  BY <1>2, <1>3, <1>4 DEF EndsAt, IsSuffix, IsPrefix
<1>10. Suf(t, u) <=> Len(t) <= i /\ \A j \in 1..Len(t) : t[j] = u[i - Len(t) + j]
  BY <1>3 DEF Suf
<1> QED BY <1>2, <1>6, <1>7, <1>8, <1>9, <1>10

-----------------------------------------------------------------------------
(* Inputs in order, and folds *)

\* The module of the first machine and that of the second mean the same.
LEMMA SameInputs ==
  /\ V1!Inputs = Inputs /\ Inputs = 0..(AlphabetSize - 1) /\ IsFiniteSet(Inputs)
  /\ \A x \in Inputs : x \in Int
<1>1. AlphabetSize - 1 \in Int /\ 0 \in Int
  BY RowsAssumption, SMTT(10)
<1>2. IsFiniteSet(Inputs)
  BY <1>1, FS_Interval DEF Inputs
<1>3. \A x \in Inputs : x \in Int
  BY <1>1, SMTT(10) DEF Inputs
<1> QED BY <1>2, <1>3 DEF Inputs, V1!Inputs

\* The copies of Cardinality in the two modules mean the same.
LEMMA SameCardinality == ASSUME NEW Q PROVE V1!Cardinality(Q) = Cardinality(Q)
BY DEF V1!Cardinality, Cardinality

\* Ascending counts a finite set of integers through, each once.
LEMMA AscendingOrders ==
  ASSUME NEW S, IsFiniteSet(S), \A x \in S : x \in Int
  PROVE  /\ Cardinality(S) \in Nat
         /\ Ascending(S) \in [1..Cardinality(S) -> S]
         /\ \A x \in S : \E k \in 1..Cardinality(S) : Ascending(S)[k] = x
         /\ \A k, m \in 1..Cardinality(S) : Ascending(S)[k] = Ascending(S)[m] => k = m
         /\ \A k \in 1..Cardinality(S) :
              Cardinality({ y \in S : y < Ascending(S)[k] }) = k - 1
         /\ \A k, m \in 1..Cardinality(S) : k < m => Ascending(S)[k] < Ascending(S)[m]
<1>1. IsFiniteSet(S) /\ Cardinality(S) \in Nat /\ \A x \in S : x \in Int
  BY FS_CardinalityType
<1>2. PICK n : n = Cardinality(S)
  OBVIOUS
<1>3. n \in Nat
  BY <1>1, <1>2
<1> DEFINE Less(x) == { y \in S : y < x }
           rank == [x \in S |-> Cardinality(Less(x))]
<1>4. ASSUME NEW x \in S
      PROVE  /\ IsFiniteSet(Less(x)) /\ Cardinality(Less(x)) \in 0..(n - 1)
             /\ \A z \in S : x < z => Cardinality(Less(x)) < Cardinality(Less(z))
  <2>1. \A z \in S : IsFiniteSet(Less(z)) /\ Cardinality(Less(z)) \in Nat
    <3> TAKE z \in S
    <3>1. Less(z) \in SUBSET S
      OBVIOUS
    <3> QED BY <1>1, <3>1, FS_Subset, FS_CardinalityType
  <2>2. x \notin Less(x)
    BY <1>1, SMTT(10)
  <2>3. Cardinality(Less(x) \cup {x}) = Cardinality(Less(x)) + 1
    <3> HIDE DEF Less
    <3> QED BY <2>1, <2>2, FS_AddElement
  <2>4. Cardinality(Less(x) \cup {x}) <= n
    <3>1. Less(x) \cup {x} \in SUBSET S
      OBVIOUS
    <3> HIDE DEF Less
    <3> QED BY <1>1, <1>2, <3>1, FS_Subset
  <2>5. ASSUME NEW z \in S, x < z
        PROVE  Cardinality(Less(x)) < Cardinality(Less(z))
    <3>1. Less(x) \cup {x} \in SUBSET Less(z)
      BY <1>1, <2>5, SMTT(10)
    <3>2. Cardinality(Less(x) \cup {x}) <= Cardinality(Less(z))
      <4> HIDE DEF Less
      <4> QED BY <2>1, <3>1, FS_Subset
    <3> HIDE DEF Less
    <3> QED BY <2>1, <2>3, <3>2, SMTT(10)
  <2>6. Cardinality(Less(x)) \in 0..(n - 1)
    <3> HIDE DEF Less
    <3> QED BY <1>3, <2>1, <2>3, <2>4, SMTT(10)
  <2> QED BY <2>1, <2>5, <2>6
<1>5. ASSUME NEW x \in S, NEW z \in S, rank[x] = rank[z]
      PROVE  x = z
  <2>1. rank[x] = Cardinality(Less(x)) /\ rank[z] = Cardinality(Less(z))
    OBVIOUS
  <2>2. x \in Int /\ z \in Int /\ rank[x] \in Int
    <3>1. Cardinality(Less(x)) \in 0..(n - 1)
      BY <1>4
    <3> HIDE DEF Less, rank
    <3> QED BY <1>1, <1>3, <2>1, <3>1, SMTT(10)
  <2>3. ~(x < z) /\ ~(z < x)
    <3>1. x < z => rank[x] < rank[z]
      BY <1>4, <2>1
    <3>2. z < x => rank[z] < rank[x]
      BY <1>4, <2>1
    <3> HIDE DEF rank, Less
    <3> QED BY <1>5, <2>2, <3>1, <3>2, SMTT(10)
  <2> HIDE DEF rank, Less
  <2> QED BY <2>2, <2>3, SMTT(10)
<1>6. \A q \in 0..(n - 1) : \E x \in S : rank[x] = q
  <2>1. rank \in Injection(S, 0..(n - 1))
    <3>1. rank \in [S -> 0..(n - 1)]
      BY <1>4
    <3> HIDE DEF rank
    <3> QED BY <1>5, <3>1 DEF Injection, IsInjective
  <2>2. IsFiniteSet(0..(n - 1)) /\ Cardinality(0..(n - 1)) = n
    <3>1. n - 1 \in Int /\ 0 \in Int
      BY <1>3, SMTT(10)
    <3>2. Cardinality(0..(n - 1)) = IF 0 > n - 1 THEN 0 ELSE n - 1 - 0 + 1
      BY <3>1, FS_Interval
    <3> QED BY <1>3, <3>1, <3>2, FS_Interval, SMTT(10)
  <2>3. rank \in Surjection(S, 0..(n - 1))
    <3> HIDE DEF rank
    <3> QED BY <1>2, <2>1, <2>2, FS_Injection
  <2> HIDE DEF rank
  <2> QED BY <2>3 DEF Surjection
<1>7. PICK a : a = Ascending(S)
  OBVIOUS
<1>8. a = [k \in 1..n |-> CHOOSE x \in S : rank[x] = k - 1]
  <2> DEFINE Chosen(k) == CHOOSE x \in S : rank[x] = k - 1
             Counted(k) == CHOOSE x \in S : Cardinality({ y \in S : y < x }) = k - 1
  <2>1. \A k : Chosen(k) = Counted(k)
    OBVIOUS
  <2>2. a = [k \in 1..n |-> Counted(k)]
    BY <1>2, <1>7 DEF Ascending
  <2>3. a = [k \in 1..n |-> Chosen(k)]
    <3> HIDE DEF Chosen, Counted
    <3> QED BY <2>1, <2>2
  <2> QED BY <2>3
<1> HIDE DEF rank, Less
<1>9. ASSUME NEW k \in 1..n
      PROVE  a[k] \in S /\ rank[a[k]] = k - 1
  <2>1. k - 1 \in 0..(n - 1)
    BY <1>3, SMTT(10)
  <2>2. \E x \in S : rank[x] = k - 1
    BY <1>6, <2>1
  <2>3. a[k] = CHOOSE x \in S : rank[x] = k - 1
    BY <1>8
  <2> QED BY <2>2, <2>3
<1>10. a \in [1..n -> S]
  BY <1>8, <1>9
<1>11. ASSUME NEW x \in S
       PROVE  \E k \in 1..n : a[k] = x
  <2>1. PICK r : r = rank[x]
    OBVIOUS
  <2>2. r \in 0..(n - 1)
    BY <1>4, <2>1 DEF rank
  <2>3. r + 1 \in 1..n /\ (r + 1) - 1 = r
    BY <1>3, <2>2, SMTT(10)
  <2>4. a[r + 1] \in S /\ rank[a[r + 1]] = r
    BY <1>9, <2>3
  <2> QED BY <1>5, <2>1, <2>3, <2>4
<1>12. ASSUME NEW k \in 1..n, NEW m \in 1..n, a[k] = a[m]
       PROVE  k = m
  <2>1. k - 1 = m - 1
    BY <1>9, <1>12
  <2> QED BY <1>3, <2>1, SMTT(10)
<1>13. ASSUME NEW k \in 1..n
       PROVE  Cardinality({ y \in S : y < a[k] }) = k - 1
  BY <1>9 DEF rank, Less
<1>14. ASSUME NEW k \in 1..n, NEW m \in 1..n, k < m
       PROVE  a[k] < a[m]
  <2>1. PICK x, y : x = a[k] /\ y = a[m]
    OBVIOUS
  <2>2. x \in S /\ y \in S /\ rank[x] = k - 1 /\ rank[y] = m - 1
    BY <1>9, <2>1
  <2>3. y < x => rank[y] < rank[x]
    BY <1>4, <2>2 DEF rank
  <2>4. x # y /\ ~(y < x)
    BY <1>3, <1>14, <2>2, <2>3, SMTT(10)
  <2>5. x \in Int /\ y \in Int
    BY <1>1, <2>2
  <2> QED BY <2>1, <2>4, <2>5, SMTT(10)
<1> QED BY <1>1, <1>2, <1>7, <1>10, <1>11, <1>12, <1>13, <1>14

\* So it does with a set of inputs.
LEMMA AscendingRanks ==
  ASSUME NEW S \in SUBSET Inputs
  PROVE  /\ Cardinality(S) \in Nat
         /\ Ascending(S) \in [1..Cardinality(S) -> S]
         /\ \A x \in S : \E k \in 1..Cardinality(S) : Ascending(S)[k] = x
         /\ \A k, m \in 1..Cardinality(S) : Ascending(S)[k] = Ascending(S)[m] => k = m
         /\ \A k \in 1..Cardinality(S) :
              Cardinality({ y \in S : y < Ascending(S)[k] }) = k - 1
         /\ \A k, m \in 1..Cardinality(S) : k < m => Ascending(S)[k] < Ascending(S)[m]
<1>1. IsFiniteSet(S) /\ \A x \in S : x \in Int
  BY SameInputs, FS_Subset
<1> QED BY <1>1, AscendingOrders

\* In particular it is a count.
LEMMA AscendingCounts ==
  ASSUME NEW S \in SUBSET Inputs
  PROVE  /\ Cardinality(S) \in Nat
         /\ Ascending(S) \in [1..Cardinality(S) -> S]
         /\ \A x \in S : \E k \in 1..Cardinality(S) : Ascending(S)[k] = x
         /\ \A k, m \in 1..Cardinality(S) : Ascending(S)[k] = Ascending(S)[m] => k = m
BY AscendingRanks

\* Some of the first m positive numbers have a greatest.
LEMMA GreatestPlace ==
  ASSUME NEW m \in Nat, NEW u \in SUBSET (1..m), u # {}
  PROVE  V1!Max(u) \in u /\ \A y \in u : y <= V1!Max(u)
<1>1. { m - y : y \in u } \in SUBSET Nat
  BY SMTT(10)
<1>2. PICK x \in u : \A y \in u : m - x <= m - y
  <2>1. { m - y : y \in u } # {}
    OBVIOUS
  <2>2. PICK z \in { m - y : y \in u } : \A v \in { m - y : y \in u } : z <= v
    BY <1>1, <2>1, LeastNatural
  <2> QED BY <2>2
<1>3. \A y \in u : x >= y
  BY <1>2, SMTT(10)
<1>4. V1!Max(u) \in u /\ \A y \in u : V1!Max(u) >= y
  BY <1>3 DEF V1!Max
<1>5. \A y \in u : y \in Int
  BY SMTT(10)
<1> QED BY <1>4, <1>5, SMTT(10)

\* The greatest of the first m numbers, and what is left without the greatest.
LEMMA WithoutGreatest ==
  ASSUME NEW m \in Nat, m # 0
  PROVE  /\ V1!Max(1..m) = m /\ 1..m # {} /\ (1..m) \ {m} = 1..(m - 1)
         /\ \A u \in SUBSET (1..m) : u # {} =>
              /\ V1!Max(u) \in 1..m /\ u \ {V1!Max(u)} \in SUBSET (1..(m - 1))
              /\ m \in u => V1!Max(u) = m
              /\ m \notin u => V1!Max(u) \in 1..(m - 1) /\ u \in SUBSET (1..(m - 1))
<1>1. m \in 1..m /\ (1..m) \ {m} = 1..(m - 1)
  BY SMTT(10)
<1>2. ASSUME NEW u \in SUBSET (1..m), u # {}
      PROVE  /\ V1!Max(u) \in 1..m /\ u \ {V1!Max(u)} \in SUBSET (1..(m - 1))
             /\ m \in u => V1!Max(u) = m
             /\ m \notin u => V1!Max(u) \in 1..(m - 1) /\ u \in SUBSET (1..(m - 1))
  <2>1. PICK x : x = V1!Max(u)
    OBVIOUS
  <2>2. x \in u /\ \A y \in u : y <= x
    BY <1>2, <2>1, GreatestPlace
  <2>3. x \in 1..m
    BY <2>2
  <2>4. m \in u => x = m
    BY <2>2, <2>3, SMTT(10)
  <2>5. \A y \in u \ {x} : y \in 1..(m - 1)
    BY <2>2, <2>3, SMTT(10)
  <2>6. m \notin u => x \in 1..(m - 1)
    BY <2>2, <2>3, SMTT(10)
  <2> QED BY <2>1, <2>3, <2>4, <2>5, <2>6
<1>3. V1!Max(1..m) = m
  BY <1>1, <1>2
<1> QED BY <1>1, <1>2, <1>3

\* What AddByte makes of a word.
Folded(base, w) == V1!FoldLeft(V1!AddByte, base, w)

\* The bytes of a text are added from the first to the last.
LEMMA AddBytes ==
  ASSUME NEW base, NEW w \in Seq(Inputs)
  PROVE  \E g : /\ g[0] = base /\ \A k \in 1..Len(w) : g[k] = V1!AddByte(g[k - 1], w[k])
                /\ Folded(base, w) = g[Len(w)]
<1>1. Len(w) \in Nat /\ DOMAIN w = 1..Len(w)
  BY LenProperties
<1> DEFINE Iterates(it, m) ==
      it = [u \in SUBSET (1..m) |->
              IF u = {} THEN base ELSE V1!AddByte(it[u \ {V1!Max(u)}], w[V1!Max(u)])]
    bad == { m \in Nat : ~\E it : Iterates(it, m) }
<1>2. bad = {}
  <2> SUFFICES ASSUME bad # {}
               PROVE  FALSE
    OBVIOUS
  <2>1. PICK m \in bad : \A x \in bad : m <= x
    <3>1. bad \in SUBSET Nat
      OBVIOUS
    <3> HIDE DEF bad
    <3> QED BY <3>1, LeastNatural
  <2>2. CASE m = 0
    <3>1. 1..m = {}
      BY <2>2, SMTT(10)
    <3> DEFINE none == [u \in SUBSET (1..m) |-> base]
    <3>2. none = [u \in SUBSET (1..m) |->
                    IF u = {} THEN base ELSE V1!AddByte(none[u \ {V1!Max(u)}], w[V1!Max(u)])]
      BY <3>1
    <3>3. Iterates(none, m)
      BY <3>2
    <3> QED BY <2>1, <3>3
  <2>3. CASE m # 0
    <3>1. m - 1 \in Nat /\ m - 1 < m
      BY <2>3, SMTT(10)
    <3>2. PICK it : Iterates(it, m - 1)
      <4>1. m \in Nat /\ ~(m <= m - 1)
        BY <2>1, SMTT(10)
      <4>2. m - 1 \notin bad
        <5> HIDE DEF bad
        <5> QED BY <2>1, <4>1
      <4> QED BY <3>1, <4>2
    <3> DEFINE more == [u \in SUBSET (1..m) |->
                          IF m \in u THEN V1!AddByte(it[u \ {m}], w[m]) ELSE it[u]]
    <3>3. ASSUME NEW u \in SUBSET (1..m)
          PROVE  more[u] = IF u = {} THEN base ELSE V1!AddByte(more[u \ {V1!Max(u)}], w[V1!Max(u)])
      <4> HIDE DEF more
      <4>1. /\ more[u] = IF m \in u THEN V1!AddByte(it[u \ {m}], w[m]) ELSE it[u]
            /\ \A x \in SUBSET (1..(m - 1)) : more[x] = it[x]
        <5>1. 1..(m - 1) \subseteq 1..m /\ m \notin 1..(m - 1)
          BY SMTT(10)
        <5> QED BY <5>1 DEF more
      <4>2. \A x \in SUBSET (1..(m - 1)) :
              it[x] = IF x = {} THEN base ELSE V1!AddByte(it[x \ {V1!Max(x)}], w[V1!Max(x)])
        BY <3>2
      <4> HIDE DEF Iterates
      <4>3. CASE u = {}
        BY <4>1, <4>2, <4>3
      <4>4. CASE u # {} /\ m \in u
        <5>1. V1!Max(u) = m /\ u \ {m} \in SUBSET (1..(m - 1))
          BY <2>3, <4>4, WithoutGreatest
        <5> QED BY <4>1, <4>4, <5>1
      <4>5. CASE u # {} /\ m \notin u
        <5>1. u \in SUBSET (1..(m - 1)) /\ u \ {V1!Max(u)} \in SUBSET (1..(m - 1))
          BY <2>3, <4>5, WithoutGreatest
        <5> QED BY <4>1, <4>2, <4>5, <5>1
      <4> QED BY <4>3, <4>4, <4>5
    <3>4. Iterates(more, m)
      <4>1. more = [u \in SUBSET (1..m) |-> more[u]]
        OBVIOUS
      <4> HIDE DEF more
      <4> QED BY <3>3, <4>1
    <3> QED BY <2>1, <3>4
  <2> QED BY <2>2, <2>3
<1>3. PICK it : Iterates(it, Len(w))
  BY <1>1, <1>2
<1> DEFINE I == CHOOSE f : f = [u \in SUBSET (DOMAIN w) |->
                   IF u = {} THEN base ELSE V1!AddByte(f[u \ {V1!Max(u)}], w[V1!Max(u)])]
<1>4. I = [u \in SUBSET (DOMAIN w) |->
             IF u = {} THEN base ELSE V1!AddByte(I[u \ {V1!Max(u)}], w[V1!Max(u)])]
  BY <1>1, <1>3
<1>5. Folded(base, w) = I[DOMAIN w]
  BY DEF Folded, V1!FoldLeft, V1!MapThenFoldSet
<1> HIDE DEF I
<1>6. PICK g : g = [k \in 0..Len(w) |-> I[1..k]]
  OBVIOUS
<1>7. g[0] = base /\ g[Len(w)] = I[DOMAIN w]
  <2>1. 1..0 = {} /\ 0 \in 0..Len(w) /\ Len(w) \in 0..Len(w)
    BY <1>1, SMTT(10)
  <2> QED BY <1>1, <1>4, <1>6, <2>1
<1>8. ASSUME NEW k \in 1..Len(w)
      PROVE  g[k] = V1!AddByte(g[k - 1], w[k])
  <2>1. k \in Nat /\ k # 0 /\ k \in 0..Len(w) /\ k - 1 \in 0..Len(w) /\ 1..k \subseteq 1..Len(w)
    BY <1>1, SMTT(10)
  <2>2. V1!Max(1..k) = k /\ 1..k # {} /\ (1..k) \ {k} = 1..(k - 1)
    BY <2>1, WithoutGreatest
  <2>3. I[1..k] = V1!AddByte(I[1..(k - 1)], w[k])
    BY <1>1, <1>4, <2>1, <2>2
  <2> QED BY <1>6, <2>1, <2>3
<1> QED BY <1>5, <1>7, <1>8

\* What acsmAddPattern makes of a text.
Entry == [patrn : Seq(Inputs), casepatrn : Seq(Inputs), nocase : BOOLEAN, id : Nat]

\* g counts the states that the first patterns may need.
Totals(g) ==
  /\ g[0] = 1 /\ \A k \in 1..Len(patterns) : g[k] = g[k - 1] + Len(patterns[k].patrn)
  /\ \A k \in 0..Len(patterns) : g[k] \in Nat /\ g[k] <= g[Len(patterns)]
  /\ g[Len(patterns)] = V1!MaxStates

\* The states that acsmCompile counts.
LEMMA StatesCounted ==
  ASSUME patterns \in Seq(Entry)
  PROVE  \E g : Totals(g)
<1>1. Len(patterns) \in Nat /\ DOMAIN patterns = 1..Len(patterns)
  BY LenProperties
<1>2. \A j \in 1..Len(patterns) : Len(patterns[j].patrn) \in Nat
  <2> TAKE j \in 1..Len(patterns)
  <2>1. patterns[j] \in Entry
    BY ElementOfSeq
  <2> QED BY <2>1, LenProperties DEF Entry
<1> DEFINE Iterates(it, m) ==
      it = [u \in SUBSET (1..m) |->
              IF u = {} THEN 1 ELSE it[u \ {V1!Max(u)}] + Len(patterns[V1!Max(u)].patrn)]
    bad == { m \in Nat : ~\E it : Iterates(it, m) }
<1>3. bad = {}
  <2> SUFFICES ASSUME bad # {}
               PROVE  FALSE
    OBVIOUS
  <2>1. PICK m \in bad : \A x \in bad : m <= x
    <3>1. bad \in SUBSET Nat
      OBVIOUS
    <3> HIDE DEF bad
    <3> QED BY <3>1, LeastNatural
  <2>2. CASE m = 0
    <3>1. 1..m = {}
      BY <2>2, SMTT(10)
    <3> DEFINE none == [u \in SUBSET (1..m) |-> 1]
    <3>2. none = [u \in SUBSET (1..m) |->
                    IF u = {} THEN 1 ELSE none[u \ {V1!Max(u)}] + Len(patterns[V1!Max(u)].patrn)]
      BY <3>1
    <3>3. Iterates(none, m)
      BY <3>2
    <3> QED BY <2>1, <3>3
  <2>3. CASE m # 0
    <3>1. m - 1 \in Nat /\ m - 1 < m
      BY <2>3, SMTT(10)
    <3>2. PICK it : Iterates(it, m - 1)
      <4>1. m \in Nat /\ ~(m <= m - 1)
        BY <2>1, SMTT(10)
      <4>2. m - 1 \notin bad
        <5> HIDE DEF bad
        <5> QED BY <2>1, <4>1
      <4> QED BY <3>1, <4>2
    <3> DEFINE more == [u \in SUBSET (1..m) |->
                          IF m \in u THEN it[u \ {m}] + Len(patterns[m].patrn) ELSE it[u]]
    <3>3. ASSUME NEW u \in SUBSET (1..m)
          PROVE  more[u] = IF u = {} THEN 1
                           ELSE more[u \ {V1!Max(u)}] + Len(patterns[V1!Max(u)].patrn)
      <4> HIDE DEF more
      <4>1. /\ more[u] = IF m \in u THEN it[u \ {m}] + Len(patterns[m].patrn) ELSE it[u]
            /\ \A x \in SUBSET (1..(m - 1)) : more[x] = it[x]
        <5>1. 1..(m - 1) \subseteq 1..m /\ m \notin 1..(m - 1)
          BY SMTT(10)
        <5> QED BY <5>1 DEF more
      <4>2. \A x \in SUBSET (1..(m - 1)) :
              it[x] = IF x = {} THEN 1 ELSE it[x \ {V1!Max(x)}] + Len(patterns[V1!Max(x)].patrn)
        BY <3>2
      <4> HIDE DEF Iterates
      <4>3. CASE u = {}
        BY <4>1, <4>2, <4>3
      <4>4. CASE u # {} /\ m \in u
        <5>1. V1!Max(u) = m /\ u \ {m} \in SUBSET (1..(m - 1))
          BY <2>3, <4>4, WithoutGreatest
        <5> QED BY <4>1, <4>4, <5>1
      <4>5. CASE u # {} /\ m \notin u
        <5>1. u \in SUBSET (1..(m - 1)) /\ u \ {V1!Max(u)} \in SUBSET (1..(m - 1))
          BY <2>3, <4>5, WithoutGreatest
        <5> QED BY <4>1, <4>2, <4>5, <5>1
      <4> QED BY <4>3, <4>4, <4>5
    <3>4. Iterates(more, m)
      <4>1. more = [u \in SUBSET (1..m) |-> more[u]]
        OBVIOUS
      <4> HIDE DEF more
      <4> QED BY <3>3, <4>1
    <3> QED BY <2>1, <3>4
  <2> QED BY <2>2, <2>3
<1>4. PICK it : Iterates(it, Len(patterns))
  BY <1>1, <1>3
<1> DEFINE I == CHOOSE f : f = [u \in SUBSET (DOMAIN patterns) |->
                   IF u = {} THEN 1 ELSE f[u \ {V1!Max(u)}] + Len(patterns[V1!Max(u)].patrn)]
<1>5. I = [u \in SUBSET (DOMAIN patterns) |->
             IF u = {} THEN 1 ELSE I[u \ {V1!Max(u)}] + Len(patterns[V1!Max(u)].patrn)]
  BY <1>1, <1>4
<1>6. V1!MaxStates = I[DOMAIN patterns]
  BY DEF V1!MaxStates, V1!FoldLeft, V1!MapThenFoldSet
<1> HIDE DEF I
<1>7. PICK g : g = [k \in 0..Len(patterns) |-> I[1..k]]
  OBVIOUS
<1>8. g[0] = 1 /\ g[Len(patterns)] = V1!MaxStates
  <2>1. 1..0 = {} /\ 0 \in 0..Len(patterns) /\ Len(patterns) \in 0..Len(patterns)
    BY <1>1, SMTT(10)
  <2> QED BY <1>1, <1>5, <1>6, <1>7, <2>1
<1>9. ASSUME NEW k \in 1..Len(patterns)
      PROVE  g[k] = g[k - 1] + Len(patterns[k].patrn)
  <2>1. k \in Nat /\ k # 0 /\ k \in 0..Len(patterns) /\ k - 1 \in 0..Len(patterns)
        /\ 1..k \subseteq 1..Len(patterns)
    BY <1>1, SMTT(10)
  <2>2. V1!Max(1..k) = k /\ 1..k # {} /\ (1..k) \ {k} = 1..(k - 1)
    BY <2>1, WithoutGreatest
  <2>3. I[1..k] = I[1..(k - 1)] + Len(patterns[k].patrn)
    BY <1>1, <1>5, <2>1, <2>2
  <2> QED BY <1>7, <2>1, <2>3
<1>10. ASSUME NEW k \in 0..Len(patterns)
       PROVE  g[k] \in Nat /\ \A m \in 0..k : g[m] <= g[k]
  <2> DEFINE wrong == { x \in 0..Len(patterns) : ~(g[x] \in Nat /\ \A m \in 0..x : g[m] <= g[x]) }
  <2>1. wrong = {}
    <3> SUFFICES ASSUME wrong # {}
                 PROVE  FALSE
      OBVIOUS
    <3>1. wrong \in SUBSET Nat
      BY <1>1, SMTT(10)
    <3>2. PICK x \in wrong : \A y \in wrong : x <= y
      <4> HIDE DEF wrong
      <4> QED BY <3>1, LeastNatural
    <3>3. x \in 0..Len(patterns) /\ ~(g[x] \in Nat /\ \A m \in 0..x : g[m] <= g[x])
      OBVIOUS
    <3>4. x # 0
      <4>1. x = 0 => \A m \in 0..x : m = 0
        BY SMTT(10)
      <4> QED BY <1>8, <3>3, <4>1, SMTT(10)
    <3>5. x - 1 \in 0..Len(patterns) /\ x \in 1..Len(patterns) /\ ~(x <= x - 1)
      BY <1>1, <3>3, <3>4, SMTT(10)
    <3>6. g[x - 1] \in Nat /\ \A m \in 0..(x - 1) : g[m] <= g[x - 1]
      BY <3>2, <3>5
    <3>7. g[x] = g[x - 1] + Len(patterns[x].patrn) /\ Len(patterns[x].patrn) \in Nat
      BY <1>2, <1>9, <3>5
    <3>8. \A m \in 0..x : m \in 0..(x - 1) \/ m = x
      BY <3>3, SMTT(10)
    <3>9. ASSUME NEW m \in 0..x
          PROVE  g[m] <= g[x]
      <4>1. CASE m = x
        BY <3>6, <3>7, <4>1, SMTT(10)
      <4>2. CASE m \in 0..(x - 1)
        <5>1. g[m] <= g[x - 1] /\ m \in 0..Len(patterns) /\ ~(x <= m)
          BY <1>1, <3>3, <3>6, <4>2, SMTT(10)
        <5>2. g[m] \in Nat
          BY <3>2, <5>1
        <5> HIDE DEF wrong
        <5> QED BY <3>6, <3>7, <5>1, <5>2, SMTT(10)
      <4> QED BY <3>8, <4>1, <4>2
    <3>10. g[x] \in Nat
      BY <3>6, <3>7, SMTT(10)
    <3> QED BY <3>3, <3>9, <3>10
  <2> QED BY <2>1
<1>11. \A k \in 0..Len(patterns) : g[k] <= g[Len(patterns)]
  <2>1. Len(patterns) \in 0..Len(patterns)
    BY <1>1, SMTT(10)
  <2> QED BY <1>10, <2>1
<1> QED BY <1>8, <1>9, <1>10, <1>11 DEF Totals

-----------------------------------------------------------------------------
(* The keyword trie *)

\* The prefixes of a word.
LEMMA PrefixWords ==
  ASSUME NEW w \in Seq(Inputs)
  PROVE  /\ SubSeq(w, 1, 0) = <<>> /\ SubSeq(w, 1, Len(w)) = w
         /\ \A k \in 1..Len(w) : /\ SubSeq(w, 1, k) = Append(SubSeq(w, 1, k - 1), w[k])
                                 /\ w[k] \in Inputs
         /\ \A k \in 0..Len(w) : /\ SubSeq(w, 1, k) \in Seq(Inputs) /\ Len(SubSeq(w, 1, k)) = k
                                 /\ \A j \in 1..k : SubSeq(w, 1, k)[j] = w[j]
<1>1. Len(w) \in Nat
  BY LenProperties
<1>2. ASSUME NEW k \in 0..Len(w), NEW u, u = SubSeq(w, 1, k)
      PROVE  u \in Seq(Inputs) /\ Len(u) = k /\ \A j \in 1..k : u[j] = w[j]
  <2>1. \A j \in 1..k : w[j] \in Inputs
    <3>1. \A j \in 1..k : j \in 1..Len(w)
      BY <1>1, SMTT(10)
    <3> QED BY <3>1, ElementOfSeq
  <2>2. k \in Int /\ 1 \in Int /\ k - 1 + 1 = k
    BY SMTT(10)
  <2>3. /\ u \in Seq(Inputs) /\ Len(u) = IF 1 <= k THEN k - 1 + 1 ELSE 0
        /\ \A j \in 1..(k - 1 + 1) : u[j] = w[1 + j - 1]
    BY <1>2, <2>1, <2>2, SubSeqProperties
  <2>4. Len(u) = k
    BY <2>3, SMTT(10)
  <2>5. \A j \in 1..k : 1 + j - 1 = j
    BY SMTT(10)
  <2> QED BY <2>2, <2>3, <2>4, <2>5
<1>3. SubSeq(w, 1, 0) = <<>>
  <2>1. 0 \in 0..Len(w)
    BY <1>1, SMTT(10)
  <2> QED BY <1>2, <2>1, EmptySeq
<1>4. SubSeq(w, 1, Len(w)) = w
  <2>1. Len(w) \in 0..Len(w)
    BY <1>1, SMTT(10)
  <2>2. PICK u : u = SubSeq(w, 1, Len(w))
    OBVIOUS
  <2>3. u \in Seq(Inputs) /\ Len(u) = Len(w) /\ \A j \in 1..Len(u) : u[j] = w[j]
    BY <1>2, <2>1, <2>2
  <2>4. u = w
    BY <2>3, SeqEqual
  <2> QED BY <2>2, <2>4
<1>5. ASSUME NEW k \in 1..Len(w)
      PROVE  SubSeq(w, 1, k) = Append(SubSeq(w, 1, k - 1), w[k]) /\ w[k] \in Inputs
  <2>1. k \in 0..Len(w) /\ k - 1 \in 0..Len(w) /\ (k - 1) + 1 = k
        /\ \A j \in 1..k : j \in 1..(k - 1) \/ j = k
    BY <1>1, SMTT(10)
  <2>2. w[k] \in Inputs
    BY ElementOfSeq
  <2>3. PICK u, v, a : u = SubSeq(w, 1, k) /\ v = SubSeq(w, 1, k - 1) /\ a = Append(v, w[k])
    OBVIOUS
  <2>4. /\ u \in Seq(Inputs) /\ Len(u) = k /\ \A j \in 1..k : u[j] = w[j]
        /\ v \in Seq(Inputs) /\ Len(v) = k - 1 /\ \A j \in 1..(k - 1) : v[j] = w[j]
    BY <1>2, <2>1, <2>3
  <2>5. /\ a \in Seq(Inputs) /\ Len(a) = k /\ a[k] = w[k]
        /\ \A j \in 1..(k - 1) : a[j] = w[j]
    BY <2>1, <2>2, <2>3, <2>4, AppendWord
  <2>6. ASSUME NEW j \in 1..Len(u)
        PROVE  u[j] = a[j]
    <3>1. u[j] = w[j] /\ (j \in 1..(k - 1) \/ j = k)
      BY <2>1, <2>4
    <3> QED BY <2>5, <3>1
  <2>7. u = a
    BY <2>4, <2>5, <2>6, SeqEqual
  <2> QED BY <2>2, <2>3, <2>7
<1> QED BY <1>2, <1>3, <1>4, <1>5

\* The words st of the states 0..n: the empty one, and others with one input
\* more than that of another state.
Named(n, st) ==
  /\ n \in Nat /\ st \in [0..n -> Seq(Inputs)] /\ st[0] = <<>>
  /\ \A s, q \in 0..n : st[s] = st[q] => s = q
  /\ \A s \in 1..n : \E q \in 0..n, i \in Inputs : st[s] = Append(st[q], i)

\* The row of s leads to the states whose word is that of s and the input.
TrieRow(n, tr, st, s) ==
  \A i \in Inputs :
    \/ tr[s][i] = -1 /\ \A q \in 0..n : st[q] # Append(st[s], i)
    \/ tr[s][i] \in 1..n /\ st[tr[s][i]] = Append(st[s], i)

\* A table of rows for up to top + 1 states.
Trie(n, top, tr, st) ==
  /\ Named(n, st) /\ top \in Nat /\ n <= top
  /\ tr \in [0..top -> [Inputs -> Int]]
  /\ \A s \in 0..n : TrieRow(n, tr, st, s)
  /\ \A s \in (n + 1)..top, i \in Inputs : tr[s][i] = -1

\* What AddByte works on.
Adding(t, top) ==
  /\ t = [at |-> t.at, num |-> t.num, trans |-> t.trans, str |-> t.str]
  /\ t.at \in 0..t.num /\ Trie(t.num, top, t.trans, t.str)

\* A byte: one state more, or none, and the word at hand is longer by it.
LEMMA ByteAdded ==
  ASSUME NEW t, NEW top, Adding(t, top), NEW i \in Inputs, t.num < top,
         NEW u, u = V1!AddByte(t, i)
  PROVE  /\ Adding(u, top) /\ u.str[u.at] = Append(t.str[t.at], i)
         /\ t.num <= u.num /\ u.num <= t.num + 1
         /\ \A s \in 0..t.num : u.str[s] = t.str[s]
         /\ \A s \in 0..u.num : s \in 0..t.num \/ s = u.at
<1>1. PICK a, n, tr, st, w : a = t.at /\ n = t.num /\ tr = t.trans /\ st = t.str /\ w = Append(st[a], i)
  OBVIOUS
<1>2. /\ Named(n, st) /\ top \in Nat /\ n <= top /\ n < top /\ tr \in [0..top -> [Inputs -> Int]]
      /\ \A s \in 0..n : TrieRow(n, tr, st, s)
      /\ \A s \in (n + 1)..top, x \in Inputs : tr[s][x] = -1
      /\ a \in 0..n /\ n \in Nat /\ st \in [0..n -> Seq(Inputs)] /\ st[0] = <<>>
  <2>1. Trie(n, top, tr, st) /\ a \in 0..n /\ n < top
    BY <1>1 DEF Adding
  <2> QED BY <2>1 DEF Trie, Named
<1>3. t = [at |-> a, num |-> n, trans |-> tr, str |-> st]
  BY <1>1 DEF Adding
<1>4. CASE tr[a][i] # -1
  <2>1. u = [at |-> tr[a][i], num |-> n, trans |-> tr, str |-> st]
    <3>1. u = [t EXCEPT !.at = tr[a][i]]
      BY <1>1, <1>4 DEF V1!AddByte
    <3> QED BY <1>3, <3>1
  <2>2. tr[a][i] \in 1..n /\ st[tr[a][i]] = w
    BY <1>1, <1>2, <1>4 DEF TrieRow
  <2>3. tr[a][i] \in 0..n
    <3>1. n \in Nat
      BY <1>2
    <3>2. \A x \in 1..n : x \in 0..n
      BY <3>1, SMTT(10)
    <3> QED BY <2>2, <3>2
  <2>4. u.at = tr[a][i] /\ u.num = n /\ u.trans = tr /\ u.str = st
    BY <2>1
  <2>5. Adding(u, top)
    BY <1>2, <2>1, <2>3, <2>4 DEF Adding, Trie
  <2>6. n <= n /\ n <= n + 1
    BY <1>2, SMTT(10)
  <2> QED BY <1>1, <2>2, <2>4, <2>5, <2>6
<1>5. CASE tr[a][i] = -1
  <2>1. PICK m, tr2, st2 :
          /\ m = n + 1 /\ tr2 = [tr EXCEPT ![a][i] = m]
          /\ st2 = [s \in 0..m |-> IF s <= n THEN st[s] ELSE w]
    OBVIOUS
  <2>2. u = [at |-> m, num |-> m, trans |-> tr2, str |-> st2]
    <3>1. u = [at |-> t.num + 1, num |-> t.num + 1, trans |-> [t.trans EXCEPT ![t.at][i] = t.num + 1],
               str |-> [s \in 0..(t.num + 1) |-> IF s <= t.num THEN t.str[s] ELSE Append(t.str[t.at], i)]]
      BY <1>1, <1>5 DEF V1!AddByte
    <3> QED BY <1>1, <2>1, <3>1
  <2>3. /\ m \in Nat /\ m \in 0..m /\ m \in 1..m /\ ~(m <= n) /\ m <= top /\ 0 \in 0..n /\ n <= m
        /\ \A s \in 0..m : s \in 0..n \/ s = m
        /\ \A s \in 0..n : s \in 0..m /\ s <= n /\ s # m /\ s \in 0..top
        /\ \A s \in 1..m : s \in 1..n \/ s = m
        /\ \A s \in (m + 1)..top : s \in (n + 1)..top /\ s # a /\ s \in 0..top
        /\ \A s \in 1..n : s \in 1..m /\ s \in 0..n
        /\ m \in (n + 1)..top /\ m \in 0..top /\ m # a /\ m # -1 /\ -1 \notin 1..n
    <3>1. n \in Nat /\ top \in Nat /\ n < top /\ m = n + 1 /\ a \in 0..n
      BY <1>2, <2>1
    <3>2. /\ m \in Nat /\ m \in 0..m /\ m \in 1..m /\ ~(m <= n) /\ m <= top /\ 0 \in 0..n /\ n <= m
          /\ m \in (n + 1)..top /\ m \in 0..top /\ m # a /\ m # -1 /\ -1 \notin 1..n
      BY <3>1, SMTT(10)
    <3>3. \A s \in 0..m : s \in 0..n \/ s = m
      BY <3>1, SMTT(10)
    <3>4. \A s \in 0..n : s \in 0..m /\ s <= n /\ s # m /\ s \in 0..top
      BY <3>1, SMTT(10)
    <3>5. \A s \in 1..m : s \in 1..n \/ s = m
      BY <3>1, SMTT(10)
    <3>6. \A s \in (m + 1)..top : s \in (n + 1)..top /\ s # a /\ s \in 0..top
      BY <3>1, SMTT(10)
    <3>7. \A s \in 1..n : s \in 1..m /\ s \in 0..n
      BY <3>1, SMTT(10)
    <3> QED BY <3>2, <3>3, <3>4, <3>5, <3>6, <3>7
  <2>4. w \in Seq(Inputs) /\ w # <<>> /\ \A s \in 0..n : st[s] # w
    <3>1. \A s \in 0..n : st[s] # w
      <4>1. TrieRow(n, tr, st, a) /\ tr[a][i] \notin 1..n
        BY <1>2, <1>5, <2>3
      <4> QED BY <1>1, <4>1 DEF TrieRow
    <3>2. st[a] \in Seq(Inputs)
      BY <1>2
    <3> QED BY <1>1, <3>1, <3>2, AppendWord
  <2>5. /\ st2[m] = w /\ \A s \in 0..n : st2[s] = st[s]
    BY <2>1, <2>3
  <2>6. Named(m, st2)
    <3>1. st2 \in [0..m -> Seq(Inputs)]
      <4>1. \A s \in 0..m : st2[s] \in Seq(Inputs)
        BY <1>2, <2>3, <2>4, <2>5
      <4> QED BY <2>1, <4>1
    <3>2. st2[0] = <<>>
      BY <1>2, <2>3, <2>5
    <3>3. ASSUME NEW s \in 0..m, NEW q \in 0..m, st2[s] = st2[q]
          PROVE  s = q
      <4>1. (s \in 0..n \/ s = m) /\ (q \in 0..n \/ q = m)
        BY <2>3
      <4>2. \A x, y \in 0..n : st[x] = st[y] => x = y
        BY <1>2 DEF Named
      <4>3. CASE s \in 0..n /\ q \in 0..n
        BY <2>5, <3>3, <4>2, <4>3
      <4>4. CASE s = m \/ q = m
        BY <2>4, <2>5, <3>3, <4>1, <4>4
      <4> QED BY <4>1, <4>3, <4>4
    <3>4. ASSUME NEW s \in 1..m
          PROVE  \E q \in 0..m, x \in Inputs : st2[s] = Append(st2[q], x)
      <4>1. CASE s = m
        <5>1. st2[s] = Append(st2[a], i) /\ a \in 0..m
          BY <1>1, <1>2, <2>3, <2>5, <4>1
        <5> QED BY <5>1
      <4>2. CASE s \in 1..n
        <5>1. PICK q \in 0..n, x \in Inputs : st[s] = Append(st[q], x)
          BY <1>2, <4>2 DEF Named
        <5>2. s \in 0..n
          BY <2>3, <4>2
        <5> QED BY <2>3, <2>5, <5>1, <5>2
      <4> QED BY <2>3, <4>1, <4>2
    <3> QED BY <2>3, <3>1, <3>2, <3>3, <3>4 DEF Named
  <2>7. /\ tr2 \in [0..top -> [Inputs -> Int]] /\ tr2[a][i] = m
        /\ \A s \in 0..top, x \in Inputs : s # a \/ x # i => tr2[s][x] = tr[s][x]
    <3>1. a \in 0..top /\ m \in Int
      BY <1>2, <2>3, SMTT(10)
    <3>2. tr2 = [tr EXCEPT ![a] = [tr[a] EXCEPT ![i] = m]]
      BY <1>2, <2>1, <3>1
    <3> QED BY <1>2, <3>1, <3>2
  <2>8. ASSUME NEW s \in 0..m
        PROVE  TrieRow(m, tr2, st2, s)
    <3> SUFFICES ASSUME NEW x \in Inputs
                 PROVE  \/ tr2[s][x] = -1 /\ \A q \in 0..m : st2[q] # Append(st2[s], x)
                        \/ tr2[s][x] \in 1..m /\ st2[tr2[s][x]] = Append(st2[s], x)
      BY DEF TrieRow
    <3>1. CASE s = a /\ x = i
      <4>1. st2[s] = st[a]
        BY <1>2, <2>5, <3>1
      <4> QED BY <1>1, <2>3, <2>5, <2>7, <3>1, <4>1
    <3>2. CASE s \in 0..n /\ ~(s = a /\ x = i)
      <4>1. tr2[s][x] = tr[s][x] /\ st2[s] = st[s] /\ st[s] \in Seq(Inputs) /\ st[a] \in Seq(Inputs)
        BY <1>2, <2>3, <2>5, <2>7, <3>2
      <4>2. st2[m] # Append(st2[s], x)
        <5>1. CASE st[s] = st[a]
          <6>1. s = a
            BY <1>2, <3>2, <5>1 DEF Named
          <6> QED BY <1>1, <2>5, <3>2, <4>1, <6>1, SameAppend
        <5>2. CASE st[s] # st[a]
          <6>1. ASSUME Append(st[a], i) = Append(st[s], x)
                PROVE  FALSE
            BY <4>1, <5>2, <6>1, SameAppend
          <6> QED BY <1>1, <2>5, <4>1, <6>1
        <5> QED BY <5>1, <5>2
      <4>3. CASE tr[s][x] = -1 /\ \A q \in 0..n : st[q] # Append(st[s], x)
        BY <2>3, <2>5, <4>1, <4>2, <4>3
      <4>4. CASE tr[s][x] \in 1..n /\ st[tr[s][x]] = Append(st[s], x)
        BY <2>3, <2>5, <4>1, <4>4
      <4>5. TrieRow(n, tr, st, s)
        BY <1>2, <3>2
      <4> QED BY <4>3, <4>4, <4>5 DEF TrieRow
    <3>3. CASE s = m
      <4>1. tr2[s][x] = -1
        BY <1>2, <2>3, <2>7, <3>3
      <4>2. ASSUME NEW q \in 0..m, st2[q] = Append(st2[s], x)
            PROVE  FALSE
        <5>1. st2[s] = w /\ Append(w, x) \in Seq(Inputs) /\ Len(Append(w, x)) = Len(w) + 1 /\ Len(w) \in Nat
          BY <2>4, <2>5, <3>3, AppendWord
        <5>2. q # m
          <6>1. Append(w, x) # w
            BY <5>1, SMTT(10)
          <6> QED BY <2>5, <4>2, <5>1, <6>1
        <5>3. q \in 0..n /\ st[q] = Append(w, x)
          BY <2>3, <2>5, <4>2, <5>1, <5>2
        <5>4. q # 0
          BY <1>2, <2>4, <5>3, AppendWord
        <5>5. q \in 1..n
          BY <1>2, <5>3, <5>4, SMTT(10)
        <5>6. PICK p \in 0..n, y \in Inputs : st[q] = Append(st[p], y)
          BY <1>2, <5>5 DEF Named
        <5>7. st[p] \in Seq(Inputs)
          BY <1>2
        <5>8. st[p] = w
          BY <2>4, <5>3, <5>6, <5>7, SameAppend
        <5> QED BY <2>4, <5>8
      <4> QED BY <4>1, <4>2
    <3> QED BY <2>3, <3>1, <3>2, <3>3
  <2>9. ASSUME NEW s \in (m + 1)..top, NEW x \in Inputs
        PROVE  tr2[s][x] = -1
    <3>1. s \in (n + 1)..top /\ s # a /\ s \in 0..top
      BY <2>3
    <3> QED BY <1>2, <2>7, <3>1
  <2>10. Trie(m, top, tr2, st2)
    BY <1>2, <2>3, <2>6, <2>7, <2>8, <2>9 DEF Trie
  <2>11. u.at = m /\ u.num = m /\ u.trans = tr2 /\ u.str = st2
    BY <2>2
  <2>12. Adding(u, top)
    BY <2>2, <2>3, <2>10, <2>11 DEF Adding
  <2>13. n <= m /\ m <= n + 1
    BY <1>2, <2>1, SMTT(10)
  <2> QED BY <1>1, <2>3, <2>5, <2>11, <2>12, <2>13
<1> QED BY <1>4, <1>5

\* u is what k characters of w have made of b.
Added(b, u, top, w, k) ==
  /\ Adding(u, top) /\ u.str[u.at] = SubSeq(w, 1, k)
  /\ b.num <= u.num /\ u.num <= b.num + k
  /\ \A s \in 0..b.num : u.str[s] = b.str[s]
  /\ \A s \in 0..u.num : s \in 0..b.num \/ \E j \in 1..k : u.str[s] = SubSeq(w, 1, j)
  /\ \A j \in 1..k : \E s \in 0..u.num : u.str[s] = SubSeq(w, 1, j)

\* One character more.
LEMMA AddedNext ==
  ASSUME NEW b, NEW u, NEW top, NEW w \in Seq(Inputs), NEW k \in 1..Len(w), b.num \in Nat,
         Added(b, u, top, w, k - 1), b.num + Len(w) <= top,
         NEW v, v = V1!AddByte(u, w[k])
  PROVE  Added(b, v, top, w, k)
<1>1. Len(w) \in Nat /\ w[k] \in Inputs /\ SubSeq(w, 1, k) = Append(SubSeq(w, 1, k - 1), w[k])
  BY LenProperties, PrefixWords
<1>2. Adding(u, top) /\ u.num \in Nat /\ top \in Nat
  BY DEF Added, Adding, Trie, Named
<1>3. k \in 1..k /\ b.num <= u.num /\ u.num <= b.num + (k - 1) /\ u.num < top
      /\ \A j \in 1..k : j \in 1..(k - 1) \/ j = k
  <2>1. b.num <= u.num /\ u.num <= b.num + (k - 1)
    BY DEF Added
  <2> QED BY <1>1, <1>2, <2>1, SMTT(10)
<1>4. /\ Adding(v, top) /\ v.str[v.at] = Append(u.str[u.at], w[k])
      /\ u.num <= v.num /\ v.num <= u.num + 1
      /\ \A s \in 0..u.num : v.str[s] = u.str[s]
      /\ \A s \in 0..v.num : s \in 0..u.num \/ s = v.at
  <2>1. PICK i \in Inputs : i = w[k]
    BY <1>1
  <2>2. v = V1!AddByte(u, i)
    BY <2>1
  <2>3. /\ Adding(v, top) /\ v.str[v.at] = Append(u.str[u.at], i)
        /\ u.num <= v.num /\ v.num <= u.num + 1
        /\ \A s \in 0..u.num : v.str[s] = u.str[s]
        /\ \A s \in 0..v.num : s \in 0..u.num \/ s = v.at
    <3>1. Adding(u, top) /\ u.num < top
      BY <1>2, <1>3
    <3> QED BY <2>2, <3>1, ByteAdded, Zenon
  <2> QED BY <2>1, <2>3
<1>5. v.str[v.at] = SubSeq(w, 1, k)
  BY <1>1, <1>4 DEF Added
<1>6. v.num \in Nat /\ v.at \in 0..v.num
  BY <1>4 DEF Adding, Trie, Named
<1>7. /\ b.num <= v.num /\ v.num <= b.num + k
      /\ \A s \in 0..b.num : s \in 0..u.num
      /\ \A s \in 0..u.num : s \in 0..v.num
      /\ \A j \in 1..(k - 1) : j \in 1..k
  <2>1. u.num <= v.num /\ v.num <= u.num + 1
    BY <1>4
  <2>2. b.num <= v.num /\ v.num <= b.num + k
    BY <1>2, <1>3, <1>6, <2>1, SMTT(10)
  <2>3. \A s \in 0..b.num : s \in 0..u.num
    BY <1>2, <1>3, SMTT(10)
  <2>4. \A s \in 0..u.num : s \in 0..v.num
    BY <1>2, <1>6, <2>1, SMTT(10)
  <2>5. \A j \in 1..(k - 1) : j \in 1..k
    BY <1>1, SMTT(10)
  <2> QED BY <2>2, <2>3, <2>4, <2>5
<1>8. \A s \in 0..b.num : v.str[s] = b.str[s]
  BY <1>4, <1>7 DEF Added
<1>9. ASSUME NEW s \in 0..v.num, s \notin 0..b.num
      PROVE  \E j \in 1..k : v.str[s] = SubSeq(w, 1, j)
  <2>1. CASE s = v.at
    BY <1>3, <1>5, <2>1
  <2>2. CASE s \in 0..u.num
    <3>1. PICK j \in 1..(k - 1) : u.str[s] = SubSeq(w, 1, j)
      BY <1>9, <2>2 DEF Added
    <3> QED BY <1>4, <1>7, <2>2, <3>1
  <2> QED BY <1>4, <2>1, <2>2
<1>10. ASSUME NEW j \in 1..k
       PROVE  \E s \in 0..v.num : v.str[s] = SubSeq(w, 1, j)
  <2>1. CASE j = k
    BY <1>5, <1>6, <2>1
  <2>2. CASE j \in 1..(k - 1)
    <3>1. PICK s \in 0..u.num : u.str[s] = SubSeq(w, 1, j)
      BY <2>2 DEF Added
    <3> QED BY <1>4, <1>7, <3>1
  <2> QED BY <1>3, <2>1, <2>2
<1> QED BY <1>4, <1>5, <1>7, <1>8, <1>9, <1>10 DEF Added

\* A whole text.
LEMMA TextAdded ==
  ASSUME NEW b, NEW top, Adding(b, top), b.at = 0, NEW w \in Seq(Inputs), b.num + Len(w) <= top,
         NEW t, t = Folded(b, w)
  PROVE  Added(b, t, top, w, Len(w))
<1>1. PICK g : /\ g[0] = b /\ \A k \in 1..Len(w) : g[k] = V1!AddByte(g[k - 1], w[k])
               /\ Folded(b, w) = g[Len(w)]
  BY AddBytes
<1>2. Len(w) \in Nat /\ b.num \in Nat
  BY LenProperties DEF Adding, Trie, Named
<1>3. Added(b, g[0], top, w, 0)
  <2>1. b.str[b.at] = SubSeq(w, 1, 0)
    BY PrefixWords DEF Adding, Trie, Named
  <2>2. \A j \in 1..0 : FALSE
    BY SMTT(10)
  <2>3. b.num <= b.num /\ b.num <= b.num + 0
    BY <1>2, SMTT(10)
  <2> QED BY <1>1, <2>1, <2>2, <2>3 DEF Added
<1> DEFINE wrong == { k \in 0..Len(w) : ~Added(b, g[k], top, w, k) }
<1>4. wrong = {}
  <2> SUFFICES ASSUME wrong # {}
               PROVE  FALSE
    OBVIOUS
  <2>1. wrong \in SUBSET Nat
    BY <1>2, SMTT(10)
  <2>2. PICK k \in wrong : \A x \in wrong : k <= x
    <3> HIDE DEF wrong
    <3> QED BY <2>1, LeastNatural
  <2>3. k \in 0..Len(w) /\ ~Added(b, g[k], top, w, k)
    OBVIOUS
  <2>4. k # 0
    BY <1>3, <2>3
  <2>5. k \in 1..Len(w) /\ k - 1 \in 0..Len(w) /\ ~(k <= k - 1)
    BY <1>2, <2>3, <2>4, SMTT(10)
  <2>6. Added(b, g[k - 1], top, w, k - 1)
    BY <2>2, <2>5
  <2>7. Added(b, g[k], top, w, k)
    BY <1>1, <1>2, <2>5, <2>6, AddedNext
  <2> QED BY <2>3, <2>7
<1>5. Len(w) \in 0..Len(w)
  BY <1>2, SMTT(10)
<1> QED BY <1>1, <1>4, <1>5

\* The last state that acsmCompile makes room for.
Top == V1!MaxStates - 1

\* w is the beginning of one of the first m patterns.
Begins(ps, m, w) ==
  w = <<>> \/ \E j \in 1..m : \E k \in 1..Len(ps[j].patrn) : w = SubSeq(ps[j].patrn, 1, k)

\* The states n stand for the beginnings of the first m patterns.
Spells(ps, m, n, st) ==
  /\ \A s \in 0..n : Begins(ps, m, st[s])
  /\ \A w \in Seq(Inputs) : Begins(ps, m, w) => \E s \in 0..n : st[s] = w

\* Which of the first m patterns are the word w.
Same(ps, m, w) == { j \in 1..m : ps[j].patrn = w }

\* The list l holds those that are w, each once.
Holds(ps, l, m, w) ==
  /\ { l[k] : k \in 1..Len(l) } = { ps[j] : j \in Same(ps, m, w) }
  /\ Len(l) = Cardinality(Same(ps, m, w))

\* The match lists hold the first m patterns.
Listed(ps, top, m, n, st, ml) ==
  /\ ml \in [0..top -> Seq(Entry)]
  /\ \A s \in 0..n : Holds(ps, ml[s], m, st[s])
  /\ \A s \in (n + 1)..top : ml[s] = <<>>

\* A pattern is the longest of its beginnings.
LEMMA PatternBegins ==
  ASSUME NEW ps, NEW m, NEW j \in 1..m, ps[j].patrn \in Seq(Inputs)
  PROVE  Begins(ps, m, ps[j].patrn)
<1>1. PICK w : w = ps[j].patrn
  OBVIOUS
<1>2. CASE w = <<>>
  BY <1>1, <1>2 DEF Begins
<1>3. CASE w # <<>>
  <2>1. Len(w) \in 1..Len(w) /\ w = SubSeq(w, 1, Len(w))
    <3>1. Len(w) \in Nat \ {0}
      BY <1>1, <1>3, EmptySeq
    <3>2. Len(w) \in 1..Len(w)
      BY <3>1, SMTT(10)
    <3> QED BY <1>1, <3>2, PrefixWords
  <2> QED BY <1>1, <2>1 DEF Begins
<1> QED BY <1>2, <1>3

\* One pattern more in front of the list of its state.
LEMMA ListGrows ==
  ASSUME NEW ps, NEW m \in Nat, NEW w, NEW l \in Seq(Entry), ps[m + 1] \in Entry, Holds(ps, l, m, w)
  PROVE  /\ ps[m + 1].patrn = w => /\ <<ps[m + 1]>> \o l \in Seq(Entry)
                                         /\ Holds(ps, <<ps[m + 1]>> \o l, m + 1, w)
         /\ ps[m + 1].patrn # w => Same(ps, m + 1, w) = Same(ps, m, w)
<1>1. PICK p : p = ps[m + 1]
  OBVIOUS
<1>2. /\ m + 1 \in Nat /\ m + 1 \notin 1..m
      /\ \A j \in 1..(m + 1) : j \in 1..m \/ j = m + 1
      /\ \A j \in 1..m : j \in 1..(m + 1)
  BY SMTT(10)
<1>3. m + 1 \in 1..(m + 1)
  BY SMTT(10)
<1>4. p.patrn # w => Same(ps, m + 1, w) = Same(ps, m, w)
  BY <1>1, <1>2 DEF Same
<1>5. ASSUME p.patrn = w, NEW l2, l2 = <<p>> \o l
      PROVE  l2 \in Seq(Entry) /\ Holds(ps, l2, m + 1, w)
  <2>1. Same(ps, m + 1, w) = Same(ps, m, w) \cup {m + 1} /\ m + 1 \notin Same(ps, m, w)
    BY <1>1, <1>2, <1>3, <1>5 DEF Same
  <2>2. IsFiniteSet(Same(ps, m, w))
    <3>1. IsFiniteSet(1..m)
      <4>1. 1 \in Int /\ m \in Int
        OBVIOUS
      <4> QED BY <4>1, FS_Interval
    <3>2. Same(ps, m, w) \in SUBSET (1..m)
      BY DEF Same
    <3> QED BY <3>1, <3>2, FS_Subset
  <2>3. Cardinality(Same(ps, m + 1, w)) = Len(l) + 1
    BY <2>1, <2>2, FS_AddElement DEF Holds
  <2>4. Len(l) \in Nat /\ <<p>> \in Seq(Entry) /\ Len(<<p>>) = 1 /\ <<p>>[1] = p
    BY <1>1, LenProperties
  <2>5. /\ l2 \in Seq(Entry) /\ Len(l2) = 1 + Len(l)
        /\ l2[1] = p /\ \A k \in 2..(Len(l) + 1) : l2[k] = l[k - 1]
    <3>1. /\ l2 \in Seq(Entry) /\ Len(l2) = Len(<<p>>) + Len(l)
          /\ \A k \in 1..(Len(<<p>>) + Len(l)) :
               l2[k] = IF k <= Len(<<p>>) THEN <<p>>[k] ELSE l[k - Len(<<p>>)]
      BY <1>5, <2>4, ConcatProperties
    <3>2. 1 \in 1..(1 + Len(l)) /\ 1 <= 1 /\ \A k \in 2..(Len(l) + 1) : k \in 1..(1 + Len(l)) /\ ~(k <= 1)
      BY <2>4, SMTT(10)
    <3> QED BY <2>4, <3>1, <3>2
  <2>6. \A k \in 1..Len(l2) : k = 1 \/ (k \in 2..(Len(l) + 1) /\ k - 1 \in 1..Len(l))
    BY <2>4, <2>5, SMTT(10)
  <2>7. \A k \in 1..Len(l) : k + 1 \in 2..(Len(l) + 1) /\ (k + 1) - 1 = k /\ k + 1 \in 1..Len(l2)
    BY <2>4, <2>5, SMTT(10)
  <2>8. 1 \in 1..Len(l2)
    BY <2>4, <2>5, SMTT(10)
  <2>9. { l2[k] : k \in 1..Len(l2) } = { l[k] : k \in 1..Len(l) } \cup {p}
    <3>1. ASSUME NEW k \in 1..Len(l2)
          PROVE  l2[k] \in { l[q] : q \in 1..Len(l) } \cup {p}
      BY <2>5, <2>6
    <3>2. ASSUME NEW k \in 1..Len(l)
          PROVE  l[k] \in { l2[q] : q \in 1..Len(l2) }
      <4>1. l2[k + 1] = l[k]
        BY <2>5, <2>7
      <4> QED BY <2>7, <4>1
    <3>3. p \in { l2[q] : q \in 1..Len(l2) }
      BY <2>5, <2>8
    <3>4. \A x : x \in { l2[k] : k \in 1..Len(l2) } <=> x \in { l[k] : k \in 1..Len(l) } \cup {p}
      BY <3>1, <3>2, <3>3
    <3> QED BY <3>4
  <2>10. { ps[j] : j \in Same(ps, m + 1, w) } = { ps[j] : j \in Same(ps, m, w) } \cup {p}
    BY <1>1, <2>1
  <2>11. Len(l2) = Len(l) + 1
    BY <2>4, <2>5, SMTT(10)
  <2> QED BY <2>3, <2>5, <2>9, <2>10, <2>11 DEF Holds
<1> QED BY <1>1, <1>4, <1>5

\* What the words of the states are when a text has been added.
LEMMA SpellsMore ==
  ASSUME NEW ps \in Seq(Entry), NEW m \in Nat, m + 1 <= Len(ps),
         NEW n, NEW st, NEW b, NEW t, NEW top, b.num = n, b.str = st, Spells(ps, m, n, st),
         Added(b, t, top, ps[m + 1].patrn, Len(ps[m + 1].patrn)), n \in Nat
  PROVE  Spells(ps, m + 1, t.num, t.str)
<1>1. PICK p : p = ps[m + 1].patrn
  OBVIOUS
<1>2. /\ p \in Seq(Inputs) /\ Len(p) \in Nat /\ m + 1 \in 1..(m + 1)
      /\ \A j \in 1..(m + 1) : j \in 1..m \/ j = m + 1
      /\ \A j \in 1..m : j \in 1..(m + 1)
  <2>1. Len(ps) \in Nat
    BY LenProperties
  <2>2. m + 1 \in 1..Len(ps)
    BY <2>1, SMTT(10)
  <2>3. ps[m + 1] \in Entry
    BY <2>2, ElementOfSeq
  <2>4. p \in Seq(Inputs)
    BY <1>1, <2>3 DEF Entry
  <2>5. m + 1 \in 1..(m + 1) /\ (\A j \in 1..(m + 1) : j \in 1..m \/ j = m + 1)
        /\ \A j \in 1..m : j \in 1..(m + 1)
    BY SMTT(10)
  <2> QED BY <2>4, <2>5, LenProperties
<1>3. /\ \A s \in 0..n : t.str[s] = st[s] /\ s \in 0..t.num
      /\ \A s \in 0..t.num : s \in 0..n \/ \E j \in 1..Len(p) : t.str[s] = SubSeq(p, 1, j)
      /\ \A j \in 1..Len(p) : \E s \in 0..t.num : t.str[s] = SubSeq(p, 1, j)
  <2>1. t.num \in Nat /\ n <= t.num
    BY DEF Added, Adding, Trie, Named
  <2>2. \A s \in 0..n : s \in 0..t.num
    BY <2>1, SMTT(10)
  <2> QED BY <1>1, <2>2 DEF Added
<1>4. ASSUME NEW s \in 0..t.num
      PROVE  Begins(ps, m + 1, t.str[s])
  <2>1. CASE s \in 0..n
    <3>1. Begins(ps, m, t.str[s])
      BY <1>3, <2>1 DEF Spells
    <3> QED BY <1>2, <3>1 DEF Begins
  <2>2. CASE \E j \in 1..Len(p) : t.str[s] = SubSeq(p, 1, j)
    BY <1>1, <1>2, <2>2 DEF Begins
  <2> QED BY <1>3, <2>1, <2>2
<1>5. ASSUME NEW w \in Seq(Inputs), Begins(ps, m + 1, w)
      PROVE  \E s \in 0..t.num : t.str[s] = w
  <2>1. CASE Begins(ps, m, w)
    <3>1. PICK s \in 0..n : st[s] = w
      BY <2>1 DEF Spells
    <3> QED BY <1>3, <3>1
  <2>2. CASE ~Begins(ps, m, w)
    <3>1. PICK j \in 1..(m + 1) : \E k \in 1..Len(ps[j].patrn) : w = SubSeq(ps[j].patrn, 1, k)
      BY <1>5, <2>2 DEF Begins
    <3>2. j = m + 1
      BY <1>2, <2>2, <3>1 DEF Begins
    <3> QED BY <1>1, <1>3, <3>1, <3>2
  <2> QED BY <2>1, <2>2
<1> QED BY <1>4, <1>5 DEF Spells

\* What the match lists are when a text has been added.
LEMMA ListedMore ==
  ASSUME NEW ps \in Seq(Entry), NEW m \in Nat, m + 1 <= Len(ps), NEW top \in Nat,
         NEW n, NEW st, NEW b, NEW t, b.num = n, b.str = st, Spells(ps, m, n, st), n \in Nat,
         NEW ml, Listed(ps, top, m, n, st, ml),
         Added(b, t, top, ps[m + 1].patrn, Len(ps[m + 1].patrn)),
         NEW ml2, ml2 = [ml EXCEPT ![t.at] = <<ps[m + 1]>> \o ml[t.at]]
  PROVE  Listed(ps, top, m + 1, t.num, t.str, ml2)
<1>1. PICK p, a : p = ps[m + 1] /\ a = t.at
  OBVIOUS
<1>2. /\ p \in Entry /\ \A j \in 1..m : ps[j].patrn \in Seq(Inputs)
  <2>1. Len(ps) \in Nat
    BY LenProperties
  <2>2. m + 1 \in 1..Len(ps) /\ \A j \in 1..m : j \in 1..Len(ps)
    BY <2>1, SMTT(10)
  <2>3. \A j \in 1..Len(ps) : ps[j] \in Entry
    BY ElementOfSeq
  <2> QED BY <1>1, <2>2, <2>3 DEF Entry
<1>3. /\ Named(t.num, t.str) /\ a \in 0..t.num /\ t.num <= top /\ t.num \in Nat /\ n <= t.num
      /\ \A s \in 0..n : t.str[s] = st[s]
      /\ t.str[a] = p.patrn
  <2>1. p.patrn \in Seq(Inputs)
    BY <1>2 DEF Entry
  <2>2. t.str[a] = p.patrn
    BY <1>1, <2>1, PrefixWords DEF Added
  <2>3. Adding(t, top) /\ n <= t.num /\ \A s \in 0..n : t.str[s] = st[s]
    BY DEF Added
  <2>4. Trie(t.num, top, t.trans, t.str) /\ a \in 0..t.num
    BY <1>1, <2>3 DEF Adding
  <2> QED BY <2>2, <2>3, <2>4 DEF Trie, Named
<1>4. /\ \A s \in 0..t.num : s \in 0..top /\ (s \in 0..n \/ s \in (n + 1)..top)
      /\ \A s \in (t.num + 1)..top : s \in (n + 1)..top /\ s \in 0..top /\ s # a
      /\ \A s \in 0..n : s \in 0..t.num
      /\ \A s \in (n + 1)..top : s \notin 0..n
  <2>1. \A s \in 0..t.num : s \in 0..top /\ (s \in 0..n \/ s \in (n + 1)..top)
    BY <1>3, SMTT(10)
  <2>2. \A s \in (t.num + 1)..top : s \in (n + 1)..top /\ s \in 0..top /\ s # a
    BY <1>3, SMTT(10)
  <2>3. \A s \in 0..n : s \in 0..t.num
    BY <1>3, SMTT(10)
  <2>4. \A s \in (n + 1)..top : s \notin 0..n
    BY SMTT(10)
  <2> QED BY <2>1, <2>2, <2>3, <2>4
<1>5. ASSUME NEW s \in 0..t.num
      PROVE  ml[s] \in Seq(Entry) /\ Holds(ps, ml[s], m, t.str[s])
  <2>1. ml[s] \in Seq(Entry)
    BY <1>4 DEF Listed
  <2>2. CASE s \in 0..n
    BY <1>3, <2>1, <2>2 DEF Listed
  <2>3. CASE s \in (n + 1)..top
    <3>1. ml[s] = <<>> /\ Len(<<>>) = 0
      BY <2>3, EmptySeq DEF Listed
    <3>2. Same(ps, m, t.str[s]) = {}
      <4> SUFFICES ASSUME NEW j \in 1..m, ps[j].patrn = t.str[s]
                   PROVE  FALSE
        BY DEF Same
      <4>1. t.str[s] \in Seq(Inputs) /\ Begins(ps, m, t.str[s])
        BY <1>2, PatternBegins
      <4>2. PICK q \in 0..n : st[q] = t.str[s]
        BY <4>1 DEF Spells
      <4>3. t.str[q] = t.str[s] /\ q \in 0..t.num
        BY <1>3, <1>4, <4>2
      <4>4. q = s
        BY <1>3, <4>3 DEF Named
      <4> QED BY <1>4, <2>3, <4>4
    <3>3. Cardinality({}) = 0
      BY FS_EmptySet
    <3>4. \A k \in 1..0 : FALSE
      BY SMTT(10)
    <3>5. { ml[s][k] : k \in 1..Len(ml[s]) } = {}
      BY <3>1, <3>4
    <3> QED BY <2>1, <3>1, <3>2, <3>3, <3>5 DEF Holds
  <2> QED BY <1>4, <2>2, <2>3
<1>6. /\ a \in 0..top /\ ml \in [0..top -> Seq(Entry)]
      /\ ml2[a] = <<p>> \o ml[a] /\ \A s \in 0..top : s # a => ml2[s] = ml[s]
  BY <1>1, <1>3, <1>4 DEF Listed
<1>7. ASSUME NEW s \in 0..t.num
      PROVE  ml2[s] \in Seq(Entry) /\ Holds(ps, ml2[s], m + 1, t.str[s])
  <2>1. PICK l, w : l = ml[s] /\ w = t.str[s]
    OBVIOUS
  <2>2. l \in Seq(Entry) /\ Holds(ps, l, m, w) /\ ps[m + 1] \in Entry
    BY <1>1, <1>2, <1>5, <2>1
  <2>3. CASE s = a
    <3>1. ps[m + 1].patrn = w
      BY <1>1, <1>3, <2>1, <2>3
    <3>2. <<ps[m + 1]>> \o l \in Seq(Entry) /\ Holds(ps, <<ps[m + 1]>> \o l, m + 1, w)
      BY <2>2, <3>1, ListGrows
    <3>3. ml2[s] = <<ps[m + 1]>> \o l
      BY <1>1, <1>6, <2>1, <2>3
    <3> QED BY <2>1, <3>2, <3>3
  <2>4. CASE s # a
    <3>1. w # p.patrn
      BY <1>3, <2>1, <2>4 DEF Named
    <3>2. Same(ps, m + 1, w) = Same(ps, m, w)
      BY <1>1, <2>2, <3>1, ListGrows
    <3>3. ml2[s] = l
      BY <1>4, <1>6, <2>1, <2>4
    <3> QED BY <2>1, <2>2, <3>2, <3>3 DEF Holds
  <2> QED BY <2>3, <2>4
<1>8. \A s \in (t.num + 1)..top : ml2[s] = <<>>
  BY <1>4, <1>6 DEF Listed
<1>9. ml2 \in [0..top -> Seq(Entry)]
  <2>1. <<p>> \o ml[a] \in Seq(Entry)
    BY <1>3, <1>6, <1>7
  <2> QED BY <1>1, <1>6, <2>1
<1> QED BY <1>7, <1>8, <1>9 DEF Listed

\* What depends on the patterns alone stays while they do.
LEMMA TotalsKept ==
  ASSUME patterns' = patterns
  PROVE  Top' = Top /\ \A g : Totals(g)' <=> Totals(g)
<1>1. V1!MaxStates' = V1!MaxStates
  BY DEF V1!MaxStates, V1!FoldLeft, V1!MapThenFoldSet
<1>2. Top' = Top
  BY <1>1 DEF Top
<1>3. ASSUME NEW g
      PROVE  Totals(g)' <=> Totals(g)
  BY <1>1 DEF Totals
<1> QED BY <1>2, <1>3

\* The trie of the first m patterns is built.
TrieOf(m) ==
  /\ patterns \in Seq(Entry) /\ m \in 0..Len(patterns)
  /\ todo \in Seq(Entry) /\ Len(todo) = Len(patterns) - m
  /\ \A j \in 1..Len(todo) : todo[j] = patterns[m + j]
  /\ Trie(numStates, Top, trans, str) /\ \E g : Totals(g) /\ numStates < g[m]
  /\ Spells(patterns, m, numStates, str) /\ Listed(patterns, Top, m, numStates, str, matchList)
  /\ fail = [s \in 0..Top |-> 0]

\* acsmAddPattern's entries are entries.
LEMMA EntriesAdded ==
  ASSUME patterns \in Seq(Entry), NEW t \in Texts, NEW nocase \in BOOLEAN,
         V1!acsmAddPattern(t, nocase)
  PROVE  patterns' \in Seq(Entry)
<1>1. t \in Seq(Inputs) /\ Up \in [Inputs -> Inputs] /\ Len(patterns) \in Nat
  BY MCAcsmAssumption, LenProperties
<1>2. PICK u : u = V1!UpWord(t)
  OBVIOUS
<1>3. u \in Seq(Inputs)
  <2>1. Len(t) \in Nat /\ DOMAIN t = 1..Len(t)
    BY <1>1, LenProperties
  <2>2. u = [i \in 1..Len(t) |-> Up[t[i]]]
    BY <1>2, <2>1 DEF V1!UpWord
  <2>3. u \in [1..Len(t) -> Inputs]
    BY <1>1, <2>2, ElementOfSeq
  <2> QED BY <2>1, <2>3
<1>4. PICK e : e = [patrn |-> u, casepatrn |-> t, nocase |-> nocase, id |-> Len(patterns) + 1]
  OBVIOUS
<1>5. e \in Entry
  BY <1>1, <1>3, <1>4 DEF Entry
<1>6. patterns' = <<e>> \o patterns
  BY <1>2, <1>4 DEF V1!acsmAddPattern
<1> QED BY <1>5, <1>6, ConcatProperties

\* The compilation starts with a trie of no pattern.
LEMMA TrieBegun ==
  ASSUME patterns \in Seq(Entry), V1!acsmCompile
  PROVE  TrieOf(0)'
<1>1. PICK ps, top : ps = patterns /\ top = Top
  OBVIOUS
<1>2. PICK g : Totals(g)
  BY StatesCounted
<1>3. Len(ps) \in Nat /\ 0 \in 0..Len(ps) /\ top \in Nat /\ 0 < g[0] /\ 0 <= top
  <2>1. Len(ps) \in Nat
    BY <1>1, LenProperties
  <2>2. 0 \in 0..Len(ps) /\ Len(ps) \in 0..Len(ps)
    BY <2>1, SMTT(10)
  <2>3. g[0] = 1 /\ g[Len(ps)] = V1!MaxStates /\ V1!MaxStates \in Nat /\ g[0] <= V1!MaxStates
    BY <1>1, <1>2, <2>2 DEF Totals
  <2>4. top = V1!MaxStates - 1
    BY <1>1 DEF Top
  <2> QED BY <2>1, <2>2, <2>3, <2>4, SMTT(10)
<1>4. /\ patterns' = ps /\ todo' = ps /\ numStates' = 0 /\ Top' = top
      /\ trans' = [s \in 0..top |-> [i \in Inputs |-> -1]] /\ fail' = [s \in 0..top |-> 0]
      /\ matchList' = [s \in 0..top |-> <<>>] /\ str' = [s \in {0} |-> <<>>]
  <2>1. patterns' = patterns
    BY DEF V1!acsmCompile
  <2>2. Top' = Top
    BY <2>1, TotalsKept
  <2> QED BY <1>1, <2>1, <2>2, SameInputs DEF V1!acsmCompile, Top
<1>5. 0..0 = {0} /\ 1..0 = {} /\ (0 + 1)..top \subseteq 0..top /\ 0 \in 0..top
      /\ \A j : j \in 1..Len(ps) => 0 + j = j
  BY <1>3, SMTT(10)
<1>6. <<>> \in Seq(Inputs) /\ <<>> \in Seq(Entry) /\ Len(<<>>) = 0
  BY EmptySeq
<1>7. Named(0, str')
  <2>1. str' \in [0..0 -> Seq(Inputs)] /\ str'[0] = <<>>
    BY <1>4, <1>5, <1>6
  <2> QED BY <1>5, <2>1 DEF Named
<1>8. Trie(0, top, trans', str')
  <2>1. trans' \in [0..top -> [Inputs -> Int]] /\ \A s \in 0..top, i \in Inputs : trans'[s][i] = -1
    BY <1>4
  <2>2. TrieRow(0, trans', str', 0)
    <3>1. \A i \in Inputs : trans'[0][i] = -1
      BY <1>5, <2>1
    <3>2. \A i \in Inputs : \A q \in 0..0 : str'[q] # Append(str'[0], i)
      <4> SUFFICES ASSUME NEW i \in Inputs, NEW q \in 0..0
                   PROVE  str'[q] # Append(str'[0], i)
        OBVIOUS
      <4>1. str'[0] = <<>> /\ q = 0
        BY <1>5, <1>7 DEF Named
      <4>2. Append(<<>>, i) # <<>>
        BY <1>6, AppendWord
      <4> QED BY <4>1, <4>2
    <3>3. PICK tr, st : tr = trans' /\ st = str'
      OBVIOUS
    <3>4. TrieRow(0, tr, st, 0)
      BY <3>1, <3>2, <3>3 DEF TrieRow
    <3> QED BY <3>3, <3>4
  <2> QED BY <1>3, <1>5, <1>7, <2>1, <2>2 DEF Trie
<1>9. Spells(ps, 0, 0, str')
  <2>1. str'[0] = <<>>
    BY <1>7 DEF Named
  <2>2. \A w : Begins(ps, 0, w) <=> w = <<>>
    BY <1>5 DEF Begins
  <2> QED BY <1>5, <2>1, <2>2 DEF Spells
<1>10. Listed(ps, top, 0, 0, str', matchList')
  <2>1. matchList' \in [0..top -> Seq(Entry)] /\ \A s \in 0..top : matchList'[s] = <<>>
    BY <1>4, <1>6
  <2>2. \A w : Holds(ps, <<>>, 0, w)
    <3>1. \A w : Same(ps, 0, w) = {}
      BY <1>5 DEF Same
    <3>2. Cardinality({}) = 0
      BY FS_EmptySet
    <3> QED BY <1>5, <1>6, <3>1, <3>2 DEF Holds
  <2>3. matchList'[0] = <<>> /\ \A s \in 0..0 : s = 0
    BY <1>5, <2>1
  <2>4. \A s \in 0..0 : Holds(ps, matchList'[s], 0, str'[s])
    BY <2>2, <2>3
  <2>5. \A s \in (0 + 1)..top : matchList'[s] = <<>>
    BY <1>5, <2>1
  <2> QED BY <2>1, <2>4, <2>5 DEF Listed
<1>11. \E h : Totals(h)' /\ 0 < h[0]
  BY <1>1, <1>2, <1>3, <1>4, TotalsKept
<1>12. ps \in Seq(Entry) /\ Len(ps) = Len(ps) - 0 /\ \A j \in 1..Len(ps) : ps[j] = ps[0 + j]
  BY <1>1, <1>3, <1>5, SMTT(10)
<1> QED BY <1>3, <1>4, <1>8, <1>9, <1>10, <1>11, <1>12 DEF TrieOf

\* A pattern more is added to the trie.
LEMMA TrieGrows ==
  ASSUME NEW m, TrieOf(m), V1!AddPatternStates
  PROVE  TrieOf(m + 1)'
<1>1. PICK ps, top, n, tr, st, ml, td :
        /\ ps = patterns /\ top = Top /\ n = numStates /\ tr = trans /\ st = str
        /\ ml = matchList /\ td = todo
  OBVIOUS
<1>2. /\ ps \in Seq(Entry) /\ m \in 0..Len(ps) /\ td \in Seq(Entry) /\ Len(td) = Len(ps) - m
      /\ \A j \in 1..Len(td) : td[j] = ps[m + j]
      /\ Trie(n, top, tr, st) /\ Spells(ps, m, n, st) /\ Listed(ps, top, m, n, st, ml)
      /\ fail = [s \in 0..top |-> 0] /\ td # <<>>
  BY <1>1 DEF TrieOf, V1!AddPatternStates
<1>3. PICK p, b, t :
        /\ p = td[1] /\ b = [at |-> 0, num |-> n, trans |-> tr, str |-> st]
        /\ t = Folded(b, p.patrn)
  OBVIOUS
<1>4. /\ numStates' = t.num /\ trans' = t.trans /\ str' = t.str
      /\ matchList' = [ml EXCEPT ![t.at] = <<p>> \o ml[t.at]]
      /\ todo' = Tail(td) /\ patterns' = ps /\ fail' = fail
  BY <1>1, <1>3 DEF V1!AddPatternStates, Folded
<1>5. /\ m \in Nat /\ m + 1 \in 1..Len(ps) /\ m + 1 <= Len(ps) /\ m + 1 \in 0..Len(ps)
      /\ 1 \in 1..Len(td) /\ Len(td) \in Nat /\ Len(ps) \in Nat /\ (m + 1) - 1 = m
      /\ Len(td) - 1 = Len(ps) - (m + 1)
  <2>1. Len(ps) \in Nat /\ Len(td) \in Nat /\ Len(td) # 0
    BY <1>2, EmptySeq, LenProperties
  <2> QED BY <1>2, <2>1, SMTT(10)
<1>6. p = ps[m + 1] /\ p \in Entry /\ p.patrn \in Seq(Inputs) /\ Len(p.patrn) \in Nat
  <2>1. p = ps[m + 1]
    BY <1>2, <1>3, <1>5
  <2>2. ps[m + 1] \in Entry
    BY <1>2, <1>5, ElementOfSeq
  <2>3. p.patrn \in Seq(Inputs)
    BY <2>1, <2>2 DEF Entry
  <2> QED BY <2>1, <2>2, <2>3, LenProperties
<1>7. PICK g : Totals(g) /\ n < g[m]
  BY <1>1 DEF TrieOf
<1>8. n \in Nat /\ top \in Nat
  BY <1>2 DEF Trie, Named
<1>9. n + Len(p.patrn) < g[m + 1] /\ n + Len(p.patrn) <= top /\ g[m + 1] \in Nat
  <2>1. /\ g[m + 1] = g[m] + Len(p.patrn) /\ g[m + 1] <= V1!MaxStates
        /\ g[m] \in Nat /\ g[m + 1] \in Nat /\ V1!MaxStates \in Nat
    <3>1. g[m + 1] = g[(m + 1) - 1] + Len(ps[m + 1].patrn)
      BY <1>1, <1>5, <1>7 DEF Totals
    <3>2. Len(ps) \in 0..Len(ps)
      BY <1>5, SMTT(10)
    <3>3. g[m + 1] \in Nat /\ g[m + 1] <= g[Len(ps)] /\ g[m] \in Nat /\ g[Len(ps)] \in Nat
      BY <1>1, <1>2, <1>5, <1>7, <3>2 DEF Totals
    <3> QED BY <1>1, <1>5, <1>6, <1>7, <3>1, <3>3 DEF Totals
  <2>2. top = V1!MaxStates - 1
    BY <1>1 DEF Top
  <2> QED BY <1>6, <1>7, <1>8, <2>1, <2>2, SMTT(10)
<1>10. b.at = 0 /\ b.num = n /\ b.trans = tr /\ b.str = st
  BY <1>3
<1>11. Adding(b, top)
  <2>1. 0 \in 0..n
    BY <1>8, SMTT(10)
  <2> QED BY <1>2, <1>3, <1>10, <2>1 DEF Adding
<1>12. Added(b, t, top, p.patrn, Len(p.patrn))
  <2>1. b.num + Len(p.patrn) <= top
    BY <1>9, <1>10
  <2> QED BY <1>3, <1>6, <1>10, <1>11, <2>1, TextAdded
<1>13. Spells(ps, m + 1, t.num, t.str)
  BY <1>2, <1>5, <1>6, <1>8, <1>10, <1>12, SpellsMore
<1>14. Listed(ps, top, m + 1, t.num, t.str, matchList')
  <2>1. matchList' = [ml EXCEPT ![t.at] = <<ps[m + 1]>> \o ml[t.at]]
    BY <1>4, <1>6
  <2>2. Added(b, t, top, ps[m + 1].patrn, Len(ps[m + 1].patrn))
    BY <1>6, <1>12
  <2> QED BY <1>2, <1>5, <1>8, <1>10, <2>1, <2>2, ListedMore
<1>15. Trie(t.num, top, t.trans, t.str) /\ t.num < g[m + 1]
  <2>1. Trie(t.num, top, t.trans, t.str) /\ t.num <= n + Len(p.patrn)
    BY <1>10, <1>12 DEF Added, Adding
  <2>2. t.num \in Nat
    BY <2>1 DEF Trie, Named
  <2> QED BY <1>6, <1>8, <1>9, <2>1, <2>2, SMTT(10)
<1>16. PICK tl : tl = Tail(td)
  OBVIOUS
<1>17. tl \in Seq(Entry) /\ Len(tl) = Len(ps) - (m + 1) /\ \A j \in 1..Len(tl) : tl[j] = ps[(m + 1) + j]
  <2>1. tl \in Seq(Entry) /\ Len(tl) = Len(td) - 1 /\ \A j \in 1..Len(tl) : tl[j] = td[j + 1]
    BY <1>2, <1>16, HeadTailProperties
  <2>2. \A j \in 1..Len(tl) : j + 1 \in 1..Len(td) /\ m + (j + 1) = (m + 1) + j
    BY <1>5, <2>1, SMTT(10)
  <2>3. \A j \in 1..Len(tl) : td[j + 1] = ps[m + (j + 1)]
    BY <1>2, <2>2
  <2> QED BY <1>5, <2>1, <2>2, <2>3
<1>18. Top' = top /\ Totals(g)'
  BY <1>1, <1>4, <1>7, TotalsKept
<1>19. \E h : Totals(h)' /\ t.num < h[m + 1]
  BY <1>15, <1>18
<1> QED BY <1>2, <1>4, <1>5, <1>13, <1>14, <1>15, <1>16, <1>17, <1>18, <1>19 DEF TrieOf

-----------------------------------------------------------------------------
(* The breadth-first pass *)

\* The words of the states.
WordSet(n, st) == { st[s] : s \in 0..n }

\* A row of the automaton.
WholeRow(n, tr, st, s) ==
  \A i \in Inputs :
    tr[s][i] \in 0..n /\ Longest(st[tr[s][i]], Append(st[s], i), WordSet(n, st))

\* The states that wait in the queue.
Waiting(qu) == { qu[k] : k \in 1..Len(qu) }

\* The queue holds states, each once, the short words first, none longer than the
\* first by more than one.
InLayers(n, st, qu) ==
  /\ qu \in Seq(0..n)
  /\ \A k, m \in 1..Len(qu) : qu[k] = qu[m] => k = m
  /\ \A k, m \in 1..Len(qu) : k <= m => Len(st[qu[k]]) <= Len(st[qu[m]])
  /\ \A k \in 1..Len(qu) : Len(st[qu[k]]) <= Len(st[qu[1]]) + 1

\* The states P are done: their rows are whole, and just their children have been
\* queued; who has been queued fails to the longest proper suffix.
Pass(P, n, top, tr, st, fl, qu) ==
  /\ Named(n, st) /\ top \in Nat /\ n <= top
  /\ tr \in [0..top -> [Inputs -> Int]] /\ fl \in [0..top -> 0..n]
  /\ P \in SUBSET (0..n) /\ 0 \in P
  /\ \A s \in P : WholeRow(n, tr, st, s)
  /\ \A s \in 0..n : s \notin P => TrieRow(n, tr, st, s)
  /\ \A s \in 0..top : s \notin P \cup Waiting(qu) => fl[s] = 0
  /\ InLayers(n, st, qu) /\ \A s \in Waiting(qu) : s \notin P
  /\ \A s, q \in 0..n, i \in Inputs :
       st[q] = Append(st[s], i) => (q \in P \cup Waiting(qu) <=> s \in P)
  /\ \A s \in (P \cup Waiting(qu)) \ {0} : LongestProper(st[fl[s]], st[s], WordSet(n, st))

\* The words of the states are a trie.
LEMMA WordsClosed ==
  ASSUME NEW n, NEW st, Named(n, st)
  PROVE  /\ PrefixClosed(WordSet(n, st)) /\ WordSet(n, st) \in SUBSET Seq(Inputs)
         /\ \A s \in 0..n : st[s] \in WordSet(n, st) /\ st[s] \in Seq(Inputs) /\ Len(st[s]) \in Nat
         /\ 0 \in 0..n
<1>1. n \in Nat /\ st \in [0..n -> Seq(Inputs)] /\ st[0] = <<>>
  BY DEF Named
<1>2. 0 \in 0..n /\ \A s \in 0..n : s = 0 \/ s \in 1..n
  BY <1>1, SMTT(10)
<1>3. \A s \in 0..n : st[s] \in WordSet(n, st) /\ st[s] \in Seq(Inputs) /\ Len(st[s]) \in Nat
  BY <1>1, LenProperties DEF WordSet
<1>4. WordSet(n, st) \in SUBSET Seq(Inputs) /\ <<>> \in WordSet(n, st)
  BY <1>1, <1>2, <1>3 DEF WordSet
<1>5. ASSUME NEW v \in Seq(Inputs), NEW i \in Inputs, Append(v, i) \in WordSet(n, st)
      PROVE  v \in WordSet(n, st)
  <2>1. PICK s \in 0..n : st[s] = Append(v, i)
    BY <1>5 DEF WordSet
  <2>2. s \in 1..n
    BY <1>1, <1>2, <2>1, AppendWord
  <2>3. PICK q \in 0..n, j \in Inputs : st[s] = Append(st[q], j)
    BY <2>2 DEF Named
  <2>4. st[q] = v
    BY <1>3, <2>1, <2>3, SameAppend
  <2> QED BY <1>3, <2>4
<1> QED BY <1>2, <1>3, <1>4, <1>5 DEF PrefixClosed

\* Who waits is a state, and the first one is one of them.
LEMMA WaitingStates ==
  ASSUME NEW n, NEW st, NEW qu, InLayers(n, st, qu)
  PROVE  /\ Waiting(qu) \in SUBSET (0..n) /\ Len(qu) \in Nat
         /\ qu # <<>> => 1 \in 1..Len(qu) /\ qu[1] \in Waiting(qu)
         /\ qu = <<>> => Waiting(qu) = {}
<1>1. qu \in Seq(0..n)
  BY DEF InLayers
<1>2. Len(qu) \in Nat /\ \A k \in 1..Len(qu) : qu[k] \in 0..n
  BY <1>1, LenProperties, ElementOfSeq
<1>3. qu # <<>> => 1 \in 1..Len(qu)
  <2>1. qu # <<>> => Len(qu) # 0
    BY <1>1, EmptySeq
  <2> QED BY <1>2, <2>1, SMTT(10)
<1>4. qu = <<>> => 1..Len(qu) = {}
  <2>1. qu = <<>> => Len(qu) = 0
    BY EmptySeq
  <2> QED BY <2>1, SMTT(10)
<1> QED BY <1>2, <1>3, <1>4 DEF Waiting

\* A state that is not done has one that waits before it: one with a word that is
\* no longer.
LEMMA Frontier ==
  ASSUME NEW P, NEW n, NEW top, NEW tr, NEW st, NEW fl, NEW qu, Pass(P, n, top, tr, st, fl, qu),
         NEW s \in 0..n, s \notin P
  PROVE  \E q \in Waiting(qu) : Len(st[q]) <= Len(st[s])
<1>1. /\ Named(n, st) /\ 0 \in P
      /\ \A x, q \in 0..n, i \in Inputs :
           st[q] = Append(st[x], i) => (q \in P \cup Waiting(qu) <=> x \in P)
  BY DEF Pass
<1>2. n \in Nat /\ \A x \in 0..n : st[x] \in Seq(Inputs) /\ Len(st[x]) \in Nat
  BY <1>1, WordsClosed DEF Named
<1> DEFINE wrong == { x \in 0..n : x \notin P /\ ~\E q \in Waiting(qu) : Len(st[q]) <= Len(st[x]) }
           lens == { Len(st[x]) : x \in wrong }
<1>3. wrong = {}
  <2> SUFFICES ASSUME wrong # {}
               PROVE  FALSE
    OBVIOUS
  <2>1. lens \in SUBSET Nat /\ lens # {}
    BY <1>2
  <2>2. PICK d \in lens : \A y \in lens : d <= y
    <3> HIDE DEF lens
    <3> QED BY <2>1, LeastNatural
  <2>3. PICK x \in wrong : Len(st[x]) = d
    OBVIOUS
  <2>4. x \in 0..n /\ x \notin P /\ ~\E q \in Waiting(qu) : Len(st[q]) <= Len(st[x])
    OBVIOUS
  <2>5. x \in 1..n
    BY <1>1, <1>2, <2>4, SMTT(10)
  <2>6. PICK q \in 0..n, i \in Inputs : st[x] = Append(st[q], i)
    BY <1>1, <2>5 DEF Named
  <2>7. Len(st[x]) = Len(st[q]) + 1 /\ Len(st[q]) \in Nat /\ Len(st[x]) \in Nat
    BY <1>2, <2>4, <2>6, AppendWord
  <2>8. CASE q \in P
    <3>1. x \in Waiting(qu)
      BY <1>1, <2>4, <2>6, <2>8
    <3>2. Len(st[x]) <= Len(st[x])
      BY <2>7, SMTT(10)
    <3> QED BY <2>4, <3>1, <3>2
  <2>9. CASE q \notin P
    <3>1. q \notin wrong
      <4>1. ~(d <= Len(st[q]))
        BY <2>3, <2>7, SMTT(10)
      <4>2. Len(st[q]) \notin lens
        BY <2>2, <4>1
      <4> QED BY <4>2
    <3>2. PICK y \in Waiting(qu) : Len(st[y]) <= Len(st[q])
      BY <2>9, <3>1
    <3>3. Len(st[y]) \in Nat
      <4>1. y \in 0..n
        <5>1. InLayers(n, st, qu)
          BY DEF Pass
        <5> HIDE DEF wrong
        <5> QED BY <5>1, WaitingStates
      <4> QED BY <1>2, <4>1
    <3>4. Len(st[y]) <= Len(st[x])
      BY <2>7, <3>2, <3>3, SMTT(10)
    <3> QED BY <2>4, <3>4
  <2> QED BY <2>8, <2>9
<1> QED BY <1>3

\* A proper suffix is shorter.
LEMMA ProperShorter ==
  ASSUME NEW u \in Seq(Inputs), NEW w \in Seq(Inputs), NEW W, LongestProper(u, w, W)
  PROVE  Len(u) < Len(w)
<1>1. Suf(u, w) /\ u # w /\ Suf(w, w)
  BY SufRefl DEF LongestProper
<1>2. Len(u) <= Len(w) /\ Len(u) \in Nat /\ Len(w) \in Nat
  BY <1>1, LenProperties DEF Suf
<1>3. Len(u) # Len(w)
  BY <1>1, <1>2, SufSame
<1> QED BY <1>2, <1>3, SMTT(10)

\* The state that comes out of the queue: its failure state is done.
LEMMA HeadOfQueue ==
  ASSUME NEW P, NEW n, NEW top, NEW tr, NEW st, NEW fl, NEW qu, Pass(P, n, top, tr, st, fl, qu),
         qu # <<>>, NEW r, r = qu[1]
  PROVE  /\ r \in 0..n /\ r \in 0..top /\ r \notin P /\ r # 0 /\ r \in Waiting(qu) /\ TrieRow(n, tr, st, r)
         /\ \A q \in Waiting(qu) : Len(st[r]) <= Len(st[q]) /\ Len(st[q]) <= Len(st[r]) + 1
         /\ fl[r] \in P
         /\ \A s \in 0..top : s \notin P => fl[s] \in P \/ (fl[s] \in 0..top /\ fl[fl[s]] \in P)
<1>1. /\ Named(n, st) /\ top \in Nat /\ n <= top /\ fl \in [0..top -> 0..n]
      /\ P \in SUBSET (0..n) /\ 0 \in P /\ InLayers(n, st, qu)
      /\ \A s \in 0..n : s \notin P => TrieRow(n, tr, st, s)
      /\ \A s \in 0..top : s \notin P \cup Waiting(qu) => fl[s] = 0
      /\ \A s \in Waiting(qu) : s \notin P
      /\ \A s \in (P \cup Waiting(qu)) \ {0} : LongestProper(st[fl[s]], st[s], WordSet(n, st))
  BY DEF Pass
<1>2. n \in Nat /\ \A s \in 0..n : st[s] \in Seq(Inputs) /\ Len(st[s]) \in Nat /\ s \in 0..top
  <2>1. n \in Nat
    BY <1>1 DEF Named
  <2>2. \A s \in 0..n : s \in 0..top
    BY <1>1, <2>1, SMTT(10)
  <2> QED BY <1>1, <2>1, <2>2, WordsClosed
<1>3. 1 \in 1..Len(qu) /\ r \in Waiting(qu) /\ Waiting(qu) \in SUBSET (0..n) /\ Len(qu) \in Nat
  BY <1>1, WaitingStates
<1>4. r \in 0..n /\ r \in 0..top /\ r \notin P /\ r # 0 /\ TrieRow(n, tr, st, r)
  BY <1>1, <1>2, <1>3
<1>5. ASSUME NEW q \in Waiting(qu)
      PROVE  Len(st[r]) <= Len(st[q]) /\ Len(st[q]) <= Len(st[r]) + 1
  <2>1. PICK k \in 1..Len(qu) : q = qu[k]
    BY DEF Waiting
  <2>2. 1 <= k
    BY <1>3, SMTT(10)
  <2> QED BY <1>1, <1>3, <2>1, <2>2 DEF InLayers
<1>6. ASSUME NEW s \in Waiting(qu)
      PROVE  fl[s] \in 0..n /\ Len(st[fl[s]]) < Len(st[s])
  <2>1. s # 0 /\ s \in 0..n /\ s \in 0..top
    BY <1>1, <1>2, <1>3
  <2>2. fl[s] \in 0..n /\ LongestProper(st[fl[s]], st[s], WordSet(n, st))
    BY <1>1, <2>1
  <2> QED BY <1>2, <2>1, <2>2, ProperShorter
<1>7. ASSUME NEW s \in 0..n, Len(st[s]) < Len(st[r])
      PROVE  s \in P
  <2> SUFFICES ASSUME s \notin P
               PROVE  FALSE
    OBVIOUS
  <2>1. PICK q \in Waiting(qu) : Len(st[q]) <= Len(st[s])
    BY Frontier
  <2>2. Len(st[r]) <= Len(st[q]) /\ Len(st[q]) \in Nat
    BY <1>2, <1>3, <1>5
  <2>3. Len(st[s]) \in Nat /\ Len(st[r]) \in Nat
    BY <1>2, <1>4
  <2> QED BY <1>7, <2>1, <2>2, <2>3, SMTT(10)
<1>8. fl[r] \in P
  BY <1>3, <1>6, <1>7
<1>9. ASSUME NEW s \in 0..top, s \notin P
      PROVE  fl[s] \in P \/ (fl[s] \in 0..top /\ fl[fl[s]] \in P)
  <2>1. CASE s \notin Waiting(qu)
    BY <1>1, <1>9, <2>1
  <2>2. CASE s \in Waiting(qu)
    <3>1. PICK f : f = fl[s]
      OBVIOUS
    <3>2. f \in 0..n /\ Len(st[f]) < Len(st[s]) /\ f \in 0..top
      BY <1>2, <1>6, <2>2, <3>1
    <3>3. CASE f \notin Waiting(qu)
      BY <1>1, <3>1, <3>2, <3>3
    <3>4. CASE f \in Waiting(qu)
      <4>1. fl[f] \in 0..n /\ Len(st[fl[f]]) < Len(st[f])
        BY <1>6, <3>4
      <4>2. Len(st[s]) <= Len(st[r]) + 1
        BY <1>5, <2>2
      <4>3. Len(st[f]) \in Nat /\ Len(st[s]) \in Nat /\ Len(st[r]) \in Nat /\ Len(st[fl[f]]) \in Nat
        BY <1>2, <1>3, <1>4, <2>2, <3>2, <4>1
      <4>4. Len(st[fl[f]]) < Len(st[r])
        BY <3>2, <4>1, <4>2, <4>3, SMTT(10)
      <4>5. fl[f] \in P
        BY <1>7, <4>1, <4>4
      <4> QED BY <3>1, <3>2, <4>5
    <3> QED BY <3>3, <3>4
  <2> QED BY <2>1, <2>2
<1> QED BY <1>3, <1>4, <1>5, <1>8, <1>9

\* The failure chain need not be followed: the row of the failure state is whole.
LEMMA NextFound ==
  ASSUME NEW P, Pass(P, numStates, Top, trans, str, fail, queue), queue # <<>>,
         NEW r, r = queue[1], NEW i \in Inputs
  PROVE  V1!NextOnFailure(fail[r], i) = trans[fail[r]][i]
<1>1. PICK n, top, tr, fl : n = numStates /\ top = Top /\ tr = trans /\ fl = fail
  OBVIOUS
<1>2. /\ n \in Nat /\ tr \in [0..top -> [Inputs -> Int]] /\ fl \in [0..top -> 0..n] /\ DOMAIN tr = 0..top
      /\ P \in SUBSET (0..n) /\ \A s \in P : WholeRow(n, tr, str, s)
      /\ \A s \in 0..n : s \in 0..top
  <2>1. /\ Named(n, str) /\ tr \in [0..top -> [Inputs -> Int]] /\ fl \in [0..top -> 0..n]
        /\ P \in SUBSET (0..n) /\ (\A s \in P : WholeRow(n, tr, str, s)) /\ n <= top /\ top \in Nat
    BY <1>1 DEF Pass
  <2>2. n \in Nat
    BY <2>1 DEF Named
  <2>3. \A s \in 0..n : s \in 0..top
    BY <2>1, <2>2, SMTT(10)
  <2> QED BY <2>1, <2>2, <2>3
<1>3. /\ r \in 0..top /\ fl[r] \in P
      /\ \A s \in 0..top : s \notin P => fl[s] \in P \/ (fl[s] \in 0..top /\ fl[fl[s]] \in P)
  BY <1>1, HeadOfQueue
<1>4. \A s \in P : tr[s][i] # -1 /\ s \in 0..top
  <2>1. \A x \in 0..n : x # -1
    BY SMTT(10)
  <2> QED BY <1>2, <2>1 DEF WholeRow
<1> DEFINE next == CHOOSE next : next = [s \in DOMAIN trans |->
                     IF trans[s][i] # -1 THEN trans[s][i] ELSE next[fail[s]]]
<1>5. \E f : f = [s \in DOMAIN trans |-> IF trans[s][i] # -1 THEN trans[s][i] ELSE f[fail[s]]]
  <2> DEFINE f == [s \in 0..top |->
                     IF tr[s][i] # -1 THEN tr[s][i]
                     ELSE IF tr[fl[s]][i] # -1 THEN tr[fl[s]][i] ELSE tr[fl[fl[s]]][i]]
  <2>1. ASSUME NEW s \in 0..top
        PROVE  f[s] = IF tr[s][i] # -1 THEN tr[s][i] ELSE f[fl[s]]
    <3>1. CASE tr[s][i] # -1
      BY <3>1
    <3>2. CASE tr[s][i] = -1
      <4>1. s \notin P
        BY <1>4, <3>2
      <4>2. fl[s] \in 0..top
        BY <1>2
      <4>3. CASE fl[s] \in P
        BY <1>4, <3>2, <4>2, <4>3
      <4>4. CASE fl[s] \notin P
        <5>1. fl[fl[s]] \in P
          BY <1>3, <4>1, <4>4
        <5>2. tr[fl[fl[s]]][i] # -1
          BY <1>4, <5>1
        <5> QED BY <3>2, <4>2, <5>2
      <4> QED BY <4>3, <4>4
    <3> QED BY <3>1, <3>2
  <2>2. f = [s \in 0..top |-> f[s]]
    OBVIOUS
  <2> HIDE DEF f
  <2>3. f = [s \in 0..top |-> IF tr[s][i] # -1 THEN tr[s][i] ELSE f[fl[s]]]
    BY <2>1, <2>2
  <2> QED BY <1>1, <1>2, <2>3
<1>6. next = [s \in DOMAIN trans |-> IF trans[s][i] # -1 THEN trans[s][i] ELSE next[fail[s]]]
  BY <1>5
<1>7. V1!NextOnFailure(fail[r], i) = next[fail[r]]
  BY DEF V1!NextOnFailure
<1> HIDE DEF next
<1>8. next[fl[r]] = tr[fl[r]][i]
  BY <1>1, <1>2, <1>3, <1>4, <1>6
<1> QED BY <1>1, <1>7, <1>8

\* The inputs that a row has a transition on.
Own(tr, s) == { i \in Inputs : tr[s][i] # -1 }

\* The states that a state has in the trie, in the order of the inputs.
Children(tr, s) == [j \in DOMAIN Ascending(Own(tr, s)) |-> tr[s][Ascending(Own(tr, s))[j]]]

\* These are the states with one input more, each once.
Bears(n, tr, st, s, ch) ==
  /\ ch \in Seq(0..n) /\ \A k, m \in 1..Len(ch) : ch[k] = ch[m] => k = m
  /\ \A q \in 0..n : q \in Waiting(ch) <=> \E i \in Inputs : st[q] = Append(st[s], i)
  /\ \A q \in Waiting(ch) : q \in 0..n /\ Len(st[q]) = Len(st[s]) + 1
  /\ \A i \in Own(tr, s) : tr[s][i] \in 0..n /\ tr[s][i] # 0 /\ st[tr[s][i]] = Append(st[s], i)
  /\ \A i \in Inputs, q \in 0..n : st[q] = Append(st[s], i) => i \in Own(tr, s) /\ q = tr[s][i]

\* A row of the trie gives the children.
LEMMA ChildrenAre ==
  ASSUME NEW n, NEW tr, NEW st, Named(n, st), NEW s \in 0..n, TrieRow(n, tr, st, s),
         NEW ch, ch = Children(tr, s)
  PROVE  Bears(n, tr, st, s, ch)
<1>1. n \in Nat /\ \A q \in 0..n : st[q] \in Seq(Inputs) /\ Len(st[q]) \in Nat
  BY WordsClosed DEF Named
<1>2. /\ \A q \in 1..n : q \in 0..n /\ q # 0 /\ q # -1
      /\ \A x, y \in 0..n : st[x] = st[y] => x = y
  <2>1. \A q \in 1..n : q \in 0..n /\ q # 0 /\ q # -1
    BY <1>1, SMTT(10)
  <2> QED BY <2>1 DEF Named
<1>3. \A i \in Own(tr, s) : tr[s][i] \in 0..n /\ tr[s][i] # 0 /\ st[tr[s][i]] = Append(st[s], i)
  BY <1>2 DEF Own, TrieRow
<1>4. ASSUME NEW i \in Inputs, NEW q \in 0..n, st[q] = Append(st[s], i)
      PROVE  i \in Own(tr, s) /\ q = tr[s][i]
  <2>1. tr[s][i] \in 1..n /\ st[tr[s][i]] = Append(st[s], i)
    BY <1>4 DEF TrieRow
  <2> QED BY <1>2, <1>4, <2>1 DEF Own
<1>5. PICK o, c, a : o = Own(tr, s) /\ c = Cardinality(o) /\ a = Ascending(o)
  OBVIOUS
<1>6. /\ o \in SUBSET Inputs /\ c \in Nat /\ a \in [1..c -> o] /\ DOMAIN a = 1..c
      /\ \A x \in o : \E k \in 1..c : a[k] = x
      /\ \A k, m \in 1..c : a[k] = a[m] => k = m
  <2>1. o \in SUBSET Inputs
    BY <1>5 DEF Own
  <2> QED BY <1>5, <2>1, AscendingCounts
<1>7. ch = [j \in 1..c |-> tr[s][a[j]]]
  BY <1>5, <1>6 DEF Children
<1>8. ch \in Seq(0..n) /\ Len(ch) = c
  <2>1. ch \in [1..c -> 0..n]
    BY <1>3, <1>5, <1>6, <1>7
  <2> QED BY <1>6, <1>7, <2>1, SMTT(10)
<1>9. ASSUME NEW k \in 1..Len(ch), NEW m \in 1..Len(ch), ch[k] = ch[m]
      PROVE  k = m
  <2>1. a[k] \in o /\ a[m] \in o /\ tr[s][a[k]] = tr[s][a[m]]
    BY <1>6, <1>7, <1>8, <1>9
  <2>2. Append(st[s], a[k]) = Append(st[s], a[m]) /\ st[s] \in Seq(Inputs)
    BY <1>1, <1>3, <1>5, <2>1
  <2>3. a[k] = a[m]
    BY <1>6, <2>1, <2>2, SameAppend
  <2> QED BY <1>6, <1>8, <2>3
<1>10. ASSUME NEW q \in Waiting(ch)
       PROVE  q \in 0..n /\ \E i \in Inputs : st[q] = Append(st[s], i)
  <2>1. PICK k \in 1..c : q = ch[k]
    BY <1>8 DEF Waiting
  <2>2. a[k] \in o /\ q = tr[s][a[k]]
    BY <1>6, <1>7, <2>1
  <2> QED BY <1>3, <1>5, <1>6, <2>2
<1>11. ASSUME NEW q \in 0..n, NEW i \in Inputs, st[q] = Append(st[s], i)
       PROVE  q \in Waiting(ch)
  <2>1. i \in o /\ q = tr[s][i]
    BY <1>4, <1>5, <1>11
  <2>2. PICK k \in 1..c : a[k] = i
    BY <1>6, <2>1
  <2>3. q = ch[k]
    BY <1>7, <2>1, <2>2
  <2> QED BY <1>8, <2>3 DEF Waiting
<1>12. ASSUME NEW q \in Waiting(ch)
       PROVE  Len(st[q]) = Len(st[s]) + 1
  <2>1. PICK i \in Inputs : st[q] = Append(st[s], i)
    BY <1>10
  <2> QED BY <1>1, <2>1, AppendWord
<1> QED BY <1>3, <1>4, <1>8, <1>9, <1>10, <1>11, <1>12 DEF Bears

\* With the root done the pass begins.
LEMMA RootPass ==
  ASSUME NEW n, NEW top, NEW tr, NEW st, Trie(n, top, tr, st),
         NEW fl, fl = [s \in 0..top |-> 0], NEW qu, qu = Children(tr, 0),
         NEW tr2, tr2 = [tr EXCEPT ![0] = [i \in Inputs |-> IF tr[0][i] = -1 THEN 0 ELSE tr[0][i]]]
  PROVE  Pass({0}, n, top, tr2, st, fl, qu)
<1>1. /\ Named(n, st) /\ top \in Nat /\ n <= top /\ tr \in [0..top -> [Inputs -> Int]]
      /\ \A s \in 0..n : TrieRow(n, tr, st, s)
      /\ n \in Nat /\ st[0] = <<>> /\ 0 \in 0..n /\ 0 \in 0..top
      /\ \A s \in 0..n : st[s] \in Seq(Inputs) /\ Len(st[s]) \in Nat /\ s \in 0..top
  <2>1. /\ Named(n, st) /\ top \in Nat /\ n <= top /\ tr \in [0..top -> [Inputs -> Int]]
        /\ \A s \in 0..n : TrieRow(n, tr, st, s)
    BY DEF Trie
  <2>2. n \in Nat /\ st[0] = <<>>
    BY <2>1 DEF Named
  <2>3. 0 \in 0..n /\ 0 \in 0..top /\ \A s \in 0..n : s \in 0..top
    BY <2>1, <2>2, SMTT(10)
  <2> QED BY <2>1, <2>2, <2>3, WordsClosed
<1>2. PICK W : W = WordSet(n, st)
  OBVIOUS
<1>3. PrefixClosed(W) /\ W \in SUBSET Seq(Inputs) /\ \A s \in 0..n : st[s] \in W
  BY <1>1, <1>2, WordsClosed
<1>4. /\ qu \in Seq(0..n) /\ \A k, m \in 1..Len(qu) : qu[k] = qu[m] => k = m
      /\ \A q \in 0..n : q \in Waiting(qu) <=> \E i \in Inputs : st[q] = Append(st[0], i)
      /\ \A q \in Waiting(qu) : q \in 0..n /\ Len(st[q]) = Len(st[0]) + 1
      /\ \A i \in Own(tr, 0) : tr[0][i] \in 0..n /\ tr[0][i] # 0 /\ st[tr[0][i]] = Append(st[0], i)
      /\ \A i \in Inputs, q \in 0..n : st[q] = Append(st[0], i) => i \in Own(tr, 0) /\ q = tr[0][i]
  <2>1. TrieRow(n, tr, st, 0)
    BY <1>1
  <2>2. Bears(n, tr, st, 0, qu)
    BY <1>1, <2>1, ChildrenAre
  <2> QED BY <2>2 DEF Bears
<1>5. /\ tr2 \in [0..top -> [Inputs -> Int]] /\ \A s \in 0..top : s # 0 => tr2[s] = tr[s]
      /\ \A i \in Inputs : tr2[0][i] = IF tr[0][i] = -1 THEN 0 ELSE tr[0][i]
  <2>1. [i \in Inputs |-> IF tr[0][i] = -1 THEN 0 ELSE tr[0][i]] \in [Inputs -> Int]
    BY <1>1
  <2> QED BY <1>1, <2>1
<1>6. ASSUME NEW i \in Inputs
      PROVE  tr2[0][i] \in 0..n /\ Longest(st[tr2[0][i]], Append(st[0], i), W)
  <2>1. CASE tr[0][i] = -1
    <3>1. tr2[0][i] = 0
      BY <1>5, <2>1
    <3>2. Append(<<>>, i) \notin W
      <4>1. ASSUME NEW q \in 0..n, st[q] = Append(st[0], i)
            PROVE  FALSE
        BY <1>4, <2>1, <4>1 DEF Own
      <4> QED BY <1>1, <1>2, <4>1 DEF WordSet
    <3>3. LongestProper(<<>>, Append(<<>>, i), W) /\ Append(<<>>, i) \in Seq(Inputs)
      BY <1>1, <1>3, LongestOfInput, AppendWord
    <3>4. Longest(<<>>, Append(<<>>, i), W)
      BY <1>3, <3>2, <3>3, LongestOwn
    <3> QED BY <1>1, <3>1, <3>4
  <2>2. CASE tr[0][i] # -1
    <3>1. i \in Own(tr, 0) /\ tr2[0][i] = tr[0][i]
      BY <1>5, <2>2 DEF Own
    <3>2. tr[0][i] \in 0..n /\ st[tr[0][i]] = Append(st[0], i)
      BY <1>4, <3>1
    <3>3. PICK w : w = st[tr[0][i]]
      OBVIOUS
    <3>4. w \in W /\ w \in Seq(Inputs)
      BY <1>1, <1>3, <3>2, <3>3
    <3>5. Longest(w, w, W)
      BY <1>3, <3>4, LongestOwn
    <3> QED BY <3>1, <3>2, <3>3, <3>5
  <2> QED BY <2>1, <2>2
<1>7. WholeRow(n, tr2, st, 0)
  BY <1>2, <1>6 DEF WholeRow
<1>8. ASSUME NEW s \in 0..n, s \notin {0}
      PROVE  TrieRow(n, tr2, st, s)
  <2>1. tr2[s] = tr[s] /\ TrieRow(n, tr, st, s)
    BY <1>1, <1>5, <1>8
  <2> QED BY <2>1 DEF TrieRow
<1>9. InLayers(n, st, qu) /\ 0 \notin Waiting(qu)
  <2>1. \A k \in 1..Len(qu) : Len(st[qu[k]]) = Len(st[0]) + 1
    BY <1>4 DEF Waiting
  <2>2. Len(st[0]) \in Nat
    BY <1>1
  <2>3. ASSUME NEW k \in 1..Len(qu), NEW m \in 1..Len(qu)
        PROVE  Len(st[qu[k]]) <= Len(st[qu[m]])
    BY <2>1, <2>2, SMTT(10)
  <2>4. ASSUME NEW k \in 1..Len(qu)
        PROVE  Len(st[qu[k]]) <= Len(st[qu[1]]) + 1
    <3>1. 1 \in 1..Len(qu)
      <4>1. Len(qu) \in Nat
        BY <1>4, LenProperties
      <4> QED BY <4>1, SMTT(10)
    <3> QED BY <2>1, <2>2, <3>1, SMTT(10)
  <2>5. 0 \notin Waiting(qu)
    <3>1. Len(st[0]) # Len(st[0]) + 1
      BY <2>2, SMTT(10)
    <3> QED BY <1>4, <3>1
  <2> QED BY <1>4, <2>3, <2>4, <2>5 DEF InLayers
<1>10. ASSUME NEW s \in 0..n, NEW q \in 0..n, NEW i \in Inputs, st[q] = Append(st[s], i)
       PROVE  q \in {0} \cup Waiting(qu) <=> s \in {0}
  <2>1. q # 0
    <3>1. PICK u : u = st[s]
      OBVIOUS
    <3>2. u \in Seq(Inputs) /\ st[q] = Append(u, i)
      BY <1>1, <1>10, <3>1
    <3>3. st[q] # <<>>
      BY <3>2, AppendWord
    <3> QED BY <1>1, <3>3
  <2>2. ASSUME q \in Waiting(qu)
        PROVE  s = 0
    <3>1. PICK j \in Inputs : st[q] = Append(st[0], j)
      BY <1>4, <2>2
    <3>2. st[s] = st[0]
      <4>1. Append(st[s], i) = Append(st[0], j) /\ st[s] \in Seq(Inputs) /\ st[0] \in Seq(Inputs)
        BY <1>1, <1>10, <3>1
      <4>2. PICK u, v : u = st[s] /\ v = st[0]
        OBVIOUS
      <4>3. u = v
        BY <4>1, <4>2, SameAppend
      <4> QED BY <4>2, <4>3
    <3> QED BY <1>1, <3>2 DEF Named
  <2>3. s = 0 => q \in Waiting(qu)
    BY <1>4, <1>10
  <2> QED BY <2>1, <2>2, <2>3
<1>11. ASSUME NEW s \in ({0} \cup Waiting(qu)) \ {0}
       PROVE  LongestProper(st[fl[s]], st[s], W)
  <2>1. PICK i \in Inputs : st[s] = Append(<<>>, i)
    <3>1. s \in 0..n /\ s \in Waiting(qu)
      BY <1>4, <1>11
    <3>2. PICK i \in Inputs : st[s] = Append(st[0], i)
      BY <1>4, <3>1
    <3> QED BY <1>1, <3>2
  <2>2. s \in 0..top
    BY <1>1, <1>4
  <2>3. st[fl[s]] = <<>>
    BY <1>1, <2>2
  <2> QED BY <1>3, <2>1, <2>3, LongestOfInput
<1>12. fl \in [0..top -> 0..n] /\ \A s \in 0..top : fl[s] = 0
  BY <1>1
<1>13. PICK P : P = {0}
  OBVIOUS
<1>14. P \in SUBSET (0..n) /\ 0 \in P /\ \A s \in P : WholeRow(n, tr2, st, s)
  BY <1>1, <1>7, <1>13
<1>15. \A s \in 0..n : s \notin P => TrieRow(n, tr2, st, s)
  BY <1>8, <1>13
<1>16. \A s \in Waiting(qu) : s \notin P
  BY <1>9, <1>13
<1>17. \A s, q \in 0..n, i \in Inputs : st[q] = Append(st[s], i) => (q \in P \cup Waiting(qu) <=> s \in P)
  BY <1>10, <1>13
<1>18. \A s \in (P \cup Waiting(qu)) \ {0} : LongestProper(st[fl[s]], st[s], WordSet(n, st))
  BY <1>2, <1>11, <1>13
<1>19. Pass(P, n, top, tr2, st, fl, qu)
  BY <1>1, <1>5, <1>9, <1>12, <1>14, <1>15, <1>16, <1>17, <1>18 DEF Pass
<1> QED BY <1>13, <1>19

\* What a state's suffix state does on an input is what the state does, if it has
\* no state for that input, and where the state for it fails to, if it has.
LEMMA SuffixRow ==
  ASSUME NEW P, NEW n, NEW top, NEW tr, NEW st, NEW fl, NEW qu, Pass(P, n, top, tr, st, fl, qu),
         qu # <<>>, NEW r, r = qu[1], NEW i \in Inputs
  PROVE  /\ tr[fl[r]][i] \in 0..n
         /\ LongestProper(st[tr[fl[r]][i]], Append(st[r], i), WordSet(n, st))
         /\ tr[r][i] = -1 => Longest(st[tr[fl[r]][i]], Append(st[r], i), WordSet(n, st))
<1>1. /\ Named(n, st) /\ P \in SUBSET (0..n) /\ \A s \in P : WholeRow(n, tr, st, s)
      /\ \A s \in (P \cup Waiting(qu)) \ {0} : LongestProper(st[fl[s]], st[s], WordSet(n, st))
  BY DEF Pass
<1>2. r \in 0..n /\ r # 0 /\ r \in Waiting(qu) /\ fl[r] \in P /\ TrieRow(n, tr, st, r)
  BY HeadOfQueue
<1>3. PICK W, f, u, x : W = WordSet(n, st) /\ f = fl[r] /\ u = st[r] /\ x = st[tr[f][i]]
  OBVIOUS
<1>4. PrefixClosed(W) /\ W \in SUBSET Seq(Inputs) /\ u \in Seq(Inputs)
  BY <1>1, <1>2, <1>3, WordsClosed
<1>5. tr[f][i] \in 0..n /\ Longest(x, Append(st[f], i), W)
  BY <1>1, <1>2, <1>3 DEF WholeRow
<1>6. LongestProper(st[f], u, W)
  BY <1>1, <1>2, <1>3
<1>7. LongestProper(x, Append(u, i), W)
  BY <1>4, <1>5, <1>6, ProperNext
<1>8. ASSUME tr[r][i] = -1
      PROVE  Longest(x, Append(u, i), W)
  <2>1. \A q \in 0..n : st[q] # Append(u, i)
    <3>1. tr[r][i] \notin 1..n
      <4>1. n \in Nat
        BY <1>1 DEF Named
      <4> QED BY <1>8, <4>1, SMTT(10)
    <3> QED BY <1>2, <1>3, <3>1 DEF TrieRow
  <2>2. Append(u, i) \notin W /\ Append(u, i) \in Seq(Inputs)
    BY <1>3, <1>4, <2>1, AppendWord DEF WordSet
  <2> QED BY <1>4, <1>7, <2>2, LongestOwn
<1> QED BY <1>3, <1>5, <1>7, <1>8

\* The children ch get the longest proper suffixes for failure states.
Refails(n, top, st, fl, ch, fl2) ==
  /\ fl2 \in [0..top -> 0..n] /\ \A s \in 0..top : s \notin Waiting(ch) => fl2[s] = fl[s]
  /\ \A s \in Waiting(ch) : LongestProper(st[fl2[s]], st[s], WordSet(n, st))

\* The failure state of a child is where that of its parent goes.
NewFailures(top, tr, fl, r, fl2) ==
  fl2 = [s \in 0..top |-> IF \E i \in Own(tr, r) : tr[r][i] = s
                          THEN tr[fl[r]][CHOOSE i \in Own(tr, r) : tr[r][i] = s]
                          ELSE fl[s]]

\* A row gets what it misses from the failure state.
NewRow(tr, fl, r, tr2) ==
  tr2 = [tr EXCEPT ![r] = [i \in Inputs |-> IF i \in Own(tr, r) THEN tr[r][i] ELSE tr[fl[r]][i]]]

\* The children get the failure states that they should have.
LEMMA FailuresSet ==
  ASSUME NEW P, NEW n, NEW top, NEW tr, NEW st, NEW fl, NEW qu, Pass(P, n, top, tr, st, fl, qu),
         qu # <<>>, NEW r, r = qu[1], NEW ch, Bears(n, tr, st, r, ch),
         NEW fl2, NewFailures(top, tr, fl, r, fl2)
  PROVE  Refails(n, top, st, fl, ch, fl2)
<1>1. Named(n, st) /\ fl \in [0..top -> 0..n] /\ n <= top /\ top \in Nat
  BY DEF Pass
<1>2. \A s \in 0..n : s \in 0..top
  <2>1. n \in Nat
    BY <1>1 DEF Named
  <2> QED BY <1>1, <2>1, SMTT(10)
<1>3. \A s \in 0..n : s \in Waiting(ch) <=> \E i \in Inputs : st[s] = Append(st[r], i)
  BY DEF Bears
<1>4. /\ \A i \in Own(tr, r) : tr[r][i] \in 0..n /\ st[tr[r][i]] = Append(st[r], i)
      /\ \A i \in Inputs, q \in 0..n : st[q] = Append(st[r], i) => i \in Own(tr, r) /\ q = tr[r][i]
      /\ Own(tr, r) \in SUBSET Inputs /\ \A q \in Waiting(ch) : q \in 0..n
  BY DEF Bears, Own
<1>5. ASSUME NEW s \in 0..top
      PROVE  s \in Waiting(ch) <=> \E i \in Own(tr, r) : tr[r][i] = s
  BY <1>3, <1>4
<1>6. ASSUME NEW s \in Waiting(ch)
      PROVE  fl2[s] \in 0..n /\ LongestProper(st[fl2[s]], st[s], WordSet(n, st))
  <2>1. s \in 0..top /\ \E i \in Own(tr, r) : tr[r][i] = s
    BY <1>2, <1>4, <1>5
  <2>2. PICK i : i = CHOOSE j \in Own(tr, r) : tr[r][j] = s
    OBVIOUS
  <2>3. i \in Own(tr, r) /\ tr[r][i] = s
    BY <2>1, <2>2 DEF NewFailures
  <2>4. i \in Inputs /\ st[s] = Append(st[r], i)
    BY <1>4, <2>3
  <2>5. fl2[s] = tr[fl[r]][i]
    BY <2>1, <2>2 DEF NewFailures
  <2>6. tr[fl[r]][i] \in 0..n /\ LongestProper(st[tr[fl[r]][i]], Append(st[r], i), WordSet(n, st))
    BY <2>4, SuffixRow
  <2> QED BY <2>4, <2>5, <2>6
<1>7. ASSUME NEW s \in 0..top, s \notin Waiting(ch)
      PROVE  fl2[s] = fl[s]
  <2>1. ~\E i \in Own(tr, r) : tr[r][i] = s
    BY <1>5, <1>7
  <2> QED BY <2>1 DEF NewFailures
<1>8. \A s \in 0..top : fl2[s] \in 0..n
  BY <1>1, <1>6, <1>7
<1>9. fl2 \in [0..top -> 0..n]
  BY <1>8 DEF NewFailures
<1> QED BY <1>6, <1>7, <1>9 DEF Refails

\* The queue qu2 is that without r and with the children ch, who are new.
Requeues(P, n, st, qu, r, ch, qu2) ==
  /\ InLayers(n, st, qu2)
  /\ \A s \in 0..n : s \in Waiting(qu2) <=> s \in Waiting(ch) \/ (s \in Waiting(qu) /\ s # r)
  /\ \A s \in Waiting(ch) : s \notin P /\ s \notin Waiting(qu) /\ s # 0

\* And the queue is what it should be.
LEMMA QueueMoves ==
  ASSUME NEW P, NEW n, NEW top, NEW tr, NEW st, NEW fl, NEW qu, Pass(P, n, top, tr, st, fl, qu),
         qu # <<>>, NEW r, r = qu[1], NEW ch, Bears(n, tr, st, r, ch),
         NEW qu2, qu2 = Tail(qu) \o ch
  PROVE  Requeues(P, n, st, qu, r, ch, qu2)
<1>1. /\ Named(n, st) /\ 0 \in P /\ InLayers(n, st, qu)
      /\ \A s, q \in 0..n, i \in Inputs :
           st[q] = Append(st[s], i) => (q \in P \cup Waiting(qu) <=> s \in P)
  BY DEF Pass
<1>2. /\ r \in 0..n /\ r \notin P /\ r \in Waiting(qu)
      /\ \A q \in Waiting(qu) : Len(st[r]) <= Len(st[q]) /\ Len(st[q]) <= Len(st[r]) + 1
  BY HeadOfQueue
<1>3. /\ ch \in Seq(0..n) /\ \A k, m \in 1..Len(ch) : ch[k] = ch[m] => k = m
      /\ \A q \in 0..n : q \in Waiting(ch) <=> \E i \in Inputs : st[q] = Append(st[r], i)
      /\ \A q \in Waiting(ch) : q \in 0..n /\ Len(st[q]) = Len(st[r]) + 1
  BY DEF Bears
<1>4. /\ \A q \in 0..n : Len(st[q]) \in Nat
      /\ Waiting(qu) \in SUBSET (0..n)
  BY <1>1, WordsClosed, WaitingStates
<1>5. ASSUME NEW s \in Waiting(ch)
      PROVE  s \notin P /\ s \notin Waiting(qu) /\ s # 0
  <2>1. s \in 0..n /\ \E i \in Inputs : st[s] = Append(st[r], i)
    BY <1>3
  <2>2. s \notin P \cup Waiting(qu)
    BY <1>1, <1>2, <2>1
  <2> QED BY <1>1, <2>2
<1>6. PICK tl, a, b : tl = Tail(qu) /\ a = Len(tl) /\ b = Len(ch)
  OBVIOUS
<1>7. /\ tl \in Seq(0..n) /\ a \in Nat /\ b \in Nat /\ Len(qu) = a + 1
      /\ \A k \in 1..a : tl[k] = qu[k + 1]
  <2>1. qu \in Seq(0..n) /\ ch \in Seq(0..n)
    BY <1>1, <1>3 DEF InLayers
  <2>2. tl \in Seq(0..n) /\ a = Len(qu) - 1 /\ \A k \in 1..a : tl[k] = qu[k + 1]
    BY <1>6, <2>1, HeadTailProperties
  <2>3. a \in Nat /\ b \in Nat /\ Len(qu) \in Nat
    BY <1>6, <2>1, <2>2, LenProperties
  <2>4. Len(qu) = a + 1
    BY <2>2, <2>3, SMTT(10)
  <2> QED BY <2>2, <2>3, <2>4
<1>8. /\ qu2 \in Seq(0..n) /\ Len(qu2) = a + b
      /\ \A k \in 1..(a + b) : qu2[k] = IF k <= a THEN tl[k] ELSE ch[k - a]
  BY <1>3, <1>6, <1>7, ConcatProperties
<1>9. /\ \A k \in 1..(a + b) : k \in 1..a \/ k \in (a + 1)..(a + b)
      /\ \A k \in 1..a : k <= a /\ k \in 1..(a + b) /\ k + 1 \in 1..Len(qu) /\ k + 1 # 1
      /\ \A k \in (a + 1)..(a + b) : ~(k <= a) /\ k \in 1..(a + b) /\ k - a \in 1..b
      /\ \A k \in 1..Len(qu) : k = 1 \/ (k - 1 \in 1..a /\ (k - 1) + 1 = k)
      /\ \A k \in 1..b : k + a \in (a + 1)..(a + b) /\ (k + a) - a = k
      /\ 1 \in 1..Len(qu)
  <2>1. \A k \in 1..(a + b) : k \in 1..a \/ k \in (a + 1)..(a + b)
    BY <1>7, SMTT(10)
  <2>2. \A k \in 1..a : k <= a /\ k \in 1..(a + b) /\ k + 1 \in 1..Len(qu) /\ k + 1 # 1
    BY <1>7, SMTT(10)
  <2>3. \A k \in (a + 1)..(a + b) : ~(k <= a) /\ k \in 1..(a + b) /\ k - a \in 1..b
    BY <1>7, SMTT(10)
  <2>4. \A k \in 1..Len(qu) : k = 1 \/ (k - 1 \in 1..a /\ (k - 1) + 1 = k)
    BY <1>7, SMTT(10)
  <2>5. \A k \in 1..b : k + a \in (a + 1)..(a + b) /\ (k + a) - a = k
    BY <1>7, SMTT(10)
  <2>6. 1 \in 1..Len(qu)
    BY <1>7, SMTT(10)
  <2> QED BY <2>1, <2>2, <2>3, <2>4, <2>5, <2>6
<1>10. /\ \A k \in 1..a : qu2[k] = qu[k + 1] /\ qu2[k] \in Waiting(qu) /\ qu2[k] # r
       /\ \A k \in (a + 1)..(a + b) : qu2[k] = ch[k - a] /\ qu2[k] \in Waiting(ch)
  <2>1. ASSUME NEW k \in 1..a
        PROVE  qu2[k] = qu[k + 1] /\ qu2[k] \in Waiting(qu) /\ qu2[k] # r
    <3>1. qu2[k] = qu[k + 1] /\ k + 1 \in 1..Len(qu) /\ k + 1 # 1
      BY <1>7, <1>8, <1>9
    <3>2. qu[k + 1] # qu[1]
      BY <1>1, <1>9, <3>1 DEF InLayers
    <3> QED BY <3>1, <3>2 DEF Waiting
  <2>2. ASSUME NEW k \in (a + 1)..(a + b)
        PROVE  qu2[k] = ch[k - a] /\ qu2[k] \in Waiting(ch)
    <3>1. qu2[k] = ch[k - a] /\ k - a \in 1..Len(ch)
      BY <1>6, <1>8, <1>9
    <3> QED BY <3>1 DEF Waiting
  <2> QED BY <2>1, <2>2
<1>11. ASSUME NEW s \in 0..n
       PROVE  s \in Waiting(qu2) <=> s \in Waiting(ch) \/ (s \in Waiting(qu) /\ s # r)
  <2>1. ASSUME s \in Waiting(qu2)
        PROVE  s \in Waiting(ch) \/ (s \in Waiting(qu) /\ s # r)
    <3>1. PICK k \in 1..(a + b) : s = qu2[k]
      BY <1>8, <2>1 DEF Waiting
    <3> QED BY <1>9, <1>10, <3>1
  <2>2. ASSUME s \in Waiting(ch)
        PROVE  s \in Waiting(qu2)
    <3>1. PICK k \in 1..b : s = ch[k]
      BY <1>6, <2>2 DEF Waiting
    <3>2. k + a \in (a + 1)..(a + b) /\ (k + a) - a = k
      BY <1>9
    <3>3. qu2[k + a] = s /\ k + a \in 1..Len(qu2)
      BY <1>8, <1>9, <1>10, <3>1, <3>2
    <3> QED BY <3>3 DEF Waiting
  <2>3. ASSUME s \in Waiting(qu), s # r
        PROVE  s \in Waiting(qu2)
    <3>1. PICK k \in 1..Len(qu) : s = qu[k]
      BY <2>3 DEF Waiting
    <3>2. k - 1 \in 1..a /\ (k - 1) + 1 = k
      BY <1>9, <2>3, <3>1
    <3>3. qu2[k - 1] = s /\ k - 1 \in 1..Len(qu2)
      BY <1>8, <1>9, <1>10, <3>1, <3>2
    <3> QED BY <3>3 DEF Waiting
  <2> QED BY <2>1, <2>2, <2>3
<1>12. ASSUME NEW k \in 1..(a + b), NEW m \in 1..(a + b), qu2[k] = qu2[m]
       PROVE  k = m
  <2>1. CASE k \in 1..a /\ m \in 1..a
    <3>1. qu[k + 1] = qu[m + 1] /\ k + 1 \in 1..Len(qu) /\ m + 1 \in 1..Len(qu)
      BY <1>9, <1>10, <1>12, <2>1
    <3>2. k + 1 = m + 1
      BY <1>1, <3>1 DEF InLayers
    <3> QED BY <3>2, SMTT(10)
  <2>2. CASE k \in (a + 1)..(a + b) /\ m \in (a + 1)..(a + b)
    <3>1. ch[k - a] = ch[m - a] /\ k - a \in 1..Len(ch) /\ m - a \in 1..Len(ch)
      BY <1>6, <1>9, <1>10, <1>12, <2>2
    <3>2. k - a = m - a
      BY <1>3, <3>1
    <3> QED BY <1>7, <3>2, SMTT(10)
  <2>3. CASE (k \in 1..a /\ m \in (a + 1)..(a + b)) \/ (m \in 1..a /\ k \in (a + 1)..(a + b))
    BY <1>5, <1>10, <1>12, <2>3
  <2> QED BY <1>9, <2>1, <2>2, <2>3
<1>13. ASSUME NEW k \in 1..(a + b)
       PROVE  /\ Len(st[qu2[k]]) \in Nat /\ Len(st[r]) <= Len(st[qu2[k]])
              /\ Len(st[qu2[k]]) <= Len(st[r]) + 1
              /\ k \in (a + 1)..(a + b) => Len(st[qu2[k]]) = Len(st[r]) + 1
  <2>1. Len(st[r]) \in Nat
    BY <1>2, <1>4
  <2>2. CASE k \in 1..a
    <3>1. qu2[k] \in Waiting(qu) /\ k \notin (a + 1)..(a + b)
      BY <1>9, <1>10, <2>2
    <3> QED BY <1>2, <1>4, <3>1
  <2>3. CASE k \in (a + 1)..(a + b)
    <3>1. Len(st[qu2[k]]) = Len(st[r]) + 1
      BY <1>3, <1>10, <2>3
    <3> QED BY <2>1, <3>1, SMTT(10)
  <2> QED BY <1>9, <2>2, <2>3
<1>14. ASSUME NEW k \in 1..(a + b), NEW m \in 1..(a + b), k <= m
       PROVE  Len(st[qu2[k]]) <= Len(st[qu2[m]])
  <2>1. CASE m \in (a + 1)..(a + b)
    BY <1>13, <2>1
  <2>2. CASE m \in 1..a
    <3>1. k \in 1..a /\ k + 1 <= m + 1
      BY <1>7, <1>14, <2>2, SMTT(10)
    <3>2. qu2[k] = qu[k + 1] /\ qu2[m] = qu[m + 1] /\ k + 1 \in 1..Len(qu) /\ m + 1 \in 1..Len(qu)
      BY <1>9, <1>10, <2>2, <3>1
    <3>3. \A x, y \in 1..Len(qu) : x <= y => Len(st[qu[x]]) <= Len(st[qu[y]])
      BY <1>1 DEF InLayers
    <3>4. Len(st[qu[k + 1]]) <= Len(st[qu[m + 1]])
      BY <3>1, <3>2, <3>3
    <3> QED BY <3>2, <3>4
  <2> QED BY <1>9, <2>1, <2>2
<1>15. ASSUME NEW k \in 1..(a + b)
       PROVE  Len(st[qu2[k]]) <= Len(st[qu2[1]]) + 1
  <2>1. 1 \in 1..(a + b)
    BY <1>7, SMTT(10)
  <2>2. /\ Len(st[qu2[k]]) \in Nat /\ Len(st[qu2[k]]) <= Len(st[r]) + 1
        /\ Len(st[qu2[1]]) \in Nat /\ Len(st[r]) <= Len(st[qu2[1]]) /\ Len(st[r]) \in Nat
    BY <1>2, <1>4, <1>13, <2>1
  <2>3. PICK x, y, z : x = Len(st[qu2[k]]) /\ y = Len(st[r]) /\ z = Len(st[qu2[1]])
    OBVIOUS
  <2>4. x \in Nat /\ y \in Nat /\ z \in Nat /\ x <= y + 1 /\ y <= z
    BY <2>2, <2>3
  <2>5. x <= z + 1
    BY <2>4, SMTT(10)
  <2> QED BY <2>3, <2>5
<1> QED BY <1>5, <1>8, <1>11, <1>12, <1>14, <1>15 DEF InLayers, Requeues

\* One state of the pass is done.
LEMMA PassStep ==
  ASSUME NEW P, NEW n, NEW top, NEW tr, NEW st, NEW fl, NEW qu, Pass(P, n, top, tr, st, fl, qu),
         qu # <<>>, NEW r, r = qu[1], NEW ch, Bears(n, tr, st, r, ch),
         NEW fl2, Refails(n, top, st, fl, ch, fl2), NEW qu2, Requeues(P, n, st, qu, r, ch, qu2),
         NEW tr2, NewRow(tr, fl, r, tr2),
         NEW P2, P2 = P \cup {r}
  PROVE  Pass(P2, n, top, tr2, st, fl2, qu2)
<1>1. /\ Named(n, st) /\ top \in Nat /\ n <= top /\ tr \in [0..top -> [Inputs -> Int]]
      /\ P \in SUBSET (0..n) /\ 0 \in P
      /\ \A s \in P : WholeRow(n, tr, st, s)
      /\ \A s \in 0..n : s \notin P => TrieRow(n, tr, st, s)
      /\ \A s \in 0..top : s \notin P \cup Waiting(qu) => fl[s] = 0
      /\ InLayers(n, st, qu) /\ \A s \in Waiting(qu) : s \notin P
      /\ \A s, q \in 0..n, i \in Inputs :
           st[q] = Append(st[s], i) => (q \in P \cup Waiting(qu) <=> s \in P)
      /\ \A s \in (P \cup Waiting(qu)) \ {0} : LongestProper(st[fl[s]], st[s], WordSet(n, st))
  BY DEF Pass
<1>2. r \in 0..n /\ r \in 0..top /\ r \notin P /\ r # 0 /\ r \in Waiting(qu) /\ TrieRow(n, tr, st, r)
      /\ fl[r] \in P
  BY HeadOfQueue
<1>3. /\ fl2 \in [0..top -> 0..n] /\ \A s \in 0..top : s \notin Waiting(ch) => fl2[s] = fl[s]
      /\ \A s \in Waiting(ch) : LongestProper(st[fl2[s]], st[s], WordSet(n, st))
  BY DEF Refails
<1>4. /\ InLayers(n, st, qu2)
      /\ \A s \in 0..n : s \in Waiting(qu2) <=> s \in Waiting(ch) \/ (s \in Waiting(qu) /\ s # r)
      /\ \A s \in Waiting(ch) : s \notin P /\ s \notin Waiting(qu) /\ s # 0
  BY DEF Requeues
<1>5. /\ n \in Nat /\ \A s \in 0..n : s \in 0..top /\ st[s] \in Seq(Inputs)
      /\ Waiting(qu) \in SUBSET (0..n) /\ Waiting(qu2) \in SUBSET (0..n) /\ Waiting(ch) \in SUBSET (0..n)
  <2>1. n \in Nat
    BY <1>1 DEF Named
  <2>2. \A s \in 0..n : s \in 0..top
    BY <1>1, <2>1, SMTT(10)
  <2>3. Waiting(ch) \in SUBSET (0..n)
    BY DEF Bears
  <2> QED BY <1>1, <1>4, <2>1, <2>2, <2>3, WordsClosed, WaitingStates
<1>6. /\ tr2 \in [0..top -> [Inputs -> Int]] /\ \A s \in 0..top : s # r => tr2[s] = tr[s]
      /\ \A i \in Inputs : tr2[r][i] = IF i \in Own(tr, r) THEN tr[r][i] ELSE tr[fl[r]][i]
  <2>1. fl[r] \in 0..top
    BY <1>1, <1>2, <1>5
  <2>2. [i \in Inputs |-> IF i \in Own(tr, r) THEN tr[r][i] ELSE tr[fl[r]][i]] \in [Inputs -> Int]
    BY <1>1, <1>2, <2>1
  <2> QED BY <1>1, <1>2, <2>2 DEF NewRow
<1>7. WholeRow(n, tr2, st, r)
  <2> SUFFICES ASSUME NEW i \in Inputs
               PROVE  tr2[r][i] \in 0..n /\ Longest(st[tr2[r][i]], Append(st[r], i), WordSet(n, st))
    BY DEF WholeRow
  <2>1. CASE i \notin Own(tr, r)
    <3>1. tr[r][i] = -1 /\ tr2[r][i] = tr[fl[r]][i]
      BY <1>6, <2>1 DEF Own
    <3>2. tr[fl[r]][i] \in 0..n /\ Longest(st[tr[fl[r]][i]], Append(st[r], i), WordSet(n, st))
      BY <3>1, SuffixRow
    <3> QED BY <3>1, <3>2
  <2>2. CASE i \in Own(tr, r)
    <3>1. tr2[r][i] = tr[r][i] /\ tr[r][i] \in 0..n /\ st[tr[r][i]] = Append(st[r], i)
      BY <1>6, <2>2 DEF Bears
    <3>2. PICK W, w : W = WordSet(n, st) /\ w = st[tr[r][i]]
      OBVIOUS
    <3>3. W \in SUBSET Seq(Inputs) /\ w \in W /\ w \in Seq(Inputs)
      BY <1>1, <3>1, <3>2, WordsClosed
    <3>4. Longest(w, w, W)
      BY <3>3, LongestOwn
    <3> QED BY <3>1, <3>2, <3>4
  <2> QED BY <2>1, <2>2
<1>8. ASSUME NEW s \in P2
      PROVE  WholeRow(n, tr2, st, s)
  <2>1. CASE s = r
    BY <1>7, <2>1
  <2>2. CASE s # r
    <3>1. s \in P /\ s \in 0..top
      BY <1>1, <1>5, <1>8, <2>2
    <3>2. tr2[s] = tr[s] /\ WholeRow(n, tr, st, s)
      BY <1>1, <1>6, <2>2, <3>1
    <3> QED BY <3>2 DEF WholeRow
  <2> QED BY <2>1, <2>2
<1>9. ASSUME NEW s \in 0..n, s \notin P2
       PROVE  TrieRow(n, tr2, st, s)
  <2>1. s # r /\ s \notin P /\ s \in 0..top
    BY <1>5, <1>9
  <2>2. tr2[s] = tr[s] /\ TrieRow(n, tr, st, s)
    BY <1>1, <1>6, <2>1
  <2> QED BY <2>2 DEF TrieRow
<1>10. \A s \in 0..n : s \in P2 \cup Waiting(qu2) <=> s \in P \cup Waiting(qu) \/ s \in Waiting(ch)
  BY <1>2, <1>4
<1>11. ASSUME NEW s \in 0..top, s \notin P2 \cup Waiting(qu2)
       PROVE  fl2[s] = 0
  <2>1. s \notin Waiting(ch) /\ s \notin P \cup Waiting(qu)
    BY <1>1, <1>5, <1>10, <1>11
  <2> QED BY <1>1, <1>3, <2>1
<1>12. \A s \in Waiting(qu2) : s \notin P2
  BY <1>1, <1>2, <1>4, <1>5
<1>13. ASSUME NEW s \in 0..n, NEW q \in 0..n, NEW i \in Inputs, st[q] = Append(st[s], i)
       PROVE  q \in P2 \cup Waiting(qu2) <=> s \in P2
  <2>1. q \in P \cup Waiting(qu) <=> s \in P
    BY <1>1, <1>13
  <2>2. q \in Waiting(ch) <=> s = r
    <3>1. q \in Waiting(ch) <=> \E j \in Inputs : st[q] = Append(st[r], j)
      BY DEF Bears
    <3>2. ASSUME NEW j \in Inputs, st[q] = Append(st[r], j)
          PROVE  s = r
      <4>1. PICK u, v : u = st[s] /\ v = st[r]
        OBVIOUS
      <4>2. u \in Seq(Inputs) /\ v \in Seq(Inputs) /\ Append(u, i) = Append(v, j)
        BY <1>2, <1>5, <1>13, <3>2, <4>1
      <4>3. u = v
        BY <4>2, SameAppend
      <4> QED BY <1>1, <1>2, <4>1, <4>3 DEF Named
    <3> QED BY <1>13, <3>1, <3>2
  <2> QED BY <1>10, <2>1, <2>2
<1>14. ASSUME NEW s \in (P2 \cup Waiting(qu2)) \ {0}
       PROVE  LongestProper(st[fl2[s]], st[s], WordSet(n, st))
  <2>1. CASE s \in Waiting(ch)
    BY <1>3, <2>1
  <2>2. CASE s \notin Waiting(ch)
    <3>1. s \in 0..n
      BY <1>1, <1>2, <1>5, <1>14
    <3>2. s \in (P \cup Waiting(qu)) \ {0} /\ s \in 0..top
      BY <1>5, <1>10, <1>14, <2>2, <3>1
    <3> QED BY <1>1, <1>3, <2>2, <3>2
  <2> QED BY <2>1, <2>2
<1>15. P2 \in SUBSET (0..n) /\ 0 \in P2
  BY <1>1, <1>2
<1> QED BY <1>1, <1>3, <1>4, <1>6, <1>8, <1>9, <1>11, <1>12, <1>13, <1>14, <1>15 DEF Pass

\* The automaton: whole rows, and failure states that are longest proper suffixes.
Automated(n, tr, st, fl) ==
  /\ Named(n, st) /\ \A s \in 0..n : WholeRow(n, tr, st, s)
  /\ \A s \in 1..n : fl[s] \in 0..n /\ LongestProper(st[fl[s]], st[s], WordSet(n, st))

\* When no state waits, all are done.
LEMMA PassEnds ==
  ASSUME NEW P, NEW n, NEW top, NEW tr, NEW st, NEW fl, NEW qu, Pass(P, n, top, tr, st, fl, qu),
         qu = <<>>
  PROVE  Automated(n, tr, st, fl)
<1>1. /\ Named(n, st) /\ fl \in [0..top -> 0..n] /\ InLayers(n, st, qu) /\ n <= top /\ top \in Nat
      /\ \A s \in P : WholeRow(n, tr, st, s)
      /\ \A s \in (P \cup Waiting(qu)) \ {0} : LongestProper(st[fl[s]], st[s], WordSet(n, st))
  BY DEF Pass
<1>2. Waiting(qu) = {}
  BY <1>1, WaitingStates
<1>3. \A s \in 0..n : s \in P
  BY <1>2, Frontier
<1>4. n \in Nat
  BY <1>1 DEF Named
<1>5. \A s \in 1..n : s \in 0..n /\ s # 0 /\ s \in 0..top
  BY <1>1, <1>4, SMTT(10)
<1> QED BY <1>1, <1>3, <1>5 DEF Automated

-----------------------------------------------------------------------------
(* The compilation *)

\* The words are the beginnings of the patterns, and the match lists their lists.
Known ==
  /\ patterns \in Seq(Entry) /\ Spells(patterns, Len(patterns), numStates, str)
  /\ Listed(patterns, Top, Len(patterns), numStates, str, matchList)

InPass == Known /\ \E P : Pass(P, numStates, Top, trans, str, fail, queue)
Built == Known /\ Named(numStates, str) /\ numStates <= Top /\ Top \in Nat
               /\ Automated(numStates, trans, str, fail)

\* The copies of Ascending in the two modules mean the same.
LEMMA SameAscending == ASSUME NEW Q PROVE V1!Ascending(Q) = Ascending(Q)
BY DEF V1!Ascending, Ascending, V1!Cardinality, Cardinality

\* What stays when the patterns, the words and the lists do.
LEMMA KnownKept ==
  ASSUME Known, UNCHANGED <<patterns, numStates, str, matchList>>
  PROVE  Known'
<1>1. Top' = Top
  BY TotalsKept
<1> QED BY <1>1 DEF Known

\* The root is done.
LEMMA RootStep ==
  ASSUME NEW m, TrieOf(m), V1!RootDone
  PROVE  InPass'
<1>1. m = Len(patterns) /\ patterns \in Seq(Entry)
  <2>1. /\ patterns \in Seq(Entry) /\ m \in 0..Len(patterns) /\ todo \in Seq(Entry)
        /\ Len(todo) = Len(patterns) - m /\ todo = <<>>
    BY DEF TrieOf, V1!RootDone
  <2>2. Len(todo) = 0 /\ Len(patterns) \in Nat
    BY <2>1, EmptySeq, LenProperties
  <2>3. m = Len(patterns)
    BY <2>1, <2>2, SMTT(10)
  <2> QED BY <2>1, <2>3
<1>2. Known
  BY <1>1 DEF TrieOf, Known
<1>3. /\ UNCHANGED <<patterns, numStates, str, matchList, fail>>
      /\ queue' = LET own == V1!Ascending({ i \in V1!Inputs : trans[0][i] # -1 })
                  IN  [j \in DOMAIN own |-> trans[0][own[j]]]
      /\ trans' = [trans EXCEPT ![0] = [i \in V1!Inputs |-> IF trans[0][i] = -1 THEN 0 ELSE trans[0][i]]]
  BY DEF V1!RootDone
<1>4. Known'
  BY <1>2, <1>3, KnownKept
<1>5. PICK n, top, tr, st, fl, qu, tr2 :
        /\ n = numStates /\ top = Top /\ tr = trans /\ st = str /\ fl = fail
        /\ qu = queue' /\ tr2 = trans'
  OBVIOUS
<1>6. Trie(n, top, tr, st) /\ fl = [s \in 0..top |-> 0]
  BY <1>5 DEF TrieOf
<1>7. qu = Children(tr, 0)
  BY <1>3, <1>5, SameAscending, SameInputs DEF Children, Own
<1>8. tr2 = [tr EXCEPT ![0] = [i \in Inputs |-> IF tr[0][i] = -1 THEN 0 ELSE tr[0][i]]]
  BY <1>3, <1>5, SameInputs
<1>9. Pass({0}, n, top, tr2, st, fl, qu)
  BY <1>6, <1>7, <1>8, RootPass
<1>10. Top' = Top
  BY <1>3, TotalsKept
<1>11. Pass({0}, numStates', Top', trans', str', fail', queue')
  BY <1>3, <1>5, <1>9, <1>10
<1> QED BY <1>4, <1>11 DEF InPass

\* A state of the queue is done.
LEMMA BuildStep ==
  ASSUME InPass, V1!Build_DFA
  PROVE  InPass'
<1>1. PICK P : Pass(P, numStates, Top, trans, str, fail, queue)
  BY DEF InPass
<1>2. PICK n, top, tr, st, fl, qu, r, ch :
        /\ n = numStates /\ top = Top /\ tr = trans /\ st = str /\ fl = fail /\ qu = queue
        /\ r = queue[1] /\ ch = Children(trans, r)
  OBVIOUS
<1>3. PICK fl2, tr2, qu2 : fl2 = fail' /\ tr2 = trans' /\ qu2 = queue'
  OBVIOUS
<1>4. Pass(P, n, top, tr, st, fl, qu) /\ qu # <<>> /\ r = qu[1] /\ ch = Children(tr, r)
  BY <1>1, <1>2 DEF V1!Build_DFA
<1>5. UNCHANGED <<patterns, numStates, str, matchList>>
  BY DEF V1!Build_DFA
<1>6. qu2 = Tail(qu) \o ch
  BY <1>2, <1>3, SameAscending, SameInputs DEF V1!Build_DFA, Children, Own
<1>7. NewRow(tr, fl, r, tr2)
  BY <1>2, <1>3, SameInputs DEF V1!Build_DFA, Own, NewRow
<1>8. NewFailures(top, tr, fl, r, fl2)
  <2>1. fl2 = [s \in DOMAIN fail |-> IF \E i \in Own(tr, r) : tr[r][i] = s
                 THEN V1!NextOnFailure(fail[r], CHOOSE i \in Own(tr, r) : tr[r][i] = s)
                 ELSE fail[s]]
    BY <1>2, <1>3, SameInputs DEF V1!Build_DFA, Own
  <2>2. DOMAIN fail = 0..top
    BY <1>2, <1>4 DEF Pass
  <2>3. ASSUME NEW s, \E i \in Own(tr, r) : tr[r][i] = s
        PROVE  V1!NextOnFailure(fail[r], CHOOSE i \in Own(tr, r) : tr[r][i] = s)
               = tr[fl[r]][CHOOSE i \in Own(tr, r) : tr[r][i] = s]
    <3>1. PICK i : i = CHOOSE j \in Own(tr, r) : tr[r][j] = s
      OBVIOUS
    <3>2. i \in Inputs
      BY <2>3, <3>1 DEF Own
    <3>3. V1!NextOnFailure(fail[r], i) = trans[fail[r]][i]
      BY <1>1, <1>2, <1>4, <3>2, NextFound
    <3> QED BY <1>2, <3>1, <3>3
  <2>4. ASSUME NEW s
        PROVE  (IF \E i \in Own(tr, r) : tr[r][i] = s
                  THEN V1!NextOnFailure(fail[r], CHOOSE i \in Own(tr, r) : tr[r][i] = s)
                  ELSE fail[s])
               = (IF \E i \in Own(tr, r) : tr[r][i] = s
                    THEN tr[fl[r]][CHOOSE i \in Own(tr, r) : tr[r][i] = s]
                    ELSE fl[s])
    <3>1. CASE \E i \in Own(tr, r) : tr[r][i] = s
      BY <2>3, <3>1
    <3>2. CASE ~\E i \in Own(tr, r) : tr[r][i] = s
      BY <1>2, <3>2
    <3> QED BY <3>1, <3>2
  <2> QED BY <2>1, <2>2, <2>4 DEF NewFailures
<1>9. r \in 0..n /\ TrieRow(n, tr, st, r) /\ Named(n, st)
  <2>1. r \in 0..n /\ TrieRow(n, tr, st, r)
    BY <1>4, HeadOfQueue
  <2>2. Named(n, st)
    BY <1>4 DEF Pass
  <2> QED BY <2>1, <2>2
<1>10. Bears(n, tr, st, r, ch)
  BY <1>4, <1>9, ChildrenAre
<1>11. Refails(n, top, st, fl, ch, fl2)
  BY <1>4, <1>8, <1>10, FailuresSet, Zenon
<1>12. Requeues(P, n, st, qu, r, ch, qu2)
  BY <1>4, <1>6, <1>10, QueueMoves
<1>13. Pass(P \cup {r}, n, top, tr2, st, fl2, qu2)
  <2>1. PICK P2 : P2 = P \cup {r}
    OBVIOUS
  <2>2. Pass(P2, n, top, tr2, st, fl2, qu2)
    BY <1>4, <1>7, <1>10, <1>11, <1>12, <2>1, PassStep, Zenon
  <2> QED BY <2>1, <2>2
<1>14. Top' = Top
  BY <1>5, TotalsKept
<1>15. Pass(P \cup {r}, numStates', Top', trans', str', fail', queue')
  BY <1>2, <1>3, <1>5, <1>13, <1>14
<1>16. Known'
  BY <1>5, KnownKept DEF InPass
<1> QED BY <1>15, <1>16 DEF InPass

\* All states are done.
LEMMA DoneStep ==
  ASSUME InPass, V1!DfaDone
  PROVE  Built'
<1>1. PICK P : Pass(P, numStates, Top, trans, str, fail, queue)
  BY DEF InPass
<1>2. UNCHANGED <<patterns, numStates, str, matchList, trans, fail, queue>> /\ queue = <<>>
  BY DEF V1!DfaDone
<1>3. Automated(numStates, trans, str, fail)
  BY <1>1, <1>2, PassEnds
<1>4. Named(numStates, str) /\ numStates <= Top /\ Top \in Nat
  BY <1>1 DEF Pass
<1>5. Known' /\ Top' = Top
  BY <1>2, KnownKept, TotalsKept DEF InPass
<1> QED BY <1>2, <1>3, <1>4, <1>5 DEF Built

-----------------------------------------------------------------------------
(* What the properties speak of *)

\* The first machine's copies of the definitions of AcsmRef mean the same.
LEMMA SameRef ==
  /\ \A t, w, i : V1!EndsAt(t, w, i) <=> EndsAt(t, w, i)
  /\ \A w, Q : V1!LongestSuffixIn(w, Q) = LongestSuffixIn(w, Q)
  /\ \A w, Q : V1!LongestProperSuffixIn(w, Q) = LongestProperSuffixIn(w, Q)
<1>1. ASSUME NEW t, NEW w, NEW i
      PROVE  V1!EndsAt(t, w, i) <=> EndsAt(t, w, i)
  BY DEF V1!EndsAt, EndsAt, V1!IsSuffix, IsSuffix, V1!IsPrefix, IsPrefix, V1!Reverse, Reverse
<1>2. ASSUME NEW w, NEW Q
      PROVE  V1!LongestSuffixIn(w, Q) = LongestSuffixIn(w, Q)
  BY DEF V1!LongestSuffixIn, LongestSuffixIn, V1!SuffixesOf, SuffixesOf
<1>3. ASSUME NEW w, NEW Q
      PROVE  V1!LongestProperSuffixIn(w, Q) = LongestProperSuffixIn(w, Q)
  BY <1>2 DEF V1!LongestProperSuffixIn, LongestProperSuffixIn
<1> QED BY <1>1, <1>2, <1>3

\* The patterns are entries, and the words those of the states.
LEMMA WordsKnown ==
  ASSUME Known, Named(numStates, str)
  PROVE  /\ V1!Words = WordSet(numStates, str) /\ DOMAIN patterns = 1..Len(patterns)
         /\ Len(patterns) \in Nat
         /\ \A j \in 1..Len(patterns) : patterns[j] \in Entry /\ patterns[j].patrn \in Seq(Inputs)
         /\ \A j \in 1..Len(patterns) : patterns[j].patrn \in WordSet(numStates, str)
<1>1. PICK ps, n, st, m : ps = patterns /\ n = numStates /\ st = str /\ m = Len(patterns)
  OBVIOUS
<1>2. ps \in Seq(Entry) /\ m = Len(ps) /\ Spells(ps, m, n, st) /\ Named(n, st)
  BY <1>1 DEF Known
<1>3. m \in Nat /\ DOMAIN ps = 1..m /\ \A j \in 1..m : ps[j] \in Entry /\ ps[j].patrn \in Seq(Inputs)
  <2>1. m \in Nat /\ DOMAIN ps = 1..m
    BY <1>2, LenProperties
  <2>2. \A j \in 1..m : ps[j] \in Entry
    BY <1>2, ElementOfSeq
  <2> QED BY <2>1, <2>2 DEF Entry
<1>4. ASSUME NEW w
      PROVE  w \in V1!Words <=> Begins(ps, m, w)
  <2>1. w \in V1!Words <=>
          w = <<>> \/ \E p \in V1!Range(patterns) : \E k \in 1..Len(p.patrn) : w = SubSeq(p.patrn, 1, k)
    BY DEF V1!Words, V1!WordsOf
  <2>2. V1!Range(patterns) = { ps[j] : j \in 1..m }
    BY <1>1, <1>3 DEF V1!Range
  <2> QED BY <2>1, <2>2 DEF Begins
<1>5. ASSUME NEW w, Begins(ps, m, w)
      PROVE  w \in Seq(Inputs)
  <2>1. CASE w = <<>>
    BY <2>1, EmptySeq
  <2>2. CASE w # <<>>
    <3>1. PICK j \in 1..m : \E k \in 1..Len(ps[j].patrn) : w = SubSeq(ps[j].patrn, 1, k)
      BY <1>5, <2>2 DEF Begins
    <3>2. PICK t, k : t = ps[j].patrn /\ k \in 1..Len(t) /\ w = SubSeq(t, 1, k)
      BY <3>1
    <3>3. t \in Seq(Inputs) /\ Len(t) \in Nat
      BY <1>3, <3>2, LenProperties
    <3>4. k \in 0..Len(t)
      BY <3>2, <3>3, SMTT(10)
    <3> QED BY <3>2, <3>3, <3>4, PrefixWords
  <2> QED BY <2>1, <2>2
<1>6. \A w : Begins(ps, m, w) <=> w \in WordSet(n, st)
  BY <1>2, <1>5 DEF Spells, WordSet
<1>7. V1!Words = WordSet(n, st)
  BY <1>4, <1>6
<1>8. \A j \in 1..m : ps[j].patrn \in WordSet(n, st)
  BY <1>3, <1>6, PatternBegins
<1> QED BY <1>1, <1>3, <1>7, <1>8

\* What is built is what the properties of the automaton ask for.
LEMMA BuiltRight ==
  ASSUME Built
  PROVE  V1!FailIsLongestSuffix /\ V1!OutputsComplete /\ V1!RowsAgree
<1>1. PICK n, st, W : n = numStates /\ st = str /\ W = WordSet(numStates, str)
  OBVIOUS
<1>2. /\ Known /\ Named(n, st) /\ n \in Nat /\ st \in [0..n -> Seq(Inputs)]
      /\ \A s, q \in 0..n : st[s] = st[q] => s = q
      /\ \A s \in 0..n : WholeRow(n, trans, st, s)
      /\ \A s \in 1..n : fail[s] \in 0..n /\ LongestProper(st[fail[s]], st[s], W)
  <2>1. Known /\ Named(n, st)
    BY <1>1 DEF Built
  <2>2. n \in Nat /\ st \in [0..n -> Seq(Inputs)] /\ \A s, q \in 0..n : st[s] = st[q] => s = q
    BY <2>1 DEF Named
  <2>3. Automated(n, trans, st, fail)
    BY <1>1 DEF Built
  <2> QED BY <1>1, <2>1, <2>2, <2>3 DEF Automated
<1>3. W \in SUBSET Seq(Inputs) /\ V1!Words = W /\ \A s \in 1..n : s \in 0..n
  <2>1. \A s \in 1..n : s \in 0..n
    BY <1>2, SMTT(10)
  <2> QED BY <1>1, <1>2, <2>1, WordsClosed, WordsKnown
<1>4. V1!FailIsLongestSuffix
  <2>1. V1!Range(str) = W
    BY <1>1, <1>2 DEF V1!Range, WordSet
  <2>2. n + 1 = Cardinality(W)
    <3>1. IsFiniteSet(0..n) /\ Cardinality(0..n) = n + 1
      <4>1. 0 \in Int /\ n \in Int /\ ~(0 > n) /\ n - 0 + 1 = n + 1
        BY <1>2, SMTT(10)
      <4> QED BY <4>1, FS_Interval
    <3>2. st \in Bijection(0..n, W)
      <4>1. st \in [0..n -> W] /\ \A w \in W : \E s \in 0..n : st[s] = w
        BY <1>1, <1>2 DEF WordSet
      <4> QED BY <1>2, <4>1 DEF Bijection, Injection, Surjection, IsInjective
    <3>3. ExistsBijection(0..n, W)
      BY <3>2 DEF ExistsBijection
    <3> QED BY <3>1, <3>3, FS_Bijection
  <2>3. ASSUME NEW s \in 1..n
        PROVE  str[fail[s]] = V1!LongestProperSuffixIn(str[s], V1!Words)
    <3>1. PICK u, w : u = st[fail[s]] /\ w = st[s]
      OBVIOUS
    <3>2. w \in Seq(Inputs) /\ LongestProper(u, w, W)
      BY <1>2, <1>3, <3>1
    <3>3. u = LongestProperSuffixIn(w, W)
      BY <1>3, <3>2, LongestProperIs
    <3> QED BY <1>1, <1>3, <3>1, <3>3, SameRef
  <2> QED BY <1>1, <1>3, <2>1, <2>2, <2>3, SameCardinality DEF V1!FailIsLongestSuffix
<1>5. V1!OutputsComplete
  <2> SUFFICES ASSUME NEW s \in 0..n
               PROVE  /\ V1!Range(matchList[s]) = { patterns[j] : j \in V1!Patterns(s) }
                      /\ Len(matchList[s]) = V1!Cardinality(V1!Patterns(s))
    BY <1>1 DEF V1!OutputsComplete
  <2>1. V1!Patterns(s) = Same(patterns, Len(patterns), str[s])
    BY <1>1, <1>2, WordsKnown DEF V1!Patterns, Same
  <2>2. Listed(patterns, Top, Len(patterns), numStates, str, matchList) /\ numStates <= Top
        /\ Top \in Nat
    BY DEF Built, Known
  <2>3. s \in 0..Top
    BY <1>1, <1>2, <2>2, SMTT(10)
  <2>4. matchList[s] \in Seq(Entry) /\ Holds(patterns, matchList[s], Len(patterns), str[s])
    BY <1>1, <2>2, <2>3 DEF Listed
  <2>5. V1!Range(matchList[s]) = { matchList[s][k] : k \in 1..Len(matchList[s]) }
    BY <2>4, LenProperties DEF V1!Range
  <2> QED BY <2>1, <2>4, <2>5, SameCardinality DEF Holds
<1>6. V1!RowsAgree
  <2> SUFFICES ASSUME NEW s \in 0..n, NEW i \in Inputs
               PROVE  str[trans[s][i]] = V1!LongestSuffixIn(Append(str[s], i), V1!Words)
    BY <1>1, SameInputs DEF V1!RowsAgree
  <2>1. PICK u, w : u = st[trans[s][i]] /\ w = Append(st[s], i)
    OBVIOUS
  <2>2. st[s] \in Seq(Inputs)
    BY <1>2
  <2>3. w \in Seq(Inputs) /\ Longest(u, w, W)
    BY <1>1, <1>2, <2>1, <2>2, AppendWord DEF WholeRow
  <2>4. u = LongestSuffixIn(w, W)
    BY <1>3, <2>3, LongestIs
  <2> QED BY <1>1, <1>3, <2>1, <2>4, SameRef
<1> QED BY <1>4, <1>5, <1>6

-----------------------------------------------------------------------------
(* The search *)

\* A pattern ends at position i of w.
EndsIn(ps, w, i) == \E j \in 1..Len(ps) : Suf(ps[j].patrn, SubSeq(w, 1, i))

\* No pattern is empty, and none lies inside another.
Filled(ps) == \A j \in 1..Len(ps) : ps[j].patrn # <<>>
Apart(ps) ==
  \A j, k \in 1..Len(ps), i \in Nat :
    i <= Len(ps[k].patrn) /\ Suf(ps[j].patrn, SubSeq(ps[k].patrn, 1, i))
      => ps[j].patrn = ps[k].patrn

\* A report of a pattern that ends at the end of w.
Reports(ps, w, rs) ==
  \E j \in 1..Len(ps) :
    /\ rs = <<[id |-> ps[j].id, index |-> Len(w) - Len(ps[j].patrn)]>>
    /\ Suf(ps[j].patrn, w)

\* The reports say where a pattern ended first.
FirstFound(ps, w, rs) ==
  Filled(ps) /\ Apart(ps) =>
    \A i \in 0..Len(w) : EndsIn(ps, w, i) <=> i = Len(w) /\ rs # <<>>

\* The state stands for the longest word that the text ends in, and what has been
\* found is reported.
Searched ==
  /\ text \in Seq(Inputs) /\ state \in 0..numStates
  /\ Longest(str[state], V1!UpWord(text), WordSet(numStates, str))
  /\ reports = <<>> \/ Reports(patterns, V1!UpWord(text), reports)
  /\ FirstFound(patterns, V1!UpWord(text), reports)
  /\ pc = "search" => reports = <<>>

\* Characters are folded one by one.
LEMMA UpWords ==
  ASSUME NEW t \in Seq(Inputs)
  PROVE  /\ V1!UpWord(t) \in Seq(Inputs) /\ Len(V1!UpWord(t)) = Len(t)
         /\ \A c \in Inputs : /\ Up[c] \in Inputs
                              /\ V1!UpWord(Append(t, c)) = Append(V1!UpWord(t), Up[c])
<1>1. Up \in [Inputs -> Inputs]
  BY MCAcsmAssumption
<1>2. ASSUME NEW w \in Seq(Inputs), NEW u, u = V1!UpWord(w)
      PROVE  u \in Seq(Inputs) /\ Len(u) = Len(w) /\ \A k \in 1..Len(w) : u[k] = Up[w[k]]
  <2>1. Len(w) \in Nat /\ DOMAIN w = 1..Len(w)
    BY LenProperties
  <2>2. u = [k \in 1..Len(w) |-> Up[w[k]]]
    BY <1>2, <2>1 DEF V1!UpWord
  <2>3. u \in [1..Len(w) -> Inputs]
    BY <1>1, <2>2, ElementOfSeq
  <2> QED BY <2>1, <2>2, <2>3
<1>3. ASSUME NEW c \in Inputs
      PROVE  V1!UpWord(Append(t, c)) = Append(V1!UpWord(t), Up[c])
  <2>1. PICK a, u, v, i : a = Append(t, c) /\ u = V1!UpWord(a) /\ v = V1!UpWord(t) /\ i = Up[c]
    OBVIOUS
  <2>2. /\ a \in Seq(Inputs) /\ Len(a) = Len(t) + 1 /\ Len(t) \in Nat /\ i \in Inputs
        /\ a[Len(t) + 1] = c /\ \A k \in 1..Len(t) : a[k] = t[k]
    BY <1>1, <2>1, AppendWord
  <2>3. u \in Seq(Inputs) /\ Len(u) = Len(t) + 1 /\ \A k \in 1..Len(a) : u[k] = Up[a[k]]
    BY <1>2, <2>1, <2>2
  <2>4. v \in Seq(Inputs) /\ Len(v) = Len(t) /\ \A k \in 1..Len(t) : v[k] = Up[t[k]]
    BY <1>2, <2>1
  <2>5. PICK b : b = Append(v, i)
    OBVIOUS
  <2>6. /\ b \in Seq(Inputs) /\ Len(b) = Len(t) + 1 /\ b[Len(t) + 1] = i
        /\ \A k \in 1..Len(t) : b[k] = v[k]
    BY <2>2, <2>4, <2>5, AppendWord
  <2>7. \A k \in 1..Len(u) : k \in 1..Len(a) /\ (k \in 1..Len(t) \/ k = Len(t) + 1)
    BY <2>2, <2>3, SMTT(10)
  <2>8. ASSUME NEW k \in 1..Len(u)
        PROVE  u[k] = b[k]
    <3>1. u[k] = Up[a[k]] /\ (k \in 1..Len(t) \/ k = Len(t) + 1)
      BY <2>3, <2>7
    <3> QED BY <2>1, <2>2, <2>4, <2>6, <3>1
  <2>9. u = b
    BY <2>3, <2>6, <2>8, SeqEqual
  <2> QED BY <2>1, <2>5, <2>9
<1> QED BY <1>1, <1>2, <1>3

\* What a longer word begins with.
LEMMA SameFront ==
  ASSUME NEW w \in Seq(Inputs), NEW c \in Inputs, NEW i \in 0..Len(w)
  PROVE  SubSeq(Append(w, c), 1, i) = SubSeq(w, 1, i)
<1>1. PICK a, u, v : a = Append(w, c) /\ u = SubSeq(a, 1, i) /\ v = SubSeq(w, 1, i)
  OBVIOUS
<1>2. a \in Seq(Inputs) /\ Len(a) = Len(w) + 1 /\ Len(w) \in Nat /\ \A k \in 1..Len(w) : a[k] = w[k]
  BY <1>1, AppendWord
<1>3. i \in 0..Len(a) /\ \A k \in 1..i : k \in 1..Len(w)
  BY <1>2, SMTT(10)
<1>4. u \in Seq(Inputs) /\ Len(u) = i /\ \A k \in 1..i : u[k] = a[k]
  BY <1>1, <1>2, <1>3, PrefixWords
<1>5. v \in Seq(Inputs) /\ Len(v) = i /\ \A k \in 1..i : v[k] = w[k]
  BY <1>1, PrefixWords
<1>6. \A k \in 1..Len(u) : u[k] = v[k]
  BY <1>2, <1>3, <1>4, <1>5
<1>7. u = v
  BY <1>4, <1>5, <1>6, SeqEqual
<1> QED BY <1>1, <1>7

\* The states n stand for the beginnings of all patterns.
Spelled(ps, n, st) ==
  /\ Named(n, st) /\ Spells(ps, Len(ps), n, st) /\ Len(ps) \in Nat
  /\ \A j \in 1..Len(ps) : ps[j].patrn \in Seq(Inputs)

\* If no pattern lies inside another, one that a text ends in is the word of the
\* state.
LEMMA PatternReached ==
  ASSUME NEW ps, NEW n, NEW st, Spelled(ps, n, st),
         NEW w \in Seq(Inputs), NEW s \in 0..n, Longest(st[s], w, WordSet(n, st)),
         Filled(ps), Apart(ps), NEW j \in 1..Len(ps), Suf(ps[j].patrn, w)
  PROVE  ps[j].patrn = st[s]
<1>1. Named(n, st) /\ Spells(ps, Len(ps), n, st) /\ \A k \in 1..Len(ps) : ps[k].patrn \in Seq(Inputs)
  BY DEF Spelled
<1>2. PICK p, u, W : p = ps[j].patrn /\ u = st[s] /\ W = WordSet(n, st)
  OBVIOUS
<1>3. p \in Seq(Inputs) /\ u \in Seq(Inputs) /\ p # <<>> /\ Suf(p, w) /\ Suf(u, w)
      /\ Len(p) \in Nat /\ Len(u) \in Nat
  BY <1>1, <1>2, WordsClosed, LenProperties DEF Filled, Longest
<1>4. p \in W
  <2>1. Begins(ps, Len(ps), p)
    BY <1>1, <1>2, <1>3, PatternBegins
  <2> QED BY <1>1, <1>2, <1>3, <2>1 DEF Spells, WordSet
<1>5. Len(p) <= Len(u) /\ Suf(p, u)
  <2>1. Len(p) <= Len(u)
    BY <1>2, <1>3, <1>4 DEF Longest
  <2> QED BY <1>3, <2>1, SufSame
<1>6. u # <<>>
  <2>1. Len(p) # 0
    BY <1>3, EmptySeq
  <2>2. Len(u) # 0
    BY <1>3, <1>5, <2>1, SMTT(10)
  <2> QED BY <2>2, EmptySeq
<1>7. PICK k \in 1..Len(ps) : \E i \in 1..Len(ps[k].patrn) : u = SubSeq(ps[k].patrn, 1, i)
  <2>1. Begins(ps, Len(ps), u)
    BY <1>1, <1>2 DEF Spells
  <2> QED BY <1>6, <2>1 DEF Begins
<1>8. PICK q, i : q = ps[k].patrn /\ i \in 1..Len(q) /\ u = SubSeq(q, 1, i)
  BY <1>7
<1>9. q \in Seq(Inputs) /\ Len(q) \in Nat
  BY <1>1, <1>8, LenProperties
<1>10. i \in Nat /\ i <= Len(q) /\ i \in 0..Len(q)
  BY <1>8, <1>9, SMTT(10)
<1>11. p = q
  BY <1>2, <1>5, <1>8, <1>10 DEF Apart
<1>12. Len(u) = i
  BY <1>8, <1>9, <1>10, PrefixWords
<1>13. i = Len(q)
  BY <1>3, <1>5, <1>9, <1>10, <1>11, <1>12, SMTT(10)
<1>14. u = q
  BY <1>8, <1>9, <1>13, PrefixWords
<1> QED BY <1>2, <1>11, <1>14

\* A search starts in the root with no text and no report.
LEMMA SearchBegins ==
  ASSUME Built, V1!Begin
  PROVE  Searched'
<1>1. PICK n, st, ps : n = numStates /\ st = str /\ ps = patterns
  OBVIOUS
<1>2. /\ numStates' = n /\ str' = st /\ patterns' = ps /\ text' = <<>> /\ state' = 0 /\ reports' = <<>>
  BY <1>1 DEF V1!Begin
<1>3. Named(n, st) /\ st[0] = <<>> /\ Known
  BY <1>1 DEF Built, Named
<1>4. /\ WordSet(n, st) \in SUBSET Seq(Inputs) /\ <<>> \in WordSet(n, st) /\ 0 \in 0..n
  BY <1>3, WordsClosed DEF PrefixClosed
<1>5. <<>> \in Seq(Inputs) /\ Len(<<>>) = 0 /\ V1!UpWord(<<>>) = <<>>
  <2>1. PICK e, u : e = <<>> /\ u = V1!UpWord(e)
    OBVIOUS
  <2>2. e \in Seq(Inputs) /\ Len(e) = 0
    BY <2>1, EmptySeq
  <2>3. u \in Seq(Inputs) /\ Len(u) = 0
    BY <2>1, <2>2, UpWords
  <2>4. u = <<>>
    BY <2>3, EmptySeq
  <2> QED BY <2>1, <2>2, <2>4
<1>6. Longest(st[0], <<>>, WordSet(n, st))
  <2>1. PICK W : W = WordSet(n, st)
    OBVIOUS
  <2>2. Longest(<<>>, <<>>, W)
    BY <1>4, <1>5, <2>1, LongestOwn
  <2> QED BY <1>3, <2>1, <2>2
<1>7. FirstFound(ps, <<>>, <<>>)
  <2> SUFFICES ASSUME Filled(ps), NEW i \in 0..Len(<<>>), EndsIn(ps, <<>>, i)
               PROVE  FALSE
    BY DEF FirstFound
  <2>1. i = 0
    BY <1>5, SMTT(10)
  <2>2. SubSeq(<<>>, 1, 0) = <<>>
    BY <1>5, PrefixWords
  <2>3. PICK j \in 1..Len(ps) : Suf(ps[j].patrn, <<>>)
    BY <2>1, <2>2 DEF EndsIn
  <2>4. ps[j].patrn \in Seq(Inputs) /\ ps[j].patrn # <<>>
    BY <1>1, <1>3, WordsKnown DEF Filled
  <2>5. Len(ps[j].patrn) \in Nat /\ Len(ps[j].patrn) # 0 /\ Len(ps[j].patrn) <= 0
    BY <1>5, <2>3, <2>4, EmptySeq, LenProperties DEF Suf
  <2> QED BY <2>5, SMTT(10)
<1> QED BY <1>2, <1>4, <1>5, <1>6, <1>7 DEF Searched

\* A character is read.
LEMMA SearchGoesOn ==
  ASSUME Built, Searched, V1!Step
  PROVE  Searched'
<1>1. PICK n, st, ps, W : n = numStates /\ st = str /\ ps = patterns /\ W = WordSet(numStates, str)
  OBVIOUS
<1>2. PICK c \in Inputs :
        /\ text' = Append(text, c) /\ state' = trans[state][Up[c]]
        /\ IF matchList[state'] = <<>>
           THEN UNCHANGED <<pc, reports>>
           ELSE /\ reports' = <<[id    |-> matchList[state'][1].id,
                                 index |-> Len(text') - Len(matchList[state'][1].patrn)]>>
                /\ pc' = "ready"
  BY SameInputs DEF V1!Step
<1>3. numStates' = n /\ str' = st /\ patterns' = ps /\ pc = "search"
  BY <1>1 DEF V1!Step
<1>4. /\ Known /\ Named(n, st) /\ Automated(n, trans, st, fail) /\ numStates <= Top /\ Top \in Nat
  BY <1>1 DEF Built
<1>5. /\ text \in Seq(Inputs) /\ state \in 0..n /\ reports = <<>>
      /\ Longest(st[state], V1!UpWord(text), W) /\ FirstFound(ps, V1!UpWord(text), reports)
  BY <1>1, <1>3 DEF Searched
<1>6. PICK w, i, v, s, l :
        /\ w = V1!UpWord(text) /\ i = Up[c] /\ v = Append(w, i) /\ s = state' /\ l = matchList[s]
  OBVIOUS
<1>7. /\ w \in Seq(Inputs) /\ Len(w) = Len(text) /\ Len(w) \in Nat /\ i \in Inputs
      /\ v \in Seq(Inputs) /\ Len(v) = Len(w) + 1 /\ V1!UpWord(text') = v
      /\ text' \in Seq(Inputs) /\ Len(text') = Len(v)
  <2>1. w \in Seq(Inputs) /\ Len(w) = Len(text) /\ i \in Inputs /\ V1!UpWord(text') = v
    BY <1>2, <1>5, <1>6, UpWords
  <2>2. text' \in Seq(Inputs) /\ Len(text') = Len(text) + 1
    BY <1>2, <1>5, AppendWord
  <2>3. v \in Seq(Inputs) /\ Len(v) = Len(w) + 1 /\ Len(w) \in Nat
    BY <1>6, <2>1, AppendWord
  <2> QED BY <2>1, <2>2, <2>3
<1>8. /\ PrefixClosed(W) /\ W \in SUBSET Seq(Inputs) /\ \A q \in 0..n : st[q] \in Seq(Inputs)
  BY <1>1, <1>4, WordsClosed
<1>9. s \in 0..n /\ Longest(st[s], v, W)
  <2>1. s = trans[state][i]
    BY <1>2, <1>6
  <2>2. s \in 0..n /\ Longest(st[s], Append(st[state], i), W)
    BY <1>1, <1>4, <1>5, <1>7, <2>1 DEF Automated, WholeRow
  <2>3. PICK x, y : x = st[s] /\ y = st[state]
    OBVIOUS
  <2>4. Longest(y, w, W) /\ Longest(x, Append(y, i), W)
    BY <1>5, <1>6, <2>2, <2>3
  <2>5. Longest(x, Append(w, i), W)
    BY <1>7, <1>8, <2>4, LongestNext
  <2> QED BY <1>6, <2>2, <2>3, <2>5
<1>10. /\ Len(ps) \in Nat /\ \A j \in 1..Len(ps) : ps[j].patrn \in Seq(Inputs)
       /\ Spells(ps, Len(ps), n, st)
  BY <1>1, <1>4, WordsKnown DEF Known
<1>11. /\ l \in Seq(Entry) /\ { l[k] : k \in 1..Len(l) } = { ps[j] : j \in Same(ps, Len(ps), st[s]) }
  <2>1. s \in 0..Top
    <3>1. n \in Nat
      BY <1>4 DEF Named
    <3> QED BY <1>1, <1>4, <1>9, <3>1, SMTT(10)
  <2>2. Listed(ps, Top, Len(ps), n, st, matchList)
    BY <1>1, <1>4 DEF Known
  <2> QED BY <1>6, <1>9, <2>1, <2>2 DEF Listed, Holds
<1>12. ASSUME NEW k \in 0..Len(w)
       PROVE  EndsIn(ps, v, k) <=> EndsIn(ps, w, k)
  <2>1. SubSeq(v, 1, k) = SubSeq(w, 1, k)
    BY <1>6, <1>7, SameFront
  <2> QED BY <2>1 DEF EndsIn
<1>13. /\ \A k \in 0..Len(v) : k \in 0..Len(w) \/ k = Len(v)
       /\ \A k \in 0..Len(w) : k # Len(v)
  <2>1. \A k \in 0..Len(v) : k \in 0..Len(w) \/ k = Len(v)
    BY <1>7, SMTT(10)
  <2>2. \A k \in 0..Len(w) : k # Len(v)
    BY <1>7, SMTT(10)
  <2> QED BY <2>1, <2>2
<1>14. EndsIn(ps, v, Len(v)) <=> \E j \in 1..Len(ps) : Suf(ps[j].patrn, v)
  BY <1>7, PrefixWords DEF EndsIn
<1>15. ASSUME Filled(ps), Apart(ps), NEW k \in 0..Len(w)
       PROVE  ~EndsIn(ps, v, k)
  BY <1>5, <1>6, <1>12, <1>15 DEF FirstFound
<1>16. CASE l = <<>>
  <2>1. reports' = <<>>
    BY <1>2, <1>5, <1>6, <1>16
  <2>2. Same(ps, Len(ps), st[s]) = {}
    <3>1. 1..Len(l) = {}
      <4>1. Len(l) = 0
        BY <1>16, EmptySeq
      <4> QED BY <4>1, SMTT(10)
    <3> QED BY <1>11, <3>1
  <2>3. FirstFound(ps, v, reports')
    <3> SUFFICES ASSUME Filled(ps), Apart(ps), NEW k \in 0..Len(v)
                 PROVE  ~EndsIn(ps, v, k)
      BY <2>1 DEF FirstFound
    <3>1. CASE k \in 0..Len(w)
      BY <1>15, <3>1
    <3>2. CASE k = Len(v)
      <4>1. ASSUME NEW j \in 1..Len(ps), Suf(ps[j].patrn, v)
            PROVE  FALSE
        <5>1. Longest(st[s], v, WordSet(n, st))
          BY <1>1, <1>9
        <5>2. Spelled(ps, n, st)
          BY <1>4, <1>10 DEF Spelled
        <5>3. ps[j].patrn = st[s]
          <6>1. v \in Seq(Inputs) /\ s \in 0..n
            BY <1>7, <1>9
          <6> QED BY <4>1, <5>1, <5>2, <6>1, PatternReached
        <5> QED BY <2>2, <5>3 DEF Same
      <4> QED BY <1>14, <3>2, <4>1
    <3> QED BY <1>13, <3>1, <3>2
  <2> QED BY <1>1, <1>3, <1>6, <1>7, <1>9, <2>1, <2>3 DEF Searched
<1>17. CASE l # <<>>
  <2>1. 1 \in 1..Len(l)
    <3>1. Len(l) \in Nat /\ Len(l) # 0
      BY <1>11, <1>17, EmptySeq, LenProperties
    <3> QED BY <3>1, SMTT(10)
  <2>2. PICK j \in 1..Len(ps) : l[1] = ps[j] /\ ps[j].patrn = st[s]
    <3>1. l[1] \in { ps[j] : j \in Same(ps, Len(ps), st[s]) }
      BY <1>11, <2>1
    <3> QED BY <3>1 DEF Same
  <2>3. reports' = <<[id |-> ps[j].id, index |-> Len(v) - Len(ps[j].patrn)]>> /\ pc' = "ready"
    BY <1>2, <1>6, <1>7, <1>17, <2>2
  <2>4. Suf(ps[j].patrn, v)
    BY <1>9, <2>2 DEF Longest
  <2>5. Reports(ps, v, reports') /\ reports' # <<>>
    BY <2>3, <2>4 DEF Reports
  <2>6. FirstFound(ps, v, reports')
    <3> SUFFICES ASSUME Filled(ps), Apart(ps), NEW k \in 0..Len(v)
                 PROVE  EndsIn(ps, v, k) <=> k = Len(v)
      BY <2>5 DEF FirstFound
    <3>1. CASE k \in 0..Len(w)
      BY <1>13, <1>15, <3>1
    <3>2. CASE k = Len(v)
      BY <1>14, <2>4, <3>2
    <3> QED BY <1>13, <3>1, <3>2
  <2> QED BY <1>1, <1>3, <1>6, <1>7, <1>9, <2>3, <2>5, <2>6 DEF Searched
<1> QED BY <1>16, <1>17

-----------------------------------------------------------------------------
(* The invariant *)

\* What holds of the first machine in each phase.
FirstInv ==
  /\ patterns \in Seq(Entry) /\ (<<>> \notin Texts => Filled(patterns))
  /\ pc \in {"setup", "trie", "dfa", "ready", "search", "freed"}
  /\ calls \in Nat /\ (calls = 0 => reports = <<>> /\ pc # "search")
  /\ pc \in {"setup", "trie", "dfa"} => calls = 0
  /\ pc = "trie" => \E m : TrieOf(m)
  /\ pc = "dfa" => InPass
  /\ pc \in {"ready", "search"} => Built
  /\ pc \in {"ready", "search"} /\ calls # 0 => Searched

\* It holds when the machine is new.
LEMMA FirstInvInit ==
  ASSUME MCInit
  PROVE  FirstInv
<1>1. patterns = <<>> /\ pc = "setup" /\ calls = 0 /\ reports = <<>>
  BY DEF MCInit, Init
<1>2. patterns \in Seq(Entry) /\ Filled(patterns)
  <2>1. patterns \in Seq(Entry) /\ Len(patterns) = 0
    BY <1>1, EmptySeq
  <2>2. \A j \in 1..0 : FALSE
    BY SMTT(10)
  <2> QED BY <2>1, <2>2 DEF Filled
<1> QED BY <1>1, <1>2 DEF FirstInv

\* Patterns of texts that are not empty are not empty.
LEMMA FilledKept ==
  ASSUME patterns \in Seq(Entry), Filled(patterns), <<>> \notin Texts,
         NEW t \in Texts, NEW nocase \in BOOLEAN, V1!acsmAddPattern(t, nocase)
  PROVE  Filled(patterns')
<1>1. PICK u, e : /\ u = V1!UpWord(t)
                  /\ e = [patrn |-> u, casepatrn |-> t, nocase |-> nocase, id |-> Len(patterns) + 1]
  OBVIOUS
<1>2. t \in Seq(Inputs) /\ t # <<>>
  BY MCAcsmAssumption
<1>3. u \in Seq(Inputs) /\ u # <<>>
  <2>1. u \in Seq(Inputs) /\ Len(u) = Len(t)
    BY <1>1, <1>2, UpWords
  <2>2. Len(u) # 0
    BY <1>2, <2>1, EmptySeq
  <2> QED BY <2>1, <2>2, EmptySeq
<1>4. patterns' = <<e>> \o patterns
  BY <1>1 DEF V1!acsmAddPattern
<1>5. Len(patterns) \in Nat /\ patterns' \in Seq(Entry)
  BY LenProperties, EntriesAdded
<1>6. e \in Entry
  BY <1>1, <1>2, <1>3, <1>5 DEF Entry
<1>7. /\ Len(patterns') = 1 + Len(patterns)
      /\ \A k \in 1..(1 + Len(patterns)) : patterns'[k] = IF k <= 1 THEN <<e>>[k] ELSE patterns[k - 1]
  <2>1. <<e>> \in Seq(Entry) /\ Len(<<e>>) = 1
    BY <1>6
  <2> QED BY <1>4, <2>1, ConcatProperties
<1>8. ASSUME NEW j \in 1..Len(patterns')
      PROVE  patterns'[j].patrn # <<>>
  <2>1. CASE j <= 1
    <3>1. j = 1
      BY <2>1, SMTT(10)
    <3>2. patterns'[j] = e
      BY <1>7, <2>1, <3>1
    <3> QED BY <1>1, <1>3, <3>2
  <2>2. CASE ~(j <= 1)
    <3>1. j - 1 \in 1..Len(patterns)
      BY <1>5, <1>7, <2>2, SMTT(10)
    <3>2. patterns'[j] = patterns[j - 1]
      BY <1>7, <2>2
    <3> QED BY <3>1, <3>2 DEF Filled
  <2> QED BY <2>1, <2>2
<1> QED BY <1>8 DEF Filled

\* What was searched stays when the search ends.
LEMMA SearchedKept ==
  ASSUME Searched, UNCHANGED <<patterns, numStates, str, text, state, reports>>, pc' = "ready"
  PROVE  Searched'
BY DEF Searched

\* What is built stays through a search.
LEMMA BuiltKept ==
  ASSUME Built, UNCHANGED <<patterns, numStates, str, matchList, trans, fail>>
  PROVE  Built'
<1>1. Known' /\ Top' = Top
  BY KnownKept, TotalsKept DEF Built
<1> QED BY <1>1 DEF Built

\* Every step of the machine keeps it.
LEMMA FirstInvNext ==
  ASSUME FirstInv, V1!Next
  PROVE  FirstInv'
<1>1. ASSUME NEW t \in Texts, NEW nocase \in BOOLEAN, V1!acsmAddPattern(t, nocase)
      PROVE  FirstInv'
  <2>1. patterns \in Seq(Entry) /\ (<<>> \notin Texts => Filled(patterns)) /\ pc = "setup"
    BY <1>1 DEF FirstInv, V1!acsmAddPattern
  <2>2. patterns' \in Seq(Entry) /\ (<<>> \notin Texts => Filled(patterns'))
    BY <1>1, <2>1, EntriesAdded, FilledKept
  <2>3. pc' = "setup" /\ UNCHANGED <<calls, reports>>
    BY <1>1, <2>1 DEF V1!acsmAddPattern
  <2>4. calls \in Nat /\ calls = 0 /\ reports = <<>>
    BY <2>1 DEF FirstInv
  <2> QED BY <2>2, <2>3, <2>4 DEF FirstInv
<1>2. ASSUME V1!acsmCompile
      PROVE  FirstInv'
  <2>1. patterns \in Seq(Entry) /\ (<<>> \notin Texts => Filled(patterns)) /\ calls = 0 /\ reports = <<>>
    BY <1>2 DEF FirstInv, V1!acsmCompile
  <2>2. pc' = "trie" /\ UNCHANGED <<patterns, calls, reports>>
    BY <1>2 DEF V1!acsmCompile
  <2>3. TrieOf(0)'
    BY <1>2, <2>1, TrieBegun
  <2>4. \E m : TrieOf(m)'
    BY <2>3
  <2> QED BY <2>1, <2>2, <2>4 DEF FirstInv
<1>3. ASSUME V1!AddPatternStates
      PROVE  FirstInv'
  <2>1. /\ patterns \in Seq(Entry) /\ (<<>> \notin Texts => Filled(patterns)) /\ calls = 0
        /\ reports = <<>> /\ \E m : TrieOf(m)
    BY <1>3 DEF FirstInv, V1!AddPatternStates
  <2>2. pc' = "trie" /\ UNCHANGED <<patterns, calls, reports>>
    BY <1>3 DEF V1!AddPatternStates
  <2>3. PICK m : TrieOf(m)
    BY <2>1
  <2>4. TrieOf(m + 1)'
    BY <1>3, <2>3, TrieGrows
  <2>5. \E k : TrieOf(k)'
    BY <2>4
  <2> QED BY <2>1, <2>2, <2>5 DEF FirstInv
<1>4. ASSUME V1!RootDone
      PROVE  FirstInv'
  <2>1. /\ patterns \in Seq(Entry) /\ (<<>> \notin Texts => Filled(patterns)) /\ calls = 0
        /\ reports = <<>> /\ \E m : TrieOf(m)
    BY <1>4 DEF FirstInv, V1!RootDone
  <2>2. pc' = "dfa" /\ UNCHANGED <<patterns, calls, reports>>
    BY <1>4 DEF V1!RootDone
  <2>3. PICK m : TrieOf(m)
    BY <2>1
  <2>4. InPass'
    BY <1>4, <2>3, RootStep
  <2> QED BY <2>1, <2>2, <2>4 DEF FirstInv
<1>5. ASSUME V1!Build_DFA
      PROVE  FirstInv'
  <2>1. /\ patterns \in Seq(Entry) /\ (<<>> \notin Texts => Filled(patterns)) /\ calls = 0
        /\ reports = <<>> /\ InPass
    BY <1>5 DEF FirstInv, V1!Build_DFA
  <2>2. pc' = "dfa" /\ UNCHANGED <<patterns, calls, reports>>
    BY <1>5 DEF V1!Build_DFA
  <2>3. InPass'
    BY <1>5, <2>1, BuildStep
  <2> QED BY <2>1, <2>2, <2>3 DEF FirstInv
<1>6. ASSUME V1!DfaDone
      PROVE  FirstInv'
  <2>1. /\ patterns \in Seq(Entry) /\ (<<>> \notin Texts => Filled(patterns)) /\ calls = 0
        /\ reports = <<>> /\ InPass
    BY <1>6 DEF FirstInv, V1!DfaDone
  <2>2. pc' = "ready" /\ UNCHANGED <<patterns, calls, reports>>
    BY <1>6 DEF V1!DfaDone
  <2>3. Built'
    BY <1>6, <2>1, DoneStep
  <2> QED BY <2>1, <2>2, <2>3 DEF FirstInv
<1>7. ASSUME V1!Begin
      PROVE  FirstInv'
  <2>1. /\ patterns \in Seq(Entry) /\ (<<>> \notin Texts => Filled(patterns)) /\ calls \in Nat /\ Built
    BY <1>7 DEF FirstInv, V1!Begin
  <2>2. /\ pc' = "search" /\ calls' = calls + 1
        /\ UNCHANGED <<patterns, numStates, str, matchList, trans, fail>>
    BY <1>7 DEF V1!Begin
  <2>3. calls' \in Nat /\ calls' # 0
    BY <2>1, <2>2, SMTT(10)
  <2>4. Built' /\ Searched'
    BY <1>7, <2>1, <2>2, BuiltKept, SearchBegins
  <2> QED BY <2>1, <2>2, <2>3, <2>4 DEF FirstInv
<1>8. ASSUME V1!Step
      PROVE  FirstInv'
  <2>1. /\ patterns \in Seq(Entry) /\ (<<>> \notin Texts => Filled(patterns)) /\ calls \in Nat
        /\ calls # 0 /\ Built /\ Searched /\ pc = "search"
    BY <1>8 DEF FirstInv, V1!Step
  <2>2. /\ pc' \in {"search", "ready"} /\ calls' = calls
        /\ UNCHANGED <<patterns, numStates, str, matchList, trans, fail>>
    BY <1>8, <2>1 DEF V1!Step
  <2>3. Built' /\ Searched'
    BY <1>8, <2>1, <2>2, BuiltKept, SearchGoesOn
  <2> QED BY <2>1, <2>2, <2>3 DEF FirstInv
<1>9. ASSUME V1!Finish
      PROVE  FirstInv'
  <2>1. /\ patterns \in Seq(Entry) /\ (<<>> \notin Texts => Filled(patterns)) /\ calls \in Nat
        /\ calls # 0 /\ Built /\ Searched
    BY <1>9 DEF FirstInv, V1!Finish
  <2>2. /\ pc' = "ready" /\ calls' = calls
        /\ UNCHANGED <<patterns, numStates, str, matchList, trans, fail, text, state, reports>>
    BY <1>9 DEF V1!Finish
  <2>3. Built' /\ Searched'
    BY <2>1, <2>2, BuiltKept, SearchedKept
  <2> QED BY <2>1, <2>2, <2>3 DEF FirstInv
<1>10. ASSUME V1!acsmFree
       PROVE  FirstInv'
  BY <1>10 DEF FirstInv, V1!acsmFree
<1> QED BY <1>1, <1>2, <1>3, <1>4, <1>5, <1>6, <1>7, <1>8, <1>9, <1>10 DEF V1!Next, V1!Building

\* A step that changes no variable keeps it too.
LEMMA FirstInvStutters ==
  ASSUME FirstInv, UNCHANGED mcvars
  PROVE  FirstInv'
<1>1. UNCHANGED <<patterns, pc, todo, numStates, trans, fail, matchList, queue, str, text, state,
                  reports, calls>>
  BY DEF mcvars, vars, setup, build, search
<1>2. Top' = Top /\ \A g : Totals(g)' <=> Totals(g)
  BY <1>1, TotalsKept
<1>3. \A m : TrieOf(m)' <=> TrieOf(m)
  BY <1>1, <1>2 DEF TrieOf
<1>4. Known' <=> Known
  BY <1>1, <1>2 DEF Known
<1>5. (InPass' <=> InPass) /\ (Built' <=> Built) /\ (Searched' <=> Searched)
  BY <1>1, <1>2, <1>4 DEF InPass, Built, Searched
<1> QED BY <1>1, <1>3, <1>5 DEF FirstInv

\* The invariant of a behaviour of the first machine.
AInv == version = 1 => FirstInv

\* At each step of adding, compiling and searching the first machine is as FirstInv
\* says.
THEOREM AInvAlways == MCSpec => []AInv
<1>1. MCInit => AInv
  BY FirstInvInit DEF AInv
<1>2. AInv /\ [MCNext]_mcvars => AInv'
  <2> SUFFICES ASSUME AInv, [MCNext]_mcvars, version' = 1
               PROVE  FirstInv'
    BY DEF AInv
  <2>1. CASE version = 1 /\ V1!Next
    BY <2>1, FirstInvNext DEF AInv
  <2>2. CASE version = 2 /\ Next /\ UNCHANGED version
    BY <2>2
  <2>3. CASE UNCHANGED mcvars
    <3>1. version = 1
      BY <2>3 DEF mcvars
    <3> QED BY <2>3, <3>1, FirstInvStutters DEF AInv
  <2> QED BY <2>1, <2>2, <2>3 DEF MCNext
<1> QED BY <1>1, <1>2, PTL DEF MCSpec

\* What an EndsAt at the end of what was read says.
LEMMA EndsAtEnd ==
  ASSUME NEW p \in Seq(Inputs), NEW w \in Seq(Inputs)
  PROVE  V1!EndsAt(p, w, Len(w)) <=> Suf(p, w)
<1>1. Len(w) \in 0..Len(w)
  <2>1. Len(w) \in Nat
    BY LenProperties
  <2> QED BY <2>1, SMTT(10)
<1>2. EndsAt(p, w, Len(w)) <=> Suf(p, SubSeq(w, 1, Len(w)))
  BY <1>1, EndsAtIs
<1> QED BY <1>2, PrefixWords, SameRef

\* The properties of the search follow from what is known of it.
LEMMA SearchedRight ==
  ASSUME FirstInv
  PROVE  V1!SoundReports /\ V1!CarriedState /\ (<<>> \notin Texts => V1!CompleteReports)
<1>1. PICK ps, w, n, st : ps = patterns /\ w = V1!UpWord(text) /\ n = numStates /\ st = str
  OBVIOUS
<1>2. ASSUME pc \in {"search", "ready"}, calls # 0
      PROVE  /\ Built /\ Searched /\ text \in Seq(Inputs) /\ w \in Seq(Inputs) /\ Len(w) = Len(text)
             /\ Len(w) \in Nat /\ V1!Stream = w /\ V1!Words = WordSet(n, st)
             /\ WordSet(n, st) \in SUBSET Seq(Inputs)
             /\ V1!Range(patterns) = { ps[j] : j \in 1..Len(ps) } /\ Len(ps) \in Nat
             /\ \A j \in 1..Len(ps) : ps[j].patrn \in Seq(Inputs)
  <2>1. Built /\ Searched /\ text \in Seq(Inputs)
    BY <1>2 DEF FirstInv, Searched
  <2>2. Known /\ Named(numStates, str)
    BY <2>1 DEF Built
  <2>3. w \in Seq(Inputs) /\ Len(w) = Len(text) /\ Len(w) \in Nat
    BY <1>1, <2>1, UpWords, LenProperties
  <2>4. /\ V1!Words = WordSet(n, st) /\ DOMAIN ps = 1..Len(ps) /\ Len(ps) \in Nat
        /\ \A j \in 1..Len(ps) : ps[j].patrn \in Seq(Inputs)
    BY <1>1, <2>2, WordsKnown
  <2>5. WordSet(n, st) \in SUBSET Seq(Inputs)
    BY <1>1, <2>2, WordsClosed
  <2> QED BY <1>1, <2>1, <2>3, <2>4, <2>5 DEF V1!Range, V1!Stream
<1>3. V1!SoundReports
  <2> SUFFICES ASSUME pc \in {"search", "ready"}, NEW r \in V1!Range(reports)
               PROVE  \E p \in V1!Range(patterns) :
                        p.id = r.id /\ V1!EndsAt(p.patrn, V1!Stream, r.index + Len(p.patrn))
    BY DEF V1!SoundReports
  <2>1. reports # <<>>
    <3>1. \A k \in DOMAIN <<>> : FALSE
      OBVIOUS
    <3> QED BY <3>1 DEF V1!Range
  <2>2. calls # 0
    BY <2>1 DEF FirstInv
  <2>3. PICK j \in 1..Len(ps) :
          /\ reports = <<[id |-> ps[j].id, index |-> Len(w) - Len(ps[j].patrn)]>>
          /\ Suf(ps[j].patrn, w)
    BY <1>1, <1>2, <2>1, <2>2 DEF Searched, Reports
  <2>4. r = [id |-> ps[j].id, index |-> Len(w) - Len(ps[j].patrn)]
    BY <2>3 DEF V1!Range
  <2>5. ps[j].patrn \in Seq(Inputs) /\ Len(ps[j].patrn) \in Nat /\ Len(w) \in Nat
    BY <1>2, <2>2, LenProperties
  <2>6. r.index + Len(ps[j].patrn) = Len(w)
    <3>1. r.index = Len(w) - Len(ps[j].patrn)
      BY <2>4
    <3> QED BY <2>5, <3>1, SMTT(10)
  <2>7. V1!EndsAt(ps[j].patrn, w, Len(w))
    BY <1>2, <2>2, <2>3, <2>5, EndsAtEnd
  <2>8. ps[j] \in V1!Range(patterns) /\ V1!Stream = w /\ ps[j].id = r.id
    BY <1>2, <2>2, <2>4
  <2> QED BY <2>6, <2>7, <2>8
<1>4. V1!CarriedState
  <2> SUFFICES ASSUME pc \in {"search", "ready"}, calls > 0
               PROVE  str[state] = V1!LongestSuffixIn(V1!Stream, V1!Words)
    BY DEF V1!CarriedState
  <2>1. calls # 0
    BY SMTT(10)
  <2>2. PICK W, u : W = WordSet(n, st) /\ u = str[state]
    OBVIOUS
  <2>3. Longest(u, w, W) /\ W \in SUBSET Seq(Inputs) /\ w \in Seq(Inputs)
    BY <1>1, <1>2, <2>1, <2>2 DEF Searched
  <2>4. u = LongestSuffixIn(w, W)
    BY <2>3, LongestIs
  <2> QED BY <1>2, <2>1, <2>2, <2>4, SameRef
<1>5. ASSUME <<>> \notin Texts
      PROVE  V1!CompleteReports
  <2> SUFFICES ASSUME pc = "ready", calls > 0,
                      \A p, q \in V1!Range(patterns) :
                        V1!Inside(p.patrn, q.patrn) => p.patrn = q.patrn,
                      NEW i \in 0..Len(text)
               PROVE  (\E p \in V1!Range(patterns) : V1!EndsAt(p.patrn, V1!Stream, i))
                        <=> i = Len(text) /\ reports # <<>>
    BY DEF V1!CompleteReports
  <2>1. calls # 0
    BY SMTT(10)
  <2>2. /\ Searched /\ w \in Seq(Inputs) /\ Len(w) = Len(text) /\ V1!Stream = w
        /\ V1!Range(patterns) = { ps[j] : j \in 1..Len(ps) }
        /\ \A j \in 1..Len(ps) : ps[j].patrn \in Seq(Inputs)
    BY <1>2, <2>1
  <2>3. Filled(ps)
    BY <1>1, <1>5 DEF FirstInv
  <2>4. Apart(ps)
    <3> SUFFICES ASSUME NEW j \in 1..Len(ps), NEW k \in 1..Len(ps), NEW x \in Nat,
                        x <= Len(ps[k].patrn), Suf(ps[j].patrn, SubSeq(ps[k].patrn, 1, x))
                 PROVE  ps[j].patrn = ps[k].patrn
      BY DEF Apart
    <3>1. PICK p, q : p = ps[j].patrn /\ q = ps[k].patrn
      OBVIOUS
    <3>2. p \in Seq(Inputs) /\ q \in Seq(Inputs) /\ Len(q) \in Nat
      BY <2>2, <3>1, LenProperties
    <3>3. x \in 0..Len(q)
      BY <3>1, <3>2, SMTT(10)
    <3>4. EndsAt(p, q, x)
      BY <3>1, <3>2, <3>3, EndsAtIs
    <3>5. V1!Inside(p, q)
      BY <3>3, <3>4, SameRef DEF V1!Inside
    <3> QED BY <2>2, <3>1, <3>5
  <2>5. EndsIn(ps, w, i) <=> i = Len(w) /\ reports # <<>>
    BY <1>1, <2>2, <2>3, <2>4 DEF Searched, FirstFound
  <2>6. i \in 0..Len(w)
    BY <2>2
  <2>7. ASSUME NEW j \in 1..Len(ps)
        PROVE  V1!EndsAt(ps[j].patrn, w, i) <=> Suf(ps[j].patrn, SubSeq(w, 1, i))
    <3>1. PICK p : p = ps[j].patrn
      OBVIOUS
    <3>2. EndsAt(p, w, i) <=> Suf(p, SubSeq(w, 1, i))
      BY <2>2, <2>6, <3>1, EndsAtIs
    <3> QED BY <3>1, <3>2, SameRef
  <2> QED BY <2>2, <2>5, <2>7 DEF EndsIn
<1> QED BY <1>3, <1>4, <1>5

\* Automaton, of acsmx.c: after acsmCompile (acsmx.c:390) each state has the failure
\* state of its word's longest proper suffix (Build_DFA, 279), and the match lists
\* hold the patterns that are the words of their states, each once.
THEOREM FirstAutomaton == MCSpec => [](version = 1 => Automaton)
<1>1. AInv => (version = 1 => Automaton)
  <2> SUFFICES ASSUME version = 1, FirstInv
               PROVE  V1!FailIsLongestSuffix /\ V1!OutputsComplete
    BY DEF AInv, Automaton
  <2>1. CASE pc = "ready"
    BY <2>1, BuiltRight DEF FirstInv
  <2>2. CASE pc # "ready"
    BY <2>2 DEF V1!FailIsLongestSuffix, V1!OutputsComplete
  <2> QED BY <2>1, <2>2
<1> QED BY <1>1, AInvAlways, PTL

\* Rows, of acsmx.c: each row that Build_DFA (acsmx.c:279) leaves leads to the longest
\* word that the state's word and the character end in; no failure is left to follow.
THEOREM FirstRows == MCSpec => [](version = 1 => Rows)
<1>1. AInv => (version = 1 => Rows)
  <2> SUFFICES ASSUME version = 1, FirstInv
               PROVE  V1!RowsAgree
    BY DEF AInv, Rows
  <2>1. CASE pc = "ready"
    BY <2>1, BuiltRight DEF FirstInv
  <2>2. CASE pc # "ready"
    BY <2>2 DEF V1!RowsAgree
  <2> QED BY <2>1, <2>2
<1> QED BY <1>1, AInvAlways, PTL

\* Sound, of acsmx.c: what acsmSearch (acsmx.c:447) reports occurs where it says.
THEOREM FirstSound == MCSpec => [](version = 1 => Sound)
<1>1. AInv => (version = 1 => Sound)
  BY SearchedRight DEF AInv, Sound
<1> QED BY <1>1, AInvAlways, PTL

\* Complete, of acsmx.c: unless one pattern lies inside another, acsmSearch (acsmx.c:447)
\* stops at the first place where a pattern ends, and answers that there is none only
\* if there is none.  An empty pattern ends before the first character too, a place
\* the search does not look at.
THEOREM FirstComplete ==
  ASSUME <<>> \notin Texts
  PROVE  MCSpec => [](version = 1 => Complete)
<1>1. AInv => (version = 1 => Complete)
  BY SearchedRight DEF AInv, Complete
<1> QED BY <1>1, AInvAlways, PTL

\* Carried, of acsmx.c: after each character (acsmx.c:466) the state of acsmSearch is the
\* one of the longest word of the trie that the text read ends in.
THEOREM FirstCarried == MCSpec => [](version = 1 => Carried)
<1>1. AInv => (version = 1 => Carried)
  BY SearchedRight DEF AInv, Carried
<1> QED BY <1>1, AInvAlways, PTL

=============================================================================
