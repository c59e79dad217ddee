------------------------------- MODULE AcsmRows -------------------------------
(* The four storage formats of a state's row in acsmx2.c: how a full row is   *)
(* packed into words (Conv_...) and how the searches unpack it                *)
(* (SparseGetNextState...).  A row is the sequence of its words; ps[i] of the *)
(* code is row[i + 1].  A word is an acstate_t: 0..FAIL, where FAIL stands    *)
(* for 0xffffffff, both ACSM_FAIL_STATE2 and the largest word.                *)
EXTENDS AcsmRef

CONSTANTS AlphabetSize,   \* acsmAlphabetSize
          FAIL,           \* ACSM_FAIL_STATE2, the largest acstate_t
          UINT8, UINT16   \* 0xff and 0xffff, the largest 1- and 2-byte states

ASSUME RowsAssumption == /\ AlphabetSize \in Nat \ {0}
                         /\ FAIL \in Nat /\ FAIL > AlphabetSize
                         /\ UINT8 \in Nat \ {0} /\ UINT16 \in Nat
                         /\ UINT8 < UINT16 /\ UINT16 < FAIL

ACF_FULL == 0
ACF_SPARSE == 1
ACF_BANDED == 2
ACF_SPARSEBANDS == 3
ACF_FULLQ == 4

Inputs == 0..(AlphabetSize - 1)

\* An int stored in an acstate_t.
Word(i) == i % (FAIL + 1)

\* The inputs of a full row with a transition to count.
Live(full) == { i \in Inputs : full[i] \notin {0, FAIL} }

Values(full, first, last) == [j \in 1..(last - first + 1) |-> full[first + j - 1]]

-------------------------------------------------------------------------------
(* Packing. *)

FullRow(full) == <<ACF_FULL, 0>> \o Values(full, 0, AlphabetSize - 1)

\* The largest value of a state's word, by sizeofstate, which is chosen once the
\* states are counted.
MaxWord(compress, numStates) ==
  CASE compress /\ numStates < UINT8                         -> UINT8
    [] compress /\ numStates >= UINT8 /\ numStates < UINT16 -> UINT16
    [] OTHER                                                 -> FAIL

\* A full row in words of that size.
Narrow(row, max) == [i \in DOMAIN row |-> row[i] % (max + 1)]

SparseRow(full, k, maxRowNodes) ==
  LET keys == Ascending(Live(full))
  IN  IF k = 0 \/ Len(keys) > maxRowNodes
      THEN FullRow(full)
      ELSE <<ACF_SPARSE, 0, Len(keys)>>
             \o FlattenSeq([j \in DOMAIN keys |-> <<keys[j], full[keys[j]]>>])

\* Mutant of BandedRow: the width of the band is one short.
NarrowBandedRow(full) ==
  LET live  == Live(full)
      first == IF live = {} THEN -1 ELSE Min(live)
      last  == IF live = {} THEN -2 ELSE Max(live) - 1
  IN  <<ACF_BANDED, 0, last - first + 1, Word(first)>> \o Values(full, first, last)

\* With no transition the band runs from -1 to -2: no value, first index -1.
BandedRow(full) ==
  LET live  == Live(full)
      first == IF live = {} THEN -1 ELSE Min(live)
      last  == IF live = {} THEN -2 ELSE Max(live)
  IN  <<ACF_BANDED, 0, last - first + 1, Word(first)>> \o Values(full, first, last)

\* calcSparseBands: a band goes on over a gap of at most zmax zeros.
BandBegins(full, zmax) ==
  { i \in Live(full) : \A j \in Live(full) : j < i => i - j - 1 > zmax }
BandEnds(full, zmax) ==
  { i \in Live(full) : \A j \in Live(full) : j > i => j - i - 1 > zmax }

SparseBandsRow(full, zmax) ==
  LET begin == Ascending(BandBegins(full, zmax))
      end   == Ascending(BandEnds(full, zmax))
  IN  <<ACF_SPARSEBANDS, 0, Len(begin)>>
        \o FlattenSeq([b \in DOMAIN begin |->
             <<end[b] - begin[b] + 1, begin[b]>> \o Values(full, begin[b], end[b])])

-------------------------------------------------------------------------------
(* Unpacking. *)

Ps(row, i) == row[i + 1]

BandedNext(row, input) ==
  IF \/ input < Ps(row, 3)
     \/ input >= Word(Ps(row, 3) + Ps(row, 2))
  THEN 0
  ELSE Ps(row, 4 + input - Ps(row, 3))

\* The pairs are in ascending order: a larger key ends the scan.
SparseNext(row, input, above, default) ==
  LET key(j)  == Ps(row, 3 + 2 * j)
      scan[j \in 0..Ps(row, 2)] ==
        IF j = Ps(row, 2) THEN default
        ELSE IF key(j) > input THEN above
        ELSE IF key(j) = input THEN Ps(row, 4 + 2 * j)
        ELSE scan[j + 1]
  IN  scan[0]

\* at[b] is the offset of the number of elements of the band b, from 0.
SparseBandsNext(row, input, default) ==
  LET at[b \in 0..Ps(row, 2)] ==
        IF b = 0 THEN 3 ELSE at[b - 1] + 2 + Ps(row, at[b - 1])
      scan[b \in 0..Ps(row, 2)] ==
        IF b = Ps(row, 2) THEN default
        ELSE IF input < Ps(row, at[b] + 1) THEN default
        ELSE IF input < Ps(row, at[b] + 1) + Ps(row, at[b])
             THEN Ps(row, at[b] + 2 + input - Ps(row, at[b] + 1))
        ELSE scan[b + 1]
  IN  scan[0]

SparseGetNextStateDFA(row, input) ==
  CASE Ps(row, 0) = ACF_BANDED      -> BandedNext(row, input)
    [] Ps(row, 0) = ACF_FULL        -> Ps(row, 2 + input)
    [] Ps(row, 0) = ACF_SPARSE      -> SparseNext(row, input, 0, 0)
    [] Ps(row, 0) = ACF_SPARSEBANDS -> SparseBandsNext(row, input, 0)

\* In the NFA a missing transition, a stored 0 too, fails except in state 0.
OrFail(state, next) == IF next = 0 /\ state # 0 THEN FAIL ELSE next

\* The banded case reads the values from ps[input - index] on, that is from
\* the count and the index themselves.
SparseGetNextStateNFA(row, state, input) ==
  CASE Ps(row, 0) = ACF_BANDED ->
         IF \/ input < Ps(row, 3)
            \/ input >= Word(Ps(row, 3) + Ps(row, 2))
         THEN OrFail(state, 0)
         ELSE OrFail(state, Ps(row, 2 + input - Ps(row, 3)))
    [] Ps(row, 0) = ACF_FULL        -> OrFail(state, Ps(row, 2 + input))
    [] Ps(row, 0) = ACF_SPARSE      -> SparseNext(row, input, FAIL, OrFail(state, 0))
    [] Ps(row, 0) = ACF_SPARSEBANDS ->
         OrFail(state, SparseBandsNext(row, input, 0))
===============================================================================
