---------------------------- MODULE StringSearch ----------------------------
(***************************************************************************)
(* The searches of kmp.c and sunday.c, one turn of a loop per step.        *)
(* Strings are sequences of characters; as in C they are indexed from 0,   *)
(* and the character behind the last is the terminator.                    *)
(***************************************************************************)
EXTENDS Integers, Sequences

CONSTANTS
  Chars,
  MaxText, MaxPattern   \* bounds: the lengths of the strings

VARIABLES
  alg,            \* "kmp" or "sunday"
  pc,
  text, pattern,
  next,           \* getNext's array
  i, k,           \* the place in the text or the pattern, the characters matched
  pos,            \* sunday's place, which counts from 1
  result

vars == <<alg, pc, text, pattern, next, i, k, pos, result>>

Strings(n) == UNION {[1 .. m -> Chars] : m \in 0 .. n}

At(s, x) == IF x < Len(s) THEN s[x + 1] ELSE "end"

Init ==
  /\ alg = "kmp" /\ pc = "idle" /\ text = <<>> /\ pattern = <<>> /\ next = <<>>
  /\ i = 0 /\ k = 0 /\ pos = 0 /\ result = 0

Call(a, t, p) ==
  /\ pc = "idle"
  /\ alg' = a /\ text' = t /\ pattern' = p
  /\ next' = <<0>>
  /\ IF a = "kmp" THEN pc' = "getNext" /\ i' = 1 /\ pos' = 0
                  ELSE pc' = "sunday" /\ i' = 0 /\ pos' = 1
  /\ k' = 0
  /\ UNCHANGED result

Return(r) == pc' = "done" /\ result' = r /\ UNCHANGED <<alg, text, pattern, next, i, k, pos>>

-----------------------------------------------------------------------------
(* kmp.c.  next[x] is next[x + 1] here.                                     *)

\* Mutant of Fallback: the match is given up instead of its longest border kept.
FallbackToZero(m) == 0

\* The length to go on with when the character behind m matched ones differs.
Fallback(m) == next[m]

NextBack ==
  /\ pc = "getNext" /\ i < Len(pattern)
  /\ k # 0 /\ At(pattern, i) # At(pattern, k)
  /\ k' = Fallback(k)
  /\ UNCHANGED <<alg, pc, text, pattern, next, i, pos, result>>

NextForward ==
  /\ pc = "getNext" /\ i < Len(pattern)
  /\ k = 0 \/ At(pattern, i) = At(pattern, k)
  /\ k' = IF At(pattern, i) = At(pattern, k) THEN k + 1 ELSE k
  /\ next' = Append(next, k')
  /\ i' = i + 1
  /\ UNCHANGED <<alg, pc, text, pattern, pos, result>>

NextDone ==
  /\ pc = "getNext" /\ i >= Len(pattern)
  /\ pc' = "kmp" /\ i' = 0 /\ k' = 0
  /\ UNCHANGED <<alg, text, pattern, next, pos, result>>

KmpBack ==
  /\ pc = "kmp" /\ i < Len(text)
  /\ k > 0 /\ At(pattern, k) # At(text, i)
  /\ k' = Fallback(k)
  /\ UNCHANGED <<alg, pc, text, pattern, next, i, pos, result>>

Matched == IF At(text, i) = At(pattern, k) THEN k + 1 ELSE k

KmpForward ==
  /\ pc = "kmp" /\ i < Len(text)
  /\ k = 0 \/ At(pattern, k) = At(text, i)
  /\ Matched # Len(pattern)
  /\ k' = Matched /\ i' = i + 1
  /\ UNCHANGED <<alg, pc, text, pattern, next, pos, result>>

KmpFound ==
  /\ pc = "kmp" /\ i < Len(text)
  /\ k = 0 \/ At(pattern, k) = At(text, i)
  /\ Matched = Len(pattern)
  /\ Return(i - Matched + 1)

KmpNone == pc = "kmp" /\ i >= Len(text) /\ Return(0)

-----------------------------------------------------------------------------
(* sunday.c                                                                 *)

\* alphabet[c]: the length, or how far the last c of the pattern is from its end.
Places(c) == {x \in DOMAIN pattern : pattern[x] = c}
Alphabet(c) == IF Places(c) = {} THEN Len(pattern)
               ELSE Len(pattern) - (CHOOSE x \in Places(c) : \A y \in Places(c) : y <= x)

Fits == \A x \in 0 .. Len(pattern) - 1 : At(text, pos - 1 + x) = At(pattern, x)
InRange == pos <= Len(text) - Len(pattern)

SundayFound == pc = "sunday" /\ InRange /\ Fits /\ Return(pos)

SundayShift ==
  /\ pc = "sunday" /\ InRange /\ ~Fits
  /\ pos' = pos + Alphabet(At(text, pos + Len(pattern) - 1)) + 1
  /\ UNCHANGED <<alg, pc, text, pattern, next, i, k, result>>

SundayNone == pc = "sunday" /\ ~InRange /\ Return(-1)

-----------------------------------------------------------------------------
Search == \/ NextBack \/ NextForward \/ NextDone
          \/ KmpBack \/ KmpForward \/ KmpFound \/ KmpNone
          \/ SundayFound \/ SundayShift \/ SundayNone

Next ==
  \/ Search
  \/ \E a \in {"kmp", "sunday"}, t \in Strings(MaxText), p \in Strings(MaxPattern) : Call(a, t, p)

Spec == Init /\ [][Next]_vars /\ WF_vars(Search)

-----------------------------------------------------------------------------
\* Where the pattern begins in the text, counted from 0.
Occurrences == {x \in 0 .. Len(text) - Len(pattern) :
                  \A y \in DOMAIN pattern : text[x + y] = pattern[y]}
FirstOf(S) == CHOOSE x \in S : \A y \in S : x <= y

\* The longest proper prefix of the first m characters that is also their suffix.
Border(m) == CHOOSE b \in 0 .. m - 1 :
  /\ SubSeq(pattern, 1, b) = SubSeq(pattern, m - b + 1, m)
  /\ \A c \in b + 1 .. m - 1 : SubSeq(pattern, 1, c) # SubSeq(pattern, m - c + 1, m)

(***************************************************************************)
(* kmp.c:21: the table holds the borders of the pattern, whatever its      *)
(* repetitions; the search returns the first occurrence, counted from 0,   *)
(* and 0 for none as well.  An empty pattern is found at 1, since the test *)
(* comes behind the first character.                                       *)
(***************************************************************************)
KmpFindsFirst ==
  /\ pc = "kmp" => \A m \in DOMAIN pattern : next[m] = Border(m)
  /\ (pc = "done" /\ alg = "kmp") =>
       result = IF pattern = <<>> THEN (IF text = <<>> THEN 0 ELSE 1)
                ELSE IF Occurrences = {} THEN 0 ELSE FirstOf(Occurrences)

(***************************************************************************)
(* sunday.c:18: no shift jumps over an occurrence.  The search returns the *)
(* first one, counted from 1, or -1; but the loop ends one place early, so *)
(* an occurrence at the very end of the text is none.                      *)
(***************************************************************************)
Early == {x \in Occurrences : x < Len(text) - Len(pattern)}
SundayFindsFirst ==
  /\ pc = "sunday" => \A x \in Early : pos <= x + 1
  /\ (pc = "done" /\ alg = "sunday") =>
       result = IF Early = {} THEN -1 ELSE FirstOf(Early) + 1

=============================================================================
