------------------------------ MODULE Encoding ------------------------------
(***************************************************************************)
(* Gb2312ToUft8 and Utf8ToGb2312 of encoded.c, one character per step.     *)
(* Texts are sequences of bytes; i and j count from 0 as in C.  The bytes  *)
(* behind the text are 0, and so are those of the buffer written to before *)
(* they are written, as in the callers' buffers.                           *)
(***************************************************************************)
EXTENDS Integers, Sequences, FiniteSets

CONSTANTS
  Codes,          \* the entries of the code tables: pairs of Unicode and GB2312
  GbTexts,        \* what Gb2312ToUft8 is called with: sequences of characters
  Utf8Texts       \* what Utf8ToGb2312 is called with

VARIABLES
  pc,             \* idle, toUtf8, toGb, done
  chars,          \* the characters the client has in mind
  round,          \* the text in temp has been converted back
  utf8, gb,       \* the input of each conversion
  i, j, byteCount,
  temp

vars == <<pc, chars, round, utf8, gb, i, j, byteCount, temp>>

Flatten(s) == LET f[m \in 0 .. Len(s)] == IF m = 0 THEN <<>> ELSE f[m - 1] \o s[m] IN f[Len(s)]

Byte(s, x) == IF x < Len(s) THEN s[x + 1] ELSE 0

\* The buffer with bytes written from x on.
Written(x, bytes) ==
  [y \in 1 .. x + Len(bytes) |-> IF y > x THEN bytes[y - x] ELSE Byte(temp, y - 1)]

Init ==
  /\ pc = "idle" /\ chars = <<>> /\ round = FALSE /\ utf8 = <<>> /\ gb = <<>>
  /\ i = 0 /\ j = 0 /\ byteCount = 0 /\ temp = <<>>

-----------------------------------------------------------------------------
\* SearchCodeTable2 and SearchCodeTable: see CodeSearch.
UnicodeOf(g) == IF \E c \in Codes : c[2] = g THEN (CHOOSE c \in Codes : c[2] = g)[1] ELSE 0
GbOf(u) == IF \E c \in Codes : c[1] = u THEN (CHOOSE c \in Codes : c[1] = u)[2] ELSE 0

\* GetUtf8ByteNumForWord: the ones a byte begins with.
ByteNum(b) == Cardinality({m \in 1 .. 8 : b >= 256 - 2^(8 - m)})

\* Mutant of Utf8Of: two bytes for one value more.
Utf8OfWide(u) ==
  IF u <= 127 THEN <<u>>
  ELSE IF u <= 2048 THEN <<192 + ((u \div 64) % 32), 128 + (u % 64)>>
  ELSE <<224 + ((u \div 4096) % 16), 128 + (u % 64), 128 + ((u \div 64) % 64)>>

\* A code in UTF-8.  A table's entry is an unsigned short, so the branches for
\* more than three bytes are never taken.
Utf8Of(u) ==
  IF u <= 127 THEN <<u>>
  ELSE IF u <= 2047 THEN <<192 + ((u \div 64) % 32), 128 + (u % 64)>>
  ELSE <<224 + ((u \div 4096) % 16), 128 + ((u \div 64) % 64), 128 + (u % 64)>>

ToUtf8Call(cs) ==
  /\ pc = "idle" /\ pc' = "toUtf8"
  /\ chars' = cs /\ gb' = Flatten(cs)
  /\ i' = 0 /\ j' = 0 /\ temp' = <<>>
  /\ UNCHANGED <<round, utf8, byteCount>>

Ascii ==
  /\ pc = "toUtf8" /\ i < Len(gb) /\ Byte(gb, i) < 128
  /\ temp' = Written(j, <<Byte(gb, i)>>)
  /\ i' = i + 1 /\ j' = j + 1
  /\ UNCHANGED <<pc, chars, round, utf8, gb, byteCount>>

TwoBytes ==
  /\ pc = "toUtf8" /\ i < Len(gb) /\ Byte(gb, i) >= 128
  /\ LET bytes == Utf8Of(UnicodeOf(Byte(gb, i) * 256 + Byte(gb, i + 1)))
     IN temp' = Written(j, bytes) /\ j' = j + Len(bytes)
  /\ i' = i + 2
  /\ UNCHANGED <<pc, chars, round, utf8, gb, byteCount>>

-----------------------------------------------------------------------------
ToGbCall(cs, text) ==
  /\ pc' = "toGb"
  /\ chars' = cs /\ utf8' = text
  /\ i' = 0 /\ j' = 0 /\ byteCount' = 0 /\ temp' = <<>>
  /\ UNCHANGED gb

\* What UTF-8 of three bytes stands for; each half is cut to a byte.
Unicode3(x) ==
  256 * ((Byte(utf8, x) % 16) * 16 + ((Byte(utf8, x + 1) \div 4) % 16))
  + (Byte(utf8, x + 1) % 4) * 64 + (Byte(utf8, x + 2) % 64)

\* The bytes written for three: the code, the larger half first; for a
\* character without one its Unicode stays, the smaller half first.
Gb3(u) == IF GbOf(u) # 0 THEN <<GbOf(u) \div 256, GbOf(u) % 256>>
                      ELSE <<u % 256, u \div 256>>

\* Mutant of Count: the count of a character of four to six bytes is left as it was.
CountOfThree(num) == CASE num = 0 -> 1 [] num \in 2 .. 3 -> num [] OTHER -> byteCount

\* byteCount after the switch: stray bytes leave that of the character before.
Count(num) == CASE num = 0 -> 1 [] num \in 2 .. 6 -> num [] OTHER -> byteCount

Character ==
  /\ pc = "toGb" /\ i < Len(utf8)
  /\ LET num == ByteNum(Byte(utf8, i)) IN
       /\ temp' = CASE num = 0 -> Written(j, <<Byte(utf8, i)>>)
                    [] num = 2 -> Written(j, <<Byte(utf8, i), Byte(utf8, i + 1)>>)
                    [] num = 3 -> Written(j, Gb3(Unicode3(i)))
                    [] OTHER -> temp
       /\ byteCount' = Count(num)
  /\ i' = i + byteCount'
  /\ j' = j + (IF byteCount' = 1 THEN 1 ELSE 2)
  /\ UNCHANGED <<pc, chars, round, utf8, gb>>

-----------------------------------------------------------------------------
\* The loops' ends.  What was converted to UTF-8 may be converted back.
Done ==
  /\ \/ pc = "toUtf8" /\ i >= Len(gb)
     \/ pc = "toGb" /\ i >= Len(utf8)
  /\ pc' = "done"
  /\ UNCHANGED <<chars, round, utf8, gb, i, j, byteCount, temp>>

Back ==
  /\ pc = "done" /\ gb # <<>> /\ ~round
  /\ round' = TRUE
  /\ ToGbCall(chars, temp)

\* A stray first byte: byteCount is still 0, and i stays where it is while j runs
\* on; nothing is written.
Stuck == pc = "toGb" /\ i < Len(utf8) /\ Count(ByteNum(Byte(utf8, i))) = 0

Convert == Ascii \/ TwoBytes \/ (~Stuck /\ Character) \/ Done

Next ==
  \/ Convert \/ Back
  \/ \E cs \in GbTexts : ToUtf8Call(cs)
  \/ \E cs \in Utf8Texts : pc = "idle" /\ ToGbCall(cs, Flatten(cs)) /\ UNCHANGED round

Spec == Init /\ [][Next]_vars /\ WF_vars(Convert)

-----------------------------------------------------------------------------
\* Characters of UTF-8 that are whole.
Whole(c) == /\ Len(c) = IF c[1] < 128 THEN 1 ELSE ByteNum(c[1])
            /\ ByteNum(c[1]) \in {0, 2, 3, 4, 5, 6}
            /\ \A x \in 2 .. Len(c) : ByteNum(c[x]) = 1

\* The Unicode of one of two or three bytes, and a character's code, if it has one.
Unicode(c) == IF Len(c) = 2 THEN (c[1] % 32) * 64 + (c[2] % 64)
                            ELSE (c[1] % 16) * 4096 + (c[2] % 64) * 64 + (c[3] % 64)
Coded(c) == Len(c) = 1 \/ (Len(c) \in {2, 3} /\ \E e \in Codes : e[1] = Unicode(c))
Code(c) == IF Len(c) = 1 THEN c ELSE <<GbOf(Unicode(c)) \div 256, GbOf(Unicode(c)) % 256>>

Padded(s, n) == [x \in 1 .. n |-> Byte(s, x - 1)]

\* Where the characters end in what is written: two bytes for each that has
\* more than one.
Ends == LET f[n \in 0 .. Len(chars)] == IF n = 0 THEN 0 ELSE f[n - 1] + (IF Len(chars[n]) = 1 THEN 1 ELSE 2)
        IN f

(***************************************************************************)
(* encoded.c:90: whatever whole characters of one to six bytes follow one  *)
(* another, each is read and written by itself: none is read from the      *)
(* middle of another and none is written over another.  So what is         *)
(* converted at all, ASCII and the characters of three bytes that have a   *)
(* code, is right whatever stands beside it.                               *)
(***************************************************************************)
EachAlone ==
  (pc = "done" /\ gb = <<>> /\ \A x \in DOMAIN chars : Whole(chars[x])) =>
    /\ j = Ends[Len(chars)]
    /\ \A x \in DOMAIN chars :
         Coded(chars[x]) /\ Len(chars[x]) # 2 =>
           SubSeq(Padded(temp, j), Ends[x - 1] + 1, Ends[x]) = Code(chars[x])

(***************************************************************************)
(* encoded.c:89, README.txt:16: a text is converted to GB2312 by table.    *)
(* (Characters of two bytes are copied, though the tables have the Greek   *)
(* and Cyrillic letters.)                                                  *)
(***************************************************************************)
AllConverted ==
  (pc = "done" /\ gb = <<>> /\ \A x \in DOMAIN chars : Whole(chars[x]) /\ Coded(chars[x])) =>
    Padded(temp, j) = Flatten([x \in DOMAIN chars |-> Code(chars[x])])

\* A character of a GB2312 text that is ASCII, or in the table, alone with its
\* Unicode, and written with three bytes in UTF-8.
Known(c) == c[1] < 128 \/ /\ Len(c) = 2 /\ UnicodeOf(c[1] * 256 + c[2]) > 2047
                          /\ \A e, f \in Codes : (e[1] = f[1] /\ e[2] = c[1] * 256 + c[2]) => e = f

(***************************************************************************)
(* encoded.c:90, 169: converted there and back, a text is what it was, if  *)
(* its characters are in the table, none shares its Unicode with another   *)
(* (as A1AC and A1CE do), and none is written with two bytes in UTF-8, as  *)
(* the Greek and Cyrillic letters of GB2312 are.                           *)
(***************************************************************************)
RoundTrip ==
  (pc = "done" /\ round /\ \A x \in DOMAIN chars : Known(chars[x])) => Padded(temp, j) = gb

(***************************************************************************)
(* encoded.c:102, 176: a conversion ends, unless its text begins with a    *)
(* stray byte; one that comes later is passed over with the count of the   *)
(* character before it.                                                    *)
(***************************************************************************)
BeginsStray == utf8 # <<>> /\ ByteNum(utf8[1]) \in {1, 7, 8}
ConversionEnds == pc \in {"toUtf8", "toGb"} ~> (pc = "done" \/ BeginsStray)

=============================================================================
