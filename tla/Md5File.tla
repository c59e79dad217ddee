------------------------------ MODULE Md5File ------------------------------
(***************************************************************************)
(* CalcFileMD5 of md5.c: how a file is cut into blocks and the last ones   *)
(* are filled up.  The rounds of md5() on a block are a function of the    *)
(* block and the sum so far, so the model keeps the blocks it is given;    *)
(* the n-th byte of the file is the number n, and the bytes that are put   *)
(* behind the file are 0 and negative numbers.                             *)
(***************************************************************************)
EXTENDS Integers, Sequences

CONSTANTS
  Block,          \* 64, the bytes of x
  Lengths         \* of the files

VARIABLES pc, len, x, read, i, blocks

vars == <<pc, len, x, read, i, blocks>>

Mark128 == -1
Zeros == [n \in 1 .. Block |-> 0]

\* The two words of flen, as eight bytes: the length in bits.
Flen == [n \in 1 .. 8 |-> -1 - n]

Init == pc = "idle" /\ len = 0 /\ x = <<>> /\ read = 0 /\ i = 0 /\ blocks = <<>>

\* memset and fread: what is left of the file, up to a block of it, before zeros.
Fread(from) == [n \in 1 .. Block |-> IF from + n <= len' THEN from + n ELSE 0]

Open(n) ==
  /\ pc = "idle" /\ pc' = "blocks"
  /\ len' = n /\ x' = Fread(0) /\ read' = Block
  /\ i' = 0 /\ blocks' = <<>>

WholeBlock ==
  /\ pc = "blocks" /\ i < len \div Block
  /\ blocks' = blocks \o x
  /\ UNCHANGED <<pc, len>>
  /\ x' = Fread(read) /\ read' = read + Block
  /\ i' = i + 1

\* The byte 128 behind the last of the file.
Mark ==
  /\ pc = "blocks" /\ i >= len \div Block
  /\ x' = [x EXCEPT ![(len % Block) + 1] = Mark128]
  /\ pc' = "marked"
  /\ UNCHANGED <<len, read, i, blocks>>

\* Mutant of NoRoom: the mark in the first byte of the length is overlooked.
NoRoomButOne == len % Block > Block - 8

\* The length does not fit behind the mark.
NoRoom == len % Block > Block - 9

Overflow ==
  /\ pc = "marked" /\ NoRoom
  /\ blocks' = blocks \o x /\ x' = Zeros
  /\ pc' = "last"
  /\ UNCHANGED <<len, read, i>>

Last ==
  /\ pc = "last" \/ (pc = "marked" /\ ~NoRoom)
  /\ blocks' = blocks \o SubSeq(x, 1, Block - 8) \o Flen
  /\ pc' = "done"
  /\ UNCHANGED <<len, x, read, i>>

Calc == WholeBlock \/ Mark \/ Overflow \/ Last

Next == Calc \/ \E n \in Lengths : Open(n)

Spec == Init /\ [][Next]_vars /\ WF_vars(Calc)

-----------------------------------------------------------------------------
(***************************************************************************)
(* md5.c:136-151: for files that end anywhere in a block, md5() is given   *)
(* the file, one mark, the least number of zeros that makes the whole a    *)
(* number of blocks, and the length; nothing of an earlier block is left   *)
(* in a later one, and no byte is missing or twice there.                  *)
(***************************************************************************)
Least(S) == CHOOSE n \in S : \A m \in S : n <= m
Total == Least({n \in len + 9 .. len + 9 + Block : n % Block = 0})
BlocksPadded ==
  pc = "done" =>
    blocks = [n \in 1 .. Total |-> CASE n <= len -> n
                                     [] n = len + 1 -> Mark128
                                     [] n > Total - 8 -> Flen[n - (Total - 8)]
                                     [] OTHER -> 0]

=============================================================================
