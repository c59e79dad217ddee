------------------------------ MODULE TableSort ------------------------------
(***************************************************************************)
(* add8080.c and sort.c, which made the table of encoded.c that is sorted  *)
(* by Unicode: 0x8080 is added to each GB2312 code, and the bubble sort    *)
(* puts the entries in the order of their Unicode, one comparison per step.*)
(* Tables are indexed from 0.                                              *)
(***************************************************************************)
EXTENDS Integers, FiniteSets

CONSTANTS
  Num,            \* the number of entries
  RawTables       \* the original tables: entries as they are in the GB2312 charts

At == 0 .. Num - 1

VARIABLES pc, raw, code_table2, i, j

vars == <<pc, raw, code_table2, i, j>>

Init == pc = "idle" /\ raw = <<>> /\ code_table2 = <<>> /\ i = 0 /\ j = 0

\* add8080.c: an unsigned short of the chart's row and column becomes the code.
Add8080(t) == [x \in At |-> [unicode |-> t[x].unicode, gb2312 |-> t[x].gb2312 + 32896]]

Start(t) ==
  /\ pc = "idle" /\ pc' = "sort"
  /\ raw' = t /\ code_table2' = Add8080(t)
  /\ i' = 0 /\ j' = 1

\* Mutant of TooLarge: entries of one key change places.
TooLargeOrEqual == code_table2[j - 1].unicode >= code_table2[j].unicode

TooLarge == code_table2[j - 1].unicode > code_table2[j].unicode

Compare ==
  /\ pc = "sort" /\ i < Num /\ j < Num - i
  /\ code_table2' = IF TooLarge
                    THEN [code_table2 EXCEPT ![j - 1] = code_table2[j], ![j] = code_table2[j - 1]]
                    ELSE code_table2
  /\ j' = j + 1
  /\ UNCHANGED <<pc, raw, i>>

NextPass ==
  /\ pc = "sort" /\ i < Num /\ j >= Num - i
  /\ i' = i + 1 /\ j' = 1
  /\ UNCHANGED <<pc, raw, code_table2>>

Finish ==
  /\ pc = "sort" /\ i >= Num
  /\ pc' = "done"
  /\ UNCHANGED <<raw, code_table2, i, j>>

Sort == Compare \/ NextPass \/ Finish

Next == Sort \/ \E t \in RawTables : Start(t)

Spec == Init /\ [][Next]_vars /\ WF_vars(Sort)

-----------------------------------------------------------------------------
\* The place an entry has in the end: behind the smaller ones, and behind the
\* equal ones that were before it.
Rank(t, x) == Cardinality({y \in At : \/ t[y].unicode < t[x].unicode
                                      \/ t[y].unicode = t[x].unicode /\ y < x})

(***************************************************************************)
(* sort.c:22: after i passes the last i entries are those of the sorted    *)
(* table, and in the end all are.  No entry is lost or doubled, and the    *)
(* entries of one key keep their order, on which it depends which of them  *)
(* the binary search finds.                                                *)
(***************************************************************************)
Sorted ==
  pc # "idle" =>
    \A x \in At : LET place == Rank(raw, x) IN
      (place >= Num - i \/ pc = "done") => code_table2[place] = Add8080(raw)[x]

=============================================================================
