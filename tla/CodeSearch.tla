----------------------------- MODULE CodeSearch -----------------------------
(***************************************************************************)
(* SearchCodeTable and SearchCodeTable2 of encoded.c: the binary search    *)
(* for a code in a table sorted by it, one iteration per step.  The two    *)
(* differ in the table and in which of its columns is the key, so a table  *)
(* here is a function from 0 .. Size - 1 to records of a key and a value.  *)
(***************************************************************************)
EXTENDS Integers

CONSTANTS
  Size,           \* CODE_TABLE_SIZE
  CodeTables,     \* code_table, code_table2
  Keys            \* what they are searched for

Index == 0 .. Size - 1
Entries == [key : Nat, value : Nat \ {0}]

\* A key may be there twice, as U+2225 is in code_table.
SortedByKey(t) == \A x, y \in Index : x < y => t[x].key <= t[y].key

CodeSearchAssumption ==
  /\ Size \in Nat
  /\ CodeTables \subseteq [Index -> Entries] /\ \A t \in CodeTables : SortedByKey(t)
  /\ Keys \subseteq Nat
ASSUME CodeSearchAssumption

VARIABLES pc, table, key, first, end, result

vars == <<pc, table, key, first, end, result>>

Idle == [x \in Index |-> [key |-> 0, value |-> 1]]

TypeOK ==
  /\ pc \in {"idle", "search", "done"}
  /\ table \in [Index -> Entries] /\ key \in Nat
  /\ first \in 0 .. Size /\ end \in -1 .. Size - 1
  /\ result \in Nat

Init == pc = "idle" /\ table = Idle /\ key = 0 /\ first = 0 /\ end = -1 /\ result = 0

\* Mutant of LastIndex: the last entry is never looked at.
LastButOne == Size - 2

LastIndex == Size - 1

Call(t, k) ==
  /\ pc = "idle" /\ pc' = "search"
  /\ table' = t /\ key' = k
  /\ first' = 0 /\ end' = LastIndex
  /\ UNCHANGED result

-----------------------------------------------------------------------------
Mid == (first + end) \div 2

Hit ==
  /\ pc = "search" /\ first <= end /\ table[Mid].key = key
  /\ result' = table[Mid].value /\ pc' = "done"
  /\ UNCHANGED <<table, key, first, end>>

Left ==
  /\ pc = "search" /\ first <= end /\ table[Mid].key > key
  /\ end' = Mid - 1
  /\ UNCHANGED <<pc, table, key, first, result>>

\* Mutant of Right: the middle stays in the window.
RightFromMid ==
  /\ pc = "search" /\ first <= end /\ table[Mid].key < key
  /\ first' = Mid
  /\ UNCHANGED <<pc, table, key, end, result>>

Right ==
  /\ pc = "search" /\ first <= end /\ table[Mid].key < key
  /\ first' = Mid + 1
  /\ UNCHANGED <<pc, table, key, end, result>>

Miss ==
  /\ pc = "search" /\ first > end
  /\ result' = 0 /\ pc' = "done"
  /\ UNCHANGED <<table, key, first, end>>

Search == Hit \/ Left \/ Right \/ Miss

Next == Search \/ \E t \in CodeTables, k \in Keys : Call(t, k)

Spec == Init /\ [][Next]_vars /\ WF_vars(Search)

-----------------------------------------------------------------------------
\* The entries of the key searched for.
Places == {x \in Index : table[x].key = key}

(***************************************************************************)
(* encoded.c:35, 62: the value of an entry with the key if there is one,   *)
(* wherever it is, the first and the last of the table included; else 0.   *)
(* On the way the key is never outside the window that is left, and no     *)
(* index outside the table is read.                                        *)
(***************************************************************************)
Answers ==
  /\ pc = "search" => /\ Places \subseteq first .. end
                      /\ first <= end => Mid \in Index
  /\ pc = "done" => IF Places = {} THEN result = 0
                    ELSE \E x \in Places : result = table[x].value

(***************************************************************************)
(* encoded.c:41: each iteration leaves a smaller window, so the loop ends. *)
(***************************************************************************)
Shrinks == [][(pc = "search" /\ pc' = "search") => end' - first' < end - first]_vars

=============================================================================
