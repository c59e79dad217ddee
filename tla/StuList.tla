------------------------------- MODULE StuList -------------------------------
(***************************************************************************)
(* The student list of list_test/stuinfo.c: records malloc'ed and linked   *)
(* by insertstuinfo, found and deleted by name, and deleted all together,  *)
(* loop iteration by loop iteration.  del_all_stu frees inside             *)
(* list_for_each, which is not the _safe walk, and gets on by setting pos  *)
(* to the next entry before the loop advances pos once more.               *)
(***************************************************************************)
EXTENDS Naturals, Sequences, FiniteSetsExt, ListOps

CONSTANTS
  Records,       \* the addresses malloc may return
  Names,
  List,          \* the head
  NULL

Objects == Records \cup {List}

VARIABLES
  l,          \* next and prev of the head and of the records' list field
  name,
  heap,       \* the records malloc'ed and not freed
  pc,         \* the function that runs, or "idle"
  arg,        \* the name it is given
  pos,        \* its cursor, and after "find" its result
  before      \* Contents when it was called (for the properties)

vars == <<l, name, heap, pc, arg, pos, before>>

\* The entries a walk meets from here on, in order: positions are counted from
\* the head.
Contents ==
  LET N == Cardinality(Records)
      w[i \in 0 .. N + 1] == IF i = 0 THEN List ELSE l.next[w[i - 1]]
  IN  IF \E i \in 1 .. N + 1 : w[i] = List
      THEN [i \in 1 .. Min({i \in 1 .. N + 1 : w[i] = List}) - 1 |-> w[i]]
      ELSE <<>>

\* init_stuinfo has made the list empty.
Init ==
  /\ l = InitListHead([next |-> [x \in Objects |-> NULL], prev |-> [x \in Objects |-> NULL]], List)
  /\ name \in [Records -> {NULL}]
  /\ heap = {} /\ pc = "idle" /\ arg = NULL /\ pos = NULL /\ before = <<>>

\* malloc may return NULL, and then nothing is done.
Insert(r, nm) ==
  /\ pc = "idle" /\ r \notin heap
  /\ heap' = heap \cup {r}
  /\ name' = [name EXCEPT ![r] = nm]
  /\ l' = ListAddTail(l, r, List)
  /\ UNCHANGED <<pc, arg, pos, before>>

Call(f, nm) ==
  /\ pc = "idle"
  /\ pc' = f /\ arg' = nm /\ pos' = l.next[List] /\ before' = Contents
  /\ UNCHANGED <<l, name, heap>>

Return(result) == pc' = "idle" /\ arg' = NULL /\ pos' = result /\ before' = <<>>

\* Mutant of Step: the cursor is not advanced.
StepNowhere == UNCHANGED vars

Step ==
  /\ pos' = l.next[pos]
  /\ UNCHANGED <<l, name, heap, pc, arg, before>>

FindStep ==
  /\ pc = "find" /\ pos # List /\ name[pos] # arg
  /\ Step

FindReturn ==
  /\ pc = "find"
  /\ \/ pos = List /\ Return(NULL)
     \/ pos # List /\ name[pos] = arg /\ Return(pos)
  /\ UNCHANGED <<l, name, heap>>

DelStep ==
  /\ pc = "del" /\ pos # List /\ name[pos] # arg
  /\ Step

\* Mutant of DelReturn: the record is freed and stays linked.
DelReturnLinked ==
  /\ pc = "del"
  /\ \/ pos = List /\ UNCHANGED <<l, heap>>
     \/ /\ pos # List /\ name[pos] = arg
        /\ heap' = heap \ {pos}
        /\ UNCHANGED l
  /\ Return(NULL)
  /\ UNCHANGED name

DelReturn ==
  /\ pc = "del"
  /\ \/ pos = List /\ UNCHANGED <<l, heap>>
     \/ /\ pos # List /\ name[pos] = arg
        /\ l' = ListDel(l, pos)
        /\ heap' = heap \ {pos}
  /\ Return(NULL)
  /\ UNCHANGED name

\* Mutant of DelAllStep: pos stays at the record after the freed one.
DelAllEvery ==
  /\ pc = "delall" /\ pos # List
  /\ l' = ListDel(l, pos)
  /\ heap' = heap \ {pos}
  /\ pos' = l.next[pos]
  /\ UNCHANGED <<name, pc, arg, before>>

\* One iteration of del_all_stu: the record at pos is deleted, pos becomes the
\* one after it, and "pos = pos->next" of the loop goes one further.
DelAllStep ==
  /\ pc = "delall" /\ pos # List /\ ~ListEmptyCareful(l, List)
  /\ l' = ListDel(l, pos)
  /\ heap' = heap \ {pos}
  /\ pos' = l'.next[l.next[pos]]
  /\ UNCHANGED <<name, pc, arg, before>>

DelAllReturn ==
  /\ pc = "delall" /\ pos = List
  /\ Return(NULL)
  /\ UNCHANGED <<l, name, heap>>

\* The rest of a call.
Run == FindStep \/ FindReturn \/ DelStep \/ DelReturn \/ DelAllStep \/ DelAllReturn

Next ==
  \/ \E r \in Records, nm \in Names : Insert(r, nm)
  \/ \E nm \in Names : Call("find", nm) \/ Call("del", nm)
  \/ Call("delall", NULL)
  \/ Run

\* Once called, a function runs: one thread.
Spec == Init /\ [][Next]_vars /\ WF_vars(Run)

-----------------------------------------------------------------------------
(* Properties                                                              *)

\* Types.
TypeOK ==
  /\ heap \subseteq Records
  /\ name \in [Records -> Names \cup {NULL}]
  /\ pc \in {"idle", "find", "del", "delall"}
  /\ arg \in Names \cup {NULL} /\ pos \in Objects \cup {NULL}

\* The records linked from the head are those not freed, in consistent links:
\* nothing is leaked by being unlinked only, nothing freed stays linked, and a
\* cursor never stands on a freed record.
LinkedIsLive ==
  /\ {Contents[i] : i \in DOMAIN Contents} = heap
  /\ \A x \in heap \cup {List} : l.prev[l.next[x]] = x
  /\ pc # "idle" => pos \in heap \cup {List}

\* The records find_stuinfo_by_name and del_stuinfo are about.
Match(seq, nm) == {i \in DOMAIN seq : name[seq[i]] = nm}

\* find_stuinfo_by_name returns the first record of that name, or NULL when
\* there is none; del_stuinfo takes out exactly the first.
FirstMatch ==
  [][ /\ FindReturn => pos' = IF Match(Contents, arg) = {} THEN NULL
                              ELSE Contents[Min(Match(Contents, arg))]
      /\ DelReturn => heap \ heap' = IF Match(before, arg) = {} THEN {}
                                     ELSE {before[Min(Match(before, arg))]} ]_vars

\* What del_all_stu leaves of n records: it deletes every other one, goes past
\* the head and round again when their number is odd, and stops when it is
\* even, that is after half of the rest.
Stride[n \in Nat] == IF n % 2 = 1 THEN 2 * Stride[n \div 2] ELSE 2
Survivors(seq) == [i \in 1 .. Len(seq) \div Stride[Len(seq)] |-> seq[i * Stride[Len(seq)]]]

\* del_all_stu deletes all records only when their number is one less than a
\* power of two (as in list_test/main.c, where it is 3): it leaves just the
\* ones Survivors says, in order, and the list usable.
DelAllLeaves == [][DelAllReturn => Contents = Survivors(before)]_vars

\* Every call returns.
CallsReturn == pc # "idle" ~> pc = "idle"

=============================================================================
