-------------------------------- MODULE Acsm2 --------------------------------
(* algorithms/search_str/acsm2/acsmx2.c: the second Aho-Corasick machine.      *)
(* Its user selects a machine and a row format, adds patterns, compiles, and   *)
(* searches a stream chunk by chunk with the state of one call carried to the  *)
(* next.  The keyword trie grows pattern by pattern; failure states, match     *)
(* lists and the transitions of the DFA are built breadth first, one state of  *)
(* the queue per step; the rows are packed at the end.                         *)
(* Left out: memory statistics, printing, and the rule trees of Snort.         *)
EXTENDS AcsmRows

CONSTANTS Up,           \* xlatcase: toupper of an input
          Texts,        \* the texts a user adds as patterns
          MaxPatterns,  \* bound on the patterns added
          Modes,        \* what a user may select: acsmFSA, acsmFormat,
                        \* acsmSparseMaxRowNodes, acsmSparseMaxZcnt and
                        \* compress_states
          AC_MAX_INQ,   \* the length of the match queue
          MaxText,      \* bound on the characters of a stream
          MaxCalls      \* bound on the chunks

\* With compressed states the packed formats fill and flag their rows of words
\* byte by byte and search what is left: only full rows are compressed here.
ASSUME Acsm2Assumption ==
  \A mode \in Modes : mode[5] => mode[2] \in {ACF_FULL, ACF_FULLQ}

FSA_TRIE == 0
FSA_NFA == 1
FSA_DFA == 2

VARIABLES
  fsa, format, maxRowNodes, maxZcnt,  \* what acsmSelectFSA2, ... have set
  compress,     \* compress_states
  patterns,     \* acsmPatterns, the last one added first
  pc,           \* what the machine is doing
  todo,         \* the patterns AddPatternStates has still to add
  numStates,    \* acsmNumStates
  trans,        \* acsmTransTable: the next state of a key, or FAIL for no node
  fail,         \* acsmFailState
  matchList,    \* acsmMatchList
  queue,        \* the QUEUE of a breadth-first pass
  nextState,    \* acsmNextState: a row of words per state
  str,          \* history: the word each state of the trie stands for
  kind,         \* the search function at work, "none" before the first
  text,         \* the characters of this chunk it has read, as they were given
  state,        \* its state
  pmq,          \* acsm->q, the match queue: <<state, place in its match list>>
  reports,      \* the calls of Match it has made
  cur,          \* *current_state
  before,       \* history: the stream cur stood for when the call began
  calls,        \* how many chunks have been searched
  stopped       \* Match asked the last call to stop

setup == <<fsa, format, maxRowNodes, maxZcnt, compress, patterns>>
build == <<todo, numStates, trans, fail, matchList, queue, nextState, str>>
search == <<kind, text, state, pmq, reports, cur, before, calls, stopped>>
vars == <<setup, pc, build, search>>

UpWord(w) == [i \in DOMAIN w |-> Up[w[i]]]

-------------------------------------------------------------------------------
(* Selecting and adding. *)

\* acsmNew2: a DFA of full rows, no pattern.
Init ==
  /\ fsa = FSA_DFA /\ format = ACF_FULL
  /\ maxRowNodes = 256 /\ maxZcnt = 10 /\ compress = FALSE
  /\ patterns = <<>>
  /\ pc = "setup"
  /\ todo = <<>> /\ numStates = 0 /\ trans = <<>> /\ fail = <<>>
  /\ matchList = <<>> /\ queue = <<>> /\ nextState = <<>> /\ str = <<>>
  /\ kind = "none" /\ text = <<>> /\ state = 0 /\ pmq = <<>> /\ reports = <<>>
  /\ cur = 0 /\ before = <<>> /\ calls = 0 /\ stopped = FALSE

\* acsmSelectFSA2, acsmSelectFormat2, acsmSetMaxSparseElements2,
\* acsmSetMaxSparseBandZeros2 and acsmCompressStates, called together before
\* anything is added.
Select(mode) ==
  /\ pc = "setup" /\ patterns = <<>>
  /\ fsa' = mode[1]
  /\ format' = mode[2]
  /\ maxRowNodes' = mode[3]
  /\ maxZcnt' = mode[4]
  /\ compress' = mode[5]
  /\ UNCHANGED <<patterns, pc, build, search>>

AddPattern(t, nocase) ==
  /\ pc = "setup" /\ Len(patterns) < MaxPatterns
  /\ patterns' = <<[patrn |-> UpWord(t), casepatrn |-> t, nocase |-> nocase,
                    id |-> Len(patterns) + 1]>> \o patterns
  /\ UNCHANGED <<fsa, format, maxRowNodes, maxZcnt, compress, pc, build, search>>

-------------------------------------------------------------------------------
(* The keyword trie. *)

MaxStates ==
  FoldLeft(LAMBDA sum, p : sum + Len(p.patrn), 0, patterns) + 1

\* _acsmCompile2 up to the loop over the patterns.
Compile ==
  /\ pc = "setup" /\ patterns # <<>>
  /\ pc' = "trie"
  /\ todo' = patterns
  /\ numStates' = 0
  /\ trans' = [s \in 0..(MaxStates - 1) |-> [i \in Inputs |-> FAIL]]
  /\ matchList' = [s \in 0..(MaxStates - 1) |-> <<>>]
  /\ str' = [s \in {0} |-> <<>>]
  /\ UNCHANGED <<setup, fail, queue, nextState, search>>

\* List_GetNextState: without a node, state 0 loops and the others fail.
List_GetNextState(s, i) ==
  IF trans[s][i] = FAIL /\ s = 0 THEN 0 ELSE trans[s][i]

\* List_GetNextState2: without a node, state 0.
List_GetNextState2(s, i) == IF trans[s][i] = FAIL THEN 0 ELSE trans[s][i]

\* One byte of AddPatternStates: follow the node, or add a state for it.
AddByte(t, i) ==
  IF t.trans[t.at][i] # FAIL
  THEN [t EXCEPT !.at = t.trans[t.at][i]]
  ELSE [at    |-> t.num + 1,
        num   |-> t.num + 1,
        trans |-> [t.trans EXCEPT ![t.at][i] = t.num + 1],
        str   |-> [s \in 0..(t.num + 1) |->
                     IF s <= t.num THEN t.str[s] ELSE Append(t.str[t.at], i)]]

AddPatternStates ==
  /\ pc = "trie" /\ todo # <<>>
  /\ LET p == todo[1]
         t == FoldLeft(AddByte,
                [at |-> 0, num |-> numStates, trans |-> trans, str |-> str],
                p.patrn)
     IN  /\ numStates' = t.num
         /\ trans' = t.trans
         /\ str' = t.str
         /\ matchList' = [matchList EXCEPT ![t.at] = <<p>> \o @]
  /\ todo' = Tail(todo)
  /\ UNCHANGED <<setup, pc, fail, queue, nextState, search>>

\* The states a pass starts from, in the order of their inputs.
Depth1 == LET S == { i \in Inputs : List_GetNextState2(0, i) # 0 }
          IN  [j \in 1..Cardinality(S) |-> List_GetNextState2(0, Ascending(S)[j])]

\* The 0'th state is counted, then Build_NFA starts unless a bare trie is wanted.
TrieDone ==
  /\ pc = "trie" /\ todo = <<>>
  /\ numStates' = numStates + 1
  /\ fail' = [s \in 0..numStates |-> 0]
  /\ IF fsa = FSA_TRIE
     THEN pc' = "rows" /\ UNCHANGED queue
     ELSE pc' = "nfa" /\ queue' = Depth1
  /\ UNCHANGED <<setup, todo, trans, matchList, nextState, str, search>>

-------------------------------------------------------------------------------
(* The two breadth-first passes. *)

\* Mutant of NextOnFailure: one step along the failure chain, then the root.
OneFailure(fs, i) ==
  IF List_GetNextState(fs, i) # FAIL THEN List_GetNextState(fs, i) ELSE 0

\* Where the failure chain of fs finds a transition on i.
NextOnFailure(fs, i) ==
  LET next[s \in 0..(numStates - 1)] ==
        IF List_GetNextState(s, i) # FAIL THEN List_GetNextState(s, i)
        ELSE next[fail[s]]
  IN  next[fs]

\* The match list a state gets from the list of its failure state: each entry
\* is copied to the front.
MergeMatchList(own, failing) == Reverse(failing) \o own

\* One state r of Build_NFA.  Its children fail to states nearer the root,
\* whose lists are complete, so the inputs may be taken all at once.
Build_NFA ==
  /\ pc = "nfa" /\ queue # <<>>
  /\ LET r        == queue[1]
         inputs   == { i \in Inputs : List_GetNextState(r, i) # FAIL }
         child(j) == List_GetNextState(r, Ascending(inputs)[j])
         on       == [s \in { List_GetNextState(r, i) : i \in inputs } |->
                        CHOOSE i \in inputs : List_GetNextState(r, i) = s]
         next(s)  == NextOnFailure(fail[r], on[s])
     IN  /\ queue' = Tail(queue) \o [j \in 1..Cardinality(inputs) |-> child(j)]
         /\ fail' = [s \in DOMAIN fail |->
                       IF s \in DOMAIN on THEN next(s) ELSE fail[s]]
         /\ matchList' = [s \in DOMAIN matchList |->
                            IF s \in DOMAIN on
                            THEN MergeMatchList(matchList[s], matchList[next(s)])
                            ELSE matchList[s]]
  /\ UNCHANGED <<setup, pc, todo, numStates, trans, nextState, str, search>>

NfaDone ==
  /\ pc = "nfa" /\ queue = <<>>
  /\ IF fsa = FSA_DFA
     THEN pc' = "dfa" /\ queue' = Depth1
     ELSE pc' = "rows" /\ UNCHANGED queue
  /\ UNCHANGED <<setup, todo, numStates, trans, fail, matchList, nextState, str,
                 search>>

\* One state r of Convert_NFA_To_DFA: its children join the queue, and the
\* transitions it lacks are those of its failure state.
Convert_NFA_To_DFA ==
  /\ pc = "dfa" /\ queue # <<>>
  /\ LET r         == queue[1]
         own       == { i \in Inputs : List_GetNextState(r, i) \notin {0, FAIL} }
         failed(i) == List_GetNextState(fail[r], i)
     IN  /\ queue' = Tail(queue) \o [j \in 1..Cardinality(own) |->
                                       List_GetNextState(r, Ascending(own)[j])]
         /\ trans' = [trans EXCEPT ![r] = [i \in Inputs |->
                        IF i \notin own /\ failed(i) \notin {0, FAIL}
                        THEN failed(i) ELSE @[i]]]
  /\ UNCHANGED <<setup, pc, todo, numStates, fail, matchList, nextState, str,
                 search>>

\* Mutant of DfaDone: the pass ends when one state is left, not none.
DfaDoneEarly ==
  /\ pc = "dfa" /\ Len(queue) = 1
  /\ pc' = "rows"
  /\ UNCHANGED <<setup, build, search>>

DfaDone ==
  /\ pc = "dfa" /\ queue = <<>>
  /\ pc' = "rows"
  /\ UNCHANGED <<setup, build, search>>

-------------------------------------------------------------------------------
(* The rows. *)

\* List_ConvToFull: a missing node is a 0.
List_ConvToFull(s) == [i \in Inputs |-> List_GetNextState2(s, i)]

Row(s) ==
  LET full == List_ConvToFull(s)
  IN  CASE format = ACF_SPARSE            -> SparseRow(full, s, maxRowNodes)
        [] format = ACF_BANDED            -> BandedRow(full)
        [] format = ACF_SPARSEBANDS       -> SparseBandsRow(full, maxZcnt)
        [] format \in {ACF_FULL, ACF_FULLQ} ->
               Narrow(FullRow(full), MaxWord(compress, numStates))

\* acsmUpdateMatchStates: the flag word of a row whose state has matches.
Flagged(s) == [Row(s) EXCEPT ![2] = IF matchList[s] # <<>> THEN 1 ELSE 0]

\* The conversion, the flags, and the lists and tables it frees.
Convert ==
  /\ pc = "rows"
  /\ nextState' = [s \in 0..(numStates - 1) |-> Flagged(s)]
  /\ fail' = IF format \in {ACF_FULL, ACF_FULLQ} THEN <<>> ELSE fail
  /\ trans' = <<>>
  /\ pc' = "ready"
  /\ UNCHANGED <<setup, todo, numStates, matchList, queue, str, search>>

-------------------------------------------------------------------------------
(* Searching. *)

\* The function acsmSearch2 (all = FALSE) or acsmSearchAll2 dispatches to.
SearchKind(all) ==
  CASE fsa = FSA_TRIE -> "trie"
    [] fsa = FSA_NFA  -> "nfa"
    [] fsa = FSA_DFA  ->
         CASE format = ACF_FULL   -> IF all THEN "full_all" ELSE "full"
           [] format = ACF_FULLQ  -> IF all THEN "full_q_all" ELSE "full_q"
           [] format = ACF_BANDED -> "banded"
           [] format \in {ACF_SPARSE, ACF_SPARSEBANDS} -> "sparse"

\* These look at the state's matches after the transition, the others before.
After(k) == k \in {"sparse", "nfa"}

\* These put the matches on the queue.
Queued(k) == k \in {"full_q", "full_q_all"}

\* These leave *current_state alone unless Match stops them.
KeepsState(k) == k \in {"banded", "nfa", "trie"}

\* The stream that *current_state stands for after a call.
Covered == IF KeepsState(kind) /\ ~stopped THEN before
           ELSE before \o UpWord(text)

\* A search begins: on the rest of a stream, or on a new one, for which the
\* caller resets the state.
Begin(all, fresh) ==
  /\ pc = "ready" /\ calls < MaxCalls
  /\ pc' = "search"
  /\ kind' = SearchKind(all)
  /\ cur' = IF fresh THEN 0 ELSE cur
  /\ state' = cur'
  /\ before' = IF fresh THEN <<>> ELSE Covered
  /\ text' = <<>> /\ pmq' = <<>> /\ reports' = <<>>
  /\ calls' = calls + 1 /\ stopped' = FALSE
  /\ UNCHANGED <<setup, build>>

\* A match list entry is reported, or not, by its case: the bytes compared are
\* the chunk's.  Those before the chunk are outside of the buffer (either).
CaseFits(e, read) ==
  IF e.nocase THEN {TRUE}
  ELSE IF Len(e.patrn) > Len(read) THEN BOOLEAN
  ELSE { e.casepatrn = SubSeq(read, Len(read) - Len(e.patrn) + 1, Len(read)) }

\* The places in the match list of s that the search takes up there.
Entries(s, read) ==
  LET places == DOMAIN matchList[s]
  IN  IF kind \in {"full_all", "full_q_all"}
      THEN { { k \in places : fits[k] } : fits \in
             { f \in [places -> BOOLEAN] :
                 \A k \in places : f[k] \in CaseFits(matchList[s][k], read) } }
      ELSE { places \cap {1} }

\* What Match is told: the pattern and where it starts; 0 from the queue.
Report(s, k, index) == [id |-> matchList[s][k].id, index |-> index]

\* Mutant of Index: the end of the match, not its start, in the sparse search.
IndexOfEnd(s, k, read) ==
  Len(read) - IF kind = "sparse" THEN 0 ELSE Len(matchList[s][k].patrn)

\* Where the match starts.  acsmSearchSparseNFA has not counted the last
\* character of read yet.
Index(s, k, read) ==
  Len(read) - Len(matchList[s][k].patrn) - (IF kind = "nfa" THEN 1 ELSE 0)

Direct(s, ks, read) ==
  [j \in 1..Cardinality(ks) |->
     LET k == Ascending(ks)[j] IN Report(s, k, Index(s, k, read))]

\* Match may ask to stop at any of the reports rs.
Delivered(o, rs) ==
  { [o EXCEPT !.reports = @ \o rs, !.pmq = <<>>] }
    \cup { [o EXCEPT !.reports = @ \o SubSeq(rs, 1, j), !.pmq = <<>>,
                     !.stop = TRUE] : j \in 1..Len(rs) }

\* _process_queue empties the queue, whether Match stops it or not.
ProcessQueue(o) ==
  Delivered(o, [j \in DOMAIN o.pmq |-> Report(o.pmq[j][1], o.pmq[j][2], 0)])

\* Mutant of AddQueue: a full queue is not processed.
AddQueueUnbounded(o, e) ==
  IF o.stop \/ e \in Range(o.pmq) THEN {o} ELSE { [o EXCEPT !.pmq = Append(@, e)] }

\* _add_queue of an entry, and _process_queue when that fills the queue.
AddQueue(o, e) ==
  IF o.stop \/ e \in Range(o.pmq) THEN {o}
  ELSE LET added == [o EXCEPT !.pmq = Append(@, e)]
       IN  IF Len(added.pmq) = AC_MAX_INQ THEN ProcessQueue(added) ELSE {added}

AddAll(o, s, ks) ==
  FoldLeft(LAMBDA os, k : UNION { AddQueue(x, <<s, k>>) : x \in os },
           {o}, Ascending(ks))

\* The outcomes of looking at the matches of s after read characters.
Look(s, read) ==
  LET o == [pmq |-> pmq, reports |-> reports, stop |-> FALSE]
  IN  UNION { IF Queued(kind) THEN AddAll(o, s, ks)
              ELSE Delivered(o, Direct(s, ks, read)) : ks \in Entries(s, read) }

\* The same in the loop over the characters, where the flag word of the row
\* comes first (the NFA search does not read it).
LookInLoop(s, read) ==
  IF kind # "nfa" /\ Ps(nextState[s], 1) = 0
  THEN {[pmq |-> pmq, reports |-> reports, stop |-> FALSE]}
  ELSE Look(s, read)

\* The failure loop of acsmSearchSparseNFA; FAIL when it leaves the tables.
NfaNext(s, i) ==
  LET next[x \in Nat] ==
        IF x \notin DOMAIN nextState THEN FAIL
        ELSE LET n == SparseGetNextStateNFA(nextState[x], x, i)
             IN  IF n # FAIL THEN n
                 ELSE IF x \in DOMAIN fail THEN next[fail[x]] ELSE FAIL
  IN  next[s]

Transition(k, s, i) ==
  CASE k = "nfa"    -> NfaNext(s, i)
    [] k = "banded" -> BandedNext(nextState[s], i)
    [] k = "sparse" -> SparseGetNextStateDFA(nextState[s], i)
    [] OTHER        -> Ps(nextState[s], 2 + i)

\* Mutant of Return: *current_state is not written.
ReturnForgets(s) ==
  /\ pc' = "ready"
  /\ UNCHANGED cur

Return(s) ==
  /\ pc' = "ready"
  /\ cur' = s

Take(o) == pmq' = o.pmq /\ reports' = o.reports /\ stopped' = o.stop

\* One character, for the searches that look before the transition.
StepBefore ==
  /\ pc = "search" /\ ~After(kind) /\ kind # "trie"
  /\ \E o \in LookInLoop(state, text) :
       /\ Take(o)
       /\ IF o.stop
          THEN Return(state) /\ UNCHANGED <<text, state>>
          ELSE /\ Len(before \o text) < MaxText
               /\ \E c \in Inputs :
                    /\ text' = Append(text, c)
                    /\ state' = Transition(kind, state, Up[c])
               /\ UNCHANGED <<pc, cur>>
  /\ UNCHANGED <<setup, build, kind, before, calls>>

\* One character, for the searches that look after the transition.
StepAfter ==
  /\ pc = "search" /\ After(kind) /\ Len(before \o text) < MaxText
  /\ \E c \in Inputs :
       LET next == Transition(kind, state, Up[c])
       IN  /\ text' = Append(text, c)
           /\ IF next \notin DOMAIN nextState
              THEN pc' = "crashed" /\ UNCHANGED <<state, pmq, reports, cur, stopped>>
              ELSE \E o \in LookInLoop(next, text') :
                     /\ Take(o)
                     /\ state' = next
                     /\ IF o.stop THEN Return(next) ELSE UNCHANGED <<pc, cur>>
  /\ UNCHANGED <<setup, build, kind, before, calls>>

\* Mutant of Finish: the matches of the last state are not looked at.
FinishWithoutLook ==
  /\ pc = "search"
  /\ Return(IF KeepsState(kind) THEN cur ELSE state)
  /\ UNCHANGED <<setup, build, kind, text, state, before, calls,
                 pmq, reports, stopped>>

\* The end of the chunk: the last state's matches, where the loop has not
\* looked at them, and the queue.
Finish ==
  /\ pc = "search"
  /\ IF After(kind) \/ kind = "trie"
     THEN /\ Return(IF KeepsState(kind) THEN cur ELSE state)
          /\ UNCHANGED <<pmq, reports, stopped>>
     ELSE \E o \in Look(state, text) :
            \E p \in IF Queued(kind) /\ ~o.stop THEN ProcessQueue(o) ELSE {o} :
              /\ Take(p)
              /\ Return(IF KeepsState(kind) /\ ~p.stop THEN cur ELSE state)
  /\ UNCHANGED <<setup, build, kind, text, state, before, calls>>

\* acsmFree2.
Free ==
  /\ pc = "ready"
  /\ pc' = "freed"
  /\ patterns' = <<>> /\ fail' = <<>> /\ matchList' = <<>> /\ nextState' = <<>>
  /\ UNCHANGED <<fsa, format, maxRowNodes, maxZcnt, compress, todo, numStates,
                 trans, queue, str, search>>

-------------------------------------------------------------------------------
Building == \/ AddPatternStates \/ TrieDone \/ Build_NFA \/ NfaDone
            \/ Convert_NFA_To_DFA \/ DfaDone \/ Convert

Next ==
  \/ \E mode \in Modes : Select(mode)
  \/ \E t \in Texts, nocase \in BOOLEAN : AddPattern(t, nocase)
  \/ Compile
  \/ Building
  \/ \E all, fresh \in BOOLEAN : Begin(all, fresh)
  \/ StepBefore \/ StepAfter \/ Finish
  \/ Free

\* A compilation goes on, and a chunk ends.
Spec == Init /\ [][Next]_vars /\ WF_vars(Building) /\ WF_vars(Finish)

-------------------------------------------------------------------------------
Words == WordsOf({ p.patrn : p \in Range(patterns) })
Ending(s) == { p \in Range(patterns) : IsSuffix(p.patrn, str[s]) }
Stream == before \o UpWord(text)
EndsHere(p, i) == EndsAt(p.patrn, Stream, Len(before) + i)
PatternOf(r) == CHOOSE p \in Range(patterns) : p.id = r.id

\* Where in the chunk a reported match ends.
EndOf(r) == r.index + Len(PatternOf(r).patrn)

\* The match queue is never full between two characters, and holds no entry
\* twice: _add_queue and _process_queue together.
QueueKept ==
  /\ Len(pmq) < AC_MAX_INQ
  /\ \A i, j \in DOMAIN pmq : pmq[i] = pmq[j] => i = j

\* The trie has one state per prefix of a pattern, and Build_NFA gives each the
\* longest proper suffix of its word that is one as its failure state.
FailIsLongestSuffix ==
  pc \in {"dfa", "rows"} /\ fsa # FSA_TRIE =>
    /\ Range(str) = Words
    /\ numStates = Cardinality(Words)
    /\ \A s \in 1..(numStates - 1) :
         str[fail[s]] = LongestProperSuffixIn(str[s], Words)

\* The match list of a state holds exactly the patterns its word ends in, each
\* once, however many failure states they were merged from.
OutputsComplete ==
  pc = "ready" /\ calls = 0 /\ fsa # FSA_TRIE =>
    \A s \in 0..(numStates - 1) :
      /\ Range(matchList[s]) = Ending(s)
      /\ Len(matchList[s]) = Cardinality(Ending(s))

\* However a row was packed, the search function that reads it gets the next
\* state of the automaton, on every input, and its flag word says whether the
\* state has matches.
RowsAgree ==
  pc = "ready" /\ calls = 0 /\ fsa # FSA_TRIE =>
    \A s \in 0..(numStates - 1) :
      /\ Ps(nextState[s], 1) = IF matchList[s] = <<>> THEN 0 ELSE 1
      /\ \A all \in BOOLEAN, i \in { Up[c] : c \in Inputs } :
           str[Transition(SearchKind(all), s, i)]
             = LongestSuffixIn(Append(str[s], i), Words)

\* Every match reported is one: the pattern ends in the stream where the index
\* says (one further in the NFA search; somewhere in the chunk for the queue,
\* which gives no index), and no call reports it twice but through a queue.
SoundReports ==
  pc \in {"search", "ready"} =>
    /\ \A r \in Range(reports) :
         IF Queued(kind)
         THEN \E i \in 0..Len(text) : EndsHere(PatternOf(r), i)
         ELSE EndsHere(PatternOf(r), EndOf(r) + (IF kind = "nfa" THEN 1 ELSE 0))
    /\ Queued(kind) \/ \A i, j \in DOMAIN reports : reports[i] = reports[j] => i = j

\* A call Match did not stop has reported, for every place in the chunk where
\* patterns end: with acsmSearchAll2 on full rows every one of them whose case
\* fits and which lies within the chunk; otherwise one of them.
Told(p, i) == \E r \in Range(reports) :
  /\ r.id = p.id
  /\ Queued(kind) \/ EndOf(r) + (IF kind = "nfa" THEN 1 ELSE 0) = i
CompleteReports ==
  pc = "ready" /\ ~stopped /\ kind \notin {"none", "trie"} =>
    \A i \in 1..Len(text) :
      LET here == { p \in Range(patterns) : EndsHere(p, i) }
      IN  IF kind \in {"full_all", "full_q_all"}
          THEN \A p \in here :
                 /\ Len(p.patrn) <= i
                 /\ \/ p.nocase
                    \/ p.casepatrn = SubSeq(text, i - Len(p.patrn) + 1, i)
                 => Told(p, i)
          ELSE here = {} \/ \E p \in here : Told(p, i)

\* The state a call leaves to the next stands for the longest word that the
\* stream ends in: the one it read, or, for the banded and the NFA search that
\* ran to the end of the chunk, the one before it, as if the chunk had not been.
CarriedState ==
  pc = "ready" /\ fsa # FSA_TRIE => str[cur] = LongestSuffixIn(Covered, Words)

\* Whatever machine and format are selected, a search stays within the tables
\* and reports, where patterns end, one of them (acsmx2.c:89-91: "You can use an
\* NFA or DFA to match with ... any of the 4 storage modes above").  The code
\* does not do this with an NFA and banded rows.
AnyModeWorks == pc # "crashed" /\ CompleteReports

\* A compilation and a chunk come to their end.
CallsReturn == pc \in {"trie", "nfa", "dfa", "rows", "search"} ~> pc = "ready"
==============================================================================
