--------------------------------- MODULE Acsm ---------------------------------
(* algorithms/search_str/acsm/acsmx.c: the first Aho-Corasick machine.  It has *)
(* one table of full rows, builds failure states and DFA transitions in one    *)
(* breadth-first pass, and searches a whole text, case folded, until the first *)
(* state with a match list.  Left out: printing and the summary.               *)
EXTENDS AcsmRef

CONSTANTS AlphabetSize,   \* ALPHABET_SIZE
          FAIL,           \* ACSM_FAIL_STATE, no state
          Up,             \* xlatcase: toupper of a character
          Texts,          \* the texts a user adds as patterns
          MaxPatterns,    \* bound on the patterns added
          MaxText,        \* bound on the characters of a text
          MaxCalls        \* bound on the searches

VARIABLES
  patterns,    \* acsmPatterns, the last one added first
  pc,          \* what the machine is doing
  todo,        \* the patterns AddPatternStates has still to add
  numStates,   \* acsmNumStates: the last state, 0 being the root
  trans,       \* acsmStateTable[].NextState
  fail,        \* acsmStateTable[].FailState
  matchList,   \* acsmStateTable[].MatchList
  queue,       \* the QUEUE of Build_DFA
  str,         \* history: the word each state of the trie stands for
  text,        \* the characters acsmSearch has read
  state,       \* its state
  reports,     \* its calls of deal_pattern
  calls        \* how many searches have begun

vars == <<patterns, pc, todo, numStates, trans, fail, matchList, queue, str,
          text, state, reports, calls>>

Inputs == 0..(AlphabetSize - 1)

UpWord(w) == [i \in DOMAIN w |-> Up[w[i]]]

\* acsmNew.
Init ==
  /\ patterns = <<>> /\ pc = "setup" /\ todo = <<>> /\ numStates = 0
  /\ trans = <<>> /\ fail = <<>> /\ matchList = <<>> /\ queue = <<>>
  /\ str = <<>> /\ text = <<>> /\ state = 0 /\ reports = <<>> /\ calls = 0

acsmAddPattern(t, nocase) ==
  /\ pc = "setup" /\ Len(patterns) < MaxPatterns
  /\ patterns' = <<[patrn |-> UpWord(t), casepatrn |-> t, nocase |-> nocase,
                    id |-> Len(patterns) + 1]>> \o patterns
  /\ UNCHANGED <<pc, todo, numStates, trans, fail, matchList, queue, str, text,
                 state, reports, calls>>

MaxStates ==
  FoldLeft(LAMBDA sum, p : sum + Len(p.patrn), 1, patterns)

\* acsmCompile up to the loop over the patterns: a table of failures.
acsmCompile ==
  /\ pc = "setup" /\ patterns # <<>>
  /\ pc' = "trie"
  /\ todo' = patterns
  /\ numStates' = 0
  /\ trans' = [s \in 0..(MaxStates - 1) |-> [i \in Inputs |-> FAIL]]
  /\ fail' = [s \in 0..(MaxStates - 1) |-> 0]
  /\ matchList' = [s \in 0..(MaxStates - 1) |-> <<>>]
  /\ str' = [s \in {0} |-> <<>>]
  /\ UNCHANGED <<patterns, queue, text, state, reports, calls>>

\* One byte of AddPatternStates: follow the transition, or add a state.
AddByte(t, i) ==
  IF t.trans[t.at][i] # FAIL
  THEN [t EXCEPT !.at = t.trans[t.at][i]]
  ELSE [at    |-> t.num + 1,
        num   |-> t.num + 1,
        trans |-> [t.trans EXCEPT ![t.at][i] = t.num + 1],
        str   |-> [s \in 0..(t.num + 1) |->
                     IF s <= t.num THEN t.str[s] ELSE Append(t.str[t.at], i)]]

AddPatternStates ==
  /\ pc = "trie" /\ todo # <<>>
  /\ LET p == todo[1]
         t == FoldLeft(AddByte,
                [at |-> 0, num |-> numStates, trans |-> trans, str |-> str],
                p.patrn)
     IN  /\ numStates' = t.num
         /\ trans' = t.trans
         /\ str' = t.str
         /\ matchList' = [matchList EXCEPT ![t.at] = <<p>> \o @]
  /\ todo' = Tail(todo)
  /\ UNCHANGED <<patterns, pc, fail, queue, text, state, reports, calls>>

\* The root's missing transitions lead back to it; its children are queued.
RootDone ==
  /\ pc = "trie" /\ todo = <<>>
  /\ pc' = "dfa"
  /\ LET own == Ascending({ i \in Inputs : trans[0][i] # FAIL })
     IN  queue' = [j \in DOMAIN own |-> trans[0][own[j]]]
  /\ trans' = [trans EXCEPT ![0] =
                 [i \in Inputs |-> IF @[i] = FAIL THEN 0 ELSE @[i]]]
  /\ UNCHANGED <<patterns, todo, numStates, fail, matchList, str, text, state,
                 reports, calls>>

\* Where the failure chain of fs finds a transition on i.
NextOnFailure(fs, i) ==
  LET next[s \in DOMAIN trans] ==
        IF trans[s][i] # FAIL THEN trans[s][i] ELSE next[fail[s]]
  IN  next[fs]

\* One state r of Build_DFA: its children get their failure states, and its
\* missing transitions are those of its own failure state.
Build_DFA ==
  /\ pc = "dfa" /\ queue # <<>>
  /\ LET r   == queue[1]
         own == { i \in Inputs : trans[r][i] # FAIL }
         row == Ascending(own)
     IN  /\ queue' = Tail(queue) \o [j \in DOMAIN row |-> trans[r][row[j]]]
         /\ fail' = [s \in DOMAIN fail |->
                       IF \E i \in own : trans[r][i] = s
                       THEN NextOnFailure(fail[r],
                              CHOOSE i \in own : trans[r][i] = s)
                       ELSE fail[s]]
         /\ trans' = [trans EXCEPT ![r] = [i \in Inputs |->
                        IF i \in own THEN @[i] ELSE trans[fail[r]][i]]]
  /\ UNCHANGED <<patterns, pc, todo, numStates, matchList, str, text, state,
                 reports, calls>>

DfaDone ==
  /\ pc = "dfa" /\ queue = <<>>
  /\ pc' = "ready"
  /\ UNCHANGED <<patterns, todo, numStates, trans, fail, matchList, queue, str,
                 text, state, reports, calls>>

-------------------------------------------------------------------------------
\* acsmSearch: the text comes character by character, case folded.
Begin ==
  /\ pc = "ready" /\ calls < MaxCalls
  /\ pc' = "search"
  /\ text' = <<>> /\ state' = 0 /\ reports' = <<>>
  /\ calls' = calls + 1
  /\ UNCHANGED <<patterns, todo, numStates, trans, fail, matchList, queue, str>>

\* The first entry of the first match list met is reported, and that is all.
Step ==
  /\ pc = "search" /\ Len(text) < MaxText
  /\ \E c \in Inputs :
       /\ text' = Append(text, c)
       /\ state' = trans[state][Up[c]]
       /\ LET found == matchList[state']
          IN  IF found = <<>>
              THEN UNCHANGED <<pc, reports>>
              ELSE /\ reports' = <<[id    |-> found[1].id,
                                    index |-> Len(text') - Len(found[1].patrn)]>>
                   /\ pc' = "ready"
  /\ UNCHANGED <<patterns, todo, numStates, trans, fail, matchList, queue, str,
                 calls>>

\* The end of the text.
Finish ==
  /\ pc = "search"
  /\ pc' = "ready"
  /\ UNCHANGED <<patterns, todo, numStates, trans, fail, matchList, queue, str,
                 text, state, reports, calls>>

\* acsmFree: the match lists and the table, not the patterns.
acsmFree ==
  /\ pc = "ready"
  /\ pc' = "freed"
  /\ trans' = <<>> /\ fail' = <<>> /\ matchList' = <<>>
  /\ UNCHANGED <<patterns, todo, numStates, queue, str, text, state, reports,
                 calls>>

Building == AddPatternStates \/ RootDone \/ Build_DFA \/ DfaDone

Next ==
  \/ \E t \in Texts, nocase \in BOOLEAN : acsmAddPattern(t, nocase)
  \/ acsmCompile
  \/ Building
  \/ Begin \/ Step \/ Finish
  \/ acsmFree

\* A compilation goes on, and a text ends.
Spec == Init /\ [][Next]_vars /\ WF_vars(Building) /\ WF_vars(Finish)

-------------------------------------------------------------------------------
Words == WordsOf({ p.patrn : p \in Range(patterns) })
Patterns(s) == { j \in DOMAIN patterns : patterns[j].patrn = str[s] }
Stream == UpWord(text)

\* The trie has one state per prefix of a pattern, and each state fails to the
\* longest proper suffix of its word that is one: what Build_DFA's loop over
\* failure states computes layer by layer.
FailIsLongestSuffix ==
  pc = "ready" /\ calls = 0 =>
    /\ Range(str) = Words
    /\ numStates + 1 = Cardinality(Words)
    /\ \A s \in 1..numStates :
         str[fail[s]] = LongestProperSuffixIn(str[s], Words)

\* Every row is that of the automaton: the next state stands for the longest
\* word that the present one and the character end in, none is a failure.
RowsAgree ==
  pc = "ready" /\ calls = 0 =>
    \A s \in 0..numStates, i \in Inputs :
      str[trans[s][i]] = LongestSuffixIn(Append(str[s], i), Words)

\* A match list holds exactly the patterns that are the word of its state, each
\* once, those added first in front; nothing is merged from failure states.
OutputsComplete ==
  pc = "ready" /\ calls = 0 =>
    \A s \in 0..numStates :
      /\ Range(matchList[s]) = { patterns[j] : j \in Patterns(s) }
      /\ Len(matchList[s]) = Cardinality(Patterns(s))

\* What is reported is a pattern that does start there in the text.
SoundReports ==
  pc \in {"search", "ready"} => \A r \in Range(reports) :
    \E p \in Range(patterns) :
      p.id = r.id /\ EndsAt(p.patrn, Stream, r.index + Len(p.patrn))

\* If no pattern lies inside another, the search stops at the first character
\* where a pattern ends, and it finds nothing only where none does.
Inside(p, q) == \E i \in 0..Len(q) : EndsAt(p, q, i)
CompleteReports ==
  pc = "ready" /\ calls > 0
    /\ (\A p, q \in Range(patterns) :
          Inside(p.patrn, q.patrn) => p.patrn = q.patrn)
  => \A i \in 0..Len(text) :
       (\E p \in Range(patterns) : EndsAt(p.patrn, Stream, i))
         <=> i = Len(text) /\ reports # <<>>

\* The state reached stands for the longest word that the text read ends in.
CarriedState ==
  pc \in {"search", "ready"} /\ calls > 0 =>
    str[state] = LongestSuffixIn(Stream, Words)

\* Every occurrence of every pattern in the text has been reported once the
\* search returns.  The code does not do this.
AllOccurrences ==
  pc = "ready" /\ calls > 0 =>
    \A p \in Range(patterns), i \in 1..Len(text) :
      EndsAt(p.patrn, Stream, i) =>
        \E r \in Range(reports) : r.id = p.id /\ r.index + Len(p.patrn) = i
===============================================================================
