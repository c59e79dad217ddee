------------------------------- MODULE MCAcsm -------------------------------
(* Both Aho-Corasick machines for TLC.  `version` says which one a behaviour  *)
(* is of; it keeps its value, and the variables both have are the same.  Four *)
(* inputs, of which 3 is the small letter of 1; patterns one inside another,  *)
(* one ending in the beginning of another, and one that differs by case.      *)
EXTENDS Acsm2

CONSTANTS Versions,       \* the machines to check
          MaxPatterns1    \* MaxPatterns of the first

\* Texts are sequences of characters, which toupper folds to characters.
ASSUME MCAcsmAssumption ==
  Texts \subseteq Seq(Inputs) /\ Up \in [Inputs -> Inputs]

VARIABLE version

V1 == INSTANCE Acsm WITH MaxPatterns <- MaxPatterns1, FAIL <- -1

mcvars == <<version, vars>>

UpOf3 == [i \in 0..3 |-> IF i = 3 THEN 1 ELSE i]
SomeTexts == { <<1>>, <<0, 3>>, <<0, 0, 1>>, <<2, 0>> }
AbcdTexts == { <<1>>, <<0, 1, 2>> }

\* Machine, format, largest sparse row, longest run of zeros in a band, and
\* whether states are compressed.
WorkingModes ==
  { <<FSA_DFA, ACF_FULL, 256, 10, FALSE>>, <<FSA_DFA, ACF_FULLQ, 256, 10, FALSE>>,
    <<FSA_DFA, ACF_FULL, 256, 10, TRUE>>, <<FSA_DFA, ACF_FULLQ, 256, 10, TRUE>>,
    <<FSA_DFA, ACF_BANDED, 256, 10, FALSE>>,
    <<FSA_DFA, ACF_SPARSE, 1, 10, FALSE>>, <<FSA_DFA, ACF_SPARSE, 256, 10, FALSE>>,
    <<FSA_DFA, ACF_SPARSEBANDS, 256, 0, FALSE>>,
    <<FSA_DFA, ACF_SPARSEBANDS, 256, 1, FALSE>>,
    <<FSA_NFA, ACF_SPARSE, 256, 10, FALSE>>, <<FSA_NFA, ACF_SPARSEBANDS, 256, 0, FALSE>>,
    <<FSA_TRIE, ACF_FULL, 256, 10, FALSE>> }
NfaBanded == { <<FSA_NFA, ACF_BANDED, 256, 10, FALSE>> }

MCInit == version \in Versions /\ Init

OthersOf1 == UNCHANGED <<version, fsa, format, maxRowNodes, maxZcnt, compress,
                         nextState, kind, pmq, cur, before, stopped>>

MCNext ==
  \/ version = 1 /\ V1!Next /\ OthersOf1
  \/ version = 2 /\ Next /\ UNCHANGED version

Progress ==
  \/ version = 1 /\ (V1!Building \/ V1!Finish) /\ OthersOf1
  \/ version = 2 /\ (Building \/ Finish) /\ UNCHANGED version

\* A compilation goes on, and a text or chunk ends.
MCSpec == MCInit /\ [][MCNext]_mcvars /\ WF_mcvars(Progress)

\* acsmx.c:320, acsmx2.c:926: failure states are the longest proper suffixes, and
\* match lists hold what they should, each pattern once.
Automaton == IF version = 1 THEN V1!FailIsLongestSuffix /\ V1!OutputsComplete
                            ELSE FailIsLongestSuffix /\ OutputsComplete

\* acsmx.c, acsmx2.c: every row, in every format, is that of the automaton.
Rows == IF version = 1 THEN V1!RowsAgree ELSE RowsAgree

\* acsmx.c, acsmx2.c: what is reported occurs.
Sound == IF version = 1 THEN V1!SoundReports ELSE SoundReports

\* acsmx.c, acsmx2.c: what occurs is reported, as far as the search promises.
Complete == IF version = 1 THEN V1!CompleteReports ELSE CompleteReports

\* acsmx.c, acsmx2.c: the state carried along stands for the stream read.
Carried == IF version = 1 THEN V1!CarriedState ELSE CarriedState

\* acsmx.c:36: "This algorithm finds all occurrences of all patterns within a
\* body of text."
AllOccurrences == version = 1 => V1!AllOccurrences
==============================================================================
