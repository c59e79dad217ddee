----------------------------- MODULE MCPrograms -----------------------------
(***************************************************************************)
(* The smaller programs for TLC: searches, conversions, file readers, the  *)
(* socket pair, the scripts.  They share no state, so a behaviour picks    *)
(* one of them at the start and goes on with it alone.                     *)
(***************************************************************************)
EXTENDS CodeSearch, Sequences, FiniteSets

CONSTANTS Num, RawTables                                                \* TableSort
CONSTANTS Chars, MaxText, MaxPattern                                    \* StringSearch
CONSTANTS LineSize, KvSize, SipSize, Default, Files                     \* ConfigReader
CONSTANTS Lengths                                                       \* Md5File
CONSTANTS MaxVal                                                        \* SocketPair
CONSTANTS Slots, Dogs, ProcessNum, StartTicks, Scenes                   \* Supervision
CONSTANTS MaxDate, Turns                                                \* DailyUpdate

VARIABLES tpc, raw, code_table2, ti, tj                                 \* TableSort
VARIABLES alg, spc, text, pattern, next, si, k, pos, found              \* StringSearch
VARIABLES epc, chars, round, utf8, gb, ei, ej, byteCount, temp          \* Encoding
VARIABLES cpc, file, rest, portal_sip                                   \* ConfigReader
VARIABLES mpc, len, block, read, mi, blocks                             \* Md5File
VARIABLES ppc, val, holds, queue, sent                                  \* SocketPair
VARIABLES app, boot, dog, svc, late, race, upd, disk, recorded, left  \* Supervision
VARIABLES date, afternoon, dpc, isNewDay, perDate, curTime, curDate,
          turns, fresh, tried, again, under, cut                        \* DailyUpdate
VARIABLE which

tvars == <<tpc, raw, code_table2, ti, tj>>
svars == <<alg, spc, text, pattern, next, si, k, pos, found>>
evars == <<epc, chars, round, utf8, gb, ei, ej, byteCount, temp>>
cvars == <<cpc, file, rest, portal_sip>>
mvars == <<mpc, len, block, read, mi, blocks>>
pvars == <<ppc, val, holds, queue, sent>>
uvars == <<app, boot, dog, svc, late, race, upd, disk, recorded, left>>
dvars == <<date, afternoon, dpc, isNewDay, perDate, curTime, curDate,
           turns, fresh, tried, again, under, cut>>
allVars == <<vars, tvars, svars, evars, cvars, mvars, pvars, uvars, dvars, which>>

-----------------------------------------------------------------------------
\* Every sorted table of five entries, keys there several times and all.
FiveSorted == {[x \in 0..4 |-> [key |-> f[x], value |-> x + 1]] :
                 f \in {f \in [0..4 -> 1..4] : \A x \in 0..3 : f[x] <= f[x + 1]}}

\* Every order of four entries with up to three keys; the charts' codes tell
\* entries of one key from one another.
FourInAnyOrder == {[x \in 0..3 |-> [unicode |-> f[x], gb2312 |-> 8481 + x]] : f \in [0..3 -> 1..3]}

UpTo(S, n) == UNION {[1..m -> S] : m \in 1..n}

\* Of the tables: a Greek letter, a Chinese character, and the two codes of U+2225.
FourCodes == {<<945, 42689>>, <<21834, 45217>>, <<8741, 41388>>, <<8741, 41422>>}

\* ASCII, those four, one that is not in the tables, half a character.
GbTexts == UpTo({<<97>>, <<166, 193>>, <<176, 161>>, <<161, 172>>, <<161, 206>>, <<247, 255>>, <<176>>}, 2)

\* Characters of one to five bytes, a following byte alone, a byte that begins none.
Utf8Texts == UpTo({<<97>>, <<206, 177>>, <<229, 149, 138>>, <<224, 184, 129>>, <<240, 159, 152, 128>>,
                   <<248, 136, 128, 128, 128>>, <<128>>, <<255>>}, 3)

\* Values short, longer, too long and none, around blanks; a comment; another
\* key, with a value and a key that fill their buffers, and a key too long; two
\* separators; nothing; no separator; a comment longer than the buffer whose rest
\* names the key; and a last line without an end.
ConfigLines == { <<"k","=","1","2","\n">>, <<" ","k"," ","="," ","3","4","5"," ","\n">>, <<"k","=","\n">>,
                 <<"k","=","1","2","3","4","\n">>, <<"#","k","=","7","\n">>, <<"o","=","6","\n">>,
                 <<"o","=","1","2","3","4","5","6","\n">>, <<"o","o","o","o","o","o","o","=","1","\n">>,
                 <<"o","o","o","o","o","o","o","o","=","1","\n">>, <<"k","=","1","=","2","\n">>,
                 <<" ","\n">>, <<"k","8","\n">>, <<"#","o","o","o","o","o","o","o","o","o","o","k","=","9","\n">> }
ConfigFiles == {<<>>} \cup UpTo(ConfigLines, 2) \cup {f \o <<<<"k","=","4">>>> : f \in UpTo(ConfigLines, 2)}

DefaultIp == <<"d", "d">>

\* Around each boundary of one and two blocks.
FileLengths == {0, 1, 54, 55, 56, 63, 64, 65, 118, 119, 120, 128}

\* Deaths, calls of service, updates, and which packages these find.
SomeScenes == LET Scene(d, c, u, p) == [deaths |-> d, calls |-> c, updates |-> u, packages |-> p]
              IN {Scene(2, 0, 0, {}), Scene(1, 1, 0, {}), Scene(0, 2, 0, {}), Scene(0, 1, 1, {}),
                  Scene(1, 0, 1, {2}), Scene(1, 0, 1, {1, 2})}

T == INSTANCE TableSort WITH pc <- tpc, i <- ti, j <- tj
S == INSTANCE StringSearch WITH pc <- spc, i <- si, result <- found
E == INSTANCE Encoding WITH Codes <- FourCodes, pc <- epc, i <- ei, j <- ej
C == INSTANCE ConfigReader WITH pc <- cpc
M == INSTANCE Md5File WITH Block <- 64, pc <- mpc, x <- block, i <- mi
P == INSTANCE SocketPair WITH pc <- ppc
U == INSTANCE Supervision
D == INSTANCE DailyUpdate WITH late <- afternoon, pc <- dpc

ProgramsAssumption ==
  /\ Num \in Nat /\ RawTables \subseteq [T!At -> [unicode : Nat, gb2312 : Nat]]
  \* No character of a string is its terminator.
  /\ "end" \notin Chars /\ MaxText \in Nat /\ MaxPattern \in Nat
  /\ LineSize \in Nat /\ KvSize \in Nat /\ SipSize \in Nat \ {0} /\ Default \in Seq(STRING)
  /\ Files \subseteq Seq(Seq(STRING)) /\ Lengths \subseteq Nat
  /\ Slots \subseteq Nat /\ IsFiniteSet(Slots) /\ Dogs \subseteq Nat /\ IsFiniteSet(Dogs)
  /\ ProcessNum \in Nat /\ StartTicks \in Nat
  /\ Scenes \subseteq [deaths : Nat, calls : Nat, updates : Nat, packages : SUBSET U!Versions]
  \* The loop of update.sh turns every two seconds.
  /\ Turns \in Nat /\ Turns >= 2
ASSUME ProgramsAssumption

-----------------------------------------------------------------------------
Parts == {"code", "sort", "string", "encoding", "config", "md5", "pair", "scripts", "calendar"}

MCInit == /\ Init /\ T!Init /\ S!Init /\ E!Init /\ C!Init /\ M!Init /\ P!Init /\ U!Init /\ D!Init
          /\ which \in Parts /\ (which # "calendar" => afternoon)

\* Everything but the part that is running stays as it is.
Only(part) ==
  /\ which = part
  /\ UNCHANGED which
  /\ part # "code" => UNCHANGED vars
  /\ part # "sort" => UNCHANGED tvars
  /\ part # "string" => UNCHANGED svars
  /\ part # "encoding" => UNCHANGED evars
  /\ part # "config" => UNCHANGED cvars
  /\ part # "md5" => UNCHANGED mvars
  /\ part # "pair" => UNCHANGED pvars
  /\ part # "scripts" => UNCHANGED uvars
  /\ part # "calendar" => UNCHANGED dvars

MCNext ==
  \/ Only("code") /\ Next
  \/ Only("sort") /\ T!Next
  \/ Only("string") /\ S!Next
  \/ Only("encoding") /\ E!Next
  \/ Only("config") /\ C!Next
  \/ Only("md5") /\ M!Next
  \/ Only("pair") /\ P!Next
  \/ Only("scripts") /\ U!Next
  \/ Only("calendar") /\ D!Next

\* What goes on: calls once they are made, a process of the pair that is not
\* killed, and of the scripts' world time, starts and watchdogs.
Progress ==
  \/ Only("code") /\ Search
  \/ Only("sort") /\ T!Sort
  \/ Only("string") /\ S!Search
  \/ Only("encoding") /\ E!Convert
  \/ Only("config") /\ (C!Read \/ C!CheckArgs)
  \/ Only("md5") /\ M!Calc
  \/ Only("pair") /\ \E p \in P!Procs : P!Step(p)
  \/ Only("scripts") /\ U!Run

MCSpec == MCInit /\ [][MCNext]_allVars /\ WF_allVars(Progress)

-----------------------------------------------------------------------------
\* kmp.c, sunday.c: the first occurrence is found (see StringSearch).
SearchesFindFirst == S!KmpFindsFirst /\ S!SundayFindsFirst

\* sort.c: a stable sort that loses nothing (see TableSort).
Sorted == T!Sorted

\* encoded.c: characters are converted one by one, there and back (see Encoding).
Converts == E!EachAlone /\ E!RoundTrip

\* encoded.c:89: all characters that have a code are converted (see Encoding).
AllConverted == E!AllConverted

\* read_config.c, md5.c: what is made of a file, line by line and block by block
\* (see ConfigReader, Md5File).
FilesRead == C!Overlaid /\ M!BlocksPadded

\* socketpair.c: one message at a time, and no stale answer (see SocketPair).
TakeTurns == P!TakeTurns

\* service, update.sh: a stop holds, and there is one watchdog unless both
\* looked before either started one (see Supervision).
StopHolds == U!TypeOK /\ U!StopHolds /\ U!OneDog

\* update.sh: the recorded version is the installed one (see Supervision).
RecordedInstalled == U!RecordedInstalled

\* update.sh: once a day (see DailyUpdate).
OnceADay == D!OnceADay

\* watchdog.sh: the program settles at its number of processes (see Supervision).
Settles == U!Settles

Busy ==
  \/ pc = "search" \/ tpc = "sort" \/ spc \in {"getNext", "kmp", "sunday"}
  \/ epc \in {"toUtf8", "toGb"} /\ ~E!BeginsStray
  \/ cpc = "read" \/ mpc \in {"blocks", "marked", "last"}
  \/ \E p \in P!Procs : ppc[p] = "dead" /\ ppc[P!Other(p)] \notin {"fork", "dead"}

\* encoded.c:41, 102, 176, sort.c:22, kmp.c:9, 27, sunday.c:18, read_config.c:122,
\* md5.c:136: every call ends, but a conversion of a text that begins with a stray
\* byte.  socketpair.c:21, 35: the process that is left of a pair ends.
Returns == Busy ~> ~Busy

=============================================================================
