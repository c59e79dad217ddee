--------------------------- MODULE ProgramsProofs ---------------------------
(* Proofs about the smaller programs, each for every value of its           *)
(* constants: the binary search, the sort and the two string searches, the  *)
(* socket pair, the scripts and the calendar of the update, the padding of  *)
(* a file for md5 and the configuration reader.  A behaviour of MCPrograms  *)
(* runs one of them; for each there is an inductive invariant, and a lemma  *)
(* says that each step of the whole is a step of it or leaves its state     *)
(* alone.                                                                   *)
EXTENDS MCPrograms, FiniteSetTheorems, SequenceTheorems, TLAPS

-----------------------------------------------------------------------------
(* The programs together.                                                   *)

\* A step is one of a single program, and leaves the others as they are.
LEMMA Apart == ASSUME [MCNext]_allVars
               PROVE  /\ [Next]_vars /\ [T!Next]_tvars /\ [S!Next]_svars
                      /\ [C!Next]_cvars /\ [M!Next]_mvars /\ [P!Next]_pvars /\ [U!Next]_uvars /\ [D!Next]_dvars
<1>1. CASE MCNext
  <2>1. CASE Only("code") /\ Next  BY <2>1 DEF Only
  <2>2. CASE Only("sort") /\ T!Next  BY <2>2 DEF Only
  <2>3. CASE Only("string") /\ S!Next  BY <2>3 DEF Only
  <2>4. CASE Only("encoding") /\ E!Next  BY <2>4 DEF Only
  <2>5. CASE Only("config") /\ C!Next  BY <2>5 DEF Only
  <2>6. CASE Only("md5") /\ M!Next  BY <2>6 DEF Only
  <2>7. CASE Only("pair") /\ P!Next  BY <2>7 DEF Only
  <2>8. CASE Only("scripts") /\ U!Next  BY <2>8 DEF Only
  <2>9. CASE Only("calendar") /\ D!Next  BY <2>9 DEF Only
  <2> QED BY <1>1, <2>1, <2>2, <2>3, <2>4, <2>5, <2>6, <2>7, <2>8, <2>9 DEF MCNext
<1>2. CASE UNCHANGED allVars
  BY <1>2 DEF allVars
<1> QED BY <1>1, <1>2

\* The least number of a set is one of it.
LEMMA HasLeast == ASSUME NEW Q \in SUBSET Nat, Q # {} PROVE \E x \in Q : \A y \in Q : x <= y
<1> DEFINE G == {0 .. x : x \in Q}
<1>1. G \subseteq FiniteSubsetsOf(Nat)
  <2>1. ASSUME NEW x \in Q PROVE 0 .. x \in SUBSET Nat /\ IsFiniteSet(0 .. x)
    BY FS_Interval, SMT
  <2> QED BY <2>1 DEF FiniteSubsetsOf
<1>2. PICK L \in G : \A N \in G : <<N, L>> \notin StrictSubsetOrdering(Nat)
  <2>1. IsWellFoundedOn(StrictSubsetOrdering(Nat), FiniteSubsetsOf(Nat))
    BY FS_StrictSubsetOrderingWellFounded
  <2>2. G # {}
    OBVIOUS
  <2> HIDE DEF G
  <2> QED BY <1>1, <2>1, <2>2, WFMin
<1>3. PICK x \in Q : L = 0 .. x
  OBVIOUS
<1>4. ASSUME NEW y \in Q, y < x PROVE FALSE
  <2>1. 0 .. y \in SUBSET Nat /\ L \in SUBSET Nat
    BY <1>3, SMT
  <2>2. 0 .. y \subseteq L /\ 0 .. y # L
    BY <1>3, <1>4, SMT
  <2>3. <<0 .. y, L>> \in StrictSubsetOrdering(Nat)
    BY <2>1, <2>2 DEF StrictSubsetOrdering
  <2> QED BY <1>2, <2>3
<1> QED BY <1>4, SMT

-----------------------------------------------------------------------------
(* CodeSearch: the binary search of the two tables.                         *)

\* What is inductive: the types, and every entry of the key is in the window.
Window == pc = "search" => SortedByKey(table) /\ \A x \in Index : table[x].key = key => first <= x /\ x <= end
Found == pc = "done" => IF \E x \in Index : table[x].key = key
                        THEN \E x \in Index : table[x].key = key /\ result = table[x].value
                        ELSE result = 0
SearchInv == TypeOK /\ Window /\ Found

\* What the assumption says of the size.
LEMMA SizeIsNat == Size \in Nat
  BY CodeSearchAssumption DEF CodeSearchAssumption

\* The middle of a window that is not empty is inside it, and so in the table.
LEMMA MidInside == TypeOK /\ first <= end => Mid \in Index /\ first <= Mid /\ Mid <= end
<1>1. \A a, b \in Int : a <= b => (a + b) \div 2 \in Int /\ a <= (a + b) \div 2 /\ (a + b) \div 2 <= b
  BY SMT
<1>2. Size \in Nat
  BY SizeIsNat
<1>3. SUFFICES ASSUME TypeOK, first <= end PROVE Mid \in Index /\ first <= Mid /\ Mid <= end
  OBVIOUS
<1>4. first \in Int /\ end \in Int /\ 0 <= first /\ end <= Size - 1
  BY <1>2, <1>3 DEF TypeOK
<1>5. Mid \in Int /\ first <= Mid /\ Mid <= end
  BY <1>1, <1>3, <1>4 DEF Mid
<1> QED BY <1>2, <1>4, <1>5 DEF Index

\* A search that starts looks at the whole table.
LEMMA CallKeeps == ASSUME NEW t \in CodeTables, NEW c \in Keys, SearchInv, Call(t, c) PROVE SearchInv'
<1>1. t \in [Index -> Entries] /\ SortedByKey(t) /\ c \in Nat
  BY CodeSearchAssumption DEF CodeSearchAssumption
<1>2. TypeOK'
  BY <1>1, SizeIsNat DEF SearchInv, TypeOK, Call, LastIndex
<1>3. Window'
  BY <1>1, SizeIsNat DEF SearchInv, TypeOK, Call, LastIndex, Window, SortedByKey, Index
<1> QED BY <1>2, <1>3 DEF SearchInv, Found, Call

\* A hit answers with the entry at the middle.
LEMMA HitKeeps == ASSUME SearchInv, Hit PROVE SearchInv'
<1>1. Mid \in Index
  BY MidInside DEF SearchInv, Hit
<1>2. table[Mid] \in Entries
  BY <1>1 DEF SearchInv, TypeOK
<1>3. TypeOK'
  BY <1>2 DEF SearchInv, TypeOK, Hit, Entries
<1>4. Found'
  BY <1>1 DEF Found, Hit
<1> QED BY <1>3, <1>4 DEF SearchInv, Window, Hit

\* Behind a middle that is too large there is no entry of the key.
LEMMA LeftKeeps == ASSUME SearchInv, Left PROVE SearchInv'
<1>1. Mid \in Index /\ first <= Mid /\ Mid <= end
  BY MidInside DEF SearchInv, Left
<1>2. TypeOK'
  BY <1>1, SizeIsNat DEF SearchInv, TypeOK, Left, Index
<1>3. ASSUME NEW x \in Index, table[x].key = key PROVE first <= x /\ x <= Mid - 1
  <2>1. first <= x /\ x <= end
    BY <1>3 DEF SearchInv, Window, Left
  <2>2. Mid <= x => table[Mid].key <= table[x].key
    BY <1>1, <1>3 DEF SearchInv, Window, Left, SortedByKey, TypeOK, Entries, Index
  <2>3. table[Mid].key \in Nat /\ key \in Nat
    BY <1>1 DEF SearchInv, TypeOK, Entries
  <2>4. ~(Mid <= x)
    BY <1>3, <2>2, <2>3 DEF Left
  <2> QED BY <1>1, <2>1, <2>4, SizeIsNat DEF Index
<1>4. Window'
  BY <1>3 DEF SearchInv, Window, Left
<1> QED BY <1>2, <1>4 DEF SearchInv, Found, Left

\* Before a middle that is too small there is no entry of the key.
LEMMA RightKeeps == ASSUME SearchInv, Right PROVE SearchInv'
<1>1. Mid \in Index /\ first <= Mid /\ Mid <= end
  BY MidInside DEF SearchInv, Right
<1>2. TypeOK'
  BY <1>1, SizeIsNat DEF SearchInv, TypeOK, Right, Index
<1>3. ASSUME NEW x \in Index, table[x].key = key PROVE Mid + 1 <= x /\ x <= end
  <2>1. first <= x /\ x <= end
    BY <1>3 DEF SearchInv, Window, Right
  <2>2. x <= Mid => table[x].key <= table[Mid].key
    BY <1>1, <1>3 DEF SearchInv, Window, Right, SortedByKey, TypeOK, Entries, Index
  <2>3. table[Mid].key \in Nat /\ key \in Nat
    BY <1>1 DEF SearchInv, TypeOK, Entries
  <2>4. ~(x <= Mid)
    BY <1>3, <2>2, <2>3 DEF Right
  <2> QED BY <1>1, <2>1, <2>4, SizeIsNat DEF Index
<1>4. Window'
  BY <1>3 DEF SearchInv, Window, Right
<1> QED BY <1>2, <1>4 DEF SearchInv, Found, Right

\* An empty window means that there is no entry of the key.
LEMMA MissKeeps == ASSUME SearchInv, Miss PROVE SearchInv'
<1>1. ~ \E x \in Index : table[x].key = key
  BY SizeIsNat DEF SearchInv, Window, Miss, TypeOK, Index
<1> QED BY <1>1 DEF SearchInv, TypeOK, Window, Found, Miss

\* The invariant holds throughout.
LEMMA SearchAlways == MCSpec => []SearchInv
<1>1. MCInit => SearchInv
  BY SizeIsNat DEF MCInit, Init, SearchInv, TypeOK, Window, Found, Idle, Entries, Index
<1>2. SearchInv /\ [MCNext]_allVars => SearchInv'
  <2> SUFFICES ASSUME SearchInv, [Next]_vars PROVE SearchInv'
    BY Apart
  <2>1. CASE Search
    BY <2>1, HitKeeps, LeftKeeps, RightKeeps, MissKeeps DEF Search
  <2>2. ASSUME NEW t \in CodeTables, NEW c \in Keys, Call(t, c) PROVE SearchInv'
    BY <2>2, CallKeeps
  <2>3. CASE UNCHANGED vars
    BY <2>3 DEF vars, SearchInv, TypeOK, Window, Found
  <2> QED BY <2>1, <2>2, <2>3 DEF Next
<1> QED BY <1>1, <1>2, PTL DEF MCSpec

\* encoded.c:35, 62: in a sorted table of any size the search answers with an
\* entry of the key if there is one, else 0, and reads inside the table.
THEOREM SearchAnswers == MCSpec => []Answers
<1>1. SearchInv => Answers
  <2> SUFFICES ASSUME SearchInv PROVE Answers
    OBVIOUS
  <2>1. ASSUME pc = "search" PROVE Places \subseteq first .. end
    BY <2>1, SizeIsNat DEF SearchInv, TypeOK, Window, Places, Index
  <2>2. ASSUME pc = "search", first <= end PROVE Mid \in Index
    BY <2>2, MidInside DEF SearchInv
  <2>3. ASSUME pc = "done"
        PROVE IF Places = {} THEN result = 0 ELSE \E x \in Places : result = table[x].value
    BY <2>3 DEF SearchInv, Found, Places
  <2> QED BY <2>1, <2>2, <2>3 DEF Answers
<1> QED BY <1>1, SearchAlways, PTL

\* encoded.c:41: every iteration that goes on leaves a smaller window.
THEOREM SearchShrinks == MCSpec => Shrinks
<1>1. SearchInv /\ [MCNext]_allVars =>
        [(pc = "search" /\ pc' = "search") => end' - first' < end - first]_vars
  <2> SUFFICES ASSUME SearchInv, Next, pc = "search", pc' = "search" PROVE end' - first' < end - first
    BY Apart DEF vars
  <2>1. first \in Int /\ end \in Int
    BY SizeIsNat DEF SearchInv, TypeOK
  <2>2. CASE Left
    BY <2>1, <2>2, MidInside, SizeIsNat DEF SearchInv, Left, Index
  <2>3. CASE Right
    BY <2>1, <2>3, MidInside, SizeIsNat DEF SearchInv, Right, Index
  <2> QED BY <2>2, <2>3 DEF Next, Search, Hit, Miss, Call
<1> QED BY <1>1, SearchAlways, PTL DEF MCSpec, Shrinks

-----------------------------------------------------------------------------
(* TableSort: the bubble sort of the code table.                            *)

Tables == [T!At -> [unicode : Nat, gb2312 : Nat]]

\* The order of the sorted table, in which no two entries are equal.
Less(x, y) == \/ raw[x].unicode < raw[y].unicode
              \/ raw[x].unicode = raw[y].unicode /\ x < y

\* Where the entries have come from: p[y] is the old place of entry y.
Permutation(p) == /\ \A y, z \in T!At : p[y] = p[z] => y = z
                  /\ \A x \in T!At : \E y \in T!At : p[y] = x
                  /\ code_table2 = [y \in T!At |-> T!Add8080(raw)[p[y]]]
Stable(p) == \A y, z \in T!At : (y < z /\ raw[p[y]].unicode = raw[p[z]].unicode) => p[y] < p[z]

\* The entries behind Num - i are in their places, and the one at j - 1 is the
\* largest of those before it.
InPlace(p) == \A y, z \in T!At : (y < z /\ z >= Num - ti) => Less(p[y], p[z])
Largest(p) == \A y \in 0 .. tj - 2 : Less(p[y], p[tj - 1])

SortTypes ==
  /\ raw \in Tables /\ ti \in 0 .. Num
  /\ ti < Num => tj \in 1 .. Num - ti
  /\ tpc = "done" => ti = Num

SortInv ==
  /\ tpc \in {"idle", "sort", "done"}
  /\ tpc # "idle" =>
       /\ SortTypes
       /\ \E p \in [T!At -> T!At] : Permutation(p) /\ Stable(p) /\ InPlace(p)
                                    /\ (ti < Num => Largest(p))

\* What the assumption says of the tables.
LEMMA NumIsNat == Num \in Nat /\ RawTables \subseteq Tables
BY ProgramsAssumption DEF ProgramsAssumption, Tables

\* The code that add8080.c makes of an entry keeps its Unicode.
LEMMA KeyKept == ASSUME NEW p \in [T!At -> T!At], Permutation(p), NEW y \in T!At
                 PROVE  code_table2[y].unicode = raw[p[y]].unicode
BY DEF Permutation, T!Add8080

\* A sort that starts finds each entry where it was.
LEMMA StartSorts == ASSUME NEW t \in RawTables, T!Start(t) PROVE SortInv'
<1> DEFINE id == [x \in T!At |-> x]
<1>1. tpc' = "sort" /\ raw' = t /\ code_table2' = T!Add8080(t) /\ ti' = 0 /\ tj' = 1
  BY DEF T!Start
<1>2. SortTypes'
  BY <1>1, NumIsNat, SMT DEF SortTypes
<1>3. Permutation(id)'
  <2>1. T!Add8080(t) = [y \in T!At |-> T!Add8080(t)[id[y]]]
    BY DEF T!Add8080
  <2>2. \A y \in T!At : id[y] = y
    OBVIOUS
  <2> HIDE DEF id
  <2> QED BY <1>1, <2>1, <2>2 DEF Permutation
<1>4. Stable(id)' /\ InPlace(id)' /\ Largest(id)'
  BY <1>1, NumIsNat, SMT DEF Stable, InPlace, Largest, T!At
<1>5. id \in [T!At -> T!At]
  OBVIOUS
<1> HIDE DEF id
<1> QED BY <1>1, <1>2, <1>3, <1>4, <1>5 DEF SortInv

\* The order is one.
LEMMA LessOrders ==
  ASSUME raw \in Tables, NEW x \in T!At, NEW y \in T!At
  PROVE  /\ Less(x, y) => ~Less(y, x) /\ x # y
         /\ \A z \in T!At : Less(x, y) /\ Less(y, z) => Less(x, z)
BY NumIsNat, SMT DEF Tables, Less, T!At

\* A comparison moves the larger of two entries up, and those of one key keep
\* their order.
LEMMA CompareSorts == ASSUME SortInv, T!Compare PROVE SortInv'
<1>1. /\ tpc = "sort" /\ ti < Num /\ tj < Num - ti
      /\ tj' = tj + 1 /\ UNCHANGED <<tpc, raw, ti>>
      /\ code_table2' = IF T!TooLarge
                        THEN [code_table2 EXCEPT ![tj - 1] = code_table2[tj], ![tj] = code_table2[tj - 1]]
                        ELSE code_table2
  BY DEF T!Compare
<1>2. raw \in Tables /\ ti \in 0 .. Num /\ tj \in 1 .. Num - ti
  BY <1>1 DEF SortInv, SortTypes
<1>3. PICK p \in [T!At -> T!At] : Permutation(p) /\ Stable(p) /\ InPlace(p) /\ Largest(p)
  BY <1>1 DEF SortInv
<1>4. tj - 1 \in T!At /\ tj \in T!At /\ p[tj - 1] \in T!At /\ p[tj] \in T!At
  BY <1>1, <1>2, <1>3, NumIsNat, SMT DEF T!At
<1>5. SortTypes'
  BY <1>1, <1>2, NumIsNat, SMT DEF SortTypes
<1>6. T!TooLarge <=> raw[p[tj - 1]].unicode > raw[p[tj]].unicode
  BY <1>3, <1>4, KeyKept DEF T!TooLarge
<1>7. CASE ~T!TooLarge
  <2>1. Permutation(p)' /\ Stable(p)' /\ InPlace(p)'
    BY <1>1, <1>3, <1>7, Zenon DEF Permutation, Stable, InPlace, Less
  <2>2. Less(p[tj - 1], p[tj])
    BY <1>2, <1>3, <1>4, <1>6, <1>7, NumIsNat, SMT DEF Less, Stable, Tables, T!At
  <2>3. ASSUME NEW y \in 0 .. tj - 1 PROVE Less(p[y], p[tj])
    <3>1. CASE y = tj - 1
      BY <2>2, <3>1
    <3>2. CASE y # tj - 1
      <4>1. y \in 0 .. tj - 2 /\ y \in T!At /\ p[y] \in T!At
        BY <1>2, <1>3, <3>2, NumIsNat, SMT DEF T!At
      <4>2. Less(p[y], p[tj - 1])
        BY <1>3, <4>1 DEF Largest
      <4> QED BY <1>2, <1>4, <2>2, <4>1, <4>2, LessOrders
    <3> QED BY <3>1, <3>2
  <2>4. Largest(p)'
    <3>1. tj' - 2 = tj - 1 /\ tj' - 1 = tj
      BY <1>1, <1>2, SMT
    <3> QED BY <1>1, <2>3, <3>1 DEF Largest, Less
  <2> QED BY <1>1, <1>5, <2>1, <2>4 DEF SortInv
<1>8. CASE T!TooLarge
  <2>1. PICK q \in [T!At -> T!At] :
          /\ q[tj - 1] = p[tj] /\ q[tj] = p[tj - 1]
          /\ \A y \in T!At \ {tj - 1, tj} : q[y] = p[y]
    <3> DEFINE q == [p EXCEPT ![tj - 1] = p[tj], ![tj] = p[tj - 1]]
    <3>1. /\ q \in [T!At -> T!At] /\ q[tj - 1] = p[tj] /\ q[tj] = p[tj - 1]
          /\ \A y \in T!At \ {tj - 1, tj} : q[y] = p[y]
      BY <1>4, <1>2, SMT
    <3> HIDE DEF q
    <3> QED BY <3>1
  <2>2. /\ \A y, z \in T!At : q[y] = q[z] => y = z
        /\ \A x \in T!At : \E y \in T!At : q[y] = x
    <3>1. ASSUME NEW y \in T!At
          PROVE  \E w \in T!At : q[y] = p[w] /\ p[y] = q[w]
      <4>1. CASE y = tj  BY <1>4, <2>1, <4>1
      <4>2. CASE y = tj - 1  BY <1>4, <2>1, <4>2
      <4>3. CASE y \notin {tj - 1, tj}  BY <2>1, <4>3
      <4> QED BY <4>1, <4>2, <4>3
    <3>2. ASSUME NEW y \in T!At, NEW z \in T!At, q[y] = q[z] PROVE y = z
      BY <1>3, <1>4, <2>1, <3>2 DEF Permutation
    <3>3. ASSUME NEW x \in T!At PROVE \E y \in T!At : q[y] = x
      BY <1>3, <3>1 DEF Permutation
    <3> QED BY <3>2, <3>3
  <2>3. code_table2' = [y \in T!At |-> T!Add8080(raw)[q[y]]]
    <3>1. code_table2 = [y \in T!At |-> T!Add8080(raw)[p[y]]]
      BY <1>3 DEF Permutation
    <3>2. code_table2' = [code_table2 EXCEPT ![tj - 1] = code_table2[tj], ![tj] = code_table2[tj - 1]]
      BY <1>1, <1>8
    <3>3. ASSUME NEW y \in T!At PROVE code_table2'[y] = T!Add8080(raw)[q[y]]
      <4>1. CASE y = tj
        BY <1>4, <2>1, <3>1, <3>2, <4>1
      <4>2. CASE y = tj - 1
        <5>1. tj - 1 # tj
          BY <1>2, SMT
        <5> QED BY <1>4, <2>1, <3>1, <3>2, <4>2, <5>1
      <4>3. CASE y \notin {tj - 1, tj}
        BY <2>1, <3>1, <3>2, <4>3
      <4> QED BY <4>1, <4>2, <4>3
    <3>4. code_table2' = [y \in T!At |-> code_table2'[y]]
      <4>1. DOMAIN code_table2 = T!At
        BY <3>1
      <4>2. code_table2' = [y \in DOMAIN code_table2 |-> code_table2'[y]]
        BY <3>2
      <4> QED BY <4>1, <4>2
    <3> QED BY <3>3, <3>4
  <2>4. Permutation(q)'
    BY <1>1, <2>2, <2>3 DEF Permutation
  <2>5. Less(p[tj], p[tj - 1]) /\ raw[p[tj]].unicode # raw[p[tj - 1]].unicode
    <3>1. raw[p[tj]].unicode \in Nat /\ raw[p[tj - 1]].unicode \in Nat
      BY <1>2, <1>4 DEF Tables
    <3> QED BY <1>6, <1>8, <3>1, SMT DEF Less
  <2>6. Stable(q)'
    <3>1. ASSUME NEW y \in T!At, NEW z \in T!At, y < z, raw[q[y]].unicode = raw[q[z]].unicode
          PROVE  q[y] < q[z]
      <4>1. CASE y \notin {tj - 1, tj} /\ z \notin {tj - 1, tj}
        BY <1>3, <2>1, <3>1, <4>1 DEF Stable
      <4>2. CASE y = tj /\ z \notin {tj - 1, tj}
        <5>1. tj - 1 < z
          BY <1>2, <3>1, <4>2, SMT DEF T!At
        <5> QED BY <1>3, <1>4, <2>1, <3>1, <4>2, <5>1 DEF Stable
      <4>3. CASE y = tj - 1 /\ z \notin {tj - 1, tj}
        <5>1. tj < z
          BY <1>2, <3>1, <4>3, NumIsNat, SMT DEF T!At
        <5> QED BY <1>3, <1>4, <2>1, <3>1, <4>3, <5>1 DEF Stable
      <4>4. CASE z = tj - 1 /\ y \notin {tj - 1, tj}
        <5>1. y < tj
          BY <1>2, <3>1, <4>4, NumIsNat, SMT DEF T!At
        <5> QED BY <1>3, <1>4, <2>1, <3>1, <4>4, <5>1 DEF Stable
      <4>5. CASE z = tj /\ y \notin {tj - 1, tj}
        <5>1. y < tj - 1
          BY <1>2, <3>1, <4>5, NumIsNat, SMT DEF T!At
        <5> QED BY <1>3, <1>4, <2>1, <3>1, <4>5, <5>1 DEF Stable
      <4>6. CASE y \in {tj - 1, tj} /\ z \in {tj - 1, tj}
        BY <1>2, <2>1, <2>5, <3>1, <4>6, SMT
      <4> QED BY <4>1, <4>2, <4>3, <4>4, <4>5, <4>6
    <3> QED BY <1>1, <3>1 DEF Stable
  <2>7. InPlace(q)'
    <3>1. ASSUME NEW y \in T!At, NEW z \in T!At, y < z, z >= Num - ti PROVE Less(q[y], q[z])
      <4>1. z \notin {tj - 1, tj} /\ tj - 1 < z /\ tj < z
        BY <1>1, <1>2, <3>1, NumIsNat, SMT DEF T!At
      <4>2. q[z] = p[z] /\ q[y] \in {p[y], p[tj - 1], p[tj]}
        BY <2>1, <3>1, <4>1
      <4> QED BY <1>3, <1>4, <3>1, <4>1, <4>2 DEF InPlace
    <3> QED BY <1>1, <3>1 DEF InPlace, Less
  <2>8. Largest(q)'
    <3>1. ASSUME NEW y \in 0 .. tj - 1 PROVE Less(q[y], q[tj])
      <4>1. CASE y = tj - 1
        BY <2>1, <2>5, <4>1
      <4>2. CASE y # tj - 1
        <5>1. y \in 0 .. tj - 2 /\ y \in T!At \ {tj - 1, tj}
          BY <1>2, <4>2, NumIsNat, SMT DEF T!At
        <5> QED BY <1>3, <2>1, <5>1 DEF Largest
      <4> QED BY <4>1, <4>2
    <3>2. tj' - 2 = tj - 1 /\ tj' - 1 = tj
      BY <1>1, <1>2, SMT
    <3> QED BY <1>1, <3>1, <3>2 DEF Largest, Less
  <2> QED BY <1>1, <1>5, <2>1, <2>4, <2>6, <2>7, <2>8 DEF SortInv
<1> QED BY <1>7, <1>8

\* A pass that ends has brought the largest of the rest to its place.
LEMMA NextPassSorts == ASSUME SortInv, T!NextPass PROVE SortInv'
<1>1. /\ tpc = "sort" /\ ti < Num /\ tj >= Num - ti
      /\ ti' = ti + 1 /\ tj' = 1 /\ UNCHANGED <<tpc, raw, code_table2>>
  BY DEF T!NextPass
<1>2. raw \in Tables /\ ti \in 0 .. Num /\ tj \in 1 .. Num - ti
  BY <1>1 DEF SortInv, SortTypes
<1>3. PICK p \in [T!At -> T!At] : Permutation(p) /\ Stable(p) /\ InPlace(p) /\ Largest(p)
  BY <1>1 DEF SortInv
<1>4. SortTypes'
  BY <1>1, <1>2, NumIsNat, SMT DEF SortTypes
<1>5. Permutation(p)' /\ Stable(p)'
  BY <1>1, <1>3, Zenon DEF Permutation, Stable
<1>6. InPlace(p)'
  <2>1. ASSUME NEW y \in T!At, NEW z \in T!At, y < z, z >= Num - ti - 1 PROVE Less(p[y], p[z])
    <3>1. CASE z >= Num - ti
      BY <1>3, <2>1, <3>1 DEF InPlace
    <3>2. CASE z < Num - ti
      <4>1. z = tj - 1 /\ y \in 0 .. tj - 2
        BY <1>1, <1>2, <2>1, <3>2, NumIsNat, SMT DEF T!At
      <4> QED BY <1>3, <4>1 DEF Largest
    <3> QED BY <1>2, <2>1, <3>1, <3>2, NumIsNat, SMT DEF T!At
  <2>2. Num - ti' = Num - ti - 1
    BY <1>1, <1>2, NumIsNat, SMT
  <2> QED BY <1>1, <2>1, <2>2 DEF InPlace, Less
<1>7. Largest(p)'
  BY <1>1, SMT DEF Largest
<1> QED BY <1>1, <1>3, <1>4, <1>5, <1>6, <1>7 DEF SortInv

\* Every step of the sort keeps its invariant.
LEMMA SortKept == ASSUME SortInv, [T!Next]_tvars PROVE SortInv'
<1>1. CASE T!Finish
  <2>1. tpc = "sort" /\ ti >= Num /\ tpc' = "done" /\ UNCHANGED <<raw, code_table2, ti, tj>>
    BY <1>1 DEF T!Finish
  <2>2. SortTypes'
    BY <2>1, NumIsNat, SMT DEF SortInv, SortTypes
  <2>3. PICK p \in [T!At -> T!At] : Permutation(p) /\ Stable(p) /\ InPlace(p)
    BY <2>1 DEF SortInv
  <2>4. Permutation(p)' /\ Stable(p)' /\ InPlace(p)'
    BY <2>1, <2>3, Zenon DEF Permutation, Stable, InPlace, Less
  <2>5. ~(ti' < Num)
    BY <2>1, NumIsNat, SMT DEF SortInv, SortTypes
  <2> QED BY <2>1, <2>2, <2>4, <2>5 DEF SortInv
<1>2. CASE UNCHANGED tvars
  <2>1. CASE tpc = "idle"
    BY <1>2, <2>1 DEF tvars, SortInv
  <2>2. CASE tpc # "idle"
    <3>1. PICK p \in [T!At -> T!At] : /\ Permutation(p) /\ Stable(p) /\ InPlace(p)
                                      /\ ti < Num => Largest(p)
      BY <2>2 DEF SortInv
    <3>2. UNCHANGED <<raw, code_table2, ti, tj>> /\ tpc' = tpc
      BY <1>2 DEF tvars
    <3>3. Permutation(p)' /\ Stable(p)'
      <4>1. Permutation(p) /\ Stable(p)
        BY <3>1
      <4> QED BY <3>2, <4>1, Zenon DEF Permutation, Stable
    <3>4. InPlace(p)'
      <4>1. InPlace(p)
        BY <3>1
      <4> QED BY <3>2, <4>1, Zenon DEF InPlace, Less
    <3>5. ti' < Num => Largest(p)'
      <4>1. ASSUME ti < Num, Largest(p) PROVE Largest(p)'
        BY <3>2, <4>1, Zenon DEF Largest, Less
      <4> QED BY <3>1, <3>2, <4>1
    <3>6. SortTypes' /\ tpc' \in {"idle", "sort", "done"}
      BY <3>2, <2>2 DEF SortInv, SortTypes
    <3> QED BY <3>3, <3>4, <3>5, <3>6 DEF SortInv
  <2> QED BY <2>1, <2>2
<1> QED BY <1>1, <1>2, StartSorts, CompareSorts, NextPassSorts DEF T!Next, T!Sort

\* The sort counts as FiniteSets does.
LEMMA SameCardinalityT == ASSUME NEW Q PROVE T!Cardinality(Q) = Cardinality(Q)
BY DEF T!Cardinality, Cardinality

\* The image of the first n places.
LEMMA ImageCounts ==
  ASSUME NEW p \in [T!At -> T!At], \A y, z \in T!At : p[y] = p[z] => y = z, NEW n \in 0 .. Num
  PROVE  /\ IsFiniteSet({p[y] : y \in 0 .. n - 1})
         /\ Cardinality({p[y] : y \in 0 .. n - 1}) = n
<1> DEFINE I == {p[y] : y \in 0 .. n - 1}
           f == [y \in 0 .. n - 1 |-> p[y]]
<1>1. 0 .. n - 1 \subseteq T!At
  BY NumIsNat, SMT DEF T!At
<1>2. f \in Bijection(0 .. n - 1, I)
  BY <1>1 DEF Bijection, Injection, Surjection, IsInjective
<1>3. IsFiniteSet(0 .. n - 1) /\ Cardinality(0 .. n - 1) = n
  BY FS_Interval, NumIsNat, SMT
<1>4. ExistsBijection(0 .. n - 1, I)
  BY <1>2 DEF ExistsBijection
<1> HIDE DEF I
<1>5. IsFiniteSet(I) /\ Cardinality(I) = n
  BY <1>3, <1>4, FS_Bijection
<1> QED BY <1>5 DEF I

\* The rank of an entry is its place, if that is one of the last, and before
\* these otherwise.
LEMMA RankIsPlace ==
  ASSUME SortInv, tpc # "idle", NEW p \in [T!At -> T!At], Permutation(p), InPlace(p), NEW z \in T!At
  PROVE  /\ z >= Num - ti => T!Rank(raw, p[z]) = z
         /\ z < Num - ti => T!Rank(raw, p[z]) < Num - ti /\ T!Rank(raw, p[z]) \in Nat
<1> DEFINE Before == {y \in T!At : Less(y, p[z])}
<1>1. T!Rank(raw, p[z]) = Cardinality(Before)
  BY SameCardinalityT DEF T!Rank, Less
<1>2. raw \in Tables /\ ti \in 0 .. Num /\ p[z] \in T!At
  BY DEF SortInv, SortTypes
<1>3. CASE z >= Num - ti
  <2>1. ASSUME NEW x \in Before PROVE x \in {p[y] : y \in 0 .. z - 1}
    <3>1. PICK y \in T!At : p[y] = x
      BY DEF Permutation
    <3>2. ~Less(p[z], x) /\ x # p[z]
      BY <1>2, LessOrders
    <3>3. ~(z < y) /\ y # z
      BY <1>2, <1>3, <3>1, <3>2, NumIsNat, SMT DEF InPlace, T!At
    <3>4. y \in 0 .. z - 1
      BY <3>3, NumIsNat, SMT DEF T!At
    <3> QED BY <3>1, <3>4
  <2>2. ASSUME NEW y \in 0 .. z - 1 PROVE p[y] \in Before
    <3>1. y \in T!At /\ y < z
      BY NumIsNat, SMT DEF T!At
    <3> QED BY <1>3, <3>1 DEF InPlace
  <2>3. Before = {p[y] : y \in 0 .. z - 1}
    BY <2>1, <2>2
  <2>4. z \in 0 .. Num
    BY NumIsNat, SMT DEF T!At
  <2> HIDE DEF Before
  <2>5. Cardinality(Before) = z
    BY <2>3, <2>4, ImageCounts DEF Permutation
  <2> QED BY <1>1, <1>3, <2>5, <1>2, NumIsNat, SMT DEF T!At
<1>4. CASE z < Num - ti
  <2> DEFINE I == {p[y] : y \in 0 .. (Num - ti) - 1}
  <2>1. ASSUME NEW x \in Before PROVE x \in I \ {p[z]}
    <3>1. PICK y \in T!At : p[y] = x
      BY DEF Permutation
    <3>2. ~Less(p[z], x) /\ x # p[z]
      BY <1>2, LessOrders
    <3>3. ~(y >= Num - ti)
      <4>1. SUFFICES ASSUME y >= Num - ti PROVE FALSE
        OBVIOUS
      <4>2. z < y
        BY <1>2, <1>4, <4>1, NumIsNat, SMT DEF T!At
      <4> QED BY <3>1, <3>2, <4>1, <4>2 DEF InPlace
    <3>4. y \in 0 .. (Num - ti) - 1
      BY <1>2, <3>3, NumIsNat, SMT DEF T!At
    <3> QED BY <3>1, <3>2, <3>4
  <2>2. Num - ti \in 0 .. Num /\ z \in 0 .. (Num - ti) - 1
    BY <1>2, <1>4, NumIsNat, SMT DEF T!At
  <2>3. IsFiniteSet(I) /\ Cardinality(I) = Num - ti
    BY <2>2, ImageCounts DEF Permutation
  <2>4. p[z] \in I
    BY <2>2
  <2> HIDE DEF Before, I
  <2>5. IsFiniteSet(I \ {p[z]}) /\ Cardinality(I \ {p[z]}) = Num - ti - 1
    BY <2>3, <2>4, FS_RemoveElement
  <2>6. Cardinality(Before) <= Num - ti - 1
    <3>1. Before \in SUBSET (I \ {p[z]})
      BY <2>1
    <3> QED BY <2>5, <3>1, FS_Subset
  <2>7. Cardinality(Before) \in Nat
    <3>1. Before \in SUBSET (I \ {p[z]})
      BY <2>1
    <3> QED BY <2>5, <3>1, FS_Subset, FS_CardinalityType
  <2> QED BY <1>1, <1>2, <1>4, <2>6, <2>7, NumIsNat, SMT DEF T!At
<1> QED BY <1>2, <1>3, <1>4, NumIsNat, SMT DEF T!At

(***************************************************************************)
(* sort.c:22: for tables of any length, with keys that are there any       *)
(* number of times: after i passes the last i entries are those of the     *)
(* sorted table, and in the end all are; none is lost or doubled, and the  *)
(* entries of one key keep their order.                                    *)
(***************************************************************************)
THEOREM AlwaysSorted == MCSpec => []Sorted
<1>1. MCInit => SortInv
  BY DEF MCInit, T!Init, SortInv
<1>2. SortInv /\ [MCNext]_allVars => SortInv'
  BY Apart, SortKept
<1>3. SortInv => Sorted
  <2> SUFFICES ASSUME SortInv, tpc # "idle", NEW x \in T!At,
                      T!Rank(raw, x) >= Num - ti \/ tpc = "done"
               PROVE  code_table2[T!Rank(raw, x)] = T!Add8080(raw)[x]
    BY DEF Sorted, T!Sorted
  <2>1. PICK p \in [T!At -> T!At] : Permutation(p) /\ InPlace(p)
    BY DEF SortInv
  <2>2. PICK z \in T!At : p[z] = x
    BY <2>1 DEF Permutation
  <2>3. /\ z >= Num - ti => T!Rank(raw, x) = z
        /\ z < Num - ti => T!Rank(raw, x) < Num - ti /\ T!Rank(raw, x) \in Nat
    BY <2>1, <2>2, RankIsPlace
  <2>4. z >= Num - ti
    <3>1. SUFFICES ASSUME z < Num - ti PROVE FALSE
      BY NumIsNat, SMT DEF SortInv, SortTypes, T!At
    <3>2. tpc = "done"
      BY <2>3, <3>1, NumIsNat, SMT DEF SortInv, SortTypes
    <3> QED BY <3>1, <3>2, NumIsNat, SMT DEF SortInv, SortTypes, T!At
  <2>5. code_table2[z] = T!Add8080(raw)[p[z]]
    BY <2>1 DEF Permutation
  <2> QED BY <2>2, <2>3, <2>4, <2>5
<1> QED BY <1>1, <1>2, <1>3, PTL DEF MCSpec

-----------------------------------------------------------------------------
(* StringSearch: the loops of kmp.c and sunday.c.                           *)

\* The first c characters of p are the last of the first m of s.
Suffix(p, s, c, m) == \A y \in 1 .. c : p[y] = s[m - c + y]

\* b is the length of the longest border of the first m characters of p.
IsBorder(p, b, m) ==
  /\ b \in 0 .. m - 1 /\ Suffix(p, p, b, m)
  /\ \A c \in b + 1 .. m - 1 : ~Suffix(p, p, c, m)

\* No match longer than n characters goes on with the next character of s.
NoLonger(p, s, n, m, top) ==
  \A c \in n + 1 .. top : Suffix(p, s, c, m) => p[c + 1] # s[m + 1]

\* Of two matches that end at one place the shorter is a border of the longer.
LEMMA ShorterIsBorder ==
  ASSUME NEW p, NEW s, NEW m \in Nat, NEW n \in Nat, NEW c \in 0 .. n,
         Suffix(p, s, n, m), Suffix(p, s, c, m)
  PROVE  Suffix(p, p, c, n)
<1> SUFFICES ASSUME NEW y \in 1 .. c PROVE p[y] = p[n - c + y]
  BY DEF Suffix
<1>1. n - c + y \in 1 .. n /\ m - n + (n - c + y) = m - c + y
  BY SMT
<1>2. p[n - c + y] = s[m - n + (n - c + y)]
  BY <1>1 DEF Suffix
<1> QED BY <1>1, <1>2 DEF Suffix

\* A border of a match ends at the same place.
LEMMA BorderMatches ==
  ASSUME NEW p, NEW s, NEW m \in Nat, NEW n \in Nat, NEW b \in 0 .. n,
         Suffix(p, s, n, m), Suffix(p, p, b, n)
  PROVE  Suffix(p, s, b, m)
<1> SUFFICES ASSUME NEW y \in 1 .. b PROVE p[y] = s[m - b + y]
  BY DEF Suffix
<1>1. n - b + y \in 1 .. n /\ m - n + (n - b + y) = m - b + y
  BY SMT
<1>2. p[n - b + y] = s[m - n + (n - b + y)]
  BY <1>1 DEF Suffix
<1> QED BY <1>1, <1>2 DEF Suffix

\* A match and the next character make a match one longer, and the other way round.
LEMMA MatchGrows ==
  ASSUME NEW p, NEW s, NEW m \in Nat, NEW c \in Nat
  PROVE  Suffix(p, s, c + 1, m + 1) <=> Suffix(p, s, c, m) /\ p[c + 1] = s[m + 1]
<1>1. ASSUME Suffix(p, s, c + 1, m + 1) PROVE Suffix(p, s, c, m) /\ p[c + 1] = s[m + 1]
  <2>1. p[c + 1] = s[m + 1]
    <3>1. c + 1 \in 1 .. c + 1 /\ (m + 1) - (c + 1) + (c + 1) = m + 1
      BY SMT
    <3>2. p[c + 1] = s[(m + 1) - (c + 1) + (c + 1)]
      BY <1>1, <3>1 DEF Suffix
    <3> QED BY <3>1, <3>2
  <2>2. ASSUME NEW y \in 1 .. c PROVE p[y] = s[m - c + y]
    <3>1. y \in 1 .. c + 1 /\ (m + 1) - (c + 1) + y = m - c + y
      BY SMT
    <3>2. p[y] = s[(m + 1) - (c + 1) + y]
      BY <1>1, <3>1 DEF Suffix
    <3> QED BY <3>1, <3>2
  <2> QED BY <2>1, <2>2 DEF Suffix
<1>2. ASSUME Suffix(p, s, c, m), p[c + 1] = s[m + 1] PROVE Suffix(p, s, c + 1, m + 1)
  <2> SUFFICES ASSUME NEW y \in 1 .. c + 1 PROVE p[y] = s[(m + 1) - (c + 1) + y]
    BY DEF Suffix
  <2>1. CASE y = c + 1
    <3>1. (m + 1) - (c + 1) + y = m + 1
      BY <2>1, SMT
    <3> QED BY <1>2, <2>1, <3>1
  <2>2. CASE y # c + 1
    <3>1. y \in 1 .. c /\ (m + 1) - (c + 1) + y = m - c + y
      BY <2>2, SMT
    <3>2. p[y] = s[m - c + y]
      BY <1>2, <3>1 DEF Suffix
    <3> QED BY <3>1, <3>2
  <2> QED BY <2>1, <2>2
<1> QED BY <1>1, <1>2

\* Falling back to the longest border of the match passes over no match.
LEMMA FallbackSkipsNone ==
  ASSUME NEW p, NEW s, NEW m \in Nat, NEW n \in Nat \ {0}, NEW b, NEW top \in Nat,
         Suffix(p, s, n, m), NoLonger(p, s, n, m, top), p[n + 1] # s[m + 1], IsBorder(p, b, n)
  PROVE  b \in 0 .. n - 1 /\ Suffix(p, s, b, m) /\ NoLonger(p, s, b, m, top)
<1>1. b \in 0 .. n - 1 /\ b \in 0 .. n
  BY SMT DEF IsBorder
<1>2. Suffix(p, s, b, m)
  BY <1>1, BorderMatches DEF IsBorder
<1>3. ASSUME NEW c \in b + 1 .. top, Suffix(p, s, c, m) PROVE p[c + 1] # s[m + 1]
  <2>1. CASE c > n
    <3>1. c \in n + 1 .. top
      BY <1>1, <2>1, SMT
    <3> QED BY <1>3, <3>1 DEF NoLonger
  <2>2. CASE c = n
    BY <2>2
  <2>3. CASE c < n
    <3>1. c \in 0 .. n /\ c \in b + 1 .. n - 1
      BY <1>1, <2>3, SMT
    <3>2. Suffix(p, p, c, n)
      BY <1>3, <3>1, ShorterIsBorder
    <3> QED BY <3>1, <3>2 DEF IsBorder
  <2> QED BY <1>1, <2>1, <2>2, <2>3, SMT
<1> QED BY <1>1, <1>2, <1>3 DEF NoLonger

\* What a turn that goes on to the next character leaves: the longest match.
LEMMA ForwardIsLongest ==
  ASSUME NEW p, NEW s, NEW m \in Nat, NEW n \in Nat, NEW top \in Nat,
         Suffix(p, s, n, m), NoLonger(p, s, n, m, top), n = 0 \/ p[n + 1] = s[m + 1],
         NEW g, g = IF p[n + 1] = s[m + 1] THEN n + 1 ELSE n
  PROVE  Suffix(p, s, g, m + 1) /\ \A c \in g + 1 .. top + 1 : ~Suffix(p, s, c, m + 1)
<1>1. ASSUME NEW c \in g + 1 .. top + 1, Suffix(p, s, c, m + 1) PROVE FALSE
  <2>1. g \in Nat /\ c - 1 \in Nat /\ c - 1 \in g .. top /\ (c - 1) + 1 = c
    BY SMT
  <2>2. Suffix(p, s, c - 1, m) /\ p[c] = s[m + 1]
    BY <1>1, <2>1, MatchGrows
  <2>3. CASE p[n + 1] = s[m + 1]
    <3>1. c - 1 \in n + 1 .. top
      BY <2>1, <2>3, SMT
    <3> QED BY <2>1, <2>2, <3>1 DEF NoLonger
  <2>4. CASE p[n + 1] # s[m + 1]
    <3>1. g = 0 /\ n = 0
      BY <2>4
    <3>2. c - 1 # 0
      BY <2>1, <2>2, <2>4, <3>1, SMT
    <3>3. c - 1 \in n + 1 .. top
      BY <2>1, <3>1, <3>2, SMT
    <3> QED BY <2>1, <2>2, <3>3 DEF NoLonger
  <2> QED BY <2>3, <2>4
<1>2. Suffix(p, s, g, m + 1)
  <2>1. CASE p[n + 1] = s[m + 1]
    BY <2>1, MatchGrows
  <2>2. CASE p[n + 1] # s[m + 1]
    <3>1. g = 0
      BY <2>2
    <3> QED BY <3>1, SMT DEF Suffix
  <2> QED BY <2>1, <2>2
<1> QED BY <1>1, <1>2

\* Border is the longest border.
LEMMA BorderIs ==
  ASSUME NEW m \in 1 .. Len(pattern), NEW b, IsBorder(pattern, b, m), pattern \in Seq(Chars)
  PROVE  S!Border(m) = b
<1>1. ASSUME NEW c \in 0 .. m - 1
      PROVE SubSeq(pattern, 1, c) = SubSeq(pattern, m - c + 1, m) <=> Suffix(pattern, pattern, c, m)
  <2>1. /\ 1 \in 1 .. Len(pattern) + 1 /\ c \in 0 .. Len(pattern)
        /\ m - c + 1 \in 1 .. Len(pattern) + 1 /\ m \in 0 .. Len(pattern)
        /\ 1 \in Nat \ {0} /\ m - c + 1 \in Nat
    BY LenProperties, SMT
  <2>2. /\ SubSeq(pattern, 1, c) \in Seq(Chars) /\ SubSeq(pattern, m - c + 1, m) \in Seq(Chars)
        /\ Len(SubSeq(pattern, 1, c)) = c /\ Len(SubSeq(pattern, m - c + 1, m)) = c
        /\ \A y \in 1 .. c : /\ SubSeq(pattern, 1, c)[y] = pattern[y]
                             /\ SubSeq(pattern, m - c + 1, m)[y] = pattern[m - c + y]
    BY <2>1, SMTT(30)
  <2>3. ASSUME SubSeq(pattern, 1, c) = SubSeq(pattern, m - c + 1, m)
        PROVE  Suffix(pattern, pattern, c, m)
    BY <2>2, <2>3, Zenon DEF Suffix
  <2>4. ASSUME Suffix(pattern, pattern, c, m)
        PROVE  SubSeq(pattern, 1, c) = SubSeq(pattern, m - c + 1, m)
    <3>1. \A y \in 1 .. c : SubSeq(pattern, 1, c)[y] = SubSeq(pattern, m - c + 1, m)[y]
      BY <2>2, <2>4, Zenon DEF Suffix
    <3> QED BY <2>2, <3>1, SeqEqual, Zenon
  <2> QED BY <2>3, <2>4
<1> DEFINE Longest(x) == /\ SubSeq(pattern, 1, x) = SubSeq(pattern, m - x + 1, m)
                         /\ \A c \in x + 1 .. m - 1 : SubSeq(pattern, 1, c) # SubSeq(pattern, m - c + 1, m)
<1>2. b \in 0 .. m - 1 /\ Longest(b)
  <2>1. b \in 0 .. m - 1 /\ \A c \in b + 1 .. m - 1 : c \in 0 .. m - 1
    BY SMT DEF IsBorder
  <2> QED BY <1>1, <2>1 DEF IsBorder
<1>3. ASSUME NEW x \in 0 .. m - 1, Longest(x) PROVE x = b
  <2>1. CASE x < b
    <3>1. b \in x + 1 .. m - 1
      BY <1>2, <2>1, SMT
    <3> QED BY <1>2, <1>3, <3>1
  <2>2. CASE b < x
    <3>1. x \in b + 1 .. m - 1
      BY <1>2, <2>2, SMT
    <3> QED BY <1>2, <1>3, <3>1
  <2> QED BY <1>2, <2>1, <2>2, SMT
<1>4. S!Border(m) = CHOOSE x \in 0 .. m - 1 : Longest(x)
  BY DEF S!Border
<1> HIDE DEF Longest
<1> QED BY <1>2, <1>3, <1>4

\* The searches' variables are typed, and each search has loops of its own.
StringTypes ==
  /\ text \in Seq(Chars) /\ pattern \in Seq(Chars) /\ next \in Seq(Nat)
  /\ si \in Nat /\ k \in Nat /\ pos \in Nat
  /\ spc \in {"idle", "getNext", "kmp", "sunday", "done"} /\ alg \in {"kmp", "sunday"}
  /\ spc \in {"getNext", "kmp"} => alg = "kmp"
  /\ spc = "sunday" => alg = "sunday"

\* next holds the borders of the first n lengths.
HoldsBorders(n) == \A m \in 1 .. n : IsBorder(pattern, next[m], m)

\* kmp.c:9: k is a border of what is behind i, and none that is longer goes on.
NextInv ==
  /\ si \in Nat \ {0} /\ Len(next) = si /\ k \in 0 .. si - 1
  /\ pattern # <<>> => si <= Len(pattern) /\ HoldsBorders(si)
  /\ Suffix(pattern, pattern, k, si)
  /\ NoLonger(pattern, pattern, k, si, si - 1)

\* No match is longer than what is behind i, and a whole one ends the search.
Reach == IF si < Len(pattern) - 1 THEN si ELSE Len(pattern) - 1

\* kmp.c:27: k characters match before i, no longer match goes on, and the
\* pattern has not been passed.
KmpInv ==
  /\ pattern = <<>> => si = 0 /\ k = 0
  /\ pattern # <<>> => /\ Len(next) = Len(pattern) /\ HoldsBorders(Len(pattern))
                       /\ si <= Len(text) /\ k < Len(pattern)
                       /\ k <= si
                       /\ Suffix(pattern, text, k, si)
                       /\ NoLonger(pattern, text, k, si, Reach)
                       /\ \A x \in S!Occurrences : x + Len(pattern) > si

\* sunday.c:18: no occurrence is behind pos.
SundayInv == pos \in Nat \ {0} /\ \A x \in S!Early : pos <= x + 1

\* What is returned is the first occurrence.
FirstReturned ==
  /\ alg = "kmp" => found = IF pattern = <<>> THEN (IF text = <<>> THEN 0 ELSE 1)
                            ELSE IF S!Occurrences = {} THEN 0 ELSE S!FirstOf(S!Occurrences)
  /\ alg = "sunday" => found = IF S!Early = {} THEN -1 ELSE S!FirstOf(S!Early) + 1

StringInv ==
  /\ StringTypes
  /\ spc = "getNext" => NextInv
  /\ spc = "kmp" => KmpInv
  /\ spc = "sunday" => SundayInv
  /\ spc = "done" => FirstReturned

\* The strings that are enumerated are sequences.
LEMMA StringsAreSequences == ASSUME NEW n, NEW s \in S!Strings(n), n \in Nat PROVE s \in Seq(Chars)
<1>1. PICK m \in 0 .. n : s \in [1 .. m -> Chars]
  BY DEF S!Strings
<1> QED BY <1>1, SMT

\* A character of a string, and what is behind the last.
LEMMA CharIn ==
  ASSUME NEW s \in Seq(Chars), NEW x \in Nat
  PROVE  /\ x < Len(s) => S!At(s, x) = s[x + 1] /\ S!At(s, x) \in Chars
         /\ x >= Len(s) => S!At(s, x) = "end"
<1>1. Len(s) \in Nat
  BY LenProperties
<1>2. ASSUME x < Len(s) PROVE S!At(s, x) = s[x + 1] /\ S!At(s, x) \in Chars
  <2>1. x + 1 \in 1 .. Len(s)
    BY <1>1, <1>2, SMT
  <2> QED BY <1>2, <2>1, ElementOfSeq DEF S!At
<1>3. ASSUME x >= Len(s) PROVE S!At(s, x) = "end"
  <2>1. ~(x < Len(s))
    BY <1>1, <1>3, SMT
  <2> QED BY <2>1 DEF S!At
<1> QED BY <1>2, <1>3

\* No character is the terminator.
LEMMA EndIsNone == "end" \notin Chars /\ MaxText \in Nat /\ MaxPattern \in Nat
BY ProgramsAssumption DEF ProgramsAssumption

\* The initial state.
LEMMA StringStarts == S!Init => StringInv
BY SMT DEF S!Init, StringInv, StringTypes

\* A call.
LEMMA StringCalled ==
  ASSUME StringInv, NEW a \in {"kmp", "sunday"}, NEW t \in S!Strings(MaxText),
         NEW p \in S!Strings(MaxPattern), S!Call(a, t, p)
  PROVE  StringInv'
<1>1. t \in Seq(Chars) /\ p \in Seq(Chars)
  BY StringsAreSequences, EndIsNone
<1>2. /\ alg' = a /\ text' = t /\ pattern' = p /\ next' = <<0>> /\ k' = 0
      /\ IF a = "kmp" THEN spc' = "getNext" /\ si' = 1 /\ pos' = 0
                      ELSE spc' = "sunday" /\ si' = 0 /\ pos' = 1
  BY DEF S!Call
<1>3. <<0>> \in Seq(Nat) /\ Len(<<0>>) = 1 /\ <<0>>[1] = 0
  BY SMT
<1>4. StringTypes'
  BY <1>1, <1>2, <1>3, SMT DEF StringTypes
<1>5. CASE a = "kmp"
  <2>1. Suffix(p, p, 0, 1) /\ IsBorder(p, 0, 1) /\ NoLonger(p, p, 0, 1, 0)
    BY SMT DEF Suffix, IsBorder, NoLonger
  <2>2. p # <<>> => 1 <= Len(p)
    BY <1>1, EmptySeq, LenProperties, SMT
  <2>3. HoldsBorders(1)'
    <3>1. ASSUME NEW m \in 1 .. 1 PROVE IsBorder(p, <<0>>[m], m)
      <4>1. m = 1
        BY SMT
      <4> QED BY <1>3, <2>1, <4>1
    <3> QED BY <1>2, <3>1 DEF HoldsBorders
  <2>4. /\ spc' = "getNext" /\ si' = 1 /\ k' = 0 /\ si' \in Nat \ {0} /\ k' \in 0 .. si' - 1
        /\ si' - 1 = 0 /\ Len(next') = si' /\ (pattern' # <<>> => si' <= Len(pattern'))
    BY <1>2, <1>3, <1>5, <2>2, SMT
  <2>5. NextInv'
    BY <1>2, <2>1, <2>3, <2>4 DEF NextInv
  <2> QED BY <1>4, <2>4, <2>5 DEF StringInv
<1>6. CASE a = "sunday"
  <2>1. spc' = "sunday" /\ pos' = 1
    BY <1>2, <1>6
  <2>2. SundayInv'
    BY <1>1, <1>2, <2>1, LenProperties, SMT DEF SundayInv, S!Early, S!Occurrences
  <2> QED BY <1>4, <2>1, <2>2 DEF StringInv
<1> QED BY <1>5, <1>6

\* getNext falls back.
LEMMA NextBackKeeps == ASSUME StringInv, S!NextBack PROVE StringInv'
<1>1. /\ spc = "getNext" /\ si < Len(pattern) /\ k # 0 /\ S!At(pattern, si) # S!At(pattern, k)
      /\ k' = next[k]
      /\ alg' = alg /\ spc' = spc /\ text' = text /\ pattern' = pattern /\ next' = next
      /\ si' = si /\ pos' = pos /\ found' = found
  BY DEF S!NextBack, S!Fallback
<1>2. StringTypes /\ NextInv /\ pattern \in Seq(Chars) /\ Len(pattern) \in Nat
  BY <1>1, LenProperties DEF StringInv, StringTypes
<1>3. si \in Nat \ {0} /\ k \in Nat \ {0} /\ k \in 0 .. si - 1 /\ k \in 1 .. si /\ si - 1 \in Nat /\ k < Len(pattern)
  BY <1>1, <1>2, SMT DEF NextInv
<1>4. pattern[k + 1] # pattern[si + 1]
  BY <1>1, <1>2, <1>3, CharIn, SMT
<1>5. pattern # <<>>
  BY <1>1, <1>2, <1>3, EmptySeq, SMT
<1>6. IsBorder(pattern, next[k], k)
  BY <1>2, <1>3, <1>5 DEF NextInv, HoldsBorders
<1>7. Suffix(pattern, pattern, k, si) /\ NoLonger(pattern, pattern, k, si, si - 1)
  BY <1>2 DEF NextInv
<1>8. next[k] \in 0 .. k - 1 /\ Suffix(pattern, pattern, next[k], si) /\ NoLonger(pattern, pattern, next[k], si, si - 1)
  BY <1>3, <1>4, <1>6, <1>7, FallbackSkipsNone
<1>9. k' \in 0 .. si' - 1 /\ k' \in Nat
  BY <1>1, <1>3, <1>8, SMT
<1>10. StringTypes'
  BY <1>1, <1>2, <1>9 DEF StringTypes
<1>11. HoldsBorders(si) => HoldsBorders(si)'
  BY <1>1 DEF HoldsBorders
<1>12. NextInv'
  BY <1>1, <1>2, <1>8, <1>9, <1>11 DEF NextInv
<1> QED BY <1>1, <1>10, <1>12 DEF StringInv

\* getNext notes the border of one character more.
LEMMA NextForwardKeeps == ASSUME StringInv, S!NextForward PROVE StringInv'
<1>1. /\ spc = "getNext" /\ si < Len(pattern)
      /\ k = 0 \/ S!At(pattern, si) = S!At(pattern, k)
      /\ k' = IF S!At(pattern, si) = S!At(pattern, k) THEN k + 1 ELSE k
      /\ next' = Append(next, k') /\ si' = si + 1
      /\ alg' = alg /\ spc' = spc /\ text' = text /\ pattern' = pattern
      /\ pos' = pos /\ found' = found
  BY DEF S!NextForward
<1>2. /\ StringTypes /\ NextInv /\ pattern \in Seq(Chars) /\ Len(pattern) \in Nat
      /\ next \in Seq(Nat) /\ Len(next) = si
  BY <1>1, LenProperties DEF StringInv, StringTypes, NextInv
<1>3. si \in Nat \ {0} /\ k \in 0 .. si - 1 /\ k \in Nat /\ si - 1 \in Nat /\ k < Len(pattern) /\ si \in Nat
  BY <1>1, <1>2, SMT DEF NextInv
<1>4. S!At(pattern, si) = pattern[si + 1] /\ S!At(pattern, k) = pattern[k + 1]
  BY <1>1, <1>2, <1>3, CharIn
<1>5. pattern # <<>>
  BY <1>1, <1>2, <1>3, EmptySeq, SMT
<1>6. k = 0 \/ pattern[k + 1] = pattern[si + 1]
  BY <1>1, <1>4
<1>7. k' = IF pattern[k + 1] = pattern[si + 1] THEN k + 1 ELSE k
  BY <1>1, <1>4
<1>8. Suffix(pattern, pattern, k, si) /\ NoLonger(pattern, pattern, k, si, si - 1) /\ HoldsBorders(si)
  BY <1>2, <1>5 DEF NextInv
<1>9. Suffix(pattern, pattern, k', si + 1) /\ \A c \in k' + 1 .. (si - 1) + 1 : ~Suffix(pattern, pattern, c, si + 1)
  BY <1>3, <1>6, <1>7, <1>8, ForwardIsLongest
<1>10. /\ k' \in 0 .. (si + 1) - 1 /\ k' \in Nat /\ (si - 1) + 1 = si /\ (si + 1) - 1 = si
       /\ si + 1 \in Nat \ {0} /\ si + 1 <= Len(pattern)
  BY <1>1, <1>2, <1>3, <1>7, SMT
<1>11. IsBorder(pattern, k', si + 1)
  BY <1>9, <1>10 DEF IsBorder
<1>12. /\ next' \in Seq(Nat) /\ Len(next') = si + 1 /\ next'[si + 1] = k'
       /\ \A m \in 1 .. si : next'[m] = next[m]
  BY <1>1, <1>2, <1>10, AppendProperties
<1>13. HoldsBorders(si)'
  <2>1. ASSUME NEW m \in 1 .. si + 1 PROVE IsBorder(pattern, next'[m], m)
    <3>1. CASE m = si + 1
      BY <1>11, <1>12, <3>1
    <3>2. CASE m # si + 1
      <4>1. m \in 1 .. si
        BY <1>3, <3>2, SMT
      <4> QED BY <1>8, <1>12, <4>1 DEF HoldsBorders
    <3> QED BY <3>1, <3>2
  <2> QED BY <1>1, <2>1 DEF HoldsBorders
<1>14. NoLonger(pattern, pattern, k', si + 1, (si + 1) - 1)
  BY <1>9, <1>10 DEF NoLonger
<1>15. StringTypes'
  BY <1>1, <1>2, <1>10, <1>12 DEF StringTypes
<1>16. NextInv'
  BY <1>1, <1>9, <1>10, <1>12, <1>13, <1>14 DEF NextInv
<1> QED BY <1>1, <1>15, <1>16 DEF StringInv

\* The search of kmp begins.
LEMMA NextDoneKeeps == ASSUME StringInv, S!NextDone PROVE StringInv'
<1>1. /\ spc = "getNext" /\ si >= Len(pattern) /\ spc' = "kmp" /\ si' = 0 /\ k' = 0
      /\ alg' = alg /\ text' = text /\ pattern' = pattern /\ next' = next /\ pos' = pos /\ found' = found
  BY DEF S!NextDone
<1>2. StringTypes /\ NextInv /\ pattern \in Seq(Chars) /\ Len(pattern) \in Nat /\ Len(text) \in Nat
  BY <1>1, LenProperties DEF StringInv, StringTypes
<1>3. StringTypes'
  BY <1>1, <1>2 DEF StringTypes
<1>4. ASSUME pattern # <<>>
      PROVE  /\ Len(next) = Len(pattern) /\ HoldsBorders(Len(pattern))'
             /\ 0 <= Len(text) /\ 0 < Len(pattern)
             /\ Suffix(pattern, text, 0, 0) /\ NoLonger(pattern, text, 0, 0, Reach)'
             /\ \A x \in S!Occurrences' : x + Len(pattern) > 0
  <2>1. si = Len(pattern) /\ Len(pattern) > 0
    BY <1>1, <1>2, <1>4, EmptySeq, SMT DEF NextInv
  <2>2. Len(next) = Len(pattern) /\ HoldsBorders(Len(pattern))
    BY <1>2, <1>4, <2>1 DEF NextInv
  <2>3. HoldsBorders(Len(pattern))'
    BY <1>1, <2>2 DEF HoldsBorders
  <2>4. Suffix(pattern, text, 0, 0)
    BY SMT DEF Suffix
  <2>5. NoLonger(pattern, text, 0, 0, Reach)'
    <3>1. Reach' = 0
      BY <1>1, <1>2, <2>1, SMT DEF Reach
    <3>2. NoLonger(pattern, text, 0, 0, 0)
      BY SMT DEF NoLonger
    <3> QED BY <1>1, <3>1, <3>2 DEF NoLonger
  <2>6. \A x \in S!Occurrences' : x + Len(pattern) > 0
    <3> SUFFICES ASSUME NEW x \in S!Occurrences' PROVE x + Len(pattern) > 0
      OBVIOUS
    <3>1. x \in 0 .. Len(text) - Len(pattern)
      BY <1>1 DEF S!Occurrences
    <3> QED BY <1>2, <2>1, <3>1, SMT
  <2> QED BY <1>2, <2>1, <2>2, <2>3, <2>4, <2>5, <2>6, SMT
<1>5. KmpInv'
  <2>1. CASE pattern = <<>>
    BY <1>1, <2>1 DEF KmpInv
  <2>2. CASE pattern # <<>>
    BY <1>1, <1>4, <2>2, SMT DEF KmpInv
  <2> QED BY <2>1, <2>2
<1> QED BY <1>1, <1>3, <1>5 DEF StringInv

\* The search falls back.
LEMMA KmpBackKeeps == ASSUME StringInv, S!KmpBack PROVE StringInv'
<1>1. /\ spc = "kmp" /\ si < Len(text) /\ k > 0 /\ S!At(pattern, k) # S!At(text, si)
      /\ k' = next[k]
      /\ alg' = alg /\ spc' = spc /\ text' = text /\ pattern' = pattern /\ next' = next
      /\ si' = si /\ pos' = pos /\ found' = found
  BY DEF S!KmpBack, S!Fallback
<1>2. /\ StringTypes /\ KmpInv /\ pattern \in Seq(Chars) /\ text \in Seq(Chars)
      /\ Len(pattern) \in Nat /\ Len(text) \in Nat /\ si \in Nat /\ k \in Nat
  BY <1>1, LenProperties DEF StringInv, StringTypes
<1>3. pattern # <<>>
  BY <1>1, <1>2, SMT DEF KmpInv
<1>4. /\ HoldsBorders(Len(pattern)) /\ k < Len(pattern) /\ k <= si
      /\ Suffix(pattern, text, k, si) /\ NoLonger(pattern, text, k, si, Reach)
  BY <1>2, <1>3 DEF KmpInv
<1>5. k \in Nat \ {0} /\ k \in 1 .. Len(pattern) /\ Reach \in Nat
  BY <1>1, <1>2, <1>4, SMT DEF Reach
<1>6. pattern[k + 1] # text[si + 1]
  BY <1>1, <1>2, <1>4, CharIn
<1>7. IsBorder(pattern, next[k], k)
  BY <1>4, <1>5 DEF HoldsBorders
<1>8. next[k] \in 0 .. k - 1 /\ Suffix(pattern, text, next[k], si) /\ NoLonger(pattern, text, next[k], si, Reach)
  BY <1>2, <1>4, <1>5, <1>6, <1>7, FallbackSkipsNone
<1>9. k' \in Nat /\ k' < Len(pattern) /\ k' <= si
  BY <1>1, <1>2, <1>4, <1>8, SMT
<1>10. StringTypes'
  BY <1>1, <1>2, <1>9 DEF StringTypes
<1>11. Reach' = Reach /\ S!Occurrences' = S!Occurrences /\ HoldsBorders(Len(pattern))'
  BY <1>1, <1>4 DEF Reach, S!Occurrences, HoldsBorders
<1>12. KmpInv'
  BY <1>1, <1>2, <1>3, <1>8, <1>9, <1>11 DEF KmpInv
<1> QED BY <1>1, <1>10, <1>12 DEF StringInv

\* An occurrence is a whole match at its end.
LEMMA OccurrenceMatches ==
  ASSUME pattern \in Seq(Chars), text \in Seq(Chars), NEW x \in S!Occurrences
  PROVE  /\ x \in Nat /\ x + Len(pattern) <= Len(text)
         /\ Suffix(pattern, text, Len(pattern), x + Len(pattern))
<1>1. Len(pattern) \in Nat /\ Len(text) \in Nat /\ DOMAIN pattern = 1 .. Len(pattern)
  BY LenProperties
<1>2. x \in 0 .. Len(text) - Len(pattern) /\ \A y \in DOMAIN pattern : text[x + y] = pattern[y]
  BY DEF S!Occurrences
<1>3. x \in Nat /\ x + Len(pattern) <= Len(text) /\ (x + Len(pattern)) - Len(pattern) = x
  BY <1>1, <1>2, SMT
<1> QED BY <1>1, <1>2, <1>3 DEF Suffix

\* The search goes on with the next character.
LEMMA KmpForwardKeeps == ASSUME StringInv, S!KmpForward PROVE StringInv'
<1>1. /\ spc = "kmp" /\ si < Len(text)
      /\ k = 0 \/ S!At(pattern, k) = S!At(text, si)
      /\ k' = IF S!At(text, si) = S!At(pattern, k) THEN k + 1 ELSE k
      /\ k' # Len(pattern) /\ si' = si + 1
      /\ alg' = alg /\ spc' = spc /\ text' = text /\ pattern' = pattern /\ next' = next
      /\ pos' = pos /\ found' = found
  BY DEF S!KmpForward, S!Matched
<1>2. /\ StringTypes /\ KmpInv /\ pattern \in Seq(Chars) /\ text \in Seq(Chars)
      /\ Len(pattern) \in Nat /\ Len(text) \in Nat /\ si \in Nat /\ k \in Nat
  BY <1>1, LenProperties DEF StringInv, StringTypes
<1>3. S!At(text, si) = text[si + 1] /\ S!At(text, si) \in Chars
  BY <1>1, <1>2, CharIn
<1>4. pattern # <<>>
  <2> SUFFICES ASSUME pattern = <<>> PROVE FALSE
    OBVIOUS
  <2>1. k = 0 /\ Len(pattern) = 0
    BY <1>2, EmptySeq DEF KmpInv
  <2>2. S!At(pattern, k) = "end"
    <3>1. k \in Nat /\ k >= Len(pattern)
      BY <2>1, SMT
    <3> QED BY <1>2, <3>1, CharIn, Zenon
  <2>3. S!At(text, si) # S!At(pattern, k)
    BY <1>3, <2>2, EndIsNone
  <2> QED BY <1>1, <2>1, <2>3
<1>5. /\ Len(next) = Len(pattern) /\ HoldsBorders(Len(pattern)) /\ k < Len(pattern) /\ k <= si
      /\ Suffix(pattern, text, k, si) /\ NoLonger(pattern, text, k, si, Reach)
      /\ \A x \in S!Occurrences : x + Len(pattern) > si
  BY <1>2, <1>4 DEF KmpInv
<1>6. S!At(pattern, k) = pattern[k + 1]
  BY <1>2, <1>5, CharIn
<1>7. /\ k = 0 \/ pattern[k + 1] = text[si + 1]
      /\ k' = IF pattern[k + 1] = text[si + 1] THEN k + 1 ELSE k
  BY <1>1, <1>3, <1>6
<1>8. Reach \in Nat /\ k' \in Nat /\ k' < Len(pattern) /\ k' <= si + 1 /\ si + 1 \in Nat /\ si + 1 <= Len(text)
  BY <1>1, <1>2, <1>5, <1>7, SMT DEF Reach
<1>9. Suffix(pattern, text, k', si + 1) /\ \A c \in k' + 1 .. Reach + 1 : ~Suffix(pattern, text, c, si + 1)
  BY <1>2, <1>5, <1>7, <1>8, ForwardIsLongest
<1>10. Reach' \in Nat /\ Reach' <= Reach + 1
  BY <1>1, <1>2, <1>5, SMT DEF Reach
<1>11. NoLonger(pattern, text, k', si + 1, Reach')
  <2> SUFFICES ASSUME NEW c \in k' + 1 .. Reach' PROVE ~Suffix(pattern, text, c, si + 1)
    BY DEF NoLonger
  <2>1. c \in k' + 1 .. Reach + 1
    <3>1. ASSUME NEW a \in Nat, NEW b \in Nat, NEW r \in Nat, b <= r + 1, NEW d \in a + 1 .. b
          PROVE  d \in a + 1 .. r + 1
      BY <3>1, SMT
    <3> QED BY <1>8, <1>10, <3>1, Zenon
  <2> QED BY <1>9, <2>1
<1>12. ASSUME NEW x \in S!Occurrences PROVE x + Len(pattern) > si + 1
  <2>1. /\ x \in Nat /\ x + Len(pattern) <= Len(text)
        /\ Suffix(pattern, text, Len(pattern), x + Len(pattern))
    BY <1>2, OccurrenceMatches
  <2>2. x + Len(pattern) > si
    BY <1>5
  <2>3. ASSUME x + Len(pattern) = si + 1 PROVE FALSE
    <3>1. Len(pattern) \in k' + 1 .. Reach + 1
      BY <1>2, <1>8, <2>1, <2>3, SMT DEF Reach
    <3> QED BY <1>9, <2>1, <2>3, <3>1
  <2> QED BY <1>2, <2>1, <2>2, <2>3, SMT
<1>13. StringTypes'
  BY <1>1, <1>2, <1>8 DEF StringTypes
<1>14. S!Occurrences' = S!Occurrences /\ HoldsBorders(Len(pattern))'
  BY <1>1, <1>5 DEF S!Occurrences, HoldsBorders
<1>15. KmpInv'
  <2> HIDE DEF Reach
  <2> QED BY <1>1, <1>4, <1>5, <1>8, <1>9, <1>11, <1>12, <1>14 DEF KmpInv
<1> QED BY <1>1, <1>13, <1>15 DEF StringInv

\* What is least is what FirstOf chooses.
LEMMA FirstIs == ASSUME NEW Q \in SUBSET Int, NEW x \in Q, \A y \in Q : x <= y PROVE S!FirstOf(Q) = x
<1>1. \A z \in Q : (\A y \in Q : z <= y) => z = x
  BY SMT
<1> QED BY <1>1, Zenon DEF S!FirstOf

\* The search returns the first occurrence.
LEMMA KmpFoundKeeps == ASSUME StringInv, S!KmpFound PROVE StringInv'
<1> DEFINE g == IF S!At(text, si) = S!At(pattern, k) THEN k + 1 ELSE k
<1>1. /\ spc = "kmp" /\ si < Len(text)
      /\ k = 0 \/ S!At(pattern, k) = S!At(text, si)
      /\ g = Len(pattern)
      /\ spc' = "done" /\ found' = si - g + 1
      /\ alg' = alg /\ text' = text /\ pattern' = pattern /\ next' = next /\ k' = k /\ si' = si /\ pos' = pos
  BY DEF S!KmpFound, S!Matched, S!Return
<1>2. /\ StringTypes /\ KmpInv /\ pattern \in Seq(Chars) /\ text \in Seq(Chars)
      /\ Len(pattern) \in Nat /\ Len(text) \in Nat /\ si \in Nat /\ k \in Nat /\ alg = "kmp"
  BY <1>1, LenProperties DEF StringInv, StringTypes
<1>3. StringTypes'
  BY <1>1, <1>2 DEF StringTypes
<1>4. CASE pattern = <<>>
  <2>1. Len(pattern) = 0 /\ si = 0 /\ text # <<>>
    BY <1>1, <1>2, <1>4, EmptySeq, SMT DEF KmpInv
  <2>2. found' = 1
    BY <1>1, <2>1, SMT
  <2> QED BY <1>1, <1>2, <1>3, <1>4, <2>1, <2>2 DEF StringInv, FirstReturned
<1>5. CASE pattern # <<>>
  <2>1. /\ k < Len(pattern) /\ k <= si /\ Suffix(pattern, text, k, si)
        /\ \A x \in S!Occurrences : x + Len(pattern) > si
    BY <1>2, <1>5 DEF KmpInv
  <2>2. S!At(text, si) = text[si + 1] /\ S!At(pattern, k) = pattern[k + 1]
    BY <1>1, <1>2, <2>1, CharIn
  <2>3. S!At(text, si) = S!At(pattern, k) /\ Len(pattern) = k + 1
    BY <1>1, <1>2, <2>1, SMT
  <2> DEFINE x == si - k
  <2>4. /\ x \in 0 .. Len(text) - Len(pattern) /\ found' = x /\ x + (k + 1) = si + 1
    BY <1>1, <1>2, <2>1, <2>3, SMT
  <2>5. Suffix(pattern, text, k + 1, si + 1)
    BY <1>2, <2>1, <2>2, <2>3, MatchGrows
  <2>6. x \in S!Occurrences
    <3>1. DOMAIN pattern = 1 .. k + 1
      BY <1>2, <2>3, LenProperties
    <3>2. (si + 1) - (k + 1) = x
      BY <1>2, SMT
    <3>3. \A y \in DOMAIN pattern : text[x + y] = pattern[y]
      BY <2>5, <3>1, <3>2 DEF Suffix
    <3> HIDE DEF x
    <3> QED BY <2>4, <3>3 DEF S!Occurrences
  <2>7. S!Occurrences \in SUBSET Int /\ \A y \in S!Occurrences : x <= y
    <3>1. ASSUME NEW y \in S!Occurrences PROVE y \in Int /\ x <= y
      <4>1. y \in 0 .. Len(text) - Len(pattern) /\ y + Len(pattern) > si
        BY <2>1 DEF S!Occurrences
      <4> QED BY <1>2, <2>3, <4>1, SMT
    <3> QED BY <3>1
  <2> HIDE DEF x
  <2>8. S!FirstOf(S!Occurrences) = x /\ S!Occurrences # {}
    BY <2>6, <2>7, FirstIs
  <2>9. S!Occurrences' = S!Occurrences
    BY <1>1 DEF S!Occurrences
  <2>10. FirstReturned'
    BY <1>1, <1>2, <1>5, <2>4, <2>8, <2>9, Zenon DEF FirstReturned, S!FirstOf
  <2> QED BY <1>1, <1>3, <2>10 DEF StringInv
<1> QED BY <1>4, <1>5

\* The text is at its end: there is none.
LEMMA KmpNoneKeeps == ASSUME StringInv, S!KmpNone PROVE StringInv'
<1>1. /\ spc = "kmp" /\ si >= Len(text) /\ spc' = "done" /\ found' = 0
      /\ alg' = alg /\ text' = text /\ pattern' = pattern /\ next' = next /\ k' = k /\ si' = si /\ pos' = pos
  BY DEF S!KmpNone, S!Return
<1>2. /\ StringTypes /\ KmpInv /\ pattern \in Seq(Chars) /\ text \in Seq(Chars)
      /\ Len(pattern) \in Nat /\ Len(text) \in Nat /\ si \in Nat /\ alg = "kmp"
  BY <1>1, LenProperties DEF StringInv, StringTypes
<1>3. StringTypes'
  BY <1>1, <1>2 DEF StringTypes
<1>4. CASE pattern = <<>>
  <2>1. Len(text) = 0
    BY <1>1, <1>2, <1>4, SMT DEF KmpInv
  <2>2. text = <<>>
    BY <1>2, <2>1, EmptySeq
  <2> QED BY <1>1, <1>2, <1>3, <1>4, <2>2 DEF StringInv, FirstReturned
<1>5. CASE pattern # <<>>
  <2>1. ASSUME NEW x \in S!Occurrences PROVE FALSE
    <3>1. x + Len(pattern) > si
      BY <1>2, <1>5 DEF KmpInv
    <3>2. x \in Nat /\ x + Len(pattern) <= Len(text)
      BY <1>2, OccurrenceMatches
    <3> QED BY <1>1, <1>2, <3>1, <3>2, SMT
  <2>2. S!Occurrences' = {}
    BY <1>1, <2>1 DEF S!Occurrences
  <2>3. FirstReturned'
    BY <1>1, <1>2, <1>5, <2>2 DEF FirstReturned
  <2> QED BY <1>1, <1>3, <2>3 DEF StringInv
<1> QED BY <1>4, <1>5

\* A finite set of naturals has a greatest member.
LEMMA HasGreatest ==
  ASSUME NEW n \in Nat, NEW Q \in SUBSET (0 .. n), Q # {}
  PROVE  \E x \in Q : \A y \in Q : y <= x
<1> DEFINE R == {n - x : x \in Q}
<1>1. R \in SUBSET Nat /\ R # {}
  <2>1. ASSUME NEW x \in Q PROVE n - x \in Nat
    BY SMT
  <2> QED BY <2>1
<1>2. PICK r \in R : \A y \in R : r <= y
  <2> HIDE DEF R
  <2> QED BY <1>1, HasLeast
<1>3. PICK x \in Q : r = n - x
  BY <1>2
<1>4. ASSUME NEW y \in Q PROVE y <= x
  <2>1. n - x <= n - y
    BY <1>2, <1>3
  <2> QED BY <2>1, SMT
<1> QED BY <1>4

\* The last place of a character is the greatest of its places.
LEMMA LastPlace ==
  ASSUME pattern \in Seq(Chars), NEW c, S!Places(c) # {},
         NEW last, last = CHOOSE x \in S!Places(c) : \A y \in S!Places(c) : y <= x
  PROVE  last \in S!Places(c) /\ \A y \in S!Places(c) : y <= last
<1>1. Len(pattern) \in Nat /\ DOMAIN pattern = 1 .. Len(pattern)
  BY LenProperties
<1>2. S!Places(c) \in SUBSET (0 .. Len(pattern))
  BY <1>1, SMT DEF S!Places
<1>3. \E x \in S!Places(c) : \A y \in S!Places(c) : y <= x
  BY <1>1, <1>2, HasGreatest
<1> QED BY <1>3, Zenon

\* sunday.c:18: a place between this one and the next has no occurrence: the
\* character behind this place would stand in the pattern nearer to its end.
LEMMA ShiftSkipsNone ==
  ASSUME pattern \in Seq(Chars), text \in Seq(Chars), NEW q \in Nat \ {0},
         NEW x \in S!Occurrences, x > q - 1, x < q + S!Alphabet(text[q + Len(pattern)])
  PROVE  FALSE
<1> DEFINE L == Len(pattern)
           c == text[q + L]
           y == q + L - x
<1>1. L \in Nat /\ DOMAIN pattern = 1 .. L
  BY LenProperties
<1>2. x \in Int /\ \A z \in DOMAIN pattern : text[x + z] = pattern[z]
  BY <1>1, LenProperties, SMT DEF S!Occurrences
<1>3. CASE S!Places(c) = {}
  <2>1. S!Alphabet(c) = L
    BY <1>3 DEF S!Alphabet
  <2>2. y \in 1 .. L /\ x + y = q + L
    BY <1>1, <1>2, <2>1, SMT
  <2>3. pattern[y] = c
    BY <1>1, <1>2, <2>2
  <2>4. y \in S!Places(c)
    <3> HIDE DEF y, c
    <3> QED BY <1>1, <2>2, <2>3 DEF S!Places
  <2> QED BY <1>3, <2>4
<1>4. CASE S!Places(c) # {}
  <2> DEFINE last == CHOOSE z \in S!Places(c) : \A w \in S!Places(c) : w <= z
  <2>1. last \in S!Places(c) /\ \A w \in S!Places(c) : w <= last
    BY <1>4, LastPlace
  <2>2. S!Alphabet(c) = L - last
    BY <1>4 DEF S!Alphabet
  <2> HIDE DEF last
  <2>3. last \in 1 .. L
    BY <1>1, <2>1 DEF S!Places
  <2>4. y \in 1 .. L /\ x + y = q + L /\ y > last
    BY <1>1, <1>2, <2>2, <2>3, SMT
  <2>5. pattern[y] = c
    BY <1>1, <1>2, <2>4
  <2>6. y \in S!Places(c)
    <3> HIDE DEF y, c
    <3> QED BY <1>1, <2>4, <2>5 DEF S!Places
  <2>7. y <= last
    BY <2>1, <2>6
  <2> QED BY <1>1, <1>2, <2>3, <2>4, <2>7, SMT
<1> QED BY <1>3, <1>4

\* Alphabet never turns back.
LEMMA AlphabetIsNat == ASSUME pattern \in Seq(Chars), NEW c PROVE S!Alphabet(c) \in Nat
<1>1. Len(pattern) \in Nat /\ DOMAIN pattern = 1 .. Len(pattern)
  BY LenProperties
<1>2. CASE S!Places(c) = {}
  BY <1>1, <1>2 DEF S!Alphabet
<1>3. CASE S!Places(c) # {}
  <2> DEFINE last == CHOOSE z \in S!Places(c) : \A w \in S!Places(c) : w <= z
  <2>1. last \in S!Places(c)
    BY <1>3, LastPlace
  <2>2. S!Alphabet(c) = Len(pattern) - last
    BY <1>3 DEF S!Alphabet
  <2> HIDE DEF last
  <2>3. last \in 1 .. Len(pattern)
    BY <1>1, <2>1 DEF S!Places
  <2> QED BY <1>1, <2>2, <2>3, SMT
<1> QED BY <1>2, <1>3

\* The pattern fits at a place where it occurs and nowhere else.
LEMMA FitsIsOccurrence ==
  ASSUME pattern \in Seq(Chars), text \in Seq(Chars), pos \in Nat \ {0}, S!InRange
  PROVE  S!Fits <=> pos - 1 \in S!Early
<1>1. Len(pattern) \in Nat /\ Len(text) \in Nat /\ DOMAIN pattern = 1 .. Len(pattern)
  BY LenProperties
<1>2. pos <= Len(text) - Len(pattern)
  BY DEF S!InRange
<1>3. pos - 1 \in 0 .. Len(text) - Len(pattern) /\ pos - 1 < Len(text) - Len(pattern)
  BY <1>1, <1>2, SMT
<1>4. ASSUME NEW x \in 0 .. Len(pattern) - 1
      PROVE /\ x + 1 \in DOMAIN pattern /\ S!At(text, pos - 1 + x) = text[pos - 1 + (x + 1)]
            /\ S!At(pattern, x) = pattern[x + 1]
  <2>1. /\ x \in Nat /\ pos - 1 + x \in Nat /\ x < Len(pattern) /\ pos - 1 + x < Len(text)
        /\ pos - 1 + (x + 1) = pos - 1 + x + 1 /\ x + 1 \in 1 .. Len(pattern)
    BY <1>1, <1>2, SMT
  <2> QED BY <1>1, <2>1, CharIn
<1>5. ASSUME S!Fits PROVE pos - 1 \in S!Early
  <2>1. ASSUME NEW y \in DOMAIN pattern PROVE text[pos - 1 + y] = pattern[y]
    <3>1. y - 1 \in 0 .. Len(pattern) - 1 /\ (y - 1) + 1 = y
      BY <1>1, SMT
    <3>2. S!At(text, pos - 1 + (y - 1)) = S!At(pattern, y - 1)
      BY <1>5, <3>1 DEF S!Fits
    <3> QED BY <1>4, <3>1, <3>2
  <2> QED BY <1>3, <2>1 DEF S!Early, S!Occurrences
<1>6. ASSUME pos - 1 \in S!Early PROVE S!Fits
  <2>1. \A y \in DOMAIN pattern : text[pos - 1 + y] = pattern[y]
    BY <1>6 DEF S!Early, S!Occurrences
  <2> QED BY <1>4, <2>1 DEF S!Fits
<1> QED BY <1>5, <1>6

\* Sunday's pattern fits.
LEMMA SundayFoundKeeps == ASSUME StringInv, S!SundayFound PROVE StringInv'
<1>1. /\ spc = "sunday" /\ S!InRange /\ S!Fits /\ spc' = "done" /\ found' = pos
      /\ alg' = alg /\ text' = text /\ pattern' = pattern /\ next' = next /\ k' = k /\ si' = si /\ pos' = pos
  BY DEF S!SundayFound, S!Return
<1>2. /\ StringTypes /\ SundayInv /\ pattern \in Seq(Chars) /\ text \in Seq(Chars)
      /\ Len(pattern) \in Nat /\ Len(text) \in Nat /\ pos \in Nat \ {0} /\ alg = "sunday"
  BY <1>1, LenProperties DEF StringInv, StringTypes, SundayInv
<1>3. StringTypes'
  BY <1>1, <1>2 DEF StringTypes
<1>4. pos - 1 \in S!Early
  BY <1>1, <1>2, FitsIsOccurrence
<1>5. S!Early \in SUBSET Int /\ \A y \in S!Early : pos - 1 <= y
  <2>1. ASSUME NEW y \in S!Early PROVE y \in Int /\ pos - 1 <= y
    <3>1. y \in 0 .. Len(text) - Len(pattern) /\ pos <= y + 1
      BY <1>2 DEF SundayInv, S!Early, S!Occurrences
    <3> QED BY <1>2, <3>1, SMT
  <2> QED BY <2>1
<1>6. S!FirstOf(S!Early) = pos - 1 /\ S!Early # {}
  BY <1>4, <1>5, FirstIs
<1>7. S!Early' = S!Early
  BY <1>1 DEF S!Early, S!Occurrences
<1>8. found' = S!FirstOf(S!Early) + 1
  BY <1>1, <1>2, <1>6, SMT
<1>9. FirstReturned'
  BY <1>1, <1>2, <1>6, <1>7, <1>8, Zenon DEF FirstReturned, S!FirstOf
<1> QED BY <1>1, <1>3, <1>9 DEF StringInv

\* Sunday's pattern is shifted.
LEMMA SundayShiftKeeps == ASSUME StringInv, S!SundayShift PROVE StringInv'
<1> DEFINE c == S!At(text, pos + Len(pattern) - 1)
<1>1. /\ spc = "sunday" /\ S!InRange /\ ~S!Fits /\ pos' = pos + S!Alphabet(c) + 1
      /\ alg' = alg /\ spc' = spc /\ text' = text /\ pattern' = pattern /\ next' = next
      /\ si' = si /\ k' = k /\ found' = found
  BY DEF S!SundayShift
<1>2. /\ StringTypes /\ SundayInv /\ pattern \in Seq(Chars) /\ text \in Seq(Chars)
      /\ Len(pattern) \in Nat /\ Len(text) \in Nat /\ pos \in Nat \ {0}
  BY <1>1, LenProperties DEF StringInv, StringTypes, SundayInv
<1>3. c = text[pos + Len(pattern)]
  <2>1. /\ pos + Len(pattern) - 1 \in Nat /\ pos + Len(pattern) - 1 < Len(text)
        /\ pos + Len(pattern) - 1 + 1 = pos + Len(pattern)
    BY <1>1, <1>2, SMT DEF S!InRange
  <2> QED BY <1>2, <2>1, CharIn
<1>4. S!Alphabet(c) \in Nat
  BY <1>2, AlphabetIsNat
<1>5. pos' \in Nat \ {0}
  <2> HIDE DEF c
  <2> QED BY <1>1, <1>2, <1>4, SMT
<1>6. ASSUME NEW x \in S!Early PROVE pos' <= x + 1
  <2>1. x \in S!Occurrences /\ x \in Int /\ pos <= x + 1
    BY <1>2, SMT DEF SundayInv, S!Early, S!Occurrences
  <2>2. x # pos - 1
    BY <1>1, <1>2, FitsIsOccurrence
  <2>3. x > pos - 1
    BY <1>2, <2>1, <2>2, SMT
  <2>4. ~(x < pos + S!Alphabet(c))
    <3>1. c = text[pos + Len(pattern)]
      BY <1>3
    <3> HIDE DEF c
    <3> QED BY <1>2, <2>1, <2>3, <3>1, ShiftSkipsNone
  <2> HIDE DEF c
  <2> QED BY <1>1, <1>2, <1>4, <2>1, <2>4, SMT
<1>7. StringTypes'
  BY <1>1, <1>2, <1>5 DEF StringTypes
<1>8. S!Early' = S!Early
  BY <1>1 DEF S!Early, S!Occurrences
<1> QED BY <1>1, <1>5, <1>6, <1>7, <1>8 DEF StringInv, SundayInv

\* Sunday's pattern is at the end of the text.
LEMMA SundayNoneKeeps == ASSUME StringInv, S!SundayNone PROVE StringInv'
<1>1. /\ spc = "sunday" /\ ~S!InRange /\ spc' = "done" /\ found' = -1
      /\ alg' = alg /\ text' = text /\ pattern' = pattern /\ next' = next /\ k' = k /\ si' = si /\ pos' = pos
  BY DEF S!SundayNone, S!Return
<1>2. /\ StringTypes /\ SundayInv /\ pattern \in Seq(Chars) /\ text \in Seq(Chars)
      /\ Len(pattern) \in Nat /\ Len(text) \in Nat /\ pos \in Nat \ {0} /\ alg = "sunday"
  BY <1>1, LenProperties DEF StringInv, StringTypes, SundayInv
<1>3. StringTypes'
  BY <1>1, <1>2 DEF StringTypes
<1>4. ASSUME NEW x \in S!Early PROVE FALSE
  <2>1. x \in 0 .. Len(text) - Len(pattern) /\ x < Len(text) - Len(pattern) /\ pos <= x + 1
    BY <1>2 DEF SundayInv, S!Early, S!Occurrences
  <2>2. ~(pos <= Len(text) - Len(pattern))
    BY <1>1 DEF S!InRange
  <2> QED BY <1>2, <2>1, <2>2, SMT
<1>5. S!Early' = {}
  BY <1>1, <1>4 DEF S!Early, S!Occurrences
<1>6. FirstReturned'
  BY <1>1, <1>2, <1>5 DEF FirstReturned
<1> QED BY <1>1, <1>3, <1>6 DEF StringInv

\* Every step of the searches keeps their invariant.
LEMMA StringKept == ASSUME StringInv, [S!Next]_svars PROVE StringInv'
<1>1. CASE S!Search
  BY <1>1, NextBackKeeps, NextForwardKeeps, NextDoneKeeps, KmpBackKeeps, KmpForwardKeeps,
     KmpFoundKeeps, KmpNoneKeeps, SundayFoundKeeps, SundayShiftKeeps, SundayNoneKeeps DEF S!Search
<1>2. ASSUME NEW a \in {"kmp", "sunday"}, NEW t \in S!Strings(MaxText), NEW p \in S!Strings(MaxPattern),
             S!Call(a, t, p)
      PROVE  StringInv'
  BY <1>2, StringCalled
<1>3. CASE UNCHANGED svars
  <2>1. /\ alg' = alg /\ spc' = spc /\ text' = text /\ pattern' = pattern /\ next' = next
        /\ si' = si /\ k' = k /\ pos' = pos /\ found' = found
    BY <1>3 DEF svars
  <2>2. StringTypes'
    BY <2>1 DEF StringInv, StringTypes
  <2>3. S!Occurrences' = S!Occurrences /\ S!Early' = S!Early
    BY <2>1 DEF S!Occurrences, S!Early
  <2>4. /\ NextInv => NextInv'
        /\ KmpInv => KmpInv'
        /\ SundayInv => SundayInv'
        /\ FirstReturned => FirstReturned'
    BY <2>1, <2>3, Zenon DEF NextInv, KmpInv, SundayInv, FirstReturned, HoldsBorders, Reach, S!FirstOf
  <2> QED BY <2>1, <2>2, <2>4 DEF StringInv
<1> QED BY <1>1, <1>2, <1>3 DEF S!Next

\* What the invariant says of the table and of the results.
LEMMA StringFinds == ASSUME StringInv PROVE SearchesFindFirst
<1>1. ASSUME spc = "kmp", NEW m \in DOMAIN pattern PROVE next[m] = S!Border(m)
  <2>1. pattern \in Seq(Chars) /\ m \in 1 .. Len(pattern) /\ pattern # <<>>
    <3>1. pattern \in Seq(Chars)
      BY DEF StringInv, StringTypes
    <3>2. DOMAIN pattern = 1 .. Len(pattern) /\ Len(pattern) \in Nat
      BY <3>1, LenProperties
    <3> QED BY <3>1, <3>2, EmptySeq, SMT
  <2>2. IsBorder(pattern, next[m], m)
    BY <1>1, <2>1 DEF StringInv, KmpInv, HoldsBorders
  <2> QED BY <2>1, <2>2, BorderIs
<1>2. S!KmpFindsFirst
  BY <1>1 DEF StringInv, FirstReturned, S!KmpFindsFirst
<1>3. S!SundayFindsFirst
  BY DEF StringInv, SundayInv, FirstReturned, S!SundayFindsFirst
<1> QED BY <1>2, <1>3 DEF SearchesFindFirst

(***************************************************************************)
(* kmp.c:21, sunday.c:18: for every alphabet, text and pattern getNext's   *)
(* table holds the longest borders, falling back or shifting passes over   *)
(* no occurrence, and each search returns the first one it may return.     *)
(***************************************************************************)
THEOREM FirstAlwaysFound == MCSpec => []SearchesFindFirst
<1>1. MCInit => StringInv
  BY StringStarts DEF MCInit
<1>2. StringInv /\ [MCNext]_allVars => StringInv'
  BY Apart, StringKept
<1>3. StringInv => SearchesFindFirst
  BY StringFinds
<1> QED BY <1>1, <1>2, <1>3, PTL DEF MCSpec

-----------------------------------------------------------------------------
(* SocketPair: parent and child.                                            *)

\* The messages are natural numbers.
PairTypes ==
  /\ ppc \in [P!Procs -> {"fork", "close", "send", "recv", "dead"}]
  /\ val \in [P!Procs -> Nat]
  /\ holds \in [0..1 -> SUBSET P!Procs]
  /\ queue \in [0..1 -> Seq(Nat)]
  /\ sent \in Nat

BothRun == ppc["parent"] \notin {"fork", "dead"} /\ ppc["child"] # "dead"

\* Before the fork there is one process, and it has done nothing.
Alone ==
  /\ ppc["child"] # "fork"
  /\ ppc["parent"] = "fork" =>
       ppc["child"] = "dead" /\ queue[0] = <<>> /\ queue[1] = <<>> /\ sent = 0

\* A process holds its end until it is dead, and the other one until it has
\* closed it.
Ends ==
  ppc["parent"] # "fork" => \A p \in P!Procs :
    /\ ppc[p] # "dead" <=> p \in holds[P!EndOf(p)]
    /\ ppc[p] # "close" => p \notin holds[P!EndOf(P!Other(p))]

\* There is one message or none, and while both run one of them has the turn
\* or the message is on its way.
OneMessage == Len(queue[0]) + Len(queue[1]) <= 1

ParentsTurn == /\ ppc["parent"] \in {"close", "send"} /\ ppc["child"] \in {"close", "recv"}
               /\ queue[0] = <<>> /\ queue[1] = <<>>
               /\ sent > 0 => ppc["parent"] = "send" /\ val["parent"] = sent + 1
ToChild == /\ ppc["parent"] = "recv" /\ ppc["child"] \in {"close", "recv"}
           /\ queue[0] = <<sent>> /\ queue[1] = <<>>
ChildsTurn == /\ ppc["parent"] = "recv" /\ ppc["child"] = "send"
              /\ queue[0] = <<>> /\ queue[1] = <<>>
              /\ val["child"] = sent
ToParent == /\ ppc["parent"] = "recv" /\ ppc["child"] = "recv"
            /\ queue[0] = <<>> /\ queue[1] = <<sent + 1>>
TheirTurns == BothRun => ParentsTurn \/ ToChild \/ ChildsTurn \/ ToParent

PairInv == PairTypes /\ Alone /\ Ends /\ OneMessage /\ TheirTurns

-----------------------------------------------------------------------------
\* One process, and nothing sent.
LEMMA PairInitially == P!Init => PairInv
BY SMTT(30) DEF P!Init, PairInv, PairTypes, Alone, Ends, OneMessage, TheirTurns, BothRun, P!Procs

\* Fork (line 17): both processes start with both ends open and the parent's turn.
LEMMA PairForkKeeps == PairInv /\ P!Fork => PairInv'
BY SMTT(30) DEF P!Fork, PairInv, PairTypes, Alone, Ends, OneMessage, TheirTurns, BothRun, ParentsTurn,
   P!Procs, P!EndOf, P!Other

\* Closing the other's end (lines 21 and 35).
LEMMA PairCloseKeeps == ASSUME PairInv, NEW p \in P!Procs, P!Close(p) PROVE PairInv'
BY SMTT(60) DEF P!Close, PairInv, PairTypes, Alone, Ends, OneMessage, TheirTurns, BothRun,
   ParentsTurn, ToChild, ChildsTurn, ToParent, P!Procs, P!EndOf, P!Other

\* A death takes the claims about two running processes away, and both ends.
LEMMA PairKillKeeps == ASSUME PairInv, NEW p \in P!Procs, P!Kill(p) PROVE PairInv'
BY SMTT(60) DEF P!Kill, P!Dies, PairInv, PairTypes, Alone, Ends, OneMessage, TheirTurns, BothRun,
   ParentsTurn, ToChild, ChildsTurn, ToParent, P!Procs, P!EndOf, P!Other

\* A write hands the turn to the message, or finds nobody there and ends the
\* process.
LEMMA PairWriteKeeps == ASSUME PairInv, NEW p \in P!Procs, P!Write(p) PROVE PairInv'
<1> USE DEF P!Procs, P!EndOf, P!Other
<1>1. CASE ~P!Connected(p)
  BY <1>1, SMTT(60) DEF P!Write, P!Sends, P!Connected, P!Dies, PairInv, PairTypes, Alone, Ends, OneMessage,
     TheirTurns, BothRun, ParentsTurn, ToChild, ChildsTurn, ToParent
<1>2. CASE P!Connected(p) /\ ppc[P!Other(p)] = "dead"
  <2>1. ppc["parent"] # "fork" /\ ppc[p] # "close" /\ ppc[p] # "dead"
    BY <1>2, SMTT(30) DEF P!Write, PairInv, PairTypes, Alone
  <2>2. /\ P!Other(p) \notin holds[P!EndOf(P!Other(p))]
        /\ p \notin holds[P!EndOf(P!Other(p))]
    BY <1>2, <2>1, SMTT(30) DEF PairInv, PairTypes, Ends
  <2>3. holds[P!EndOf(P!Other(p))] \subseteq {p, P!Other(p)}
    BY SMTT(30) DEF PairInv, PairTypes
  <2> QED BY <1>2, <2>2, <2>3 DEF P!Connected
<1>3. CASE P!Connected(p) /\ ppc[P!Other(p)] # "dead"
  <2>1. /\ ppc' = [ppc EXCEPT ![p] = "recv"]
        /\ val' = [val EXCEPT ![p] = @ + 1]
        /\ queue' = [queue EXCEPT ![P!EndOf(P!Other(p))] = Append(@, val[p] + 1)]
        /\ sent' = IF p = "parent" THEN val[p] + 1 ELSE sent
        /\ holds' = holds
        /\ ppc[p] = "send"
    BY <1>3 DEF P!Write, P!Sends
  <2>2. PairTypes'
    <3>1. Append(queue[P!EndOf(P!Other(p))], val[p] + 1) \in Seq(Nat)
      BY SMTT(30) DEF PairInv, PairTypes
    <3> QED BY <2>1, <3>1, SMTT(30) DEF PairInv, PairTypes
  <2>3. /\ queue[0] = <<>> /\ queue[1] = <<>>
        /\ p = "child" => val[p] = sent /\ ppc["parent"] = "recv"
        /\ p = "parent" => ppc["child"] \in {"close", "recv"}
    BY <1>3, <2>1, SMTT(30) DEF PairInv, PairTypes, Alone, TheirTurns, BothRun, ParentsTurn, ToChild,
       ChildsTurn, ToParent
  <2>4. queue' = [queue EXCEPT ![P!EndOf(P!Other(p))] = <<val[p] + 1>>]
    <3>1. P!EndOf(P!Other(p)) \in 0..1 /\ val[p] + 1 \in Nat
      BY SMTT(30) DEF PairInv, PairTypes
    <3>2. queue[P!EndOf(P!Other(p))] = <<>>
      BY <2>3, SMTT(30)
    <3>3. Append(<<>>, val[p] + 1) = <<val[p] + 1>>
      BY <3>1, SMTT(30)
    <3> QED BY <2>1, <3>1, <3>2, <3>3
  <2>5. Alone' /\ Ends'
    BY <1>3, <2>1, SMTT(30) DEF PairInv, PairTypes, Alone, Ends
  <2>6. /\ queue'[P!EndOf(P!Other(p))] = <<val[p] + 1>>
        /\ queue'[P!EndOf(p)] = <<>>
    BY <2>3, <2>4, SMTT(30) DEF PairInv, PairTypes
  <2>7. OneMessage'
    <3>1. Len(queue'[P!EndOf(P!Other(p))]) = 1 /\ Len(queue'[P!EndOf(p)]) = 0
      BY <2>6
    <3>2. CASE p = "parent"
      <4>1. Len(queue'[0]) = 1 /\ Len(queue'[1]) = 0
        BY <3>1, <3>2
      <4> QED BY <4>1 DEF OneMessage
    <3>3. CASE p = "child"
      <4>1. Len(queue'[1]) = 1 /\ Len(queue'[0]) = 0
        BY <3>1, <3>3
      <4> QED BY <4>1 DEF OneMessage
    <3> QED BY <3>2, <3>3
  <2>8. TheirTurns'
    <3>1. CASE p = "parent"
      <4>1. P!EndOf(p) = 1 /\ P!EndOf(P!Other(p)) = 0 /\ sent' = val[p] + 1
        BY <2>1, <3>1
      <4>2. queue'[0] = <<sent'>> /\ queue'[1] = <<>>
        BY <2>6, <4>1, Zenon
      <4>3. ppc'["parent"] = "recv" /\ ppc'["child"] \in {"close", "recv"}
        BY <2>1, <2>3, <3>1, SMTT(30) DEF PairInv, PairTypes
      <4> QED BY <4>2, <4>3 DEF TheirTurns, ToChild
    <3>2. CASE p = "child"
      <4>1. P!EndOf(p) = 0 /\ P!EndOf(P!Other(p)) = 1 /\ sent' + 1 = val[p] + 1
        BY <2>1, <2>3, <3>2
      <4>2. queue'[0] = <<>> /\ queue'[1] = <<sent' + 1>>
        BY <2>6, <4>1, Zenon
      <4>3. ppc'["parent"] = "recv" /\ ppc'["child"] = "recv"
        BY <2>1, <2>3, <3>2, SMTT(30) DEF PairInv, PairTypes
      <4> QED BY <4>2, <4>3 DEF TheirTurns, ToParent
    <3> QED BY <3>1, <3>2
  <2> QED BY <2>2, <2>5, <2>7, <2>8 DEF PairInv
<1> QED BY <1>1, <1>2, <1>3

\* A read takes the one message and the turn, or finds the end of the stream.
LEMMA PairReadKeeps == ASSUME PairInv, NEW p \in P!Procs, P!Read(p) PROVE PairInv'
<1> USE DEF P!Procs, P!EndOf, P!Other
<1>1. CASE queue[P!EndOf(p)] = <<>>
  BY <1>1, SMTT(60) DEF P!Read, P!Connected, PairInv, PairTypes, Alone, Ends, OneMessage,
     TheirTurns, BothRun, ParentsTurn, ToChild, ChildsTurn, ToParent
<1>2. CASE queue[P!EndOf(p)] # <<>>
  <2>1. /\ ppc' = [ppc EXCEPT ![p] = "send"]
        /\ val' = [val EXCEPT ![p] = Head(queue[P!EndOf(p)])]
        /\ queue' = [queue EXCEPT ![P!EndOf(p)] = Tail(@)]
        /\ sent' = sent /\ holds' = holds
        /\ ppc[p] = "recv"
    BY <1>2, SMTT(30) DEF P!Read
  <2>2. /\ Len(queue[P!EndOf(p)]) = 1 /\ Len(queue[P!EndOf(P!Other(p))]) = 0
        /\ queue[P!EndOf(P!Other(p))] = <<>>
        /\ Tail(queue[P!EndOf(p)]) = <<>>
        /\ Head(queue[P!EndOf(p)]) \in Nat
    <3>1. /\ queue[P!EndOf(p)] \in Seq(Nat) /\ queue[P!EndOf(P!Other(p))] \in Seq(Nat)
          /\ Len(queue[P!EndOf(p)]) + Len(queue[P!EndOf(P!Other(p))]) <= 1
      <4>2. queue[0] \in Seq(Nat) /\ queue[1] \in Seq(Nat) /\ Len(queue[0]) + Len(queue[1]) <= 1
        BY DEF PairInv, PairTypes, OneMessage
      <4>3. Len(queue[0]) \in Nat /\ Len(queue[1]) \in Nat
        BY <4>2, LenProperties
      <4>4. Len(queue[1]) + Len(queue[0]) <= 1
        <5>1. ASSUME NEW a \in Nat, NEW b \in Nat, a + b <= 1 PROVE b + a <= 1
          BY <5>1, SMTT(30)
        <5> QED BY <4>2, <4>3, <5>1, Zenon
      <4>5. \/ P!EndOf(p) = 1 /\ P!EndOf(P!Other(p)) = 0
            \/ P!EndOf(p) = 0 /\ P!EndOf(P!Other(p)) = 1
        OBVIOUS
      <4> HIDE DEF P!Procs, P!EndOf, P!Other
      <4> QED BY <4>2, <4>4, <4>5, Zenon
    <3>2. Len(queue[P!EndOf(p)]) = 1 /\ Len(queue[P!EndOf(P!Other(p))]) = 0
      <4>1. Len(queue[P!EndOf(p)]) \in Nat \ {0}
        BY <1>2, <3>1, EmptySeq
      <4>2. Len(queue[P!EndOf(P!Other(p))]) \in Nat
        BY <3>1, LenProperties
      <4>3. Len(queue[P!EndOf(p)]) + Len(queue[P!EndOf(P!Other(p))]) <= 1
        BY <3>1
      <4>4. ASSUME NEW a \in Nat \ {0}, NEW b \in Nat, a + b <= 1 PROVE a = 1 /\ b = 0
        BY <4>4, SMTT(30)
      <4> QED BY <4>1, <4>2, <4>3, <4>4, Zenon
    <3>3. queue[P!EndOf(P!Other(p))] = <<>>
      BY <3>1, <3>2, EmptySeq
    <3>4. /\ Head(queue[P!EndOf(p)]) \in Nat
          /\ Tail(queue[P!EndOf(p)]) \in Seq(Nat)
          /\ Len(Tail(queue[P!EndOf(p)])) = 0
      BY <1>2, <3>1, <3>2, HeadTailProperties, SMTT(30)
    <3>5. Tail(queue[P!EndOf(p)]) = <<>>
      BY <3>4, EmptySeq
    <3> QED BY <3>2, <3>3, <3>4, <3>5
  <2>3. queue' = [e \in 0..1 |-> <<>>]
    <3>1. queue' = [queue EXCEPT ![P!EndOf(p)] = <<>>]
      BY <2>1, <2>2
    <3>2. ASSUME NEW e \in 0..1 PROVE queue'[e] = <<>>
      BY <2>2, <3>1, SMTT(30) DEF PairInv, PairTypes
    <3>3. queue' = [e \in 0..1 |-> queue'[e]]
      BY <3>1 DEF PairInv, PairTypes
    <3> QED BY <3>2, <3>3
  <2>4. PairTypes'
    BY <2>1, <2>2, <2>3, SMTT(30) DEF PairInv, PairTypes
  <2>5. Alone' /\ Ends'
    BY <2>1, <2>2, SMTT(30) DEF PairInv, PairTypes, Alone, Ends
  <2>6. OneMessage'
    BY <2>3, SMTT(30) DEF OneMessage
  <2>7. ASSUME BothRun PROVE TheirTurns'
    <3>1. CASE p = "child"
      <4>1. ToChild
        BY <2>2, <2>1, <2>7, <3>1, <1>2, SMTT(30)
        DEF PairInv, TheirTurns, BothRun, ParentsTurn, ToChild, ChildsTurn, ToParent
      <4>2. Head(queue[0]) = sent
        BY <4>1, SMTT(30) DEF ToChild
      <4> QED BY <4>1, <4>2, <2>1, <2>3, <3>1, SMTT(30) DEF PairInv, PairTypes, TheirTurns, ToChild, ChildsTurn
    <3>2. CASE p = "parent"
      <4>1. ToParent
        BY <2>2, <2>1, <2>7, <3>2, <1>2, SMTT(30)
        DEF PairInv, TheirTurns, BothRun, ParentsTurn, ToChild, ChildsTurn, ToParent
      <4>2. Head(queue[1]) = sent + 1
        BY <4>1, SMTT(30) DEF ToParent
      <4> QED BY <4>1, <4>2, <2>1, <2>3, <3>2, SMTT(30) DEF PairInv, PairTypes, TheirTurns, ToParent, ParentsTurn
    <3> QED BY <3>1, <3>2
  <2>8. BothRun' => BothRun
    BY <2>1, SMTT(30) DEF BothRun, PairInv, PairTypes
  <2> QED BY <2>4, <2>5, <2>6, <2>7, <2>8 DEF PairInv, TheirTurns
<1> QED BY <1>1, <1>2

\* The invariant is what the property needs.
LEMMA PairImplies == PairInv => P!TakeTurns
<1> SUFFICES ASSUME PairInv PROVE P!TakeTurns  OBVIOUS
<1>1. Len(queue[0]) + Len(queue[1]) <= 1
  BY DEF PairInv, OneMessage
<1>2. ASSUME ppc["parent"] = "send", P!Connected("parent"), sent > 0
      PROVE val["parent"] = sent + 1
  BY <1>2, SMTT(30) DEF PairInv, PairTypes, Alone, Ends, TheirTurns, BothRun, P!Connected, P!Procs, P!EndOf, P!Other,
     ParentsTurn, ToChild, ChildsTurn, ToParent
<1> QED BY <1>1, <1>2 DEF P!TakeTurns

\* Every step of the pair keeps its invariant.
LEMMA PairKept == ASSUME PairInv, [P!Next]_pvars PROVE PairInv'
<1>1. CASE P!Fork  BY <1>1, PairForkKeeps
<1>2. ASSUME NEW p \in P!Procs, P!Step(p) PROVE PairInv'
  BY <1>2, PairCloseKeeps, PairWriteKeeps, PairReadKeeps DEF P!Step
<1>3. ASSUME NEW p \in P!Procs, P!Kill(p) PROVE PairInv'
  BY <1>3, PairKillKeeps
<1>4. CASE UNCHANGED pvars
  BY <1>4, SMTT(30) DEF pvars, PairInv, PairTypes, Alone, Ends, OneMessage, TheirTurns, BothRun,
     ParentsTurn, ToChild, ChildsTurn, ToParent
<1> QED BY <1>1, <1>2, <1>3, <1>4 DEF P!Next

(***************************************************************************)
(* socketpair.c:27: whatever the bound on the numbers, and wherever either *)
(* is killed, there is never more than one message on its way, and what    *)
(* the parent reads while the child is there answers its last number.      *)
(***************************************************************************)
THEOREM TurnsAlwaysTaken == MCSpec => []TakeTurns
<1>1. MCInit => PairInv
  BY PairInitially DEF MCInit
<1>2. PairInv /\ [MCNext]_allVars => PairInv'
  BY Apart, PairKept
<1>3. PairInv => TakeTurns
  BY PairImplies DEF TakeTurns
<1> QED BY <1>1, <1>2, <1>3, PTL DEF MCSpec

-----------------------------------------------------------------------------
(* Supervision: the scripts.                                                *)

AppTable == [Slots -> U!Process \cup {U!Gone}]
DogEntry == [pc : {"off", "list", "kill", "start", "sleep", "act", "restart"},
             pids : SUBSET Slots, number : 0 .. U!Cardinality(Slots), timer : 0 .. U!Sleep20]
DogTable == [Dogs -> DogEntry]
SvcState == [pc : {"idle", "start", "started", "listDogs", "killDogs", "listApps", "killApps", "stopped"},
             pids : SUBSET (Slots \cup Dogs), restart : BOOLEAN]
UpdState == [pc : {"off", "idle", "list", "kill", "install", "count", "watch", "start", "record", "done"},
             pids : SUBSET Dogs, version : U!Versions]

\* The type invariant, with a name for each table.
LEMMA TypesNamed ==
  U!TypeOK <=> /\ app \in AppTable /\ boot \in 0 .. StartTicks
               /\ dog \in DogTable /\ svc \in SvcState /\ late \subseteq Slots
               /\ upd \in UpdState /\ disk \in U!Versions /\ recorded \in U!Versions
BY DEF U!TypeOK, AppTable, DogEntry, DogTable, SvcState, UpdState

\* The scripts count as FiniteSets does.
LEMMA SameCardinality == ASSUME NEW Q PROVE U!Cardinality(Q) = Cardinality(Q)
BY DEF U!Cardinality, Cardinality

\* The number of processes is one or more.
LEMMA PNumIsPositive == U!PNum \in Nat \ {0}
BY ProgramsAssumption, SMT DEF ProgramsAssumption, U!PNum

\* A process that is new, or gone, in the program's table.
LEMMA StartTyped == ASSUME U!TypeOK, NEW v \in U!Versions PROVE U!WithApp(v) \in AppTable
<1>1. [toFork |-> U!PNum - 1, version |-> v] \in U!Process
  BY PNumIsPositive, SMT DEF U!Process
<1>2. app \in AppTable
  BY TypesNamed
<1> QED BY <1>1, <1>2, Zenon DEF U!WithApp, AppTable

\* A process that is gone.
LEMMA EndTyped == ASSUME U!TypeOK, NEW s PROVE [app EXCEPT ![s] = U!Gone] \in AppTable
<1>1. app \in AppTable
  BY TypesNamed
<1> QED BY <1>1, Zenon DEF AppTable

\* A forked child is in a free place.
LEMMA ForkTyped == ASSUME U!TypeOK, NEW s \in Slots, U!Fork(s)
                   PROVE  app' \in AppTable /\ late' \subseteq Slots
<1>1. U!FreeSlot \in U!Places
  <2>1. U!Places \in SUBSET Nat /\ U!Places # {}
    BY ProgramsAssumption DEF ProgramsAssumption, U!Places, U!Fork
  <2> QED BY <2>1, HasLeast DEF U!FreeSlot, U!Lowest
<1>2. U!FreeSlot \in Slots
  BY <1>1 DEF U!Places
<1>3. app[s] \in U!Process /\ app[s].toFork > 0
  BY TypesNamed, SMT DEF AppTable, U!Fork, U!Gone
<1>4. /\ [app[s] EXCEPT !.toFork = @ - 1] \in U!Process
      /\ [app[s] EXCEPT !.toFork = 0] \in U!Process
  BY <1>3, PNumIsPositive, SMT DEF U!Process
<1>5. app' = [app EXCEPT ![s] = [app[s] EXCEPT !.toFork = @ - 1],
                         ![U!FreeSlot] = [app[s] EXCEPT !.toFork = 0]]
  BY DEF U!Fork
<1>6. app \in AppTable /\ late \subseteq Slots
  BY TypesNamed
<1>7. app' \in AppTable
  BY <1>4, <1>5, <1>6, Zenon DEF AppTable
<1> QED BY <1>2, <1>6, <1>7 DEF U!Fork

\* The program's table is what it was, or has a new process, or one less, or none,
\* or a child.
LEMMA AppKept == ASSUME U!TypeOK, U!Next PROVE app' \in AppTable /\ late' \subseteq Slots
<1>1. \/ UNCHANGED app
      \/ \E v \in U!Versions : app' = U!WithApp(v)
      \/ \E s : app' = [app EXCEPT ![s] = U!Gone]
      \/ app' = [s \in Slots |-> U!Gone]
      \/ \E s \in Slots : U!Fork(s)
  <2>0. disk \in U!Versions /\ upd.version \in U!Versions /\ 1 \in U!Versions
    BY TypesNamed DEF UpdState, U!Versions
  <2> USE <2>0 DEF U!system
  <2>1. CASE U!Boot  BY <2>1 DEF U!Boot
  <2>2. CASE U!Tick  BY <2>2 DEF U!Tick
  <2>3. CASE \E s \in Slots : U!Fork(s)  BY <2>3
  <2>4. ASSUME NEW s \in Slots, U!Death(s) PROVE app' = [app EXCEPT ![s] = U!Gone]
    BY <2>4 DEF U!Death
  <2>5. CASE \E d \in Dogs : U!Watch(d)
    BY <2>5 DEF U!Watch, U!DogList, U!DogKill, U!DogStart, U!DogCount, U!DogNone, U!DogKillAll,
       U!DogRestart, U!DogContent, U!StartApp, U!KillOf
  <2>6. CASE U!Service
    BY <2>6 DEF U!Service, U!SvcCall, U!SvcCount, U!SvcStart, U!SvcListDogs, U!SvcKillDog,
       U!SvcListApps, U!SvcKillApp, U!SvcStopped, U!KillOf
  <2>7. CASE U!Update
    BY <2>7 DEF U!Update, U!UpdBegin, U!UpdList, U!UpdKill, U!UpdInstall, U!UpdCount, U!UpdWatch,
       U!UpdStart, U!UpdRecord, U!StartApp
  <2> QED BY <2>1, <2>2, <2>3, <2>4, <2>5, <2>6, <2>7 DEF U!Next, U!Run
<1>2. app' \in AppTable
  <2>1. app \in AppTable /\ [s \in Slots |-> U!Gone] \in AppTable
    BY TypesNamed DEF AppTable
  <2> QED BY <1>1, <2>1, StartTyped, EndTyped, ForkTyped
<1>3. late' \subseteq Slots
  <2> USE DEF U!system
  <2>1. late' \in {late, {}} \/ \E s \in Slots : U!Fork(s)
    <3>1. CASE U!Boot  BY <3>1 DEF U!Boot
    <3>2. CASE U!Tick  BY <3>2 DEF U!Tick
    <3>3. CASE \E s \in Slots : U!Fork(s)  BY <3>3
    <3>4. ASSUME NEW s \in Slots, U!Death(s) PROVE late' = late
      BY <3>4 DEF U!Death
    <3>5. CASE \E d \in Dogs : U!Watch(d)
      BY <3>5 DEF U!Watch, U!DogList, U!DogKill, U!DogStart, U!DogCount, U!DogNone, U!DogKillAll,
         U!DogRestart, U!DogContent, U!DogRest
    <3>6. CASE U!Service
      BY <3>6 DEF U!Service, U!SvcCall, U!SvcCount, U!SvcStart, U!SvcListDogs, U!SvcKillDog,
         U!SvcListApps, U!SvcKillApp, U!SvcStopped
    <3>7. CASE U!Update
      BY <3>7 DEF U!Update, U!UpdBegin, U!UpdList, U!UpdKill, U!UpdInstall, U!UpdCount, U!UpdWatch,
         U!UpdStart, U!UpdRecord
    <3> QED BY <3>1, <3>2, <3>3, <3>4, <3>5, <3>6, <3>7 DEF U!Next, U!Run
  <2> QED BY <2>1, TypesNamed, ForkTyped
<1> QED BY <1>2, <1>3

\* A watchdog that starts, and one that is killed.
LEMMA DogStartTyped == ASSUME U!TypeOK, NEW d
                       PROVE  U!WithDog \in DogTable /\ [dog EXCEPT ![d] = U!Off] \in DogTable
<1>1. 0 \in 0 .. U!Cardinality(Slots)
  <2>1. Cardinality(Slots) \in Nat
    BY ProgramsAssumption, FS_CardinalityType DEF ProgramsAssumption
  <2> QED BY <2>1, SameCardinality, SMT
<1>2. U!Off \in DogEntry /\ [U!Off EXCEPT !.pc = "list"] \in DogEntry
  BY <1>1, SMT DEF U!Off, DogEntry, U!Sleep20
<1>3. dog \in DogTable
  BY TypesNamed
<1> QED BY <1>2, <1>3, Zenon DEF U!WithDog, DogTable

\* There are no more processes than places.
LEMMA CountTyped == U!Count \in 0 .. U!Cardinality(Slots)
<1>1. U!Running \in SUBSET Slots
  BY DEF U!Running
<1>2. Cardinality(U!Running) \in Nat /\ Cardinality(U!Running) <= Cardinality(Slots)
      /\ Cardinality(Slots) \in Nat
  BY <1>1, ProgramsAssumption, FS_CardinalityType, FS_Subset DEF ProgramsAssumption
<1> QED BY <1>2, SameCardinality, SMT DEF U!Count

\* What a watchdog's step makes of its entry.
LEMMA WatchEntry ==
  ASSUME U!TypeOK, NEW d \in Dogs, U!Watch(d)
  PROVE  /\ d \in U!Awake
         /\ \E e \in DogEntry : e.pc # "off" /\ dog' = [dog EXCEPT ![d] = e]
<1>1. dog \in DogTable /\ dog[d] \in DogEntry
  BY TypesNamed DEF DogTable
<1>2. d \in U!Awake /\ dog[d].pc # "off"
  BY DEF U!Awake, U!Watch, U!DogList, U!DogKill, U!DogStart, U!DogCount, U!DogNone, U!DogKillAll,
     U!DogRestart, U!DogContent
<1>3. \E e \in DogEntry : e.pc # "off" /\ dog' = [dog EXCEPT ![d] = e]
  <2> USE <1>1, <1>2 DEF DogEntry
  <2>0. 0 \in 0 .. U!Cardinality(Slots)
    BY ProgramsAssumption, FS_CardinalityType, SameCardinality, SMT DEF ProgramsAssumption
  <2>1. CASE U!DogList(d)
    <3>1. U!Running \subseteq Slots
      BY DEF U!Running
    <3>2. dog' = [dog EXCEPT ![d] = [dog[d] EXCEPT !.pc = "kill", !.pids = U!Running]]
      BY <2>1 DEF U!DogList
    <3> QED BY <3>1, <3>2
  <2>2. CASE U!DogKill(d)
    <3>1. dog' = [dog EXCEPT ![d] = [dog[d] EXCEPT !.pids = @ \ {U!Lowest(@)}]]
      BY <2>2 DEF U!DogKill
    <3> QED BY <3>1
  <2>3. CASE U!DogStart(d)
    <3>1. dog' = [dog EXCEPT ![d] = [dog[d] EXCEPT !.pc = "sleep", !.timer = U!Sleep20]]
      BY <2>3 DEF U!DogStart
    <3>2. [dog[d] EXCEPT !.pc = "sleep", !.timer = U!Sleep20] \in DogEntry
      <4>1. U!Sleep20 \in 0 .. U!Sleep20
        BY SMT DEF U!Sleep20
      <4> QED BY <4>1
    <3> QED BY <3>1, <3>2
  <2>4. CASE U!DogCount(d)
    <3>1. dog' = [dog EXCEPT ![d] = [dog[d] EXCEPT !.pc = "act", !.number = U!Count]]
      BY <2>4 DEF U!DogCount
    <3> QED BY <3>1, CountTyped
  <2>5. ASSUME NEW t \in 0 .. U!Sleep20, dog' = U!SleepFor(d, t)
        PROVE  \E e \in DogEntry : e.pc # "off" /\ dog' = [dog EXCEPT ![d] = e]
    <3>1. dog' = [dog EXCEPT ![d] = [dog[d] EXCEPT !.pc = "sleep", !.number = 0, !.timer = t]]
      BY <2>5 DEF U!SleepFor
    <3> QED BY <2>0, <3>1
  <2>6. CASE U!DogNone(d) \/ U!DogRestart(d) \/ U!DogContent(d)
    <3>1. \E t \in 0 .. U!Sleep20 : dog' = U!SleepFor(d, t)
      BY <2>6, SMT DEF U!DogNone, U!DogRestart, U!DogContent, U!Pause, U!Sleep20, U!Sleep10, U!Sleep2
    <3> QED BY <2>5, <3>1
  <2>7. CASE U!DogKillAll(d)
    <3>1. dog' = [dog EXCEPT ![d] = [dog[d] EXCEPT !.pc = "restart"]]
      BY <2>7 DEF U!DogKillAll
    <3> QED BY <3>1
  <2> QED BY <2>1, <2>2, <2>3, <2>4, <2>6, <2>7 DEF U!Watch
<1> QED BY <1>3, <1>2

\* A step of a watchdog.
LEMMA WatchTyped == ASSUME U!TypeOK, NEW d \in Dogs, U!Watch(d) PROVE dog' \in DogTable
<1>1. dog \in DogTable
  BY TypesNamed
<1>2. PICK e \in DogEntry : dog' = [dog EXCEPT ![d] = e]
  BY WatchEntry
<1> QED BY <1>1, <1>2, Zenon DEF DogTable

\* Time passes for the watchdogs that sleep.
LEMMA TickTyped == ASSUME U!TypeOK, U!Tick PROVE dog' \in DogTable /\ boot' \in 0 .. StartTicks
<1>1. dog \in DogTable /\ boot \in 0 .. StartTicks
  BY TypesNamed
<1>2. dog' = [d \in Dogs |-> IF d \in U!Awake THEN [dog[d] EXCEPT !.timer = @ - 1] ELSE dog[d]]
  BY DEF U!Tick
<1>3. ASSUME NEW d \in Dogs PROVE dog'[d] \in DogEntry
  <2>1. dog[d] \in DogEntry
    BY <1>1 DEF DogTable
  <2>2. CASE d \in U!Awake
    <3>1. dog[d].timer > 0
      BY <2>2 DEF U!Tick
    <3> QED BY <1>2, <2>1, <2>2, <3>1, SMT DEF DogEntry, U!Sleep20
  <2> QED BY <1>2, <2>1, <2>2
<1>4. boot' \in 0 .. StartTicks
  BY <1>1, ProgramsAssumption, SMT DEF ProgramsAssumption, U!Tick
<1> QED BY <1>2, <1>3, <1>4, Zenon DEF DogTable

\* The watchdogs' table and the time of a start.
LEMMA DogKept == ASSUME U!TypeOK, U!Next PROVE dog' \in DogTable /\ boot' \in 0 .. StartTicks
<1> USE DEF U!system
<1>0. dog \in DogTable /\ boot \in 0 .. StartTicks /\ 0 \in 0 .. StartTicks
  BY TypesNamed, ProgramsAssumption, SMT DEF ProgramsAssumption
<1>1. CASE U!Tick
  BY <1>1, TickTyped
<1>2. CASE \E d \in Dogs : U!Watch(d)
  <2>1. boot' \in {0, boot}
    BY <1>2 DEF U!Watch, U!DogList, U!DogKill, U!DogStart, U!DogCount, U!DogNone, U!DogKillAll,
       U!DogRestart, U!DogContent, U!StartApp
  <2> QED BY <1>0, <1>2, <2>1, WatchTyped
<1>3. ASSUME ~U!Tick, ~ \E d \in Dogs : U!Watch(d)
      PROVE  /\ boot' \in {0, boot}
             /\ dog' = dog \/ dog' = U!WithDog \/ \E d : dog' = [dog EXCEPT ![d] = U!Off]
  <2>1. CASE U!Boot  BY <2>1 DEF U!Boot
  <2>2. ASSUME NEW s \in Slots, U!Fork(s) PROVE boot' = boot /\ dog' = dog
    BY <2>2 DEF U!Fork
  <2>3. ASSUME NEW s \in Slots, U!Death(s) PROVE boot' = boot /\ dog' = dog
    BY <2>3 DEF U!Death
  <2>4. CASE U!Service
    BY <2>4 DEF U!Service, U!SvcCall, U!SvcCount, U!SvcStart, U!SvcListDogs, U!SvcKillDog,
       U!SvcListApps, U!SvcKillApp, U!SvcStopped, U!SvcRest
  <2>5. CASE U!Update
    BY <2>5 DEF U!Update, U!UpdBegin, U!UpdList, U!UpdKill, U!UpdInstall, U!UpdCount, U!UpdWatch,
       U!UpdStart, U!UpdRecord, U!StartApp
  <2> QED BY <1>3, <2>1, <2>2, <2>3, <2>4, <2>5 DEF U!Next, U!Run
<1> QED BY <1>0, <1>1, <1>2, <1>3, DogStartTyped

\* The state of service.
LEMMA SvcKept == ASSUME U!TypeOK, U!Next PROVE svc' \in SvcState
<1> USE DEF U!system, SvcState
<1>0. svc \in SvcState
  BY TypesNamed
<1>1. CASE U!Service
  <2>1. U!Awake \subseteq Dogs /\ U!Running \subseteq Slots
    BY DEF U!Awake, U!Running
  <2>2. ASSUME NEW call \in {"start", "stop", "restart"}, U!SvcCall(call) PROVE svc' \in SvcState
    BY <2>2 DEF U!SvcCall
  <2>3. CASE U!SvcCount \/ U!SvcStart \/ U!SvcStopped
    BY <1>0, <2>3 DEF U!SvcCount, U!SvcStart, U!SvcStopped, U!SvcGoes
  <2>4. CASE U!SvcListDogs \/ U!SvcListApps
    BY <1>0, <2>1, <2>4 DEF U!SvcListDogs, U!SvcListApps
  <2>5. CASE U!SvcKillDog \/ U!SvcKillApp
    BY <1>0, <2>5 DEF U!SvcKillDog, U!SvcKillApp, U!SvcGoes
  <2> QED BY <1>1, <2>2, <2>3, <2>4, <2>5 DEF U!Service
<1>2. ASSUME ~U!Service PROVE svc' = svc
  <2>1. CASE U!Boot \/ U!Tick  BY <2>1 DEF U!Boot, U!Tick
  <2>2. ASSUME NEW s \in Slots, U!Fork(s) \/ U!Death(s) PROVE svc' = svc
    BY <2>2 DEF U!Fork, U!Death
  <2>3. CASE \E d \in Dogs : U!Watch(d)
    BY <2>3 DEF U!Watch, U!DogList, U!DogKill, U!DogStart, U!DogCount, U!DogNone, U!DogKillAll,
       U!DogRestart, U!DogContent, U!DogRest
  <2>4. CASE U!Update
    BY <2>4 DEF U!Update, U!UpdBegin, U!UpdList, U!UpdKill, U!UpdInstall, U!UpdCount, U!UpdWatch,
       U!UpdStart, U!UpdRecord
  <2> QED BY <1>2, <2>1, <2>2, <2>3, <2>4 DEF U!Next, U!Run
<1> QED BY <1>0, <1>1, <1>2

\* The state of update.sh, and the versions.
LEMMA UpdKept == ASSUME U!TypeOK, U!Next
                 PROVE  upd' \in UpdState /\ disk' \in U!Versions /\ recorded' \in U!Versions
<1> USE DEF U!system
<1>0. upd \in UpdState /\ disk \in U!Versions /\ recorded \in U!Versions
  BY TypesNamed
<1>1. CASE U!Boot
  BY <1>0, <1>1 DEF U!Boot, UpdState
<1>2. CASE U!Update
  <2> USE DEF UpdState
  <2>1. U!Awake \subseteq Dogs /\ U!Unpacked \in U!Versions
    BY <1>0 DEF U!Awake, U!Unpacked
  <2>2. ASSUME NEW v \in U!Versions, U!UpdBegin(v)
        PROVE  upd' \in UpdState /\ disk' = disk /\ recorded' = recorded
    BY <2>2 DEF U!UpdBegin
  <2>3. CASE U!UpdList \/ U!UpdKill
    BY <1>0, <2>1, <2>3 DEF U!UpdList, U!UpdKill, U!UpdGoes
  <2>4. CASE U!UpdInstall \/ U!UpdCount
    BY <1>0, <2>1, <2>4 DEF U!UpdInstall, U!UpdCount, U!UpdGoes
  <2>5. CASE U!UpdWatch \/ U!UpdStart \/ U!UpdRecord
    BY <1>0, <2>5 DEF U!UpdWatch, U!UpdStart, U!UpdRecord, U!UpdGoes
  <2> QED BY <1>0, <1>2, <2>2, <2>3, <2>4, <2>5 DEF U!Update
<1>3. ASSUME ~U!Boot, ~U!Update PROVE UNCHANGED <<upd, disk, recorded>>
  <2>1. CASE U!Tick  BY <2>1 DEF U!Tick
  <2>2. ASSUME NEW s \in Slots, U!Fork(s) \/ U!Death(s) PROVE UNCHANGED <<upd, disk, recorded>>
    BY <2>2 DEF U!Fork, U!Death
  <2>3. CASE \E d \in Dogs : U!Watch(d)
    BY <2>3 DEF U!Watch, U!DogList, U!DogKill, U!DogStart, U!DogCount, U!DogNone, U!DogKillAll,
       U!DogRestart, U!DogContent, U!DogRest
  <2>4. CASE U!Service
    BY <2>4 DEF U!Service, U!SvcCall, U!SvcCount, U!SvcStart, U!SvcListDogs, U!SvcKillDog,
       U!SvcListApps, U!SvcKillApp, U!SvcStopped, U!SvcRest
  <2> QED BY <1>3, <2>1, <2>2, <2>3, <2>4 DEF U!Next, U!Run
<1> QED BY <1>0, <1>1, <1>2, <1>3

\* Every step keeps the types.
LEMMA ScriptsTyped == ASSUME U!TypeOK, U!Next PROVE U!TypeOK'
BY AppKept, DogKept, SvcKept, UpdKept, TypesNamed DEF U!TypeOK, AppTable, DogTable, DogEntry,
   SvcState, UpdState

-----------------------------------------------------------------------------
\* Before the machine boots there is nothing, and nothing has been called.
Unbooted == upd.pc = "off" => /\ left.calls = 0 /\ left.deaths = 0
                              /\ svc.pc = "idle" /\ ~race /\ U!Awake = {}

\* Who has seen no watchdog and has not yet started one.
SvcLooked == svc.pc = "started"
UpdLooked == upd.pc = "start"

\* Without a race one of the two has looked, and there is still none; in a race
\* there is one for each that has started it.
Lone == ~race => /\ SvcLooked \/ UpdLooked => U!Awake = {}
                 /\ ~(SvcLooked /\ UpdLooked)
                 /\ \A d, e \in U!Awake : d = e
Pair == race => /\ SvcLooked /\ UpdLooked => U!Awake = {}
                /\ SvcLooked \/ UpdLooked => \A d, e \in U!Awake : d = e
                /\ \A d, e, f \in U!Awake : d = e \/ d = f \/ e = f

\* A stop, as far as it has come.
Stopping ==
  upd.pc = "idle" =>
    /\ svc.pc = "killDogs" => U!Awake \subseteq svc.pids
    /\ svc.pc \in {"listApps", "killApps", "stopped"} => U!Awake = {}
    /\ svc.pc \in {"killApps", "stopped"} => U!Running \subseteq svc.pids \cup late

\* What an update has made of the disk.
Installed ==
  /\ (upd.pc \in {"count", "watch", "start", "record"} /\ upd.version \in left.packages) =>
       disk = upd.version
  /\ U!RecordedInstalled

\* The scene, as far as it has come.
Scene == [deaths : Nat, calls : Nat, updates : Nat, packages : SUBSET U!Versions]

Watched == Unbooted /\ Lone /\ Pair /\ Stopping
ScriptsInv == U!TypeOK /\ left \in Scene /\ Watched /\ Installed

\* Nothing runs.
LEMMA ScriptsInitially == U!Init => ScriptsInv
<1> SUFFICES ASSUME U!Init PROVE ScriptsInv
  OBVIOUS
<1>1. Cardinality(Slots) \in Nat
  BY ProgramsAssumption, FS_CardinalityType DEF ProgramsAssumption
<1>2. U!TypeOK
  <2>1. 0 \in 0 .. StartTicks /\ 0 \in 0 .. U!Cardinality(Slots) /\ 0 \in 0 .. U!Sleep20
    BY <1>1, SameCardinality, ProgramsAssumption, SMT DEF ProgramsAssumption, U!Sleep20
  <2>2. U!Off \in DogEntry
    BY <2>1 DEF U!Off, DogEntry
  <2> QED BY <2>1, <2>2, TypesNamed
          DEF U!Init, AppTable, DogTable, SvcState, UpdState, U!Versions
<1>3. U!Awake = {}
  BY DEF U!Init, U!Awake, U!Off
<1>4. Watched
  BY <1>3 DEF U!Init, Watched, Unbooted, Lone, Pair, SvcLooked, UpdLooked, Stopping
<1>5. Installed
  BY DEF U!Init, Installed, U!RecordedInstalled
<1>6. left \in Scene
  BY DEF U!Init, Scene
<1> QED BY <1>2, <1>4, <1>5, <1>6 DEF ScriptsInv

\* A watchdog that does something is awake, and stays so.
LEMMA WatchAwake == ASSUME U!TypeOK, NEW d \in Dogs, U!Watch(d)
                    PROVE  d \in U!Awake /\ U!Awake' = U!Awake
<1>1. dog \in DogTable
  BY TypesNamed
<1>2. d \in U!Awake
  BY WatchEntry
<1>4. PICK e \in DogEntry : e.pc # "off" /\ dog' = [dog EXCEPT ![d] = e]
  BY WatchEntry
<1>5. ASSUME NEW x \in Dogs PROVE dog'[x].pc # "off" <=> dog[x].pc # "off"
  <2>1. CASE x = d
    BY <1>1, <1>2, <1>4, <2>1 DEF DogTable, U!Awake
  <2>2. CASE x # d
    BY <1>1, <1>4, <2>2 DEF DogTable
  <2> QED BY <2>1, <2>2
<1> QED BY <1>2, <1>5 DEF U!Awake

\* Who is awake after a start and after a kill, and who runs after a death.
LEMMA AwakeAfterStart == ASSUME U!TypeOK, dog' = U!WithDog
                         PROVE  U!Awake' \subseteq U!Awake \cup {U!FreeDog}
BY TypesNamed DEF DogTable, U!WithDog, U!Awake

\* Nobody awakes by a kill.
LEMMA AwakeAfterKill == ASSUME U!TypeOK, NEW x, dog' = [dog EXCEPT ![x] = U!Off]
                        PROVE  U!Awake' = U!Awake \ {x}
BY TypesNamed DEF DogTable, U!Off, U!Awake

\* A death ends one process.
LEMMA RunningAfterDeath == ASSUME U!TypeOK, NEW x, app' = [app EXCEPT ![x] = U!Gone]
                           PROVE  U!Running' = U!Running \ {x}
BY TypesNamed DEF AppTable, U!Running

\* A fork begins one.
LEMMA RunningAfterFork == ASSUME U!TypeOK, NEW s \in Slots, U!Fork(s)
                          PROVE  U!Running' \subseteq U!Running \cup {U!FreeSlot}
<1>1. s \in U!Running
  BY SMT DEF U!Fork, U!Running, U!Gone
<1>2. ASSUME NEW x \in Slots, x # s, x # U!FreeSlot PROVE app'[x] = app[x]
  BY <1>2, TypesNamed DEF U!Fork, AppTable
<1> QED BY <1>1, <1>2 DEF U!Running

\* Where nobody looks and no watchdog is started, there are no more than before.
LEMMA NoMore ==
  ASSUME Lone, Pair, U!Awake' \subseteq U!Awake, race' = race,
         SvcLooked' => SvcLooked, UpdLooked' => UpdLooked
  PROVE  Lone' /\ Pair'
BY DEF Lone, Pair

\* Who looks and sees none is alone, or in a race with who has seen none before.
LEMMA LooksAlone ==
  ASSUME U!Awake' = {}, SvcLooked' /\ UpdLooked' => race'
  PROVE  Lone' /\ Pair'
BY DEF Lone, Pair

\* Who has looked starts one.
LEMMA StartsOne ==
  ASSUME U!TypeOK, Lone, Pair, dog' = U!WithDog, race' = race,
         \/ SvcLooked /\ ~SvcLooked' /\ UpdLooked' = UpdLooked
         \/ UpdLooked /\ ~UpdLooked' /\ SvcLooked' = SvcLooked
  PROVE  Lone' /\ Pair'
<1>1. U!Awake' \subseteq U!Awake \cup {U!FreeDog}
  BY AwakeAfterStart
<1>2. Lone'
  BY <1>1 DEF Lone, SvcLooked, UpdLooked
<1>3. Pair'
  BY <1>1 DEF Pair, SvcLooked, UpdLooked
<1> QED BY <1>2, <1>3

\* The steps that change neither the watchdogs nor service, nor update.sh.
LEMMA ProgramWatched ==
  ASSUME U!TypeOK, Watched, UNCHANGED <<svc, race, upd>>, U!Awake' = U!Awake,
         left' = left,
         svc.pc \in {"killApps", "stopped"} /\ upd.pc = "idle" =>
            U!Running' \subseteq U!Running \cup (late' \ late) /\ late \subseteq late'
  PROVE  Watched'
<1>1. Lone' /\ Pair'
  BY NoMore DEF Watched, SvcLooked, UpdLooked
<1> QED BY <1>1 DEF Watched, Unbooted, Stopping

\* Forks, deaths and time.
LEMMA RunWatched ==
  ASSUME U!TypeOK, Watched, U!Tick \/ \E s \in Slots : U!Fork(s) \/ U!Death(s)
  PROVE  Watched'
<1>1. CASE U!Tick
  <2>1. U!Awake' = U!Awake
    <3>1. dog \in DogTable
      BY TypesNamed
    <3>2. ASSUME NEW d \in Dogs PROVE dog'[d].pc = dog[d].pc
      BY <1>1, <3>1 DEF U!Tick, DogTable, DogEntry
    <3> QED BY <3>2 DEF U!Awake
  <2>2. U!Running' = U!Running
    BY <1>1 DEF U!Tick, U!Running
  <2> QED BY <1>1, <2>1, <2>2, ProgramWatched DEF U!Tick
<1>2. ASSUME NEW s \in Slots, U!Fork(s) PROVE Watched'
  <2>1. U!Awake' = U!Awake
    BY <1>2 DEF U!Fork, U!Awake
  <2>2. svc.pc \in {"killApps", "stopped"} => late' = late \cup {U!FreeSlot}
    BY <1>2 DEF U!Fork
  <2>3. Stopping'
    BY <1>2, <2>1, <2>2, RunningAfterFork DEF U!Fork, Watched, Stopping
  <2>4. UNCHANGED <<svc, race, upd, left>>
    BY <1>2 DEF U!Fork
  <2>5. Lone' /\ Pair'
    BY <2>1, <2>4, NoMore DEF Watched, SvcLooked, UpdLooked
  <2> QED BY <2>1, <2>3, <2>4, <2>5 DEF Watched, Unbooted
<1>3. ASSUME NEW s \in Slots, U!Death(s) PROVE Watched'
  <2>1. U!Awake' = U!Awake
    BY <1>3 DEF U!Death, U!Awake
  <2>2. U!Running' \subseteq U!Running
    BY <1>3, RunningAfterDeath DEF U!Death
  <2>3. upd.pc # "off"
    BY <1>3, SMT DEF U!Death, Watched, Unbooted
  <2>4. UNCHANGED <<svc, race, upd, late>>
    BY <1>3 DEF U!Death
  <2>5. Lone' /\ Pair'
    BY <2>1, <2>4, NoMore DEF Watched, SvcLooked, UpdLooked
  <2> QED BY <2>1, <2>2, <2>3, <2>4, <2>5 DEF Watched, Unbooted, Stopping
<1> QED BY <1>1, <1>2, <1>3

\* A watchdog that does something is there, so no stop has come past the
\* watchdogs.
LEMMA WatchWatched == ASSUME U!TypeOK, Watched, NEW d \in Dogs, U!Watch(d) PROVE Watched'
<1>1. d \in U!Awake /\ U!Awake' = U!Awake
  BY WatchAwake
<1>2. UNCHANGED <<svc, late, race, upd, left>>
  BY DEF U!Watch, U!DogList, U!DogKill, U!DogStart, U!DogCount, U!DogNone, U!DogKillAll,
     U!DogRestart, U!DogContent, U!DogRest
<1>3. ~(svc.pc \in {"killApps", "stopped"} /\ upd.pc = "idle")
  BY <1>1 DEF Watched, Stopping
<1> QED BY <1>1, <1>2, <1>3, ProgramWatched

\* The boot starts one watchdog, where there was none.
LEMMA BootWatched == ASSUME U!TypeOK, Watched, U!Boot PROVE Watched'
<1>1. upd.pc = "off" /\ upd'.pc = "idle" /\ UNCHANGED <<svc, late, race>> /\ dog' = U!WithDog
  BY TypesNamed DEF U!Boot, UpdState
<1>2. U!Awake' \subseteq {U!FreeDog}
  BY <1>1, AwakeAfterStart DEF Watched, Unbooted
<1>3. svc.pc = "idle" /\ ~race
  BY <1>1 DEF Watched, Unbooted
<1> QED BY <1>1, <1>2, <1>3 DEF Watched, Unbooted, Lone, Pair, SvcLooked, UpdLooked, Stopping

\* A stop, as service comes on with it.
LEMMA ServiceStops ==
  ASSUME U!TypeOK, Watched, U!Service, ~ \E call \in {"start", "stop", "restart"} : U!SvcCall(call)
  PROVE  Stopping'
<1> USE TypesNamed DEF SvcState, U!SvcRest, U!SvcGoes
<1>1. UNCHANGED <<upd, late>>
  BY DEF U!Service, U!SvcCount, U!SvcStart, U!SvcListDogs, U!SvcKillDog, U!SvcListApps,
     U!SvcKillApp, U!SvcStopped
<1> SUFFICES ASSUME upd.pc = "idle"
             PROVE  /\ svc'.pc = "killDogs" => U!Awake' \subseteq svc'.pids
                    /\ svc'.pc \in {"listApps", "killApps", "stopped"} => U!Awake' = {}
                    /\ svc'.pc \in {"killApps", "stopped"} => U!Running' \subseteq svc'.pids \cup late'
  BY <1>1 DEF Stopping
<1>2. ASSUME dog' = dog PROVE U!Awake' = U!Awake
  BY <1>2 DEF U!Awake
<1>3. ASSUME app' = app PROVE U!Running' = U!Running
  BY <1>3 DEF U!Running
<1>4. CASE U!SvcCount
  BY <1>4 DEF U!SvcCount
<1>5. CASE U!SvcStart
  BY <1>5 DEF U!SvcStart
<1>6. CASE U!SvcListDogs
  BY <1>2, <1>6 DEF U!SvcListDogs
<1>7. CASE U!SvcKillDog /\ svc.pids = {}
  BY <1>2, <1>7 DEF U!SvcKillDog, Watched, Stopping
<1>8. CASE U!SvcKillDog /\ svc.pids # {}
  <2>1. U!Awake' = U!Awake \ {U!Lowest(svc.pids)}
    BY <1>8, AwakeAfterKill DEF U!SvcKillDog
  <2>2. svc'.pids = svc.pids \ {U!Lowest(svc.pids)} /\ svc'.pc = "killDogs" /\ svc.pc = "killDogs"
    BY <1>8 DEF U!SvcKillDog
  <2> QED BY <2>1, <2>2 DEF Watched, Stopping
<1>9. CASE U!SvcListApps
  BY <1>2, <1>3, <1>9 DEF U!SvcListApps, Watched, Stopping
<1>10. CASE U!SvcKillApp
  <2>1. U!Running' = U!Running \ {U!Lowest(svc.pids)}
    BY <1>10, RunningAfterDeath DEF U!SvcKillApp, U!KillOf
  <2>2. svc'.pids = svc.pids \ {U!Lowest(svc.pids)} /\ svc'.pc = "killApps" /\ svc.pc = "killApps"
    BY <1>10 DEF U!SvcKillApp
  <2>3. late' = late /\ dog' = dog
    BY <1>10 DEF U!SvcKillApp
  <2> QED BY <1>2, <2>1, <2>2, <2>3 DEF Watched, Stopping
<1>11. CASE U!SvcStopped
  BY <1>2, <1>3, <1>11 DEF U!SvcStopped, Watched, Stopping
<1> QED BY <1>4, <1>5, <1>6, <1>7, <1>8, <1>9, <1>10, <1>11 DEF U!Service

\* The watchdogs, when service looks, starts and kills.
LEMMA ServicePairs ==
  ASSUME U!TypeOK, Watched, U!Service
  PROVE  Lone' /\ Pair'
<1> USE TypesNamed DEF SvcState, U!SvcRest, U!SvcGoes
<1>0. Lone /\ Pair
  BY DEF Watched
<1>1. UpdLooked' = UpdLooked
  BY DEF U!Service, U!SvcCall, U!SvcCount, U!SvcStart, U!SvcListDogs, U!SvcKillDog, U!SvcListApps,
     U!SvcKillApp, U!SvcStopped, UpdLooked
<1>2. CASE U!SvcCount /\ U!Awake = {}
  <2>1. SvcLooked' /\ race' = UpdLooked /\ dog' = dog
    BY <1>2 DEF U!SvcCount, SvcLooked, UpdLooked
  <2>2. U!Awake' = {}
    BY <1>2, <2>1 DEF U!Awake
  <2> QED BY <1>1, <2>1, <2>2, LooksAlone
<1>3. CASE U!SvcStart
  <2>1. SvcLooked /\ ~SvcLooked' /\ dog' = U!WithDog /\ race' = race
    BY <1>3 DEF U!SvcStart, SvcLooked
  <2> QED BY <1>0, <1>1, <2>1, StartsOne
<1>4. CASE ~(U!SvcCount /\ U!Awake = {}) /\ ~U!SvcStart
  <2>1. ~SvcLooked' /\ race' = race
    <3>1. CASE \E call \in {"start", "stop", "restart"} : U!SvcCall(call)
      BY <3>1 DEF U!SvcCall, SvcLooked
    <3>2. CASE U!SvcCount
      BY <1>4, <3>2 DEF U!SvcCount, SvcLooked
    <3>3. CASE U!SvcKillDog \/ U!SvcKillApp
      BY <3>3 DEF U!SvcKillDog, U!SvcKillApp, SvcLooked
    <3>4. CASE U!SvcListDogs \/ U!SvcListApps \/ U!SvcStopped
      BY <3>4 DEF U!SvcListDogs, U!SvcListApps, U!SvcStopped, SvcLooked
    <3> QED BY <1>4, <3>1, <3>2, <3>3, <3>4 DEF U!Service
  <2>2. dog' = dog \/ \E x : dog' = [dog EXCEPT ![x] = U!Off]
    BY <1>4 DEF U!Service, U!SvcCall, U!SvcCount, U!SvcListDogs, U!SvcKillDog, U!SvcListApps,
       U!SvcKillApp, U!SvcStopped
  <2>3. U!Awake' \subseteq U!Awake
    <3>1. CASE dog' = dog  BY <3>1 DEF U!Awake
    <3> QED BY <2>2, <3>1, AwakeAfterKill
  <2> QED BY <1>0, <1>1, <2>1, <2>3, NoMore
<1> QED BY <1>2, <1>3, <1>4

\* service: a call, its looks and its kills.
LEMMA ServiceWatched == ASSUME U!TypeOK, Watched, U!Service PROVE Watched'
<1>1. UNCHANGED upd
  BY DEF U!Service, U!SvcCall, U!SvcCount, U!SvcStart, U!SvcListDogs, U!SvcKillDog, U!SvcListApps,
     U!SvcKillApp, U!SvcStopped, U!SvcRest
<1>2. upd.pc # "off"
  <2>1. ASSUME NEW call \in {"start", "stop", "restart"}, U!SvcCall(call) PROVE left.calls > 0
    BY <2>1 DEF U!SvcCall
  <2>2. ASSUME ~ \E call \in {"start", "stop", "restart"} : U!SvcCall(call) PROVE svc.pc # "idle"
    BY <2>2 DEF U!Service, U!SvcCount, U!SvcStart, U!SvcListDogs, U!SvcKillDog, U!SvcListApps,
       U!SvcKillApp, U!SvcStopped
  <2>3. left.calls > 0 => left.calls # 0
    BY SMT
  <2> QED BY <2>1, <2>2, <2>3 DEF Watched, Unbooted
<1>3. ASSUME NEW call \in {"start", "stop", "restart"}, U!SvcCall(call) PROVE Stopping'
  <2>1. svc'.pc \in {"start", "listDogs"}
    BY <1>3 DEF U!SvcCall
  <2> QED BY <2>1 DEF Stopping
<1>4. Stopping'
  BY <1>3, ServiceStops
<1> QED BY <1>1, <1>2, <1>4, ServicePairs DEF Watched, Unbooted

\* update.sh: once it has begun it is no longer idle, and it starts a watchdog
\* where it saw none.
LEMMA UpdateWatched == ASSUME U!TypeOK, Watched, U!Update PROVE Watched'
<1> USE TypesNamed DEF UpdState, U!UpdGoes, U!system
<1>0. Lone /\ Pair
  BY DEF Watched
<1>1. upd'.pc \notin {"off", "idle"} /\ svc' = svc
  <2>1. ASSUME NEW v \in U!Versions, U!UpdBegin(v) PROVE upd'.pc = "list" /\ svc' = svc
    BY <2>1 DEF U!UpdBegin
  <2>2. CASE U!UpdKill
    <3>1. upd'.pc \in {"kill", "install"} /\ svc' = svc
      BY <2>2 DEF U!UpdKill
    <3> QED BY <3>1
  <2>3. CASE U!UpdList \/ U!UpdInstall \/ U!UpdCount \/ U!UpdRecord \/ U!UpdWatch \/ U!UpdStart
    BY <2>3 DEF U!UpdList, U!UpdInstall, U!UpdCount, U!UpdRecord, U!UpdWatch, U!UpdStart
  <2> QED BY <2>1, <2>2, <2>3 DEF U!Update
<1>2. SvcLooked' = SvcLooked
  BY <1>1 DEF SvcLooked
<1>3. Lone' /\ Pair'
  <2>1. CASE U!UpdWatch /\ U!Awake = {}
    <3>1. UpdLooked' /\ race' = SvcLooked /\ dog' = dog
      BY <2>1 DEF U!UpdWatch, SvcLooked, UpdLooked
    <3>2. U!Awake' = {}
      BY <2>1, <3>1 DEF U!Awake
    <3> QED BY <1>2, <3>1, <3>2, LooksAlone
  <2>2. CASE U!UpdStart
    <3>1. UpdLooked /\ ~UpdLooked' /\ dog' = U!WithDog /\ race' = race
      BY <2>2 DEF U!UpdStart, UpdLooked
    <3> QED BY <1>0, <1>2, <3>1, StartsOne
  <2>3. CASE ~(U!UpdWatch /\ U!Awake = {}) /\ ~U!UpdStart
    <3>1. ~UpdLooked' /\ race' = race /\ (dog' = dog \/ \E x : dog' = [dog EXCEPT ![x] = U!Off])
      <4>1. ASSUME NEW v \in U!Versions, U!UpdBegin(v) PROVE ~UpdLooked' /\ race' = race /\ dog' = dog
        BY <4>1 DEF U!UpdBegin, UpdLooked
      <4>2. CASE U!UpdKill
        <5>1. upd'.pc \in {"kill", "install"} /\ race' = race
          BY <4>2 DEF U!UpdKill
        <5>2. dog' = dog \/ dog' = [dog EXCEPT ![U!Lowest(upd.pids)] = U!Off]
          BY <4>2 DEF U!UpdKill
        <5> QED BY <5>1, <5>2 DEF UpdLooked
      <4>3. CASE U!UpdList \/ U!UpdInstall \/ U!UpdCount \/ U!UpdRecord
        BY <4>3 DEF U!UpdList, U!UpdInstall, U!UpdCount, U!UpdRecord, UpdLooked
      <4>4. CASE U!UpdWatch
        BY <2>3, <4>4 DEF U!UpdWatch, UpdLooked
      <4> QED BY <2>3, <4>1, <4>2, <4>3, <4>4 DEF U!Update
    <3>2. U!Awake' \subseteq U!Awake
      <4>1. CASE dog' = dog  BY <4>1 DEF U!Awake
      <4> QED BY <3>1, <4>1, AwakeAfterKill
    <3> QED BY <1>0, <1>2, <3>1, <3>2, NoMore
  <2> QED BY <2>1, <2>2, <2>3
<1> QED BY <1>1, <1>3 DEF Watched, Unbooted, Stopping

\* The disk and what is recorded of it.
LEMMA InstalledKept == ASSUME U!TypeOK, left \in Scene, Installed, U!Next PROVE left' \in Scene /\ Installed'
<1> USE TypesNamed DEF UpdState, U!system, Installed, U!RecordedInstalled
<1>1. CASE U!Boot
  <2>1. left' \in Scene
    BY <1>1, ProgramsAssumption DEF U!Boot, Scene, ProgramsAssumption
  <2> QED BY <1>1, <2>1 DEF U!Boot
<1>2. CASE U!Update
  <2> USE DEF U!UpdGoes
  <2>1. ASSUME NEW v \in U!Versions, U!UpdBegin(v) PROVE left' \in Scene /\ Installed'
    <3>1. left' = [left EXCEPT !.updates = @ - 1] /\ left.updates > 0
      BY <2>1 DEF U!UpdBegin
    <3>2. left' \in Scene /\ left'.packages = left.packages
      BY <3>1, SMT DEF Scene
    <3> QED BY <2>1, <3>2 DEF U!UpdBegin
  <2>2. CASE ~ \E v \in U!Versions : U!UpdBegin(v)
    <3>1. left' = left
      BY <1>2, <2>2 DEF U!Update, U!UpdList, U!UpdKill, U!UpdInstall, U!UpdCount, U!UpdWatch,
         U!UpdStart, U!UpdRecord
    <3>2. CASE U!UpdList \/ U!UpdKill
      BY <3>1, <3>2 DEF U!UpdList, U!UpdKill
    <3>3. CASE U!UpdInstall
      BY <3>1, <3>3 DEF U!UpdInstall
    <3>4. CASE U!UpdCount
      BY <3>1, <3>4 DEF U!UpdCount, U!Unpacked
    <3>5. CASE U!UpdWatch \/ U!UpdStart
      BY <3>1, <3>5 DEF U!UpdWatch, U!UpdStart
    <3>6. CASE U!UpdRecord
      BY <3>1, <3>6 DEF U!UpdRecord
    <3> QED BY <1>2, <2>2, <3>2, <3>3, <3>4, <3>5, <3>6 DEF U!Update
  <2> QED BY <2>1, <2>2
<1>3. ASSUME ~U!Boot, ~U!Update
      PROVE  UNCHANGED <<upd, disk, recorded>> /\ left' \in Scene /\ left'.packages = left.packages
  <2>1. CASE U!Tick  BY <2>1 DEF U!Tick
  <2>2. ASSUME NEW s \in Slots, U!Fork(s)
        PROVE  UNCHANGED <<upd, disk, recorded, left>>
    BY <2>2 DEF U!Fork
  <2>3. ASSUME NEW s \in Slots, U!Death(s)
        PROVE  UNCHANGED <<upd, disk, recorded>> /\ left' \in Scene /\ left'.packages = left.packages
    <3>1. left' = [left EXCEPT !.deaths = @ - 1] /\ left.deaths > 0
      BY <2>3 DEF U!Death
    <3>2. left' \in Scene /\ left'.packages = left.packages
      BY <3>1, SMT DEF Scene
    <3> QED BY <2>3, <3>2 DEF U!Death
  <2>4. CASE \E d \in Dogs : U!Watch(d)
    BY <2>4 DEF U!Watch, U!DogList, U!DogKill, U!DogStart, U!DogCount, U!DogNone, U!DogKillAll,
       U!DogRestart, U!DogContent, U!DogRest
  <2>5. CASE U!Service
    <3>1. ASSUME NEW call \in {"start", "stop", "restart"}, U!SvcCall(call)
          PROVE  UNCHANGED <<upd, disk, recorded>> /\ left' \in Scene /\ left'.packages = left.packages
      <4>1. left' = [left EXCEPT !.calls = @ - 1] /\ left.calls > 0
        BY <3>1 DEF U!SvcCall
      <4>2. left' \in Scene /\ left'.packages = left.packages
        BY <4>1, SMT DEF Scene
      <4> QED BY <3>1, <4>2 DEF U!SvcCall, U!SvcRest
    <3>2. ASSUME ~ \E call \in {"start", "stop", "restart"} : U!SvcCall(call)
          PROVE  UNCHANGED <<upd, disk, recorded, left>>
      BY <2>5, <3>2 DEF U!Service, U!SvcCount, U!SvcStart, U!SvcListDogs, U!SvcKillDog,
         U!SvcListApps, U!SvcKillApp, U!SvcStopped, U!SvcRest
    <3> QED BY <3>1, <3>2
  <2> QED BY <1>3, <2>1, <2>2, <2>3, <2>4, <2>5 DEF U!Next, U!Run
<1> QED BY <1>1, <1>2, <1>3

\* Every step of the scripts keeps their invariant.
LEMMA ScriptsKept == ASSUME ScriptsInv, [U!Next]_uvars PROVE ScriptsInv'
<1>1. CASE U!Next
  <2>1. U!TypeOK' /\ left' \in Scene /\ Installed'
    BY <1>1, ScriptsTyped, InstalledKept DEF ScriptsInv
  <2>2. Watched'
    BY <1>1, RunWatched, WatchWatched, BootWatched, ServiceWatched, UpdateWatched
    DEF ScriptsInv, U!Next, U!Run
  <2> QED BY <2>1, <2>2 DEF ScriptsInv
<1>2. CASE UNCHANGED uvars
  <2>1. U!TypeOK'
    BY <1>2, TypesNamed DEF uvars, ScriptsInv, U!TypeOK
  <2>2. U!Awake' = U!Awake /\ U!Running' = U!Running
    BY <1>2 DEF uvars, U!Awake, U!Running
  <2>3. Watched' /\ left' \in Scene
    BY <1>2, <2>2 DEF uvars, ScriptsInv, Watched, Unbooted, Lone, Pair, SvcLooked, UpdLooked, Stopping
  <2>4. Installed'
    BY <1>2 DEF uvars, ScriptsInv, Installed, U!RecordedInstalled
  <2> QED BY <2>1, <2>3, <2>4 DEF ScriptsInv
<1> QED BY <1>1, <1>2

\* The invariant holds throughout.
LEMMA ScriptsAlways == MCSpec => []ScriptsInv
<1>1. MCInit => ScriptsInv
  BY ScriptsInitially DEF MCInit
<1>2. ScriptsInv /\ [MCNext]_allVars => ScriptsInv'
  BY Apart, ScriptsKept
<1> QED BY <1>1, <1>2, PTL DEF MCSpec

\* Of the members of a set two at most differ from one another.
LEMMA AtMostTwo ==
  ASSUME NEW A, \A d, e, f \in A : d = e \/ d = f \/ e = f
  PROVE  Cardinality(A) <= 2
<1>1. CASE A = {}
  BY <1>1, FS_EmptySet, SMT
<1>2. ASSUME NEW d \in A, NEW e \in A PROVE Cardinality(A) <= 2
  <2>1. CASE A = {d}
    BY <2>1, FS_Singleton, SMT
  <2>2. ASSUME NEW f \in A, f # d PROVE Cardinality(A) <= 2
    <3>1. A = {d} \cup {f} /\ f \notin {d}
      BY <2>2
    <3>2. IsFiniteSet({d}) /\ Cardinality({d}) = 1
      BY FS_Singleton
    <3>3. Cardinality({d} \cup {f}) = Cardinality({d}) + 1
      BY <3>1, <3>2, FS_AddElement
    <3> QED BY <3>1, <3>2, <3>3, SMT
  <2> QED BY <2>1, <2>2
<1> QED BY <1>1, <1>2

\* The same of one.
LEMMA AtMostOne ==
  ASSUME NEW A, \A d, e \in A : d = e
  PROVE  Cardinality(A) <= 1
<1>1. CASE A = {}
  BY <1>1, FS_EmptySet, SMT
<1>2. ASSUME NEW d \in A PROVE Cardinality(A) <= 1
  <2>1. A = {d}
    BY <1>2
  <2> QED BY <2>1, FS_Singleton, SMT
<1> QED BY <1>1, <1>2

(***************************************************************************)
(* service:57, 90, update.sh:122: whatever the number of processes, of     *)
(* deaths, calls and updates, and however the scripts interrupt one        *)
(* another: after a stop, before the first update, no watchdog is there    *)
(* and nothing is started again; and there are never more than two         *)
(* watchdogs, and two only if service and an update both looked before     *)
(* either had started one.                                                 *)
(***************************************************************************)
THEOREM StopAlwaysHolds == MCSpec => []StopHolds
<1>1. ScriptsInv => StopHolds
  <2> SUFFICES ASSUME ScriptsInv PROVE U!TypeOK /\ U!StopHolds /\ U!OneDog
    BY DEF StopHolds
  <2>1. U!TypeOK
    BY DEF ScriptsInv
  <2>2. U!StopHolds
    BY DEF ScriptsInv, Watched, Stopping, U!StopHolds
  <2>3. CASE race
    <3>1. \A d, e, f \in U!Awake : d = e \/ d = f \/ e = f
      BY <2>3 DEF ScriptsInv, Watched, Pair
    <3>2. Cardinality(U!Awake) <= 2
      BY <3>1, AtMostTwo
    <3> QED BY <2>1, <2>2, <2>3, <3>2, SameCardinality DEF U!OneDog
  <2>4. CASE ~race
    <3>1. \A d, e \in U!Awake : d = e
      BY <2>4 DEF ScriptsInv, Watched, Lone
    <3>2. Cardinality(U!Awake) <= 1
      BY <3>1, AtMostOne
    <3> QED BY <2>1, <2>2, <2>4, <3>2, SameCardinality DEF U!OneDog
  <2> QED BY <2>3, <2>4
<1> QED BY <1>1, ScriptsAlways, PTL

(***************************************************************************)
(* update.sh:108, 127: whatever came between: when an update is over, the  *)
(* recorded version is the unpacked one unless its package was not found.  *)
(***************************************************************************)
THEOREM AlwaysRecordedInstalled == MCSpec => []RecordedInstalled
<1>1. ScriptsInv => RecordedInstalled
  BY DEF ScriptsInv, Installed, RecordedInstalled
<1> QED BY <1>1, ScriptsAlways, PTL

-----------------------------------------------------------------------------
(* DailyUpdate: the calendar of update.sh.                                  *)

EnoughTurns == Turns \in Nat /\ Turns >= 2

\* What the assumption says of the turns.
LEMMA TurnsEnough == EnoughTurns
BY ProgramsAssumption DEF ProgramsAssumption, EnoughTurns

\* The types; MaxDate bounds the runs, not the dates.
DayFlags == /\ afternoon \in BOOLEAN /\ curTime \in BOOLEAN
            /\ fresh \in BOOLEAN /\ cut \in BOOLEAN

DayValues ==
  /\ date \in Nat \ {0}
  /\ dpc \in {"boot", "loop", "time", "date", "update"}
  /\ isNewDay \in {0, 1} /\ perDate \in Nat
  /\ curDate \in Nat
  /\ turns \in 0 .. Turns
  /\ tried \in SUBSET Nat /\ again \in SUBSET Nat /\ under \in SUBSET Nat

DayTypes == DayFlags /\ DayValues

\* The decisions so far: none twice, none for a date after perDate, and one for
\* each date but those an update was under way on.
DayDecisions ==
  /\ again = {}
  /\ \A d \in tried : d <= perDate
  /\ \A d \in 1 .. date - 1 : d \in tried \cup under
  /\ perDate <= date

Booting ==
  dpc = "boot" => /\ date = 1 /\ perDate = 0 /\ tried = {}
                  /\ turns = 0 /\ ~fresh /\ isNewDay = 1

Looping == dpc \in {"loop", "time", "date"}
DateReadIs(d) == dpc = "date" => curDate = d

\* An update is due: it is decided on in the first turn that begins past startTime.
Due ==
  (Looping /\ isNewDay = 1) =>
    /\ perDate = date
    /\ afternoon => turns <= 1
    /\ (dpc = "loop" \/ ~curTime) => date \notin tried
    /\ (dpc # "loop" /\ curTime) => afternoon /\ date \in tried
    /\ (dpc # "loop" /\ ~curTime /\ afternoon) => turns = 0 /\ ~fresh

\* The update of the date is done: the next date is seen before its noon, or, when
\* the update lasted until a later date, in the turn after it.
Done ==
  (Looping /\ isNewDay = 0) =>
    \/ perDate = date /\ date \in tried /\ DateReadIs(date)
    \/ perDate < date /\ turns = 0 /\ DateReadIs(date)
    \/ /\ perDate < date /\ ~afternoon /\ ~fresh
       /\ \/ turns = 0 /\ (DateReadIs(date) \/ DateReadIs(perDate))
          \/ turns = 1 /\ DateReadIs(date)

UnderWay == dpc = "update" => isNewDay = 1 /\ perDate \in tried /\ date \in under

OnTime == DayDecisions /\ Booting /\ Due /\ Done /\ UnderWay
DayInv == DayTypes /\ (cut \/ OnTime)

-----------------------------------------------------------------------------
\* Nothing is decided on, and no date has passed.
LEMMA DayInitially == ASSUME EnoughTurns, D!Init PROVE DayInv
<1>1. DayFlags
  BY DEF D!Init, DayFlags
<1>2. DayValues
  BY SMTT(30) DEF EnoughTurns, D!Init, DayValues
<1>3. OnTime
  BY SMTT(30) DEF D!Init, OnTime, DayDecisions, Booting, Looping, Due, Done, UnderWay
<1> QED BY <1>1, <1>2, <1>3 DEF DayInv, DayTypes

\* Types are kept by every step, and once cut is always cut.
LEMMA DayTypesKept == ASSUME EnoughTurns, DayTypes, D!Next PROVE DayTypes' /\ (cut => cut')
<1>1. CASE D!Tick
  <2>1. DayFlags' /\ (cut => cut')
    <3>1. /\ afternoon' = ~afternoon /\ ~fresh' /\ fresh' = FALSE /\ curTime' = curTime
          /\ cut' = (cut \/ (fresh /\ afternoon))
      BY <1>1 DEF D!Tick
    <3>2. afternoon' \in BOOLEAN
      BY <3>1
    <3>3. cut' \in BOOLEAN /\ (cut => cut')
      BY <3>1
    <3> QED BY <3>1, <3>2, <3>3 DEF DayTypes, DayFlags
  <2>2. DayValues'
    <3>1. date' \in Nat \ {0}
      BY <1>1, SMTT(30) DEF DayTypes, DayValues, D!Tick
    <3>2. turns' \in 0 .. Turns
      BY <1>1, SMTT(30) DEF EnoughTurns, D!Tick
    <3>3. under' \in SUBSET Nat
      BY <1>1, <3>1 DEF DayTypes, DayValues, D!Tick
    <3> QED BY <1>1, <3>1, <3>2, <3>3 DEF DayTypes, DayValues, D!Tick
  <2> QED BY <2>1, <2>2 DEF DayTypes
<1>2. CASE D!Script
  <2> USE DEF D!Script, D!Boot, D!ReadTime, D!ReadDate, D!Update, D!Updated, D!TooEarly, D!SameDay, D!NewDay, D!EndTurn,
          D!clock, D!history
  <2>1. cut' = cut
    BY <1>2
  <2>2. afternoon' = afternoon
    BY <1>2
  <2>3. fresh' \in BOOLEAN /\ curTime' \in BOOLEAN
    <3>1. \/ fresh' = fresh
          \/ fresh' = TRUE
          \/ fresh' = FALSE
          \/ fresh' = (fresh /\ turns' < Turns)
      BY <1>2
    <3>2. curTime' = curTime \/ curTime' = afternoon
      BY <1>2
    <3>3. fresh' \in BOOLEAN
      BY <3>1 DEF DayTypes, DayFlags
    <3>4. curTime' \in BOOLEAN
      BY <3>2 DEF DayTypes, DayFlags
    <3> QED BY <3>3, <3>4
  <2>4. DayValues'
    <3>1. date' = date /\ under' \in {under, under \cup {date}}
      BY <1>2
    <3>2. /\ tried' \in {tried, tried \cup {date}}
          /\ again' \in {again, again \cup (tried \cap {date})}
      BY <1>2
    <3>3. /\ date' \in Nat \ {0} /\ under' \in SUBSET Nat /\ tried' \in SUBSET Nat
          /\ again' \in SUBSET Nat
      BY <3>1, <3>2, SMTT(30) DEF DayTypes, DayValues
    <3>4. turns' \in 0 .. Turns
      BY <1>2, SMTT(30) DEF EnoughTurns, DayTypes, DayValues
    <3>5. dpc' \in {"boot", "loop", "time", "date", "update"} /\ isNewDay' \in {0, 1}
      BY <1>2 DEF DayTypes, DayValues
    <3>6. perDate' \in Nat /\ curDate' \in Nat
      BY <1>2 DEF DayTypes, DayValues
    <3> QED BY <3>3, <3>4, <3>5, <3>6 DEF DayValues
  <2> QED BY <2>1, <2>2, <2>3, <2>4 DEF DayTypes, DayFlags
<1> QED BY <1>1, <1>2 DEF D!Next

\* Noon: what is due is past its time from here on, and its turn is at hand.
LEMMA NoonKeeps == ASSUME EnoughTurns, DayTypes, OnTime, D!Tick, ~afternoon PROVE OnTime'
<1>1. /\ date' = date /\ afternoon' /\ turns' = 0 /\ ~fresh'
      /\ UNCHANGED <<dpc, isNewDay, perDate, curTime, curDate, tried, again>>
      /\ under \subseteq under'
      /\ dpc = "update" => date \in under'
      /\ turns = Turns \/ fresh \/ dpc = "update"
  BY DEF D!Tick
<1>2. DayDecisions' /\ Booting' /\ UnderWay'
  BY <1>1, SMTT(30) DEF OnTime, EnoughTurns, DayTypes, DayFlags, DayValues, DayDecisions, Booting, UnderWay
<1>3. Due'
  BY <1>1, SMTT(30) DEF OnTime, EnoughTurns, DayTypes, DayFlags, DayValues, Due, Looping
<1>4. Done'
  BY <1>1, SMTT(30) DEF OnTime, EnoughTurns, DayTypes, DayFlags, DayValues, Done, Looping, DateReadIs
<1> QED BY <1>2, <1>3, <1>4 DEF OnTime

\* Midnight: the date has had its update, or it comes too soon.
LEMMA MidnightKeeps == ASSUME EnoughTurns, DayTypes, OnTime, D!Tick, afternoon PROVE cut' \/ OnTime'
<1> SUFFICES ASSUME ~cut' PROVE OnTime'
  OBVIOUS
<1>1. /\ date' = date + 1 /\ ~afternoon' /\ turns' = 0 /\ ~fresh' /\ ~fresh
      /\ UNCHANGED <<dpc, isNewDay, perDate, curTime, curDate, tried, again>>
      /\ under \subseteq under'
      /\ dpc = "update" => date + 1 \in under'
      /\ turns = Turns \/ dpc = "update"
  BY DEF D!Tick
<1>2. dpc # "boot" /\ ~(Looping /\ isNewDay = 1)
  BY <1>1, SMTT(30) DEF OnTime, EnoughTurns, DayTypes, DayFlags, DayValues, Booting, Due, Looping
<1>3. (Looping /\ isNewDay = 0) => perDate = date /\ date \in tried /\ DateReadIs(date)
  <2> SUFFICES ASSUME Looping, isNewDay = 0
               PROVE  perDate = date /\ date \in tried /\ DateReadIs(date)
    OBVIOUS
  <2>1. ~(turns = 0)
    BY <1>1, SMTT(30) DEF EnoughTurns, Looping
  <2> QED BY <2>1 DEF OnTime, Done
<1>4. date \in tried \cup under
  BY <1>2, <1>3, SMTT(30) DEF OnTime, DayTypes, DayFlags, DayValues, UnderWay, Looping
<1>5. DayDecisions'
  <2>1. \A d \in 1 .. date : d \in tried \cup under
    BY <1>4, SMTT(30) DEF OnTime, DayTypes, DayFlags, DayValues, DayDecisions
  <2> QED BY <2>1, <1>1, SMTT(30) DEF OnTime, DayTypes, DayFlags, DayValues, DayDecisions
<1>6. Booting' /\ Due' /\ UnderWay'
  BY <1>1, <1>2, SMTT(30) DEF OnTime, DayTypes, DayFlags, DayValues, Booting, Due, UnderWay, Looping
<1>7. Done'
  BY <1>1, <1>2, <1>3, SMTT(30) DEF OnTime, DayTypes, DayFlags, DayValues, Done, Looping, DateReadIs
<1> QED BY <1>5, <1>6, <1>7 DEF OnTime

\* The steps of the script: a decision is made once, on the date perDate holds.
LEMMA DayScriptKeeps == ASSUME EnoughTurns, DayTypes, OnTime, D!Script PROVE OnTime'
<1> USE DEF EnoughTurns, DayTypes, DayFlags, DayValues, OnTime, DayDecisions, Booting, Looping, Due, Done,
        DateReadIs, UnderWay, D!clock, D!history
<1>1. CASE D!Boot      BY <1>1, SMTT(30) DEF D!Boot
<1>2. CASE D!ReadTime  BY <1>2, SMTT(60) DEF D!ReadTime
<1>3. CASE D!ReadDate  BY <1>3, SMTT(60) DEF D!ReadDate
<1>4. CASE D!Update    BY <1>4, SMTT(30) DEF D!Update
<1>5. CASE D!Updated   BY <1>5, SMTT(30) DEF D!Updated
<1>6. CASE D!TooEarly  BY <1>6, SMTT(30) DEF D!TooEarly, D!EndTurn
<1>7. CASE D!SameDay   BY <1>7, SMTT(60) DEF D!SameDay, D!EndTurn
<1>8. CASE D!NewDay    BY <1>8, SMTT(60) DEF D!NewDay, D!EndTurn
<1> QED BY <1>1, <1>2, <1>3, <1>4, <1>5, <1>6, <1>7, <1>8 DEF D!Script

\* Every step of the calendar keeps its invariant.
LEMMA DayKept == ASSUME DayInv, [D!Next]_dvars PROVE DayInv'
<1>1. CASE D!Next
  <2>1. DayTypes'
    BY <1>1, TurnsEnough, DayTypesKept DEF DayInv
  <2>2. ASSUME cut PROVE cut'
    BY <1>1, <2>2, TurnsEnough, DayTypesKept DEF DayInv
  <2>3. CASE OnTime /\ D!Tick
    BY <2>1, <2>3, TurnsEnough, NoonKeeps, MidnightKeeps DEF DayInv
  <2>4. CASE OnTime /\ D!Script
    BY <2>1, <2>4, TurnsEnough, DayScriptKeeps DEF DayInv
  <2> QED BY <1>1, <2>1, <2>2, <2>3, <2>4 DEF D!Next, DayInv
<1>2. CASE UNCHANGED dvars
  BY <1>2 DEF dvars, DayInv, DayTypes, DayFlags, DayValues, OnTime, DayDecisions, Booting, Looping,
     Due, Done, DateReadIs, UnderWay
<1> QED BY <1>1, <1>2

(***************************************************************************)
(* update.sh:7: however many dates pass, however long updates take and     *)
(* however often the loop turns in half a date, from two times on: if no   *)
(* midnight comes within the first turns after the start or after an       *)
(* update, no date has two updates and none is without one but those on    *)
(* which an update was under way.                                          *)
(***************************************************************************)
THEOREM UpdatesOnceADay == MCSpec => []OnceADay
<1>1. MCInit => DayInv
  BY TurnsEnough, DayInitially DEF MCInit
<1>2. DayInv /\ [MCNext]_allVars => DayInv'
  BY Apart, DayKept
<1>3. DayInv => OnceADay
  BY DEF DayInv, OnTime, DayDecisions, D!OnceADay, OnceADay
<1> QED BY <1>1, <1>2, <1>3, PTL DEF MCSpec

-----------------------------------------------------------------------------
(* Md5File: the blocks that md5() is given.                                 *)

\* Byte n of the file with what is put behind it, and the first m of them.
Padding(l, n) == IF n <= l THEN n ELSE IF n = l + 1 THEN -1 ELSE 0
Given(l, m) == [n \in 1 .. m |-> Padding(l, n)]

\* What x holds of the file from byte f on, without and with the mark.
Piece(l, f) == [n \in 1 .. 64 |-> IF f + n <= l THEN f + n ELSE 0]
Marked(l, f) == [n \in 1 .. 64 |-> Padding(l, f + n)]

BytesInv ==
  /\ mpc \in {"idle", "blocks", "marked", "last", "done"}
  /\ mpc # "idle" => len \in Nat
  /\ mpc = "blocks" => /\ mi \in 0 .. len \div 64 /\ read = 64 * (mi + 1)
                       /\ block = Piece(len, 64 * mi) /\ blocks = Given(len, 64 * mi)
  /\ mpc = "marked" => /\ mi = len \div 64 /\ block = Marked(len, 64 * mi)
                       /\ blocks = Given(len, 64 * mi)
  /\ mpc = "last" => /\ mi = len \div 64 /\ len % 64 > 55 /\ block = M!Zeros
                     /\ blocks = Given(len, 64 * (mi + 1))
  /\ mpc = "done" => M!BlocksPadded

\* A file has whole blocks and a rest.
LEMMA Blocks64 ==
  ASSUME NEW l \in Nat
  PROVE  /\ l \div 64 \in Nat /\ l % 64 \in 0 .. 63 /\ l = 64 * (l \div 64) + (l % 64)
BY SMT

\* Functions on 1 .. q are sequences.
LEMMA AreSequences ==
  ASSUME NEW R, NEW q \in Nat, NEW F \in [1 .. q -> R]
  PROVE  F \in Seq(R) /\ Len(F) = q
OBVIOUS

\* Bytes that go on where those given end.
LEMMA GivenMore ==
  ASSUME NEW l \in Nat, NEW m \in Nat, NEW q \in Nat, NEW x \in [1 .. q -> Int],
         \A n \in 1 .. q : x[n] = Padding(l, m + n)
  PROVE  Given(l, m) \o x = Given(l, m + q)
<1>1. ASSUME NEW n \in Int PROVE Padding(l, n) \in Int
  BY SMT DEF Padding
<1>2. Given(l, m) \in Seq(Int) /\ Len(Given(l, m)) = m /\ \A n \in 1 .. m : Given(l, m)[n] = Padding(l, n)
  <2>1. \A n \in 1 .. m : n \in Int
    BY SMT
  <2>2. Given(l, m) \in [1 .. m -> Int] /\ \A n \in 1 .. m : Given(l, m)[n] = Padding(l, n)
    BY <1>1, <2>1 DEF Given
  <2> QED BY <2>2, AreSequences
<1>3. x \in Seq(Int) /\ Len(x) = q /\ \A n \in 1 .. q : x[n] = Padding(l, m + n)
  BY AreSequences
<1>4. Given(l, m + q) \in Seq(Int) /\ Len(Given(l, m + q)) = m + q
      /\ \A n \in 1 .. m + q : Given(l, m + q)[n] = Padding(l, n)
  <2>1. m + q \in Nat /\ \A n \in 1 .. m + q : n \in Int
    BY SMT
  <2>2. PICK p : p = m + q
    OBVIOUS
  <2>3. Given(l, p) \in [1 .. p -> Int] /\ \A n \in 1 .. p : Given(l, p)[n] = Padding(l, n)
    BY <1>1, <2>1, <2>2 DEF Given
  <2>4. Given(l, p) \in Seq(Int) /\ Len(Given(l, p)) = p
    BY <2>1, <2>2, <2>3, AreSequences
  <2> QED BY <2>2, <2>3, <2>4
<1>5. PICK g : g = Given(l, m)
  OBVIOUS
<1>6. PICK h : h = Given(l, m + q)
  OBVIOUS
<1>7. g \o x \in Seq(Int) /\ Len(g \o x) = m + q
      /\ \A n \in 1 .. m + q : (g \o x)[n] = IF n <= m THEN g[n] ELSE x[n - m]
  BY <1>2, <1>3, <1>5, ConcatProperties
<1>8. ASSUME NEW n \in 1 .. m + q PROVE (g \o x)[n] = h[n]
  <2>1. CASE n <= m
    <3>1. n \in 1 .. m
      BY <2>1, SMT
    <3> QED BY <1>2, <1>4, <1>5, <1>6, <1>7, <2>1, <3>1
  <2>2. CASE ~(n <= m)
    <3>1. n - m \in 1 .. q /\ m + (n - m) = n
      BY <2>2, SMT
    <3> QED BY <1>3, <1>4, <1>6, <1>7, <2>2, <3>1
  <2> QED BY <2>1, <2>2
<1>9. g \o x = h
  BY <1>4, <1>6, <1>7, <1>8, SeqEqual
<1> QED BY <1>5, <1>6, <1>9

LEMMA BytesOpened == ASSUME BytesInv, NEW l \in Lengths, M!Open(l) PROVE BytesInv'
<1>1. l \in Nat
  BY ProgramsAssumption DEF ProgramsAssumption
<1>2. /\ mpc' = "blocks" /\ len' = l /\ read' = 64 /\ mi' = 0 /\ blocks' = <<>>
      /\ block' = [n \in 1 .. 64 |-> IF 0 + n <= l THEN 0 + n ELSE 0]
  BY DEF M!Open, M!Fread
<1>3. Given(l, 0) = <<>> /\ 0 \in 0 .. l \div 64 /\ 64 * 0 = 0 /\ 64 * (0 + 1) = 64
  <2>1. 1 .. 0 = {} /\ 0 \in 0 .. l \div 64 /\ 64 * 0 = 0 /\ 64 * (0 + 1) = 64
    BY <1>1, Blocks64, SMT
  <2>2. Given(l, 0) = <<>>
    BY <2>1 DEF Given
  <2> QED BY <2>1, <2>2
<1> QED BY <1>1, <1>2, <1>3 DEF BytesInv, Piece

LEMMA BytesWhole == ASSUME BytesInv, M!WholeBlock PROVE BytesInv'
<1>1. PICK q, l, f : q = mi /\ l = len /\ f = 64 * q
  OBVIOUS
<1>2. /\ q \in 0 .. l \div 64 /\ l \in Nat /\ q < l \div 64 /\ read = 64 * (q + 1)
      /\ block = Piece(l, f) /\ blocks = Given(l, f)
  BY <1>1 DEF M!WholeBlock, BytesInv
<1>3. /\ q + 1 \in 0 .. l \div 64 /\ f + 64 <= l /\ f \in Nat /\ f + 64 = 64 * (q + 1)
      /\ 64 * (q + 1) + 64 = 64 * ((q + 1) + 1)
  BY <1>1, <1>2, Blocks64, SMT
<1>4. /\ mpc' = "blocks" /\ len' = l /\ mi' = q + 1 /\ read' = 64 * (q + 1) + 64
      /\ blocks' = Given(l, f) \o Piece(l, f)
  BY <1>1, <1>2 DEF M!WholeBlock
<1>5. block' = [n \in 1 .. 64 |-> IF 64 * (q + 1) + n <= l THEN 64 * (q + 1) + n ELSE 0]
  BY <1>2, <1>4 DEF M!WholeBlock, M!Fread
<1>6. \A n \in 1 .. 64 : f + n <= l
  BY <1>2, <1>3, SMT
<1>7. Piece(l, f) \in [1 .. 64 -> Int] /\ \A n \in 1 .. 64 : Piece(l, f)[n] = Padding(l, f + n)
  <2>1. \A n \in 1 .. 64 : f + n \in Int
    BY <1>3, SMT
  <2> QED BY <1>6, <2>1 DEF Piece, Padding
<1>8. blocks' = Given(l, f + 64)
  <2>1. 64 \in Nat
    BY SMT
  <2>2. Given(l, f) \o Piece(l, f) = Given(l, f + 64)
    BY <1>2, <1>3, <1>7, <2>1, GivenMore
  <2> QED BY <1>4, <2>2
<1> QED BY <1>2, <1>3, <1>4, <1>5, <1>8 DEF BytesInv, Piece

LEMMA BytesMark == ASSUME BytesInv, M!Mark PROVE BytesInv'
<1>1. PICK q, l, f : q = mi /\ l = len /\ f = 64 * mi
  OBVIOUS
<1>2. /\ q \in 0 .. l \div 64 /\ l \in Nat /\ q >= l \div 64
      /\ block = Piece(l, f) /\ blocks = Given(l, f)
      /\ mpc' = "marked" /\ len' = l /\ mi' = q /\ blocks' = blocks
      /\ block' = [Piece(l, f) EXCEPT ![(l % 64) + 1] = -1]
  BY <1>1 DEF M!Mark, M!Mark128, BytesInv
<1>3. PICK m : m = l % 64
  OBVIOUS
<1>9. q = l \div 64 /\ m \in 0 .. 63 /\ l = f + m /\ f \in Nat
  BY <1>1, <1>2, <1>3, Blocks64, SMT
<1>4. ASSUME NEW n \in 1 .. 64
      PROVE  block'[n] = Padding(l, f + n)
  <2>1. n = m + 1 <=> f + n = l + 1
    BY <1>9, SMT
  <2>2. f + n = l + 1 => ~(f + n <= l)
    BY <1>9, SMT
  <2> QED BY <1>2, <1>3, <2>1, <2>2 DEF Piece, Padding
<1>5. block' = Marked(l, f)
  BY <1>2, <1>4 DEF Piece, Marked
<1> QED BY <1>1, <1>2, <1>9, <1>5 DEF BytesInv

LEMMA BytesOverflow == ASSUME BytesInv, M!Overflow PROVE BytesInv'
<1>1. PICK q, l, f : q = mi /\ l = len /\ f = 64 * q
  OBVIOUS
<1>2. /\ l \in Nat /\ q = l \div 64 /\ l % 64 > 64 - 9
      /\ mpc' = "last" /\ len' = l /\ mi' = q /\ block' = M!Zeros
      /\ blocks' = Given(l, f) \o Marked(l, f)
  BY <1>1 DEF M!Overflow, M!NoRoom, BytesInv
<1>3. q \in Nat /\ f \in Nat /\ f + 64 = 64 * (q + 1)
  BY <1>1, <1>2, Blocks64, SMT
<1>4. l % 64 > 55
  BY <1>2, SMT
<1>5. blocks' = Given(l, f + 64)
  <2>1. 64 \in Nat
    BY SMT
  <2>2. Marked(l, f) \in [1 .. 64 -> Int] /\ \A n \in 1 .. 64 : Marked(l, f)[n] = Padding(l, f + n)
    <3>1. \A n \in 1 .. 64 : f + n \in Int
      BY <1>3, SMT
    <3>2. \A n \in Int : Padding(l, n) \in Int
      BY SMT DEF Padding
    <3> QED BY <3>1, <3>2 DEF Marked
  <2>3. PICK x : x = Marked(l, f)
    OBVIOUS
  <2>4. x \in [1 .. 64 -> Int] /\ \A n \in 1 .. 64 : x[n] = Padding(l, f + n)
    BY <2>2, <2>3
  <2>5. Given(l, f) \o x = Given(l, f + 64)
    <3>1. l \in Nat
      BY <1>2
    <3>2. f \in Nat
      BY <1>3
    <3> QED BY <2>1, <2>4, <3>1, <3>2, GivenMore
  <2> QED BY <1>2, <2>3, <2>5
<1>6. M!Zeros' = M!Zeros
  BY DEF M!Zeros
<1> QED BY <1>2, <1>3, <1>4, <1>5, <1>6 DEF BytesInv

\* The least number of blocks that the file, the mark and the length fit in.
LEMMA TotalIs ==
  ASSUME NEW l \in Nat, NEW t \in Nat, t % 64 = 0, l + 9 <= t, t < l + 73
  PROVE  M!Least({n \in l + 9 .. l + 9 + 64 : n % 64 = 0}) = t
<1>1. PICK Q : Q = {n \in l + 9 .. l + 9 + 64 : n % 64 = 0}
  OBVIOUS
<1>2. t \in Q
  <2>1. t \in l + 9 .. l + 9 + 64
    BY SMT
  <2> QED BY <1>1, <2>1
<1>3. ASSUME NEW n \in Q PROVE t <= n
  <2>1. n \in l + 9 .. l + 9 + 64 /\ n % 64 = 0
    BY <1>1
  <2> QED BY <2>1, SMT
<1>4. \A n \in Q : n \in Int
  BY <1>1, SMT
<1>5. M!Least(Q) = t
  <2>1. PICK y : y = M!Least(Q)
    OBVIOUS
  <2>2. y \in Q /\ \A m \in Q : y <= m
    BY <1>2, <1>3, <2>1 DEF M!Least
  <2>3. y <= t /\ t <= y /\ y \in Int
    BY <1>2, <1>3, <1>4, <2>2
  <2> QED BY <2>1, <2>3, SMT
<1> QED BY <1>1, <1>5

\* What md5() is to be given of a file.
Whole(l, t) == [n \in 1 .. t |-> CASE n <= l -> n
                                   [] n = l + 1 -> M!Mark128
                                   [] n > t - 8 -> M!Flen[n - (t - 8)]
                                   [] OTHER -> 0]

\* The zeros up to the length, and the length, make of the blocks the whole.
LEMMA WholeGiven ==
  ASSUME NEW l \in Nat, NEW m \in Nat, l + 1 <= m
  PROVE  Given(l, m) \o M!Flen = Whole(l, m + 8)
<1>1. PICK g : g = Given(l, m)
  OBVIOUS
<1>2. g \in Seq(Int) /\ Len(g) = m /\ \A n \in 1 .. m : g[n] = Padding(l, n)
  <2>1. \A n \in 1 .. m : n \in Int
    BY SMT
  <2>2. g \in [1 .. m -> Int] /\ \A n \in 1 .. m : g[n] = Padding(l, n)
    BY <1>1, <2>1, SMT DEF Given, Padding
  <2> QED BY <2>2, AreSequences
<1>3. PICK e : e = M!Flen
  OBVIOUS
<1>4. e \in Seq(Int) /\ Len(e) = 8 /\ \A n \in 1 .. 8 : e[n] = M!Flen[n]
  <2>1. 8 \in Nat /\ e \in [1 .. 8 -> Int]
    BY <1>3, SMT DEF M!Flen
  <2> QED BY <1>3, <2>1, AreSequences
<1>5. PICK w : w = Whole(l, m + 8)
  OBVIOUS
<1>11. w = [n \in 1 .. m + 8 |-> w[n]]
  BY <1>5 DEF Whole
<1>10. PICK z : z = g \o e
  OBVIOUS
<1>6. /\ z \in Seq(Int) /\ Len(z) = m + 8
      /\ \A n \in 1 .. m + 8 : z[n] = IF n <= m THEN g[n] ELSE e[n - m]
  <2>1. g \in Seq(Int) /\ e \in Seq(Int) /\ Len(g) = m /\ Len(e) = 8
    BY <1>2, <1>4
  <2>2. /\ g \o e \in Seq(Int) /\ Len(g \o e) = Len(g) + Len(e)
        /\ \A n \in 1 .. Len(g) + Len(e) :
             (g \o e)[n] = IF n <= Len(g) THEN g[n] ELSE e[n - Len(g)]
    BY <2>1, ConcatProperties
  <2> QED BY <1>10, <2>1, <2>2
<1>7. z = [n \in 1 .. m + 8 |-> z[n]]
  BY <1>6, LenProperties
<1>8. ASSUME NEW n \in 1 .. m + 8 PROVE z[n] = w[n]
  <2>1. (m + 8) - 8 = m
    BY SMT
  <2>2. CASE n <= m
    <3>1. n \in 1 .. m /\ ~(n > m)
      BY <2>2, SMT
    <3>2. z[n] = Padding(l, n)
      BY <1>2, <1>6, <2>2, <3>1
    <3> QED BY <1>5, <2>1, <3>1, <3>2 DEF Padding, M!Mark128, Whole
  <2>3. CASE ~(n <= m)
    <3>1. n - m \in 1 .. 8 /\ n > m /\ ~(n <= l) /\ n # l + 1
      BY <2>3, SMT
    <3>2. z[n] = M!Flen[n - m]
      BY <1>4, <1>6, <2>3, <3>1
    <3> QED BY <1>5, <2>1, <3>1, <3>2 DEF Whole
  <2> QED BY <2>2, <2>3
<1>9. z = w
  BY <1>7, <1>8, <1>11
<1> QED BY <1>1, <1>3, <1>5, <1>9, <1>10

LEMMA BytesLast == ASSUME BytesInv, M!Last PROVE BytesInv'
<1>1. PICK q, l, f : q = mi /\ l = len /\ f = 64 * q
  OBVIOUS
<1>2. /\ mpc' = "done" /\ len' = l /\ l \in Nat /\ q = l \div 64
      /\ blocks' = blocks \o SubSeq(block, 1, 64 - 8) \o M!Flen
  BY <1>1 DEF M!Last, BytesInv
<1>3. PICK m : m = l % 64
  OBVIOUS
<1>4. q \in Nat /\ f \in Nat /\ m \in 0 .. 63 /\ l = f + m /\ f % 64 = 0 /\ (f + 64) % 64 = 0
  BY <1>1, <1>2, <1>3, Blocks64, SMT
<1>5. PICK p : /\ p \in Nat /\ blocks = Given(l, p) /\ p % 64 = 0 /\ l + 9 <= p + 64 /\ p + 64 < l + 73
               /\ \A n \in 1 .. 64 - 8 : block[n] = Padding(l, p + n)
  <2>1. CASE mpc = "last"
    <3>1. m > 55 /\ block = M!Zeros /\ blocks = Given(l, 64 * (q + 1))
      BY <1>1, <1>3, <2>1 DEF BytesInv
    <3>2. f + 64 \in Nat /\ 64 * (q + 1) = f + 64 /\ l + 9 <= (f + 64) + 64 /\ (f + 64) + 64 < l + 73
      BY <1>1, <1>4, <3>1, SMT
    <3>3. ASSUME NEW n \in 1 .. 64 - 8 PROVE block[n] = Padding(l, (f + 64) + n)
      <4>1. n \in 1 .. 64 /\ ~((f + 64) + n <= l) /\ (f + 64) + n # l + 1
        BY <1>4, SMT
      <4> QED BY <3>1, <4>1 DEF M!Zeros, Padding
    <3> QED BY <1>4, <3>1, <3>2, <3>3
  <2>2. CASE mpc = "marked" /\ ~M!NoRoom
    <3>1. ~(m > 64 - 9) /\ block = Marked(l, f) /\ blocks = Given(l, f)
      BY <1>1, <1>3, <2>2 DEF BytesInv, M!NoRoom
    <3>2. l + 9 <= f + 64 /\ f + 64 < l + 73
      BY <1>4, <3>1, SMT
    <3>3. \A n \in 1 .. 64 - 8 : n \in 1 .. 64
      BY SMT
    <3>4. \A n \in 1 .. 64 - 8 : block[n] = Padding(l, f + n)
      BY <3>1, <3>3 DEF Marked
    <3> QED BY <1>4, <3>1, <3>2, <3>4
  <2> QED BY <2>1, <2>2 DEF M!Last
<1>6. PICK u : /\ u = SubSeq(block, 1, 64 - 8) /\ u \in [1 .. 56 -> Int]
               /\ \A n \in 1 .. 56 : u[n] = Padding(l, p + n)
  <2>1. 1 \in Int /\ 64 - 8 \in Int /\ 64 - 8 = 56 /\ 1 <= 56 /\ (56 - 1) + 1 = 56
        /\ \A n \in 1 .. 56 : (1 + n) - 1 = n /\ p + n \in Int
    BY <1>5, SMT
  <2>2. \A n \in 1 .. 64 - 8 : block[n] \in Int
    <3>1. \A n \in 1 .. 64 - 8 : p + n \in Int
      BY <1>5, SMT
    <3>2. \A n \in Int : Padding(l, n) \in Int
      BY SMT DEF Padding
    <3> QED BY <1>5, <3>1, <3>2
  <2>3. PICK u : u = SubSeq(block, 1, 64 - 8)
    OBVIOUS
  <2>4. u \in Seq(Int) /\ Len(u) = 56 /\ \A n \in 1 .. 56 : u[n] = block[n]
    BY <2>1, <2>2, <2>3, SubSeqProperties
  <2>5. u \in [1 .. 56 -> Int]
    BY <2>4, LenProperties
  <2> QED BY <1>5, <2>1, <2>3, <2>4, <2>5
<1>7. blocks' = Given(l, p + 56) \o M!Flen
  <2>1. 56 \in Nat
    BY SMT
  <2>2. Given(l, p) \o u = Given(l, p + 56)
    BY <1>2, <1>5, <1>6, <2>1, GivenMore
  <2> QED BY <1>2, <1>5, <1>6, <2>2
<1>8. M!BlocksPadded'
  <2>1. p + 64 \in Nat /\ (p + 64) % 64 = 0 /\ p + 56 \in Nat /\ l + 1 <= p + 56 /\ (p + 56) + 8 = p + 64
    BY <1>2, <1>5, SMT
  <2>2. PICK t : t = M!Total'
    OBVIOUS
  <2>3. t = p + 64
    <3>1. M!Least({n \in l + 9 .. l + 9 + 64 : n % 64 = 0}) = p + 64
      BY <1>2, <1>5, <2>1, TotalIs
    <3> QED BY <1>2, <2>2, <3>1 DEF M!Total, M!Least
  <2>4. blocks' = Whole(l, t)
    <3>1. PICK m2 : m2 = p + 56
      OBVIOUS
    <3>2. m2 \in Nat /\ l + 1 <= m2 /\ m2 + 8 = t
      BY <2>1, <2>3, <3>1
    <3>3. blocks' = Given(l, m2) \o M!Flen
      BY <1>7, <3>1
    <3>4. l \in Nat
      BY <1>2
    <3>5. Given(l, m2) \o M!Flen = Whole(l, m2 + 8)
      BY <3>2, <3>4, WholeGiven
    <3> QED BY <3>2, <3>3, <3>5
  <2> QED BY <1>2, <2>2, <2>4 DEF M!BlocksPadded, M!Mark128, M!Flen, Whole
<1> QED BY <1>2, <1>8 DEF BytesInv

LEMMA BytesKept == ASSUME BytesInv, [M!Next]_mvars PROVE BytesInv'
<1>1. ASSUME UNCHANGED mvars PROVE BytesInv'
  <2>1. mpc' = mpc /\ len' = len /\ block' = block /\ read' = read /\ mi' = mi /\ blocks' = blocks
    BY <1>1 DEF mvars
  <2>2. CASE mpc = "done"
    BY <2>1, <2>2 DEF BytesInv, M!BlocksPadded, M!Total, M!Least, M!Mark128, M!Flen
  <2>3. CASE mpc # "done"
    BY <2>1, <2>3 DEF BytesInv, Piece, Marked, Given, Padding, M!Zeros
  <2> QED BY <2>2, <2>3
<1> QED BY <1>1, BytesOpened, BytesWhole, BytesMark, BytesOverflow, BytesLast DEF M!Next, M!Calc

\* md5.c:136-151, for every file: md5() is given the file, one mark, the least
\* number of zeros that makes the whole a number of blocks, and the length.
LEMMA BlocksAlwaysPadded == MCSpec => []M!BlocksPadded
<1>1. MCInit => BytesInv
  BY DEF MCInit, M!Init, BytesInv
<1>2. BytesInv /\ [MCNext]_allVars => BytesInv'
  BY Apart, BytesKept
<1>3. BytesInv => M!BlocksPadded
  BY DEF BytesInv, M!BlocksPadded
<1> QED BY <1>1, <1>2, <1>3, PTL DEF MCSpec

-----------------------------------------------------------------------------
(* ConfigReader: the setting is laid over by the lines' values.             *)

\* Line s read, with p in portal_sip: what is there then.
Over(v, p) == v \o SubSeq(p, Len(v) + 1, Len(p))

\* p is what the values of the first n lines of file f leave.
NamedIn(f, n) == {x \in DOMAIN f : C!Names(f[x]) /\ x <= n}
Laid(f, n, p) ==
  /\ p \in Seq(STRING)
  /\ \A x \in NamedIn(f, n) : Len(C!ValueOf(f[x])) <= Len(p)
  /\ p # <<>> => \E x \in NamedIn(f, n) : Len(C!ValueOf(f[x])) = Len(p)
  /\ \A m \in 1 .. Len(p) : \E x \in NamedIn(f, n) :
       /\ Len(C!ValueOf(f[x])) >= m /\ p[m] = C!ValueOf(f[x])[m]
       /\ \A y \in NamedIn(f, n) : y > x => Len(C!ValueOf(f[y])) < m

Short(f) == \A x \in DOMAIN f : Len(f[x]) < LineSize

\* The setting of file f, N being the lines that name the key.
Widest(f, N) == CHOOSE x \in N : \A y \in N : Len(C!ValueOf(f[y])) <= Len(C!ValueOf(f[x]))
Latest(f, N, n) == CHOOSE x \in N : /\ Len(C!ValueOf(f[x])) >= n
                                    /\ \A y \in N : y > x => Len(C!ValueOf(f[y])) < n
Setting(f, N) ==
  IF \A x \in N : C!ValueOf(f[x]) = <<>> THEN Default
  ELSE [n \in 1 .. Len(C!ValueOf(f[Widest(f, N)])) |-> C!ValueOf(f[Latest(f, N, n)])[n]]
Set(f) == Setting(f, NamedIn(f, Len(f)))

\* The values of the first n lines have room in portal_sip; and where one of the
\* lines has none, or may have none in the buffers of keys and values.
Roomy(f, n) == \A x \in NamedIn(f, n) : Len(C!ValueOf(f[x])) < SipSize
Crowded(l) == (C!Names(l) /\ Len(C!ValueOf(l)) >= SipSize) \/ Len(l) > KvSize

ConfigInv ==
  /\ cpc \in {"idle", "read", "done", "overrun"}
  /\ cpc = "idle" => portal_sip = <<>>
  /\ cpc # "idle" => file \in Seq(Seq(STRING))
  /\ cpc = "read" /\ Short(file) =>
       /\ rest \in Seq(Seq(STRING)) /\ Len(rest) <= Len(file)
       /\ \A m \in 1 .. Len(rest) : rest[m] = file[Len(file) - Len(rest) + m]
       /\ Laid(file, Len(file) - Len(rest), portal_sip)
       /\ Roomy(file, Len(file) - Len(rest))
  /\ cpc = "done" /\ Short(file) => portal_sip = Set(file) /\ Roomy(file, Len(file))
  /\ cpc = "overrun" /\ Short(file) => \E x \in DOMAIN file : Crowded(file[x])

\* A part of a line, and its characters.
LEMMA PartOf ==
  ASSUME NEW s \in Seq(STRING), NEW a \in Nat \ {0}, NEW b \in Nat, b <= Len(s)
  PROVE  /\ SubSeq(s, a, b) \in Seq(STRING)
         /\ Len(SubSeq(s, a, b)) = IF a <= b THEN b - a + 1 ELSE 0
         /\ \A n \in 1 .. b - a + 1 : SubSeq(s, a, b)[n] = s[a + n - 1]
<1>1. \A n \in a .. b : s[n] \in STRING
  <2>1. Len(s) \in Nat /\ s \in [1 .. Len(s) -> STRING]
    BY LenProperties
  <2>2. \A n \in a .. b : n \in 1 .. Len(s)
    BY <2>1, SMT
  <2> QED BY <2>1, <2>2
<1>2. a \in Int /\ b \in Int
  BY SMT
<1> QED BY <1>1, <1>2, SubSeqProperties

\* The first of the characters that are not blank, and the last.
LEMMA SolidEnds ==
  ASSUME NEW s \in Seq(STRING), C!Solid(s) # {}
  PROVE  /\ C!FirstSolid(s) \in C!Solid(s) /\ \A y \in C!Solid(s) : C!FirstSolid(s) <= y
         /\ C!LastSolid(s) \in C!Solid(s) /\ \A y \in C!Solid(s) : y <= C!LastSolid(s)
         /\ C!FirstSolid(s) \in 1 .. Len(s) /\ C!LastSolid(s) \in 1 .. Len(s)
         /\ C!FirstSolid(s) <= C!LastSolid(s)
<1>1. Len(s) \in Nat /\ DOMAIN s = 1 .. Len(s)
  BY LenProperties
<1>2. C!Solid(s) \subseteq 1 .. Len(s)
  BY <1>1 DEF C!Solid
<1>3. C!Solid(s) \in SUBSET Nat /\ C!Solid(s) \in SUBSET (0 .. Len(s))
  <2>1. \A n \in 1 .. Len(s) : n \in Nat /\ n \in 0 .. Len(s)
    BY <1>1, SMT
  <2> QED BY <1>2, <2>1
<1>4. \E x \in C!Solid(s) : \A y \in C!Solid(s) : x <= y
  BY <1>3, HasLeast
<1>5. \E x \in C!Solid(s) : \A y \in C!Solid(s) : y <= x
  BY <1>1, <1>3, HasGreatest
<1>6. C!FirstSolid(s) \in C!Solid(s) /\ \A y \in C!Solid(s) : C!FirstSolid(s) <= y
  BY <1>4 DEF C!FirstSolid
<1>7. C!LastSolid(s) \in C!Solid(s) /\ \A y \in C!Solid(s) : y <= C!LastSolid(s)
  BY <1>5 DEF C!LastSolid
<1> QED BY <1>2, <1>6, <1>7

LEMMA TrimType == ASSUME NEW s \in Seq(STRING) PROVE C!Trim(s) \in Seq(STRING)
<1>1. CASE C!Solid(s) = {}
  BY <1>1, EmptySeq DEF C!Trim
<1>2. CASE C!Solid(s) # {}
  <2>1. Len(s) \in Nat
    BY LenProperties
  <2>2. C!FirstSolid(s) \in Nat \ {0} /\ C!LastSolid(s) \in Nat /\ C!LastSolid(s) <= Len(s)
    BY <1>2, <2>1, SolidEnds, SMT
  <2>3. SubSeq(s, C!FirstSolid(s), C!LastSolid(s)) \in Seq(STRING)
    BY <2>2, PartOf
  <2> QED BY <1>2, <2>3 DEF C!Trim
<1> QED BY <1>1, <1>2

\* A line from its first character that is not blank on.
LEMMA FromSolid ==
  ASSUME NEW l \in Seq(STRING), C!Solid(l) # {}
  PROVE  \E f \in 1 .. Len(l), s \in Seq(STRING) :
           /\ f = C!FirstSolid(l) /\ s = SubSeq(l, f, Len(l)) /\ Len(s) = Len(l) - f + 1
           /\ \A n \in 1 .. Len(s) : s[n] = l[f + n - 1]
           /\ ~C!IsSpace(l[f]) /\ \A y \in 1 .. f - 1 : C!IsSpace(l[y])
<1>1. Len(l) \in Nat /\ DOMAIN l = 1 .. Len(l)
  BY LenProperties
<1>2. PICK f : f = C!FirstSolid(l)
  OBVIOUS
<1>3. f \in C!Solid(l) /\ f \in 1 .. Len(l) /\ \A y \in C!Solid(l) : f <= y
  BY <1>2, SolidEnds
<1>4. f \in Nat \ {0} /\ f <= Len(l)
  BY <1>1, <1>3, SMT
<1>5. /\ SubSeq(l, f, Len(l)) \in Seq(STRING) /\ Len(SubSeq(l, f, Len(l))) = Len(l) - f + 1
      /\ \A n \in 1 .. Len(l) - f + 1 : SubSeq(l, f, Len(l))[n] = l[f + n - 1]
  BY <1>1, <1>4, PartOf
<1>6. ASSUME NEW y \in 1 .. f - 1 PROVE C!IsSpace(l[y])
  <2>1. y \in 1 .. Len(l) /\ ~(f <= y)
    BY <1>1, <1>3, SMT
  <2> QED BY <1>1, <1>3, <2>1 DEF C!Solid
<1> QED BY <1>2, <1>3, <1>5, <1>6 DEF C!Solid

\* The first = of a line.
LEMMA SeparatorIs ==
  ASSUME NEW s \in Seq(STRING)
  PROVE  \/ C!Separator(s) = 0 /\ \A n \in 1 .. Len(s) : s[n] # "="
         \/ /\ C!Separator(s) \in 1 .. Len(s) /\ s[C!Separator(s)] = "="
            /\ \A n \in 1 .. C!Separator(s) - 1 : s[n] # "="
<1>1. Len(s) \in Nat /\ DOMAIN s = 1 .. Len(s)
  BY LenProperties
<1>2. PICK Q : Q = {x \in DOMAIN s : s[x] = "="}
  OBVIOUS
<1>3. C!Separator(s) = IF Q = {} THEN 0 ELSE CHOOSE x \in Q : \A y \in Q : x <= y
  BY <1>2 DEF C!Separator
<1>4. CASE Q = {}
  BY <1>1, <1>2, <1>3, <1>4
<1>5. CASE Q # {}
  <2>1. Q \in SUBSET Nat
    BY <1>1, <1>2, SMT
  <2>2. PICK z : z = C!Separator(s)
    OBVIOUS
  <2>3. z \in Q /\ \A y \in Q : z <= y
    BY <1>3, <1>5, <2>1, <2>2, HasLeast
  <2>4. z \in 1 .. Len(s) /\ s[z] = "="
    BY <1>1, <1>2, <2>3
  <2>5. ASSUME NEW n \in 1 .. z - 1 PROVE s[n] # "="
    <3>1. n \in 1 .. Len(s) /\ ~(z <= n)
      BY <1>1, <2>4, SMT
    <3> QED BY <1>1, <1>2, <2>3, <3>1
  <2> QED BY <2>2, <2>4, <2>5
<1> QED BY <1>4, <1>5

LEMMA SeparatorAt ==
  ASSUME NEW s \in Seq(STRING), NEW x \in 1 .. Len(s), s[x] = "=", \A n \in 1 .. x - 1 : s[n] # "="
  PROVE  C!Separator(s) = x
<1>1. PICK z : z = C!Separator(s)
  OBVIOUS
<1>2. Len(s) \in Nat
  BY LenProperties
<1>3. z \in 1 .. Len(s) /\ s[z] = "=" /\ \A n \in 1 .. z - 1 : s[n] # "="
  BY <1>1, SeparatorIs
<1>4. ~(x \in 1 .. z - 1) /\ ~(z \in 1 .. x - 1)
  BY <1>3
<1>5. z = x
  BY <1>2, <1>3, <1>4, SMT
<1> QED BY <1>1, <1>5

\* What a line makes of the setting, and whether it overruns a buffer: Read, with
\* the line that fgets took.
FromIndex(l) == SubSeq(l, C!FirstSolid(l), Len(l))
Parsed(l, p) ==
  IF C!Solid(l) = {} THEN p
  ELSE IF FromIndex(l)[1] = "#" THEN p
  ELSE LET x == C!Separator(FromIndex(l)) IN
    IF x = 0 \/ x = Len(FromIndex(l)) \/ x - 1 >= KvSize THEN p
    ELSE IF C!Trim(SubSeq(FromIndex(l), 1, x - 1)) = <<"k">>
         THEN Over(C!Trim(SubSeq(FromIndex(l), x + 1, Len(FromIndex(l)))), p) ELSE p
Overran(l) ==
  C!Solid(l) # {} /\ FromIndex(l)[1] # "#" /\ ~C!Passed(FromIndex(l)) /\ C!Overruns(FromIndex(l))

\* How long a line's key is, and what is behind it.
LEMMA KeyLength ==
  ASSUME NEW s \in Seq(STRING), NEW w \in 1 .. Len(s), w = C!Separator(s)
  PROVE  Len(C!Key(s)) = w - 1 /\ Len(C!Given(s)) = Len(s) - w
<1>1. PICK a : a = Len(s)
  OBVIOUS
<1>2. a \in Nat /\ w \in 1 .. a
  BY <1>1, LenProperties
<1>3. PICK b, c : b = w - 1 /\ c = w + 1
  OBVIOUS
<1>4. /\ 1 \in Nat \ {0} /\ b \in Nat /\ b <= a /\ c \in Nat \ {0} /\ a <= a
      /\ (IF 1 <= b THEN b - 1 + 1 ELSE 0) = w - 1
      /\ (IF c <= a THEN a - c + 1 ELSE 0) = a - w
  BY <1>2, <1>3, SMT
<1>5. Len(SubSeq(s, 1, b)) = IF 1 <= b THEN b - 1 + 1 ELSE 0
  BY <1>1, <1>4, PartOf
<1>6. Len(SubSeq(s, c, a)) = IF c <= a THEN a - c + 1 ELSE 0
  BY <1>1, <1>2, <1>4, PartOf
<1> QED BY <1>1, <1>3, <1>4, <1>5, <1>6 DEF C!Key, C!Given

LEMMA Characters == /\ ~C!IsSpace("k") /\ ~C!IsSpace("=") /\ ~C!IsSpace("#")
                    /\ "k" # "=" /\ "k" # "#"
BY DEF C!IsSpace

LEMMA OverNothing == ASSUME NEW p \in Seq(STRING) PROVE Over(<<>>, p) = p
<1>1. Len(p) \in Nat /\ 1 \in Nat \ {0}
  BY LenProperties, SMT
<1>2. PICK t : t = SubSeq(p, 1, Len(p))
  OBVIOUS
<1>3. /\ t \in Seq(STRING) /\ Len(t) = IF 1 <= Len(p) THEN Len(p) - 1 + 1 ELSE 0
      /\ \A n \in 1 .. Len(p) - 1 + 1 : t[n] = p[1 + n - 1]
  BY <1>1, <1>2, PartOf
<1>4. Len(t) = Len(p) /\ \A n \in 1 .. Len(t) : t[n] = p[n]
  <2>1. Len(t) = Len(p) /\ Len(p) - 1 + 1 = Len(p) /\ \A n \in 1 .. Len(p) : 1 + n - 1 = n
    BY <1>1, <1>3, SMT
  <2> QED BY <1>3, <2>1
<1>5. t = p
  BY <1>3, <1>4, SeqEqual
<1>6. <<>> \o p = p
  BY ConcatEmptySeq
<1>7. Len(<<>>) + 1 = 1
  BY EmptySeq, SMT
<1> QED BY <1>2, <1>5, <1>6, <1>7 DEF Over

\* The value of a line is what is behind its first =.
LEMMA ValueIs ==
  ASSUME NEW l \in Seq(STRING), NEW z \in 1 .. Len(l), l[z] = "=", \A y \in 1 .. z - 1 : l[y] # "="
  PROVE  C!ValueOf(l) = C!Trim(SubSeq(l, z + 1, Len(l)))
<1>1. Len(l) \in Nat /\ DOMAIN l = 1 .. Len(l)
  BY LenProperties
<1>2. PICK w : w = CHOOSE x \in DOMAIN l : l[x] = "=" /\ \A y \in 1 .. x - 1 : l[y] # "="
  OBVIOUS
<1>3. w \in 1 .. Len(l) /\ l[w] = "=" /\ \A y \in 1 .. w - 1 : l[y] # "="
  BY <1>1, <1>2
<1>4. ~(w \in 1 .. z - 1) /\ ~(z \in 1 .. w - 1)
  BY <1>3
<1>5. w = z
  BY <1>1, <1>3, <1>4, SMT
<1> QED BY <1>2, <1>5 DEF C!ValueOf

LEMMA ValueType ==
  ASSUME NEW l \in Seq(STRING), C!Names(l)
  PROVE  C!ValueOf(l) \in Seq(STRING)
<1>1. Len(l) \in Nat /\ DOMAIN l = 1 .. Len(l)
  BY LenProperties
<1>2. PICK x \in 1 .. Len(l), z \in 1 .. Len(l) :
        /\ l[x] = "k" /\ \A y \in 1 .. x - 1 : C!IsSpace(l[y])
        /\ x < z /\ l[z] = "=" /\ \A y \in x + 1 .. z - 1 : C!IsSpace(l[y])
  BY <1>1 DEF C!Names
<1>3. ASSUME NEW y \in 1 .. z - 1 PROVE l[y] # "="
  <2>1. y \in 1 .. x - 1 \/ y = x \/ y \in x + 1 .. z - 1
    BY <1>1, SMT
  <2> QED BY <1>2, <2>1, Characters
<1>4. C!ValueOf(l) = C!Trim(SubSeq(l, z + 1, Len(l)))
  BY <1>2, <1>3, ValueIs
<1>5. z + 1 \in Nat \ {0}
  BY <1>1, SMT
<1>6. SubSeq(l, z + 1, Len(l)) \in Seq(STRING)
  BY <1>1, <1>5, PartOf
<1> QED BY <1>4, <1>6, TrimType

\* A line whose key, w - 1 characters of it, is k, and what is behind its =.
Keyed(l, w) ==
  /\ C!Solid(l) # {} /\ C!Separator(FromIndex(l)) = w
  /\ w # 0 /\ w # Len(FromIndex(l)) /\ w - 1 < KvSize
  /\ C!Trim(SubSeq(FromIndex(l), 1, w - 1)) = <<"k">>
Empty(l, w) ==
  C!Solid(l) # {} /\ C!Separator(FromIndex(l)) = w /\ w = Len(FromIndex(l))

\* A line that names the key has it, and a value unless nothing is behind the =.
LEMMA NamedParts ==
  ASSUME NEW l \in Seq(STRING), C!Names(l)
  PROVE  /\ FromIndex(l)[1] # "#"
         /\ \E w \in Nat :
              \/ Empty(l, w) /\ C!ValueOf(l) = <<>>
              \/ Keyed(l, w) /\ C!ValueOf(l) = C!Trim(SubSeq(FromIndex(l), w + 1, Len(FromIndex(l))))
<1>1. Len(l) \in Nat /\ DOMAIN l = 1 .. Len(l) /\ KvSize \in Nat
  BY LenProperties, ProgramsAssumption DEF ProgramsAssumption
<1>2. PICK x \in 1 .. Len(l), z \in 1 .. Len(l) :
        /\ l[x] = "k" /\ \A y \in 1 .. x - 1 : C!IsSpace(l[y])
        /\ x < z /\ z < x + KvSize /\ l[z] = "=" /\ \A y \in x + 1 .. z - 1 : C!IsSpace(l[y])
  BY <1>1 DEF C!Names
<1>3. ASSUME NEW y \in 1 .. z - 1 PROVE l[y] # "="
  <2>1. y \in 1 .. x - 1 \/ y = x \/ y \in x + 1 .. z - 1
    BY <1>1, SMT
  <2> QED BY <1>2, <2>1, Characters
<1>4. C!ValueOf(l) = C!Trim(SubSeq(l, z + 1, Len(l)))
  BY <1>2, <1>3, ValueIs
<1>5. x \in C!Solid(l) /\ C!Solid(l) # {}
  BY <1>1, <1>2, Characters DEF C!Solid
<1>6. PICK f \in 1 .. Len(l), s \in Seq(STRING) :
           /\ f = C!FirstSolid(l) /\ s = SubSeq(l, f, Len(l)) /\ Len(s) = Len(l) - f + 1
           /\ \A n \in 1 .. Len(s) : s[n] = l[f + n - 1]
           /\ ~C!IsSpace(l[f]) /\ \A y \in 1 .. f - 1 : C!IsSpace(l[y])
  BY <1>5, FromSolid
<1>7. f = x
  <2>1. ~(f \in 1 .. x - 1) /\ ~(x \in 1 .. f - 1)
    BY <1>2, <1>6, Characters
  <2> QED BY <1>1, <2>1, SMT
<1>8. PICK w : w = z - x + 1
  OBVIOUS
<1>9. w \in 1 .. Len(s) /\ w > 1 /\ w - 1 < KvSize /\ x + w - 1 = z /\ 1 \in 1 .. Len(s) /\ x + 1 - 1 = x
  BY <1>1, <1>2, <1>6, <1>7, <1>8, SMT
<1>10. s[1] = "k" /\ s[w] = "="
  BY <1>2, <1>6, <1>7, <1>9
<1>11. ASSUME NEW n \in 1 .. w - 1 PROVE s[n] # "="
  <2>1. n \in 1 .. Len(s) /\ x + n - 1 \in 1 .. z - 1
    BY <1>1, <1>2, <1>6, <1>7, <1>9, SMT
  <2> QED BY <1>3, <1>6, <1>7, <2>1
<1>12. C!Separator(s) = w
  BY <1>9, <1>10, <1>11, SeparatorAt
<1>13. CASE w = Len(s)
  <2>1. z = Len(l) /\ z + 1 \in Nat \ {0} /\ ~(z + 1 <= Len(l))
    <3>1. PICK c, d : c = Len(l) /\ d = Len(s)
      OBVIOUS
    <3>2. c \in Nat /\ x \in 1 .. c /\ z \in 1 .. c /\ d = c - x + 1 /\ w = z - x + 1 /\ w = d
      BY <1>1, <1>6, <1>7, <1>8, <1>13, <3>1
    <3>3. z = c /\ z + 1 \in Nat \ {0} /\ ~(z + 1 <= c)
      BY <3>2, SMT
    <3> QED BY <3>1, <3>3
  <2>2. SubSeq(l, z + 1, Len(l)) = <<>>
    <3>1. SubSeq(l, z + 1, Len(l)) \in Seq(STRING) /\ Len(SubSeq(l, z + 1, Len(l))) = 0
      BY <1>1, <2>1, PartOf
    <3> QED BY <3>1, EmptySeq
  <2>3. C!ValueOf(l) = <<>>
    <3>1. C!Solid(<<>>) = {}
      BY DEF C!Solid
    <3> QED BY <1>4, <2>2, <3>1 DEF C!Trim
  <2>4. w \in Nat /\ FromIndex(l) = s
    BY <1>1, <1>6, <1>8, <1>2, SMT DEF FromIndex
  <2>5. Empty(l, w)
    BY <1>5, <1>12, <1>13, <2>4 DEF Empty
  <2> QED BY <1>10, <2>3, <2>4, <2>5, Characters
<1>14. CASE w # Len(s)
  <2>1. PICK e : e = SubSeq(s, 1, w - 1)
    OBVIOUS
  <2>2. 1 \in Nat \ {0} /\ w - 1 \in Nat /\ w - 1 <= Len(s) /\ 1 <= w - 1 /\ (w - 1) - 1 + 1 = w - 1
    BY <1>1, <1>6, <1>9, SMT
  <2>3. e \in Seq(STRING) /\ Len(e) = w - 1 /\ \A n \in 1 .. w - 1 : e[n] = s[1 + n - 1]
    BY <2>1, <2>2, PartOf
  <2>4. C!Solid(e) = {1}
    <3>1. DOMAIN e = 1 .. w - 1
      BY <2>3, LenProperties
    <3>2. 1 \in 1 .. w - 1 /\ 1 + 1 - 1 = 1
      BY <2>2, SMT
    <3>3. 1 \in C!Solid(e)
      BY <1>10, <2>3, <3>1, <3>2, Characters DEF C!Solid
    <3>4. ASSUME NEW n \in 1 .. w - 1, n # 1 PROVE C!IsSpace(e[n])
      <4>1. n \in 1 .. Len(s) /\ 1 + n - 1 = n /\ x + n - 1 \in x + 1 .. z - 1
        BY <1>1, <1>2, <1>6, <1>7, <1>9, <3>4, SMT
      <4> QED BY <1>2, <1>6, <1>7, <2>3, <4>1
    <3> QED BY <3>1, <3>3, <3>4 DEF C!Solid
  <2>5. C!FirstSolid(e) = 1 /\ C!LastSolid(e) = 1
    <3>1. C!Solid(e) # {}
      BY <2>4
    <3> QED BY <2>3, <2>4, <3>1, SolidEnds
  <2>6. C!Trim(e) = <<"k">>
    <3>1. PICK g : g = SubSeq(e, 1, 1)
      OBVIOUS
    <3>2. 1 \in Nat /\ 1 \in Nat \ {0} /\ 1 <= Len(e) /\ 1 - 1 + 1 = 1 /\ 1 \in 1 .. 1 /\ 1 <= 1 /\ 1 + 1 - 1 = 1
          /\ 1 \in 1 .. w - 1
      BY <2>2, <2>3, SMT
    <3>3. g \in Seq(STRING) /\ Len(g) = 1 /\ g[1] = e[1]
      BY <2>3, <3>1, <3>2, PartOf
    <3>4. e[1] = "k"
      BY <1>10, <2>3, <3>2
    <3>5. PICK h : h = <<"k">>
      OBVIOUS
    <3>9. "k" \in STRING
      <4>1. Len(e) \in Nat /\ e \in [1 .. Len(e) -> STRING]
        BY <2>3, LenProperties
      <4> QED BY <2>3, <3>2, <3>4, <4>1
    <3>6. h \in Seq(STRING) /\ Len(h) = 1 /\ h[1] = "k"
      BY <3>5, <3>9, SMT
    <3>7. \A n \in 1 .. Len(g) : g[n] = h[n]
      <4>1. \A n \in 1 .. 1 : n = 1
        BY SMT
      <4> QED BY <3>3, <3>4, <3>6, <4>1
    <3>8. g = h
      BY <3>3, <3>6, <3>7, SeqEqual
    <3> QED BY <2>4, <2>5, <3>1, <3>5, <3>8 DEF C!Trim
  <2>7. SubSeq(s, w + 1, Len(s)) = SubSeq(l, z + 1, Len(l))
    <3>1. PICK g, h : g = SubSeq(s, w + 1, Len(s)) /\ h = SubSeq(l, z + 1, Len(l))
      OBVIOUS
    <3>2. /\ w + 1 \in Nat \ {0} /\ z + 1 \in Nat \ {0} /\ Len(s) \in Nat /\ Len(s) <= Len(s) /\ Len(l) <= Len(l)
          /\ w + 1 <= Len(s) /\ z + 1 <= Len(l) /\ Len(s) - (w + 1) + 1 = Len(l) - (z + 1) + 1
      <4>1. PICK c, d : c = Len(l) /\ d = Len(s)
        OBVIOUS
      <4>2. c \in Nat /\ x \in 1 .. c /\ z \in 1 .. c /\ d = c - x + 1 /\ w = z - x + 1 /\ w # d /\ w \in 1 .. d
        BY <1>1, <1>6, <1>7, <1>8, <1>9, <1>14, <4>1
      <4>3. d \in Nat
        BY <4>2, SMT
      <4>4. w + 1 \in Nat \ {0} /\ z + 1 \in Nat \ {0} /\ w + 1 <= d /\ z + 1 <= c
        BY <4>2, <4>3, SMT
      <4>5. d - (w + 1) + 1 = c - (z + 1) + 1 /\ d <= d /\ c <= c
        BY <4>2, <4>3, SMT
      <4> QED BY <4>1, <4>3, <4>4, <4>5
    <3>3. /\ g \in Seq(STRING) /\ Len(g) = Len(l) - (z + 1) + 1
          /\ \A n \in 1 .. Len(l) - (z + 1) + 1 : g[n] = s[w + 1 + n - 1]
      <4>1. PICK v, d : v = w + 1 /\ d = Len(s)
        OBVIOUS
      <4>2. v \in Nat \ {0} /\ d \in Nat /\ d <= Len(s)
        BY <3>2, <4>1
      <4>3. /\ SubSeq(s, v, d) \in Seq(STRING) /\ Len(SubSeq(s, v, d)) = IF v <= d THEN d - v + 1 ELSE 0
            /\ \A n \in 1 .. d - v + 1 : SubSeq(s, v, d)[n] = s[v + n - 1]
        BY <4>2, PartOf
      <4> QED BY <3>1, <3>2, <4>1, <4>3
    <3>4. /\ h \in Seq(STRING) /\ Len(h) = Len(l) - (z + 1) + 1
          /\ \A n \in 1 .. Len(l) - (z + 1) + 1 : h[n] = l[z + 1 + n - 1]
      BY <1>1, <3>1, <3>2, PartOf
    <3>5. ASSUME NEW n \in 1 .. Len(g) PROVE g[n] = h[n]
      <4>1. n \in 1 .. Len(l) - (z + 1) + 1
        BY <3>3
      <4>2. w + 1 + n - 1 \in 1 .. Len(s) /\ x + (w + 1 + n - 1) - 1 = z + 1 + n - 1
        <5>1. PICK c, d : c = Len(l) /\ d = Len(s)
          OBVIOUS
        <5>2. c \in Nat /\ x \in 1 .. c /\ z \in 1 .. c /\ d = c - x + 1 /\ w = z - x + 1 /\ n \in 1 .. c - (z + 1) + 1
              /\ w \in 1 .. d
          BY <1>1, <1>6, <1>7, <1>8, <1>9, <4>1, <5>1
        <5>3. w + 1 + n - 1 \in 1 .. d /\ x + (w + 1 + n - 1) - 1 = z + 1 + n - 1
          BY <5>2, SMT
        <5> QED BY <5>1, <5>3
      <4>3. g[n] = s[w + 1 + n - 1] /\ h[n] = l[z + 1 + n - 1]
        BY <3>3, <3>4, <4>1
      <4>4. PICK t, r : t = w + 1 + n - 1 /\ r = z + 1 + n - 1
        OBVIOUS
      <4>5. s[t] = l[x + t - 1] /\ x + t - 1 = r
        BY <1>6, <1>7, <4>2, <4>4
      <4> QED BY <4>3, <4>4, <4>5
    <3>6. Len(g) = Len(h)
      BY <3>3, <3>4
    <3>7. g = h
      BY <3>3, <3>4, <3>5, <3>6, SeqEqual
    <3> QED BY <3>1, <3>7
  <2>8. w # 0 /\ w \in Nat /\ w - 1 < KvSize
    BY <1>1, <1>6, <1>9, SMT
  <2>9. FromIndex(l) = s
    BY <1>6 DEF FromIndex
  <2>10. Keyed(l, w)
    BY <1>5, <1>12, <1>14, <2>1, <2>6, <2>8, <2>9 DEF Keyed
  <2> QED BY <1>4, <1>10, <2>7, <2>8, <2>9, <2>10, Characters
<1> QED BY <1>13, <1>14

\* A line that has the key names it.
LEMMA PartsNamed ==
  ASSUME NEW l \in Seq(STRING), NEW w, Keyed(l, w)
  PROVE  C!Names(l)
<1>1. Len(l) \in Nat /\ DOMAIN l = 1 .. Len(l) /\ KvSize \in Nat
  BY LenProperties, ProgramsAssumption DEF ProgramsAssumption
<1>2. C!Solid(l) # {}
  BY DEF Keyed
<1>3. PICK f \in 1 .. Len(l), s \in Seq(STRING) :
           /\ f = C!FirstSolid(l) /\ s = SubSeq(l, f, Len(l)) /\ Len(s) = Len(l) - f + 1
           /\ \A n \in 1 .. Len(s) : s[n] = l[f + n - 1]
           /\ ~C!IsSpace(l[f]) /\ \A y \in 1 .. f - 1 : C!IsSpace(l[y])
  BY <1>2, FromSolid
<1>4. FromIndex(l) = s
  BY <1>3 DEF FromIndex
<1>5. w # 0 /\ w # Len(s) /\ w - 1 < KvSize /\ C!Trim(SubSeq(s, 1, w - 1)) = <<"k">> /\ w = C!Separator(s)
  BY <1>4 DEF Keyed
<1>6. w \in 1 .. Len(s) /\ s[w] = "="
  BY <1>5, SeparatorIs
<1>7. Len(s) \in Nat
  BY LenProperties
<1>8. PICK e : e = SubSeq(s, 1, w - 1)
  OBVIOUS
<1>9. 1 \in Nat \ {0} /\ w - 1 \in Nat /\ w - 1 <= Len(s) /\ (w - 1) - 1 + 1 = w - 1 /\ (~(1 <= w - 1) => w - 1 = 0)
  BY <1>6, <1>7, SMT
<1>10. e \in Seq(STRING) /\ Len(e) = w - 1 /\ \A n \in 1 .. w - 1 : e[n] = s[1 + n - 1]
  BY <1>8, <1>9, PartOf
<1>11. DOMAIN e = 1 .. w - 1
  BY <1>10, LenProperties
<1>12. Len(<<"k">>) = 1 /\ <<"k">>[1] = "k"
  BY SMT
<1>13. C!Solid(e) # {}
  <2>1. CASE C!Solid(e) = {}
    <3>1. <<"k">> = <<>>
      BY <1>5, <1>8, <2>1 DEF C!Trim
    <3>2. Len(<<>>) = 1
      BY <1>12, <3>1
    <3> QED BY <3>2, EmptySeq, SMT
  <2> QED BY <2>1
<1>14. PICK a, b : a = C!FirstSolid(e) /\ b = C!LastSolid(e)
  OBVIOUS
<1>15. /\ a \in C!Solid(e) /\ b \in C!Solid(e) /\ a \in 1 .. w - 1 /\ b \in 1 .. w - 1 /\ a <= b
       /\ \A y \in C!Solid(e) : a <= y /\ y <= b
  BY <1>10, <1>13, <1>14, SolidEnds
<1>16. PICK g : g = SubSeq(e, a, b)
  OBVIOUS
<1>17. g = <<"k">>
  BY <1>5, <1>8, <1>13, <1>14, <1>16 DEF C!Trim
<1>18. a \in Nat \ {0} /\ b \in Nat /\ b <= Len(e)
  BY <1>9, <1>10, <1>15, SMT
<1>19. Len(g) = b - a + 1 /\ \A n \in 1 .. b - a + 1 : g[n] = e[a + n - 1]
  BY <1>10, <1>15, <1>16, <1>18, PartOf
<1>20. a = b /\ 1 \in 1 .. b - a + 1 /\ a + 1 - 1 = a
  <2>1. b - a + 1 = 1
    BY <1>12, <1>17, <1>19
  <2> QED BY <1>18, <2>1, SMT
<1>21. e[a] = "k"
  BY <1>12, <1>17, <1>19, <1>20
<1>22. ASSUME NEW n \in 1 .. w - 1 PROVE e[n] = l[f + n - 1]
  <2>1. 1 + n - 1 = n /\ n \in 1 .. Len(s)
    BY <1>7, <1>9, SMT
  <2> QED BY <1>3, <1>10, <2>1
<1>23. a = 1
  <2>1. 1 \in 1 .. w - 1 /\ f + 1 - 1 = f
    BY <1>1, <1>9, <1>15, SMT
  <2>2. 1 \in C!Solid(e)
    BY <1>3, <1>11, <1>22, <2>1 DEF C!Solid
  <2> QED BY <1>15, <1>18, <2>2, SMT
<1>24. \A n \in 1 .. w - 1 : n # 1 => C!IsSpace(e[n])
  BY <1>11, <1>15, <1>20, <1>23, <1>18, SMT DEF C!Solid
<1>25. PICK z : z = f + w - 1
  OBVIOUS
<1>26. /\ z \in 1 .. Len(l) /\ f < z /\ z < f + KvSize
  <2>1. PICK x, n : x = Len(l) /\ n = Len(s)
    OBVIOUS
  <2>2. x \in Nat /\ n \in Nat /\ n = x - f + 1 /\ f \in 1 .. x
    BY <1>1, <1>3, <1>7, <2>1
  <2>3. w \in 1 .. n /\ w - 1 < KvSize /\ KvSize \in Nat
    BY <1>1, <1>5, <1>6, <2>1
  <2>4. w # 1
    BY <1>15, SMT
  <2>5. z \in 1 .. x /\ f < z /\ z < f + KvSize
    BY <1>25, <2>2, <2>3, <2>4, SMT
  <2> QED BY <2>1, <2>5
<1>27. l[z] = "="
  BY <1>3, <1>6, <1>25
<1>28. l[f] = "k"
  <2>1. f + 1 - 1 = f /\ 1 \in 1 .. w - 1
    BY <1>1, <1>15, <1>23, SMT
  <2> QED BY <1>21, <1>22, <1>23, <2>1
<1>29. ASSUME NEW y \in f + 1 .. z - 1 PROVE C!IsSpace(l[y])
  <2>1. y - f + 1 \in 1 .. w - 1 /\ y - f + 1 # 1 /\ f + (y - f + 1) - 1 = y
    BY <1>1, <1>7, <1>25, <1>6, SMT
  <2> QED BY <1>22, <1>24, <2>1
<1> QED BY <1>1, <1>3, <1>26, <1>27, <1>28, <1>29 DEF C!Names

\* What a line that names the key makes of the setting, and one that does not.
LEMMA NamedLine ==
  ASSUME NEW l \in Seq(STRING), NEW p \in Seq(STRING), C!Names(l)
  PROVE  Parsed(l, p) = Over(C!ValueOf(l), p)
<1>1. PICK w \in Nat :
        \/ Empty(l, w) /\ C!ValueOf(l) = <<>>
        \/ Keyed(l, w) /\ C!ValueOf(l) = C!Trim(SubSeq(FromIndex(l), w + 1, Len(FromIndex(l))))
  BY NamedParts
<1>2. FromIndex(l)[1] # "#" /\ KvSize \in Nat
  BY NamedParts, ProgramsAssumption DEF ProgramsAssumption
<1>3. CASE Empty(l, w) /\ C!ValueOf(l) = <<>>
  <2>1. Parsed(l, p) = p
    BY <1>3 DEF Parsed, Empty
  <2> QED BY <1>3, <2>1, OverNothing
<1>4. CASE Keyed(l, w) /\ C!ValueOf(l) = C!Trim(SubSeq(FromIndex(l), w + 1, Len(FromIndex(l))))
  <2>1. ~(w - 1 >= KvSize)
    BY <1>2, <1>4, SMT DEF Keyed
  <2> QED BY <1>2, <1>4, <2>1 DEF Parsed, Keyed
<1> QED BY <1>1, <1>3, <1>4

LEMMA OtherLine ==
  ASSUME NEW l \in Seq(STRING), NEW p, ~C!Names(l)
  PROVE  Parsed(l, p) = p
<1> SUFFICES ASSUME Parsed(l, p) # p PROVE FALSE
  OBVIOUS
<1>1. PICK w : w = C!Separator(FromIndex(l))
  OBVIOUS
<1>2. /\ C!Solid(l) # {} /\ w # 0 /\ w # Len(FromIndex(l)) /\ ~(w - 1 >= KvSize)
      /\ C!Trim(SubSeq(FromIndex(l), 1, w - 1)) = <<"k">>
  BY <1>1 DEF Parsed
<1>3. w \in Nat /\ KvSize \in Nat
  <2>1. FromIndex(l) \in Seq(STRING)
    BY <1>2, FromSolid DEF FromIndex
  <2>2. w \in 1 .. Len(FromIndex(l)) /\ Len(FromIndex(l)) \in Nat
    BY <1>1, <1>2, <2>1, SeparatorIs, LenProperties
  <2> QED BY <2>2, ProgramsAssumption, SMT DEF ProgramsAssumption
<1>4. w - 1 < KvSize
  BY <1>2, <1>3, SMT
<1>5. Keyed(l, w)
  BY <1>1, <1>2, <1>4 DEF Keyed
<1> QED BY <1>5, PartsNamed

\* A line that has no room names the key with too long a value, or is longer
\* than a buffer.
LEMMA OverranIs ==
  ASSUME NEW l \in Seq(STRING), Overran(l)
  PROVE  Crowded(l)
<1>1. PICK w, s : s = FromIndex(l) /\ w = C!Separator(s)
  OBVIOUS
<1>2. C!Solid(l) # {} /\ ~C!Passed(s) /\ C!Overruns(s)
  BY <1>1 DEF Overran
<1>3. s \in Seq(STRING) /\ Len(l) \in Nat /\ Len(s) \in Nat /\ Len(s) <= Len(l) /\ KvSize \in Nat
  <2>1. PICK f \in 1 .. Len(l) : f = C!FirstSolid(l) /\ s \in Seq(STRING) /\ Len(s) = Len(l) - f + 1
    BY <1>1, <1>2, FromSolid DEF FromIndex
  <2>2. Len(l) \in Nat /\ Len(s) \in Nat
    BY <2>1, LenProperties
  <2> QED BY <2>1, <2>2, ProgramsAssumption, SMT DEF ProgramsAssumption
<1>4. w # 0 /\ w # Len(s) /\ ~(Len(C!Key(s)) > KvSize)
  BY <1>1, <1>2 DEF C!Passed
<1>5. w \in 1 .. Len(s)
  BY <1>1, <1>3, <1>4, SeparatorIs
<1>6. Len(C!Key(s)) = w - 1 /\ Len(C!Given(s)) = Len(s) - w
  BY <1>1, <1>3, <1>5, KeyLength
<1>7. CASE Len(C!Key(s)) >= KvSize \/ Len(C!Given(s)) >= KvSize
  <2>1. PICK a, b : a = Len(s) /\ b = Len(l)
    OBVIOUS
  <2>2. a \in Nat /\ b \in Nat /\ a <= b /\ w \in 1 .. a /\ w # a /\ (w - 1 >= KvSize \/ a - w >= KvSize)
    BY <1>3, <1>4, <1>5, <1>6, <1>7, <2>1
  <2>3. b > KvSize
    BY <1>3, <2>2, SMT
  <2> QED BY <2>1, <2>3 DEF Crowded
<1>8. CASE ~(Len(C!Key(s)) >= KvSize) /\ C!Trim(C!Key(s)) = <<"k">> /\ Len(C!Trim(C!Given(s))) >= SipSize
  <2>1. w - 1 < KvSize
    <3>1. PICK a : a = Len(s)
      OBVIOUS
    <3>2. a \in Nat /\ w \in 1 .. a /\ ~(w - 1 >= KvSize)
      BY <1>3, <1>5, <1>6, <1>8, <3>1
    <3> QED BY <1>3, <3>2, SMT
  <2>2. Keyed(l, w)
    BY <1>1, <1>2, <1>4, <1>8, <2>1 DEF Keyed, C!Key
  <2>3. C!Names(l)
    BY <2>2, PartsNamed
  <2>4. PICK x \in Nat :
          \/ Empty(l, x) /\ C!ValueOf(l) = <<>>
          \/ Keyed(l, x) /\ C!ValueOf(l) = C!Trim(SubSeq(FromIndex(l), x + 1, Len(FromIndex(l))))
    BY <2>3, NamedParts
  <2>5. x = w /\ ~Empty(l, x)
    BY <2>2, <2>4 DEF Keyed, Empty
  <2>6. C!ValueOf(l) = C!Trim(C!Given(s))
    BY <1>1, <2>4, <2>5 DEF C!Given
  <2> QED BY <1>8, <2>3, <2>6 DEF Crowded
<1> QED BY <1>2, <1>7, <1>8 DEF C!Overruns

\* The value of a line that has room is shorter than portal_sip.
LEMMA RoomFor ==
  ASSUME NEW l \in Seq(STRING), C!Names(l), ~Overran(l)
  PROVE  Len(C!ValueOf(l)) < SipSize
<1>1. PICK w \in Nat :
        \/ Empty(l, w) /\ C!ValueOf(l) = <<>>
        \/ Keyed(l, w) /\ C!ValueOf(l) = C!Trim(SubSeq(FromIndex(l), w + 1, Len(FromIndex(l))))
  BY NamedParts
<1>2. FromIndex(l)[1] # "#" /\ KvSize \in Nat /\ SipSize \in Nat \ {0}
  BY NamedParts, ProgramsAssumption DEF ProgramsAssumption
<1>3. CASE C!ValueOf(l) = <<>>
  <2>1. Len(C!ValueOf(l)) = 0
    BY <1>3, EmptySeq
  <2> QED BY <1>2, <2>1, SMT
<1>4. CASE Keyed(l, w) /\ C!ValueOf(l) = C!Trim(SubSeq(FromIndex(l), w + 1, Len(FromIndex(l))))
  <2>1. PICK s : s = FromIndex(l)
    OBVIOUS
  <2>2. /\ C!Solid(l) # {} /\ C!Separator(s) = w /\ w # 0 /\ w # Len(s) /\ w - 1 < KvSize
        /\ C!Trim(C!Key(s)) = <<"k">> /\ C!ValueOf(l) = C!Trim(C!Given(s))
    BY <1>4, <2>1 DEF Keyed, C!Key, C!Given
  <2>3. s \in Seq(STRING)
    BY <2>1, <2>2, FromSolid DEF FromIndex
  <2>4. w \in 1 .. Len(s)
    BY <2>2, <2>3, SeparatorIs
  <2>5. Len(C!Key(s)) = w - 1
    BY <2>2, <2>3, <2>4, KeyLength
  <2>6. ~(w - 1 > KvSize)
    BY <1>2, <2>2, SMT
  <2>7. ~C!Passed(s)
    BY <2>2, <2>5, <2>6 DEF C!Passed
  <2>8. ~C!Overruns(s)
    BY <1>2, <2>1, <2>2, <2>7 DEF Overran
  <2>9. ~(Len(C!ValueOf(l)) >= SipSize)
    BY <2>2, <2>8 DEF C!Overruns
  <2>10. Len(C!ValueOf(l)) \in Nat
    BY ValueType, LenProperties
  <2> QED BY <1>2, <2>9, <2>10, SMT
<1> QED BY <1>1, <1>3, <1>4

LEMMA OverIs ==
  ASSUME NEW v \in Seq(STRING), NEW p \in Seq(STRING)
  PROVE  /\ Over(v, p) \in Seq(STRING)
         /\ Len(Over(v, p)) = IF Len(v) >= Len(p) THEN Len(v) ELSE Len(p)
         /\ \A m \in 1 .. Len(Over(v, p)) : Over(v, p)[m] = IF m <= Len(v) THEN v[m] ELSE p[m]
<1>1. PICK a, b : a = Len(v) /\ b = Len(p)
  OBVIOUS
<1>2. a \in Nat /\ b \in Nat /\ a + 1 \in Nat \ {0} /\ b <= b
  <2>1. a \in Nat /\ b \in Nat
    BY <1>1, LenProperties
  <2> QED BY <2>1, SMT
<1>3. PICK t : t = SubSeq(p, a + 1, b)
  OBVIOUS
<1>4. /\ t \in Seq(STRING) /\ Len(t) = (IF a + 1 <= b THEN b - (a + 1) + 1 ELSE 0)
      /\ \A n \in 1 .. b - (a + 1) + 1 : t[n] = p[a + 1 + n - 1]
  <2>1. PICK c : c = a + 1
    OBVIOUS
  <2>2. /\ SubSeq(p, c, b) \in Seq(STRING) /\ Len(SubSeq(p, c, b)) = (IF c <= b THEN b - c + 1 ELSE 0)
        /\ \A n \in 1 .. b - c + 1 : SubSeq(p, c, b)[n] = p[c + n - 1]
    BY <1>1, <1>2, <2>1, PartOf
  <2> QED BY <1>3, <2>1, <2>2
<1>5. PICK q : q = v \o t
  OBVIOUS
<1>6. /\ q \in Seq(STRING) /\ Len(q) = a + Len(t)
      /\ \A m \in 1 .. a + Len(t) : q[m] = IF m <= a THEN v[m] ELSE t[m - a]
  <2>1. /\ v \o t \in Seq(STRING) /\ Len(v \o t) = Len(v) + Len(t)
        /\ \A m \in 1 .. Len(v) + Len(t) : (v \o t)[m] = IF m <= Len(v) THEN v[m] ELSE t[m - Len(v)]
    BY <1>4, ConcatProperties
  <2> QED BY <1>1, <1>5, <2>1
<1>7. Len(q) = IF a >= b THEN a ELSE b
  BY <1>2, <1>4, <1>6, SMT
<1>8. ASSUME NEW m \in 1 .. Len(q) PROVE q[m] = IF m <= a THEN v[m] ELSE p[m]
  <2>1. CASE m <= a
    BY <1>6, <2>1
  <2>2. CASE ~(m <= a)
    <3>1. m - a \in 1 .. b - (a + 1) + 1 /\ a + 1 + (m - a) - 1 = m
      BY <1>2, <1>7, <2>2, SMT
    <3>2. PICK c : c = m - a
      OBVIOUS
    <3>3. t[c] = p[a + 1 + c - 1] /\ a + 1 + c - 1 = m
      BY <1>4, <3>1, <3>2
    <3> QED BY <1>6, <2>2, <3>2, <3>3
  <2> QED BY <2>1, <2>2
<1> QED BY <1>1, <1>3, <1>5, <1>6, <1>7, <1>8 DEF Over

\* One line more of a file.
LEMMA LaidMore ==
  ASSUME NEW f \in Seq(Seq(STRING)), NEW n \in Nat, n < Len(f), NEW p, Laid(f, n, p)
  PROVE  Laid(f, n + 1, Parsed(f[n + 1], p))
<1>1. Len(f) \in Nat /\ DOMAIN f = 1 .. Len(f) /\ \A x \in 1 .. Len(f) : f[x] \in Seq(STRING)
  <2>1. Len(f) \in Nat /\ DOMAIN f = 1 .. Len(f) /\ f \in [1 .. Len(f) -> Seq(STRING)]
    BY LenProperties
  <2> QED BY <2>1
<1>2. PICK t, l : t = n + 1 /\ l = f[t]
  OBVIOUS
<1>3. t \in 1 .. Len(f) /\ t \in Nat /\ ~(t <= n) /\ \A x \in 1 .. Len(f) : x <= t <=> x <= n \/ x = t
  BY <1>1, <1>2, SMT
<1>4. l \in Seq(STRING) /\ p \in Seq(STRING)
  BY <1>1, <1>2, <1>3 DEF Laid
<1>5. CASE ~C!Names(l)
  <2>1. NamedIn(f, t) = NamedIn(f, n)
    BY <1>1, <1>2, <1>3, <1>5 DEF NamedIn
  <2>2. Parsed(l, p) = p
    BY <1>4, <1>5, OtherLine
  <2>3. Laid(f, t, p)
    BY <2>1 DEF Laid
  <2> QED BY <1>2, <2>2, <2>3
<1>6. CASE C!Names(l)
  <2>1. PICK v, q : v = C!ValueOf(l) /\ q = Over(v, p)
    OBVIOUS
  <2>2. v \in Seq(STRING) /\ Parsed(l, p) = q
    BY <1>4, <1>6, <2>1, ValueType, NamedLine
  <2>3. /\ q \in Seq(STRING) /\ Len(q) = (IF Len(v) >= Len(p) THEN Len(v) ELSE Len(p))
        /\ \A m \in 1 .. Len(q) : q[m] = IF m <= Len(v) THEN v[m] ELSE p[m]
    BY <1>4, <2>1, <2>2, OverIs
  <2>4. Len(v) \in Nat /\ Len(p) \in Nat /\ Len(q) \in Nat
    BY <1>4, <2>2, <2>3, LenProperties
  <2>5. PICK N, N2 : N = NamedIn(f, n) /\ N2 = NamedIn(f, t)
    OBVIOUS
  <2>6. N2 = N \cup {t}
    BY <1>1, <1>2, <1>3, <1>6, <2>5 DEF NamedIn
  <2>7. \A x \in N : x \in Nat /\ x < t
    <3>1. \A x \in N : x \in 1 .. Len(f) /\ x <= n
      BY <1>1, <2>5 DEF NamedIn
    <3> QED BY <1>1, <1>2, <3>1, SMT
  <2>8. \A x \in N : Len(C!ValueOf(f[x])) \in Nat
    <3> TAKE x \in N
    <3>1. f[x] \in Seq(STRING) /\ C!Names(f[x])
      BY <1>1, <2>5 DEF NamedIn
    <3>2. C!ValueOf(f[x]) \in Seq(STRING)
      BY <3>1, ValueType
    <3> QED BY <3>2, LenProperties
  <2>9. /\ \A x \in N : Len(C!ValueOf(f[x])) <= Len(p)
        /\ p # <<>> => \E x \in N : Len(C!ValueOf(f[x])) = Len(p)
        /\ \A m \in 1 .. Len(p) : \E x \in N : /\ Len(C!ValueOf(f[x])) >= m /\ p[m] = C!ValueOf(f[x])[m]
                                               /\ \A y \in N : y > x => Len(C!ValueOf(f[y])) < m
    BY <2>5 DEF Laid
  <2>10. C!ValueOf(f[t]) = v
    BY <1>2, <2>1
  <2>11. \A x \in N2 : Len(C!ValueOf(f[x])) <= Len(q)
    <3>1. Len(v) <= Len(q) /\ Len(p) <= Len(q)
      BY <2>3, <2>4, SMT
    <3>2. ASSUME NEW x \in N PROVE Len(C!ValueOf(f[x])) <= Len(q)
      <4>1. PICK a : a = Len(C!ValueOf(f[x]))
        OBVIOUS
      <4>2. a \in Nat /\ a <= Len(p)
        BY <2>8, <2>9, <4>1
      <4> QED BY <2>4, <3>1, <4>1, <4>2, SMT
    <3> QED BY <2>6, <2>10, <3>1, <3>2
  <2>12. q # <<>> => \E x \in N2 : Len(C!ValueOf(f[x])) = Len(q)
    <3>1. CASE Len(v) >= Len(p)
      BY <2>3, <2>6, <2>10, <3>1
    <3>2. CASE ~(Len(v) >= Len(p))
      <4>1. Len(q) = Len(p) /\ Len(p) # 0
        BY <2>3, <2>4, <3>2, SMT
      <4>2. p # <<>>
        BY <4>1, EmptySeq
      <4> QED BY <2>6, <2>9, <4>1, <4>2
    <3> QED BY <3>1, <3>2
  <2>13. ASSUME NEW m \in 1 .. Len(q)
         PROVE  \E x \in N2 : /\ Len(C!ValueOf(f[x])) >= m /\ q[m] = C!ValueOf(f[x])[m]
                             /\ \A y \in N2 : y > x => Len(C!ValueOf(f[y])) < m
    <3>1. CASE m <= Len(v)
      <4>1. Len(v) >= m
        BY <2>4, <3>1, SMT
      <4>2. \A y \in N2 : ~(y > t)
        BY <1>3, <2>6, <2>7, SMT
      <4>3. t \in N2 /\ q[m] = v[m]
        BY <2>3, <2>6, <3>1
      <4> QED BY <2>10, <4>1, <4>2, <4>3
    <3>2. CASE ~(m <= Len(v))
      <4>1. m \in 1 .. Len(p) /\ Len(v) < m
        BY <2>3, <2>4, <3>2, SMT
      <4>2. PICK x \in N : /\ Len(C!ValueOf(f[x])) >= m /\ p[m] = C!ValueOf(f[x])[m]
                           /\ \A y \in N : y > x => Len(C!ValueOf(f[y])) < m
        BY <2>9, <4>1
      <4>3. x \in N2 /\ q[m] = p[m]
        BY <2>3, <2>6, <3>2
      <4>4. \A y \in N2 : y > x => Len(C!ValueOf(f[y])) < m
        BY <2>6, <2>10, <4>1, <4>2
      <4> QED BY <4>2, <4>3, <4>4
    <3> QED BY <3>1, <3>2
  <2>14. Laid(f, t, q)
    BY <2>3, <2>5, <2>11, <2>12, <2>13 DEF Laid
  <2> QED BY <1>2, <2>2, <2>14
<1> QED BY <1>5, <1>6

\* What the values of all the lines leave is the setting.
LEMMA LaidAll ==
  ASSUME NEW f \in Seq(Seq(STRING)), NEW p, Laid(f, Len(f), p)
  PROVE  (IF p = <<>> THEN Default ELSE p) = Set(f)
<1>1. PICK N : N = NamedIn(f, Len(f))
  OBVIOUS
<1>2. /\ p \in Seq(STRING)
      /\ \A x \in N : Len(C!ValueOf(f[x])) <= Len(p)
      /\ p # <<>> => \E x \in N : Len(C!ValueOf(f[x])) = Len(p)
      /\ \A m \in 1 .. Len(p) : \E x \in N : /\ Len(C!ValueOf(f[x])) >= m /\ p[m] = C!ValueOf(f[x])[m]
                                             /\ \A y \in N : y > x => Len(C!ValueOf(f[y])) < m
  BY <1>1 DEF Laid
<1>3. \A x \in N : x \in Nat /\ C!ValueOf(f[x]) \in Seq(STRING) /\ Len(C!ValueOf(f[x])) \in Nat
  <2> TAKE x \in N
  <2>1. Len(f) \in Nat /\ DOMAIN f = 1 .. Len(f) /\ f \in [1 .. Len(f) -> Seq(STRING)]
    BY LenProperties
  <2>2. x \in 1 .. Len(f) /\ C!Names(f[x])
    BY <1>1, <2>1 DEF NamedIn
  <2>3. f[x] \in Seq(STRING) /\ x \in Nat
    BY <2>1, <2>2, SMT
  <2>4. C!ValueOf(f[x]) \in Seq(STRING)
    BY <2>2, <2>3, ValueType
  <2> QED BY <2>3, <2>4, LenProperties
<1>4. Len(p) \in Nat /\ p = [m \in 1 .. Len(p) |-> p[m]]
  BY <1>2, LenProperties
<1>5. CASE p = <<>>
  <2>1. Len(p) = 0
    BY <1>5, EmptySeq
  <2>2. \A x \in N : C!ValueOf(f[x]) = <<>>
    <3> TAKE x \in N
    <3>1. PICK v : v = C!ValueOf(f[x])
      OBVIOUS
    <3>2. v \in Seq(STRING) /\ Len(v) \in Nat /\ Len(v) <= 0
      BY <1>2, <1>3, <2>1, <3>1
    <3>3. Len(v) = 0
      BY <3>2, SMT
    <3> QED BY <3>1, <3>2, <3>3, EmptySeq
  <2> QED BY <1>1, <1>5, <2>2 DEF Set, Setting
<1>6. CASE p # <<>>
  <2>1. PICK w \in N : Len(C!ValueOf(f[w])) = Len(p)
    BY <1>2, <1>6
  <2>2. ~\A x \in N : C!ValueOf(f[x]) = <<>>
    <3>1. Len(p) # 0
      BY <1>2, <1>6, EmptySeq
    <3>2. C!ValueOf(f[w]) # <<>>
      BY <2>1, <3>1, EmptySeq
    <3> QED BY <3>2
  <2>3. Len(C!ValueOf(f[Widest(f, N)])) = Len(p)
    <3>1. PICK z : z = Widest(f, N)
      OBVIOUS
    <3>2. \A y \in N : Len(C!ValueOf(f[y])) <= Len(C!ValueOf(f[w]))
      BY <1>2, <2>1
    <3>3. z \in N /\ \A y \in N : Len(C!ValueOf(f[y])) <= Len(C!ValueOf(f[z]))
      BY <2>1, <3>1, <3>2 DEF Widest
    <3>4. PICK a : a = Len(C!ValueOf(f[z]))
      OBVIOUS
    <3>5. a \in Nat /\ a <= Len(p) /\ Len(p) <= a
      BY <1>2, <1>3, <2>1, <3>3, <3>4
    <3>6. a = Len(p)
      BY <1>4, <3>5, SMT
    <3> QED BY <3>1, <3>4, <3>6
  <2>4. ASSUME NEW m \in 1 .. Len(p)
        PROVE  C!ValueOf(f[Latest(f, N, m)])[m] = p[m]
    <3>1. PICK x \in N : /\ Len(C!ValueOf(f[x])) >= m /\ p[m] = C!ValueOf(f[x])[m]
                         /\ \A y \in N : y > x => Len(C!ValueOf(f[y])) < m
      BY <1>2
    <3>2. PICK z : z = Latest(f, N, m)
      OBVIOUS
    <3>3. z \in N /\ Len(C!ValueOf(f[z])) >= m /\ \A y \in N : y > z => Len(C!ValueOf(f[y])) < m
      BY <3>1, <3>2 DEF Latest
    <3>4. ~(x > z) /\ ~(z > x)
      <4>1. PICK a, b : a = Len(C!ValueOf(f[x])) /\ b = Len(C!ValueOf(f[z]))
        OBVIOUS
      <4>2. /\ a \in Nat /\ b \in Nat /\ a >= m /\ b >= m /\ m \in Nat
            /\ (x > z => a < m) /\ (z > x => b < m)
        BY <1>3, <1>4, <3>1, <3>3, <4>1, SMT
      <4> QED BY <4>2, SMT
    <3>5. x = z
      BY <1>3, <3>1, <3>3, <3>4, SMT
    <3> QED BY <3>1, <3>2, <3>5
  <2>5. p = [m \in 1 .. Len(p) |-> C!ValueOf(f[Latest(f, N, m)])[m]]
    BY <1>4, <2>4
  <2>6. Setting(f, N) = [m \in 1 .. Len(p) |-> C!ValueOf(f[Latest(f, N, m)])[m]]
    BY <2>2, <2>3 DEF Setting
  <2> QED BY <1>1, <1>6, <2>5, <2>6 DEF Set
<1> QED BY <1>5, <1>6

LEMMA ConfigOpened == ASSUME ConfigInv, NEW f \in Files, C!Open(f) PROVE ConfigInv'
<1>1. cpc' = "read" /\ file' = f /\ rest' = f /\ portal_sip' = <<>> /\ f \in Seq(Seq(STRING))
  BY ProgramsAssumption DEF C!Open, ConfigInv, ProgramsAssumption
<1>2. Len(f) \in Nat /\ DOMAIN f = 1 .. Len(f)
  BY <1>1, LenProperties
<1>3. Len(f) <= Len(f) /\ Len(f) - Len(f) = 0 /\ \A m \in 1 .. Len(f) : 0 + m = m
  BY <1>2, SMT
<1>4. Laid(f, 0, <<>>)
  <2>1. NamedIn(f, 0) = {} /\ 1 .. 0 = {}
    <3>1. \A x \in 1 .. Len(f) : ~(x <= 0)
      BY <1>2, SMT
    <3>2. 1 .. 0 = {}
      BY SMT
    <3> QED BY <1>2, <3>1, <3>2 DEF NamedIn
  <2> QED BY <2>1, EmptySeq DEF Laid
<1>5. Roomy(f, 0)
  <2>1. \A x \in 1 .. Len(f) : ~(x <= 0)
    BY <1>2, SMT
  <2> QED BY <1>2, <2>1 DEF Roomy, NamedIn
<1> QED BY <1>1, <1>3, <1>4, <1>5 DEF ConfigInv

\* A line that is not too long is read at once, as far as there is room.
LEMMA LineRead ==
  ASSUME C!Read, Len(rest[1]) < LineSize, rest[1] \in Seq(STRING)
  PROVE  /\ rest' = Tail(rest)
         /\ IF Overran(rest[1]) THEN cpc' = "overrun"
                                ELSE cpc' = cpc /\ portal_sip' = Parsed(rest[1], portal_sip)
<1>1. PICK l : l = rest[1]
  OBVIOUS
<1>2. C!Fgets = l /\ rest' = Tail(rest) /\ l \in Seq(STRING)
  BY <1>1 DEF C!Read, C!Fgets, C!AfterFgets
<1>3. IF C!Solid(l) = {} THEN portal_sip' = portal_sip /\ cpc' = cpc
      ELSE IF FromIndex(l)[1] = "#" THEN portal_sip' = portal_sip /\ cpc' = cpc
           ELSE C!ParseLineData(FromIndex(l))
  BY <1>2 DEF C!Read, FromIndex
<1>4. CASE C!Solid(l) = {} \/ FromIndex(l)[1] = "#"
  BY <1>1, <1>2, <1>3, <1>4 DEF Parsed, Overran
<1>5. CASE C!Solid(l) # {} /\ FromIndex(l)[1] # "#"
  <2>1. PICK s, w : s = FromIndex(l) /\ w = C!Separator(s)
    OBVIOUS
  <2>2. C!ParseLineData(s)
    BY <1>3, <1>5, <2>1
  <2>3. s \in Seq(STRING) /\ Len(s) \in Nat /\ KvSize \in Nat
    BY <1>2, <1>5, <2>1, FromSolid, LenProperties, ProgramsAssumption DEF FromIndex, ProgramsAssumption
  <2>4. CASE C!Passed(s)
    <3>1. cpc' = cpc /\ portal_sip' = portal_sip /\ ~Overran(l)
      BY <2>1, <2>2, <2>4 DEF C!ParseLineData, Overran
    <3>2. w \in {0, Len(s)} \/ w - 1 >= KvSize
      <4>1. CASE w \in 1 .. Len(s) /\ Len(C!Key(s)) > KvSize
        <5>1. w - 1 > KvSize
          BY <2>1, <2>3, <4>1, KeyLength
        <5>2. w \in Nat
          BY <2>3, <4>1, SMT
        <5> QED BY <2>3, <5>1, <5>2, SMT
      <4>2. w = 0 \/ w \in 1 .. Len(s)
        BY <2>1, <2>3, SeparatorIs
      <4> QED BY <2>1, <2>4, <4>1, <4>2 DEF C!Passed
    <3>3. Parsed(l, portal_sip) = portal_sip
      BY <1>5, <2>1, <3>2 DEF Parsed
    <3> QED BY <1>1, <1>2, <3>1, <3>3
  <2>5. CASE ~C!Passed(s) /\ C!Overruns(s)
    <3>1. cpc' = "overrun"
      BY <2>2, <2>5 DEF C!ParseLineData
    <3>2. Overran(l)
      BY <1>5, <2>1, <2>5 DEF Overran
    <3> QED BY <1>1, <1>2, <3>1, <3>2
  <2>6. CASE ~C!Passed(s) /\ ~C!Overruns(s)
    <3>1. /\ cpc' = cpc
          /\ portal_sip' = IF C!Trim(C!Key(s)) = <<"k">> THEN Over(C!Trim(C!Given(s)), portal_sip) ELSE portal_sip
      BY <2>2, <2>6 DEF C!ParseLineData, C!SetKeyValue, Over
    <3>2. w # 0 /\ w # Len(s) /\ ~(Len(C!Key(s)) >= KvSize)
      BY <2>1, <2>6 DEF C!Passed, C!Overruns
    <3>3. w \in 1 .. Len(s)
      BY <2>1, <2>3, <3>2, SeparatorIs
    <3>4. ~(w - 1 >= KvSize)
      BY <2>1, <2>3, <3>2, <3>3, KeyLength
    <3>5. C!Key(s) = SubSeq(s, 1, w - 1) /\ C!Given(s) = SubSeq(s, w + 1, Len(s))
      BY <2>1 DEF C!Key, C!Given
    <3>6. Parsed(l, portal_sip) =
            IF C!Trim(C!Key(s)) = <<"k">> THEN Over(C!Trim(C!Given(s)), portal_sip) ELSE portal_sip
      BY <1>5, <2>1, <3>2, <3>4, <3>5 DEF Parsed
    <3>7. ~Overran(l)
      BY <2>1, <2>6 DEF Overran
    <3> QED BY <1>1, <1>2, <3>1, <3>6, <3>7
  <2> QED BY <2>4, <2>5, <2>6
<1> QED BY <1>4, <1>5

LEMMA ConfigRead == ASSUME ConfigInv, C!Read PROVE ConfigInv'
<1>1. cpc = "read" /\ rest # <<>> /\ cpc' \in {"read", "overrun"} /\ file' = file /\ file \in Seq(Seq(STRING))
  BY DEF C!Read, C!ParseLineData, ConfigInv
<1>2. SUFFICES ASSUME Short(file)
               PROVE  /\ cpc' = "read" =>
                           /\ rest' \in Seq(Seq(STRING)) /\ Len(rest') <= Len(file)
                           /\ \A m \in 1 .. Len(rest') : rest'[m] = file[Len(file) - Len(rest') + m]
                           /\ Laid(file, Len(file) - Len(rest'), portal_sip')
                           /\ Roomy(file, Len(file) - Len(rest'))
                      /\ cpc' = "overrun" => \E x \in DOMAIN file : Crowded(file[x])
  BY <1>1 DEF ConfigInv
<1>3. PICK f, r, c, d, p : f = file /\ r = rest /\ c = Len(f) /\ d = Len(r) /\ p = portal_sip
  OBVIOUS
<1>4. /\ f \in Seq(Seq(STRING)) /\ r \in Seq(Seq(STRING)) /\ r # <<>> /\ d <= c
      /\ \A m \in 1 .. d : r[m] = f[c - d + m] 
      /\ Laid(f, c - d, p) /\ Roomy(f, c - d)
  BY <1>1, <1>2, <1>3 DEF ConfigInv
<1>5. c \in Nat /\ d \in Nat /\ d # 0
  BY <1>3, <1>4, LenProperties, EmptySeq
<1>6. PICK n : n = c - d
  OBVIOUS
<1>7. /\ n \in Nat /\ n < c /\ n + 1 \in 1 .. c /\ 1 \in 1 .. d /\ c - (d - 1) = n + 1 /\ d - 1 <= c
  BY <1>4, <1>5, <1>6, SMT
<1>8. r[1] = f[n + 1] /\ Len(r[1]) < LineSize
  <2>1. r[1] = f[n + 1]
    BY <1>4, <1>6, <1>7
  <2>2. n + 1 \in DOMAIN f
    BY <1>3, <1>4, <1>7, LenProperties
  <2> QED BY <1>2, <1>3, <2>1, <2>2 DEF Short
<1>9. /\ rest' = Tail(r) /\ n + 1 \in DOMAIN f /\ f[n + 1] \in Seq(STRING)
      /\ IF Overran(f[n + 1]) THEN cpc' = "overrun" ELSE cpc' = "read" /\ portal_sip' = Parsed(f[n + 1], p)
  <2>1. n + 1 \in DOMAIN f /\ f[n + 1] \in Seq(STRING)
    <3>1. DOMAIN f = 1 .. Len(f) /\ f \in [1 .. Len(f) -> Seq(STRING)]
      BY <1>4, LenProperties
    <3> QED BY <1>3, <1>7, <3>1
  <2> QED BY <1>1, <1>3, <1>8, <2>1, LineRead
<1> SUFFICES ASSUME ~Overran(f[n + 1])
             PROVE  /\ rest' \in Seq(Seq(STRING)) /\ Len(rest') <= Len(file)
                    /\ \A m \in 1 .. Len(rest') : rest'[m] = file[Len(file) - Len(rest') + m]
                    /\ Laid(file, Len(file) - Len(rest'), portal_sip')
                    /\ Roomy(file, Len(file) - Len(rest'))
  <2>1. Overran(f[n + 1]) => Crowded(f[n + 1])
    BY <1>9, OverranIs
  <2> QED BY <1>3, <1>9, <2>1
<1>10. /\ Tail(r) \in Seq(Seq(STRING)) /\ Len(Tail(r)) = d - 1
       /\ \A m \in 1 .. d - 1 : Tail(r)[m] = r[m + 1]
  <2>1. /\ Tail(r) \in Seq(Seq(STRING)) /\ Len(Tail(r)) = Len(r) - 1
        /\ \A m \in 1 .. Len(Tail(r)) : Tail(r)[m] = r[m + 1]
    BY <1>4, HeadTailProperties
  <2> QED BY <1>3, <2>1
<1>11. ASSUME NEW m \in 1 .. d - 1 PROVE Tail(r)[m] = f[n + 1 + m]
  <2>1. PICK x : x = m + 1
    OBVIOUS
  <2>2. x \in 1 .. d /\ c - d + x = n + 1 + m
    BY <1>5, <1>6, <2>1, SMT
  <2>3. r[x] = f[c - d + x]
    BY <1>4, <2>2
  <2> QED BY <1>10, <2>1, <2>2, <2>3
<1>12. Laid(f, n + 1, Parsed(f[n + 1], p))
  BY <1>3, <1>4, <1>6, <1>7, LaidMore
<1>13. c - Len(rest') = n + 1 /\ Len(rest') = d - 1
  BY <1>7, <1>9, <1>10
<1>14. Roomy(f, n + 1)
  <2>1. ASSUME NEW x \in NamedIn(f, n + 1) PROVE Len(C!ValueOf(f[x])) < SipSize
    <3>1. x \in 1 .. c /\ C!Names(f[x]) /\ x <= n + 1 /\ x \in DOMAIN f
      BY <1>3, <1>4, LenProperties DEF NamedIn
    <3>2. x <= n \/ x = n + 1
      BY <1>5, <1>7, <3>1, SMT
    <3>3. CASE x <= n
      BY <1>4, <1>6, <3>1, <3>3 DEF Roomy, NamedIn
    <3>4. CASE x = n + 1
      BY <1>9, <3>1, <3>4, RoomFor
    <3> QED BY <3>2, <3>3, <3>4
  <2> QED BY <2>1 DEF Roomy
<1> QED BY <1>3, <1>7, <1>9, <1>10, <1>11, <1>12, <1>13, <1>14

LEMMA ConfigChecked == ASSUME ConfigInv, C!CheckArgs PROVE ConfigInv'
<1>1. /\ cpc = "read" /\ rest = <<>> /\ cpc' = "done" /\ file' = file /\ file \in Seq(Seq(STRING))
      /\ portal_sip' = IF portal_sip = <<>> THEN Default ELSE portal_sip
  BY DEF C!CheckArgs, ConfigInv
<1>2. ASSUME Short(file) PROVE portal_sip' = Set(file) /\ Roomy(file, Len(file))
  <2>1. Laid(file, Len(file) - Len(rest), portal_sip) /\ Roomy(file, Len(file) - Len(rest))
    BY <1>1, <1>2 DEF ConfigInv
  <2>2. Len(file) - Len(rest) = Len(file)
    <3>1. Len(file) \in Nat /\ Len(rest) = 0
      BY <1>1, LenProperties, EmptySeq
    <3> QED BY <3>1, SMT
  <2>3. Laid(file, Len(file), portal_sip) /\ Roomy(file, Len(file))
    BY <2>1, <2>2
  <2> QED BY <1>1, <2>3, LaidAll
<1> QED BY <1>1, <1>2 DEF ConfigInv

LEMMA ConfigKept == ASSUME ConfigInv, [C!Next]_cvars PROVE ConfigInv'
<1>1. ASSUME UNCHANGED cvars PROVE ConfigInv'
  <2>1. cpc' = cpc /\ file' = file /\ rest' = rest /\ portal_sip' = portal_sip
    BY <1>1 DEF cvars
  <2> QED BY <2>1 DEF ConfigInv
<1> QED BY <1>1, ConfigOpened, ConfigRead, ConfigChecked DEF C!Next

LEMMA SettingIs == ASSUME ConfigInv PROVE C!Overlaid
<1> SUFFICES ASSUME Short(file)
             PROVE  /\ cpc = "done" => /\ \A x \in C!Named : Len(C!ValueOf(file[x])) < SipSize
                                       /\ portal_sip = Setting(file, C!Named)
                    /\ cpc = "overrun" => \E x \in DOMAIN file : C!TooLong(x)
  BY DEF C!Overlaid, C!Value, C!Longest, C!LastWith, Setting, Widest, Latest, Short
<1>1. ASSUME cpc = "done"
      PROVE  (\A x \in C!Named : Len(C!ValueOf(file[x])) < SipSize) /\ portal_sip = Setting(file, C!Named)
  <2>1. file \in Seq(Seq(STRING))
    BY <1>1 DEF ConfigInv
  <2>2. Len(file) \in Nat /\ DOMAIN file = 1 .. Len(file)
    BY <2>1, LenProperties
  <2>3. \A x \in 1 .. Len(file) : x <= Len(file)
    BY <2>2, SMT
  <2>4. C!Named = NamedIn(file, Len(file))
    BY <2>2, <2>3 DEF C!Named, NamedIn
  <2>5. portal_sip = Set(file) /\ Roomy(file, Len(file))
    BY <1>1 DEF ConfigInv
  <2> QED BY <2>4, <2>5 DEF Set, Roomy
<1>2. ASSUME cpc = "overrun" PROVE \E x \in DOMAIN file : C!TooLong(x)
  <2>1. PICK x \in DOMAIN file : Crowded(file[x])
    BY <1>2 DEF ConfigInv
  <2> QED BY <2>1 DEF Crowded, C!TooLong, C!Named, C!Value
<1> QED BY <1>1, <1>2

\* read_config.c, md5.c: whatever the files are (see ConfigReader, Md5File).
THEOREM FilesAlwaysRead == MCSpec => []FilesRead
<1>1. MCInit => ConfigInv
  BY DEF MCInit, C!Init, ConfigInv
<1>2. ConfigInv /\ [MCNext]_allVars => ConfigInv'
  BY Apart, ConfigKept
<1>3. ConfigInv => C!Overlaid
  BY SettingIs
<1>4. C!Overlaid /\ M!BlocksPadded <=> FilesRead
  BY DEF FilesRead
<1> QED BY <1>1, <1>2, <1>3, <1>4, BlocksAlwaysPadded, PTL DEF MCSpec

=============================================================================
