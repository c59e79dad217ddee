----------------------------- MODULE Acsm2Proofs -----------------------------
(*****************************************************************************)
(* What acsmx2.c compiles, for every list of patterns, every alphabet and    *)
(* every folding of the case.  Its trie is that of acsmx.c with FAIL for -1; *)
(* its two passes are those of Build_DFA, the first without the rows and     *)
(* with the match lists, the second without the failure states: both are     *)
(* seen as passes over a table that is not in the code, which holds the rows *)
(* that a state done would have.  Then its rows, the state it carries from   *)
(* chunk to chunk, and what its searches tell, at once or by the match queue.*)
(*****************************************************************************)
EXTENDS AcsmProofs

-----------------------------------------------------------------------------
(* Folds *)

\* The copies of Max in the two modules mean the same.
LEMMA SameMax == ASSUME NEW Q PROVE V1!Max(Q) = Max(Q)
BY DEF V1!Max, Max

\* The greatest of the first m numbers, and what is left without the greatest.
LEMMA WithoutMax ==
  ASSUME NEW m \in Nat, m # 0
  PROVE  /\ Max(1..m) = m /\ 1..m # {} /\ (1..m) \ {m} = 1..(m - 1)
         /\ \A u \in SUBSET (1..m) : u # {} =>
              /\ Max(u) \in 1..m /\ u \ {Max(u)} \in SUBSET (1..(m - 1))
              /\ m \in u => Max(u) = m
              /\ m \notin u => Max(u) \in 1..(m - 1) /\ u \in SUBSET (1..(m - 1))
<1>1. Max(1..m) = m /\ 1..m # {} /\ (1..m) \ {m} = 1..(m - 1)
  BY WithoutGreatest, SameMax
<1>2. ASSUME NEW u \in SUBSET (1..m), u # {}
      PROVE  /\ Max(u) \in 1..m /\ u \ {Max(u)} \in SUBSET (1..(m - 1))
             /\ m \in u => Max(u) = m
             /\ m \notin u => Max(u) \in 1..(m - 1) /\ u \in SUBSET (1..(m - 1))
  <2>1. PICK x : x = Max(u) /\ x = V1!Max(u)
    BY SameMax
  <2>2. /\ V1!Max(u) \in 1..m /\ u \ {V1!Max(u)} \in SUBSET (1..(m - 1))
        /\ m \in u => V1!Max(u) = m
        /\ m \notin u => V1!Max(u) \in 1..(m - 1) /\ u \in SUBSET (1..(m - 1))
    BY <1>2, WithoutGreatest
  <2> QED BY <2>1, <2>2
<1> QED BY <1>1, <1>2

\* What AddByte makes of a word.
Folded2(base, w) == FoldLeft(AddByte, base, w)

\* The bytes of a text are added from the first to the last.
LEMMA AddBytes2 ==
  ASSUME NEW base, NEW w \in Seq(Inputs)
  PROVE  \E g : /\ g[0] = base /\ \A k \in 1..Len(w) : g[k] = AddByte(g[k - 1], w[k])
                /\ Folded2(base, w) = g[Len(w)]
<1>1. Len(w) \in Nat /\ DOMAIN w = 1..Len(w)
  BY LenProperties
<1> DEFINE Iterates(it, m) ==
      it = [u \in SUBSET (1..m) |->
              IF u = {} THEN base ELSE AddByte(it[u \ {Max(u)}], w[Max(u)])]
    bad == { m \in Nat : ~\E it : Iterates(it, m) }
<1>2. bad = {}
  <2> SUFFICES ASSUME bad # {}
               PROVE  FALSE
    OBVIOUS
  <2>1. PICK m \in bad : \A x \in bad : m <= x
    <3>1. bad \in SUBSET Nat
      OBVIOUS
    <3> HIDE DEF bad
    <3> QED BY <3>1, LeastNatural
  <2>2. CASE m = 0
    <3>1. 1..m = {}
      BY <2>2, SMTT(10)
    <3> DEFINE none == [u \in SUBSET (1..m) |-> base]
    <3>2. none = [u \in SUBSET (1..m) |->
                    IF u = {} THEN base ELSE AddByte(none[u \ {Max(u)}], w[Max(u)])]
      BY <3>1
    <3>3. Iterates(none, m)
      BY <3>2
    <3> QED BY <2>1, <3>3
  <2>3. CASE m # 0
    <3>1. m - 1 \in Nat /\ m - 1 < m
      BY <2>3, SMTT(10)
    <3>2. PICK it : Iterates(it, m - 1)
      <4>1. m \in Nat /\ ~(m <= m - 1)
        BY <2>1, SMTT(10)
      <4>2. m - 1 \notin bad
        <5> HIDE DEF bad
        <5> QED BY <2>1, <4>1
      <4> QED BY <3>1, <4>2
    <3> DEFINE more == [u \in SUBSET (1..m) |->
                          IF m \in u THEN AddByte(it[u \ {m}], w[m]) ELSE it[u]]
    <3>3. ASSUME NEW u \in SUBSET (1..m)
          PROVE  more[u] = IF u = {} THEN base ELSE AddByte(more[u \ {Max(u)}], w[Max(u)])
      <4> HIDE DEF more
      <4>1. /\ more[u] = IF m \in u THEN AddByte(it[u \ {m}], w[m]) ELSE it[u]
            /\ \A x \in SUBSET (1..(m - 1)) : more[x] = it[x]
        <5>1. 1..(m - 1) \subseteq 1..m /\ m \notin 1..(m - 1)
          BY SMTT(10)
        <5> QED BY <5>1 DEF more
      <4>2. \A x \in SUBSET (1..(m - 1)) :
              it[x] = IF x = {} THEN base ELSE AddByte(it[x \ {Max(x)}], w[Max(x)])
        BY <3>2
      <4> HIDE DEF Iterates
      <4>3. CASE u = {}
        BY <4>1, <4>2, <4>3
      <4>4. CASE u # {} /\ m \in u
        <5>1. Max(u) = m /\ u \ {m} \in SUBSET (1..(m - 1))
          BY <2>3, <4>4, WithoutMax
        <5> QED BY <4>1, <4>4, <5>1
      <4>5. CASE u # {} /\ m \notin u
        <5>1. u \in SUBSET (1..(m - 1)) /\ u \ {Max(u)} \in SUBSET (1..(m - 1))
          BY <2>3, <4>5, WithoutMax
        <5> QED BY <4>1, <4>2, <4>5, <5>1
      <4> QED BY <4>3, <4>4, <4>5
    <3>4. Iterates(more, m)
      <4>1. more = [u \in SUBSET (1..m) |-> more[u]]
        OBVIOUS
      <4> HIDE DEF more
      <4> QED BY <3>3, <4>1
    <3> QED BY <2>1, <3>4
  <2> QED BY <2>2, <2>3
<1>3. PICK it : Iterates(it, Len(w))
  BY <1>1, <1>2
<1> DEFINE I == CHOOSE f : f = [u \in SUBSET (DOMAIN w) |->
                   IF u = {} THEN base ELSE AddByte(f[u \ {Max(u)}], w[Max(u)])]
<1>4. I = [u \in SUBSET (DOMAIN w) |->
             IF u = {} THEN base ELSE AddByte(I[u \ {Max(u)}], w[Max(u)])]
  BY <1>1, <1>3
<1>5. Folded2(base, w) = I[DOMAIN w]
  BY DEF Folded2, FoldLeft, MapThenFoldSet
<1> HIDE DEF I
<1>6. PICK g : g = [k \in 0..Len(w) |-> I[1..k]]
  OBVIOUS
<1>7. g[0] = base /\ g[Len(w)] = I[DOMAIN w]
  <2>1. 1..0 = {} /\ 0 \in 0..Len(w) /\ Len(w) \in 0..Len(w)
    BY <1>1, SMTT(10)
  <2> QED BY <1>1, <1>4, <1>6, <2>1
<1>8. ASSUME NEW k \in 1..Len(w)
      PROVE  g[k] = AddByte(g[k - 1], w[k])
  <2>1. k \in Nat /\ k # 0 /\ k \in 0..Len(w) /\ k - 1 \in 0..Len(w) /\ 1..k \subseteq 1..Len(w)
    BY <1>1, SMTT(10)
  <2>2. Max(1..k) = k /\ 1..k # {} /\ (1..k) \ {k} = 1..(k - 1)
    BY <2>1, WithoutMax
  <2>3. I[1..k] = AddByte(I[1..(k - 1)], w[k])
    BY <1>1, <1>4, <2>1, <2>2
  <2> QED BY <1>6, <2>1, <2>3
<1> QED BY <1>5, <1>7, <1>8

\* How many characters the patterns have.
Lengths == FoldLeft(LAMBDA sum, p : sum + Len(p.patrn), 0, patterns)

\* The second machine makes room for as many states as the first.
LEMMA SameMaxStates ==
  ASSUME patterns \in Seq(Entry)
  PROVE  MaxStates = V1!MaxStates
<1>1. Len(patterns) \in Nat /\ DOMAIN patterns = 1..Len(patterns)
  BY LenProperties
<1>2. \A j \in 1..Len(patterns) : Len(patterns[j].patrn) \in Nat
  <2> TAKE j \in 1..Len(patterns)
  <2>1. patterns[j] \in Entry
    BY ElementOfSeq
  <2> QED BY <2>1, LenProperties DEF Entry
<1> DEFINE Iterates(it, m) ==
      it = [u \in SUBSET (1..m) |->
              IF u = {} THEN 0 ELSE it[u \ {Max(u)}] + Len(patterns[Max(u)].patrn)]
    bad == { m \in Nat : ~\E it : Iterates(it, m) }
<1>3. bad = {}
  <2> SUFFICES ASSUME bad # {}
               PROVE  FALSE
    OBVIOUS
  <2>1. PICK m \in bad : \A x \in bad : m <= x
    <3>1. bad \in SUBSET Nat
      OBVIOUS
    <3> HIDE DEF bad
    <3> QED BY <3>1, LeastNatural
  <2>2. CASE m = 0
    <3>1. 1..m = {}
      BY <2>2, SMTT(10)
    <3> DEFINE none == [u \in SUBSET (1..m) |-> 0]
    <3>2. none = [u \in SUBSET (1..m) |->
                    IF u = {} THEN 0 ELSE none[u \ {Max(u)}] + Len(patterns[Max(u)].patrn)]
      BY <3>1
    <3>3. Iterates(none, m)
      BY <3>2
    <3> QED BY <2>1, <3>3
  <2>3. CASE m # 0
    <3>1. m - 1 \in Nat /\ m - 1 < m
      BY <2>3, SMTT(10)
    <3>2. PICK it : Iterates(it, m - 1)
      <4>1. m \in Nat /\ ~(m <= m - 1)
        BY <2>1, SMTT(10)
      <4>2. m - 1 \notin bad
        <5> HIDE DEF bad
        <5> QED BY <2>1, <4>1
      <4> QED BY <3>1, <4>2
    <3> DEFINE more == [u \in SUBSET (1..m) |->
                          IF m \in u THEN it[u \ {m}] + Len(patterns[m].patrn) ELSE it[u]]
    <3>3. ASSUME NEW u \in SUBSET (1..m)
          PROVE  more[u] = IF u = {} THEN 0
                           ELSE more[u \ {Max(u)}] + Len(patterns[Max(u)].patrn)
      <4> HIDE DEF more
      <4>1. /\ more[u] = IF m \in u THEN it[u \ {m}] + Len(patterns[m].patrn) ELSE it[u]
            /\ \A x \in SUBSET (1..(m - 1)) : more[x] = it[x]
        <5>1. 1..(m - 1) \subseteq 1..m /\ m \notin 1..(m - 1)
          BY SMTT(10)
        <5> QED BY <5>1 DEF more
      <4>2. \A x \in SUBSET (1..(m - 1)) :
              it[x] = IF x = {} THEN 0 ELSE it[x \ {Max(x)}] + Len(patterns[Max(x)].patrn)
        BY <3>2
      <4> HIDE DEF Iterates
      <4>3. CASE u = {}
        BY <4>1, <4>2, <4>3
      <4>4. CASE u # {} /\ m \in u
        <5>1. Max(u) = m /\ u \ {m} \in SUBSET (1..(m - 1))
          BY <2>3, <4>4, WithoutMax
        <5> QED BY <4>1, <4>4, <5>1
      <4>5. CASE u # {} /\ m \notin u
        <5>1. u \in SUBSET (1..(m - 1)) /\ u \ {Max(u)} \in SUBSET (1..(m - 1))
          BY <2>3, <4>5, WithoutMax
        <5> QED BY <4>1, <4>2, <4>5, <5>1
      <4> QED BY <4>3, <4>4, <4>5
    <3>4. Iterates(more, m)
      <4>1. more = [u \in SUBSET (1..m) |-> more[u]]
        OBVIOUS
      <4> HIDE DEF more
      <4> QED BY <3>3, <4>1
    <3> QED BY <2>1, <3>4
  <2> QED BY <2>2, <2>3
<1>4. PICK it : Iterates(it, Len(patterns))
  BY <1>1, <1>3
<1> DEFINE I == CHOOSE f : f = [u \in SUBSET (DOMAIN patterns) |->
                   IF u = {} THEN 0 ELSE f[u \ {Max(u)}] + Len(patterns[Max(u)].patrn)]
<1>5. I = [u \in SUBSET (DOMAIN patterns) |->
             IF u = {} THEN 0 ELSE I[u \ {Max(u)}] + Len(patterns[Max(u)].patrn)]
  BY <1>1, <1>4
<1>6. Lengths = I[DOMAIN patterns]
  BY DEF Lengths, FoldLeft, MapThenFoldSet
<1> HIDE DEF I
<1>7. PICK g : g = [k \in 0..Len(patterns) |-> I[1..k]]
  OBVIOUS
<1>8. g[0] = 0 /\ g[Len(patterns)] = Lengths
  <2>1. 1..0 = {} /\ 0 \in 0..Len(patterns) /\ Len(patterns) \in 0..Len(patterns)
    BY <1>1, SMTT(10)
  <2> QED BY <1>1, <1>5, <1>6, <1>7, <2>1
<1>9. ASSUME NEW k \in 1..Len(patterns)
      PROVE  g[k] = g[k - 1] + Len(patterns[k].patrn)
  <2>1. k \in Nat /\ k # 0 /\ k \in 0..Len(patterns) /\ k - 1 \in 0..Len(patterns)
        /\ 1..k \subseteq 1..Len(patterns)
    BY <1>1, SMTT(10)
  <2>2. Max(1..k) = k /\ 1..k # {} /\ (1..k) \ {k} = 1..(k - 1)
    BY <2>1, WithoutMax
  <2>3. I[1..k] = I[1..(k - 1)] + Len(patterns[k].patrn)
    BY <1>1, <1>5, <2>1, <2>2
  <2> QED BY <1>7, <2>1, <2>3
<1>10. PICK h : Totals(h)
  BY StatesCounted
<1>11. /\ h[0] = 1 /\ \A k \in 1..Len(patterns) : h[k] = h[k - 1] + Len(patterns[k].patrn)
       /\ \A k \in 0..Len(patterns) : h[k] \in Nat
       /\ h[Len(patterns)] = V1!MaxStates
  BY <1>10 DEF Totals
<1> DEFINE wrong == { k \in 0..Len(patterns) : ~(g[k] \in Nat /\ h[k] = g[k] + 1) }
<1>12. wrong = {}
  <2> SUFFICES ASSUME wrong # {}
               PROVE  FALSE
    OBVIOUS
  <2>1. wrong \in SUBSET Nat
    BY <1>1, SMTT(10)
  <2>2. PICK x \in wrong : \A y \in wrong : x <= y
    <3> HIDE DEF wrong
    <3> QED BY <2>1, LeastNatural
  <2>3. x \in 0..Len(patterns) /\ ~(g[x] \in Nat /\ h[x] = g[x] + 1)
    OBVIOUS
  <2>4. x # 0
    BY <1>8, <1>11, <2>3, SMTT(10)
  <2>5. x - 1 \in 0..Len(patterns) /\ x \in 1..Len(patterns) /\ ~(x <= x - 1)
    BY <1>1, <2>3, <2>4, SMTT(10)
  <2>6. g[x - 1] \in Nat /\ h[x - 1] = g[x - 1] + 1
    BY <2>2, <2>5
  <2>7. /\ g[x] = g[x - 1] + Len(patterns[x].patrn) /\ Len(patterns[x].patrn) \in Nat
        /\ h[x] = h[x - 1] + Len(patterns[x].patrn)
    BY <1>2, <1>9, <1>11, <2>5
  <2>8. g[x] \in Nat /\ h[x] = g[x] + 1
    BY <2>6, <2>7, SMTT(10)
  <2> QED BY <2>3, <2>8
<1>13. V1!MaxStates = Lengths + 1
  <2>1. Len(patterns) \in 0..Len(patterns)
    BY <1>1, SMTT(10)
  <2> QED BY <1>8, <1>11, <1>12, <2>1
<1>14. MaxStates = Lengths + 1
  BY DEF MaxStates, Lengths
<1> QED BY <1>13, <1>14
-----------------------------------------------------------------------------
(* The keyword trie *)

\* A table of the second machine.
Table(top, tr) == tr \in [0..top -> [Inputs -> Nat]]

\* A table of the first one.
Table1(top, tr) == tr \in [0..top -> [Inputs -> Int]]

\* The table with the first machine's mark of no state.
Mark(x) == IF x = FAIL THEN -1 ELSE x
Renamed(top, tr) == [s \in 0..top |-> [i \in Inputs |-> Mark(tr[s][i])]]

\* What AddByte works on, with a table of the second machine.
Work(t, top) ==
  /\ t = [at |-> t.at, num |-> t.num, trans |-> t.trans, str |-> t.str]
  /\ Table(top, t.trans)
RenamedWork(t, top) ==
  [at |-> t.at, num |-> t.num, trans |-> Renamed(top, t.trans), str |-> t.str]

\* A mark is no state, and tells the marked from the others.
LEMMA Marks ==
  ASSUME NEW x \in Nat
  PROVE  /\ Mark(x) \in Int /\ (Mark(x) # -1 <=> x # FAIL)
         /\ x # FAIL => Mark(x) = x
BY SMTT(10) DEF Mark

\* Renaming keeps a table a table, and the states what they are.
LEMMA RenamedTable ==
  ASSUME NEW top, NEW tr, Table(top, tr)
  PROVE  /\ Table1(top, Renamed(top, tr))
         /\ \A s \in 0..top, i \in Inputs :
              tr[s][i] \in Nat /\ Renamed(top, tr)[s][i] = Mark(tr[s][i])
<1>1. \A s \in 0..top, i \in Inputs : tr[s][i] \in Nat
  BY DEF Table
<1>2. \A s \in 0..top, i \in Inputs : Renamed(top, tr)[s][i] = Mark(tr[s][i])
  BY DEF Renamed
<1>3. Table1(top, Renamed(top, tr))
  BY <1>1, Marks DEF Renamed, Table1
<1> QED BY <1>1, <1>2, <1>3

\* A byte of the second machine is one of the first.
LEMMA ByteRenamed ==
  ASSUME NEW t, NEW top, top \in Nat, top < FAIL, Work(t, top), t.at \in 0..top,
         t.num \in Nat, t.num < top, NEW i \in Inputs, NEW u, u = AddByte(t, i)
  PROVE  /\ Work(u, top)
         /\ RenamedWork(u, top) = V1!AddByte(RenamedWork(t, top), i)
<1>1. PICK a, n, tr, st, rt : a = t.at /\ n = t.num /\ tr = t.trans /\ st = t.str /\ rt = Renamed(top, tr)
  OBVIOUS
<1>2. /\ t = [at |-> a, num |-> n, trans |-> tr, str |-> st] /\ Table(top, tr)
      /\ a \in 0..top /\ n \in Nat /\ n < top /\ FAIL \in Nat
  BY <1>1, RowsAssumption DEF Work
<1>3. PICK w : w = RenamedWork(t, top)
  OBVIOUS
<1>4. w = [at |-> a, num |-> n, trans |-> rt, str |-> st]
  BY <1>1, <1>3 DEF RenamedWork
<1>5. w.at = a /\ w.num = n /\ w.trans = rt /\ w.str = st
  BY <1>4
<1>6. PICK v : v = V1!AddByte(w, i)
  OBVIOUS
<1>7. /\ Table1(top, rt)
      /\ rt[a][i] # -1 <=> tr[a][i] # FAIL
      /\ tr[a][i] # FAIL => rt[a][i] = tr[a][i]
  <2>1. /\ Table1(top, rt)
        /\ \A s \in 0..top, x \in Inputs : tr[s][x] \in Nat /\ rt[s][x] = Mark(tr[s][x])
    BY <1>1, <1>2, RenamedTable
  <2>2. rt[a][i] = Mark(tr[a][i]) /\ tr[a][i] \in Nat
    BY <1>2, <2>1
  <2> QED BY <2>1, <2>2, Marks
<1>8. CASE tr[a][i] # FAIL
  <2>1. u = [at |-> tr[a][i], num |-> n, trans |-> tr, str |-> st]
    <3>1. u = [t EXCEPT !.at = tr[a][i]]
      BY <1>1, <1>8 DEF AddByte
    <3> QED BY <1>2, <3>1
  <2>2. v = [at |-> tr[a][i], num |-> n, trans |-> rt, str |-> st]
    <3>1. v = [w EXCEPT !.at = tr[a][i]]
      BY <1>5, <1>6, <1>7, <1>8 DEF V1!AddByte
    <3> QED BY <1>4, <3>1
  <2>3. Work(u, top) /\ RenamedWork(u, top) = v
    BY <1>1, <1>2, <2>1, <2>2 DEF Work, RenamedWork
  <2> QED BY <1>3, <1>6, <2>3
<1>9. CASE tr[a][i] = FAIL
  <2>1. PICK tr2, rt2, st2 :
          /\ tr2 = [tr EXCEPT ![a][i] = n + 1] /\ rt2 = [rt EXCEPT ![a][i] = n + 1]
          /\ st2 = [s \in 0..(n + 1) |-> IF s <= n THEN st[s] ELSE Append(st[a], i)]
    OBVIOUS
  <2>2. u = [at |-> n + 1, num |-> n + 1, trans |-> tr2, str |-> st2]
    BY <1>1, <1>9, <2>1 DEF AddByte
  <2>3. v = [at |-> n + 1, num |-> n + 1, trans |-> rt2, str |-> st2]
    BY <1>5, <1>6, <1>7, <1>9, <2>1 DEF V1!AddByte
  <2>4. n + 1 \in Nat /\ n + 1 # FAIL
    BY <1>2, SMTT(10)
  <2>5. Table(top, tr2)
    BY <1>2, <2>1, <2>4 DEF Table
  <2>6. rt2 = Renamed(top, tr2)
    <3>1. /\ \A s \in 0..top, x \in Inputs : tr2[s][x] = IF s = a /\ x = i THEN n + 1 ELSE tr[s][x]
          /\ \A s \in 0..top, x \in Inputs : rt2[s][x] = IF s = a /\ x = i THEN n + 1 ELSE rt[s][x]
          /\ Table1(top, rt2)
      <4>1. n + 1 \in Int
        BY <2>4, SMTT(10)
      <4> QED BY <1>2, <1>7, <2>1, <4>1 DEF Table, Table1
    <3>2. \A s \in 0..top, x \in Inputs : rt2[s][x] = Mark(tr2[s][x])
      <4> TAKE s \in 0..top, x \in Inputs
      <4>1. CASE s = a /\ x = i
        <5>1. rt2[s][x] = n + 1 /\ tr2[s][x] = n + 1
          BY <3>1, <4>1
        <5>2. Mark(n + 1) = n + 1
          BY <2>4, Marks
        <5> QED BY <5>1, <5>2
      <4>2. CASE ~(s = a /\ x = i)
        <5>1. rt2[s][x] = rt[s][x] /\ tr2[s][x] = tr[s][x]
          BY <3>1, <4>2
        <5>2. rt[s][x] = Mark(tr[s][x])
          BY <1>1, <1>2, RenamedTable
        <5> QED BY <5>1, <5>2
      <4> QED BY <4>1, <4>2
    <3>3. PICK q : q = Renamed(top, tr2)
      OBVIOUS
    <3>4. Table1(top, q) /\ \A s \in 0..top, x \in Inputs : rt2[s][x] = q[s][x]
      BY <2>5, <3>2, <3>3, RenamedTable
    <3>5. \A s \in 0..top : rt2[s] = q[s]
      BY <3>1, <3>4 DEF Table1
    <3> QED BY <3>1, <3>3, <3>4, <3>5 DEF Table1
  <2>7. Work(u, top) /\ RenamedWork(u, top) = v
    BY <2>2, <2>3, <2>5, <2>6 DEF Work, RenamedWork
  <2> QED BY <1>3, <1>6, <2>7
<1> QED BY <1>8, <1>9

\* A whole text, as the first machine adds it.
LEMMA TextAdded2 ==
  ASSUME NEW b, NEW top, top \in Nat, top < FAIL, Work(b, top), NEW c, c = RenamedWork(b, top),
         Adding(c, top), b.at = 0, NEW w \in Seq(Inputs), b.num + Len(w) <= top,
         NEW t, t = Folded2(b, w)
  PROVE  Work(t, top) /\ Added(c, RenamedWork(t, top), top, w, Len(w))
<1>1. PICK g : /\ g[0] = b /\ \A k \in 1..Len(w) : g[k] = AddByte(g[k - 1], w[k])
               /\ Folded2(b, w) = g[Len(w)]
  BY AddBytes2
<1>2. PICK h : h = [k \in 0..Len(w) |-> RenamedWork(g[k], top)]
  OBVIOUS
<1>3. c.at = b.at /\ c.num = b.num /\ c.str = b.str
  BY DEF RenamedWork
<1>4. Len(w) \in Nat /\ b.num \in Nat /\ 0 \in 0..Len(w) /\ Len(w) \in 0..Len(w)
  <2>1. Len(w) \in Nat /\ b.num \in Nat
    BY <1>3, LenProperties DEF Adding, Trie, Named
  <2> QED BY <2>1, SMTT(10)
<1>5. Work(g[0], top) /\ Added(c, h[0], top, w, 0)
  <2>1. h[0] = c
    BY <1>1, <1>2, <1>4
  <2>2. c.str[c.at] = SubSeq(w, 1, 0)
    BY <1>3, PrefixWords DEF Adding, Trie, Named
  <2>3. \A j \in 1..0 : FALSE
    BY SMTT(10)
  <2>4. c.num <= c.num /\ c.num <= c.num + 0
    BY <1>3, <1>4, SMTT(10)
  <2> QED BY <1>1, <2>1, <2>2, <2>3, <2>4 DEF Added
<1> DEFINE wrong == { k \in 0..Len(w) : ~(Work(g[k], top) /\ Added(c, h[k], top, w, k)) }
<1>6. wrong = {}
  <2> SUFFICES ASSUME wrong # {}
               PROVE  FALSE
    OBVIOUS
  <2>1. wrong \in SUBSET Nat
    BY <1>4, SMTT(10)
  <2>2. PICK k \in wrong : \A x \in wrong : k <= x
    <3> HIDE DEF wrong
    <3> QED BY <2>1, LeastNatural
  <2>3. k \in 0..Len(w) /\ ~(Work(g[k], top) /\ Added(c, h[k], top, w, k))
    OBVIOUS
  <2>4. k # 0
    BY <1>5, <2>3
  <2>5. k \in 1..Len(w) /\ k - 1 \in 0..Len(w) /\ ~(k <= k - 1) /\ k \in Nat
    BY <1>4, <2>3, <2>4, SMTT(10)
  <2>6. Work(g[k - 1], top) /\ Added(c, h[k - 1], top, w, k - 1)
    BY <2>2, <2>5
  <2>7. PICK x, y : x = g[k - 1] /\ y = RenamedWork(x, top)
    OBVIOUS
  <2>8. h[k - 1] = y /\ y.at = x.at /\ y.num = x.num /\ Adding(y, top) /\ w[k] \in Inputs
    BY <1>2, <2>5, <2>6, <2>7, ElementOfSeq DEF Added, RenamedWork
  <2>9. x.num \in Nat /\ x.num < top /\ x.at \in 0..top
    <3>1. y.num \in Nat /\ y.at \in 0..y.num /\ y.num <= c.num + (k - 1)
      BY <2>6, <2>8 DEF Added, Adding, Trie, Named
    <3> QED BY <1>3, <1>4, <2>5, <2>8, <3>1, SMTT(10)
  <2>10. Work(x, top)
    BY <2>6, <2>7
  <2>11. PICK u : u = AddByte(x, w[k])
    OBVIOUS
  <2>12. Work(u, top) /\ RenamedWork(u, top) = V1!AddByte(y, w[k])
    BY <2>7, <2>8, <2>9, <2>10, <2>11, ByteRenamed
  <2>13. g[k] = u /\ h[k] = RenamedWork(u, top)
    BY <1>1, <1>2, <2>3, <2>5, <2>7, <2>11
  <2>14. Added(c, h[k], top, w, k)
    <3>1. c.num \in Nat /\ c.num + Len(w) <= top /\ Added(c, y, top, w, k - 1)
      BY <1>3, <1>4, <2>6, <2>8
    <3> QED BY <2>5, <2>12, <2>13, <3>1, AddedNext
  <2> QED BY <2>3, <2>12, <2>13, <2>14
<1>7. Work(g[Len(w)], top) /\ Added(c, h[Len(w)], top, w, Len(w))
  BY <1>4, <1>6
<1> QED BY <1>1, <1>2, <1>4, <1>7

\* Fewer characters than the largest word of a row: all that are ever added.
Room ==
  /\ MaxPatterns \in Nat
  /\ \E longest \in Nat :
       (\A t \in Texts : Len(t) <= longest) /\ MaxPatterns * longest < FAIL

\* The patterns are texts, numbered as they were added.
Entered(ps) ==
  /\ ps \in Seq(Entry) /\ Len(ps) <= MaxPatterns
  /\ \A j \in 1..Len(ps) : /\ ps[j].id = Len(ps) - j + 1
                           /\ \E t \in Texts : ps[j].patrn = UpWord(t)

\* The copies of UpWord in the two modules mean the same.
LEMMA SameUpWord == ASSUME NEW w PROVE V1!UpWord(w) = UpWord(w)
BY DEF V1!UpWord, UpWord

\* Every state's number fits in a word of a row, and is not the mark.
LEMMA TopFits ==
  ASSUME Room, Entered(patterns)
  PROVE  Top < FAIL /\ Top = MaxStates - 1
<1>1. patterns \in Seq(Entry) /\ Len(patterns) \in Nat /\ Len(patterns) <= MaxPatterns
  BY LenProperties DEF Entered
<1>2. PICK longest \in Nat : (\A t \in Texts : Len(t) <= longest) /\ MaxPatterns * longest < FAIL
  BY DEF Room
<1>3. \A j \in 1..Len(patterns) : Len(patterns[j].patrn) \in Nat /\ Len(patterns[j].patrn) <= longest
  <2> TAKE j \in 1..Len(patterns)
  <2>1. PICK t \in Texts : patterns[j].patrn = UpWord(t)
    BY DEF Entered
  <2>2. t \in Seq(Inputs)
    BY MCAcsmAssumption
  <2>3. Len(UpWord(t)) = Len(t) /\ Len(t) \in Nat
    BY <2>2, UpWords, SameUpWord, LenProperties
  <2> QED BY <1>2, <2>1, <2>3
<1>4. PICK h : Totals(h)
  BY <1>1, StatesCounted
<1>5. /\ h[0] = 1 /\ \A k \in 1..Len(patterns) : h[k] = h[k - 1] + Len(patterns[k].patrn)
      /\ \A k \in 0..Len(patterns) : h[k] \in Nat
      /\ h[Len(patterns)] = V1!MaxStates
  BY <1>4 DEF Totals
<1> DEFINE wrong == { k \in 0..Len(patterns) : ~(h[k] <= 1 + k * longest) }
<1>6. wrong = {}
  <2> SUFFICES ASSUME wrong # {}
               PROVE  FALSE
    OBVIOUS
  <2>1. wrong \in SUBSET Nat
    BY <1>1, SMTT(10)
  <2>2. PICK x \in wrong : \A y \in wrong : x <= y
    <3> HIDE DEF wrong
    <3> QED BY <2>1, LeastNatural
  <2>3. x \in 0..Len(patterns) /\ ~(h[x] <= 1 + x * longest)
    OBVIOUS
  <2>4. x # 0
    <3>1. 0 * longest = 0
      BY SMTT(10)
    <3> QED BY <1>5, <2>3, <3>1, SMTT(10)
  <2>5. x - 1 \in 0..Len(patterns) /\ x \in 1..Len(patterns) /\ ~(x <= x - 1) /\ x - 1 \in Nat
    BY <1>1, <2>3, <2>4, SMTT(10)
  <2>6. h[x - 1] <= 1 + (x - 1) * longest /\ h[x - 1] \in Nat /\ h[x] \in Nat
    BY <1>5, <2>2, <2>5
  <2>7. h[x] = h[x - 1] + Len(patterns[x].patrn) /\ Len(patterns[x].patrn) <= longest
        /\ Len(patterns[x].patrn) \in Nat
    BY <1>3, <1>5, <2>5
  <2>8. x * longest = (x - 1) * longest + longest /\ (x - 1) * longest \in Int
    BY <2>5, SMTT(10)
  <2>9. PICK a : a = (x - 1) * longest
    OBVIOUS
  <2>10. h[x] <= 1 + (a + longest)
    BY <2>6, <2>7, <2>8, <2>9, SMTT(10)
  <2> QED BY <2>3, <2>8, <2>9, <2>10
<1>7. Len(patterns) \in 0..Len(patterns)
  BY <1>1, SMTT(10)
<1>8. V1!MaxStates <= 1 + Len(patterns) * longest /\ V1!MaxStates \in Nat
  BY <1>5, <1>6, <1>7
<1>9. Len(patterns) * longest <= MaxPatterns * longest /\ Len(patterns) * longest \in Int
      /\ MaxPatterns * longest \in Int
  BY <1>1, SMTT(10) DEF Room
<1>10. V1!MaxStates - 1 < FAIL
  <2>1. PICK a, b : a = Len(patterns) * longest /\ b = MaxPatterns * longest
    OBVIOUS
  <2>2. a \in Int /\ b \in Int /\ a <= b /\ b < FAIL /\ V1!MaxStates <= 1 + a
    BY <1>2, <1>8, <1>9, <2>1
  <2> QED BY <1>8, <2>2, RowsAssumption, SMTT(10)
<1>11. MaxStates = V1!MaxStates
  BY <1>1, SameMaxStates
<1> QED BY <1>10, <1>11 DEF Top

\* AddPattern's entries are entries.
LEMMA EntriesAdded2 ==
  ASSUME Entered(patterns), NEW t \in Texts, NEW nocase \in BOOLEAN, AddPattern(t, nocase),
         MaxPatterns \in Nat
  PROVE  /\ Entered(patterns')
         /\ <<>> \notin Texts => (Filled(patterns) => Filled(patterns'))
<1>1. /\ t \in Seq(Inputs) /\ Up \in [Inputs -> Inputs] /\ Len(patterns) \in Nat
      /\ patterns \in Seq(Entry) /\ Len(patterns) < MaxPatterns
  <2>1. patterns \in Seq(Entry)
    BY DEF Entered
  <2> QED BY <2>1, MCAcsmAssumption, LenProperties DEF AddPattern
<1>2. PICK u : u = UpWord(t)
  OBVIOUS
<1>3. u \in Seq(Inputs) /\ Len(u) = Len(t)
  BY <1>1, <1>2, UpWords, SameUpWord
<1>4. PICK e : e = [patrn |-> u, casepatrn |-> t, nocase |-> nocase, id |-> Len(patterns) + 1]
  OBVIOUS
<1>5. e \in Entry /\ e.patrn = u /\ e.id = Len(patterns) + 1
  BY <1>1, <1>3, <1>4 DEF Entry
<1>6. PICK qs : qs = <<e>> \o patterns
  OBVIOUS
<1>7. patterns' = qs
  BY <1>2, <1>4, <1>6 DEF AddPattern
<1>8. <<e>> \in Seq(Entry) /\ Len(<<e>>) = 1 /\ <<e>>[1] = e
  BY <1>5
<1>9. /\ qs \in Seq(Entry) /\ Len(qs) = 1 + Len(patterns) /\ qs[1] = e
      /\ \A j \in 1..Len(patterns) : qs[1 + j] = patterns[j]
  <2>1. \A j \in 1..(1 + Len(patterns)) : qs[j] = IF j <= 1 THEN <<e>>[j] ELSE patterns[j - 1]
    BY <1>1, <1>6, <1>8, ConcatProperties
  <2>2. qs \in Seq(Entry) /\ Len(qs) = 1 + Len(patterns)
    BY <1>1, <1>6, <1>8, ConcatProperties
  <2>3. 1 \in 1..(1 + Len(patterns)) /\ 1 <= 1
    BY <1>1, SMTT(10)
  <2>4. \A j \in 1..Len(patterns) :
          1 + j \in 1..(1 + Len(patterns)) /\ ~(1 + j <= 1) /\ (1 + j) - 1 = j
    BY <1>1, SMTT(10)
  <2> QED BY <1>8, <2>1, <2>2, <2>3, <2>4
<1>10. \A j \in 1..Len(qs) : j = 1 \/ \E k \in 1..Len(patterns) : j = 1 + k
  <2> TAKE j \in 1..Len(qs)
  <2>1. j = 1 \/ (j - 1 \in 1..Len(patterns) /\ j = 1 + (j - 1))
    BY <1>1, <1>9, SMTT(10)
  <2> QED BY <2>1
<1>11. ASSUME NEW j \in 1..Len(qs)
       PROVE  /\ qs[j].id = Len(qs) - j + 1 /\ \E x \in Texts : qs[j].patrn = UpWord(x)
              /\ <<>> \notin Texts /\ Filled(patterns) => qs[j].patrn # <<>>
  <2>1. CASE j = 1
    <3>1. Len(patterns) + 1 = Len(qs) - j + 1
      BY <1>1, <1>9, <2>1, SMTT(10)
    <3>2. <<>> \notin Texts => u # <<>>
      BY <1>1, <1>3, EmptySeq, LenProperties
    <3> QED BY <1>2, <1>5, <1>9, <2>1, <3>1, <3>2
  <2>2. CASE \E k \in 1..Len(patterns) : j = 1 + k
    <3>1. PICK k \in 1..Len(patterns) : j = 1 + k
      BY <2>2
    <3>2. Len(patterns) - k + 1 = Len(qs) - j + 1
      BY <1>1, <1>9, <3>1, SMTT(10)
    <3>3. patterns[k].id = Len(patterns) - k + 1 /\ \E x \in Texts : patterns[k].patrn = UpWord(x)
      BY DEF Entered
    <3>4. Filled(patterns) => patterns[k].patrn # <<>>
      BY DEF Filled
    <3> QED BY <1>9, <3>1, <3>2, <3>3, <3>4
  <2> QED BY <1>10, <2>1, <2>2
<1>12. Len(qs) <= MaxPatterns
  BY <1>1, <1>9, SMTT(10)
<1>13. Entered(qs)
  BY <1>9, <1>11, <1>12 DEF Entered
<1>14. <<>> \notin Texts => (Filled(patterns) => Filled(qs))
  BY <1>11 DEF Filled
<1> QED BY <1>7, <1>13, <1>14

\* The trie of the first m patterns is built.
TrieOf2(m) ==
  /\ Entered(patterns) /\ m \in 0..Len(patterns) /\ Top < FAIL /\ Table(Top, trans)
  /\ todo \in Seq(Entry) /\ Len(todo) = Len(patterns) - m
  /\ \A j \in 1..Len(todo) : todo[j] = patterns[m + j]
  /\ Trie(numStates, Top, Renamed(Top, trans), str) /\ \E g : Totals(g) /\ numStates < g[m]
  /\ Spells(patterns, m, numStates, str) /\ Listed(patterns, Top, m, numStates, str, matchList)

\* What Compile makes room for.
LEMMA TopKept ==
  ASSUME patterns' = patterns
  PROVE  Top' = Top /\ MaxStates' = MaxStates /\ (Entered(patterns))' = Entered(patterns)
<1>1. MaxStates' = MaxStates
  BY DEF MaxStates, FoldLeft, MapThenFoldSet
<1> QED BY <1>1, TotalsKept

\* The compilation starts with a trie of no pattern.
LEMMA TrieBegun2 ==
  ASSUME Room, Entered(patterns), Compile
  PROVE  TrieOf2(0)'
<1>1. PICK ps, top : ps = patterns /\ top = Top
  OBVIOUS
<1>0. ps \in Seq(Entry) /\ Entered(ps) /\ top < FAIL /\ FAIL \in Nat /\ top = MaxStates - 1
  <2>1. Top < FAIL /\ Top = MaxStates - 1
    BY TopFits
  <2> QED BY <1>1, <2>1, RowsAssumption DEF Entered
<1>2. PICK g : Totals(g)
  BY <1>0, <1>1, StatesCounted
<1>3. Len(ps) \in Nat /\ 0 \in 0..Len(ps) /\ top \in Nat /\ 0 < g[0] /\ 0 <= top
  <2>1. Len(ps) \in Nat
    BY <1>0, LenProperties
  <2>2. 0 \in 0..Len(ps) /\ Len(ps) \in 0..Len(ps)
    BY <2>1, SMTT(10)
  <2>3. g[0] = 1 /\ g[Len(ps)] = V1!MaxStates /\ V1!MaxStates \in Nat /\ g[0] <= V1!MaxStates
    BY <1>1, <1>2, <2>2 DEF Totals
  <2>4. top = V1!MaxStates - 1
    BY <1>1 DEF Top
  <2> QED BY <2>1, <2>2, <2>3, <2>4, SMTT(10)
<1>4. /\ patterns' = ps /\ todo' = ps /\ numStates' = 0 /\ Top' = top
      /\ trans' = [s \in 0..top |-> [i \in Inputs |-> FAIL]]
      /\ matchList' = [s \in 0..top |-> <<>>] /\ str' = [s \in {0} |-> <<>>]
  <2>1. patterns' = patterns
    BY DEF Compile, setup
  <2>2. Top' = Top
    BY <2>1, TotalsKept
  <2> QED BY <1>0, <1>1, <2>1, <2>2 DEF Compile
<1>13. PICK rt : rt = Renamed(top, trans')
  OBVIOUS
<1>14. /\ Table(top, trans') /\ Table1(top, rt) /\ rt \in [0..top -> [Inputs -> Int]]
       /\ \A s \in 0..top, i \in Inputs : rt[s][i] = -1
  <2>1. Table(top, trans') /\ \A s \in 0..top, i \in Inputs : trans'[s][i] = FAIL
    BY <1>0, <1>4 DEF Table
  <2>2. Table1(top, rt) /\ \A s \in 0..top, i \in Inputs : rt[s][i] = Mark(FAIL)
    BY <1>13, <2>1, RenamedTable
  <2>3. Mark(FAIL) = -1
    BY DEF Mark
  <2> QED BY <2>1, <2>2, <2>3 DEF Table1
<1>5. 0..0 = {0} /\ 1..0 = {} /\ (0 + 1)..top \subseteq 0..top /\ 0 \in 0..top
      /\ \A j : j \in 1..Len(ps) => 0 + j = j
  BY <1>3, SMTT(10)
<1>6. <<>> \in Seq(Inputs) /\ <<>> \in Seq(Entry) /\ Len(<<>>) = 0
  BY EmptySeq
<1>7. Named(0, str')
  <2>1. str' \in [0..0 -> Seq(Inputs)] /\ str'[0] = <<>>
    BY <1>4, <1>5, <1>6
  <2> QED BY <1>5, <2>1 DEF Named
<1>8. Trie(0, top, rt, str')
  <2>1. rt \in [0..top -> [Inputs -> Int]] /\ \A s \in 0..top, i \in Inputs : rt[s][i] = -1
    BY <1>14
  <2>2. TrieRow(0, rt, str', 0)
    <3>1. \A i \in Inputs : rt[0][i] = -1
      BY <1>5, <2>1
    <3>2. \A i \in Inputs : \A q \in 0..0 : str'[q] # Append(str'[0], i)
      <4> SUFFICES ASSUME NEW i \in Inputs, NEW q \in 0..0
                   PROVE  str'[q] # Append(str'[0], i)
        OBVIOUS
      <4>1. str'[0] = <<>> /\ q = 0
        BY <1>5, <1>7 DEF Named
      <4>2. Append(<<>>, i) # <<>>
        BY <1>6, AppendWord
      <4> QED BY <4>1, <4>2
    <3>3. PICK st : st = str'
      OBVIOUS
    <3>4. TrieRow(0, rt, st, 0)
      BY <3>1, <3>2, <3>3 DEF TrieRow
    <3> QED BY <3>3, <3>4
  <2> QED BY <1>3, <1>5, <1>7, <2>1, <2>2 DEF Trie
<1>9. Spells(ps, 0, 0, str')
  <2>1. str'[0] = <<>>
    BY <1>7 DEF Named
  <2>2. \A w : Begins(ps, 0, w) <=> w = <<>>
    BY <1>5 DEF Begins
  <2> QED BY <1>5, <2>1, <2>2 DEF Spells
<1>10. Listed(ps, top, 0, 0, str', matchList')
  <2>1. matchList' \in [0..top -> Seq(Entry)] /\ \A s \in 0..top : matchList'[s] = <<>>
    BY <1>4, <1>6
  <2>2. \A w : Holds(ps, <<>>, 0, w)
    <3>1. \A w : Same(ps, 0, w) = {}
      BY <1>5 DEF Same
    <3>2. Cardinality({}) = 0
      BY FS_EmptySet
    <3> QED BY <1>5, <1>6, <3>1, <3>2 DEF Holds
  <2>3. matchList'[0] = <<>> /\ \A s \in 0..0 : s = 0
    BY <1>5, <2>1
  <2>4. \A s \in 0..0 : Holds(ps, matchList'[s], 0, str'[s])
    BY <2>2, <2>3
  <2>5. \A s \in (0 + 1)..top : matchList'[s] = <<>>
    BY <1>5, <2>1
  <2> QED BY <2>1, <2>4, <2>5 DEF Listed
<1>11. \E h : Totals(h)' /\ 0 < h[0]
  BY <1>1, <1>2, <1>3, <1>4, TotalsKept
<1>12. ps \in Seq(Entry) /\ Len(ps) = Len(ps) - 0 /\ \A j \in 1..Len(ps) : ps[j] = ps[0 + j]
  BY <1>0, <1>3, <1>5, SMTT(10)
<1> QED BY <1>0, <1>3, <1>4, <1>8, <1>9, <1>10, <1>11, <1>12, <1>13, <1>14 DEF TrieOf2

\* A pattern more is added to the trie.
LEMMA TrieGrows2 ==
  ASSUME NEW m, TrieOf2(m), AddPatternStates
  PROVE  TrieOf2(m + 1)'
<1>1. PICK ps, top, n, tr, rt, st, ml, td :
        /\ ps = patterns /\ top = Top /\ n = numStates /\ tr = trans /\ st = str
        /\ rt = Renamed(top, tr) /\ ml = matchList /\ td = todo
  OBVIOUS
<1>2. /\ ps \in Seq(Entry) /\ m \in 0..Len(ps) /\ td \in Seq(Entry) /\ Len(td) = Len(ps) - m
      /\ \A j \in 1..Len(td) : td[j] = ps[m + j]
      /\ Trie(n, top, rt, st) /\ Spells(ps, m, n, st) /\ Listed(ps, top, m, n, st, ml)
      /\ Entered(ps) /\ top < FAIL /\ Table(top, tr) /\ td # <<>>
  BY <1>1 DEF TrieOf2, AddPatternStates, Entered
<1>3. PICK p, b, t, c, v :
        /\ p = td[1] /\ b = [at |-> 0, num |-> n, trans |-> tr, str |-> st]
        /\ t = Folded2(b, p.patrn) /\ c = RenamedWork(b, top) /\ v = RenamedWork(t, top)
  OBVIOUS
<1>4. /\ numStates' = t.num /\ trans' = t.trans /\ str' = t.str
      /\ matchList' = [ml EXCEPT ![t.at] = <<p>> \o ml[t.at]]
      /\ todo' = Tail(td) /\ patterns' = ps
  BY <1>1, <1>3 DEF AddPatternStates, Folded2, setup
<1>5. /\ m \in Nat /\ m + 1 \in 1..Len(ps) /\ m + 1 <= Len(ps) /\ m + 1 \in 0..Len(ps)
      /\ 1 \in 1..Len(td) /\ Len(td) \in Nat /\ Len(ps) \in Nat /\ (m + 1) - 1 = m
      /\ Len(td) - 1 = Len(ps) - (m + 1)
  <2>1. Len(ps) \in Nat /\ Len(td) \in Nat /\ Len(td) # 0
    BY <1>2, EmptySeq, LenProperties
  <2> QED BY <1>2, <2>1, SMTT(10)
<1>6. p = ps[m + 1] /\ p \in Entry /\ p.patrn \in Seq(Inputs) /\ Len(p.patrn) \in Nat
  <2>1. p = ps[m + 1]
    BY <1>2, <1>3, <1>5
  <2>2. ps[m + 1] \in Entry
    BY <1>2, <1>5, ElementOfSeq
  <2>3. p.patrn \in Seq(Inputs)
    BY <2>1, <2>2 DEF Entry
  <2> QED BY <2>1, <2>2, <2>3, LenProperties
<1>7. PICK g : Totals(g) /\ n < g[m]
  BY <1>1 DEF TrieOf2
<1>8. n \in Nat /\ top \in Nat
  BY <1>2 DEF Trie, Named
<1>9. n + Len(p.patrn) < g[m + 1] /\ n + Len(p.patrn) <= top /\ g[m + 1] \in Nat
  <2>1. /\ g[m + 1] = g[m] + Len(p.patrn) /\ g[m + 1] <= V1!MaxStates
        /\ g[m] \in Nat /\ g[m + 1] \in Nat /\ V1!MaxStates \in Nat
    <3>1. g[m + 1] = g[(m + 1) - 1] + Len(ps[m + 1].patrn)
      BY <1>1, <1>5, <1>7 DEF Totals
    <3>2. Len(ps) \in 0..Len(ps)
      BY <1>5, SMTT(10)
    <3>3. g[m + 1] \in Nat /\ g[m + 1] <= g[Len(ps)] /\ g[m] \in Nat /\ g[Len(ps)] \in Nat
      BY <1>1, <1>2, <1>5, <1>7, <3>2 DEF Totals
    <3> QED BY <1>1, <1>5, <1>6, <1>7, <3>1, <3>3 DEF Totals
  <2>2. top = V1!MaxStates - 1
    BY <1>1 DEF Top
  <2> QED BY <1>6, <1>7, <1>8, <2>1, <2>2, SMTT(10)
<1>10. /\ b.at = 0 /\ b.num = n /\ b.trans = tr /\ b.str = st /\ Work(b, top)
       /\ c.at = 0 /\ c.num = n /\ c.trans = rt /\ c.str = st
       /\ v.at = t.at /\ v.num = t.num /\ v.trans = Renamed(top, t.trans) /\ v.str = t.str
  BY <1>1, <1>2, <1>3 DEF Work, RenamedWork
<1>11. Adding(c, top)
  <2>1. 0 \in 0..n
    BY <1>8, SMTT(10)
  <2>2. c = [at |-> 0, num |-> n, trans |-> rt, str |-> st]
    BY <1>1, <1>3, <1>10 DEF RenamedWork
  <2> QED BY <1>2, <1>10, <2>1, <2>2 DEF Adding
<1>12. Added(c, v, top, p.patrn, Len(p.patrn)) /\ Table(top, t.trans)
  <2>1. b.num + Len(p.patrn) <= top
    BY <1>9, <1>10
  <2>2. Work(t, top) /\ Added(c, v, top, p.patrn, Len(p.patrn))
    BY <1>2, <1>3, <1>6, <1>8, <1>10, <1>11, <2>1, TextAdded2
  <2> QED BY <2>2 DEF Work
<1>13. Spells(ps, m + 1, t.num, t.str)
  <2>1. Spells(ps, m + 1, v.num, v.str)
    BY <1>2, <1>5, <1>6, <1>8, <1>10, <1>12, SpellsMore
  <2> QED BY <1>10, <2>1
<1>14. Listed(ps, top, m + 1, t.num, t.str, matchList')
  <2>1. matchList' = [ml EXCEPT ![v.at] = <<ps[m + 1]>> \o ml[v.at]]
    BY <1>4, <1>6, <1>10
  <2>2. Added(c, v, top, ps[m + 1].patrn, Len(ps[m + 1].patrn))
    BY <1>6, <1>12
  <2>3. Listed(ps, top, m + 1, v.num, v.str, matchList')
    BY <1>2, <1>5, <1>8, <1>10, <2>1, <2>2, ListedMore
  <2> QED BY <1>10, <2>3
<1>15. Trie(t.num, top, Renamed(top, t.trans), t.str) /\ t.num < g[m + 1]
  <2>1. Trie(t.num, top, Renamed(top, t.trans), t.str) /\ t.num <= n + Len(p.patrn)
    BY <1>10, <1>12 DEF Added, Adding
  <2>2. t.num \in Nat
    BY <2>1 DEF Trie, Named
  <2> QED BY <1>6, <1>8, <1>9, <2>1, <2>2, SMTT(10)
<1>16. PICK tl : tl = Tail(td)
  OBVIOUS
<1>17. tl \in Seq(Entry) /\ Len(tl) = Len(ps) - (m + 1) /\ \A j \in 1..Len(tl) : tl[j] = ps[(m + 1) + j]
  <2>1. tl \in Seq(Entry) /\ Len(tl) = Len(td) - 1 /\ \A j \in 1..Len(tl) : tl[j] = td[j + 1]
    BY <1>2, <1>16, HeadTailProperties
  <2>2. \A j \in 1..Len(tl) : j + 1 \in 1..Len(td) /\ m + (j + 1) = (m + 1) + j
    BY <1>5, <2>1, SMTT(10)
  <2>3. \A j \in 1..Len(tl) : td[j + 1] = ps[m + (j + 1)]
    BY <1>2, <2>2
  <2> QED BY <1>5, <2>1, <2>2, <2>3
<1>18. Top' = top /\ Totals(g)'
  BY <1>1, <1>4, <1>7, TotalsKept
<1>19. \E h : Totals(h)' /\ t.num < h[m + 1]
  BY <1>15, <1>18
<1> QED BY <1>2, <1>4, <1>5, <1>12, <1>13, <1>14, <1>15, <1>16, <1>17, <1>18, <1>19 DEF TrieOf2

-----------------------------------------------------------------------------
(* The failure chain *)

\* The states P know where their chains of failure states fl lead: to t, which is
\* what the first state of the chain that has something, has in g.  A chain out of P
\* is in P after two states.
Chained(n, P, g, fl, t, len) ==
  /\ n \in Nat /\ P \in SUBSET (0..n) /\ fl \in [0..n -> 0..n] /\ len \in [0..n -> Nat]
  /\ \A s \in P : t[s] = IF g[s] # FAIL THEN g[s] ELSE t[fl[s]]
  /\ \A s \in P : g[s] = FAIL => fl[s] \in P /\ len[fl[s]] < len[s]
  /\ \A s \in 0..n : s \notin P => fl[s] \in P \/ fl[fl[s]] \in P

\* The function next follows the chains.
Follows(n, g, fl, next) ==
  next = [s \in 0..n |-> IF g[s] # FAIL THEN g[s] ELSE next[fl[s]]]

\* Following the chain finds it.
LEMMA ChainLeads ==
  ASSUME NEW n, NEW P, NEW g, NEW fl, NEW t, NEW len, Chained(n, P, g, fl, t, len)
  PROVE  /\ \E f : Follows(n, g, fl, f)
         /\ \A next : Follows(n, g, fl, next) => \A s \in P : next[s] = t[s]
<1>1. /\ n \in Nat /\ P \in SUBSET (0..n) /\ fl \in [0..n -> 0..n] /\ len \in [0..n -> Nat]
      /\ \A s \in P : t[s] = IF g[s] # FAIL THEN g[s] ELSE t[fl[s]]
      /\ \A s \in P : g[s] = FAIL => fl[s] \in P /\ len[fl[s]] < len[s]
      /\ \A s \in 0..n : s \notin P => fl[s] \in P \/ fl[fl[s]] \in P
  BY DEF Chained
<1>2. \E f : Follows(n, g, fl, f)
  <2> DEFINE f == [s \in 0..n |->
                     IF s \in P THEN t[s]
                     ELSE IF g[s] # FAIL THEN g[s]
                     ELSE IF fl[s] \in P THEN t[fl[s]]
                     ELSE IF g[fl[s]] # FAIL THEN g[fl[s]] ELSE t[fl[fl[s]]]]
  <2>1. ASSUME NEW s \in 0..n
        PROVE  f[s] = IF g[s] # FAIL THEN g[s] ELSE f[fl[s]]
    <3>1. fl[s] \in 0..n /\ fl[fl[s]] \in 0..n
      BY <1>1
    <3>2. CASE s \in P
      <4>1. f[s] = t[s]
        BY <3>2
      <4>2. g[s] = FAIL => f[fl[s]] = t[fl[s]]
        BY <1>1, <3>1, <3>2
      <4> HIDE DEF f
      <4> QED BY <1>1, <3>2, <4>1, <4>2
    <3>3. CASE s \notin P
      BY <1>1, <3>1, <3>3
    <3> QED BY <3>2, <3>3
  <2>2. f = [s \in 0..n |-> f[s]]
    OBVIOUS
  <2> HIDE DEF f
  <2>3. f = [s \in 0..n |-> IF g[s] # FAIL THEN g[s] ELSE f[fl[s]]]
    BY <2>1, <2>2
  <2> QED BY <2>3 DEF Follows
<1>3. ASSUME NEW next, Follows(n, g, fl, next)
      PROVE  \A s \in P : next[s] = t[s]
  <2> DEFINE wrong == { s \in P : next[s] # t[s] }
             lens == { len[s] : s \in wrong }
  <2>1. wrong = {}
    <3> SUFFICES ASSUME wrong # {}
                 PROVE  FALSE
      OBVIOUS
    <3>1. lens \in SUBSET Nat /\ lens # {}
      <4>1. \A s \in P : len[s] \in Nat
        BY <1>1
      <4>2. \A s \in wrong : len[s] \in Nat
        BY <4>1
      <4> HIDE DEF wrong
      <4> QED BY <4>2
    <3>2. PICK d \in lens : \A y \in lens : d <= y
      <4> HIDE DEF lens
      <4> QED BY <3>1, LeastNatural
    <3>3. PICK s \in wrong : len[s] = d
      OBVIOUS
    <3>4. s \in P /\ s \in 0..n /\ next[s] # t[s]
      BY <1>1
    <3>5. next[s] = IF g[s] # FAIL THEN g[s] ELSE next[fl[s]]
      BY <1>3, <3>4 DEF Follows
    <3>6. g[s] = FAIL
      BY <1>1, <3>4, <3>5
    <3>7. fl[s] \in P /\ len[fl[s]] < len[s] /\ len[fl[s]] \in Nat /\ len[s] \in Nat
      BY <1>1, <3>4, <3>6
    <3>8. next[fl[s]] = t[fl[s]]
      <4>1. ~(d <= len[fl[s]])
        BY <3>3, <3>7, SMTT(10)
      <4>2. len[fl[s]] \notin lens
        BY <3>2, <4>1
      <4> QED BY <3>7, <4>2
    <3> QED BY <1>1, <3>4, <3>5, <3>6, <3>8
  <2> QED BY <2>1
<1> QED BY <1>2, <1>3

\* Where a state goes on an input by its row of the trie; the root stays.
Goes(tr, s, i) == IF tr[s][i] = -1 /\ s = 0 THEN 0 ELSE tr[s][i]

\* The failure state f of s has the longest proper suffix, and its row is done.
Behind(n, tw, st, s, f) ==
  s # 0 => /\ f \in 0..n /\ WholeRow(n, tw, st, f)
           /\ LongestProper(st[f], st[s], WordSet(n, st))

\* Whose row is done goes where the trie goes, and if it goes nowhere, where the
\* failure state goes.
LEMMA ChainStep ==
  ASSUME NEW n, NEW tr, NEW st, NEW f, NEW tw, Named(n, st), NEW s \in 0..n,
         TrieRow(n, tr, st, s), WholeRow(n, tw, st, s), NEW i \in Inputs,
         Behind(n, tw, st, s, f)
  PROVE  /\ Goes(tr, s, i) # -1 => tw[s][i] = Goes(tr, s, i)
         /\ Goes(tr, s, i) = -1 => s # 0 /\ tw[s][i] = tw[f][i] /\ Len(st[f]) < Len(st[s])
<1>1. PICK W, w : W = WordSet(n, st) /\ w = Append(st[s], i)
  OBVIOUS
<1>2. /\ PrefixClosed(W) /\ W \in SUBSET Seq(Inputs) /\ st[0] = <<>> /\ 0 \in 0..n
      /\ \A x \in 0..n : st[x] \in W /\ st[x] \in Seq(Inputs)
      /\ \A x, y \in 0..n : st[x] = st[y] => x = y
      /\ w \in Seq(Inputs)
  <2>1. Named(n, st)
    OBVIOUS
  <2>2. PrefixClosed(W) /\ W \in SUBSET Seq(Inputs) /\ 0 \in 0..n
        /\ \A x \in 0..n : st[x] \in W /\ st[x] \in Seq(Inputs)
    BY <1>1, WordsClosed
  <2> QED BY <1>1, <2>2, AppendWord DEF Named
<1>3. tw[s][i] \in 0..n /\ Longest(st[tw[s][i]], w, W)
  BY <1>1 DEF WholeRow
<1>4. ASSUME NEW x \in 0..n, Longest(st[x], w, W)
      PROVE  tw[s][i] = x
  <2>1. PICK u, v : u = st[x] /\ v = st[tw[s][i]]
    OBVIOUS
  <2>2. u = v
    BY <1>2, <1>3, <1>4, <2>1, LongestUnique
  <2> QED BY <1>2, <1>3, <2>1, <2>2
<1>5. CASE tr[s][i] # -1
  <2>1. tr[s][i] \in 1..n /\ st[tr[s][i]] = w
    BY <1>1, <1>5 DEF TrieRow
  <2>2. tr[s][i] \in 0..n
    <3>1. n \in Nat
      BY DEF Named
    <3> QED BY <2>1, <3>1, SMTT(10)
  <2>3. Longest(w, w, W)
    <3>1. w \in W
      BY <1>2, <2>1, <2>2
    <3> QED BY <1>2, <3>1, LongestOwn
  <2>4. tw[s][i] = tr[s][i]
    BY <1>4, <2>1, <2>2, <2>3
  <2> QED BY <1>5, <2>4 DEF Goes
<1>6. CASE tr[s][i] = -1
  <2>1. w \notin W
    <3>1. tr[s][i] \notin 1..n
      <4>1. n \in Nat
        BY DEF Named
      <4> QED BY <1>6, <4>1, SMTT(10)
    <3>2. \A q \in 0..n : st[q] # w
      BY <1>1, <3>1 DEF TrieRow
    <3> QED BY <1>1, <3>2 DEF WordSet
  <2>2. CASE s = 0
    <3>1. w = Append(<<>>, i)
      BY <1>1, <1>2, <2>2
    <3>2. LongestProper(<<>>, w, W)
      BY <1>2, <3>1, LongestOfInput
    <3>3. Longest(st[0], w, W)
      BY <1>2, <2>1, <3>2, LongestOwn
    <3>4. tw[s][i] = 0
      BY <1>2, <1>4, <3>3
    <3>5. 0 # -1
      BY SMTT(10)
    <3> QED BY <1>6, <2>2, <3>4, <3>5 DEF Goes
  <2>3. CASE s # 0
    <3>1. /\ f \in 0..n /\ tw[f][i] \in 0..n /\ Longest(st[tw[f][i]], Append(st[f], i), W)
          /\ LongestProper(st[f], st[s], W)
      BY <1>1, <2>3 DEF WholeRow, Behind
    <3>2. PICK u, v, x : u = st[f] /\ v = st[s] /\ x = st[tw[f][i]]
      OBVIOUS
    <3>3. /\ u \in Seq(Inputs) /\ v \in Seq(Inputs) /\ LongestProper(u, v, W) /\ w = Append(v, i)
          /\ Longest(x, Append(u, i), W)
      BY <1>1, <1>2, <3>1, <3>2
    <3>4. LongestProper(x, w, W)
      BY <1>2, <3>3, ProperNext
    <3>5. Longest(x, w, W)
      BY <1>2, <2>1, <3>4, LongestOwn
    <3>6. tw[s][i] = tw[f][i]
      BY <1>4, <3>1, <3>2, <3>5
    <3>7. Len(u) < Len(v)
      BY <3>3, ProperShorter
    <3> QED BY <1>6, <2>3, <3>2, <3>6, <3>7 DEF Goes
  <2> QED BY <2>2, <2>3
<1> QED BY <1>5, <1>6

-----------------------------------------------------------------------------
(* The merged match lists *)

\* Which patterns w ends in.
EndsOf(ps, w) == { j \in 1..Len(ps) : Suf(ps[j].patrn, w) }

\* What a list holds, and the patterns at given places.
Held(l) == { l[k] : k \in 1..Len(l) }
Those(ps, js) == { ps[j] : j \in js }

\* The list l holds those, each once.
Gathers(ps, l, w) ==
  /\ Held(l) = Those(ps, EndsOf(ps, w))
  /\ Len(l) = Cardinality(EndsOf(ps, w))

\* A word of one input ends in no pattern but itself.
LEMMA ShortGathers ==
  ASSUME NEW ps \in Seq(Entry), Filled(ps), NEW w \in Seq(Inputs), Len(w) <= 1,
         NEW l, Holds(ps, l, Len(ps), w)
  PROVE  Gathers(ps, l, w)
<1>1. EndsOf(ps, w) = Same(ps, Len(ps), w)
  <2>1. ASSUME NEW j \in 1..Len(ps)
        PROVE  Suf(ps[j].patrn, w) <=> ps[j].patrn = w
    <3>1. PICK p : p = ps[j].patrn
      OBVIOUS
    <3>2. p \in Seq(Inputs) /\ p # <<>>
      <4>1. ps[j] \in Entry
        BY ElementOfSeq
      <4> QED BY <3>1, <4>1 DEF Entry, Filled
    <3>3. Len(p) \in Nat /\ Len(p) # 0 /\ Len(w) \in Nat
      BY <3>2, EmptySeq, LenProperties
    <3>4. ASSUME Suf(p, w)
          PROVE  p = w
      <4>1. Len(p) = Len(w) /\ Len(p) <= Len(w)
        <5>1. Len(p) <= Len(w)
          BY <3>4 DEF Suf
        <5> QED BY <3>3, <5>1, SMTT(10)
      <4>2. Suf(w, w)
        BY SufRefl
      <4> QED BY <3>2, <3>4, <4>1, <4>2, SufSame
    <3> QED BY <3>1, <3>4, SufRefl
  <2> QED BY <2>1 DEF EndsOf, Same
<1> QED BY <1>1 DEF Holds, Gathers, Held, Those

\* A list backwards holds what it holds.
LEMMA ReversedList ==
  ASSUME NEW l \in Seq(Entry), NEW r, r = Reverse(l)
  PROVE  /\ r \in Seq(Entry) /\ Len(r) = Len(l)
         /\ Held(r) = Held(l)
<1>1. Len(l) \in Nat
  BY LenProperties
<1>2. r = [k \in 1..Len(l) |-> l[(Len(l) - k) + 1]]
  BY DEF Reverse
<1>3. \A k \in 1..Len(l) : (Len(l) - k) + 1 \in 1..Len(l) /\ (Len(l) - ((Len(l) - k) + 1)) + 1 = k
  BY <1>1, SMTT(10)
<1>4. r \in [1..Len(l) -> Entry]
  <2>1. \A k \in 1..Len(l) : l[k] \in Entry
    BY ElementOfSeq
  <2> QED BY <1>2, <1>3, <2>1
<1>5. r \in Seq(Entry) /\ Len(r) = Len(l)
  BY <1>1, <1>2, <1>4, SMTT(10)
<1>6. ASSUME NEW k \in 1..Len(l)
      PROVE  \E j \in 1..Len(l) : r[k] = l[j] /\ l[k] = r[j]
  <2>1. PICK j : j = (Len(l) - k) + 1
    OBVIOUS
  <2>2. j \in 1..Len(l) /\ (Len(l) - j) + 1 = k
    BY <1>3, <2>1
  <2> QED BY <1>2, <2>1, <2>2
<1>7. Held(r) = Held(l)
  BY <1>5, <1>6 DEF Held
<1> QED BY <1>5, <1>7

\* The list of a word's longest proper suffix, before the patterns that are the
\* word, makes its own.
LEMMA GathersMore ==
  ASSUME NEW ps \in Seq(Entry), NEW W \in SUBSET Seq(Inputs),
         \A j \in 1..Len(ps) : ps[j].patrn \in W,
         NEW w \in Seq(Inputs), NEW u \in Seq(Inputs), LongestProper(u, w, W),
         NEW l \in Seq(Entry), Holds(ps, l, Len(ps), w),
         NEW k \in Seq(Entry), Gathers(ps, k, u),
         NEW x, x = MergeMatchList(l, k)
  PROVE  x \in Seq(Entry) /\ Gathers(ps, x, w)
<1>1. PICK r : r = Reverse(k)
  OBVIOUS
<1>2. r \in Seq(Entry) /\ Len(r) = Len(k) /\ Held(r) = Held(k)
  BY <1>1, ReversedList
<1>3. x = r \o l
  BY <1>1 DEF MergeMatchList
<1>4. Len(r) \in Nat /\ Len(l) \in Nat /\ Len(ps) \in Nat
  BY <1>2, LenProperties
<1>5. /\ x \in Seq(Entry) /\ Len(x) = Len(r) + Len(l)
      /\ \A j \in 1..(Len(r) + Len(l)) : x[j] = IF j <= Len(r) THEN r[j] ELSE l[j - Len(r)]
  <2>1. r \in Seq(Entry) /\ l \in Seq(Entry)
    BY <1>2
  <2> QED BY <1>3, <2>1, ConcatProperties
<1>6. Held(x) = Held(r) \cup Held(l)
  <2>1. \A j \in 1..Len(x) : j \in 1..Len(r) \/ (j - Len(r) \in 1..Len(l) /\ ~(j <= Len(r)))
    BY <1>4, <1>5, SMTT(10)
  <2>2. \A j \in 1..Len(r) : j \in 1..Len(x) /\ j <= Len(r)
    BY <1>4, <1>5, SMTT(10)
  <2>3. \A j \in 1..Len(l) :
          j + Len(r) \in 1..Len(x) /\ ~(j + Len(r) <= Len(r)) /\ (j + Len(r)) - Len(r) = j
    BY <1>4, <1>5, SMTT(10)
  <2>4. ASSUME NEW j \in 1..Len(x)
        PROVE  x[j] \in Held(r) \cup Held(l)
    <3>1. CASE j \in 1..Len(r)
      BY <1>5, <2>2, <3>1 DEF Held
    <3>2. CASE j - Len(r) \in 1..Len(l) /\ ~(j <= Len(r))
      BY <1>5, <3>2 DEF Held
    <3> QED BY <2>1, <3>1, <3>2
  <2>5. ASSUME NEW j \in 1..Len(r)
        PROVE  r[j] \in Held(x)
    BY <1>5, <2>2 DEF Held
  <2>6. ASSUME NEW j \in 1..Len(l)
        PROVE  l[j] \in Held(x)
    <3>1. PICK m : m = j + Len(r)
      OBVIOUS
    <3>2. m \in 1..Len(x) /\ ~(m <= Len(r)) /\ m - Len(r) = j
      BY <2>3, <3>1
    <3> QED BY <1>5, <3>2 DEF Held
  <2>7. \A y \in Held(x) : y \in Held(r) \cup Held(l)
    BY <2>4 DEF Held
  <2>8. \A y \in Held(r) : y \in Held(x)
    BY <2>5 DEF Held
  <2>9. \A y \in Held(l) : y \in Held(x)
    BY <2>6 DEF Held
  <2> QED BY <2>7, <2>8, <2>9
<1>7. PICK a, b : a = EndsOf(ps, u) /\ b = Same(ps, Len(ps), w)
  OBVIOUS
<1>8. Len(u) < Len(w) /\ Len(u) \in Nat /\ Len(w) \in Nat
  BY ProperShorter, LenProperties
<1>9. ASSUME NEW j \in 1..Len(ps)
      PROVE  /\ Suf(ps[j].patrn, w) <=> Suf(ps[j].patrn, u) \/ ps[j].patrn = w
             /\ ~(Suf(ps[j].patrn, u) /\ ps[j].patrn = w)
  <2>1. PICK p : p = ps[j].patrn
    OBVIOUS
  <2>2. p \in Seq(Inputs) /\ p \in W /\ Len(p) \in Nat
    <3>1. p \in W /\ p \in Seq(Inputs)
      BY <2>1
    <3> QED BY <3>1, LenProperties
  <2>3. Suf(u, w) /\ \A v \in W : Suf(v, w) /\ v # w => Len(v) <= Len(u)
    BY DEF LongestProper
  <2>4. ASSUME Suf(p, w), p # w
        PROVE  Suf(p, u)
    <3>1. Len(p) <= Len(u)
      BY <2>2, <2>3, <2>4
    <3> QED BY <2>2, <2>3, <2>4, <3>1, SufSame
  <2>5. ASSUME Suf(p, u)
        PROVE  Suf(p, w) /\ p # w
    <3>1. Suf(p, w)
      BY <2>2, <2>3, <2>5, SufTrans
    <3>2. Len(p) <= Len(u)
      BY <2>5 DEF Suf
    <3>3. Len(p) # Len(w)
      BY <1>8, <2>2, <3>2, SMTT(10)
    <3> QED BY <3>1, <3>3
  <2>6. p = w => Suf(p, w)
    BY SufRefl
  <2> QED BY <2>1, <2>4, <2>5, <2>6
<1>10. EndsOf(ps, w) = a \cup b /\ a \cap b = {}
  BY <1>7, <1>9 DEF EndsOf, Same
<1>11. IsFiniteSet(a) /\ IsFiniteSet(b)
  <2>1. IsFiniteSet(1..Len(ps))
    <3>1. 1 \in Int /\ Len(ps) \in Int
      BY <1>4, SMTT(10)
    <3> QED BY <3>1, FS_Interval
  <2>2. a \in SUBSET (1..Len(ps)) /\ b \in SUBSET (1..Len(ps))
    BY <1>7 DEF EndsOf, Same
  <2> QED BY <2>1, <2>2, FS_Subset
<1>12. Cardinality(a \cup b) = Cardinality(a) + Cardinality(b)
  <2>1. Cardinality(a \cup b) = Cardinality(a) + Cardinality(b) - Cardinality(a \cap b)
    BY <1>11, FS_Union
  <2>2. Cardinality(a \cap b) = 0
    BY <1>10, FS_EmptySet
  <2>3. Cardinality(a) \in Nat /\ Cardinality(b) \in Nat
    BY <1>11, FS_CardinalityType
  <2> QED BY <2>1, <2>2, <2>3, SMTT(10)
<1>13. /\ Held(k) = Those(ps, a) /\ Len(k) = Cardinality(a)
       /\ Held(l) = Those(ps, b) /\ Len(l) = Cardinality(b)
  BY <1>7 DEF Gathers, Holds, Held, Those
<1>14. Held(x) = Those(ps, a \cup b)
  <2>1. Those(ps, a \cup b) = Those(ps, a) \cup Those(ps, b)
    BY DEF Those
  <2> QED BY <1>2, <1>6, <1>13, <2>1
<1>15. Len(x) = Cardinality(a \cup b)
  BY <1>2, <1>5, <1>12, <1>13
<1> QED BY <1>5, <1>10, <1>14, <1>15 DEF Gathers

-----------------------------------------------------------------------------
(* Build_NFA *)

\* The last state, once the 0'th is counted.
LastState == numStates - 1

\* The pass of Build_NFA: a pass over a table tw that the code does not have, whose
\* rows are those of the trie tr for the states that are not done.
NfaPass(P, n, tr, tw, st, fl, qu) ==
  /\ Pass(P, n, n, tw, st, fl, qu) /\ tr \in [0..n -> [Inputs -> Int]]
  /\ \A s \in 0..n : TrieRow(n, tr, st, s)
  /\ \A s \in 0..n : s \notin P => tw[s] = tr[s]
  /\ \A s \in P : fl[s] \in P

\* What the states have for the input i: in the trie, in tw, and how long their words are.
Column(n, tr, tw, st, i, g, t, len) ==
  /\ \A s \in 0..n : /\ g[s] = FAIL <=> Goes(tr, s, i) = -1
                     /\ g[s] # FAIL => g[s] = Goes(tr, s, i)
  /\ t = [s \in 0..n |-> tw[s][i]] /\ len = [s \in 0..n |-> Len(st[s])]

\* A longest proper suffix is a state, and the chain from a state that is done is done.
LEMMA PassChained ==
  ASSUME NEW P, NEW n, NEW tr, NEW tw, NEW st, NEW fl, NEW qu, NfaPass(P, n, tr, tw, st, fl, qu),
         qu # <<>>, NEW i \in Inputs, NEW g, NEW t, NEW len, Column(n, tr, tw, st, i, g, t, len)
  PROVE  Chained(n, P, g, fl, t, len)
<1>1. Pass(P, n, n, tw, st, fl, qu) /\ \A s \in P : fl[s] \in P
  BY DEF NfaPass
<1>2. /\ Named(n, st) /\ n \in Nat /\ fl \in [0..n -> 0..n] /\ P \in SUBSET (0..n)
      /\ \A s \in P : WholeRow(n, tw, st, s)
      /\ \A s \in P \ {0} : LongestProper(st[fl[s]], st[s], WordSet(n, st))
  BY <1>1 DEF Pass
<1>3. \A s \in 0..n : Len(st[s]) \in Nat
  BY <1>2, WordsClosed
<1>4. len \in [0..n -> Nat]
  BY <1>3 DEF Column
<1>5. \A s \in 0..n : s \notin P => fl[s] \in P \/ fl[fl[s]] \in P
  <2>1. PICK r : r = qu[1]
    OBVIOUS
  <2> QED BY <1>1, <2>1, HeadOfQueue
<1>6. ASSUME NEW s \in P
      PROVE  /\ t[s] = IF g[s] # FAIL THEN g[s] ELSE t[fl[s]]
             /\ g[s] = FAIL => fl[s] \in P /\ len[fl[s]] < len[s]
  <2>1. s \in 0..n /\ fl[s] \in P /\ fl[s] \in 0..n
    BY <1>1, <1>2
  <2>2. PICK f : f = fl[s]
    OBVIOUS
  <2>3. TrieRow(n, tr, st, s) /\ WholeRow(n, tw, st, s)
    BY <1>2, <2>1 DEF NfaPass
  <2>4. Behind(n, tw, st, s, f)
    BY <1>2, <2>1, <2>2 DEF Behind
  <2>5. /\ Goes(tr, s, i) # -1 => tw[s][i] = Goes(tr, s, i)
        /\ Goes(tr, s, i) = -1 => s # 0 /\ tw[s][i] = tw[f][i] /\ Len(st[f]) < Len(st[s])
    BY <1>2, <2>1, <2>3, <2>4, ChainStep
  <2>6. t[s] = tw[s][i] /\ t[f] = tw[f][i] /\ len[f] = Len(st[f]) /\ len[s] = Len(st[s])
    BY <2>1, <2>2 DEF Column
  <2>7. (g[s] = FAIL <=> Goes(tr, s, i) = -1) /\ (g[s] # FAIL => g[s] = Goes(tr, s, i))
    BY <2>1 DEF Column
  <2>8. CASE g[s] = FAIL
    BY <2>1, <2>2, <2>5, <2>6, <2>7, <2>8
  <2>9. CASE g[s] # FAIL
    BY <2>5, <2>6, <2>7, <2>9
  <2> QED BY <2>8, <2>9
<1> QED BY <1>1, <1>2, <1>4, <1>5, <1>6 DEF Chained

\* The table of the states 0..n, as a table of the first machine.
Laid(n, tr) ==
  n \in Nat /\ Top \in Nat /\ n <= Top /\ Table(Top, trans) /\ tr = Renamed(n, trans)

\* What List_GetNextState finds in the trie.
Reads(tr, s, i) ==
  /\ List_GetNextState(s, i) = FAIL <=> Goes(tr, s, i) = -1
  /\ List_GetNextState(s, i) # FAIL => List_GetNextState(s, i) = Goes(tr, s, i)
  /\ s # 0 => List_GetNextState(s, i) = trans[s][i]
  /\ trans[s][i] = FAIL <=> tr[s][i] = -1
  /\ trans[s][i] # FAIL => trans[s][i] = tr[s][i]

\* It finds what is there.
LEMMA StateOfList ==
  ASSUME NEW n, NEW tr, Laid(n, tr), NEW s \in 0..n, NEW i \in Inputs
  PROVE  Reads(tr, s, i)
<1>1. s \in 0..Top
  BY SMTT(10) DEF Laid
<1>2. PICK x : x = trans[s][i]
  OBVIOUS
<1>3. x \in Nat /\ tr[s][i] = Mark(x)
  BY <1>1, <1>2 DEF Table, Renamed, Laid
<1>4. (Mark(x) # -1 <=> x # FAIL) /\ (x # FAIL => Mark(x) = x)
  BY <1>3, Marks
<1>5. 0 # -1 /\ 0 # FAIL
  BY RowsAssumption, SMTT(10)
<1> QED BY <1>2, <1>3, <1>4, <1>5 DEF Reads, Goes, List_GetNextState

\* A restricted table.
LEMMA Restricted ==
  ASSUME NEW n \in Nat, NEW top \in Nat, n <= top, NEW tr, Table(top, tr)
  PROVE  /\ Table1(n, Renamed(n, tr)) /\ Renamed(n, tr) \in [0..n -> [Inputs -> Int]]
         /\ \A s \in 0..n, i \in Inputs : Renamed(n, tr)[s][i] = Renamed(top, tr)[s][i]
<1>1. \A s \in 0..n : s \in 0..top
  BY SMTT(10)
<1>2. \A s \in 0..top, i \in Inputs : tr[s][i] \in Nat
  BY DEF Table
<1>3. \A s \in 0..n, i \in Inputs : Mark(tr[s][i]) \in Int
  BY <1>1, <1>2, Marks
<1>4. Renamed(n, tr) \in [0..n -> [Inputs -> Int]]
  BY <1>3 DEF Renamed
<1>5. \A s \in 0..n, i \in Inputs : Renamed(n, tr)[s][i] = Renamed(top, tr)[s][i]
  BY <1>1 DEF Renamed
<1> QED BY <1>4, <1>5 DEF Table1

\* The failure chain finds the row that the state would have.
LEMMA ChainFound ==
  ASSUME NEW P, NEW tr, NEW tw, NfaPass(P, LastState, tr, tw, str, fail, queue),
         queue # <<>>, Laid(LastState, tr), NEW s \in P, NEW i \in Inputs
  PROVE  NextOnFailure(s, i) = tw[s][i]
<1>1. PICK n : n = LastState
  OBVIOUS
<1>2. PICK g, t, len : /\ g = [x \in 0..n |-> List_GetNextState(x, i)]
                       /\ t = [x \in 0..n |-> tw[x][i]] /\ len = [x \in 0..n |-> Len(str[x])]
  OBVIOUS
<1>3. \A x \in 0..n : /\ g[x] = FAIL <=> Goes(tr, x, i) = -1
                      /\ g[x] # FAIL => g[x] = Goes(tr, x, i)
  <2> TAKE x \in 0..n
  <2>1. g[x] = List_GetNextState(x, i)
    BY <1>2
  <2>2. Reads(tr, x, i)
    BY <1>1, StateOfList
  <2> QED BY <2>1, <2>2 DEF Reads
<1>4. Chained(n, P, g, fail, t, len)
  <2>1. Column(n, tr, tw, str, i, g, t, len) /\ NfaPass(P, n, tr, tw, str, fail, queue)
    BY <1>1, <1>2, <1>3 DEF Column
  <2> QED BY <2>1, PassChained
<1>5. /\ \E f : Follows(n, g, fail, f)
      /\ \A f : Follows(n, g, fail, f) => \A x \in P : f[x] = t[x]
  BY <1>4, ChainLeads
<1> DEFINE next == CHOOSE next : next = [x \in 0..(numStates - 1) |->
                     IF List_GetNextState(x, i) # FAIL THEN List_GetNextState(x, i)
                     ELSE next[fail[x]]]
<1>6. ASSUME NEW f
      PROVE  Follows(n, g, fail, f) <=> f = [x \in 0..(numStates - 1) |->
                     IF List_GetNextState(x, i) # FAIL THEN List_GetNextState(x, i)
                     ELSE f[fail[x]]]
  <2>1. \A x \in 0..n : g[x] = List_GetNextState(x, i)
    BY <1>2
  <2>2. n = numStates - 1
    BY <1>1 DEF LastState
  <2> QED BY <2>1, <2>2 DEF Follows
<1>7. next = [x \in 0..(numStates - 1) |->
                     IF List_GetNextState(x, i) # FAIL THEN List_GetNextState(x, i)
                     ELSE next[fail[x]]]
  BY <1>5, <1>6
<1>8. NextOnFailure(s, i) = next[s]
  BY DEF NextOnFailure
<1> HIDE DEF next
<1>9. Follows(n, g, fail, next)
  BY <1>6, <1>7
<1>10. next[s] = t[s] /\ s \in 0..n
  <2>1. P \in SUBSET (0..n)
    BY <1>4 DEF Chained
  <2> QED BY <1>5, <1>9, <2>1
<1> QED BY <1>2, <1>8, <1>10

\* The words are the beginnings of the patterns.
Known2 ==
  /\ Entered(patterns) /\ numStates \in Nat /\ LastState \in Nat
  /\ Top \in Nat /\ LastState <= Top /\ Top < FAIL
  /\ Named(LastState, str) /\ Spells(patterns, Len(patterns), LastState, str)

\* The lists of the states S are merged, those of the others hold the patterns that
\* are their words.
Lists(ps, top, n, st, ml, S) ==
  /\ ml \in [0..top -> Seq(Entry)] /\ S \in SUBSET (0..n)
  /\ \A s \in 0..n : s \notin S => Holds(ps, ml[s], Len(ps), st[s])
  /\ Filled(ps) => \A s \in S : Gathers(ps, ml[s], st[s])

\* Build_NFA is at work.
InNfa ==
  /\ Known2 /\ Table(Top, trans)
  /\ \E P, tw : /\ NfaPass(P, LastState, Renamed(LastState, trans), tw, str, fail, queue)
                /\ Lists(patterns, Top, LastState, str, matchList, P \cup Waiting(queue))

\* A child of r is given the failure state fl2 and the list ml2.
Child(st, tw, fl, ml, r, s, fl2, ml2) ==
  \E i \in Inputs : /\ st[s] = Append(st[r], i) /\ fl2[s] = tw[fl[r]][i]
                    /\ ml2[s] = MergeMatchList(ml[s], ml[fl2[s]])

\* The children ch, and no others, are given them.
Given(top, n, st, tw, fl, ml, r, ch, fl2, ml2) ==
  /\ fl2 = [s \in 0..n |-> fl2[s]] /\ ml2 = [s \in 0..top |-> ml2[s]]
  /\ \A s \in 0..n : s \notin Waiting(ch) => fl2[s] = fl[s]
  /\ \A s \in 0..top : s \notin Waiting(ch) => ml2[s] = ml[s]
  /\ \A s \in Waiting(ch) : Child(st, tw, fl, ml, r, s, fl2, ml2)

\* What Build_NFA does.
LEMMA NfaDoes ==
  ASSUME NEW P, NEW tr, NEW tw, NfaPass(P, LastState, tr, tw, str, fail, queue), Laid(LastState, tr),
         matchList \in [0..Top -> Seq(Entry)],
         Build_NFA, NEW r, r = queue[1], NEW ch, ch = Children(tw, r)
  PROVE  /\ queue' = Tail(queue) \o ch /\ Bears(LastState, tw, str, r, ch) /\ queue # <<>>
         /\ Given(Top, LastState, str, tw, fail, matchList, r, ch, fail', matchList')
<1>1. PICK n, fl, ml, fl2, ml2 :
        n = LastState /\ fl = fail /\ ml = matchList /\ fl2 = fail' /\ ml2 = matchList'
  OBVIOUS
<1>2. queue # <<>> /\ NfaPass(P, n, tr, tw, str, fl, queue) /\ Pass(P, n, n, tw, str, fl, queue)
  BY <1>1 DEF Build_NFA, NfaPass
<1>3. /\ r \in 0..n /\ r \notin P /\ r # 0 /\ TrieRow(n, tw, str, r) /\ fl[r] \in P
      /\ Named(n, str) /\ n \in Nat /\ fl \in [0..n -> 0..n] /\ tw[r] = tr[r] /\ P \in SUBSET (0..n)
  <2>1. r \in 0..n /\ r \notin P /\ r # 0 /\ TrieRow(n, tw, str, r) /\ fl[r] \in P
    BY <1>2, HeadOfQueue
  <2>2. Named(n, str) /\ n \in Nat /\ fl \in [0..n -> 0..n] /\ P \in SUBSET (0..n)
    BY <1>2 DEF Pass
  <2> QED BY <1>2, <2>1, <2>2 DEF NfaPass
<1>4. Bears(n, tw, str, r, ch)
  BY <1>3, ChildrenAre
<1>5. \A i \in Inputs : /\ List_GetNextState(r, i) = FAIL <=> tw[r][i] = -1
                        /\ List_GetNextState(r, i) # FAIL => List_GetNextState(r, i) = tw[r][i]
  <2> TAKE i \in Inputs
  <2>1. /\ List_GetNextState(r, i) = trans[r][i]
        /\ trans[r][i] = FAIL <=> tr[r][i] = -1
        /\ trans[r][i] # FAIL => trans[r][i] = tr[r][i]
    <3>1. Reads(tr, r, i)
      BY <1>1, <1>3, StateOfList
    <3> QED BY <1>3, <3>1 DEF Reads
  <2> QED BY <1>3, <2>1
<1> DEFINE own == { i \in Inputs : List_GetNextState(queue[1], i) # FAIL }
           on == [s \in { List_GetNextState(queue[1], i) : i \in own } |->
                    CHOOSE i \in own : List_GetNextState(queue[1], i) = s]
<1>6. /\ queue' = Tail(queue) \o [j \in 1..Cardinality(own) |->
                                   List_GetNextState(queue[1], Ascending(own)[j])]
      /\ fail' = [s \in DOMAIN fail |->
                    IF s \in DOMAIN on THEN NextOnFailure(fail[queue[1]], on[s]) ELSE fail[s]]
      /\ matchList' = [s \in DOMAIN matchList |->
                    IF s \in DOMAIN on
                    THEN MergeMatchList(matchList[s], matchList[NextOnFailure(fail[queue[1]], on[s])])
                    ELSE matchList[s]]
  BY Zenon DEF Build_NFA
<1>7. /\ own = Own(tw, r) /\ own \in SUBSET Inputs
      /\ \A i \in own : List_GetNextState(r, i) # FAIL
  BY <1>5 DEF Own
<1>8. Ascending(own) \in [1..Cardinality(own) -> own]
  BY <1>7, AscendingCounts
<1>9. on = [s \in { List_GetNextState(r, i) : i \in own } |->
              CHOOSE i \in own : List_GetNextState(r, i) = s]
  OBVIOUS
<1> HIDE DEF own, on
<1>10. /\ queue' = Tail(queue) \o [j \in 1..Cardinality(own) |-> List_GetNextState(r, Ascending(own)[j])]
       /\ fl2 = [s \in DOMAIN fl |->
                   IF s \in DOMAIN on THEN NextOnFailure(fl[r], on[s]) ELSE fl[s]]
       /\ ml2 = [s \in DOMAIN ml |->
                   IF s \in DOMAIN on
                   THEN MergeMatchList(ml[s], ml[NextOnFailure(fl[r], on[s])])
                   ELSE ml[s]]
  BY <1>1, <1>6
<1>11. queue' = Tail(queue) \o ch
  <2>1. [j \in 1..Cardinality(own) |-> List_GetNextState(r, Ascending(own)[j])] = ch
    <3>1. \A j \in 1..Cardinality(own) :
            List_GetNextState(r, Ascending(own)[j]) = tw[r][Ascending(own)[j]]
      BY <1>5, <1>7, <1>8 
    <3> QED BY <1>7, <1>8, <3>1 DEF Children
  <2> QED BY <1>10, <2>1
<1>12. ASSUME NEW s
       PROVE  /\ s \in DOMAIN on <=> s \in Waiting(ch)
              /\ s \in Waiting(ch) =>
                   /\ on[s] \in Inputs /\ str[s] = Append(str[r], on[s])
                   /\ NextOnFailure(fl[r], on[s]) = tw[fl[r]][on[s]]
  <2>1. /\ \A q \in 0..n : q \in Waiting(ch) <=> \E i \in Inputs : str[q] = Append(str[r], i)
        /\ \A q \in Waiting(ch) : q \in 0..n
        /\ \A i \in own : tw[r][i] \in 0..n /\ str[tw[r][i]] = Append(str[r], i)
        /\ \A i \in Inputs, q \in 0..n : str[q] = Append(str[r], i) => i \in own /\ q = tw[r][i]
    BY <1>4, <1>7 DEF Bears
  <2>2. DOMAIN on = { List_GetNextState(r, i) : i \in own }
    BY <1>9
  <2>3. \A i \in own : List_GetNextState(r, i) = tw[r][i]
    BY <1>5, <1>7
  <2>4. s \in DOMAIN on <=> s \in Waiting(ch)
    <3>1. s \in DOMAIN on <=> \E i \in own : tw[r][i] = s
      BY <2>2, <2>3
    <3>2. s \in Waiting(ch) => \E i \in own : tw[r][i] = s
      BY <2>1
    <3>3. (\E i \in own : tw[r][i] = s) => s \in Waiting(ch)
      <4>1. ASSUME NEW i \in own, tw[r][i] = s PROVE s \in Waiting(ch)
        <5>1. s \in 0..n /\ str[s] = Append(str[r], i) /\ i \in Inputs
          BY <1>7, <2>1, <4>1
        <5> QED BY <2>1, <5>1
      <4> QED BY <4>1
    <3> QED BY <3>1, <3>2, <3>3
  <2>5. ASSUME s \in Waiting(ch)
        PROVE  /\ on[s] \in Inputs /\ str[s] = Append(str[r], on[s])
               /\ NextOnFailure(fl[r], on[s]) = tw[fl[r]][on[s]]
    <3>1. on[s] = CHOOSE i \in own : List_GetNextState(r, i) = s
      BY <1>9, <2>2, <2>4, <2>5
    <3>2. \E i \in own : List_GetNextState(r, i) = s
      BY <2>2, <2>4, <2>5
    <3>3. on[s] \in own /\ List_GetNextState(r, on[s]) = s
      BY <3>1, <3>2
    <3>4. PICK i : i = on[s]
      OBVIOUS
    <3>5. i \in Inputs /\ str[s] = Append(str[r], i)
      <4>1. i \in own /\ List_GetNextState(r, i) = s
        BY <3>3, <3>4
      <4>2. i \in Inputs /\ tw[r][i] = s
        BY <1>7, <2>3, <4>1
      <4> QED BY <2>1, <4>1, <4>2
    <3>6. NextOnFailure(fl[r], i) = tw[fl[r]][i]
      <4>1. PICK x : x = fl[r]
        OBVIOUS
      <4>2. x \in P /\ NfaPass(P, LastState, tr, tw, str, fail, queue) /\ Laid(LastState, tr)
        BY <1>1, <1>2, <1>3, <4>1
      <4>3. NextOnFailure(x, i) = tw[x][i]
        BY <1>2, <3>5, <4>2, ChainFound
      <4> QED BY <4>1, <4>3
    <3> QED BY <3>4, <3>5, <3>6
  <2> QED BY <2>4, <2>5
<1>13. /\ DOMAIN fl = 0..n /\ DOMAIN ml = 0..Top /\ \A s \in Waiting(ch) : s \in 0..n /\ s \in 0..Top
  <2>1. \A s \in 0..n : s \in 0..Top
    BY <1>1, <1>3, SMTT(10) DEF Laid
  <2> QED BY <1>1, <1>3, <1>4, <2>1 DEF Bears
<1>14. ASSUME NEW s \in Waiting(ch)
       PROVE  Child(str, tw, fl, ml, r, s, fl2, ml2)
  <2>1. PICK i : i = on[s]
    OBVIOUS
  <2>2. i \in Inputs /\ str[s] = Append(str[r], i) /\ NextOnFailure(fl[r], i) = tw[fl[r]][i]
    BY <1>12, <2>1
  <2>3. fl2[s] = NextOnFailure(fl[r], i)
    BY <1>10, <1>12, <1>13, <2>1
  <2>4. ml2[s] = MergeMatchList(ml[s], ml[NextOnFailure(fl[r], i)])
    BY <1>10, <1>12, <1>13, <2>1
  <2> QED BY <2>2, <2>3, <2>4 DEF Child
<1>15. /\ fl2 = [s \in 0..n |-> fl2[s]] /\ ml2 = [s \in 0..Top |-> ml2[s]]
       /\ \A s \in 0..n : s \notin Waiting(ch) => fl2[s] = fl[s]
       /\ \A s \in 0..Top : s \notin Waiting(ch) => ml2[s] = ml[s]
  BY <1>10, <1>12, <1>13
<1>16. Given(Top, n, str, tw, fl, ml, r, ch, fl2, ml2)
  BY <1>14, <1>15 DEF Given
<1> QED BY <1>1, <1>2, <1>4, <1>11, <1>16

\* The children get the failure states that they should have, and these have been
\* queued before the children are.
LEMMA NfaFailures ==
  ASSUME NEW P, NEW n, NEW tw, NEW st, NEW fl, NEW qu, Pass(P, n, n, tw, st, fl, qu), qu # <<>>,
         NEW r, r = qu[1], NEW ch, Bears(n, tw, st, r, ch), NEW top, NEW ml, NEW fl2, NEW ml2,
         Given(top, n, st, tw, fl, ml, r, ch, fl2, ml2)
  PROVE  Refails(n, n, st, fl, ch, fl2) /\ \A s \in Waiting(ch) : fl2[s] \in P \cup Waiting(qu)
<1>1. /\ Named(n, st) /\ n \in Nat /\ fl \in [0..n -> 0..n] /\ P \in SUBSET (0..n) /\ 0 \in P
      /\ \A s, q \in 0..n, i \in Inputs :
           st[q] = Append(st[s], i) => (q \in P \cup Waiting(qu) <=> s \in P)
  BY DEF Pass
<1>2. /\ \A s, q \in 0..n : st[s] = st[q] => s = q
      /\ \A s \in 1..n : \E q \in 0..n, i \in Inputs : st[s] = Append(st[q], i)
  BY <1>1 DEF Named
<1>3. \A s \in 0..n : st[s] \in Seq(Inputs) /\ Len(st[s]) \in Nat
  BY <1>1, WordsClosed
<1>4. r \in 0..n /\ \A q \in Waiting(qu) : Len(st[r]) <= Len(st[q])
  BY HeadOfQueue
<1>5. \A s \in Waiting(ch) : s \in 0..n
  BY DEF Bears
<1>6. ASSUME NEW s \in Waiting(ch)
      PROVE  /\ fl2[s] \in 0..n /\ LongestProper(st[fl2[s]], st[s], WordSet(n, st))
             /\ fl2[s] \in P \cup Waiting(qu)
  <2>1. PICK i \in Inputs : st[s] = Append(st[r], i) /\ fl2[s] = tw[fl[r]][i]
    BY DEF Given, Child
  <2>2. PICK f : f = fl2[s]
    OBVIOUS
  <2>3. f \in 0..n /\ LongestProper(st[f], st[s], WordSet(n, st))
    <3>1. /\ tw[fl[r]][i] \in 0..n
          /\ LongestProper(st[tw[fl[r]][i]], Append(st[r], i), WordSet(n, st))
      BY SuffixRow
    <3> QED BY <2>1, <2>2, <3>1
  <2>4. f \in P \cup Waiting(qu)
    <3>1. CASE f = 0
      BY <1>1, <3>1
    <3>2. CASE f # 0
      <4>1. f \in 1..n
        BY <1>1, <2>3, <3>2, SMTT(10)
      <4>2. PICK q \in 0..n, j \in Inputs : st[f] = Append(st[q], j)
        BY <1>2, <4>1
      <4>3. Len(st[f]) < Len(st[s])
        BY <1>3, <1>5, <2>3, ProperShorter
      <4>4. Len(st[f]) = Len(st[q]) + 1 /\ Len(st[s]) = Len(st[r]) + 1
        BY <1>3, <1>4, <2>1, <4>2, AppendWord
      <4>5. Len(st[q]) < Len(st[r])
        <5>1. Len(st[q]) \in Nat /\ Len(st[r]) \in Nat
          BY <1>3, <1>4
        <5> QED BY <4>3, <4>4, <5>1, SMTT(10)
      <4>6. q \in P
        <5>1. ASSUME q \notin P
              PROVE  FALSE
          <6>1. PICK x \in Waiting(qu) : Len(st[x]) <= Len(st[q])
            BY <5>1, Frontier
          <6>2. x \in 0..n
            <7>1. InLayers(n, st, qu)
              BY DEF Pass
            <7> QED BY <7>1, WaitingStates
          <6>3. Len(st[r]) <= Len(st[x]) /\ Len(st[x]) \in Nat /\ Len(st[q]) \in Nat /\ Len(st[r]) \in Nat
            BY <1>3, <1>4, <6>2
          <6> QED BY <4>5, <6>1, <6>3, SMTT(10)
        <5> QED BY <5>1
      <4> QED BY <1>1, <2>3, <4>2, <4>6
    <3> QED BY <3>1, <3>2
  <2> QED BY <2>2, <2>3, <2>4
<1>7. /\ fl2 = [s \in 0..n |-> fl2[s]] /\ \A s \in 0..n : s \notin Waiting(ch) => fl2[s] = fl[s]
  BY DEF Given
<1>8. fl2 \in [0..n -> 0..n]
  <2>1. \A s \in 0..n : fl2[s] \in 0..n
    BY <1>1, <1>6, <1>7
  <2> QED BY <1>7, <2>1
<1> QED BY <1>6, <1>7, <1>8 DEF Refails

\* A merged list is a list.
LEMMA MergedList ==
  ASSUME NEW l \in Seq(Entry), NEW k \in Seq(Entry), NEW x, x = MergeMatchList(l, k)
  PROVE  x \in Seq(Entry)
<1>1. PICK r : r = Reverse(k)
  OBVIOUS
<1>2. r \in Seq(Entry)
  BY <1>1, ReversedList
<1> QED BY <1>1, <1>2, ConcatProperties DEF MergeMatchList

\* The lists of the children are merged.
LEMMA NfaLists ==
  ASSUME NEW ps \in Seq(Entry), NEW P, NEW n, NEW tw, NEW st, NEW fl, NEW qu,
         Pass(P, n, n, tw, st, fl, qu), qu # <<>>, NEW r, r = qu[1],
         NEW ch, Bears(n, tw, st, r, ch), NEW fl2, NEW qu2, Requeues(P, n, st, qu, r, ch, qu2),
         NEW top \in Nat, n <= top, \A j \in 1..Len(ps) : ps[j].patrn \in WordSet(n, st),
         NEW ml, Lists(ps, top, n, st, ml, P \cup Waiting(qu)), NEW ml2,
         Given(top, n, st, tw, fl, ml, r, ch, fl2, ml2),
         Refails(n, n, st, fl, ch, fl2), \A s \in Waiting(ch) : fl2[s] \in P \cup Waiting(qu),
         NEW P2, P2 = P \cup {r}
  PROVE  Lists(ps, top, n, st, ml2, P2 \cup Waiting(qu2))
<1>1. Named(n, st) /\ n \in Nat /\ P \in SUBSET (0..n) /\ InLayers(n, st, qu)
  BY DEF Pass, Named
<1>2. PICK W, S, S2 : W = WordSet(n, st) /\ S = P \cup Waiting(qu) /\ S2 = P2 \cup Waiting(qu2)
  OBVIOUS
<1>3. /\ W \in SUBSET Seq(Inputs) /\ (\A s \in 0..n : st[s] \in Seq(Inputs))
      /\ \A j \in 1..Len(ps) : ps[j].patrn \in W
  BY <1>1, <1>2, WordsClosed
<1>4. /\ ml \in [0..top -> Seq(Entry)] /\ S \in SUBSET (0..n)
      /\ \A s \in 0..n : s \notin S => Holds(ps, ml[s], Len(ps), st[s])
      /\ Filled(ps) => \A s \in S : Gathers(ps, ml[s], st[s])
  BY <1>2 DEF Lists
<1>5. \A s \in 0..n : s \in 0..top
  BY <1>1, SMTT(10)
<1>6. /\ ml2 = [s \in 0..top |-> ml2[s]]
      /\ \A s \in 0..top : s \notin Waiting(ch) => ml2[s] = ml[s]
      /\ \A s \in Waiting(ch) : ml2[s] = MergeMatchList(ml[s], ml[fl2[s]])
  BY DEF Given, Child
<1>7. \A s \in Waiting(ch) : /\ s \in 0..n /\ s \notin S /\ fl2[s] \in S
                             /\ LongestProper(st[fl2[s]], st[s], W)
  BY <1>2 DEF Bears, Requeues, Refails
<1>8. S2 = S \cup Waiting(ch) /\ S2 \in SUBSET (0..n)
  <2>1. r \in Waiting(qu) /\ Waiting(qu) \in SUBSET (0..n) /\ Waiting(qu2) \in SUBSET (0..n)
    <3>1. r \in Waiting(qu)
      BY HeadOfQueue
    <3>2. InLayers(n, st, qu2)
      BY DEF Requeues
    <3> QED BY <1>1, <3>1, <3>2, WaitingStates
  <2>2. \A s \in 0..n : s \in Waiting(qu2) <=> s \in Waiting(ch) \/ (s \in Waiting(qu) /\ s # r)
    BY DEF Requeues
  <2>3. Waiting(ch) \in SUBSET (0..n)
    BY <1>7
  <2> QED BY <1>1, <1>2, <2>1, <2>2, <2>3
<1>9. ASSUME NEW s \in Waiting(ch)
      PROVE  ml2[s] \in Seq(Entry) /\ (Filled(ps) => Gathers(ps, ml2[s], st[s]))
  <2>1. PICK f, u, w, l, k, x :
          f = fl2[s] /\ u = st[f] /\ w = st[s] /\ l = ml[s] /\ k = ml[f] /\ x = ml2[s]
    OBVIOUS
  <2>2. s \in 0..n /\ s \notin S /\ f \in S /\ f \in 0..n /\ LongestProper(u, w, W)
    BY <1>4, <1>7, <2>1
  <2>3. /\ w \in Seq(Inputs) /\ u \in Seq(Inputs) /\ l \in Seq(Entry) /\ k \in Seq(Entry)
        /\ Holds(ps, l, Len(ps), w) /\ x = MergeMatchList(l, k)
        /\ Filled(ps) => Gathers(ps, k, u)
    BY <1>3, <1>4, <1>5, <1>6, <2>1, <2>2
  <2>4. x \in Seq(Entry)
    BY <2>3, MergedList
  <2>5. ASSUME Filled(ps)
        PROVE  Gathers(ps, x, w)
    BY <1>3, <2>2, <2>3, <2>5, GathersMore
  <2> QED BY <2>1, <2>4, <2>5
<1>10. ml2 \in [0..top -> Seq(Entry)]
  <2>1. \A s \in 0..top : ml2[s] \in Seq(Entry)
    BY <1>4, <1>6, <1>9
  <2> QED BY <1>6, <2>1
<1>11. \A s \in 0..n : s \notin S2 => Holds(ps, ml2[s], Len(ps), st[s])
  BY <1>4, <1>5, <1>6, <1>8
<1>12. Filled(ps) => \A s \in S2 : Gathers(ps, ml2[s], st[s])
  <2> SUFFICES ASSUME Filled(ps), NEW s \in S2
               PROVE  Gathers(ps, ml2[s], st[s])
    OBVIOUS
  <2>1. CASE s \in Waiting(ch)
    BY <1>9, <2>1
  <2>2. CASE s \notin Waiting(ch)
    <3>1. s \in S /\ s \in 0..top
      BY <1>4, <1>5, <1>8, <2>2
    <3> QED BY <1>4, <1>6, <2>2, <3>1
  <2> QED BY <2>1, <2>2
<1> QED BY <1>2, <1>8, <1>10, <1>11, <1>12 DEF Lists

\* What depends on the patterns and the words alone.
LEMMA Known2Kept ==
  ASSUME Known2, UNCHANGED <<patterns, numStates, str>>
  PROVE  Known2' /\ Top' = Top /\ LastState' = LastState
<1>1. Top' = Top /\ (Entered(patterns))' = Entered(patterns)
  BY TopKept
<1>2. LastState' = LastState
  BY DEF LastState
<1> QED BY <1>1, <1>2 DEF Known2

\* The patterns are words of states.
LEMMA PatternWords ==
  ASSUME Known2
  PROVE  /\ patterns \in Seq(Entry)
         /\ \A j \in 1..Len(patterns) : /\ patterns[j].patrn \in WordSet(LastState, str)
                                        /\ patterns[j].patrn \in Seq(Inputs)
<1>1. patterns \in Seq(Entry)
  BY DEF Known2, Entered
<1> SUFFICES ASSUME NEW j \in 1..Len(patterns)
             PROVE  /\ patterns[j].patrn \in WordSet(LastState, str)
                    /\ patterns[j].patrn \in Seq(Inputs)
  BY <1>1
<1>2. patterns[j].patrn \in Seq(Inputs)
  <2>1. patterns[j] \in Entry
    BY <1>1, ElementOfSeq
  <2> QED BY <2>1 DEF Entry
<1>3. PICK w, m, ps : w = patterns[j].patrn /\ m = Len(patterns) /\ ps = patterns
  OBVIOUS
<1>4. Begins(ps, m, w)
  BY <1>2, <1>3, PatternBegins
<1>5. \E s \in 0..LastState : str[s] = w
  BY <1>2, <1>3, <1>4 DEF Known2, Spells
<1> QED BY <1>2, <1>3, <1>5 DEF WordSet

\* A state of Build_NFA's queue is done.
LEMMA NfaStep ==
  ASSUME InNfa, Build_NFA
  PROVE  InNfa'
<1>1. PICK P, tr, tw : /\ tr = Renamed(LastState, trans)
                       /\ NfaPass(P, LastState, tr, tw, str, fail, queue)
                       /\ Lists(patterns, Top, LastState, str, matchList, P \cup Waiting(queue))
  BY DEF InNfa
<1>2. PICK n, top, ps, st, fl, qu, ml, r, ch, P2, fl2, qu2, ml2 :
        /\ n = LastState /\ top = Top /\ ps = patterns /\ st = str /\ fl = fail /\ qu = queue
        /\ ml = matchList /\ r = queue[1] /\ ch = Children(tw, r) /\ P2 = P \cup {r}
        /\ fl2 = fail' /\ qu2 = queue' /\ ml2 = matchList'
  OBVIOUS
<1>3. Known2 /\ Laid(LastState, tr)
  BY <1>1 DEF InNfa, Known2, Laid
<1>4. UNCHANGED <<patterns, numStates, str, trans>>
  BY DEF Build_NFA, setup
<1>5. ml \in [0..top -> Seq(Entry)]
  BY <1>1, <1>2 DEF Lists
<1>6. /\ qu2 = Tail(qu) \o ch /\ Bears(n, tw, st, r, ch) /\ qu # <<>>
      /\ Given(top, n, st, tw, fl, ml, r, ch, fl2, ml2)
  <2>1. /\ queue' = Tail(queue) \o ch /\ Bears(LastState, tw, str, r, ch) /\ queue # <<>>
        /\ Given(Top, LastState, str, tw, fail, matchList, r, ch, fail', matchList')
    BY <1>1, <1>2, <1>3, <1>5, NfaDoes
  <2> QED BY <1>2, <2>1
<1>7. /\ Pass(P, n, n, tw, st, fl, qu) /\ tr \in [0..n -> [Inputs -> Int]]
      /\ \A s \in 0..n : TrieRow(n, tr, st, s)
      /\ \A s \in 0..n : s \notin P => tw[s] = tr[s]
      /\ \A s \in P : fl[s] \in P
  BY <1>1, <1>2 DEF NfaPass
<1>8. Refails(n, n, st, fl, ch, fl2) /\ \A s \in Waiting(ch) : fl2[s] \in P \cup Waiting(qu)
  BY <1>2, <1>6, <1>7, NfaFailures
<1>9. Requeues(P, n, st, qu, r, ch, qu2)
  BY <1>2, <1>6, <1>7, QueueMoves
<1>10. PICK tw2 : tw2 = [tw EXCEPT ![r] = [i \in Inputs |-> IF i \in Own(tw, r) THEN tw[r][i]
                                                           ELSE tw[fl[r]][i]]]
  OBVIOUS
<1>11. Pass(P2, n, n, tw2, st, fl2, qu2)
  <2>1. NewRow(tw, fl, r, tw2)
    BY <1>10 DEF NewRow
  <2> QED BY <1>2, <1>6, <1>7, <1>8, <1>9, <2>1, PassStep
<1>12. /\ r \in 0..n /\ r \notin P /\ fl[r] \in P /\ P \in SUBSET (0..n)
       /\ DOMAIN tw = 0..n
  <2>1. r \in 0..n /\ r \notin P /\ fl[r] \in P
    BY <1>2, <1>6, <1>7, HeadOfQueue
  <2> QED BY <1>7, <2>1 DEF Pass
<1>13. \A s \in P2 : fl2[s] \in P2
  <2>1. \A s \in Waiting(ch) : s \notin P /\ s \notin Waiting(qu)
    BY <1>9 DEF Requeues
  <2>2. r \in Waiting(qu)
    BY <1>2, <1>6, <1>7, HeadOfQueue
  <2>3. \A s \in 0..n : s \notin Waiting(ch) => fl2[s] = fl[s]
    BY <1>8 DEF Refails
  <2> QED BY <1>2, <1>7, <1>12, <2>1, <2>2, <2>3
<1>14. \A s \in 0..n : s \notin P2 => tw2[s] = tr[s]
  BY <1>2, <1>7, <1>10, <1>12
<1>15. NfaPass(P2, n, tr, tw2, st, fl2, qu2)
  BY <1>7, <1>11, <1>13, <1>14 DEF NfaPass
<1>16. Lists(ps, top, n, st, ml2, P2 \cup Waiting(qu2))
  <2>1. /\ ps \in Seq(Entry) /\ \A j \in 1..Len(ps) : ps[j].patrn \in WordSet(n, st)
    BY <1>2, <1>3, PatternWords
  <2>2. top \in Nat /\ n <= top /\ Lists(ps, top, n, st, ml, P \cup Waiting(qu))
    BY <1>1, <1>2, <1>3 DEF Known2
  <2>3. Pass(P, n, n, tw, st, fl, qu) /\ qu # <<>> /\ r = qu[1] /\ P2 = P \cup {r}
    BY <1>2, <1>6, <1>7
  <2>4. Bears(n, tw, st, r, ch) /\ Requeues(P, n, st, qu, r, ch, qu2) /\ Given(top, n, st, tw, fl, ml, r, ch, fl2, ml2)
    BY <1>6, <1>9
  <2>5. Refails(n, n, st, fl, ch, fl2) /\ \A s \in Waiting(ch) : fl2[s] \in P \cup Waiting(qu)
    BY <1>8
  <2> QED BY <2>1, <2>2, <2>3, <2>4, <2>5, NfaLists
<1>17. Known2' /\ Top' = top /\ LastState' = n /\ patterns' = ps /\ str' = st /\ trans' = trans
  BY <1>2, <1>3, <1>4, Known2Kept
<1>18. Table(Top, trans)' /\ tr = Renamed(LastState, trans)'
  <2>1. Table(top, trans)
    BY <1>2 DEF InNfa
  <2>2. Table(top, trans')
    BY <1>17, <2>1
  <2> QED BY <1>1, <1>2, <1>17, <2>2
<1> QED BY <1>2, <1>15, <1>16, <1>17, <1>18 DEF InNfa

\* The states the two passes start from are the children of the root.
LEMMA DepthOne ==
  ASSUME NEW n, NEW tr, Laid(n, tr), NEW st, Named(n, st), TrieRow(n, tr, st, 0)
  PROVE  Depth1 = Children(tr, 0)
<1>1. n \in Nat /\ 0 \in 0..n
  BY SMTT(10) DEF Laid
<1>2. ASSUME NEW i \in Inputs
      PROVE  /\ List_GetNextState2(0, i) # 0 <=> tr[0][i] # -1
             /\ tr[0][i] # -1 => List_GetNextState2(0, i) = tr[0][i]
  <2>1. Reads(tr, 0, i)
    BY <1>1, StateOfList
  <2>2. tr[0][i] # -1 => tr[0][i] # 0
    <3>1. tr[0][i] = -1 \/ tr[0][i] \in 1..n
      BY DEF TrieRow
    <3> QED BY <1>1, <3>1, SMTT(10)
  <2> QED BY <2>1, <2>2 DEF Reads, List_GetNextState2
<1> DEFINE own == { i \in Inputs : List_GetNextState2(0, i) # 0 }
<1>3. Depth1 = [j \in 1..Cardinality(own) |-> List_GetNextState2(0, Ascending(own)[j])]
  BY Zenon DEF Depth1
<1>4. own = Own(tr, 0) /\ own \in SUBSET Inputs /\ \A i \in own : List_GetNextState2(0, i) = tr[0][i]
  BY <1>2 DEF Own
<1> HIDE DEF own
<1>5. Ascending(own) \in [1..Cardinality(own) -> own]
  BY <1>4, AscendingCounts
<1>6. \A j \in 1..Cardinality(own) :
        List_GetNextState2(0, Ascending(own)[j]) = tr[0][Ascending(own)[j]]
  BY <1>4, <1>5
<1> QED BY <1>3, <1>4, <1>5, <1>6 DEF Children

\* The children of the root and the root have lists as they should be.
LEMMA RootLists ==
  ASSUME NEW ps \in Seq(Entry), NEW top, NEW n, NEW st, Named(n, st), NEW tr, TrieRow(n, tr, st, 0),
         NEW ml, Listed(ps, top, Len(ps), n, st, ml), NEW ch, ch = Children(tr, 0)
  PROVE  Lists(ps, top, n, st, ml, {0} \cup Waiting(ch))
<1>1. /\ st[0] = <<>> /\ 0 \in 0..n /\ n \in Nat /\ \A s \in 0..n : st[s] \in Seq(Inputs)
  BY WordsClosed DEF Named
<1>2. Bears(n, tr, st, 0, ch)
  BY <1>1, ChildrenAre
<1>3. \A s \in {0} \cup Waiting(ch) : s \in 0..n /\ Len(st[s]) <= 1
  <2>1. Len(st[0]) = 0
    BY <1>1, EmptySeq
  <2>2. \A s \in Waiting(ch) : s \in 0..n /\ Len(st[s]) = Len(st[0]) + 1
    BY <1>2 DEF Bears
  <2>3. 0 <= 1 /\ 0 + 1 <= 1
    BY SMTT(10)
  <2> QED BY <1>1, <2>1, <2>2, <2>3
<1>4. ASSUME Filled(ps), NEW s \in {0} \cup Waiting(ch)
      PROVE  Gathers(ps, ml[s], st[s])
  <2>1. PICK l, w : l = ml[s] /\ w = st[s]
    OBVIOUS
  <2>2. w \in Seq(Inputs) /\ Len(w) <= 1 /\ Holds(ps, l, Len(ps), w)
    BY <1>1, <1>3, <2>1 DEF Listed
  <2>3. Gathers(ps, l, w)
    BY <1>4, <2>2, ShortGathers
  <2> QED BY <2>1, <2>3
<1> QED BY <1>3, <1>4 DEF Lists, Listed

\* Build_NFA begins.
LEMMA NfaBegins ==
  ASSUME NEW m, TrieOf2(m), TrieDone, fsa # FSA_TRIE
  PROVE  InNfa'
<1>1. PICK n, top, ps, st, ml, tr, rt, fl, qu :
        /\ n = numStates /\ top = Top /\ ps = patterns /\ st = str /\ ml = matchList
        /\ tr = Renamed(n, trans) /\ rt = Renamed(top, trans) /\ fl = fail' /\ qu = queue'
  OBVIOUS
<1>2. /\ ps \in Seq(Entry) /\ Entered(ps) /\ top < FAIL /\ Table(top, trans)
      /\ Trie(n, top, rt, st) /\ Spells(ps, m, n, st) /\ Listed(ps, top, m, n, st, ml)
      /\ Table(Top, trans) /\ Entered(patterns)
  BY <1>1 DEF TrieOf2, Entered
<1>3. m = Len(ps)
  <2>1. /\ m \in 0..Len(ps) /\ todo \in Seq(Entry) /\ Len(todo) = Len(ps) - m /\ todo = <<>>
    BY <1>1 DEF TrieOf2, TrieDone
  <2>2. Len(todo) = 0 /\ Len(ps) \in Nat
    BY <1>2, <2>1, EmptySeq, LenProperties
  <2> QED BY <2>1, <2>2, SMTT(10)
<1>4. /\ patterns' = ps /\ str' = st /\ trans' = trans /\ matchList' = ml /\ numStates' = n + 1
      /\ fl = [s \in 0..n |-> 0] /\ qu = Depth1
  BY <1>1 DEF TrieDone, setup
<1>5. /\ Named(n, st) /\ n \in Nat /\ top \in Nat /\ n <= top
      /\ rt \in [0..top -> [Inputs -> Int]] /\ \A s \in 0..n : TrieRow(n, rt, st, s)
  BY <1>2 DEF Trie, Named
<1>6. Laid(n, tr)
  BY <1>1, <1>2, <1>5 DEF Laid
<1>7. tr \in [0..n -> [Inputs -> Int]] /\ \A s \in 0..n, i \in Inputs : tr[s][i] = rt[s][i]
  <2>1. PICK tt : tt = trans /\ Table(top, tt)
    BY <1>2
  <2>2. /\ Renamed(n, tt) \in [0..n -> [Inputs -> Int]]
        /\ \A s \in 0..n, i \in Inputs : Renamed(n, tt)[s][i] = Renamed(top, tt)[s][i]
    BY <1>5, <2>1, Restricted
  <2> QED BY <1>1, <2>1, <2>2
<1>8. \A s \in 0..n : TrieRow(n, tr, st, s)
  <2>1. ASSUME NEW s \in 0..n, NEW i \in Inputs
        PROVE  \/ tr[s][i] = -1 /\ \A q \in 0..n : st[q] # Append(st[s], i)
               \/ tr[s][i] \in 1..n /\ st[tr[s][i]] = Append(st[s], i)
    <3>1. tr[s][i] = rt[s][i]
      BY <1>7
    <3>2. \/ rt[s][i] = -1 /\ \A q \in 0..n : st[q] # Append(st[s], i)
          \/ rt[s][i] \in 1..n /\ st[rt[s][i]] = Append(st[s], i)
      BY <1>5 DEF TrieRow
    <3> QED BY <3>1, <3>2
  <2> QED BY <2>1 DEF TrieRow
<1>9. Trie(n, n, tr, st)
  <2>1. n <= n /\ \A s \in (n + 1)..n : FALSE
    BY <1>5, SMTT(10)
  <2> QED BY <1>5, <1>7, <1>8, <2>1 DEF Trie
<1>10. 0 \in 0..n
  BY <1>5, SMTT(10)
<1>11. qu = Children(tr, 0)
  BY <1>4, <1>5, <1>6, <1>8, <1>10, DepthOne
<1>12. PICK tw : tw = [tr EXCEPT ![0] = [i \in Inputs |-> IF tr[0][i] = -1 THEN 0 ELSE tr[0][i]]]
  OBVIOUS
<1>13. Pass({0}, n, n, tw, st, fl, qu)
  BY <1>4, <1>9, <1>11, <1>12, RootPass
<1>14. NfaPass({0}, n, tr, tw, st, fl, qu)
  <2>1. \A s \in 0..n : s \notin {0} => tw[s] = tr[s]
    BY <1>7, <1>12
  <2>2. \A s \in {0} : fl[s] \in {0}
    BY <1>4, <1>10
  <2> QED BY <1>7, <1>8, <1>13, <2>1, <2>2 DEF NfaPass
<1>15. Lists(ps, top, n, st, ml, {0} \cup Waiting(qu))
  BY <1>2, <1>3, <1>5, <1>8, <1>10, <1>11, RootLists
<1>16. Top' = top /\ LastState' = n /\ Entered(patterns')
  <2>1. (n + 1) - 1 = n
    BY <1>5, SMTT(10)
  <2>2. Top' = Top
    BY <1>1, <1>4, TopKept
  <2> QED BY <1>1, <1>2, <1>4, <2>1, <2>2 DEF LastState
<1>17. Known2'
  <2>1. n + 1 \in Nat
    BY <1>5, SMTT(10)
  <2> QED BY <1>2, <1>3, <1>4, <1>5, <1>16, <2>1 DEF Known2
<1>18. Table(Top, trans)' /\ tr = Renamed(LastState, trans)'
  <2>1. Table(top, trans')
    BY <1>2, <1>4
  <2> QED BY <1>1, <1>4, <1>16, <2>1
<1>19. fl = fail' /\ qu = queue'
  BY <1>1
<1> QED BY <1>4, <1>14, <1>15, <1>16, <1>17, <1>18, <1>19 DEF InNfa

\* The failure states are those of the longest proper suffixes.
FailsRight(n, st, fl) ==
  /\ fl \in [0..n -> 0..n]
  /\ \A s \in 1..n : LongestProper(st[fl[s]], st[s], WordSet(n, st))

\* The match lists are merged.
Supplied == Known2 /\ Lists(patterns, Top, LastState, str, matchList, 0..LastState)

\* Build_NFA is done.
NfaBuilt == Supplied /\ FailsRight(LastState, str, fail)

\* When the queue is empty, every state is done.
LEMMA AllDone ==
  ASSUME NEW P, NEW n, NEW top, NEW tr, NEW st, NEW fl, NEW qu, Pass(P, n, top, tr, st, fl, qu), qu = <<>>
  PROVE  P = 0..n /\ Waiting(qu) = {}
<1>1. InLayers(n, st, qu) /\ P \in SUBSET (0..n)
  BY DEF Pass
<1>2. Waiting(qu) = {}
  BY <1>1, WaitingStates
<1>3. \A s \in 0..n : s \in P
  BY <1>2, Frontier
<1> QED BY <1>1, <1>2, <1>3

\* Build_NFA ends.
LEMMA NfaEnds ==
  ASSUME InNfa, NfaDone
  PROVE  NfaBuilt'
<1>1. PICK P, tw : /\ NfaPass(P, LastState, Renamed(LastState, trans), tw, str, fail, queue)
                   /\ Lists(patterns, Top, LastState, str, matchList, P \cup Waiting(queue))
  BY DEF InNfa
<1>2. PICK n, fl, st, qu : n = LastState /\ fl = fail /\ st = str /\ qu = queue
  OBVIOUS
<1>3. Pass(P, n, n, tw, st, fl, qu) /\ qu = <<>>
  BY <1>1, <1>2 DEF NfaPass, NfaDone
<1>4. P = 0..n /\ Waiting(qu) = {}
  BY <1>3, AllDone
<1>5. Automated(n, tw, st, fl)
  BY <1>3, PassEnds
<1>6. FailsRight(n, st, fl)
  BY <1>3, <1>5 DEF FailsRight, Automated, Pass
<1>7. UNCHANGED <<patterns, numStates, str, matchList, fail>>
  BY DEF NfaDone, setup
<1>8. Known2' /\ Top' = Top /\ LastState' = LastState
  BY <1>7, Known2Kept DEF InNfa
<1>9. Lists(patterns, Top, LastState, str, matchList, 0..LastState)
  BY <1>1, <1>2, <1>4
<1> QED BY <1>2, <1>6, <1>7, <1>8, <1>9 DEF NfaBuilt, Supplied

-----------------------------------------------------------------------------
(* The automaton *)

\* The words of AcsmRef, and who they belong to.
LEMMA WordsKnown2 ==
  ASSUME Known2
  PROVE  /\ Words = WordSet(LastState, str) /\ WordSet(LastState, str) \in SUBSET Seq(Inputs)
         /\ DOMAIN patterns = 1..Len(patterns) /\ Len(patterns) \in Nat
         /\ Range(patterns) = { patterns[j] : j \in 1..Len(patterns) }
<1>1. PICK ps, n, st, m : ps = patterns /\ n = LastState /\ st = str /\ m = Len(patterns)
  OBVIOUS
<1>2. ps \in Seq(Entry) /\ m = Len(ps) /\ Spells(ps, m, n, st) /\ Named(n, st)
  BY <1>1 DEF Known2, Entered
<1>3. m \in Nat /\ DOMAIN ps = 1..m /\ \A j \in 1..m : ps[j] \in Entry /\ ps[j].patrn \in Seq(Inputs)
  <2>1. m \in Nat /\ DOMAIN ps = 1..m
    BY <1>2, LenProperties
  <2>2. \A j \in 1..m : ps[j] \in Entry
    BY <1>2, ElementOfSeq
  <2> QED BY <2>1, <2>2 DEF Entry
<1>4. Range(patterns) = { ps[j] : j \in 1..m }
  BY <1>1, <1>3 DEF Range
<1>5. ASSUME NEW w
      PROVE  w \in Words <=> Begins(ps, m, w)
  <2>1. w \in Words <=>
          w = <<>> \/ \E p \in Range(patterns) : \E k \in 1..Len(p.patrn) : w = SubSeq(p.patrn, 1, k)
    BY DEF Words, WordsOf
  <2> QED BY <1>4, <2>1 DEF Begins
<1>6. ASSUME NEW w, Begins(ps, m, w)
      PROVE  w \in Seq(Inputs)
  <2>1. CASE w = <<>>
    BY <2>1, EmptySeq
  <2>2. CASE w # <<>>
    <3>1. PICK j \in 1..m : \E k \in 1..Len(ps[j].patrn) : w = SubSeq(ps[j].patrn, 1, k)
      BY <1>6, <2>2 DEF Begins
    <3>2. PICK t, k : t = ps[j].patrn /\ k \in 1..Len(t) /\ w = SubSeq(t, 1, k)
      BY <3>1
    <3>3. t \in Seq(Inputs) /\ Len(t) \in Nat
      BY <1>3, <3>2, LenProperties
    <3>4. k \in 0..Len(t)
      BY <3>2, <3>3, SMTT(10)
    <3> QED BY <3>2, <3>3, <3>4, PrefixWords
  <2> QED BY <2>1, <2>2
<1>7. \A w : Begins(ps, m, w) <=> w \in WordSet(n, st)
  BY <1>2, <1>6 DEF Spells, WordSet
<1>8. Words = WordSet(n, st)
  BY <1>5, <1>7
<1>9. WordSet(n, st) \in SUBSET Seq(Inputs)
  BY <1>2, WordsClosed
<1> QED BY <1>1, <1>3, <1>4, <1>8, <1>9

\* The failure states are what the property asks for.
LEMMA FailuresRight ==
  ASSUME NfaBuilt
  PROVE  FailIsLongestSuffix
<1>1. PICK n, st, W : n = LastState /\ st = str /\ W = WordSet(LastState, str)
  OBVIOUS
<1>2. /\ Named(n, st) /\ n \in Nat /\ st \in [0..n -> Seq(Inputs)] /\ W \in SUBSET Seq(Inputs)
      /\ \A s, q \in 0..n : st[s] = st[q] => s = q
      /\ \A s \in 1..n : LongestProper(st[fail[s]], st[s], W)
      /\ Words = W
  <2>1. Known2 /\ FailsRight(LastState, str, fail)
    BY DEF NfaBuilt, Supplied
  <2>2. Named(n, st)
    BY <1>1, <2>1 DEF Known2
  <2> QED BY <1>1, <2>1, <2>2, WordsKnown2 DEF FailsRight, Named
<1>3. Range(str) = W
  BY <1>1, <1>2 DEF Range, WordSet
<1>4. n + 1 = Cardinality(W)
  <2>1. IsFiniteSet(0..n) /\ Cardinality(0..n) = n + 1
    <3>1. 0 \in Int /\ n \in Int /\ ~(0 > n) /\ n - 0 + 1 = n + 1
      BY <1>2, SMTT(10)
    <3> QED BY <3>1, FS_Interval
  <2>2. st \in Bijection(0..n, W)
    <3>1. st \in [0..n -> W] /\ \A w \in W : \E s \in 0..n : st[s] = w
      BY <1>1, <1>2 DEF WordSet
    <3> QED BY <1>2, <3>1 DEF Bijection, Injection, Surjection, IsInjective
  <2>3. ExistsBijection(0..n, W)
    BY <2>2 DEF ExistsBijection
  <2> QED BY <2>1, <2>3, FS_Bijection
<1>5. ASSUME NEW s \in 1..n
      PROVE  str[fail[s]] = LongestProperSuffixIn(str[s], Words)
  <2>1. PICK u, w : u = st[fail[s]] /\ w = st[s]
    OBVIOUS
  <2>2. s \in 0..n
    BY <1>2, SMTT(10)
  <2>3. w \in Seq(Inputs) /\ LongestProper(u, w, W)
    BY <1>2, <2>1, <2>2
  <2>4. u = LongestProperSuffixIn(w, W)
    BY <1>2, <2>3, LongestProperIs
  <2> QED BY <1>1, <1>2, <2>1, <2>4
<1>6. numStates = n + 1 /\ numStates - 1 = n
  <2>1. n = numStates - 1 /\ n \in Nat
    BY <1>1, <1>2 DEF LastState
  <2>2. numStates \in Int
    BY DEF NfaBuilt, Supplied, Known2
  <2> QED BY <2>1, <2>2, SMTT(10)
<1> QED BY <1>2, <1>3, <1>4, <1>5, <1>6 DEF FailIsLongestSuffix

\* IsSuffix of the library.
LEMMA SuffixIs ==
  ASSUME NEW t \in Seq(Inputs), NEW w \in Seq(Inputs)
  PROVE  IsSuffix(t, w) <=> Suf(t, w)
<1>1. Len(w) \in Nat /\ SubSeq(w, 1, Len(w)) = w
  BY PrefixWords, LenProperties
<1>2. Len(w) \in 0..Len(w) /\ Len(w) <= Len(w)
  BY <1>1, SMTT(10)
<1>3. EndsAt(t, w, Len(w)) <=> Suf(t, SubSeq(w, 1, Len(w)))
  BY <1>2, EndsAtIs
<1> QED BY <1>1, <1>2, <1>3 DEF EndsAt

\* The patterns a word ends in are as many as their places.
LEMMA EndsCounted ==
  ASSUME NEW ps, Entered(ps), NEW w
  PROVE  Cardinality(Those(ps, EndsOf(ps, w))) = Cardinality(EndsOf(ps, w))
<1>1. PICK J, E : J = EndsOf(ps, w) /\ E = Those(ps, J)
  OBVIOUS
<1>2. Len(ps) \in Nat /\ J \in SUBSET (1..Len(ps))
  BY <1>1, LenProperties DEF EndsOf, Entered
<1>3. IsFiniteSet(J)
  <2>1. 1 \in Int /\ Len(ps) \in Int
    BY <1>2, SMTT(10)
  <2>2. IsFiniteSet(1..Len(ps))
    BY <2>1, FS_Interval
  <2> QED BY <1>2, <2>2, FS_Subset
<1>4. \A j, k \in J : ps[j] = ps[k] => j = k
  <2> TAKE j, k \in J
  <2> HAVE ps[j] = ps[k]
  <2>1. j \in 1..Len(ps) /\ k \in 1..Len(ps)
    BY <1>2
  <2>2. ps[j].id = Len(ps) - j + 1 /\ ps[k].id = Len(ps) - k + 1
    BY <2>1 DEF Entered
  <2>3. Len(ps) - j + 1 = Len(ps) - k + 1
    BY <2>2
  <2> QED BY <1>2, <2>1, <2>3, SMTT(10)
<1>5. PICK f : f = [j \in J |-> ps[j]]
  OBVIOUS
<1>6. f \in Bijection(J, E)
  <2>1. f \in [J -> E] /\ \A e \in E : \E j \in J : f[j] = e
    BY <1>1, <1>5 DEF Those
  <2>2. \A j, k \in J : f[j] = f[k] => j = k
    BY <1>4, <1>5
  <2> QED BY <2>1, <2>2 DEF Bijection, Injection, Surjection, IsInjective
<1>7. ExistsBijection(J, E)
  BY <1>6 DEF ExistsBijection
<1>8. Cardinality(J) = Cardinality(E)
  BY <1>3, <1>7, FS_Bijection
<1> QED BY <1>1, <1>8

\* The merged lists are what the property asks for.
LEMMA OutputsRight ==
  ASSUME Supplied, Filled(patterns)
  PROVE  OutputsComplete
<1>1. PICK n, st, ps, W : n = LastState /\ st = str /\ ps = patterns /\ W = WordSet(LastState, str)
  OBVIOUS
<1>2. /\ Known2 /\ Entered(ps) /\ n \in Nat /\ n <= Top /\ Top \in Nat /\ Named(n, st)
      /\ Lists(ps, Top, n, st, matchList, 0..n)
  BY <1>1 DEF Supplied, Known2
<1>3. \A j \in 1..Len(ps) : ps[j].patrn \in Seq(Inputs)
  BY <1>1, <1>2, PatternWords
<1>4. Range(patterns) = { ps[j] : j \in 1..Len(ps) }
  BY <1>1, <1>2, WordsKnown2
<1>5. ASSUME NEW s \in 0..n
      PROVE  /\ Range(matchList[s]) = Ending(s)
             /\ Len(matchList[s]) = Cardinality(Ending(s))
  <2>1. PICK l, w : l = matchList[s] /\ w = st[s]
    OBVIOUS
  <2>2. s \in 0..Top
    BY <1>2, SMTT(10)
  <2>3. l \in Seq(Entry) /\ Gathers(ps, l, w) /\ w \in Seq(Inputs)
    <3>1. w \in Seq(Inputs)
      BY <1>2, <2>1, WordsClosed
    <3> QED BY <1>1, <1>2, <2>1, <2>2, <3>1 DEF Lists
  <2>4. Ending(s) = Those(ps, EndsOf(ps, w))
    <3>1. \A j \in 1..Len(ps) : IsSuffix(ps[j].patrn, w) <=> Suf(ps[j].patrn, w)
      BY <1>3, <2>3, SuffixIs
    <3>2. Ending(s) = { p \in Range(patterns) : IsSuffix(p.patrn, w) }
      BY <1>1, <2>1 DEF Ending
    <3>3. \A p : p \in Ending(s) <=> \E j \in 1..Len(ps) : p = ps[j] /\ IsSuffix(ps[j].patrn, w)
      BY <1>4, <3>2
    <3>4. \A p : p \in Those(ps, EndsOf(ps, w))
                 <=> \E j \in 1..Len(ps) : p = ps[j] /\ Suf(ps[j].patrn, w)
      BY DEF Those, EndsOf
    <3> QED BY <3>1, <3>3, <3>4
  <2>5. Range(l) = Held(l)
    <3>1. DOMAIN l = 1..Len(l)
      BY <2>3, LenProperties
    <3> QED BY <3>1 DEF Range, Held
  <2>6. Cardinality(Those(ps, EndsOf(ps, w))) = Cardinality(EndsOf(ps, w))
    BY <1>2, EndsCounted
  <2> QED BY <2>1, <2>3, <2>4, <2>5, <2>6 DEF Gathers
<1>6. n = numStates - 1
  BY <1>1 DEF LastState
<1> QED BY <1>5, <1>6 DEF OutputsComplete

-----------------------------------------------------------------------------
(* Convert_NFA_To_DFA *)

\* What List_GetNextState2 makes of a cell, and the table of the DFA.
Zero(x) == IF x = FAIL THEN 0 ELSE x
Zeroed(n, tr) == [s \in 0..n |-> [i \in Inputs |-> Zero(tr[s][i])]]

\* Failure states of the states S; the others have none yet.
Failing(n, S, fl) == [s \in 0..n |-> IF s \in S /\ s # 0 THEN fl[s] ELSE 0]

\* The pass of Convert_NFA_To_DFA: the rows of the states that are done lack what
\* leads to the root, the others are those of the trie.
DfaPass(P, n, tr, tw, st, fl, qu) ==
  /\ Pass(P, n, n, tw, st, Failing(n, P \cup Waiting(qu), fl), qu)
  /\ \A s \in 0..n, i \in Inputs : tr[s][i] \in 1..n \/ tr[s][i] = FAIL
  /\ \A s \in P, i \in Inputs : tw[s][i] = Zero(tr[s][i])
  /\ \A s \in 0..n, i \in Inputs : s \notin P => tw[s][i] = Mark(tr[s][i])

\* The children of the root fail to the root.
LEMMA RootFails ==
  ASSUME NEW n, NEW st, Named(n, st), NEW fl, FailsRight(n, st, fl),
         NEW s \in 0..n, NEW i \in Inputs, st[s] = Append(<<>>, i)
  PROVE  fl[s] = 0
<1>1. PICK W, u, w : W = WordSet(n, st) /\ u = st[fl[s]] /\ w = Append(<<>>, i)
  OBVIOUS
<1>2. PrefixClosed(W) /\ W \in SUBSET Seq(Inputs) /\ st[0] = <<>> /\ 0 \in 0..n /\ n \in Nat
  BY <1>1, WordsClosed DEF Named
<1>3. w \in Seq(Inputs) /\ w # <<>>
  BY <1>1, AppendWord, EmptySeq
<1>4. s # 0
  BY <1>1, <1>2, <1>3
<1>5. s \in 1..n /\ fl[s] \in 0..n
  BY <1>2, <1>4, SMTT(10) DEF FailsRight
<1>6. LongestProper(u, w, W)
  BY <1>1, <1>5 DEF FailsRight
<1>7. LongestProper(<<>>, w, W)
  BY <1>1, <1>2, LongestOfInput
<1>8. u = LongestProperSuffixIn(w, W)
  BY <1>2, <1>3, <1>6, LongestProperIs
<1>9. <<>> = LongestProperSuffixIn(w, W)
  BY <1>2, <1>3, <1>7, LongestProperIs
<1>10. st[fl[s]] = st[0]
  BY <1>1, <1>2, <1>8, <1>9
<1> QED BY <1>2, <1>5, <1>10 DEF Named

\* Convert_NFA_To_DFA begins with the root done.
LEMMA DfaRoot ==
  ASSUME NEW n, NEW tr, NEW top \in Nat, n \in Nat, n <= top, n < FAIL, Table(top, tr),
         NEW st, Named(n, st),
         NEW rt, rt = Renamed(n, tr), \A s \in 0..n : TrieRow(n, rt, st, s),
         NEW fl, FailsRight(n, st, fl), NEW qu, qu = Children(rt, 0)
  PROVE  \E P, tw : DfaPass(P, n, tr, tw, st, fl, qu)
<1>1. /\ rt \in [0..n -> [Inputs -> Int]] /\ 0 \in 0..n
      /\ \A s \in 0..n, i \in Inputs : tr[s][i] \in Nat /\ rt[s][i] = Mark(tr[s][i])
  <2>1. rt \in [0..n -> [Inputs -> Int]]
    BY Restricted
  <2>2. \A s \in 0..n : s \in 0..top
    BY SMTT(10)
  <2>3. 0 \in 0..n
    BY SMTT(10)
  <2> QED BY <2>1, <2>2, <2>3 DEF Table, Renamed
<1>2. Trie(n, n, rt, st)
  <2>1. n <= n /\ \A s \in (n + 1)..n : FALSE
    BY SMTT(10)
  <2> QED BY <1>1, <2>1 DEF Trie
<1>3. PICK zs, tw : /\ zs = [s \in 0..n |-> 0]
                    /\ tw = [rt EXCEPT ![0] = [i \in Inputs |-> IF rt[0][i] = -1 THEN 0 ELSE rt[0][i]]]
  OBVIOUS
<1>4. Pass({0}, n, n, tw, st, zs, qu)
  BY <1>2, <1>3, RootPass
<1>5. zs = Failing(n, {0} \cup Waiting(qu), fl)
  <2>1. Bears(n, rt, st, 0, qu) /\ st[0] = <<>>
    BY <1>1, ChildrenAre DEF Named
  <2>2. ASSUME NEW s \in 0..n, s \in Waiting(qu)
        PROVE  fl[s] = 0
    <3>1. PICK i \in Inputs : st[s] = Append(<<>>, i)
      BY <2>1, <2>2 DEF Bears
    <3> QED BY <3>1, RootFails
  <2> QED BY <1>3, <2>2 DEF Failing
<1>6. \A s \in 0..n, i \in Inputs : tr[s][i] \in 1..n \/ tr[s][i] = FAIL
  <2> TAKE s \in 0..n, i \in Inputs
  <2>1. PICK x : x = tr[s][i]
    OBVIOUS
  <2>2. x \in Nat /\ rt[s][i] = Mark(x) /\ (rt[s][i] = -1 \/ rt[s][i] \in 1..n)
    BY <1>1, <2>1 DEF TrieRow
  <2>3. (Mark(x) # -1 <=> x # FAIL) /\ (x # FAIL => Mark(x) = x)
    BY <2>2, Marks
  <2> QED BY <2>1, <2>2, <2>3
<1>7. \A i \in Inputs : tw[0][i] = Zero(tr[0][i])
  <2> TAKE i \in Inputs
  <2>1. PICK x : x = tr[0][i]
    OBVIOUS
  <2>2. x \in Nat /\ rt[0][i] = Mark(x) /\ tw[0][i] = IF rt[0][i] = -1 THEN 0 ELSE rt[0][i]
    BY <1>1, <1>3, <2>1
  <2>3. (Mark(x) # -1 <=> x # FAIL) /\ (x # FAIL => Mark(x) = x)
    BY <2>2, Marks
  <2> QED BY <2>1, <2>2, <2>3 DEF Zero
<1>8. \A s \in 0..n, i \in Inputs : s \notin {0} => tw[s][i] = Mark(tr[s][i])
  BY <1>1, <1>3
<1>9. DfaPass({0}, n, tr, tw, st, fl, qu)
  BY <1>4, <1>5, <1>6, <1>7, <1>8 DEF DfaPass
<1> QED BY <1>9

\* Row r gets what it lacks from the row of its failure state.
Completed(n, tr, fl, r, tr2) ==
  \A s \in 0..n, i \in Inputs :
    tr2[s][i] = IF s = r /\ tr[r][i] = FAIL THEN tr[fl[r]][i] ELSE tr[s][i]

\* One state of the pass is done.
LEMMA DfaStep ==
  ASSUME NEW P, NEW n, NEW tr, NEW tw, NEW st, NEW fl, NEW qu, DfaPass(P, n, tr, tw, st, fl, qu),
         FailsRight(n, st, fl), qu # <<>>, NEW r, r = qu[1], NEW ch, ch = Children(tw, r),
         NEW qu2, qu2 = Tail(qu) \o ch, NEW tr2, Completed(n, tr, fl, r, tr2)
  PROVE  \E P2, tw2 : DfaPass(P2, n, tr2, tw2, st, fl, qu2)
<1>1. PICK fx, P2, fx2 : /\ fx = Failing(n, P \cup Waiting(qu), fl) /\ P2 = P \cup {r}
                         /\ fx2 = Failing(n, P2 \cup Waiting(qu2), fl)
  OBVIOUS
<1>2. /\ Pass(P, n, n, tw, st, fx, qu)
      /\ \A s \in 0..n, i \in Inputs : tr[s][i] \in 1..n \/ tr[s][i] = FAIL
      /\ \A s \in P, i \in Inputs : tw[s][i] = Zero(tr[s][i])
      /\ \A s \in 0..n, i \in Inputs : s \notin P => tw[s][i] = Mark(tr[s][i])
  BY <1>1 DEF DfaPass
<1>3. /\ Named(n, st) /\ n \in Nat /\ P \in SUBSET (0..n) /\ fx \in [0..n -> 0..n]
      /\ tw \in [0..n -> [Inputs -> Int]] /\ InLayers(n, st, qu)
  BY <1>2 DEF Pass
<1>4. r \in 0..n /\ r \notin P /\ r # 0 /\ r \in Waiting(qu) /\ TrieRow(n, tw, st, r) /\ fx[r] \in P
  BY <1>2, HeadOfQueue
<1>5. Bears(n, tw, st, r, ch)
  BY <1>3, <1>4, ChildrenAre
<1>6. Requeues(P, n, st, qu, r, ch, qu2)
  BY <1>2, <1>5, QueueMoves
<1>7. /\ InLayers(n, st, qu2) /\ Waiting(qu2) \in SUBSET (0..n) /\ Waiting(qu) \in SUBSET (0..n)
      /\ Waiting(ch) \in SUBSET (0..n)
      /\ \A s \in 0..n : s \in Waiting(qu2) <=> s \in Waiting(ch) \/ (s \in Waiting(qu) /\ s # r)
      /\ \A s \in Waiting(ch) : s # 0
  <2>1. InLayers(n, st, qu2)
    BY <1>6 DEF Requeues
  <2>2. Waiting(qu2) \in SUBSET (0..n) /\ Waiting(qu) \in SUBSET (0..n)
    BY <1>3, <2>1, WaitingStates
  <2>3. Waiting(ch) \in SUBSET (0..n)
    BY <1>5 DEF Bears
  <2> QED BY <1>6, <2>1, <2>2, <2>3 DEF Requeues
<1>8. /\ fl \in [0..n -> 0..n] /\ \A s \in 1..n : LongestProper(st[fl[s]], st[s], WordSet(n, st))
  BY DEF FailsRight
<1>9. Refails(n, n, st, fx, ch, fx2)
  <2>1. fx2 \in [0..n -> 0..n]
    <3>1. 0 \in 0..n
      BY <1>3, SMTT(10)
    <3> QED BY <1>1, <1>8, <3>1 DEF Failing
  <2>2. \A s \in 0..n : s \notin Waiting(ch) => fx2[s] = fx[s]
    <3>1. \A s \in 0..n : s \notin Waiting(ch) => (s \in P2 \cup Waiting(qu2) <=> s \in P \cup Waiting(qu))
      BY <1>1, <1>4, <1>7
    <3> QED BY <1>1, <3>1 DEF Failing
  <2>3. ASSUME NEW s \in Waiting(ch)
        PROVE  LongestProper(st[fx2[s]], st[s], WordSet(n, st))
    <3>1. s \in 0..n /\ s # 0 /\ s \in Waiting(qu2)
      BY <1>7
    <3>2. fx2[s] = fl[s]
      BY <1>1, <3>1 DEF Failing
    <3>3. s \in 1..n
      BY <1>3, <3>1, SMTT(10)
    <3> QED BY <1>8, <3>2, <3>3
  <2> QED BY <2>1, <2>2, <2>3 DEF Refails
<1>10. PICK tw2 : tw2 = [tw EXCEPT ![r] = [i \in Inputs |-> IF i \in Own(tw, r) THEN tw[r][i]
                                                           ELSE tw[fx[r]][i]]]
  OBVIOUS
<1>11. Pass(P2, n, n, tw2, st, fx2, qu2)
  <2>1. NewRow(tw, fx, r, tw2)
    BY <1>10 DEF NewRow
  <2> QED BY <1>1, <1>2, <1>5, <1>6, <1>9, <2>1, PassStep
<1>12. fx[r] = fl[r] /\ fl[r] \in P /\ fl[r] \in 0..n /\ r \in 0..n
  BY <1>1, <1>3, <1>4 DEF Failing
<1>13. \A s \in 0..n, i \in Inputs : tr2[s][i] \in 1..n \/ tr2[s][i] = FAIL
  <2> TAKE s \in 0..n, i \in Inputs
  <2>1. tr2[s][i] = tr[fl[r]][i] \/ tr2[s][i] = tr[s][i]
    BY DEF Completed
  <2> QED BY <1>2, <1>12, <2>1
<1>14. \A s \in 0..n, i \in Inputs : s # r => tr2[s][i] = tr[s][i] /\ tw2[s][i] = tw[s][i]
  BY <1>3, <1>10 DEF Completed
<1>15. \A i \in Inputs : tw2[r][i] = Zero(tr2[r][i])
  <2> TAKE i \in Inputs
  <2>1. PICK x, y : x = tr[r][i] /\ y = tr[fl[r]][i]
    OBVIOUS
  <2>2. /\ x \in 1..n \/ x = FAIL
        /\ tw[r][i] = Mark(x) /\ tw[fl[r]][i] = Zero(y)
        /\ tr2[r][i] = IF x = FAIL THEN y ELSE x
    BY <1>2, <1>4, <1>12, <2>1 DEF Completed
  <2>3. tw2[r][i] = IF i \in Own(tw, r) THEN Mark(x) ELSE Zero(y)
    BY <1>3, <1>10, <1>12, <2>2
  <2>4. i \in Own(tw, r) <=> Mark(x) # -1
    BY <2>2 DEF Own
  <2>5. x \in Nat
    BY <1>3, <2>2, RowsAssumption, SMTT(10)
  <2>6. (Mark(x) # -1 <=> x # FAIL) /\ (x # FAIL => Mark(x) = x)
    BY <2>5, Marks
  <2>7. CASE x = FAIL
    BY <2>2, <2>3, <2>4, <2>6, <2>7
  <2>8. CASE x # FAIL
    BY <2>2, <2>3, <2>4, <2>6, <2>8 DEF Zero
  <2> QED BY <2>7, <2>8
<1>16. \A s \in P2, i \in Inputs : tw2[s][i] = Zero(tr2[s][i])
  <2> TAKE s \in P2, i \in Inputs
  <2>1. CASE s = r
    BY <1>15, <2>1
  <2>2. CASE s # r
    <3>1. s \in P /\ s \in 0..n
      BY <1>1, <1>3, <2>2
    <3> QED BY <1>2, <1>14, <2>2, <3>1
  <2> QED BY <2>1, <2>2
<1>17. \A s \in 0..n, i \in Inputs : s \notin P2 => tw2[s][i] = Mark(tr2[s][i])
  <2> TAKE s \in 0..n, i \in Inputs
  <2> HAVE s \notin P2
  <2>1. s \notin P /\ s # r
    BY <1>1
  <2> QED BY <1>2, <1>14, <2>1
<1>18. DfaPass(P2, n, tr2, tw2, st, fl, qu2)
  BY <1>1, <1>11, <1>13, <1>16, <1>17 DEF DfaPass
<1> QED BY <1>18

\* When the queue is empty the table is the automaton's.
LEMMA DfaFinal ==
  ASSUME NEW P, NEW n, NEW tr, NEW tw, NEW st, NEW fl, NEW qu, DfaPass(P, n, tr, tw, st, fl, qu),
         qu = <<>>
  PROVE  \A s \in 0..n : WholeRow(n, Zeroed(n, tr), st, s)
<1>1. PICK fx : Pass(P, n, n, tw, st, fx, qu)
  BY DEF DfaPass
<1>2. P = 0..n
  BY <1>1, AllDone
<1>3. \A s \in 0..n : WholeRow(n, tw, st, s)
  BY <1>1, PassEnds DEF Automated
<1>4. \A s \in 0..n, i \in Inputs : tw[s][i] = Zeroed(n, tr)[s][i]
  BY <1>2 DEF DfaPass, Zeroed
<1> QED BY <1>3, <1>4 DEF WholeRow

\* Convert_NFA_To_DFA is at work.
InDfa ==
  /\ NfaBuilt /\ Table(Top, trans)
  /\ \E P, tw : DfaPass(P, LastState, trans, tw, str, fail, queue)

\* The lists that the rows are packed from: those of the DFA, or of the NFA.
DfaTable(n, tr, st) ==
  /\ \A s \in 0..n, i \in Inputs : tr[s][i] \in 1..n \/ tr[s][i] = FAIL
  /\ \A s \in 0..n : WholeRow(n, Zeroed(n, tr), st, s)
NfaTable(n, tr, st) == \A s \in 0..n : TrieRow(n, Renamed(n, tr), st, s)
InRows ==
  /\ NfaBuilt /\ Table(Top, trans)
  /\ IF fsa = FSA_DFA THEN DfaTable(LastState, trans, str) ELSE NfaTable(LastState, trans, str)

\* What InNfa knows of the trie, which Build_NFA leaves as it is.
LEMMA TrieStays ==
  ASSUME InNfa
  PROVE  /\ Known2 /\ Laid(LastState, Renamed(LastState, trans)) /\ Named(LastState, str)
         /\ NfaTable(LastState, trans, str)
<1>1. PICK P, tw, n : /\ NfaPass(P, LastState, Renamed(LastState, trans), tw, str, fail, queue)
                      /\ n = LastState
  BY DEF InNfa
<1>2. /\ Named(n, str)
      /\ \A s \in 0..n : TrieRow(n, Renamed(n, trans), str, s)
  BY <1>1 DEF NfaPass, Pass
<1> QED BY <1>1, <1>2 DEF InNfa, Known2, Laid, NfaTable

\* Build_NFA ends and Convert_NFA_To_DFA begins, or the trie goes to the rows.
LEMMA NfaGoesOn ==
  ASSUME InNfa, NfaDone
  PROVE  /\ fsa = FSA_DFA => InDfa'
         /\ fsa # FSA_DFA => InRows'
<1>1. PICK n, top, tr, rt, st, fl, qu :
        /\ n = LastState /\ top = Top /\ tr = trans /\ rt = Renamed(n, tr) /\ st = str
        /\ fl = fail /\ qu = queue'
  OBVIOUS
<1>2. NfaBuilt'
  BY NfaEnds
<1>3. UNCHANGED <<fsa, patterns, numStates, str, fail, trans>>
  BY DEF NfaDone, setup
<1>4. /\ Known2 /\ Laid(n, rt) /\ Named(n, st) /\ Table(top, tr)
      /\ \A s \in 0..n : TrieRow(n, rt, st, s)
      /\ n \in Nat /\ top \in Nat /\ n <= top /\ top < FAIL
  <2>1. Known2 /\ Laid(n, rt) /\ Named(n, st) /\ NfaTable(n, tr, st)
    BY <1>1, TrieStays
  <2> QED BY <1>1, <2>1 DEF Known2, NfaTable, InNfa
<1>5. Top' = top /\ LastState' = n
  BY <1>1, <1>3, <1>4, Known2Kept
<1>6. Table(Top, trans)'
  BY <1>1, <1>3, <1>4, <1>5
<1>7. FailsRight(n, st, fl)
  <2>1. FailsRight(LastState', str', fail')
    BY <1>2 DEF NfaBuilt
  <2> QED BY <1>1, <1>3, <1>5, <2>1
<1>8. ASSUME fsa = FSA_DFA
      PROVE  InDfa'
  <2>1. qu = Depth1
    BY <1>1, <1>8 DEF NfaDone
  <2>2. 0 \in 0..n /\ n < FAIL
    BY <1>4, RowsAssumption, SMTT(10)
  <2>3. qu = Children(rt, 0)
    BY <1>4, <2>1, <2>2, DepthOne
  <2>4. \E P, tw : DfaPass(P, n, tr, tw, st, fl, qu)
    BY <1>1, <1>4, <1>7, <2>2, <2>3, DfaRoot
  <2>5. \E P, tw : DfaPass(P, LastState', trans', tw, str', fail', queue')
    BY <1>1, <1>3, <1>5, <2>4
  <2> QED BY <1>2, <1>6, <2>5 DEF InDfa
<1>9. ASSUME fsa # FSA_DFA
      PROVE  InRows'
  <2>1. NfaTable(n, tr, st)
    BY <1>1, <1>4 DEF NfaTable
  <2>2. NfaTable(LastState', trans', str')
    BY <1>1, <1>3, <1>5, <2>1
  <2>3. fsa' # FSA_DFA
    BY <1>3, <1>9
  <2> QED BY <1>2, <1>6, <2>2, <2>3 DEF InRows
<1> QED BY <1>8, <1>9

\* What Convert_NFA_To_DFA does to the state r.
LEMMA DfaDoes ==
  ASSUME NEW P, NEW tw, DfaPass(P, LastState, trans, tw, str, fail, queue), Table(Top, trans),
         LastState \in Nat, Top \in Nat, LastState <= Top, FailsRight(LastState, str, fail),
         Convert_NFA_To_DFA, NEW r, r = queue[1]
  PROVE  /\ queue' = Tail(queue) \o Children(tw, r) /\ queue # <<>>
         /\ Completed(LastState, trans, fail, r, trans') /\ Table(Top, trans')
<1>1. PICK n, top, tr, f, x : n = LastState /\ top = Top /\ tr = trans /\ f = fail[r] /\ x = tr[r]
  OBVIOUS
<1>2. /\ \E fx : Pass(P, n, n, tw, str, fx, queue)
      /\ \A s \in 0..n, i \in Inputs : tr[s][i] \in 1..n \/ tr[s][i] = FAIL
      /\ \A s \in 0..n, i \in Inputs : s \notin P => tw[s][i] = Mark(tr[s][i])
  BY <1>1 DEF DfaPass
<1>3. queue # <<>>
  BY DEF Convert_NFA_To_DFA
<1>4. r \in 0..n /\ r \notin P /\ r # 0
  BY <1>2, <1>3, HeadOfQueue
<1>5. f \in 0..n
  BY <1>1, <1>4 DEF FailsRight
<1>6. /\ \A s \in 0..n : s \in 0..top
      /\ tr \in [0..top -> [Inputs -> Nat]] /\ 0 # FAIL /\ 0 \notin 1..n
  <2>1. \A s \in 0..n : s \in 0..top
    BY <1>1, SMTT(10)
  <2>2. 0 # FAIL /\ 0 \notin 1..n
    BY RowsAssumption, SMTT(10)
  <2> QED BY <1>1, <2>1, <2>2 DEF Table
<1>7. ASSUME NEW i \in Inputs
      PROVE  /\ List_GetNextState(r, i) = x[i]
             /\ x[i] \notin {0, FAIL} <=> x[i] # FAIL
             /\ x[i] # FAIL => tw[r][i] # -1 /\ tw[r][i] = x[i]
             /\ x[i] = FAIL => tw[r][i] = -1
             /\ tr[f][i] # FAIL => List_GetNextState(f, i) = tr[f][i] /\ tr[f][i] # 0
             /\ tr[f][i] = FAIL => List_GetNextState(f, i) \in {0, FAIL}
  <2>1. List_GetNextState(r, i) = x[i]
    BY <1>1, <1>4 DEF List_GetNextState
  <2>2. x[i] \in Nat /\ (x[i] = FAIL \/ x[i] # 0) /\ (tr[f][i] = FAIL \/ tr[f][i] # 0)
    BY <1>1, <1>2, <1>4, <1>5, <1>6
  <2>3. tw[r][i] = Mark(x[i])
    BY <1>1, <1>2, <1>4
  <2>4. (Mark(x[i]) # -1 <=> x[i] # FAIL) /\ (x[i] # FAIL => Mark(x[i]) = x[i])
    BY <2>2, Marks
  <2>5. List_GetNextState(f, i) = IF tr[f][i] = FAIL /\ f = 0 THEN 0 ELSE tr[f][i]
    BY <1>1 DEF List_GetNextState
  <2> QED BY <1>6, <2>1, <2>2, <2>3, <2>4, <2>5
<1> DEFINE own == { i \in Inputs : List_GetNextState(r, i) \notin {0, FAIL} }
<1>8. /\ queue' = Tail(queue) \o [j \in 1..Cardinality(own) |->
                                     List_GetNextState(r, Ascending(own)[j])]
      /\ trans' = [trans EXCEPT ![r] = [i \in Inputs |->
                      IF i \notin own /\ List_GetNextState(f, i) \notin {0, FAIL}
                      THEN List_GetNextState(f, i) ELSE trans[r][i]]]
  BY <1>1, Zenon DEF Convert_NFA_To_DFA
<1>9. /\ own = Own(tw, r) /\ own \in SUBSET Inputs
      /\ \A i \in own : List_GetNextState(r, i) = tw[r][i]
      /\ \A i \in Inputs : i \in own <=> x[i] # FAIL
  BY <1>7 DEF Own
<1> HIDE DEF own
<1>10. Ascending(own) \in [1..Cardinality(own) -> own]
  BY <1>9, AscendingCounts
<1>11. \A j \in 1..Cardinality(own) :
         List_GetNextState(r, Ascending(own)[j]) = tw[r][Ascending(own)[j]]
  BY <1>9, <1>10
<1>12. queue' = Tail(queue) \o Children(tw, r)
  <2>1. Children(tw, r) = [j \in 1..Cardinality(own) |-> tw[r][Ascending(own)[j]]]
    BY <1>9, <1>10 DEF Children
  <2>2. Children(tw, r) = [j \in 1..Cardinality(own) |->
                             List_GetNextState(r, Ascending(own)[j])]
    BY <1>11, <2>1
  <2> QED BY <1>8, <2>2
<1>13. PICK y : y = [i \in Inputs |-> IF x[i] = FAIL THEN tr[f][i] ELSE x[i]]
  OBVIOUS
<1>14. trans' = [tr EXCEPT ![r] = y]
  <2>1. ASSUME NEW i \in Inputs
        PROVE  y[i] = IF i \notin own /\ List_GetNextState(f, i) \notin {0, FAIL}
                      THEN List_GetNextState(f, i) ELSE trans[r][i]
    <3>1. PICK a, b, z : a = List_GetNextState(f, i) /\ b = tr[f][i] /\ z = x[i]
      OBVIOUS
    <3>2. /\ b # FAIL => a = b /\ b # 0
          /\ b = FAIL => a \in {0, FAIL}
      BY <1>7, <3>1
    <3>3. i \in own <=> z # FAIL
      BY <1>9, <3>1
    <3>4. trans[r][i] = z /\ y[i] = IF z = FAIL THEN b ELSE z
      BY <1>1, <1>13, <3>1
    <3>5. y[i] = IF i \notin own /\ a \notin {0, FAIL} THEN a ELSE z
      BY <3>2, <3>3, <3>4
    <3> QED BY <3>1, <3>4, <3>5
  <2>2. y = [i \in Inputs |-> IF i \notin own /\ List_GetNextState(f, i) \notin {0, FAIL}
                      THEN List_GetNextState(f, i) ELSE trans[r][i]]
    BY <1>13, <2>1
  <2> QED BY <1>1, <1>8, <2>2
<1>15. y \in [Inputs -> Nat]
  BY <1>1, <1>4, <1>5, <1>6, <1>13
<1>16. Table(top, trans')
  BY <1>6, <1>14, <1>15 DEF Table
<1>17. Completed(n, tr, fail, r, trans')
  BY <1>1, <1>4, <1>6, <1>13, <1>14 DEF Completed
<1> QED BY <1>1, <1>3, <1>12, <1>16, <1>17

\* A state of Convert_NFA_To_DFA's queue is done.
LEMMA DfaGoesOn ==
  ASSUME InDfa, Convert_NFA_To_DFA
  PROVE  InDfa'
<1>1. PICK P, tw, r : DfaPass(P, LastState, trans, tw, str, fail, queue) /\ r = queue[1]
  BY DEF InDfa
<1>2. /\ Known2 /\ LastState \in Nat /\ Top \in Nat /\ LastState <= Top
      /\ FailsRight(LastState, str, fail) /\ Table(Top, trans)
  BY DEF InDfa, NfaBuilt, Supplied, Known2
<1>3. /\ queue' = Tail(queue) \o Children(tw, r) /\ queue # <<>>
      /\ Completed(LastState, trans, fail, r, trans') /\ Table(Top, trans')
  BY <1>1, <1>2, DfaDoes
<1>4. UNCHANGED <<patterns, numStates, str, fail, matchList>>
  BY DEF Convert_NFA_To_DFA, setup
<1>5. Known2' /\ Top' = Top /\ LastState' = LastState
  BY <1>2, <1>4, Known2Kept
<1>6. NfaBuilt'
  BY <1>4, <1>5 DEF InDfa, NfaBuilt, Supplied
<1>7. PICK n, tr, st, fl, qu, ch, qu2, tr2 :
        /\ n = LastState /\ tr = trans /\ st = str /\ fl = fail /\ qu = queue
        /\ ch = Children(tw, r) /\ qu2 = queue' /\ tr2 = trans'
  OBVIOUS
<1>8. \E P2, tw2 : DfaPass(P2, n, tr2, tw2, st, fl, qu2)
  BY <1>1, <1>2, <1>3, <1>7, DfaStep
<1>9. \E P2, tw2 : DfaPass(P2, LastState', trans', tw2, str', fail', queue')
  BY <1>4, <1>5, <1>7, <1>8
<1>10. Table(Top', trans')
  BY <1>3, <1>5
<1> QED BY <1>6, <1>9, <1>10 DEF InDfa

\* And when all are done, the table is the automaton's.
LEMMA DfaEnds ==
  ASSUME InDfa, DfaDone, fsa = FSA_DFA
  PROVE  InRows'
<1>1. PICK P, tw, n, tr, st, fl, qu :
        /\ DfaPass(P, n, tr, tw, st, fl, qu) /\ n = LastState /\ tr = trans /\ st = str
        /\ fl = fail /\ qu = queue
  BY DEF InDfa
<1>2. qu = <<>>
  BY <1>1 DEF DfaDone
<1>3. \A s \in 0..n : WholeRow(n, Zeroed(n, tr), st, s)
  BY <1>1, <1>2, DfaFinal
<1>4. DfaTable(n, tr, st)
  BY <1>1, <1>3 DEF DfaTable, DfaPass
<1>5. UNCHANGED <<fsa, patterns, numStates, str, fail, matchList, trans>>
  BY DEF DfaDone, setup, build
<1>6. Known2' /\ Top' = Top /\ LastState' = LastState
  BY <1>5, Known2Kept DEF InDfa, NfaBuilt, Supplied
<1>7. NfaBuilt' /\ Table(Top, trans)'
  BY <1>5, <1>6 DEF InDfa, NfaBuilt, Supplied
<1>8. DfaTable(LastState', trans', str')
  BY <1>1, <1>4, <1>5, <1>6
<1> QED BY <1>5, <1>7, <1>8 DEF InRows

-----------------------------------------------------------------------------
(* The rows *)

\* What List_ConvToFull makes of the transitions of a state.
FullVectors == [Inputs -> 0..(FAIL - 1)]

\* A row, but for its flag word, that the format's packing of full can be read from.
\* Every row's second word is its flag.
FullLaid(row, full) == Ps(row, 0) = ACF_FULL /\ \A i \in Inputs : Ps(row, 2 + i) = full[i]
BandLaid(row, full, first, width) ==
  /\ Ps(row, 0) = ACF_BANDED /\ Ps(row, 2) = width /\ Ps(row, 3) = Word(first)
  /\ \A k \in 0..(width - 1) : Ps(row, 4 + k) = full[first + k]
SparseLaid(row, full, num, keys) ==
  /\ Ps(row, 0) = ACF_SPARSE /\ Ps(row, 2) = num
  /\ \A j \in 0..(num - 1) : /\ Ps(row, 3 + 2 * j) = keys[j + 1]
                             /\ Ps(row, 4 + 2 * j) = full[keys[j + 1]]
BandsLaid(row, full, num, first, last, off) ==
  /\ Ps(row, 0) = ACF_SPARSEBANDS /\ Ps(row, 2) = num /\ off[0] = 3
  /\ \A b \in 0..num : off[b] \in Nat
  /\ \A b \in 0..(num - 1) :
       /\ Ps(row, off[b]) = last[b + 1] - first[b + 1] + 1 /\ Ps(row, off[b] + 1) = first[b + 1]
       /\ off[b + 1] = off[b] + 2 + (last[b + 1] - first[b + 1] + 1)
       /\ \A k \in 0..(last[b + 1] - first[b + 1]) : Ps(row, off[b] + 2 + k) = full[first[b + 1] + k]

\* The keys are the inputs with a transition, in ascending order.
Keys(full, num, keys) ==
  /\ num \in Nat /\ keys \in [1..num -> Live(full)]
  /\ \A i \in Live(full) : \E k \in 1..num : keys[k] = i
  /\ \A k, m \in 1..num : k < m => keys[k] < keys[m]

\* The bands hold all of these inputs, one band behind the other.
Bands(full, num, first, last) ==
  /\ num \in Nat /\ first \in [1..num -> Inputs] /\ last \in [1..num -> Inputs]
  /\ \A b \in 1..num : first[b] <= last[b]
  /\ \A b, c \in 1..num : b < c => last[b] < first[c]
  /\ \A i \in Live(full) : \E b \in 1..num : first[b] <= i /\ i <= last[b]

\* An input without a transition has a 0.
LEMMA LiveInputs ==
  ASSUME NEW full \in FullVectors
  PROVE  /\ Live(full) \in SUBSET Inputs
         /\ \A i \in Inputs : /\ i \in Live(full) <=> full[i] # 0
                              /\ i \in Int /\ full[i] \in Nat /\ full[i] # FAIL
<1>1. ASSUME NEW i \in Inputs
      PROVE  i \in Int /\ full[i] \in Nat /\ full[i] # FAIL
  <2>1. full[i] \in 0..(FAIL - 1)
    BY DEF FullVectors
  <2> QED BY <2>1, SameInputs, RowsAssumption, SMTT(10)
<1> QED BY <1>1 DEF Live

\* A list of keys is scanned up to the key, a larger one, or the end.
LEMMA SparseReads ==
  ASSUME NEW full \in FullVectors, NEW num, NEW keys, Keys(full, num, keys),
         NEW row, SparseLaid(row, full, num, keys), NEW i \in Inputs, NEW d
  PROVE  SparseNext(row, i, d, d) = IF full[i] = 0 THEN d ELSE full[i]
<1>1. /\ num \in Nat /\ keys \in [1..num -> Live(full)]
      /\ \A x \in Live(full) : \E k \in 1..num : keys[k] = x
      /\ \A k, m \in 1..num : k < m => keys[k] < keys[m]
  BY DEF Keys
<1>2. /\ Ps(row, 2) = num
      /\ \A j \in 0..(num - 1) : Ps(row, 3 + 2 * j) = keys[j + 1] /\ Ps(row, 4 + 2 * j) = full[keys[j + 1]]
  BY DEF SparseLaid
<1> DEFINE Scans(f) == f = [j \in 0..Ps(row, 2) |->
             IF j = Ps(row, 2) THEN d
             ELSE IF Ps(row, 3 + 2 * j) > i THEN d
             ELSE IF Ps(row, 3 + 2 * j) = i THEN Ps(row, 4 + 2 * j)
             ELSE f[j + 1]]
           Found(j) == \E k \in (j + 1)..num : keys[k] = i
           found == [j \in 0..num |-> IF Found(j) THEN full[i] ELSE d]
<1>3. ASSUME NEW j \in 0..num, j # num
      PROVE  /\ j \in 0..(num - 1) /\ j + 1 \in 1..num /\ j + 1 \in 0..num /\ j + 1 \in (j + 1)..num
             /\ \A k \in (j + 1)..num : k = j + 1 \/ k \in ((j + 1) + 1)..num
             /\ \A k \in ((j + 1) + 1)..num : k \in (j + 1)..num /\ j + 1 < k /\ k \in 1..num
             /\ keys[j + 1] \in Int
  <2>1. j + 1 \in 1..num
    BY <1>1, <1>3, SMTT(10)
  <2>2. keys[j + 1] \in Inputs
    BY <1>1, <2>1, LiveInputs
  <2>3. keys[j + 1] \in Int
    BY <2>2, LiveInputs
  <2> QED BY <1>1, <1>3, <2>1, <2>3, SMTT(10)
<1>4. i \in Int
  BY LiveInputs
<1>5. ASSUME NEW j \in 0..num, j # num
      PROVE  found[j] = IF keys[j + 1] > i THEN d
                        ELSE IF keys[j + 1] = i THEN full[keys[j + 1]] ELSE found[j + 1]
  <2>1. PICK x : x = keys[j + 1]
    OBVIOUS
  <2>2. /\ j + 1 \in 1..num /\ j + 1 \in 0..num /\ j + 1 \in (j + 1)..num /\ x \in Int
        /\ \A k \in (j + 1)..num : k = j + 1 \/ k \in ((j + 1) + 1)..num
        /\ \A k \in ((j + 1) + 1)..num : k \in (j + 1)..num /\ j + 1 < k /\ k \in 1..num
    BY <1>3, <1>5, <2>1
  <2>3. \A k \in ((j + 1) + 1)..num : x < keys[k] /\ keys[k] \in Int
    <3> TAKE k \in ((j + 1) + 1)..num
    <3>1. k \in 1..num /\ j + 1 < k
      BY <2>2
    <3>2. x < keys[k] /\ keys[k] \in Live(full)
      BY <1>1, <2>1, <2>2, <3>1
    <3> QED BY <3>2, LiveInputs
  <2>4. CASE x > i
    <3>1. \A k \in (j + 1)..num : keys[k] # i
      <4> TAKE k \in (j + 1)..num
      <4>1. CASE k = j + 1
        BY <1>4, <2>1, <2>2, <2>4, <4>1, SMTT(10)
      <4>2. CASE k \in ((j + 1) + 1)..num
        <5>1. x < keys[k] /\ keys[k] \in Int
          BY <2>3, <4>2
        <5> QED BY <1>4, <2>2, <2>4, <5>1, SMTT(10)
      <4> QED BY <2>2, <4>1, <4>2
    <3>2. found[j] = d
      BY <3>1
    <3> QED BY <2>1, <2>4, <3>2
  <2>5. CASE x = i
    <3>1. Found(j)
      BY <2>1, <2>2, <2>5
    <3>2. found[j] = full[i] /\ ~(x > i)
      BY <1>4, <2>5, <3>1, SMTT(10)
    <3> QED BY <2>1, <2>5, <3>2
  <2>6. CASE ~(x > i) /\ x # i
    <3>1. Found(j) <=> Found(j + 1)
      BY <2>1, <2>2, <2>6
    <3>2. found[j] = found[j + 1]
      BY <2>2, <3>1
    <3> HIDE DEF found
    <3> QED BY <2>1, <2>6, <3>2
  <2> QED BY <2>4, <2>5, <2>6
<1>6. found[num] = d
  <2>1. num \in 0..num /\ \A k \in (num + 1)..num : FALSE
    BY <1>1, SMTT(10)
  <2> QED BY <2>1
<1>7. found = [j \in 0..num |-> found[j]]
  OBVIOUS
<1>8. found[0] = IF full[i] = 0 THEN d ELSE full[i]
  <2>1. 0 \in 0..num /\ (0 + 1)..num = 1..num
    BY <1>1, SMTT(10)
  <2>2. Found(0) <=> full[i] # 0
    <3>1. i \in Live(full) <=> full[i] # 0
      BY LiveInputs
    <3>2. i \in Live(full) <=> \E k \in 1..num : keys[k] = i
      BY <1>1
    <3> QED BY <2>1, <3>1, <3>2
  <2>3. found[0] = IF Found(0) THEN full[i] ELSE d
    BY <2>1
  <2> HIDE DEF found, Found
  <2> QED BY <2>2, <2>3
<1> HIDE DEF found
<1>9. ASSUME NEW f
      PROVE  Scans(f) <=> f = [j \in 0..num |->
               IF j = num THEN d
               ELSE IF keys[j + 1] > i THEN d
               ELSE IF keys[j + 1] = i THEN full[keys[j + 1]] ELSE f[j + 1]]
  <2>1. \A j \in 0..num : j # num => Ps(row, 3 + 2 * j) = keys[j + 1] /\ Ps(row, 4 + 2 * j) = full[keys[j + 1]]
    BY <1>2, <1>3
  <2> QED BY <1>2, <2>1
<1>10. Scans(found)
  <2>1. \A j \in 0..num : found[j] =
               IF j = num THEN d
               ELSE IF keys[j + 1] > i THEN d
               ELSE IF keys[j + 1] = i THEN full[keys[j + 1]] ELSE found[j + 1]
    BY <1>5, <1>6
  <2>2. found = [j \in 0..num |->
               IF j = num THEN d
               ELSE IF keys[j + 1] > i THEN d
               ELSE IF keys[j + 1] = i THEN full[keys[j + 1]] ELSE found[j + 1]]
    BY <1>7, <2>1
  <2> HIDE DEF Scans
  <2> QED BY <1>9, <2>2
<1> DEFINE scan == CHOOSE f : Scans(f)
<1>11. SparseNext(row, i, d, d) = scan[0]
  BY DEF SparseNext
<1>12. Scans(scan)
  <2> HIDE DEF Scans
  <2> QED BY <1>10
<1> HIDE DEF scan
<1>13. \A j \in 0..num : scan[j] = found[j]
  <2>1. \A j \in 0..num : scan[j] =
               IF j = num THEN d
               ELSE IF keys[j + 1] > i THEN d
               ELSE IF keys[j + 1] = i THEN full[keys[j + 1]] ELSE scan[j + 1]
    <3> HIDE DEF Scans
    <3> QED BY <1>9, <1>12
  <2> DEFINE wrong == { k \in 0..num : scan[num - k] # found[num - k] }
  <2>2. wrong = {}
    <3> SUFFICES ASSUME wrong # {}
                 PROVE  FALSE
      OBVIOUS
    <3>1. wrong \in SUBSET Nat
      BY <1>1, SMTT(10)
    <3>2. PICK k \in wrong : \A y \in wrong : k <= y
      <4> HIDE DEF wrong
      <4> QED BY <3>1, LeastNatural
    <3>3. PICK j : j = num - k
      OBVIOUS
    <3>4. k \in 0..num /\ scan[j] # found[j]
      BY <3>3
    <3>5. j \in 0..num
      BY <1>1, <3>3, <3>4, SMTT(10)
    <3>6. CASE j = num
      BY <1>6, <2>1, <3>4, <3>5, <3>6
    <3>7. CASE j # num
      <4>1. scan[j + 1] = found[j + 1]
        <5>1. k - 1 \in 0..num /\ num - (k - 1) = j + 1 /\ ~(k <= k - 1)
          BY <1>1, <3>3, <3>4, <3>5, <3>7, SMTT(10)
        <5>2. k - 1 \notin wrong
          <6> HIDE DEF wrong
          <6> QED BY <3>2, <5>1
        <5> QED BY <5>1, <5>2
      <4> QED BY <1>5, <2>1, <3>4, <3>5, <3>7, <4>1
    <3> QED BY <3>6, <3>7
  <2> TAKE j \in 0..num
  <2>3. num - j \in 0..num /\ num - (num - j) = j
    BY <1>1, SMTT(10)
  <2>4. num - j \notin wrong
    BY <2>2
  <2> QED BY <2>3, <2>4
<1>14. 0 \in 0..num
  BY <1>1, SMTT(10)
<1> QED BY <1>8, <1>11, <1>13, <1>14

\* The band of an input gives its transition, and a band behind it, or the end, a 0.
LEMMA BandsRead ==
  ASSUME NEW full \in FullVectors, NEW num, NEW first, NEW last, Bands(full, num, first, last),
         NEW row, NEW off, BandsLaid(row, full, num, first, last, off), NEW i \in Inputs
  PROVE  SparseBandsNext(row, i, 0) = full[i]
<1>1. /\ num \in Nat /\ first \in [1..num -> Inputs] /\ last \in [1..num -> Inputs]
      /\ \A b \in 1..num : first[b] <= last[b]
      /\ \A b, c \in 1..num : b < c => last[b] < first[c]
      /\ \A x \in Live(full) : \E b \in 1..num : first[b] <= x /\ x <= last[b]
  BY DEF Bands
<1>2. /\ Ps(row, 2) = num /\ off[0] = 3 /\ \A b \in 0..num : off[b] \in Nat
      /\ \A b \in 0..(num - 1) :
           /\ Ps(row, off[b]) = last[b + 1] - first[b + 1] + 1 /\ Ps(row, off[b] + 1) = first[b + 1]
           /\ off[b + 1] = off[b] + 2 + (last[b + 1] - first[b + 1] + 1)
           /\ \A k \in 0..(last[b + 1] - first[b + 1]) : Ps(row, off[b] + 2 + k) = full[first[b + 1] + k]
  BY DEF BandsLaid
<1>3. i \in Int /\ \A c \in 1..num : first[c] \in Int /\ last[c] \in Int
  BY <1>1, LiveInputs
<1> DEFINE Walks(f) == f = [b \in 0..Ps(row, 2) |->
             IF b = 0 THEN 3 ELSE f[b - 1] + 2 + Ps(row, f[b - 1])]
           at == CHOOSE f : Walks(f)
           Scans(f) == f = [b \in 0..Ps(row, 2) |->
             IF b = Ps(row, 2) THEN 0
             ELSE IF i < Ps(row, at[b] + 1) THEN 0
             ELSE IF i < Ps(row, at[b] + 1) + Ps(row, at[b])
                  THEN Ps(row, at[b] + 2 + i - Ps(row, at[b] + 1))
             ELSE f[b + 1]]
           scan == CHOOSE f : Scans(f)
<1>4. SparseBandsNext(row, i, 0) = scan[0]
  BY DEF SparseBandsNext
<1>5. ASSUME NEW b \in 0..num
      PROVE  /\ b # 0 => /\ b - 1 \in 0..num /\ b - 1 \in 0..(num - 1) /\ (b - 1) + 1 = b
             /\ b # num => /\ b \in 0..(num - 1) /\ b + 1 \in 1..num /\ b + 1 \in 0..num
                           /\ b + 1 \in (b + 1)..num
                           /\ \A k \in (b + 1)..num : k = b + 1 \/ k \in ((b + 1) + 1)..num
                           /\ \A k \in ((b + 1) + 1)..num : k \in (b + 1)..num /\ b + 1 < k /\ k \in 1..num
  BY <1>1, SMTT(10)
<1>6. Walks(at) /\ \A b \in 0..num : at[b] = off[b]
  <2>1. \A f : Walks(f) <=> f = [b \in 0..num |-> IF b = 0 THEN 3 ELSE f[b - 1] + 2 + Ps(row, f[b - 1])]
    BY <1>2
  <2>2. \A b \in 0..num : off[b] = IF b = 0 THEN 3 ELSE off[b - 1] + 2 + Ps(row, off[b - 1])
    <3> TAKE b \in 0..num
    <3>1. CASE b = 0
      BY <1>2, <3>1
    <3>2. CASE b # 0
      <4>1. b - 1 \in 0..(num - 1) /\ (b - 1) + 1 = b
        BY <1>5, <3>2
      <4> QED BY <1>2, <3>2, <4>1
    <3> QED BY <3>1, <3>2
  <2>3. PICK o : o = [b \in 0..num |-> off[b]]
    OBVIOUS
  <2>4. \A b \in 0..num : o[b] = IF b = 0 THEN 3 ELSE o[b - 1] + 2 + Ps(row, o[b - 1])
    <3> TAKE b \in 0..num
    <3>1. b # 0 => b - 1 \in 0..num
      BY <1>5
    <3> QED BY <2>2, <2>3, <3>1
  <2>5. Walks(o)
    <3>1. o = [b \in 0..num |-> IF b = 0 THEN 3 ELSE o[b - 1] + 2 + Ps(row, o[b - 1])]
      BY <2>3, <2>4
    <3> HIDE DEF Walks
    <3> QED BY <2>1, <3>1
  <2>6. Walks(at)
    <3> HIDE DEF Walks
    <3> QED BY <2>5
  <2> HIDE DEF at
  <2>7. \A b \in 0..num : at[b] = IF b = 0 THEN 3 ELSE at[b - 1] + 2 + Ps(row, at[b - 1])
    <3> HIDE DEF Walks
    <3> QED BY <2>1, <2>6
  <2> DEFINE wrong == { k \in 0..num : at[k] # off[k] }
  <2>8. wrong = {}
    <3> SUFFICES ASSUME wrong # {}
                 PROVE  FALSE
      OBVIOUS
    <3>1. wrong \in SUBSET Nat
      BY <1>1, SMTT(10)
    <3>2. PICK k \in wrong : \A y \in wrong : k <= y
      <4> HIDE DEF wrong
      <4> QED BY <3>1, LeastNatural
    <3>3. k \in 0..num /\ at[k] # off[k]
      OBVIOUS
    <3>4. k # 0
      BY <2>2, <2>7, <3>3
    <3>5. k - 1 \in 0..num /\ ~(k <= k - 1)
      BY <1>1, <3>3, <3>4, SMTT(10)
    <3>6. k - 1 \notin wrong
      <4> HIDE DEF wrong
      <4> QED BY <3>2, <3>5
    <3>7. at[k - 1] = off[k - 1]
      BY <3>5, <3>6
    <3> QED BY <2>2, <2>7, <3>3, <3>4, <3>7
  <2> HIDE DEF Walks
  <2> QED BY <2>6, <2>8
<1> HIDE DEF at
<1> DEFINE Inside(c) == first[c] <= i /\ i <= last[c]
           Found(b) == \E c \in (b + 1)..num : Inside(c)
           found == [b \in 0..num |-> IF Found(b) THEN full[i] ELSE 0]
           Next1(b, z) == IF b = num THEN 0
                          ELSE IF i < first[b + 1] THEN 0
                          ELSE IF i <= last[b + 1] THEN full[i]
                          ELSE z
<1>7. ASSUME NEW b \in 0..num, b # num
      PROVE  found[b] = Next1(b, found[b + 1])
  <2>1. PICK x, y : x = first[b + 1] /\ y = last[b + 1]
    OBVIOUS
  <2>2. /\ b + 1 \in 1..num /\ b + 1 \in 0..num /\ b + 1 \in (b + 1)..num
        /\ \A k \in (b + 1)..num : k = b + 1 \/ k \in ((b + 1) + 1)..num
        /\ \A k \in ((b + 1) + 1)..num : k \in (b + 1)..num /\ b + 1 < k /\ k \in 1..num
    BY <1>5, <1>7
  <2>3. x \in Int /\ y \in Int /\ x <= y
    BY <1>1, <1>3, <2>1, <2>2
  <2>4. \A k \in ((b + 1) + 1)..num : y < first[k] /\ first[k] \in Int
    BY <1>1, <1>3, <2>1, <2>2
  <2>5. Inside(b + 1) <=> x <= i /\ i <= y
    BY <2>1
  <2>6. CASE i < x
    <3>1. \A k \in (b + 1)..num : ~Inside(k)
      <4> TAKE k \in (b + 1)..num
      <4>1. CASE k = b + 1
        <5>1. ~(x <= i)
          BY <1>3, <2>3, <2>6, SMTT(10)
        <5> QED BY <2>5, <4>1, <5>1
      <4>2. CASE k \in ((b + 1) + 1)..num
        <5>1. ~(first[k] <= i)
          BY <1>3, <2>3, <2>4, <2>6, <4>2, SMTT(10)
        <5> QED BY <5>1
      <4> QED BY <2>2, <4>1, <4>2
    <3>2. found[b] = 0
      BY <3>1
    <3> HIDE DEF found
    <3> QED BY <1>7, <2>1, <2>6, <3>2
  <2>7. CASE ~(i < x) /\ i <= y
    <3>1. Inside(b + 1)
      BY <1>3, <2>3, <2>5, <2>7, SMTT(10)
    <3>2. Found(b)
      <4> HIDE DEF Inside
      <4> QED BY <2>2, <3>1
    <3>3. found[b] = full[i]
      <4> HIDE DEF Found
      <4> QED BY <3>2
    <3> HIDE DEF found
    <3> QED BY <1>7, <2>1, <2>7, <3>3
  <2>8. CASE ~(i < x) /\ ~(i <= y)
    <3>1. Found(b) <=> Found(b + 1)
      <4>1. ~Inside(b + 1)
        BY <2>5, <2>8
      <4> HIDE DEF Inside
      <4> QED BY <2>2, <4>1
    <3>2. found[b] = found[b + 1]
      <4> HIDE DEF Found
      <4> QED BY <2>2, <3>1
    <3> HIDE DEF found
    <3> QED BY <1>7, <2>1, <2>8, <3>2
  <2> HIDE DEF found
  <2> QED BY <2>6, <2>7, <2>8
<1>8. found[num] = 0
  <2>1. num \in 0..num /\ \A k \in (num + 1)..num : FALSE
    BY <1>1, SMTT(10)
  <2> QED BY <2>1
<1>9. found = [b \in 0..num |-> found[b]]
  OBVIOUS
<1>10. found[0] = full[i]
  <2>1. 0 \in 0..num /\ (0 + 1)..num = 1..num
    BY <1>1, SMTT(10)
  <2>2. full[i] # 0 => Found(0)
    <3>1. i \in Live(full) <=> full[i] # 0
      BY LiveInputs
    <3> QED BY <1>1, <2>1, <3>1
  <2>3. found[0] = IF Found(0) THEN full[i] ELSE 0
    BY <2>1
  <2> HIDE DEF found, Found
  <2> QED BY <2>2, <2>3
<1> HIDE DEF found
<1>11. ASSUME NEW b \in 0..num, NEW z
       PROVE  (IF b = Ps(row, 2) THEN 0
               ELSE IF i < Ps(row, at[b] + 1) THEN 0
               ELSE IF i < Ps(row, at[b] + 1) + Ps(row, at[b])
                    THEN Ps(row, at[b] + 2 + i - Ps(row, at[b] + 1))
               ELSE z) = Next1(b, z)
  <2>1. CASE b = num
    BY <1>2, <2>1
  <2>2. CASE b # num
    <3>1. PICK x, y, o : x = first[b + 1] /\ y = last[b + 1] /\ o = off[b]
      OBVIOUS
    <3>2. b \in 0..(num - 1) /\ b + 1 \in 1..num
      BY <1>5, <2>2
    <3>3. /\ x \in Int /\ y \in Int /\ o \in Nat /\ at[b] = o
          /\ Ps(row, o) = y - x + 1 /\ Ps(row, o + 1) = x
          /\ \A k \in 0..(y - x) : Ps(row, o + 2 + k) = full[x + k]
      BY <1>2, <1>3, <1>6, <3>1, <3>2
    <3>4. i < x + (y - x + 1) <=> i <= y
      BY <1>3, <3>3, SMTT(10)
    <3>5. ASSUME ~(i < x), i <= y
          PROVE  Ps(row, o + 2 + i - x) = full[i]
      <4>1. i - x \in 0..(y - x) /\ o + 2 + (i - x) = o + 2 + i - x /\ x + (i - x) = i
        BY <1>3, <3>3, <3>5, SMTT(10)
      <4> QED BY <3>3, <4>1
    <3>6. Next1(b, z) = IF i < x THEN 0 ELSE IF i <= y THEN full[i] ELSE z
      BY <2>2, <3>1
    <3> HIDE DEF Next1
    <3> QED BY <1>2, <2>2, <3>3, <3>4, <3>5, <3>6
  <2> QED BY <2>1, <2>2
<1>12. ASSUME NEW f
       PROVE  Scans(f) <=> f = [b \in 0..num |-> Next1(b, f[b + 1])]
  <2>1. \A b \in 0..num :
          (IF b = Ps(row, 2) THEN 0
               ELSE IF i < Ps(row, at[b] + 1) THEN 0
               ELSE IF i < Ps(row, at[b] + 1) + Ps(row, at[b])
                    THEN Ps(row, at[b] + 2 + i - Ps(row, at[b] + 1))
               ELSE f[b + 1]) = Next1(b, f[b + 1])
    BY <1>11
  <2> HIDE DEF Next1
  <2> QED BY <1>2, <2>1
<1>13. Scans(found)
  <2>1. \A b \in 0..num : found[b] = Next1(b, found[b + 1])
    <3> TAKE b \in 0..num
    <3>1. b = num => Next1(b, found[b + 1]) = 0
      OBVIOUS
    <3> HIDE DEF Next1
    <3> QED BY <1>7, <1>8, <3>1
  <2> HIDE DEF Scans, Next1
  <2>2. found = [b \in 0..num |-> Next1(b, found[b + 1])]
    BY <1>9, <2>1
  <2> QED BY <1>12, <2>2
<1>14. Scans(scan)
  <2> HIDE DEF Scans
  <2> QED BY <1>13
<1> HIDE DEF scan, Scans
<1>15. \A b \in 0..num : scan[b] = found[b]
  <2>1. \A b \in 0..num : scan[b] = Next1(b, scan[b + 1])
    <3> HIDE DEF Next1
    <3> QED BY <1>12, <1>14
  <2> DEFINE wrong == { k \in 0..num : scan[num - k] # found[num - k] }
  <2>2. wrong = {}
    <3> SUFFICES ASSUME wrong # {}
                 PROVE  FALSE
      OBVIOUS
    <3>1. wrong \in SUBSET Nat
      BY <1>1, SMTT(10)
    <3>2. PICK k \in wrong : \A y \in wrong : k <= y
      <4> HIDE DEF wrong
      <4> QED BY <3>1, LeastNatural
    <3>3. PICK b : b = num - k
      OBVIOUS
    <3>4. k \in 0..num /\ scan[b] # found[b]
      BY <3>3
    <3>5. b \in 0..num
      BY <1>1, <3>3, <3>4, SMTT(10)
    <3>6. CASE b = num
      <4>1. scan[b] = 0
        BY <2>1, <3>5, <3>6
      <4> QED BY <1>8, <3>4, <3>6, <4>1
    <3>7. CASE b # num
      <4>1. scan[b + 1] = found[b + 1]
        <5>1. k - 1 \in 0..num /\ num - (k - 1) = b + 1 /\ ~(k <= k - 1)
          BY <1>1, <3>3, <3>4, <3>5, <3>7, SMTT(10)
        <5>2. k - 1 \notin wrong
          <6> HIDE DEF wrong
          <6> QED BY <3>2, <5>1
        <5> QED BY <5>1, <5>2
      <4>2. found[b] = Next1(b, found[b + 1]) /\ scan[b] = Next1(b, scan[b + 1])
        <5> HIDE DEF Next1
        <5> QED BY <1>7, <2>1, <3>5, <3>7
      <4> HIDE DEF Next1
      <4> QED BY <3>4, <4>1, <4>2
    <3> QED BY <3>6, <3>7
  <2> TAKE b \in 0..num
  <2>3. num - b \in 0..num /\ num - (num - b) = b
    BY <1>1, SMTT(10)
  <2>4. num - b \notin wrong
    BY <2>2
  <2> QED BY <2>3, <2>4
<1>16. 0 \in 0..num
  BY <1>1, SMTT(10)
<1> QED BY <1>4, <1>10, <1>15, <1>16

\* The parts that a sequence is put together from lie in it one behind the other.
Offsets(num, parts, flat, off) ==
  /\ off \in [0..num -> Nat] /\ off[0] = 0
  /\ \A b \in 0..(num - 1) :
       /\ off[b + 1] = off[b] + Len(parts[b + 1])
       /\ \A k \in 1..Len(parts[b + 1]) : off[b] + k \in 1..Len(flat) /\ flat[off[b] + k] = parts[b + 1][k]

LEMMA Flattened ==
  ASSUME NEW num \in Nat, NEW parts \in [1..num -> Seq(Int)]
  PROVE  FlattenSeq(parts) \in Seq(Int) /\ \E off : Offsets(num, parts, FlattenSeq(parts), off)
<1>1. parts \in Seq(Seq(Int)) /\ Len(parts) = num /\ \A b \in 1..num : parts[b] \in Seq(Int)
  BY SMTT(10)
<1>2. CASE num = 0
  <2>1. FlattenSeq(parts) = parts /\ parts \in Seq(Int) /\ Len(parts) = 0
    <3>1. Len(parts) = 0 /\ parts = <<>>
      BY <1>1, <1>2
    <3>2. FlattenSeq(parts) = parts
      BY <3>1 DEF FlattenSeq
    <3> QED BY <3>1, <3>2
  <2>2. PICK off : off = [b \in 0..num |-> 0]
    OBVIOUS
  <2>3. off \in [0..num -> Nat] /\ off[0] = 0 /\ \A b \in 0..(num - 1) : FALSE
    BY <1>2, <2>2, SMTT(10)
  <2> QED BY <2>1, <2>3 DEF Offsets
<1>3. CASE num # 0
  <2> DEFINE Flat(f, n) == f = [i \in 1..n |-> IF i = 1 THEN parts[i] ELSE f[i - 1] \o parts[i]]
             flatten == CHOOSE f : Flat(f, Len(parts))
  <2>1. FlattenSeq(parts) = flatten[num]
    <3>1. Len(parts) # 0
      BY <1>1, <1>3
    <3>2. FlattenSeq(parts) = flatten[Len(parts)]
      BY <3>1 DEF FlattenSeq
    <3> HIDE DEF flatten
    <3> QED BY <1>1, <3>2
  <2>2. \E f : Flat(f, num)
    <3> DEFINE without == { n \in 0..num : ~ \E f : Flat(f, n) }
    <3>1. without = {}
      <4> SUFFICES ASSUME without # {}
                   PROVE  FALSE
        OBVIOUS
      <4>1. without \in SUBSET Nat
        <5> HIDE DEF Flat
        <5> QED BY SMTT(10)
      <4>2. PICK n \in without : \A y \in without : n <= y
        <5> HIDE DEF without
        <5> QED BY <4>1, LeastNatural
      <4>3. n \in 0..num /\ ~ \E f : Flat(f, n)
        <5> HIDE DEF Flat
        <5> QED OBVIOUS
      <4>4. n # 0
        <5>1. SUFFICES ASSUME n = 0 PROVE FALSE
          OBVIOUS
        <5>2. PICK f : f = [i \in 1..n |-> <<>>]
          OBVIOUS
        <5>3. \A i \in 1..n : FALSE
          BY <5>1, SMTT(10)
        <5>4. Flat(f, n)
          BY <5>2, <5>3
        <5> HIDE DEF Flat
        <5> QED BY <4>3, <5>4
      <4>5. n - 1 \in 0..num /\ ~(n <= n - 1)
        BY <4>3, <4>4, SMTT(10)
      <4>6. PICK f : Flat(f, n - 1)
        <5>1. n - 1 \notin without
          <6> HIDE DEF without
          <6> QED BY <4>2, <4>5
        <5> HIDE DEF Flat
        <5> QED BY <4>5, <5>1
      <4>7. PICK g : g = [i \in 1..n |-> IF i = n THEN (IF i = 1 THEN parts[i] ELSE f[i - 1] \o parts[i]) ELSE f[i]]
        OBVIOUS
      <4>8. \A i \in 1..n : g[i] = IF i = 1 THEN parts[i] ELSE g[i - 1] \o parts[i]
        <5> TAKE i \in 1..n
        <5>1. /\ i # 1 => i - 1 \in 1..n /\ i - 1 # n
              /\ i # n => i \in 1..(n - 1)
          BY <4>3, SMTT(10)
        <5>2. i \in 1..(n - 1) => f[i] = IF i = 1 THEN parts[i] ELSE f[i - 1] \o parts[i]
          BY <4>6
        <5>3. i # 1 => g[i - 1] = f[i - 1]
          BY <4>7, <5>1
        <5> QED BY <4>7, <5>1, <5>2, <5>3
      <4>9. g = [i \in 1..n |-> g[i]]
        BY <4>7
      <4>10. Flat(g, n)
        BY <4>8, <4>9
      <4> HIDE DEF Flat
      <4> QED BY <4>3, <4>10
    <3>2. num \in 0..num
      BY SMTT(10)
    <3> HIDE DEF Flat
    <3> QED BY <3>1, <3>2
  <2>3. Flat(flatten, num)
    <3> HIDE DEF Flat
    <3> QED BY <1>1, <2>2
  <2> HIDE DEF flatten
  <2>4. \A i \in 1..num : flatten[i] = IF i = 1 THEN parts[i] ELSE flatten[i - 1] \o parts[i]
    BY <2>3
  <2> HIDE DEF Flat
  <2> DEFINE Sofar(n) == /\ flatten[n] \in Seq(Int)
                         /\ \A b \in 1..n : Len(flatten[b]) <= Len(flatten[n])
                         /\ \A b \in 1..n : \A j \in 1..Len(flatten[b]) : flatten[n][j] = flatten[b][j]
             wrong == { n \in 1..num : ~Sofar(n) }
  <2>5. wrong = {}
    <3> SUFFICES ASSUME wrong # {}
                 PROVE  FALSE
      OBVIOUS
    <3>1. wrong \in SUBSET Nat
      BY SMTT(10)
    <3>2. PICK n \in wrong : \A y \in wrong : n <= y
      <4> HIDE DEF wrong
      <4> QED BY <3>1, LeastNatural
    <3>3. n \in 1..num /\ ~Sofar(n)
      <4> HIDE DEF Sofar
      <4> QED OBVIOUS
    <3>4. CASE n = 1
      <4>1. flatten[n] = parts[n] /\ parts[n] \in Seq(Int)
        BY <1>1, <2>4, <3>3, <3>4
      <4>2. \A b \in 1..n : b = n
        BY <3>4, SMTT(10)
      <4>3. Len(flatten[n]) <= Len(flatten[n])
        BY <4>1, SMTT(10)
      <4> QED BY <3>3, <4>1, <4>2, <4>3
    <3>5. CASE n # 1
      <4>1. PICK m : m = n - 1
        OBVIOUS
      <4>2. /\ m \in 1..num /\ ~(n <= m)
            /\ \A b \in 1..n : b = n \/ b \in 1..m
        BY <3>3, <3>5, <4>1, SMTT(10)
      <4>3. Sofar(m)
        <5>1. m \notin wrong
          <6> HIDE DEF wrong
          <6> QED BY <3>2, <4>2
        <5> HIDE DEF Sofar
        <5> QED BY <4>2, <5>1
      <4>4. flatten[n] = flatten[m] \o parts[n] /\ parts[n] \in Seq(Int)
        BY <1>1, <2>4, <3>3, <3>5, <4>1
      <4>5. PICK x, y, z : x = flatten[m] /\ y = parts[n] /\ z = flatten[n]
        OBVIOUS
      <4>6. /\ x \in Seq(Int) /\ y \in Seq(Int) /\ z \in Seq(Int) /\ Len(z) = Len(x) + Len(y)
            /\ Len(x) <= Len(z) /\ \A j \in 1..Len(x) : z[j] = x[j]
        <5>1. x \in Seq(Int) /\ y \in Seq(Int) /\ z = x \o y
          BY <4>3, <4>4, <4>5
        <5> QED BY <5>1, SMTT(10)
      <4>7. \A b \in 1..n : Len(flatten[b]) <= Len(z) /\ \A j \in 1..Len(flatten[b]) : z[j] = flatten[b][j]
        <5> TAKE b \in 1..n
        <5>1. CASE b = n
          <6>1. Len(z) <= Len(z)
            BY <4>6, SMTT(10)
          <6> QED BY <4>5, <5>1, <6>1
        <5>2. CASE b \in 1..m
          <6>1. Sofar(b)
            <7>1. b \in 1..num /\ ~(n <= b)
              <8>1. \A d \in 1..m : d \in 1..num /\ ~(n <= d)
                BY <3>3, <4>1, SMTT(10)
              <8> QED BY <5>2, <8>1
            <7>2. b \notin wrong
              <8> HIDE DEF wrong
              <8> QED BY <3>2, <7>1
            <7> HIDE DEF Sofar
            <7> QED BY <7>1, <7>2
          <6>2. PICK q : q = flatten[b]
            OBVIOUS
          <6>3. q \in Seq(Int) /\ Len(q) <= Len(x) /\ \A j \in 1..Len(q) : x[j] = q[j]
            BY <4>3, <4>5, <5>2, <6>1, <6>2
          <6>4. Len(q) <= Len(z) /\ \A j \in 1..Len(q) : j \in 1..Len(x)
            <7>1. PICK a, c, d : a = Len(q) /\ c = Len(x) /\ d = Len(z)
              OBVIOUS
            <7>2. a \in Nat /\ c \in Nat /\ d \in Nat /\ a <= c /\ c <= d
              BY <4>6, <6>3, <7>1, LenProperties
            <7>3. a <= d /\ \A j \in 1..a : j \in 1..c
              BY <7>2, SMTT(10)
            <7> QED BY <7>1, <7>3
          <6> QED BY <4>6, <6>2, <6>3, <6>4
        <5> QED BY <4>2, <5>1, <5>2
      <4> QED BY <3>3, <4>5, <4>6, <4>7
    <3> QED BY <3>4, <3>5
  <2>6. \A n \in 1..num : Sofar(n)
    <3> HIDE DEF Sofar
    <3> QED BY <2>5
  <2>7. PICK off : off = [b \in 0..num |-> IF b = 0 THEN 0 ELSE Len(flatten[b])]
    OBVIOUS
  <2>8. num \in 1..num
    BY <1>3, SMTT(10)
  <2>9. off \in [0..num -> Nat] /\ off[0] = 0
    <3>1. \A b \in 0..num : b # 0 => b \in 1..num
      BY SMTT(10)
    <3>2. \A b \in 1..num : Len(flatten[b]) \in Nat
      BY <2>6
    <3>3. 0 \in 0..num
      BY SMTT(10)
    <3> HIDE DEF Sofar
    <3> QED BY <2>7, <3>1, <3>2, <3>3
  <2>10. ASSUME NEW b \in 0..(num - 1)
         PROVE  /\ off[b + 1] = off[b] + Len(parts[b + 1])
                /\ \A k \in 1..Len(parts[b + 1]) : off[b] + k \in 1..Len(flatten[num]) /\ flatten[num][off[b] + k] = parts[b + 1][k]
    <3>1. PICK n, p, z, f : n = b + 1 /\ p = parts[n] /\ z = flatten[n] /\ f = flatten[num]
      OBVIOUS
    <3>2. /\ n \in 1..num /\ b \in 0..num /\ n # 0 /\ n \in 0..num /\ n - 1 = b
          /\ b # 0 => b \in 1..num /\ n # 1
          /\ b = 0 => n = 1
      BY <3>1, SMTT(10)
    <3>3. z \in Seq(Int) /\ f \in Seq(Int) /\ Len(z) <= Len(f) /\ \A j \in 1..Len(z) : f[j] = z[j]
      BY <2>6, <2>8, <3>1, <3>2
    <3>4. off[n] = Len(z) /\ p \in Seq(Int)
      BY <1>1, <2>7, <3>1, <3>2
    <3>5. Len(z) = off[b] + Len(p) /\ \A k \in 1..Len(p) : off[b] + k \in 1..Len(z) /\ z[off[b] + k] = p[k]
      <4>1. CASE b = 0
        <5>1. z = p /\ off[b] = 0
          BY <2>4, <2>9, <3>1, <3>2, <4>1
        <5> QED BY <3>4, <5>1, SMTT(10)
      <4>2. CASE b # 0
        <5>1. PICK x : x = flatten[b]
          OBVIOUS
        <5>2. z = x \o p
          BY <2>4, <3>1, <3>2, <4>2, <5>1
        <5>3. x \in Seq(Int) /\ off[b] = Len(x)
          BY <2>6, <2>7, <3>2, <4>2, <5>1
        <5> QED BY <3>4, <5>2, <5>3, SMTT(10)
      <4> QED BY <4>1, <4>2
    <3>6. \A k \in 1..Len(p) : off[b] + k \in 1..Len(f) /\ f[off[b] + k] = p[k]
      <4> TAKE k \in 1..Len(p)
      <4>1. off[b] + k \in 1..Len(z) /\ z[off[b] + k] = p[k]
        BY <3>5
      <4>2. off[b] + k \in 1..Len(f)
        BY <3>3, <4>1, SMTT(10)
      <4> QED BY <3>3, <4>1, <4>2
    <3> QED BY <3>1, <3>4, <3>5, <3>6
  <2>11. flatten[num] \in Seq(Int)
    BY <2>6, <2>8
  <2>12. Offsets(num, parts, flatten[num], off)
    BY <2>9, <2>10 DEF Offsets
  <2> QED BY <2>1, <2>11, <2>12
<1> QED BY <1>2, <1>3

\* acsmx2.c:1764: the flag is the second word of a row, set once the row is made.
WithFlag(row, f) == [row EXCEPT ![2] = f]

LEMMA HeaderFlag ==
  ASSUME NEW a, NEW b, NEW c, NEW f, NEW s \in Seq(Int)
  PROVE  [(<<a, b, c>> \o s) EXCEPT ![2] = f] = <<a, f, c>> \o s
<1>1. PICK t, u, x, y : t = <<a, b, c>> /\ u = <<a, f, c>> /\ x = t \o s /\ y = u \o s
  OBVIOUS
<1>2. /\ Len(t) = 3 /\ Len(u) = 3 /\ Len(s) \in Nat
      /\ t[1] = a /\ t[3] = c /\ u[1] = a /\ u[2] = f /\ u[3] = c
  BY <1>1, SMTT(10)
<1>3. /\ x = [i \in 1..(3 + Len(s)) |-> IF i <= 3 THEN t[i] ELSE s[i - 3]]
      /\ y = [i \in 1..(3 + Len(s)) |-> IF i <= 3 THEN u[i] ELSE s[i - 3]]
  BY <1>1, <1>2 DEF \o
<1>4. [x EXCEPT ![2] = f] = y
  <2>1. \A i \in 1..(3 + Len(s)) : (IF i = 2 THEN f ELSE IF i <= 3 THEN t[i] ELSE s[i - 3])
                                   = IF i <= 3 THEN u[i] ELSE s[i - 3]
    <3> TAKE i \in 1..(3 + Len(s))
    <3>1. i <= 3 => i = 1 \/ i = 2 \/ i = 3
      BY <1>2, SMTT(10)
    <3>2. i = 2 => i <= 3
      BY <1>2, SMTT(10)
    <3> QED BY <1>2, <3>1, <3>2
  <2>2. [x EXCEPT ![2] = f] = [i \in 1..(3 + Len(s)) |-> IF i = 2 THEN f ELSE IF i <= 3 THEN t[i] ELSE s[i - 3]]
    BY <1>3
  <2> QED BY <1>3, <2>1, <2>2
<1> QED BY <1>1, <1>4

\* What FullRow puts where.
LEMMA FullRowWords ==
  ASSUME NEW full \in FullVectors
  PROVE  /\ FullRow(full) \in Seq(Int)
         /\ DOMAIN FullRow(full) = 1..(AlphabetSize + 2)
         /\ FullRow(full)[1] = ACF_FULL
         /\ FullRow(full)[2] = 0
         /\ \A i \in Inputs : FullRow(full)[i + 3] = full[i]
<1> DEFINE vs == Values(full, 0, AlphabetSize - 1)
<1>1. vs = [j \in 1..AlphabetSize |-> full[j - 1]]
  BY RowsAssumption, SMTT(10) DEF Values
<1> HIDE DEF vs
<1>2. vs \in Seq(0..(FAIL - 1)) /\ Len(vs) = AlphabetSize
  BY <1>1, RowsAssumption, SMTT(10) DEF FullVectors, Inputs
<1>3. FullRow(full) = <<ACF_FULL, 0>> \o vs
  BY DEF FullRow, vs
<1>4. \A i \in Inputs : vs[i + 1] = full[i]
  BY <1>1, RowsAssumption, SMTT(10) DEF Inputs
<1> QED BY <1>2, <1>3, <1>4, RowsAssumption, SMTT(20) DEF Inputs, ACF_FULL

\* A full row is read at the input.
LEMMA FullIsLaid ==
  ASSUME NEW full \in FullVectors, NEW f, NEW r, r = WithFlag(FullRow(full), f)
  PROVE  Ps(r, 1) = f /\ FullLaid(r, full)
<1>1. /\ FullRow(full) \in Seq(Int) /\ DOMAIN FullRow(full) = 1..(AlphabetSize + 2)
      /\ FullRow(full)[1] = ACF_FULL /\ \A i \in Inputs : FullRow(full)[i + 3] = full[i]
  BY FullRowWords
<1>2. /\ 1 \in 1..(AlphabetSize + 2) /\ 2 \in 1..(AlphabetSize + 2)
      /\ \A i \in Inputs : i + 3 \in 1..(AlphabetSize + 2) /\ i + 3 # 2 /\ (2 + i) + 1 = i + 3
  BY RowsAssumption, SameInputs, SMTT(10)
<1>3. \A j \in 1..(AlphabetSize + 2) : r[j] = IF j = 2 THEN f ELSE FullRow(full)[j]
  BY <1>1 DEF WithFlag
<1>4. r[1] = ACF_FULL /\ r[2] = f /\ \A i \in Inputs : r[(2 + i) + 1] = full[i]
  BY <1>1, <1>2, <1>3
<1>5. 0 + 1 = 1 /\ 1 + 1 = 2
  BY SMTT(10)
<1> QED BY <1>4, <1>5 DEF Ps, FullLaid

\* The transitions lie in a band, or there are none.
InBand(full, first, width) ==
  \/ Live(full) = {} /\ first = -1 /\ width = 0
  \/ /\ first \in Inputs /\ width \in Nat \ {0} /\ first + width - 1 \in Inputs
     /\ \A i \in Live(full) : first <= i /\ i < first + width

\* acsmx2.c:2296: the band gives back what it was cut from, and what lies outside
\* of it was no transition: a row without any, whose first index is the largest
\* word, too.
LEMMA BandReads ==
  ASSUME NEW full \in FullVectors, NEW first, NEW width, InBand(full, first, width),
         NEW row, BandLaid(row, full, first, width), NEW i \in Inputs
  PROVE  BandedNext(row, i) = full[i]
<1>1. /\ Ps(row, 2) = width /\ Ps(row, 3) = Word(first)
      /\ \A k \in 0..(width - 1) : Ps(row, 4 + k) = full[first + k]
  BY DEF BandLaid
<1>2. i \in 0..(AlphabetSize - 1) /\ (full[i] = 0 <=> i \notin Live(full))
  BY SameInputs, LiveInputs
<1>3. CASE Live(full) = {} /\ first = -1 /\ width = 0
  <2>1. Word(first) = FAIL
    BY <1>3, RowsAssumption, SMTT(10) DEF Word
  <2>2. i < Ps(row, 3)
    BY <1>1, <1>2, <2>1, RowsAssumption, SMTT(10)
  <2> QED BY <1>2, <1>3, <2>2 DEF BandedNext
<1>4. CASE /\ first \in Inputs /\ width \in Nat \ {0} /\ first + width - 1 \in Inputs
           /\ \A x \in Live(full) : first <= x /\ x < first + width
  <2>1. first \in 0..(AlphabetSize - 1) /\ first + width - 1 \in 0..(AlphabetSize - 1) /\ width \in Nat \ {0}
    BY <1>4, SameInputs
  <2>2. Word(first) = first /\ Word(first + width) = first + width
    BY <2>1, RowsAssumption, SMTT(10) DEF Word
  <2>3. BandedNext(row, i) = IF i < first \/ i >= first + width THEN 0 ELSE Ps(row, 4 + i - first)
    BY <1>1, <2>2 DEF BandedNext
  <2>4. CASE i < first \/ i >= first + width
    <3>1. i \notin Live(full)
      BY <1>2, <1>4, <2>1, <2>4, SMTT(10)
    <3> QED BY <1>2, <2>3, <2>4, <3>1
  <2>5. CASE ~(i < first \/ i >= first + width)
    <3>1. i - first \in 0..(width - 1) /\ 4 + (i - first) = 4 + i - first /\ first + (i - first) = i
      BY <1>2, <2>1, <2>5, SMTT(10)
    <3> QED BY <1>1, <2>3, <2>5, <3>1
  <2> QED BY <2>4, <2>5
<1> QED BY <1>3, <1>4 DEF InBand

\* A banded row is such a band.
LEMMA BandIsLaid ==
  ASSUME NEW full \in FullVectors, NEW f, NEW row, row = WithFlag(BandedRow(full), f)
  PROVE  Ps(row, 1) = f /\ \E first, width : InBand(full, first, width) /\ BandLaid(row, full, first, width)
<1> DEFINE first == IF Live(full) = {} THEN -1 ELSE Min(Live(full))
           last  == IF Live(full) = {} THEN -2 ELSE Max(Live(full))
<1>1. /\ Live(full) = {} => first = -1 /\ last = -2
      /\ Live(full) # {} => /\ first \in Inputs /\ last \in Inputs /\ first <= last
                            /\ \A j \in Live(full) : first <= j /\ j <= last
  <2>1. CASE Live(full) = {}
    BY <2>1
  <2>2. CASE Live(full) # {}
    <3>1. /\ Min(Live(full)) \in Live(full) /\ Max(Live(full)) \in Live(full)
          /\ \A j \in Live(full) : Min(Live(full)) <= j /\ j <= Max(Live(full))
      BY <2>2, LiveInputs, MinOfInputs, MaxOfInputs
    <3> QED BY <2>2, <3>1, LiveInputs
  <2> QED BY <2>1, <2>2
<1>2. BandedRow(full) = <<ACF_BANDED, 0, last - first + 1, Word(first)>> \o Values(full, first, last)
  BY DEF BandedRow
<1>3. PICK a, z, width, vs : a = first /\ z = last /\ width = z - a + 1 /\ vs = Values(full, a, z)
  OBVIOUS
<1>4. /\ Live(full) = {} => a = -1 /\ z = -2
      /\ Live(full) # {} => /\ a \in Inputs /\ z \in Inputs /\ a <= z
                            /\ \A j \in Live(full) : a <= j /\ j <= z
  BY <1>1, <1>3
<1>5. BandedRow(full) = <<ACF_BANDED, 0, width, Word(a)>> \o vs
  BY <1>2, <1>3
<1> HIDE DEF first, last
<1>6. a \in Int /\ z \in Int /\ width \in Nat /\ z = a + width - 1
  BY <1>3, <1>4, SameInputs, SMTT(10)
<1>7. InBand(full, a, width)
  <2>1. CASE Live(full) = {}
    <3>1. width = 0
      BY <1>3, <1>4, <2>1, SMTT(10)
    <3> QED BY <1>4, <2>1, <3>1 DEF InBand
  <2>2. CASE Live(full) # {}
    <3>1. width # 0 /\ \A j \in Live(full) : j < a + width
      BY <1>4, <1>6, <2>2, LiveInputs, SMTT(10)
    <3> QED BY <1>4, <1>6, <2>2, <3>1 DEF InBand
  <2> QED BY <2>1, <2>2
<1>8. vs = [j \in 1..width |-> full[a + j - 1]]
  BY <1>3 DEF Values
<1>9. \A j \in 1..width : full[a + j - 1] \in Int
  <2> TAKE j \in 1..width
  <2>1. a + j - 1 \in Inputs
    <3>1. Live(full) # {}
      BY <1>3, <1>4, SMTT(10)
    <3>2. a \in 0..(AlphabetSize - 1) /\ z \in 0..(AlphabetSize - 1)
      BY <1>4, <3>1, SameInputs
    <3>3. a + j - 1 \in 0..(AlphabetSize - 1)
      BY <1>6, <3>2, RowsAssumption, SMTT(10)
    <3> QED BY <3>3, SameInputs
  <2> QED BY <2>1, LiveInputs
<1>10. vs \in Seq(Int) /\ Len(vs) = width
  BY <1>6, <1>8, <1>9, SMTT(10)
<1>11. PICK h : h = <<ACF_BANDED, 0, width, Word(a)>>
  OBVIOUS
<1>12. Len(h) = 4 /\ h[1] = ACF_BANDED /\ h[3] = width /\ h[4] = Word(a)
  BY <1>11, SMTT(10)
<1>13. BandedRow(full) = [j \in 1..(4 + width) |-> IF j <= 4 THEN h[j] ELSE vs[j - 4]]
  BY <1>5, <1>10, <1>11, <1>12 DEF \o
<1>14. \A j \in 1..(4 + width) : row[j] = IF j = 2 THEN f ELSE IF j <= 4 THEN h[j] ELSE vs[j - 4]
  BY <1>13 DEF WithFlag
<1>15. /\ row[1] = ACF_BANDED /\ row[2] = f /\ row[3] = width /\ row[4] = Word(a)
  <2>1. 1 \in 1..(4 + width) /\ 2 \in 1..(4 + width) /\ 3 \in 1..(4 + width) /\ 4 \in 1..(4 + width)
    BY <1>6, SMTT(10)
  <2>2. 1 <= 4 /\ 3 <= 4 /\ 4 <= 4
    BY SMTT(10)
  <2> QED BY <1>12, <1>14, <2>1, <2>2
<1>16. \A k \in 0..(width - 1) : row[(4 + k) + 1] = full[a + k]
  <2> TAKE k \in 0..(width - 1)
  <2>1. /\ (4 + k) + 1 \in 1..(4 + width) /\ (4 + k) + 1 # 2 /\ ~((4 + k) + 1 <= 4)
        /\ ((4 + k) + 1) - 4 = k + 1 /\ k + 1 \in 1..width /\ a + (k + 1) - 1 = a + k
    BY <1>6, SMTT(10)
  <2> QED BY <1>8, <1>14, <2>1
<1>17. 0 + 1 = 1 /\ 1 + 1 = 2 /\ 2 + 1 = 3 /\ 3 + 1 = 4
  BY SMTT(10)
<1>18. Ps(row, 1) = f /\ BandLaid(row, full, a, width)
  BY <1>15, <1>16, <1>17 DEF Ps, BandLaid
<1> QED BY <1>7, <1>18

\* What lies behind the three words of a header.
LEMMA ThreeAndMore ==
  ASSUME NEW a, NEW b, NEW c, NEW s \in Seq(Int), NEW r, r = <<a, b, c>> \o s
  PROVE  r[1] = a /\ r[2] = b /\ r[3] = c /\ \A j \in 1..Len(s) : r[j + 3] = s[j]
<1>1. PICK t : t = <<a, b, c>>
  OBVIOUS
<1>2. Len(t) = 3 /\ Len(s) \in Nat /\ t[1] = a /\ t[2] = b /\ t[3] = c
  BY <1>1, SMTT(10)
<1>3. r = [i \in 1..(3 + Len(s)) |-> IF i <= 3 THEN t[i] ELSE s[i - 3]]
  BY <1>1, <1>2 DEF \o
<1>4. /\ 1 \in 1..(3 + Len(s)) /\ 2 \in 1..(3 + Len(s)) /\ 3 \in 1..(3 + Len(s))
      /\ 1 <= 3 /\ 2 <= 3 /\ 3 <= 3
      /\ \A j \in 1..Len(s) : j + 3 \in 1..(3 + Len(s)) /\ ~(j + 3 <= 3) /\ (j + 3) - 3 = j
  BY <1>2, SMTT(10)
<1> QED BY <1>2, <1>3, <1>4

\* A row of pairs is laid as SparseReads reads it.
LEMMA SparseIsLaid ==
  ASSUME NEW full \in FullVectors, NEW k, NEW max, ~(k = 0 \/ Len(Ascending(Live(full))) > max), NEW f,
         NEW r, r = WithFlag(SparseRow(full, k, max), f)
  PROVE  Ps(r, 1) = f /\ \E num, keys : Keys(full, num, keys) /\ SparseLaid(r, full, num, keys)
<1> DEFINE keys == Ascending(Live(full))
           num == Cardinality(Live(full))
           parts == [j \in 1..num |-> <<keys[j], full[keys[j]]>>]
           flat == FlattenSeq(parts)
<1>1. Live(full) \in SUBSET Inputs
  BY LiveInputs
<1>2. Keys(full, num, keys)
  BY <1>1, AscendingRanks DEF Keys
<1>3. num \in Nat /\ keys \in [1..num -> Live(full)]
  BY <1>1, AscendingRanks
<1>4. Len(keys) = num /\ DOMAIN keys = 1..num
  BY <1>3, SMTT(10)
<1>5. r = [(<<ACF_SPARSE, 0, num>> \o flat) EXCEPT ![2] = f]
  <2>1. SparseRow(full, k, max) =
          IF k = 0 \/ Len(keys) > max THEN FullRow(full)
          ELSE <<ACF_SPARSE, 0, Len(keys)>>
                 \o FlattenSeq([j \in DOMAIN keys |-> <<keys[j], full[keys[j]]>>])
    BY DEF SparseRow
  <2>2. SparseRow(full, k, max) = <<ACF_SPARSE, 0, Len(keys)>>
                 \o FlattenSeq([j \in DOMAIN keys |-> <<keys[j], full[keys[j]]>>])
    BY <2>1
  <2> HIDE DEF keys, num
  <2> QED BY <1>4, <2>2 DEF WithFlag
<1> HIDE DEF keys, num
<1>6. \A j \in 1..num : /\ keys[j] \in Int /\ full[keys[j]] \in Int
                        /\ Len(parts[j]) = 2 /\ parts[j][1] = keys[j] /\ parts[j][2] = full[keys[j]]
                        /\ parts[j] \in Seq(Int)
  <2> TAKE j \in 1..num
  <2>1. keys[j] \in Inputs
    BY <1>1, <1>3
  <2>2. keys[j] \in Int /\ full[keys[j]] \in Int
    BY <2>1, LiveInputs
  <2>3. parts[j] = <<keys[j], full[keys[j]]>>
    OBVIOUS
  <2> HIDE DEF parts
  <2> QED BY <2>2, <2>3, SMTT(10)
<1>7. parts \in [1..num -> Seq(Int)]
  <2>1. parts = [j \in 1..num |-> parts[j]]
    OBVIOUS
  <2> HIDE DEF parts
  <2> QED BY <1>6, <2>1
<1> HIDE DEF parts
<1>8. flat \in Seq(Int) /\ \E off : Offsets(num, parts, flat, off)
  BY <1>3, <1>7, Flattened
<1> HIDE DEF flat
<1>9. PICK off : Offsets(num, parts, flat, off)
  BY <1>8
<1>10. /\ off \in [0..num -> Nat] /\ off[0] = 0
       /\ \A b \in 0..(num - 1) :
            /\ off[b + 1] = off[b] + Len(parts[b + 1])
            /\ \A m \in 1..Len(parts[b + 1]) : off[b] + m \in 1..Len(flat) /\ flat[off[b] + m] = parts[b + 1][m]
  BY <1>9 DEF Offsets
<1>11. \A b \in 0..num : off[b] = 2 * b
  <2> DEFINE wrong == { b \in 0..num : off[b] # 2 * b }
  <2>1. wrong = {}
    <3> SUFFICES ASSUME wrong # {}
                 PROVE  FALSE
      OBVIOUS
    <3>1. wrong \in SUBSET Nat
      BY SMTT(10)
    <3>2. PICK b \in wrong : \A y \in wrong : b <= y
      <4> HIDE DEF wrong
      <4> QED BY <3>1, LeastNatural
    <3>3. b \in 0..num /\ off[b] # 2 * b
      OBVIOUS
    <3>4. b # 0
      BY <1>10, <3>3, SMTT(10)
    <3>5. PICK m : m = b - 1
      OBVIOUS
    <3>6. /\ m \in 0..num /\ m \in 0..(num - 1) /\ ~(b <= m) /\ m + 1 = b
          /\ b \in 1..num
      BY <1>3, <3>3, <3>4, <3>5, SMTT(10)
    <3>7. m \notin wrong
      <4> HIDE DEF wrong
      <4> QED BY <3>2, <3>6
    <3>8. off[m] = 2 * m
      BY <3>6, <3>7
    <3>9. off[b] = off[m] + 2
      BY <1>6, <1>10, <3>6
    <3>10. off[b] = 2 * b
      BY <3>6, <3>8, <3>9, SMTT(10)
    <3> QED BY <3>3, <3>10
  <2> QED BY <2>1
<1>12. \A j \in 0..(num - 1) : /\ j + 1 \in 1..num /\ 2 * j + 1 \in 1..Len(flat) /\ 2 * j + 2 \in 1..Len(flat)
                               /\ flat[2 * j + 1] = keys[j + 1] /\ flat[2 * j + 2] = full[keys[j + 1]]
  <2> TAKE j \in 0..(num - 1)
  <2>1. j + 1 \in 1..num /\ j \in 0..num
    BY <1>3, SMTT(10)
  <2>2. 1 \in 1..2 /\ 2 \in 1..2
    BY SMTT(10)
  <2>3. off[j] = 2 * j
    BY <1>11, <2>1
  <2>4. /\ Len(parts[j + 1]) = 2 /\ parts[j + 1][1] = keys[j + 1]
        /\ parts[j + 1][2] = full[keys[j + 1]]
    BY <1>6, <2>1
  <2>5. \A m \in 1..2 : off[j] + m \in 1..Len(flat) /\ flat[off[j] + m] = parts[j + 1][m]
    BY <1>10, <2>4
  <2> QED BY <2>1, <2>2, <2>3, <2>4, <2>5
<1>13. PICK row : row = r /\ row = <<ACF_SPARSE, f, num>> \o flat
  <2>1. [(<<ACF_SPARSE, 0, num>> \o flat) EXCEPT ![2] = f] = <<ACF_SPARSE, f, num>> \o flat
    BY <1>8, HeaderFlag
  <2> QED BY <1>5, <2>1, Zenon
<1>22. row = <<ACF_SPARSE, f, num>> \o flat
  BY <1>13
<1>14. /\ row[1] = ACF_SPARSE /\ row[2] = f /\ row[3] = num
       /\ \A j \in 1..Len(flat) : row[j + 3] = flat[j]
  BY <1>8, <1>22, ThreeAndMore
<1>15. \A j \in 0..(num - 1) : Ps(row, 3 + 2 * j) = keys[j + 1] /\ Ps(row, 4 + 2 * j) = full[keys[j + 1]]
  <2> TAKE j \in 0..(num - 1)
  <2>1. (3 + 2 * j) + 1 = (2 * j + 1) + 3 /\ (4 + 2 * j) + 1 = (2 * j + 2) + 3
    BY <1>3, SMTT(10)
  <2> QED BY <1>12, <1>14, <2>1 DEF Ps
<1>16. 0 + 1 = 1 /\ 1 + 1 = 2 /\ 2 + 1 = 3
  BY SMTT(10)
<1>17. Ps(row, 1) = f /\ Ps(row, 0) = ACF_SPARSE /\ Ps(row, 2) = num
  BY <1>14, <1>16 DEF Ps
<1>18. SparseLaid(row, full, num, keys)
  BY <1>15, <1>17 DEF SparseLaid
<1> QED BY <1>2, <1>13, <1>17, <1>18

\* Behind a band's end comes a beginning, and before a band's beginning an end.
LEMMA BandsAlternate ==
  ASSUME NEW full \in FullVectors, NEW zmax \in Int, NEW i \in Live(full)
  PROVE  /\ \E x \in BandBegins(full, zmax) : x <= i
         /\ \E e \in BandEnds(full, zmax) : i <= e
         /\ \A e \in BandEnds(full, zmax) : e < i => \E x \in BandBegins(full, zmax) : e < x /\ x <= i
         /\ \A x \in BandBegins(full, zmax) : i < x => \E e \in BandEnds(full, zmax) : i <= e /\ e < x
<1>1. PICK L : L = Live(full)
  OBVIOUS
<1>2. L \in SUBSET Inputs /\ i \in L /\ \A j \in L : j \in Int
  BY <1>1, LiveInputs
<1>3. /\ BandBegins(full, zmax) = { y \in L : \A j \in L : j < y => y - j - 1 > zmax }
      /\ BandEnds(full, zmax) = { y \in L : \A j \in L : j > y => j - y - 1 > zmax }
  BY <1>1 DEF BandBegins, BandEnds
<1>4. \E x \in BandBegins(full, zmax) : x <= i
  <2>1. PICK x \in L : \A y \in L : x <= y
    BY <1>2, MinOfInputs
  <2>2. \A j \in L : ~(j < x)
    BY <1>2, <2>1, SMTT(10)
  <2> QED BY <1>2, <1>3, <2>1, <2>2
<1>5. \E e \in BandEnds(full, zmax) : i <= e
  <2>1. PICK x \in L : \A y \in L : y <= x
    BY <1>2, MaxOfInputs
  <2>2. \A j \in L : ~(j > x)
    BY <1>2, <2>1, SMTT(10)
  <2> QED BY <1>2, <1>3, <2>1, <2>2
<1>6. ASSUME NEW e \in BandEnds(full, zmax), e < i
      PROVE  \E x \in BandBegins(full, zmax) : e < x /\ x <= i
  <2>1. PICK A : A = { y \in L : y > e }
    OBVIOUS
  <2>2. e \in L /\ \A j \in L : j > e => j - e - 1 > zmax
    BY <1>3
  <2>3. A \in SUBSET Inputs /\ i \in A
    BY <1>2, <1>6, <2>1, <2>2, SMTT(10)
  <2>4. PICK x \in A : \A y \in A : x <= y
    BY <2>3, MinOfInputs
  <2>5. x \in L /\ x > e /\ x <= i
    BY <2>1, <2>3, <2>4
  <2>6. \A j \in L : j < x => x - j - 1 > zmax
    <3> TAKE j \in L
    <3> HAVE j < x
    <3>1. ~(j > e)
      BY <1>2, <2>1, <2>4, <2>5, SMTT(10)
    <3>2. x - e - 1 > zmax
      BY <2>2, <2>5
    <3> QED BY <1>2, <2>2, <2>5, <3>1, <3>2, SMTT(10)
  <2>7. e < x
    BY <1>2, <2>2, <2>5, SMTT(10)
  <2> QED BY <1>3, <2>5, <2>6, <2>7
<1>7. ASSUME NEW x \in BandBegins(full, zmax), i < x
      PROVE  \E e \in BandEnds(full, zmax) : i <= e /\ e < x
  <2>1. PICK A : A = { y \in L : y < x }
    OBVIOUS
  <2>2. x \in L /\ \A j \in L : j < x => x - j - 1 > zmax
    BY <1>3
  <2>3. A \in SUBSET Inputs /\ i \in A
    BY <1>2, <1>7, <2>1, <2>2
  <2>4. PICK e \in A : \A y \in A : y <= e
    BY <2>3, MaxOfInputs
  <2>5. e \in L /\ e < x /\ i <= e
    BY <2>1, <2>3, <2>4
  <2>6. \A j \in L : j > e => j - e - 1 > zmax
    <3> TAKE j \in L
    <3> HAVE j > e
    <3>1. ~(j < x)
      BY <1>2, <2>1, <2>4, <2>5, SMTT(10)
    <3>2. x - e - 1 > zmax
      BY <2>2, <2>5
    <3> QED BY <1>2, <2>2, <2>5, <3>1, <3>2, SMTT(10)
  <2> QED BY <1>3, <2>5, <2>6
<1> QED BY <1>4, <1>5, <1>6, <1>7

\* So the begins and the ends, each in ascending order, are bands.
LEMMA BandsFound ==
  ASSUME NEW full \in FullVectors, NEW zmax \in Int, NEW num, NEW first, NEW last,
         num = Cardinality(BandBegins(full, zmax)),
         first = Ascending(BandBegins(full, zmax)),
         last = [b \in 1..num |-> Ascending(BandEnds(full, zmax))[b]]
  PROVE  Bands(full, num, first, last)
<1>1. PICK B, E, m, end : /\ B = BandBegins(full, zmax) /\ E = BandEnds(full, zmax)
                          /\ m = Cardinality(E) /\ end = Ascending(E)
  OBVIOUS
<1>2. /\ B \in SUBSET Live(full) /\ E \in SUBSET Live(full)
      /\ B \in SUBSET Inputs /\ E \in SUBSET Inputs
      /\ \A x \in Live(full) : x \in Int
  BY <1>1, LiveInputs DEF BandBegins, BandEnds
<1>3. /\ num \in Nat /\ first \in [1..num -> B]
      /\ \A x \in B : \E k \in 1..num : first[k] = x
      /\ \A k, l \in 1..num : k < l => first[k] < first[l]
  <2>1. B \in SUBSET Inputs /\ num = Cardinality(B) /\ first = Ascending(B)
    BY <1>1, <1>2
  <2> QED BY <2>1, AscendingRanks
<1>4. /\ m \in Nat /\ end \in [1..m -> E]
      /\ \A x \in E : \E k \in 1..m : end[k] = x
      /\ \A k, l \in 1..m : k < l => end[k] < end[l]
  <2>1. E \in SUBSET Inputs /\ m = Cardinality(E) /\ end = Ascending(E)
    BY <1>1, <1>2
  <2> QED BY <2>1, AscendingRanks
<1>5. /\ \A k \in 1..num : first[k] \in Live(full) /\ first[k] \in Int
      /\ \A k \in 1..m : end[k] \in Live(full) /\ end[k] \in Int
  BY <1>2, <1>3, <1>4
<1> DEFINE Paired(k) == /\ k \in 1..m /\ first[k] <= end[k]
                        /\ \A l \in 1..num : k < l => end[k] < first[l]
           wrong == { k \in 1..num : ~Paired(k) }
<1>6. wrong = {}
  <2> SUFFICES ASSUME wrong # {}
               PROVE  FALSE
    OBVIOUS
  <2>1. wrong \in SUBSET Nat
    <3> HIDE DEF Paired
    <3> QED BY SMTT(10)
  <2>2. PICK k \in wrong : \A y \in wrong : k <= y
    <3> HIDE DEF wrong
    <3> QED BY <2>1, LeastNatural
  <2>3. k \in 1..num /\ ~Paired(k)
    <3> HIDE DEF Paired
    <3> QED OBVIOUS
  <2>4. \A l \in 1..num : l < k => Paired(l)
    <3> TAKE l \in 1..num
    <3> HAVE l < k
    <3>1. ~(k <= l)
      BY <1>3, <2>3, SMTT(10)
    <3>2. l \notin wrong
      <4> HIDE DEF wrong
      <4> QED BY <2>2, <3>1
    <3> HIDE DEF Paired
    <3> QED BY <3>2
  <2>5. PICK x : x = first[k] /\ x \in B /\ x \in Live(full) /\ x \in Int
    BY <1>2, <1>3, <2>3
  <2>6. \A l \in 1..num : l < k => l \in 1..m /\ end[l] < x
    BY <2>3, <2>4, <2>5
  \* An end that is not before x has a place from k on.
  <2>7. ASSUME NEW l \in 1..m, x <= end[l]
        PROVE  k <= l /\ k \in 1..m
    <3>1. l \in 1..num => ~(l < k)
      BY <1>5, <2>5, <2>6, <2>7, SMTT(10)
    <3> QED BY <1>3, <1>4, <2>3, <2>7, <3>1, SMTT(10)
  <2>8. PICK e \in E : x <= e
    BY <1>1, <2>5, BandsAlternate
  <2>9. k \in 1..m
    BY <1>4, <2>7, <2>8
  <2>10. PICK z : z = end[k] /\ z \in E /\ z \in Live(full) /\ z \in Int
    BY <1>2, <1>4, <2>9
  <2>11. x <= z
    <3>1. SUFFICES ASSUME z < x PROVE FALSE
      BY <2>5, <2>10, SMTT(10)
    <3>2. CASE k = 1
      <4>1. PICK y \in B : y <= z
        BY <1>1, <2>10, BandsAlternate
      <4>2. PICK l \in 1..num : first[l] = y
        BY <1>3
      <4>3. k = l \/ k < l
        BY <1>3, <3>2, SMTT(10)
      <4>4. x <= y
        <5>1. CASE k = l
          BY <2>5, <4>2, <5>1, SMTT(10)
        <5>2. CASE k < l
          <6>1. x < y /\ y \in Int
            BY <1>3, <1>5, <2>3, <2>5, <4>2, <5>2
          <6> QED BY <2>5, <6>1, SMTT(10)
        <5> QED BY <4>3, <5>1, <5>2
      <4>5. y \in Int
        BY <1>2
      <4> QED BY <2>5, <2>10, <3>1, <4>1, <4>4, <4>5, SMTT(10)
    <3>3. CASE k # 1
      <4>1. PICK p : p = k - 1
        OBVIOUS
      <4>2. /\ p \in 1..num /\ p < k
            /\ \A l \in 1..num : l < k => l = p \/ l < p
        BY <1>3, <2>3, <3>3, <4>1, SMTT(10)
      <4>3. /\ p \in 1..m /\ first[p] <= end[p] /\ end[p] \in E /\ end[p] < z
            /\ \A l \in 1..num : p < l => end[p] < first[l]
        BY <1>4, <2>4, <2>9, <2>10, <4>2
      <4>4. PICK y \in B : end[p] < y /\ y <= z
        BY <1>1, <2>10, <4>3, BandsAlternate
      <4>5. PICK l \in 1..num : first[l] = y
        BY <1>3
      <4>6. l < k
        <5>1. SUFFICES ASSUME ~(l < k) PROVE FALSE
          OBVIOUS
        <5>2. l = k \/ k < l
          BY <1>3, <2>3, <5>1, SMTT(10)
        <5>3. y = x \/ x < y
          BY <1>3, <2>3, <2>5, <4>5, <5>2
        <5>4. y \in Int
          BY <1>2
        <5> QED BY <2>5, <2>10, <3>1, <4>4, <5>3, <5>4, SMTT(10)
      <4>7. first[l] = first[p] \/ first[l] < first[p]
        BY <1>3, <4>2, <4>6
      <4>8. first[l] \in Int /\ first[p] \in Int /\ end[p] \in Int
        BY <1>5, <4>2, <4>3
      <4> QED BY <4>3, <4>4, <4>5, <4>7, <4>8, SMTT(10)
    <3> QED BY <3>2, <3>3
  <2>12. ASSUME NEW l \in 1..num, k < l
         PROVE  z < first[l]
    <3>1. x < first[l] /\ first[l] \in B
      BY <1>3, <2>3, <2>5, <2>12
    <3>2. PICK g \in E : x <= g /\ g < first[l]
      BY <1>1, <2>5, <3>1, BandsAlternate
    <3>3. PICK j \in 1..m : end[j] = g
      BY <1>4
    <3>4. k <= j
      BY <2>7, <3>2, <3>3
    <3>5. z = g \/ z < g
      <4>1. k = j \/ k < j
        BY <1>4, <2>3, <3>4, SMTT(10)
      <4> QED BY <1>4, <2>9, <2>10, <3>3, <4>1
    <3>6. g \in Int /\ first[l] \in Int
      BY <1>2, <1>5
    <3> QED BY <2>10, <3>2, <3>5, <3>6, SMTT(10)
  <2>13. Paired(k)
    BY <2>5, <2>9, <2>10, <2>11, <2>12
  <2> HIDE DEF Paired
  <2> QED BY <2>3, <2>13
<1>7. \A k \in 1..num : Paired(k)
  <2> HIDE DEF Paired
  <2> QED BY <1>6
<1>8. \A b \in 1..num : last[b] = end[b]
  BY <1>1
<1>9. last \in [1..num -> Inputs]
  <2>1. \A b \in 1..num : Ascending(E)[b] \in Inputs
    BY <1>1, <1>2, <1>4, <1>7
  <2> QED BY <1>1, <2>1
<1>10. first \in [1..num -> Inputs]
  BY <1>2, <1>3
<1>11. \A i \in Live(full) : \E b \in 1..num : first[b] <= i /\ i <= last[b]
  <2> TAKE i \in Live(full)
  <2>1. PICK A : A = { y \in B : y <= i }
    OBVIOUS
  <2>2. A \in SUBSET Inputs /\ A # {}
    <3>1. \E y \in B : y <= i
      BY <1>1, BandsAlternate
    <3> QED BY <1>2, <2>1, <3>1
  <2>3. PICK x \in A : \A y \in A : y <= x
    BY <2>2, MaxOfInputs
  <2>4. x \in B /\ x <= i /\ x \in Int /\ i \in Int
    BY <1>2, <2>1
  <2>5. PICK b \in 1..num : first[b] = x
    BY <1>3, <2>4
  <2>6. b \in 1..m /\ x <= end[b] /\ end[b] \in E /\ end[b] \in Int
    BY <1>4, <1>5, <1>7, <2>5
  <2>7. i <= end[b]
    <3>1. SUFFICES ASSUME end[b] < i PROVE FALSE
      BY <2>4, <2>6, SMTT(10)
    <3>2. PICK y \in B : end[b] < y /\ y <= i
      BY <1>1, <2>6, <3>1, BandsAlternate
    <3>3. y <= x /\ y \in Int
      BY <1>2, <2>1, <2>3, <3>2
    <3> QED BY <2>4, <2>6, <3>2, <3>3, SMTT(10)
  <2> QED BY <1>8, <2>4, <2>5, <2>7
<1>12. \A b \in 1..num : first[b] <= last[b]
  BY <1>7, <1>8
<1>13. \A b, c \in 1..num : b < c => last[b] < first[c]
  BY <1>7, <1>8
<1> QED BY <1>3, <1>9, <1>10, <1>11, <1>12, <1>13 DEF Bands

\* A row of bands is laid as BandsRead reads it.
LEMMA BandsAreLaid ==
  ASSUME NEW full \in FullVectors, NEW zmax \in Int, NEW f,
         NEW r, r = WithFlag(SparseBandsRow(full, zmax), f)
  PROVE  Ps(r, 1) = f /\ \E num, first, last, off : /\ Bands(full, num, first, last)
                                                    /\ BandsLaid(r, full, num, first, last, off)
<1> DEFINE begin == Ascending(BandBegins(full, zmax))
           ends == Ascending(BandEnds(full, zmax))
           num == Cardinality(BandBegins(full, zmax))
           Part(b) == <<ends[b] - begin[b] + 1, begin[b]>> \o Values(full, begin[b], ends[b])
           parts == [b \in 1..num |-> Part(b)]
           flat == FlattenSeq(parts)
<1>1. PICK last : last = [b \in 1..num |-> ends[b]]
  OBVIOUS
<1>2. Bands(full, num, begin, last)
  BY <1>1, BandsFound
<1>3. num \in Nat /\ begin \in [1..num -> Inputs]
  BY <1>2 DEF Bands
<1>4. Len(begin) = num /\ DOMAIN begin = 1..num
  BY <1>3, SMTT(10)
<1>5. r = [(<<ACF_SPARSEBANDS, 0, num>> \o flat) EXCEPT ![2] = f]
  <2>1. SparseBandsRow(full, zmax) = <<ACF_SPARSEBANDS, 0, Len(begin)>>
          \o FlattenSeq([b \in DOMAIN begin |-> Part(b)])
    BY DEF SparseBandsRow
  <2> HIDE DEF begin, num, Part
  <2> QED BY <1>4, <2>1 DEF WithFlag
<1> HIDE DEF begin, num
<1>6. /\ last \in [1..num -> Inputs] /\ \A b \in 1..num : begin[b] <= last[b] /\ last[b] = ends[b]
  BY <1>1, <1>2 DEF Bands
<1> HIDE DEF ends
<1>7. ASSUME NEW b \in 1..num
      PROVE  /\ parts[b] \in Seq(Int) /\ Len(parts[b]) = 2 + (last[b] - begin[b] + 1)
             /\ parts[b][1] = last[b] - begin[b] + 1 /\ parts[b][2] = begin[b]
             /\ \A k \in 0..(last[b] - begin[b]) : parts[b][3 + k] = full[begin[b] + k]
  <2>1. PICK x, y, w, vs, p, h : /\ x = begin[b] /\ y = last[b] /\ w = y - x + 1 /\ vs = Values(full, x, y)
                              /\ h = <<w, x>> /\ p = h \o vs
    OBVIOUS
  <2>2. x \in Inputs /\ y \in Inputs /\ x <= y
    BY <1>3, <1>6, <2>1
  <2>3. x \in 0..(AlphabetSize - 1) /\ y \in 0..(AlphabetSize - 1)
    BY <2>2, SameInputs
  <2>4. w \in Nat \ {0} /\ x \in Int
    BY <2>1, <2>2, <2>3, RowsAssumption, SMTT(10)
  <2>5. vs = [j \in 1..w |-> full[x + j - 1]]
    BY <2>1 DEF Values
  <2>6. \A j \in 1..w : full[x + j - 1] \in Int
    <3> TAKE j \in 1..w
    <3>1. PICK a : a = AlphabetSize - 1
      OBVIOUS
    <3>2. a \in Int /\ x \in 0..a /\ y \in 0..a /\ w = y - x + 1
      BY <2>1, <2>3, <3>1, RowsAssumption
    <3>3. x + j - 1 \in 0..a
      BY <3>2, SMTT(10)
    <3> QED BY <3>1, <3>3, SameInputs, LiveInputs
  <2>7. vs \in Seq(Int) /\ Len(vs) = w
    BY <2>4, <2>5, <2>6, SMTT(10)
  <2>8. parts[b] = p
    BY <1>6, <2>1
  <2> HIDE DEF parts
  <2>9. h \in Seq(Int) /\ Len(h) = 2 /\ h[1] = w /\ h[2] = x
    BY <2>1, <2>4, SMTT(10)
  <2>10. p = [i \in 1..(2 + w) |-> IF i <= 2 THEN h[i] ELSE vs[i - 2]]
    BY <2>1, <2>7, <2>9 DEF \o
  <2>11. p \in Seq(Int)
    BY <2>1, <2>7, <2>9, SMTT(10)
  <2>12. Len(p) = 2 + w /\ p[1] = w /\ p[2] = x
    <3>1. /\ 1 \in 1..(2 + w) /\ 2 \in 1..(2 + w) /\ 1 <= 2 /\ 2 <= 2 /\ 2 + w \in Nat
      BY <2>4, SMTT(10)
    <3>2. Len(p) = 2 + w
      BY <2>10, <2>11, <3>1, SMTT(10)
    <3> QED BY <2>9, <2>10, <3>1, <3>2
  <2>13. \A k \in 0..(y - x) : p[3 + k] = full[x + k]
    <3> TAKE k \in 0..(y - x)
    <3>1. /\ 3 + k \in 1..(2 + w) /\ ~(3 + k <= 2) /\ (3 + k) - 2 = k + 1
          /\ k + 1 \in 1..w /\ x + (k + 1) - 1 = x + k
      BY <2>1, <2>3, <2>4, SMTT(10)
    <3> QED BY <2>5, <2>10, <3>1
  <2> QED BY <2>1, <2>8, <2>11, <2>12, <2>13
<1>8. parts \in [1..num -> Seq(Int)]
  <2>1. parts = [b \in 1..num |-> parts[b]]
    OBVIOUS
  <2> HIDE DEF parts
  <2> QED BY <1>7, <2>1
<1> HIDE DEF parts
<1>9. flat \in Seq(Int) /\ \E o : Offsets(num, parts, flat, o)
  BY <1>3, <1>8, Flattened
<1> HIDE DEF flat
<1>10. PICK o : Offsets(num, parts, flat, o)
  BY <1>9
<1>11. /\ o \in [0..num -> Nat] /\ o[0] = 0
       /\ \A b \in 0..(num - 1) :
            /\ o[b + 1] = o[b] + Len(parts[b + 1])
            /\ \A m \in 1..Len(parts[b + 1]) : o[b] + m \in 1..Len(flat) /\ flat[o[b] + m] = parts[b + 1][m]
  BY <1>10 DEF Offsets
<1>12. PICK row : row = r /\ row = <<ACF_SPARSEBANDS, f, num>> \o flat
  <2>1. [(<<ACF_SPARSEBANDS, 0, num>> \o flat) EXCEPT ![2] = f] = <<ACF_SPARSEBANDS, f, num>> \o flat
    BY <1>9, HeaderFlag
  <2> QED BY <1>5, <2>1, Zenon
<1>23. row = <<ACF_SPARSEBANDS, f, num>> \o flat
  BY <1>12
<1>13. /\ row[1] = ACF_SPARSEBANDS /\ row[2] = f /\ row[3] = num
       /\ \A j \in 1..Len(flat) : row[j + 3] = flat[j]
  BY <1>9, <1>23, ThreeAndMore
<1>14. PICK off : off = [b \in 0..num |-> 3 + o[b]]
  OBVIOUS
<1>15. off[0] = 3 /\ \A b \in 0..num : off[b] \in Nat
  <2>1. 0 \in 0..num
    BY <1>3, SMTT(10)
  <2>2. \A b \in 0..num : o[b] \in Nat /\ off[b] = 3 + o[b]
    BY <1>11, <1>14
  <2> QED BY <1>11, <2>1, <2>2, SMTT(10)
<1>16. ASSUME NEW b \in 0..(num - 1)
       PROVE  /\ Ps(row, off[b]) = last[b + 1] - begin[b + 1] + 1 /\ Ps(row, off[b] + 1) = begin[b + 1]
              /\ off[b + 1] = off[b] + 2 + (last[b + 1] - begin[b + 1] + 1)
              /\ \A k \in 0..(last[b + 1] - begin[b + 1]) : Ps(row, off[b] + 2 + k) = full[begin[b + 1] + k]
  <2>1. PICK x, y, p, q : x = begin[b + 1] /\ y = last[b + 1] /\ p = parts[b + 1] /\ q = o[b]
    OBVIOUS
  <2>2. b + 1 \in 1..num /\ b \in 0..num /\ b + 1 \in 0..num
    BY <1>3, SMTT(10)
  <2>3. /\ p \in Seq(Int) /\ Len(p) = 2 + (y - x + 1) /\ p[1] = y - x + 1 /\ p[2] = x
        /\ \A k \in 0..(y - x) : p[3 + k] = full[x + k]
    BY <1>7, <2>1, <2>2
  <2>4. x \in Int /\ y \in Int /\ x <= y
    BY <1>3, <1>6, <2>1, <2>2, SameInputs
  <2>5. q \in Nat /\ off[b] = 3 + q /\ off[b + 1] = 3 + o[b + 1] /\ o[b + 1] = q + Len(p)
    BY <1>11, <1>14, <2>1, <2>2
  <2>6. \A m \in 1..(2 + (y - x + 1)) : row[(q + m) + 3] = p[m]
    <3>1. \A m \in 1..Len(p) : q + m \in 1..Len(flat) /\ flat[q + m] = p[m]
      BY <1>11, <2>1
    <3>2. \A j \in 1..Len(flat) : row[j + 3] = flat[j]
      BY <1>13
    <3>3. \A m \in 1..Len(p) : row[(q + m) + 3] = p[m]
      BY <3>1, <3>2
    <3> QED BY <2>3, <3>3
  <2>7. /\ 1 \in 1..(2 + (y - x + 1)) /\ 2 \in 1..(2 + (y - x + 1))
        /\ (3 + q) + 1 = (q + 1) + 3 /\ ((3 + q) + 1) + 1 = (q + 2) + 3
        /\ 3 + (q + (2 + (y - x + 1))) = (3 + q) + 2 + (y - x + 1)
    BY <2>4, <2>5, SMTT(10)
  <2>8. ASSUME NEW k \in 0..(y - x)
        PROVE  Ps(row, off[b] + 2 + k) = full[x + k]
    <3>1. ((3 + q) + 2 + k) + 1 = (q + (3 + k)) + 3 /\ 3 + k \in 1..(2 + (y - x + 1))
      BY <2>4, <2>5, SMTT(10)
    <3>2. Ps(row, off[b] + 2 + k) = row[((3 + q) + 2 + k) + 1]
      BY <2>5 DEF Ps
    <3>3. row[(q + (3 + k)) + 3] = p[3 + k] /\ p[3 + k] = full[x + k]
      BY <2>3, <2>6, <3>1
    <3> QED BY <3>1, <3>2, <3>3
  <2>9. /\ Ps(row, off[b]) = y - x + 1 /\ Ps(row, off[b] + 1) = x
    <3>1. Ps(row, off[b]) = row[(3 + q) + 1] /\ Ps(row, off[b] + 1) = row[((3 + q) + 1) + 1]
      BY <2>5 DEF Ps
    <3>2. row[(q + 1) + 3] = p[1] /\ row[(q + 2) + 3] = p[2]
      BY <2>6, <2>7
    <3> QED BY <2>3, <2>7, <3>1, <3>2
  <2>10. off[b + 1] = off[b] + 2 + (y - x + 1)
    BY <2>3, <2>5, <2>7
  <2> QED BY <2>1, <2>8, <2>9, <2>10
<1>17. 0 + 1 = 1 /\ 1 + 1 = 2 /\ 2 + 1 = 3
  BY SMTT(10)
<1>18. Ps(row, 1) = f /\ Ps(row, 0) = ACF_SPARSEBANDS /\ Ps(row, 2) = num
  BY <1>13, <1>17 DEF Ps
<1>19. BandsLaid(row, full, num, begin, last, off)
  BY <1>15, <1>16, <1>18 DEF BandsLaid
<1> DEFINE LaidSo(x) == /\ Ps(x, 1) = f
                         /\ \E n, b, l, o1 : Bands(full, n, b, l) /\ BandsLaid(x, full, n, b, l, o1)
<1>20. LaidSo(row)
  BY <1>2, <1>18, <1>19
<1>21. row = r
  BY <1>12
<1>22. LaidSo(r)
  <2> HIDE DEF LaidSo
  <2> QED BY <1>20, <1>21
<1> QED BY <1>22, Zenon

\* acsmx2.c:1018: whatever its flag, a full row gives each input's next state back.
THEOREM FullRowReadsBack ==
  ASSUME NEW full \in FullVectors, NEW f, NEW i \in Inputs,
         NEW r, r = WithFlag(FullRow(full), f)
  PROVE  SparseGetNextStateDFA(r, i) = full[i]
<1>1. FullLaid(r, full)
  BY FullIsLaid
<1>2. SparseGetNextStateDFA(r, i) = Ps(r, 2 + i)
  BY <1>1, SMTT(10) DEF SparseGetNextStateDFA, FullLaid, ACF_FULL, ACF_BANDED, ACF_SPARSE, ACF_SPARSEBANDS
<1> QED BY <1>1, <1>2 DEF FullLaid

\* acsmx2.c:1927: whatever the number of states, the words compressed states get
\* hold every state, and no row loses one to its width.
THEOREM NarrowRowReadsBack ==
  ASSUME NEW packed \in BOOLEAN, NEW count \in 1..FAIL,
         NEW full \in [Inputs -> 0..(count - 1)]
  PROVE  Narrow(FullRow(full), MaxWord(packed, count)) = FullRow(full)
<1> DEFINE max == MaxWord(packed, count)
           row == FullRow(full)
<1>1. max \in Nat /\ count - 1 <= max
  BY RowsAssumption, SMTT(10) DEF MaxWord
<1>2. full \in FullVectors
  BY RowsAssumption, SMTT(10) DEF FullVectors
<1> HIDE DEF max
<1>3. \A j \in 1..(AlphabetSize + 2) : row[j] \in 0..max
  <2> TAKE j \in 1..(AlphabetSize + 2)
  <2>1. CASE j <= 2
    BY <2>1, <1>1, <1>2, FullRowWords, SMTT(10) DEF ACF_FULL
  <2>2. CASE j > 2
    <3>1. j - 3 \in Inputs /\ (j - 3) + 3 = j
      BY <2>2, RowsAssumption, SMTT(10) DEF Inputs
    <3>2. row[j] = full[j - 3]
      BY <3>1, <1>2, FullRowWords
    <3>3. full[j - 3] \in 0..(count - 1)
      BY <3>1
    <3> QED BY <3>2, <3>3, <1>1, SMTT(10)
  <2> QED BY <2>1, <2>2, RowsAssumption, SMTT(10)
<1>4. \A j \in 1..(AlphabetSize + 2) : row[j] % (max + 1) = row[j]
  BY <1>1, <1>3, SMTT(10)
<1>5. row = [j \in 1..(AlphabetSize + 2) |-> row[j]]
  <2>1. row \in Seq(Int) /\ DOMAIN row = 1..(AlphabetSize + 2)
    BY <1>2, FullRowWords
  <2> HIDE DEF row
  <2> QED BY <2>1, SMTT(10)
<1>6. Narrow(row, max) = [j \in 1..(AlphabetSize + 2) |-> row[j] % (max + 1)]
  BY <1>2, FullRowWords DEF Narrow
<1> QED BY <1>4, <1>5, <1>6 DEF max

\* acsmx2.c:2296: a banded row gives each input's next state back, one without any
\* transition too, whose first index is the largest word.
THEOREM BandedRowReadsBack ==
  ASSUME NEW full \in FullVectors, NEW f, NEW i \in Inputs,
         NEW r, r = WithFlag(BandedRow(full), f)
  PROVE  SparseGetNextStateDFA(r, i) = full[i]
<1>1. PICK first, width : InBand(full, first, width) /\ BandLaid(r, full, first, width)
  BY BandIsLaid
<1>2. SparseGetNextStateDFA(r, i) = BandedNext(r, i)
  BY <1>1, SMTT(10) DEF SparseGetNextStateDFA, BandLaid, ACF_FULL, ACF_BANDED, ACF_SPARSE, ACF_SPARSEBANDS
<1> QED BY <1>1, <1>2, BandReads

\* acsmx2.c:2314, 2215: a row of pairs gives each input's next state back, to the DFA search
\* and to the NFA search, which fails where there is none except in the root; the root's
\* row and one with too many pairs are full.
THEOREM SparseRowReadsBack ==
  ASSUME NEW full \in FullVectors, NEW k, NEW max, NEW f, NEW i \in Inputs,
         NEW r, r = WithFlag(SparseRow(full, k, max), f)
  PROVE  SparseGetNextStateDFA(r, i) = full[i] /\ SparseGetNextStateNFA(r, k, i) = OrFail(k, full[i])
<1>1. CASE k = 0 \/ Len(Ascending(Live(full))) > max
  <2>1. SparseRow(full, k, max) = FullRow(full)
    BY <1>1 DEF SparseRow
  <2>2. FullLaid(r, full)
    BY <2>1, FullIsLaid
  <2>3. /\ SparseGetNextStateDFA(r, i) = Ps(r, 2 + i)
        /\ SparseGetNextStateNFA(r, k, i) = OrFail(k, Ps(r, 2 + i))
    BY <2>2, SMTT(10) DEF SparseGetNextStateDFA, SparseGetNextStateNFA, FullLaid, ACF_FULL,
       ACF_BANDED, ACF_SPARSE, ACF_SPARSEBANDS
  <2> QED BY <2>2, <2>3 DEF FullLaid
<1>2. CASE ~(k = 0 \/ Len(Ascending(Live(full))) > max)
  <2>1. PICK num, keys : Keys(full, num, keys) /\ SparseLaid(r, full, num, keys)
    BY <1>2, SparseIsLaid
  <2>2. /\ SparseGetNextStateDFA(r, i) = SparseNext(r, i, 0, 0)
        /\ SparseGetNextStateNFA(r, k, i) = SparseNext(r, i, FAIL, OrFail(k, 0))
    BY <2>1, SMTT(10) DEF SparseGetNextStateDFA, SparseGetNextStateNFA, SparseLaid, ACF_FULL,
       ACF_BANDED, ACF_SPARSE, ACF_SPARSEBANDS
  <2>3. OrFail(k, 0) = FAIL
    BY <1>2 DEF OrFail
  <2>4. \A d : SparseNext(r, i, d, d) = IF full[i] = 0 THEN d ELSE full[i]
    BY <2>1, SparseReads
  <2>5. SparseGetNextStateDFA(r, i) = full[i]
    BY <2>2, <2>4
  <2>6. SparseGetNextStateNFA(r, k, i) = OrFail(k, full[i])
    BY <1>2, <2>2, <2>3, <2>4 DEF OrFail
  <2> QED BY <2>5, <2>6
<1> QED BY <1>1, <1>2

\* acsmx2.c:2337, 2246: so does a row of bands, however many zeros a band may hold.
THEOREM SparseBandsRowReadsBack ==
  ASSUME NEW full \in FullVectors, NEW zmax \in Int, NEW k, NEW f, NEW i \in Inputs,
         NEW r, r = WithFlag(SparseBandsRow(full, zmax), f)
  PROVE  SparseGetNextStateDFA(r, i) = full[i] /\ SparseGetNextStateNFA(r, k, i) = OrFail(k, full[i])
<1>1. PICK num, first, last, off : Bands(full, num, first, last) /\ BandsLaid(r, full, num, first, last, off)
  BY BandsAreLaid
<1>2. SparseBandsNext(r, i, 0) = full[i]
  BY <1>1, BandsRead
<1>3. /\ SparseGetNextStateDFA(r, i) = SparseBandsNext(r, i, 0)
      /\ SparseGetNextStateNFA(r, k, i) = OrFail(k, SparseBandsNext(r, i, 0))
  BY <1>1, SMTT(10) DEF SparseGetNextStateDFA, SparseGetNextStateNFA, BandsLaid, ACF_FULL,
     ACF_BANDED, ACF_SPARSE, ACF_SPARSEBANDS
<1> QED BY <1>2, <1>3

-----------------------------------------------------------------------------
(* The invariant *)

\* What holds of the second machine in each phase.
SecondInv ==
  /\ Entered(patterns) /\ (<<>> \notin Texts => Filled(patterns))
  /\ pc \in {"setup", "trie", "nfa", "dfa", "rows", "ready", "search", "crashed", "freed"}
  /\ pc = "trie" => \E m : TrieOf2(m)
  /\ pc = "nfa" => fsa # FSA_TRIE /\ InNfa
  /\ pc = "dfa" => fsa = FSA_DFA /\ InDfa
  /\ pc = "rows" /\ fsa # FSA_TRIE => InRows
  /\ pc \in {"ready", "search"} /\ fsa # FSA_TRIE => Supplied

\* Without a pattern there is nothing to ask of them.
LEMMA NothingEntered ==
  ASSUME NEW ps, ps = <<>>, MaxPatterns \in Nat
  PROVE  Entered(ps) /\ Filled(ps)
<1>1. ps \in Seq(Entry) /\ Len(ps) = 0
  BY EmptySeq
<1>2. Len(ps) <= MaxPatterns /\ \A j \in 1..Len(ps) : FALSE
  BY <1>1, SMTT(10)
<1> QED BY <1>1, <1>2 DEF Entered, Filled

\* It holds when the machine is new.
LEMMA SecondInvInit ==
  ASSUME Room, MCInit
  PROVE  SecondInv
<1>1. patterns = <<>> /\ pc = "setup"
  BY DEF MCInit, Init
<1>2. Entered(patterns) /\ Filled(patterns)
  BY <1>1, NothingEntered DEF Room
<1> QED BY <1>1, <1>2 DEF SecondInv

\* The merged lists stay through the rest of the compilation and the searches.
LEMMA SuppliedKept ==
  ASSUME Supplied, UNCHANGED <<patterns, numStates, str, matchList>>
  PROVE  Supplied'
<1>1. Known2' /\ Top' = Top /\ LastState' = LastState
  BY Known2Kept DEF Supplied
<1> QED BY <1>1 DEF Supplied

\* A step of the compilation keeps it.
LEMMA SecondInvBuilds ==
  ASSUME SecondInv, Building
  PROVE  SecondInv'
<1>1. UNCHANGED <<fsa, patterns>>
  BY DEF Building, AddPatternStates, TrieDone, Build_NFA, NfaDone, Convert_NFA_To_DFA, DfaDone,
         Convert, setup
<1>2. (Entered(patterns))' /\ (<<>> \notin Texts => Filled(patterns'))
  BY <1>1, TopKept DEF SecondInv
<1>3. ASSUME AddPatternStates
      PROVE  SecondInv'
  <2>1. pc = "trie" /\ pc' = "trie" /\ \E m : TrieOf2(m)
    BY <1>3 DEF SecondInv, AddPatternStates
  <2>2. \E m : TrieOf2(m)'
    BY <1>3, <2>1, TrieGrows2
  <2> QED BY <1>2, <2>1, <2>2 DEF SecondInv
<1>4. ASSUME TrieDone
      PROVE  SecondInv'
  <2>1. pc = "trie" /\ \E m : TrieOf2(m)
    BY <1>4 DEF SecondInv, TrieDone
  <2>2. CASE fsa = FSA_TRIE
    <3>1. pc' = "rows" /\ fsa' = FSA_TRIE
      BY <1>1, <1>4, <2>2 DEF TrieDone
    <3> QED BY <1>2, <3>1 DEF SecondInv
  <2>3. CASE fsa # FSA_TRIE
    <3>1. pc' = "nfa" /\ fsa' # FSA_TRIE
      BY <1>1, <1>4, <2>3 DEF TrieDone
    <3>2. InNfa'
      BY <1>4, <2>1, <2>3, NfaBegins
    <3> QED BY <1>2, <3>1, <3>2 DEF SecondInv
  <2> QED BY <2>2, <2>3
<1>5. ASSUME Build_NFA
      PROVE  SecondInv'
  <2>1. pc = "nfa" /\ pc' = "nfa" /\ InNfa /\ fsa # FSA_TRIE
    BY <1>5 DEF SecondInv, Build_NFA
  <2>2. InNfa'
    BY <1>5, <2>1, NfaStep
  <2> QED BY <1>1, <1>2, <2>1, <2>2 DEF SecondInv
<1>6. ASSUME NfaDone
      PROVE  SecondInv'
  <2>1. pc = "nfa" /\ InNfa /\ fsa # FSA_TRIE
    BY <1>6 DEF SecondInv, NfaDone
  <2>2. (fsa = FSA_DFA => InDfa') /\ (fsa # FSA_DFA => InRows')
    BY <1>6, <2>1, NfaGoesOn
  <2>3. CASE fsa = FSA_DFA
    <3>1. pc' = "dfa" /\ fsa' = FSA_DFA
      BY <1>1, <1>6, <2>3 DEF NfaDone
    <3> QED BY <1>2, <2>2, <2>3, <3>1 DEF SecondInv
  <2>4. CASE fsa # FSA_DFA
    <3>1. pc' = "rows"
      BY <1>6, <2>4 DEF NfaDone
    <3> QED BY <1>2, <2>2, <2>4, <3>1 DEF SecondInv
  <2> QED BY <2>3, <2>4
<1>7. ASSUME Convert_NFA_To_DFA
      PROVE  SecondInv'
  <2>1. pc = "dfa" /\ pc' = "dfa" /\ InDfa /\ fsa = FSA_DFA
    BY <1>7 DEF SecondInv, Convert_NFA_To_DFA
  <2>2. InDfa'
    BY <1>7, <2>1, DfaGoesOn
  <2> QED BY <1>1, <1>2, <2>1, <2>2 DEF SecondInv
<1>8. ASSUME DfaDone
      PROVE  SecondInv'
  <2>1. pc = "dfa" /\ pc' = "rows" /\ InDfa /\ fsa = FSA_DFA
    BY <1>8 DEF SecondInv, DfaDone
  <2>2. InRows'
    BY <1>8, <2>1, DfaEnds
  <2> QED BY <1>2, <2>1, <2>2 DEF SecondInv
<1>9. ASSUME Convert
      PROVE  SecondInv'
  <2>1. pc = "rows" /\ pc' = "ready" /\ UNCHANGED <<numStates, str, matchList>>
    BY <1>9 DEF Convert
  <2>2. ASSUME fsa # FSA_TRIE
        PROVE  Supplied'
    <3>1. Supplied
      BY <2>1, <2>2 DEF SecondInv, InRows, NfaBuilt
    <3> QED BY <1>1, <2>1, <3>1, SuppliedKept
  <2> QED BY <1>1, <1>2, <2>1, <2>2 DEF SecondInv
<1> QED BY <1>3, <1>4, <1>5, <1>6, <1>7, <1>8, <1>9 DEF Building

\* So does a step of a search.
LEMMA SecondInvSearches ==
  ASSUME SecondInv,
         (\E all, fresh \in BOOLEAN : Begin(all, fresh)) \/ StepBefore \/ StepAfter \/ Finish
  PROVE  SecondInv'
<1>1. UNCHANGED <<fsa, patterns, numStates, str, matchList>>
  BY DEF Begin, StepBefore, StepAfter, Finish, setup, build
<1>2. (Entered(patterns))' /\ (<<>> \notin Texts => Filled(patterns'))
  BY <1>1, TopKept DEF SecondInv
<1>3. pc \in {"ready", "search"} /\ pc' \in {"ready", "search", "crashed"}
  <2>1. CASE \E all, fresh \in BOOLEAN : Begin(all, fresh)
    BY <2>1 DEF Begin
  <2>2. CASE StepBefore
    <3>1. pc = "search" /\ (pc' = "ready" \/ pc' = pc)
      BY <2>2 DEF StepBefore, Return
    <3> QED BY <3>1
  <2>3. CASE StepAfter
    <3>1. pc = "search" /\ (pc' = "crashed" \/ pc' = "ready" \/ pc' = pc)
      BY <2>3 DEF StepAfter, Return
    <3> QED BY <3>1
  <2>4. CASE Finish
    BY <2>4 DEF Finish, Return
  <2> QED BY <2>1, <2>2, <2>3, <2>4
<1>4. fsa # FSA_TRIE => Supplied'
  <2>1. fsa # FSA_TRIE => Supplied
    BY <1>3 DEF SecondInv
  <2> QED BY <1>1, <2>1, SuppliedKept
<1> QED BY <1>1, <1>2, <1>3, <1>4 DEF SecondInv

\* Every step of the machine keeps it.
LEMMA SecondInvNext ==
  ASSUME Room, SecondInv, Next
  PROVE  SecondInv'
<1>1. ASSUME NEW mode \in Modes, Select(mode)
      PROVE  SecondInv'
  <2>1. pc = "setup" /\ pc' = "setup" /\ patterns' = patterns
    BY <1>1 DEF Select
  <2>2. (Entered(patterns))' /\ (<<>> \notin Texts => Filled(patterns'))
    BY <2>1, TopKept DEF SecondInv
  <2> QED BY <2>1, <2>2 DEF SecondInv
<1>2. ASSUME NEW t \in Texts, NEW nocase \in BOOLEAN, AddPattern(t, nocase)
      PROVE  SecondInv'
  <2>1. pc = "setup" /\ pc' = "setup"
    BY <1>2 DEF AddPattern
  <2>2. Entered(patterns) /\ (<<>> \notin Texts => Filled(patterns))
    BY DEF SecondInv
  <2>3. /\ Entered(patterns')
        /\ <<>> \notin Texts => (Filled(patterns) => Filled(patterns'))
    BY <1>2, <2>2, EntriesAdded2 DEF Room
  <2> QED BY <2>1, <2>2, <2>3 DEF SecondInv
<1>3. ASSUME Compile
      PROVE  SecondInv'
  <2>1. pc' = "trie" /\ patterns' = patterns
    BY <1>3 DEF Compile, setup
  <2>2. Entered(patterns) /\ (<<>> \notin Texts => Filled(patterns))
    BY DEF SecondInv
  <2>3. TrieOf2(0)'
    BY <1>3, <2>2, TrieBegun2
  <2>4. \E m : TrieOf2(m)'
    BY <2>3
  <2>5. (Entered(patterns))'
    BY <2>1, <2>2, TopKept
  <2> QED BY <2>1, <2>2, <2>4, <2>5 DEF SecondInv
<1>4. ASSUME Free
      PROVE  SecondInv'
  <2>1. pc' = "freed" /\ patterns' = <<>>
    BY <1>4 DEF Free
  <2>2. Entered(patterns') /\ Filled(patterns')
    BY <2>1, NothingEntered DEF Room
  <2> QED BY <2>1, <2>2 DEF SecondInv
<1> QED BY <1>1, <1>2, <1>3, <1>4, SecondInvBuilds, SecondInvSearches DEF Next

\* A step that changes no variable keeps it too.
LEMMA SecondInvStutters ==
  ASSUME SecondInv, UNCHANGED mcvars
  PROVE  SecondInv'
<1>1. UNCHANGED <<fsa, patterns, pc, todo, numStates, trans, fail, matchList, queue, str>>
  BY DEF mcvars, vars, setup, build
<1>2. /\ Top' = Top /\ (Entered(patterns))' = Entered(patterns)
      /\ \A g : Totals(g)' <=> Totals(g)
  BY <1>1, TotalsKept, TopKept
<1>3. LastState' = LastState
  BY <1>1 DEF LastState
<1>4. \A m : TrieOf2(m)' <=> TrieOf2(m)
  BY <1>1, <1>2 DEF TrieOf2
<1>5. Known2' <=> Known2
  BY <1>1, <1>2, <1>3 DEF Known2
<1>6. (Supplied' <=> Supplied) /\ (NfaBuilt' <=> NfaBuilt)
  BY <1>1, <1>2, <1>3, <1>5 DEF Supplied, NfaBuilt
<1>7. (InNfa' <=> InNfa) /\ (InDfa' <=> InDfa) /\ (InRows' <=> InRows)
  BY <1>1, <1>2, <1>3, <1>5, <1>6 DEF InNfa, InDfa, InRows
<1> QED BY <1>1, <1>2, <1>4, <1>6, <1>7 DEF SecondInv

\* The invariant of a behaviour of the second machine.
BInv == version # 1 => SecondInv

\* At each step of selecting, adding, compiling and searching the second machine is as
\* SecondInv says.
THEOREM BInvAlways ==
  ASSUME Room
  PROVE  MCSpec => []BInv
<1>1. MCInit => BInv
  BY SecondInvInit DEF BInv
<1>2. BInv /\ [MCNext]_mcvars => BInv'
  <2> SUFFICES ASSUME BInv, [MCNext]_mcvars, version' # 1
               PROVE  SecondInv'
    BY DEF BInv
  <2>1. CASE version = 1 /\ V1!Next /\ OthersOf1
    BY <2>1 DEF OthersOf1
  <2>2. CASE version = 2 /\ Next /\ UNCHANGED version
    BY <2>2, SecondInvNext DEF BInv
  <2>3. CASE UNCHANGED mcvars
    <3>1. version # 1
      BY <2>3 DEF mcvars
    <3> QED BY <2>3, <3>1, SecondInvStutters DEF BInv
  <2> QED BY <2>1, <2>2, <2>3 DEF MCNext
<1> QED BY <1>1, <1>2, PTL DEF MCSpec

\* The properties of the automaton follow.
LEMMA SecondRight ==
  ASSUME SecondInv, <<>> \notin Texts
  PROVE  FailIsLongestSuffix /\ OutputsComplete
<1>1. FailIsLongestSuffix
  <2>1. CASE pc \in {"dfa", "rows"} /\ fsa # FSA_TRIE
    BY <2>1, FailuresRight DEF SecondInv, InDfa, InRows
  <2>2. CASE ~(pc \in {"dfa", "rows"} /\ fsa # FSA_TRIE)
    BY <2>2 DEF FailIsLongestSuffix
  <2> QED BY <2>1, <2>2
<1>2. OutputsComplete
  <2>1. CASE pc = "ready" /\ fsa # FSA_TRIE
    BY <2>1, OutputsRight DEF SecondInv
  <2>2. CASE ~(pc = "ready" /\ fsa # FSA_TRIE)
    BY <2>2 DEF OutputsComplete
  <2> QED BY <2>1, <2>2
<1> QED BY <1>1, <1>2

\* Automaton, of acsmx.c and acsmx2.c: the failure states that Build_DFA (acsmx.c:279) and
\* Build_NFA (acsmx2.c:926) leave are those of the longest proper suffixes, and the match
\* lists, merged along the failure states in acsmx2.c, hold the patterns that they should,
\* each once.  An empty pattern is in the list of the root, which acsmx2.c does not merge.
THEOREM AutomatonAlways ==
  ASSUME Room, <<>> \notin Texts
  PROVE  MCSpec => []Automaton
<1>1. BInv => (version # 1 => Automaton)
  <2> SUFFICES ASSUME version # 1, SecondInv
               PROVE  Automaton
    BY DEF BInv
  <2>1. FailIsLongestSuffix /\ OutputsComplete
    BY SecondRight
  <2> QED BY <2>1 DEF Automaton
<1>2. MCSpec => [](version # 1 => Automaton)
  BY <1>1, BInvAlways, PTL
<1>3. (version = 1 => Automaton) /\ (version # 1 => Automaton) => Automaton
  OBVIOUS
<1> QED BY <1>2, <1>3, FirstAutomaton, PTL

-----------------------------------------------------------------------------
(* The tables of the search *)

\* What a user may select and the code is made for: a DFA with any format, or an NFA
\* with a format whose rows its lookup can read and which leaves it the failure states.
\* States are compressed in full rows only, as in Acsm2.
Usable(fs, fm, zmax, packed) ==
  /\ zmax \in Int /\ packed \in BOOLEAN /\ (packed => fm \in {ACF_FULL, ACF_FULLQ})
  /\ \/ fs = FSA_TRIE
     \/ fs = FSA_DFA /\ fm \in {ACF_FULL, ACF_SPARSE, ACF_BANDED, ACF_SPARSEBANDS, ACF_FULLQ}
     \/ fs = FSA_NFA /\ fm \in {ACF_SPARSE, ACF_SPARSEBANDS}
ModesUsable == \A mode \in Modes : Usable(mode[1], mode[2], mode[4], mode[5])
Selected == Usable(fsa, format, maxZcnt, compress)

\* What the searches read in the row of s, which was made from full, and its flag.
ReadsAs(fm, row, s, full, list) ==
  /\ Ps(row, 1) = IF list # <<>> THEN 1 ELSE 0
  /\ fm \in {ACF_FULL, ACF_FULLQ} => \A i \in Inputs : Ps(row, 2 + i) = full[i]
  /\ fm = ACF_BANDED => \A i \in Inputs : BandedNext(row, i) = full[i]
  /\ fm \in {ACF_SPARSE, ACF_SPARSEBANDS} =>
       \A i \in Inputs : /\ SparseGetNextStateDFA(row, i) = full[i]
                         /\ SparseGetNextStateNFA(row, s, i) = OrFail(s, full[i])

\* The rows were made from a table of the DFA, or of the trie.
Packed ==
  /\ DOMAIN nextState = 0..LastState
  /\ \E tr : /\ Table(Top, tr)
             /\ IF fsa = FSA_DFA THEN DfaTable(LastState, tr, str) ELSE NfaTable(LastState, tr, str)
             /\ \A s \in 0..LastState :
                  ReadsAs(format, nextState[s], s, [i \in Inputs |-> Zero(tr[s][i])], matchList[s])
  /\ fsa = FSA_NFA => FailsRight(LastState, str, fail)

\* The cells of either table.
LEMMA TableCells ==
  ASSUME InRows, NEW s \in 0..LastState, NEW i \in Inputs
  PROVE  trans[s][i] \in 1..LastState \/ trans[s][i] = FAIL
<1>1. CASE fsa = FSA_DFA
  BY <1>1 DEF InRows, DfaTable
<1>2. CASE fsa # FSA_DFA
  <2>1. TrieRow(LastState, Renamed(LastState, trans), str, s) /\ Table(Top, trans)
    BY <1>2 DEF InRows, NfaTable
  <2>2. PICK n, rt, x : n = LastState /\ rt = Renamed(n, trans) /\ x = trans[s][i]
    OBVIOUS
  <2>3. n \in Nat /\ Top \in Nat /\ n <= Top
    BY <2>2 DEF InRows, NfaBuilt, Supplied, Known2
  <2>4. rt[s][i] = -1 \/ rt[s][i] \in 1..n
    BY <2>1, <2>2 DEF TrieRow
  <2>5. rt[s][i] = Mark(x)
    BY <2>2 DEF Renamed
  <2>6. x \in Nat
    <3>1. s \in 0..Top
      BY <2>2, <2>3, SMTT(10)
    <3> QED BY <2>1, <2>2, <3>1 DEF Table
  <2>7. (Mark(x) # -1 <=> x # FAIL) /\ (x # FAIL => Mark(x) = x)
    BY <2>6, Marks
  <2> QED BY <2>2, <2>4, <2>5, <2>7
<1> QED BY <1>1, <1>2

\* What List_ConvToFull makes of them.
LEMMA FullOf ==
  ASSUME InRows, NEW s \in 0..LastState
  PROVE  /\ numStates \in 1..FAIL /\ List_ConvToFull(s) \in [Inputs -> 0..(numStates - 1)]
         /\ List_ConvToFull(s) \in FullVectors
         /\ List_ConvToFull(s) = [i \in Inputs |-> Zero(trans[s][i])]
<1>1. /\ numStates \in Nat /\ LastState \in Nat /\ LastState < FAIL /\ LastState = numStates - 1
  <2>1. LastState \in Nat /\ Top \in Nat /\ LastState <= Top /\ Top < FAIL /\ numStates \in Nat
    BY DEF InRows, NfaBuilt, Supplied, Known2
  <2> QED BY <2>1, RowsAssumption, SMTT(10) DEF LastState
<1>2. List_ConvToFull(s) = [i \in Inputs |-> Zero(trans[s][i])]
  BY DEF List_ConvToFull, List_GetNextState2, Zero
<1>3. \A i \in Inputs : Zero(trans[s][i]) \in 0..LastState
  <2> TAKE i \in Inputs
  <2>1. PICK x, n : x = trans[s][i] /\ n = LastState
    OBVIOUS
  <2>2. x \in 1..n \/ x = FAIL
    BY <2>1, TableCells
  <2>3. n \in Nat
    BY <1>1, <2>1
  <2>4. 0 \in 0..n /\ \A y \in 1..n : y \in 0..n
    BY <2>3, SMTT(10)
  <2>5. Zero(x) \in 0..n
    BY <2>2, <2>4 DEF Zero
  <2> QED BY <2>1, <2>5
<1>4. \A x \in 0..LastState : x \in 0..(FAIL - 1)
  BY <1>1, RowsAssumption, SMTT(10)
<1>5. numStates \in 1..FAIL
  BY <1>1, RowsAssumption, SMTT(10)
<1> QED BY <1>1, <1>2, <1>3, <1>4, <1>5 DEF FullVectors

\* Every row that Convert makes is read as what it was made from.
LEMMA RowReads ==
  ASSUME InRows, Selected, fsa # FSA_TRIE, NEW s \in 0..LastState
  PROVE  ReadsAs(format, Flagged(s), s, List_ConvToFull(s), matchList[s])
<1>1. PICK full, f, r, fm, max, zmax : /\ full = List_ConvToFull(s) /\ f = (IF matchList[s] # <<>> THEN 1 ELSE 0)
                                       /\ r = Flagged(s) /\ fm = format
                                       /\ max = maxRowNodes /\ zmax = maxZcnt
  OBVIOUS
<1>2. /\ numStates \in 1..FAIL /\ full \in [Inputs -> 0..(numStates - 1)] /\ full \in FullVectors
      /\ zmax \in Int /\ compress \in BOOLEAN
      /\ fm \in {ACF_FULL, ACF_SPARSE, ACF_BANDED, ACF_SPARSEBANDS, ACF_FULLQ}
  BY <1>1, FullOf DEF Selected, Usable
<1>3. r = WithFlag(Row(s), f)
  BY <1>1 DEF Flagged, WithFlag
<1>4. ACF_FULL = 0 /\ ACF_SPARSE = 1 /\ ACF_BANDED = 2 /\ ACF_SPARSEBANDS = 3 /\ ACF_FULLQ = 4
  BY DEF ACF_FULL, ACF_SPARSE, ACF_BANDED, ACF_SPARSEBANDS, ACF_FULLQ
<1>5. Row(s) = CASE fm = ACF_SPARSE            -> SparseRow(full, s, max)
                 [] fm = ACF_BANDED            -> BandedRow(full)
                 [] fm = ACF_SPARSEBANDS       -> SparseBandsRow(full, zmax)
                 [] fm \in {ACF_FULL, ACF_FULLQ} -> Narrow(FullRow(full), MaxWord(compress, numStates))
  BY <1>1 DEF Row
<1>6. CASE fm \in {ACF_FULL, ACF_FULLQ}
  <2>1. Row(s) = Narrow(FullRow(full), MaxWord(compress, numStates))
    BY <1>4, <1>5, <1>6, SMTT(10)
  <2>2. Row(s) = FullRow(full)
    BY <1>2, <2>1, NarrowRowReadsBack
  <2>3. Ps(r, 1) = f /\ FullLaid(r, full)
    BY <1>2, <1>3, <2>2, FullIsLaid
  <2>4. fm # ACF_BANDED /\ fm \notin {ACF_SPARSE, ACF_SPARSEBANDS}
    BY <1>4, <1>6, SMTT(10)
  <2> QED BY <1>1, <2>3, <2>4 DEF ReadsAs, FullLaid
<1>7. CASE fm = ACF_BANDED
  <2>1. Row(s) = BandedRow(full) /\ fm \notin {ACF_SPARSE, ACF_SPARSEBANDS, ACF_FULL, ACF_FULLQ}
    BY <1>4, <1>5, <1>7, SMTT(10)
  <2>2. Ps(r, 1) = f /\ \E first, width : InBand(full, first, width) /\ BandLaid(r, full, first, width)
    BY <1>2, <1>3, <2>1, BandIsLaid
  <2>3. \A i \in Inputs : BandedNext(r, i) = full[i]
    BY <1>2, <2>2, BandReads
  <2> QED BY <1>1, <2>1, <2>2, <2>3 DEF ReadsAs
<1>8. CASE fm = ACF_SPARSE
  <2>1. Row(s) = SparseRow(full, s, max) /\ fm \notin {ACF_BANDED, ACF_FULL, ACF_FULLQ}
    BY <1>4, <1>5, <1>8, SMTT(10)
  <2>2. Ps(r, 1) = f
    <3>1. CASE s = 0 \/ Len(Ascending(Live(full))) > max
      <4>1. SparseRow(full, s, max) = FullRow(full)
        BY <3>1 DEF SparseRow
      <4> QED BY <1>2, <1>3, <2>1, <4>1, FullIsLaid
    <3>2. CASE ~(s = 0 \/ Len(Ascending(Live(full))) > max)
      <4>1. r = WithFlag(SparseRow(full, s, max), f)
        BY <1>3, <2>1
      <4> QED BY <1>2, <3>2, <4>1, SparseIsLaid
    <3> QED BY <3>1, <3>2
  <2>3. \A i \in Inputs : SparseGetNextStateDFA(r, i) = full[i] /\ SparseGetNextStateNFA(r, s, i) = OrFail(s, full[i])
    <3>1. r = WithFlag(SparseRow(full, s, max), f)
      BY <1>3, <2>1
    <3> QED BY <1>2, <3>1, SparseRowReadsBack
  <2> QED BY <1>1, <2>1, <2>2, <2>3 DEF ReadsAs
<1>9. CASE fm = ACF_SPARSEBANDS
  <2>1. Row(s) = SparseBandsRow(full, zmax) /\ fm \notin {ACF_BANDED, ACF_FULL, ACF_FULLQ}
    BY <1>4, <1>5, <1>9, SMTT(10)
  <2>2. Ps(r, 1) = f
    <3>1. r = WithFlag(SparseBandsRow(full, zmax), f)
      BY <1>3, <2>1
    <3> QED BY <1>2, <3>1, BandsAreLaid
  <2>3. \A i \in Inputs : SparseGetNextStateDFA(r, i) = full[i] /\ SparseGetNextStateNFA(r, s, i) = OrFail(s, full[i])
    <3>1. r = WithFlag(SparseBandsRow(full, zmax), f)
      BY <1>3, <2>1
    <3> QED BY <1>2, <3>1, SparseBandsRowReadsBack
  <2> QED BY <1>1, <2>1, <2>2, <2>3 DEF ReadsAs
<1> QED BY <1>2, <1>6, <1>7, <1>8, <1>9

\* So Convert leaves them.
LEMMA Converted ==
  ASSUME InRows, Selected, fsa # FSA_TRIE, Convert
  PROVE  Packed'
<1>1. PICK n, tr, t : n = LastState /\ tr = trans /\ t = Top
  OBVIOUS
<1>2. /\ UNCHANGED <<setup, numStates, matchList, str>>
      /\ fail' = IF format \in {ACF_FULL, ACF_FULLQ} THEN <<>> ELSE fail
  BY DEF Convert
<1>3. /\ UNCHANGED <<fsa, format, patterns>>
      /\ nextState' = [s \in 0..(numStates - 1) |-> Flagged(s)]
  BY <1>2 DEF Convert, setup
<1>4. /\ LastState' = n /\ Top' = t
  BY <1>1, <1>2, <1>3, TopKept DEF LastState
<1>5. nextState' = [s \in 0..n |-> Flagged(s)]
  BY <1>1, <1>3 DEF LastState
<1>6. /\ Table(t, tr)
      /\ IF fsa = FSA_DFA THEN DfaTable(n, tr, str) ELSE NfaTable(n, tr, str)
      /\ FailsRight(n, str, fail)
  BY <1>1 DEF InRows, NfaBuilt
<1>7. \A s \in 0..n : ReadsAs(format, nextState'[s], s, [i \in Inputs |-> Zero(tr[s][i])], matchList[s])
  <2> TAKE s \in 0..n
  <2>1. ReadsAs(format, Flagged(s), s, List_ConvToFull(s), matchList[s])
    BY <1>1, RowReads
  <2>2. List_ConvToFull(s) = [i \in Inputs |-> Zero(tr[s][i])]
    BY <1>1, FullOf
  <2>3. nextState'[s] = Flagged(s)
    BY <1>5
  <2> QED BY <2>1, <2>2, <2>3
<1>8. fsa = FSA_NFA => FailsRight(n, str, fail')
  <2> HAVE fsa = FSA_NFA
  <2>1. fsa # FSA_DFA /\ fsa # FSA_TRIE
    BY SMTT(10) DEF FSA_NFA, FSA_DFA, FSA_TRIE
  <2>2. format \in {ACF_SPARSE, ACF_SPARSEBANDS}
    BY <2>1 DEF Selected, Usable
  <2>3. format \notin {ACF_FULL, ACF_FULLQ}
    BY <2>2, SMTT(10) DEF ACF_SPARSE, ACF_SPARSEBANDS, ACF_FULL, ACF_FULLQ
  <2>4. fail' = fail
    BY <1>2, <2>3
  <2> QED BY <1>6, <2>4
<1>9. DOMAIN nextState' = 0..n
  BY <1>5
<1> HIDE DEF LastState, Top
<1> QED BY <1>2, <1>3, <1>4, <1>6, <1>7, <1>8, <1>9 DEF Packed

\* There is always a longest one.
LEMMA LongestExists ==
  ASSUME NEW W \in SUBSET Seq(Inputs), <<>> \in W, NEW w \in Seq(Inputs)
  PROVE  \E u \in W : Longest(u, w, W)
<1> DEFINE U == { v \in W : Suf(v, w) }
           lens == { Len(w) - Len(v) : v \in U }
<1>1. Len(w) \in Nat /\ \A v \in W : Len(v) \in Nat
  BY LenProperties
<1>2. \A v \in U : v \in W /\ Len(v) \in Nat /\ Len(v) <= Len(w)
  BY <1>1 DEF Suf
<1>3. <<>> \in U
  BY <1>1, SMTT(10) DEF Suf
<1>4. lens \in SUBSET Nat /\ lens # {}
  <2>1. \A v \in U : Len(w) - Len(v) \in Nat
    BY <1>1, <1>2, SMTT(10)
  <2> HIDE DEF U
  <2> QED BY <1>3, <2>1
<1>5. PICK d \in lens : \A y \in lens : d <= y
  <2> HIDE DEF lens
  <2> QED BY <1>4, LeastNatural
<1>6. PICK u \in U : d = Len(w) - Len(u)
  OBVIOUS
<1>7. ASSUME NEW v \in W, Suf(v, w)
      PROVE  Len(v) <= Len(u)
  <2>1. v \in U
    BY <1>7
  <2>2. d <= Len(w) - Len(v)
    BY <1>5, <2>1
  <2> QED BY <1>1, <1>2, <1>6, <2>1, <2>2, SMTT(10)
<1>8. u \in W /\ Suf(u, w)
  OBVIOUS
<1> QED BY <1>7, <1>8 DEF Longest

\* So there is a table of the automaton.
LEMMA WholeTable ==
  ASSUME NEW n, NEW st, Named(n, st)
  PROVE  \E tw : \A s \in 0..n : WholeRow(n, tw, st, s)
<1>1. PICK W : W = WordSet(n, st)
  OBVIOUS
<1>2. /\ W \in SUBSET Seq(Inputs) /\ <<>> \in W
      /\ \A s \in 0..n : st[s] \in Seq(Inputs)
  BY <1>1, WordsClosed DEF PrefixClosed
<1>3. PICK tw : tw = [s \in 0..n |-> [i \in Inputs |->
                        CHOOSE x \in 0..n : Longest(st[x], Append(st[s], i), W)]]
  OBVIOUS
<1>4. ASSUME NEW s \in 0..n, NEW i \in Inputs
      PROVE  tw[s][i] \in 0..n /\ Longest(st[tw[s][i]], Append(st[s], i), W)
  <2>1. PICK w : w = Append(st[s], i)
    OBVIOUS
  <2>2. w \in Seq(Inputs)
    BY <1>2, <2>1, AppendWord
  <2>3. PICK u \in W : Longest(u, w, W)
    BY <1>2, <2>2, LongestExists
  <2>4. \E x \in 0..n : Longest(st[x], w, W)
    BY <1>1, <2>3 DEF WordSet
  <2>5. tw[s][i] = CHOOSE x \in 0..n : Longest(st[x], w, W)
    BY <1>3, <2>1
  <2> QED BY <2>1, <2>4, <2>5
<1> QED BY <1>1, <1>4 DEF WholeRow

\* The failure loop of the NFA search ends at the state of the automaton.
LEMMA NfaReaches ==
  ASSUME Known2, NEW tr, Table(Top, tr), NfaTable(LastState, tr, str), FailsRight(LastState, str, fail),
         DOMAIN nextState = 0..LastState, NEW i \in Inputs,
         \A x \in 0..LastState : SparseGetNextStateNFA(nextState[x], x, i) = OrFail(x, Zero(tr[x][i])),
         NEW tw, \A s \in 0..LastState : WholeRow(LastState, tw, str, s), NEW s \in 0..LastState
  PROVE  NfaNext(s, i) = tw[s][i]
<1>1. PICK n, fl, st, rt : n = LastState /\ fl = fail /\ st = str /\ rt = Renamed(n, tr)
  OBVIOUS
<1>2. /\ n \in Nat /\ Top \in Nat /\ n <= Top /\ Top < FAIL /\ Named(n, st)
      /\ DOMAIN nextState = 0..n /\ fl \in [0..n -> 0..n] /\ DOMAIN fail = 0..n
      /\ \A x \in 1..n : LongestProper(st[fl[x]], st[x], WordSet(n, st))
      /\ \A x \in 0..n : WholeRow(n, tw, st, x) /\ TrieRow(n, rt, st, x)
  BY <1>1 DEF Known2, FailsRight, NfaTable
<1>3. PICK g, t, len : /\ g = [x \in 0..n |-> SparseGetNextStateNFA(nextState[x], x, i)]
                       /\ t = [x \in 0..n |-> tw[x][i]] /\ len = [x \in 0..n |-> Len(st[x])]
  OBVIOUS
<1>4. ASSUME NEW x \in 0..n
      PROVE  /\ g[x] = FAIL <=> Goes(rt, x, i) = -1
             /\ g[x] # FAIL => g[x] = Goes(rt, x, i)
  <2>1. PICK y : y = tr[x][i]
    OBVIOUS
  <2>2. x \in 0..Top
    BY <1>2, SMTT(10)
  <2>3. y \in Nat /\ rt[x][i] = Mark(y)
    BY <1>1, <2>1, <2>2 DEF Table, Renamed
  <2>4. (Mark(y) # -1 <=> y # FAIL) /\ (y # FAIL => Mark(y) = y)
    BY <2>3, Marks
  <2>5. rt[x][i] = -1 \/ rt[x][i] \in 1..n
    BY <1>2 DEF TrieRow
  <2>6. y = FAIL \/ y \in 1..n
    BY <2>3, <2>4, <2>5
  <2>7. g[x] = OrFail(x, Zero(y))
    BY <1>1, <1>3, <2>1
  <2>8. 0 # -1 /\ 0 # FAIL /\ (y \in 1..n => y # 0 /\ y # FAIL)
    <3>1. n \in Nat /\ Top \in Nat /\ n <= Top /\ Top < FAIL /\ FAIL \in Nat
      BY <1>2, RowsAssumption
    <3>2. n < FAIL /\ 0 # FAIL
      BY <3>1, SMTT(10)
    <3>3. y \in 1..n => y # 0 /\ y # FAIL
      BY <3>1, <3>2, SMTT(10)
    <3> QED BY <3>2, <3>3
  <2>9. CASE y = FAIL
    <3>1. rt[x][i] = -1 /\ g[x] = IF x # 0 THEN FAIL ELSE 0
      BY <2>3, <2>4, <2>7, <2>9 DEF OrFail, Zero
    <3> QED BY <2>8, <3>1 DEF Goes
  <2>10. CASE y # FAIL
    <3>1. rt[x][i] = y /\ y # -1 /\ y # 0 /\ g[x] = y
      BY <2>3, <2>4, <2>6, <2>7, <2>8, <2>10 DEF OrFail, Zero
    <3> QED BY <2>10, <3>1 DEF Goes
  <2> QED BY <2>9, <2>10
<1>5. \A x \in 0..n : Behind(n, tw, st, x, fl[x])
  <2> TAKE x \in 0..n
  <2>1. x # 0 => x \in 1..n
    BY <1>2, SMTT(10)
  <2> QED BY <1>2, <2>1 DEF Behind
<1>6. ASSUME NEW x \in 0..n
      PROVE  /\ t[x] = IF g[x] # FAIL THEN g[x] ELSE t[fl[x]]
             /\ g[x] = FAIL => fl[x] \in 0..n /\ len[fl[x]] < len[x]
  <2>1. PICK f : f = fl[x] /\ f \in 0..n
    BY <1>2
  <2>2. /\ Goes(rt, x, i) # -1 => tw[x][i] = Goes(rt, x, i)
        /\ Goes(rt, x, i) = -1 => x # 0 /\ tw[x][i] = tw[f][i] /\ Len(st[f]) < Len(st[x])
    <3>1. Named(n, st) /\ TrieRow(n, rt, st, x) /\ WholeRow(n, tw, st, x)
      BY <1>2
    <3>2. Behind(n, tw, st, x, f)
      BY <1>5, <2>1
    <3> QED BY <3>1, <3>2, ChainStep
  <2>3. t[x] = tw[x][i] /\ t[f] = tw[f][i] /\ len[f] = Len(st[f]) /\ len[x] = Len(st[x])
    BY <1>3, <2>1
  <2> QED BY <1>4, <2>1, <2>2, <2>3
<1>7. Chained(n, 0..n, g, fl, t, len)
  <2>1. len \in [0..n -> Nat]
    BY <1>2, <1>3, WordsClosed
  <2> QED BY <1>2, <1>6, <2>1 DEF Chained
<1> DEFINE Step(f, x) == IF x \notin DOMAIN nextState THEN FAIL
                         ELSE LET m == SparseGetNextStateNFA(nextState[x], x, i)
                              IN  IF m # FAIL THEN m ELSE IF x \in DOMAIN fail THEN f[fail[x]] ELSE FAIL
           next == CHOOSE f : f = [x \in Nat |-> Step(f, x)]
<1>8. \A f : \A x \in 0..n : Step(f, x) = IF g[x] # FAIL THEN g[x] ELSE f[fl[x]]
  BY <1>1, <1>2, <1>3
<1>9. \A f : \A x : x \notin 0..n => Step(f, x) = FAIL
  BY <1>2
<1>10. NfaNext(s, i) = next[s]
  BY DEF NfaNext
<1> HIDE DEF Step
<1>11. \E f : f = [x \in Nat |-> Step(f, x)]
  <2>1. PICK f : f = [x \in Nat |-> IF x \in 0..n THEN t[x] ELSE FAIL]
    OBVIOUS
  <2>2. \A x \in 0..n : x \in Nat
    BY <1>2, SMTT(10)
  <2>3. \A x \in 0..n : f[x] = t[x]
    BY <2>1, <2>2
  <2>4. ASSUME NEW x \in Nat
        PROVE  f[x] = Step(f, x)
    <3>1. CASE x \in 0..n
      <4>1. fl[x] \in 0..n
        BY <1>2, <3>1
      <4>2. Step(f, x) = IF g[x] # FAIL THEN g[x] ELSE t[fl[x]]
        BY <1>8, <2>3, <3>1, <4>1
      <4> QED BY <1>6, <2>3, <3>1, <4>2
    <3>2. CASE x \notin 0..n
      BY <1>9, <2>1, <3>2
    <3> QED BY <3>1, <3>2
  <2>5. f = [x \in Nat |-> f[x]]
    BY <2>1
  <2> QED BY <2>4, <2>5
<1>12. next = [x \in Nat |-> Step(next, x)]
  BY <1>11
<1> HIDE DEF next
<1>13. PICK h : h = [x \in 0..n |-> next[x]]
  OBVIOUS
<1>14. ASSUME NEW x \in 0..n
       PROVE  h[x] = IF g[x] # FAIL THEN g[x] ELSE h[fl[x]]
  <2>1. x \in Nat /\ fl[x] \in 0..n
    BY <1>2, SMTT(10)
  <2>2. next[x] = Step(next, x)
    BY <1>12, <2>1
  <2>3. next[x] = IF g[x] # FAIL THEN g[x] ELSE next[fl[x]]
    BY <1>8, <2>2
  <2> QED BY <1>13, <2>1, <2>3
<1>15. Follows(n, g, fl, h)
  <2>1. h = [x \in 0..n |-> h[x]]
    BY <1>13
  <2>2. h = [x \in 0..n |-> IF g[x] # FAIL THEN g[x] ELSE h[fl[x]]]
    BY <1>14, <2>1
  <2> QED BY <2>2 DEF Follows
<1>16. h[s] = t[s]
  <2>1. PICK P : P = 0..n
    OBVIOUS
  <2>2. Chained(n, P, g, fl, t, len)
    BY <1>7, <2>1
  <2>3. \A x \in P : h[x] = t[x]
    BY <1>15, <2>2, ChainLeads
  <2> QED BY <1>1, <2>1, <2>3
<1> QED BY <1>1, <1>3, <1>10, <1>13, <1>16

\* The search's next state is that of the longest word.
Leads(k, n, st) ==
  \A s \in 0..n, i \in Inputs :
    /\ Transition(k, s, i) \in 0..n
    /\ Longest(st[Transition(k, s, i)], Append(st[s], i), WordSet(n, st))

LEMMA DfaLeads ==
  ASSUME Packed, Selected, fsa = FSA_DFA, NEW all
  PROVE  Leads(SearchKind(all), LastState, str)
<1>1. PICK n, st, fm, k : n = LastState /\ st = str /\ fm = format /\ k = SearchKind(all)
  OBVIOUS
<1>2. PICK tr : /\ DfaTable(n, tr, st)
                /\ \A s \in 0..n : ReadsAs(fm, nextState[s], s, [i \in Inputs |-> Zero(tr[s][i])], matchList[s])
  BY <1>1 DEF Packed
<1>3. FSA_DFA # FSA_TRIE /\ FSA_DFA # FSA_NFA
  BY SMTT(10) DEF FSA_DFA, FSA_TRIE, FSA_NFA
<1>4. fm \in {ACF_FULL, ACF_SPARSE, ACF_BANDED, ACF_SPARSEBANDS, ACF_FULLQ}
  BY <1>1, <1>3 DEF Selected, Usable
<1>5. ACF_FULL = 0 /\ ACF_SPARSE = 1 /\ ACF_BANDED = 2 /\ ACF_SPARSEBANDS = 3 /\ ACF_FULLQ = 4
  BY DEF ACF_FULL, ACF_SPARSE, ACF_BANDED, ACF_SPARSEBANDS, ACF_FULLQ
<1>6. k = CASE fm = ACF_FULL   -> IF all THEN "full_all" ELSE "full"
            [] fm = ACF_FULLQ  -> IF all THEN "full_q_all" ELSE "full_q"
            [] fm = ACF_BANDED -> "banded"
            [] fm \in {ACF_SPARSE, ACF_SPARSEBANDS} -> "sparse"
  BY <1>1, <1>3 DEF SearchKind
<1>7. /\ fm \in {ACF_FULL, ACF_FULLQ} => k \notin {"nfa", "banded", "sparse"}
      /\ fm = ACF_BANDED => k = "banded"
      /\ fm \in {ACF_SPARSE, ACF_SPARSEBANDS} => k = "sparse"
  BY <1>4, <1>5, <1>6, SMTT(10)
<1>8. ASSUME NEW s \in 0..n, NEW i \in Inputs
      PROVE  Transition(k, s, i) = Zero(tr[s][i])
  <2>1. PICK row, full : row = nextState[s] /\ full = [j \in Inputs |-> Zero(tr[s][j])]
    OBVIOUS
  <2>2. ReadsAs(fm, row, s, full, matchList[s])
    BY <1>2, <2>1
  <2>3. full[i] = Zero(tr[s][i])
    BY <2>1
  <2>4. CASE fm \in {ACF_FULL, ACF_FULLQ}
    BY <1>7, <2>1, <2>2, <2>3, <2>4 DEF ReadsAs, Transition
  <2>5. CASE fm = ACF_BANDED
    BY <1>7, <2>1, <2>2, <2>3, <2>5 DEF ReadsAs, Transition
  <2>6. CASE fm \in {ACF_SPARSE, ACF_SPARSEBANDS}
    BY <1>7, <2>1, <2>2, <2>3, <2>6 DEF ReadsAs, Transition
  <2> QED BY <1>4, <2>4, <2>5, <2>6
<1>9. ASSUME NEW s \in 0..n, NEW i \in Inputs
      PROVE  /\ Zero(tr[s][i]) \in 0..n
             /\ Longest(st[Zero(tr[s][i])], Append(st[s], i), WordSet(n, st))
  <2>1. WholeRow(n, Zeroed(n, tr), st, s)
    BY <1>2 DEF DfaTable
  <2>2. Zeroed(n, tr)[s][i] = Zero(tr[s][i])
    BY DEF Zeroed
  <2> QED BY <2>1, <2>2 DEF WholeRow
<1> QED BY <1>1, <1>8, <1>9 DEF Leads

LEMMA NfaLeads ==
  ASSUME Known2, Packed, Selected, fsa = FSA_NFA, NEW all
  PROVE  Leads(SearchKind(all), LastState, str)
<1>1. PICK n, st, fm : n = LastState /\ st = str /\ fm = format
  OBVIOUS
<1>2. FSA_NFA # FSA_DFA /\ FSA_NFA # FSA_TRIE
  BY SMTT(10) DEF FSA_DFA, FSA_TRIE, FSA_NFA
<1>3. SearchKind(all) = "nfa" /\ fm \in {ACF_SPARSE, ACF_SPARSEBANDS}
  BY <1>1, <1>2 DEF SearchKind, Selected, Usable
<1>4. PICK tr : /\ Table(Top, tr) /\ NfaTable(n, tr, st) /\ FailsRight(n, st, fail)
                /\ DOMAIN nextState = 0..n
                /\ \A s \in 0..n : ReadsAs(fm, nextState[s], s, [i \in Inputs |-> Zero(tr[s][i])], matchList[s])
  BY <1>1, <1>2 DEF Packed
<1>5. Named(n, st)
  BY <1>1 DEF Known2
<1>6. PICK tw : \A s \in 0..n : WholeRow(n, tw, st, s)
  BY <1>5, WholeTable
<1>7. ASSUME NEW x \in 0..n, NEW i \in Inputs
      PROVE  SparseGetNextStateNFA(nextState[x], x, i) = OrFail(x, Zero(tr[x][i]))
  <2>1. PICK row, full : row = nextState[x] /\ full = [j \in Inputs |-> Zero(tr[x][j])]
    OBVIOUS
  <2>2. ReadsAs(fm, row, x, full, matchList[x])
    BY <1>4, <2>1
  <2> QED BY <1>3, <2>1, <2>2 DEF ReadsAs
<1>8. ASSUME NEW s \in 0..n, NEW i \in Inputs
      PROVE  NfaNext(s, i) = tw[s][i]
  <2>1. \A x \in 0..n : SparseGetNextStateNFA(nextState[x], x, i) = OrFail(x, Zero(tr[x][i]))
    BY <1>7
  <2> QED BY <1>1, <1>4, <1>6, <2>1, NfaReaches
<1>9. \A s \in 0..n, i \in Inputs : Transition("nfa", s, i) = tw[s][i]
  BY <1>8 DEF Transition
<1> QED BY <1>1, <1>3, <1>6, <1>9 DEF Leads, WholeRow

LEMMA TableLeads ==
  ASSUME Known2, Packed, Selected, fsa # FSA_TRIE, NEW all
  PROVE  Leads(SearchKind(all), LastState, str)
<1>1. fsa = FSA_DFA \/ fsa = FSA_NFA
  BY DEF Selected, Usable
<1> QED BY <1>1, DfaLeads, NfaLeads

\* Every flag says whether there are matches.
LEMMA FlagsTell ==
  ASSUME Packed, NEW s \in 0..LastState
  PROVE  Ps(nextState[s], 1) = (IF matchList[s] # <<>> THEN 1 ELSE 0) /\ DOMAIN nextState = 0..LastState
BY DEF Packed, ReadsAs

\* The rows are right.
LEMMA RowsRight ==
  ASSUME Known2, Packed, Selected, fsa # FSA_TRIE
  PROVE  RowsAgree
<1>1. PICK n, st, W : n = LastState /\ st = str /\ W = WordSet(LastState, str)
  OBVIOUS
<1>2. W \in SUBSET Seq(Inputs) /\ Words = W /\ \A s \in 0..n : st[s] \in Seq(Inputs)
  <2>1. Named(n, st)
    BY <1>1 DEF Known2
  <2> QED BY <1>1, <2>1, WordsKnown2, WordsClosed
<1>3. ASSUME NEW all \in BOOLEAN, NEW s \in 0..n, NEW i \in { Up[c] : c \in Inputs }
      PROVE  st[Transition(SearchKind(all), s, i)] = LongestSuffixIn(Append(st[s], i), Words)
  <2>1. i \in Inputs
    BY MCAcsmAssumption
  <2>2. PICK w, x : w = Append(st[s], i) /\ x = st[Transition(SearchKind(all), s, i)]
    OBVIOUS
  <2>3. Longest(x, w, W)
    BY <1>1, <2>1, <2>2, TableLeads DEF Leads
  <2>4. w \in Seq(Inputs)
    BY <1>2, <2>1, <2>2, AppendWord
  <2>5. x = LongestSuffixIn(w, W)
    BY <1>2, <2>3, <2>4, LongestIs
  <2> QED BY <1>2, <2>2, <2>5
<1>4. \A s \in 0..n : Ps(nextState[s], 1) = IF matchList[s] = <<>> THEN 0 ELSE 1
  BY <1>1, FlagsTell
<1>5. n = numStates - 1
  BY <1>1 DEF LastState
<1> QED BY <1>1, <1>3, <1>4, <1>5 DEF RowsAgree

-----------------------------------------------------------------------------
(* The searches of the second machine *)

\* State s stands for the longest word of the trie that w ends in.
Stands(n, st, s, w) == s \in 0..n /\ Longest(st[s], w, WordSet(n, st))

\* The next one stands for one input more.
LEMMA StandsNext ==
  ASSUME NEW n, NEW st, NEW k, NEW s, NEW w, NEW i \in Inputs, Named(n, st), Leads(k, n, st),
         Stands(n, st, s, w), w \in Seq(Inputs)
  PROVE  Stands(n, st, Transition(k, s, i), Append(w, i))
<1>1. PICK W, x, y, z : /\ W = WordSet(n, st) /\ z = Transition(k, s, i)
                        /\ x = st[z] /\ y = st[s]
  OBVIOUS
<1>2. s \in 0..n /\ Longest(y, w, W)
  BY <1>1 DEF Stands
<1>3. z \in 0..n /\ Longest(x, Append(y, i), W)
  BY <1>1, <1>2 DEF Leads
<1>4. PrefixClosed(W) /\ W \in SUBSET Seq(Inputs)
  BY <1>1, WordsClosed
<1>5. Longest(x, Append(w, i), W)
  BY <1>2, <1>3, <1>4, LongestNext
<1> QED BY <1>1, <1>3, <1>5 DEF Stands

\* The root stands for the empty stream.
LEMMA RootStands ==
  ASSUME NEW n, NEW st, Named(n, st)
  PROVE  Stands(n, st, 0, <<>>)
<1>1. PICK W, e : W = WordSet(n, st) /\ e = <<>>
  OBVIOUS
<1>2. W \in SUBSET Seq(Inputs) /\ e \in W /\ 0 \in 0..n /\ e \in Seq(Inputs) /\ st[0] = e
  BY <1>1, WordsClosed, EmptySeq DEF PrefixClosed, Named
<1>3. Longest(e, e, W)
  BY <1>2, LongestOwn
<1> QED BY <1>1, <1>2, <1>3 DEF Stands

\* A character more makes chunk t, and the stream that ends with it, longer.
Longer(b, t, c) ==
  /\ Up[c] \in Inputs /\ Append(t, c) \in Seq(Inputs) /\ Len(Append(t, c)) = Len(t) + 1
  /\ b \o UpWord(Append(t, c)) = Append(b \o UpWord(t), Up[c])

\* What the characters of a chunk make of the stream.
LEMMA StreamGrows ==
  ASSUME NEW b \in Seq(Inputs), NEW t \in Seq(Inputs)
  PROVE  /\ UpWord(t) \in Seq(Inputs) /\ Len(UpWord(t)) = Len(t) /\ Len(t) \in Nat /\ Len(b) \in Nat
         /\ b \o UpWord(t) \in Seq(Inputs) /\ Len(b \o UpWord(t)) = Len(b) + Len(t)
         /\ b \o UpWord(<<>>) = b
         /\ \A c \in Inputs : Longer(b, t, c)
<1>1. /\ UpWord(t) \in Seq(Inputs) /\ Len(UpWord(t)) = Len(t)
      /\ \A c \in Inputs : Up[c] \in Inputs /\ UpWord(Append(t, c)) = Append(UpWord(t), Up[c])
  BY UpWords, SameUpWord
<1>2. PICK u : u = UpWord(t)
  OBVIOUS
<1>3. /\ u \in Seq(Inputs) /\ Len(t) \in Nat /\ Len(b) \in Nat /\ b \o u \in Seq(Inputs)
      /\ Len(b \o u) = Len(b) + Len(u)
  BY <1>1, <1>2, LenProperties, ConcatProperties
<1>4. b \o UpWord(<<>>) = b
  <2>1. PICK e, v : e = <<>> /\ v = UpWord(e)
    OBVIOUS
  <2>2. e \in Seq(Inputs) /\ Len(e) = 0
    BY <2>1, EmptySeq
  <2>3. v \in Seq(Inputs) /\ Len(v) = 0
    BY <2>1, <2>2, UpWords, SameUpWord
  <2>4. v = <<>>
    BY <2>3, EmptySeq
  <2> QED BY <2>1, <2>4, ConcatEmptySeq
<1>5. ASSUME NEW c \in Inputs
      PROVE  b \o UpWord(Append(t, c)) = Append(b \o UpWord(t), Up[c])
  <2>1. PICK i, x, y : i = Up[c] /\ x = b \o Append(u, i) /\ y = Append(b \o u, i)
    OBVIOUS
  <2>2. i \in Inputs
    BY <1>1, <2>1
  <2>3. x = y
    BY <1>3, <2>1, <2>2, SMTT(10)
  <2> QED BY <1>1, <1>2, <2>1, <2>3
<1>6. \A c \in Inputs : Append(t, c) \in Seq(Inputs) /\ Len(Append(t, c)) = Len(t) + 1
  BY AppendWord
<1>7. \A c \in Inputs : Longer(b, t, c)
  BY <1>1, <1>5, <1>6 DEF Longer
<1> QED BY <1>1, <1>2, <1>3, <1>4, <1>7

\* Where the characters of a stream have led.
Streamed ==
  /\ text \in Seq(Inputs) /\ before \in Seq(Inputs)
  /\ pc = "search" => ~stopped /\ \E all \in BOOLEAN : kind = SearchKind(all)
  /\ pc = "search" /\ fsa # FSA_TRIE => /\ Stands(LastState, str, cur, before)
                                        /\ Stands(LastState, str, state, Stream)
  /\ pc = "ready" /\ fsa # FSA_TRIE => Stands(LastState, str, cur, Covered)

\* What a machine ready to search is.
Prepared == Known2 /\ Packed

LEMMA StreamBegins ==
  ASSUME Streamed, fsa # FSA_TRIE => Known2, NEW all \in BOOLEAN, NEW fresh \in BOOLEAN, Begin(all, fresh)
  PROVE  Streamed'
<1>1. PICK n, st, w : n = LastState /\ st = str /\ w = Covered
  OBVIOUS
<1>2. /\ pc = "ready" /\ pc' = "search" /\ kind' = SearchKind(all)
      /\ cur' = (IF fresh THEN 0 ELSE cur) /\ state' = cur'
      /\ before' = (IF fresh THEN <<>> ELSE w) /\ text' = <<>> /\ stopped' = FALSE
      /\ UNCHANGED <<setup, build>>
  BY <1>1 DEF Begin
<1>3. UNCHANGED <<fsa, format, numStates, str>>
  BY <1>2 DEF setup, build
<1>4. fsa' = fsa /\ LastState' = n /\ str' = st /\ \A a : SearchKind(a)' = SearchKind(a)
  BY <1>1, <1>3 DEF LastState, SearchKind
<1>5. w \in Seq(Inputs) /\ before' \in Seq(Inputs) /\ text' \in Seq(Inputs)
  <2>1. text \in Seq(Inputs) /\ before \in Seq(Inputs)
    BY DEF Streamed
  <2>2. before \o UpWord(text) \in Seq(Inputs)
    BY <2>1, StreamGrows
  <2>3. w \in Seq(Inputs)
    BY <1>1, <2>1, <2>2 DEF Covered
  <2> QED BY <1>2, <2>3, EmptySeq
<1>6. ASSUME fsa # FSA_TRIE
      PROVE  Stands(n, st, cur', before') /\ Stands(n, st, state', Stream')
  <2>1. Stands(n, st, cur, w)
    BY <1>1, <1>2, <1>6 DEF Streamed
  <2>2. Named(n, st)
    BY <1>1, <1>6 DEF Known2
  <2>3. Stands(n, st, 0, <<>>)
    BY <2>2, RootStands
  <2>4. Stands(n, st, cur', before')
    BY <1>2, <2>1, <2>3
  <2>5. Stream' = before'
    <3>1. PICK b : b = before'
      OBVIOUS
    <3>2. b \o UpWord(<<>>) = b
      BY <1>5, <3>1, StreamGrows
    <3>3. Stream' = b \o UpWord(<<>>)
      BY <1>2, <3>1 DEF Stream, UpWord
    <3> QED BY <3>1, <3>2, <3>3
  <2> QED BY <1>2, <2>4, <2>5
<1>7. ~stopped' /\ \E a \in BOOLEAN : kind' = SearchKind(a)'
  BY <1>2, <1>4
<1> QED BY <1>2, <1>4, <1>5, <1>6, <1>7 DEF Streamed

\* A character and the next state.
LEMMA StreamGoesOn ==
  ASSUME Streamed, Prepared, Selected, fsa # FSA_TRIE, pc = "search", NEW c \in Inputs
  PROVE  /\ Append(text, c) \in Seq(Inputs)
         /\ Stands(LastState, str, Transition(kind, state, Up[c]), before \o UpWord(Append(text, c)))
         /\ Transition(kind, state, Up[c]) \in DOMAIN nextState
<1>1. PICK n, st, w : n = LastState /\ st = str /\ w = before \o UpWord(text)
  OBVIOUS
<1>2. text \in Seq(Inputs) /\ before \in Seq(Inputs) /\ Stands(n, st, state, w)
  BY <1>1 DEF Streamed, Stream
<1>3. PICK all \in BOOLEAN : kind = SearchKind(all)
  BY DEF Streamed
<1>4. Known2 /\ Packed /\ Named(n, st) /\ DOMAIN nextState = 0..n
  BY <1>1 DEF Prepared, Known2, Packed
<1>5. Leads(kind, n, st)
  BY <1>1, <1>3, <1>4, TableLeads
<1>6. PICK i : i = Up[c]
  OBVIOUS
<1>7. /\ w \in Seq(Inputs) /\ i \in Inputs /\ Append(text, c) \in Seq(Inputs)
      /\ before \o UpWord(Append(text, c)) = Append(w, i)
  <2>1. PICK b, t : b = before /\ t = text
    OBVIOUS
  <2>2. b \in Seq(Inputs) /\ t \in Seq(Inputs)
    BY <1>2, <2>1
  <2>3. b \o UpWord(t) \in Seq(Inputs)
    BY <2>2, StreamGrows
  <2>4. Longer(b, t, c)
    BY <2>2, StreamGrows
  <2> QED BY <1>1, <1>6, <2>1, <2>3, <2>4 DEF Longer
<1>8. Stands(n, st, Transition(kind, state, i), Append(w, i))
  BY <1>2, <1>4, <1>5, <1>7, StandsNext
<1>9. Transition(kind, state, i) \in DOMAIN nextState
  BY <1>4, <1>8 DEF Stands
<1> QED BY <1>1, <1>6, <1>7, <1>8, <1>9

LEMMA StreamSteps ==
  ASSUME Streamed, Prepared, Selected, fsa # FSA_TRIE, StepBefore \/ StepAfter
  PROVE  Streamed' /\ pc' # "crashed"
<1>1. PICK n, st : n = LastState /\ st = str
  OBVIOUS
<1>2. UNCHANGED <<setup, build, kind, before>> /\ pc = "search"
  BY DEF StepBefore, StepAfter
<1>3. UNCHANGED <<fsa, format, numStates, str>> /\ before' = before /\ kind' = kind
  BY <1>2 DEF setup, build
<1>4. fsa' = fsa /\ LastState' = n /\ str' = st /\ \A a : SearchKind(a)' = SearchKind(a)
  BY <1>1, <1>3 DEF LastState, SearchKind
<1>5. /\ text \in Seq(Inputs) /\ before \in Seq(Inputs) /\ ~stopped
      /\ \E all \in BOOLEAN : kind = SearchKind(all)
      /\ Stands(n, st, cur, before) /\ Stands(n, st, state, before \o UpWord(text))
  BY <1>1, <1>2 DEF Streamed, Stream
<1>6. \A c \in Inputs : /\ Append(text, c) \in Seq(Inputs)
                        /\ Stands(n, st, Transition(kind, state, Up[c]), before \o UpWord(Append(text, c)))
                        /\ Transition(kind, state, Up[c]) \in DOMAIN nextState
  BY <1>1, <1>2, StreamGoesOn
<1>7. Stream' = before \o UpWord(text')
  BY <1>3 DEF Stream, UpWord
<1>8. stopped' => Covered' = before \o UpWord(text')
  BY <1>3 DEF Covered, UpWord
\* A call that goes on.
<1>9. ASSUME pc' = "search", ~stopped', text' \in Seq(Inputs), cur' = cur,
             Stands(n, st, state', before \o UpWord(text'))
      PROVE  Streamed' /\ pc' # "crashed"
  BY <1>3, <1>4, <1>5, <1>7, <1>9 DEF Streamed
\* A call that Match stops.
<1>10. ASSUME pc' = "ready", stopped', text' \in Seq(Inputs),
              Stands(n, st, cur', before \o UpWord(text'))
       PROVE  Streamed' /\ pc' # "crashed"
  BY <1>3, <1>4, <1>5, <1>8, <1>10 DEF Streamed
<1>11. CASE StepBefore
  <2>1. PICK o \in LookInLoop(state, text) :
          /\ Take(o)
          /\ IF o.stop
             THEN Return(state) /\ UNCHANGED <<text, state>>
             ELSE /\ \E c \in Inputs : /\ text' = Append(text, c)
                                       /\ state' = Transition(kind, state, Up[c])
                  /\ UNCHANGED <<pc, cur>>
    BY <1>11 DEF StepBefore
  <2>2. stopped' = o.stop
    BY <2>1 DEF Take
  <2>3. CASE o.stop
    <3>1. pc' = "ready" /\ cur' = state /\ text' = text
      BY <2>1, <2>3 DEF Return
    <3> QED BY <1>5, <1>10, <2>2, <2>3, <3>1
  <2>4. CASE ~o.stop
    <3>1. PICK c \in Inputs : text' = Append(text, c) /\ state' = Transition(kind, state, Up[c])
      BY <2>1, <2>4
    <3>2. pc' = "search" /\ cur' = cur
      BY <1>2, <2>1, <2>4
    <3>3. text' \in Seq(Inputs) /\ Stands(n, st, state', before \o UpWord(text'))
      BY <1>6, <3>1
    <3> QED BY <1>9, <2>2, <2>4, <3>2, <3>3
  <2> QED BY <2>3, <2>4
<1>12. CASE StepAfter
  <2>1. PICK c \in Inputs :
          LET next == Transition(kind, state, Up[c])
          IN  /\ text' = Append(text, c)
              /\ IF next \notin DOMAIN nextState
                 THEN pc' = "crashed" /\ UNCHANGED <<state, pmq, reports, cur, stopped>>
                 ELSE \E o \in LookInLoop(next, text') :
                        /\ Take(o)
                        /\ state' = next
                        /\ IF o.stop THEN Return(next) ELSE UNCHANGED <<pc, cur>>
    BY <1>12 DEF StepAfter
  <2>2. PICK next : next = Transition(kind, state, Up[c])
    OBVIOUS
  <2>3. /\ text' = Append(text, c) /\ text' \in Seq(Inputs) /\ next \in DOMAIN nextState
        /\ Stands(n, st, next, before \o UpWord(text'))
    BY <1>6, <2>1, <2>2
  <2>4. PICK o \in LookInLoop(next, text') :
          Take(o) /\ state' = next /\ IF o.stop THEN Return(next) ELSE UNCHANGED <<pc, cur>>
    BY <2>1, <2>2, <2>3
  <2>5. stopped' = o.stop
    BY <2>4 DEF Take
  <2>6. CASE o.stop
    <3>1. pc' = "ready" /\ cur' = next
      BY <2>4, <2>6 DEF Return
    <3> QED BY <1>10, <2>3, <2>5, <2>6, <3>1
  <2>7. CASE ~o.stop
    <3>1. pc' = "search" /\ cur' = cur
      BY <1>2, <2>4, <2>7
    <3> QED BY <1>9, <2>3, <2>4, <2>5, <2>7, <3>1
  <2> QED BY <2>6, <2>7
<1> QED BY <1>11, <1>12

LEMMA StreamEnds ==
  ASSUME Streamed, Finish
  PROVE  Streamed' /\ pc' = "ready"
<1>1. PICK n, st, w : n = LastState /\ st = str /\ w = before \o UpWord(text)
  OBVIOUS
<1>2. UNCHANGED <<setup, build, kind, before, text>> /\ pc = "search" /\ pc' = "ready"
  BY DEF Finish, Return
<1>3. UNCHANGED <<fsa, numStates, str, before, text, kind>>
  BY <1>2 DEF setup, build
<1>4. fsa' = fsa /\ LastState' = n /\ str' = st
  BY <1>1, <1>3 DEF LastState
<1>5. /\ text \in Seq(Inputs) /\ before \in Seq(Inputs) /\ ~stopped
      /\ fsa # FSA_TRIE => Stands(n, st, cur, before) /\ Stands(n, st, state, w)
  BY <1>1, <1>2 DEF Streamed, Stream
<1>6. Covered' = IF KeepsState(kind) /\ ~stopped' THEN before ELSE w
  BY <1>1, <1>3 DEF Covered, KeepsState, UpWord
<1>7. cur' = IF KeepsState(kind) /\ ~stopped' THEN cur ELSE state
  <2>1. CASE After(kind) \/ kind = "trie"
    <3>1. stopped' = stopped /\ cur' = IF KeepsState(kind) THEN cur ELSE state
      BY <2>1 DEF Finish, Return
    <3> QED BY <1>5, <3>1
  <2>2. CASE ~(After(kind) \/ kind = "trie")
    <3>1. PICK o \in Look(state, text) : \E p \in IF Queued(kind) /\ ~o.stop THEN ProcessQueue(o) ELSE {o} :
            Take(p) /\ Return(IF KeepsState(kind) /\ ~p.stop THEN cur ELSE state)
      BY <2>2 DEF Finish
    <3>2. PICK p : Take(p) /\ Return(IF KeepsState(kind) /\ ~p.stop THEN cur ELSE state)
      BY <3>1
    <3> QED BY <3>2 DEF Take, Return
  <2> QED BY <2>1, <2>2
<1>8. fsa # FSA_TRIE => Stands(n, st, cur', Covered')
  BY <1>5, <1>6, <1>7
<1> QED BY <1>2, <1>3, <1>4, <1>5, <1>8 DEF Streamed

-----------------------------------------------------------------------------
(* The invariant of the searches *)

\* Before the first chunk.
Unsearched ==
  /\ kind = "none" /\ text = <<>> /\ before = <<>> /\ state = 0 /\ cur = 0 /\ calls = 0
  /\ pmq = <<>> /\ reports = <<>> /\ stopped = FALSE

\* What holds of the second machine in each phase, besides SecondInv.
ThirdInv ==
  /\ Selected /\ pc # "crashed"
  /\ pc \in {"setup", "trie", "nfa", "dfa", "rows"} => Unsearched
  /\ pc \in {"ready", "search"} => Streamed /\ (fsa # FSA_TRIE => Packed)

\* What its steps leave alone.
LEMMA SelectedKept ==
  ASSUME Selected, UNCHANGED <<fsa, format, maxZcnt, compress>>
  PROVE  Selected'
BY DEF Selected

LEMMA PackedKept ==
  ASSUME Packed, UNCHANGED <<fsa, format, patterns, numStates, str, fail, matchList, nextState>>
  PROVE  Packed'
<1>1. Top' = Top /\ LastState' = LastState
  BY TopKept DEF LastState
<1> QED BY <1>1 DEF Packed

LEMMA ThirdInvInit ==
  ASSUME MCInit
  PROVE  ThirdInv
<1>1. Unsearched /\ pc = "setup" /\ fsa = FSA_DFA /\ format = ACF_FULL /\ maxZcnt = 10 /\ compress = FALSE
  BY DEF MCInit, Init, Unsearched
<1>2. Selected
  <2>1. maxZcnt \in Int
    BY <1>1, SMTT(10)
  <2>2. compress \in BOOLEAN
    BY <1>1
  <2> QED BY <1>1, <2>2, <2>1 DEF Selected, Usable
<1> QED BY <1>1, <1>2 DEF ThirdInv

LEMMA ThirdInvBuilds ==
  ASSUME SecondInv, ThirdInv, Building
  PROVE  ThirdInv'
<1>1. UNCHANGED <<setup, search>>
  BY DEF Building, AddPatternStates, TrieDone, Build_NFA, NfaDone, Convert_NFA_To_DFA, DfaDone, Convert
<1>2. UNCHANGED <<fsa, format, maxZcnt, compress, kind, text, before, state, cur, calls, pmq, reports, stopped>>
  BY <1>1 DEF setup, search
<1>3. Selected'
  BY <1>2, SelectedKept DEF ThirdInv
<1>4. pc \in {"trie", "nfa", "dfa", "rows"}
  BY DEF Building, AddPatternStates, TrieDone, Build_NFA, NfaDone, Convert_NFA_To_DFA, DfaDone, Convert
<1>5. Unsearched /\ Unsearched'
  BY <1>2, <1>4 DEF ThirdInv, Unsearched
<1>6. CASE Convert
  <2>1. pc = "rows" /\ pc' = "ready" /\ UNCHANGED <<fsa, numStates, str>>
    BY <1>2, <1>6 DEF Convert
  <2>2. fsa # FSA_TRIE => InRows
    BY <2>1 DEF SecondInv
  <2>3. fsa # FSA_TRIE => Packed'
    BY <1>6, <2>2, Converted DEF ThirdInv
  <2>4. PICK n, st : n = LastState /\ st = str
    OBVIOUS
  <2>5. LastState' = n /\ str' = st
    BY <2>1, <2>4 DEF LastState
  <2>6. fsa # FSA_TRIE => Stands(n, st, 0, <<>>)
    <3>1. fsa # FSA_TRIE => Named(n, st)
      BY <2>2, <2>4 DEF InRows, NfaBuilt, Supplied, Known2
    <3> QED BY <3>1, RootStands
  <2>7. Covered' = <<>>
    <3>1. <<>> \o UpWord(<<>>) = <<>>
      <4>1. PICK e \in Seq(Inputs) : e = <<>>
        BY EmptySeq
      <4> QED BY <4>1, StreamGrows
    <3>2. kind' = "none" /\ text' = <<>> /\ before' = <<>>
      BY <1>5 DEF Unsearched
    <3>3. Covered' = <<>> \o UpWord(<<>>)
      BY <3>2 DEF Covered, KeepsState, UpWord
    <3> QED BY <3>1, <3>3
  <2>8. Streamed'
    <3>1. text' = <<>> /\ before' = <<>> /\ cur' = 0
      BY <1>5 DEF Unsearched
    <3>2. <<>> \in Seq(Inputs)
      BY EmptySeq
    <3> QED BY <2>1, <2>5, <2>6, <2>7, <3>1, <3>2 DEF Streamed
  <2> QED BY <1>3, <2>1, <2>3, <2>8 DEF ThirdInv
<1>7. CASE ~Convert
  <2>1. pc' \in {"trie", "nfa", "dfa", "rows"}
    <3>1. AddPatternStates \/ TrieDone \/ Build_NFA \/ NfaDone \/ Convert_NFA_To_DFA \/ DfaDone
      BY <1>7 DEF Building
    <3>2. AddPatternStates \/ Build_NFA \/ Convert_NFA_To_DFA => pc' = pc
      BY DEF AddPatternStates, Build_NFA, Convert_NFA_To_DFA
    <3>3. TrieDone \/ NfaDone \/ DfaDone => pc' \in {"nfa", "dfa", "rows"}
      BY DEF TrieDone, NfaDone, DfaDone
    <3> QED BY <1>4, <3>1, <3>2, <3>3
  <2> QED BY <1>3, <1>5, <2>1 DEF ThirdInv
<1> QED BY <1>6, <1>7

LEMMA ThirdInvSearches ==
  ASSUME SecondInv, ThirdInv,
         (\E all, fresh \in BOOLEAN : Begin(all, fresh)) \/ StepBefore \/ StepAfter \/ Finish
  PROVE  ThirdInv'
<1>1. UNCHANGED <<setup, build>> /\ pc \in {"ready", "search"}
  BY DEF Begin, StepBefore, StepAfter, Finish
<1>2. UNCHANGED <<fsa, format, maxZcnt, compress, patterns, numStates, str, fail, matchList, nextState>>
  BY <1>1 DEF setup, build
<1>3. Selected /\ Streamed /\ Selected'
  BY <1>1, <1>2, SelectedKept DEF ThirdInv
<1>4. fsa # FSA_TRIE => Prepared /\ Packed'
  BY <1>1, <1>2, PackedKept DEF ThirdInv, SecondInv, Supplied, Prepared
<1>5. Streamed' /\ pc' \in {"ready", "search"}
  <2>1. ASSUME NEW all \in BOOLEAN, NEW fresh \in BOOLEAN, Begin(all, fresh)
        PROVE  Streamed' /\ pc' = "search"
    <3>1. pc' = "search"
      BY <2>1 DEF Begin
    <3>2. Streamed'
      BY <1>3, <1>4, <2>1, StreamBegins DEF Prepared
    <3> QED BY <3>1, <3>2
  <2>2. CASE StepBefore \/ StepAfter
    <3>1. fsa # FSA_TRIE
      <4>1. pc = "search" /\ kind # "trie"
        BY <2>2 DEF StepBefore, StepAfter, After
      <4>2. \E all \in BOOLEAN : kind = SearchKind(all)
        BY <1>3, <4>1 DEF Streamed
      <4>3. FSA_TRIE # FSA_NFA /\ FSA_TRIE # FSA_DFA
        BY SMTT(10) DEF FSA_TRIE, FSA_NFA, FSA_DFA
      <4> QED BY <4>1, <4>2, <4>3 DEF SearchKind
    <3>2. Streamed' /\ pc' # "crashed"
      BY <1>3, <1>4, <2>2, <3>1, StreamSteps
    <3>3. pc' \in {"ready", "search", "crashed"}
      <4>1. pc = "search"
        BY <2>2 DEF StepBefore, StepAfter
      <4>2. pc' = "crashed" \/ pc' = "ready" \/ pc' = pc
        BY <2>2 DEF StepBefore, StepAfter, Return
      <4> QED BY <4>1, <4>2
    <3> QED BY <3>2, <3>3
  <2>3. CASE Finish
    BY <1>3, <2>3, StreamEnds
  <2> QED BY <2>1, <2>2, <2>3
<1> QED BY <1>2, <1>3, <1>4, <1>5 DEF ThirdInv

LEMMA ThirdInvNext ==
  ASSUME ModesUsable, SecondInv, ThirdInv, Next
  PROVE  ThirdInv'
<1>1. ASSUME NEW mode \in Modes, Select(mode)
      PROVE  ThirdInv'
  <2>1. /\ pc = "setup" /\ pc' = "setup" /\ UNCHANGED search
        /\ fsa' = mode[1] /\ format' = mode[2] /\ maxZcnt' = mode[4] /\ compress' = mode[5]
    BY <1>1 DEF Select
  <2>2. Unsearched'
    BY <2>1 DEF ThirdInv, Unsearched, search
  <2>3. Usable(mode[1], mode[2], mode[4], mode[5])
    BY DEF ModesUsable
  <2>4. Selected'
    BY <2>1, <2>3 DEF Selected
  <2> QED BY <2>1, <2>2, <2>4 DEF ThirdInv
<1>2. ASSUME NEW t \in Texts, NEW nocase \in BOOLEAN, AddPattern(t, nocase)
      PROVE  ThirdInv'
  <2>1. /\ pc = "setup" /\ pc' = "setup" /\ UNCHANGED search
        /\ UNCHANGED <<fsa, format, maxZcnt, compress>>
    BY <1>2 DEF AddPattern
  <2>2. Unsearched' /\ Selected'
    BY <2>1, SelectedKept DEF ThirdInv, Unsearched, search
  <2> QED BY <2>1, <2>2 DEF ThirdInv
<1>3. ASSUME Compile
      PROVE  ThirdInv'
  <2>1. /\ pc = "setup" /\ pc' = "trie" /\ UNCHANGED search
        /\ UNCHANGED <<fsa, format, maxZcnt, compress>>
    BY <1>3 DEF Compile, setup
  <2>2. Unsearched' /\ Selected'
    BY <2>1, SelectedKept DEF ThirdInv, Unsearched, search
  <2> QED BY <2>1, <2>2 DEF ThirdInv
<1>4. ASSUME Free
      PROVE  ThirdInv'
  <2>1. pc' = "freed" /\ UNCHANGED <<fsa, format, maxZcnt, compress>>
    BY <1>4 DEF Free
  <2>2. Selected'
    BY <2>1, SelectedKept DEF ThirdInv
  <2> QED BY <2>1, <2>2 DEF ThirdInv
<1> QED BY <1>1, <1>2, <1>3, <1>4, ThirdInvBuilds, ThirdInvSearches DEF Next

LEMMA ThirdInvStutters ==
  ASSUME ThirdInv, UNCHANGED mcvars
  PROVE  ThirdInv'
<1>1. UNCHANGED <<fsa, format, maxZcnt, compress, patterns, pc, numStates, fail, matchList, nextState, str,
                  kind, text, before, state, cur, calls, pmq, reports, stopped>>
  BY DEF mcvars, vars, setup, build, search
<1>2. Selected' /\ (Packed => Packed')
  BY <1>1, SelectedKept, PackedKept DEF ThirdInv
<1>3. Unsearched => Unsearched'
  BY <1>1 DEF Unsearched
<1>4. Streamed => Streamed'
  <2>1. LastState' = LastState /\ Stream' = Stream /\ Covered' = Covered /\ \A a : SearchKind(a)' = SearchKind(a)
    BY <1>1 DEF LastState, Stream, Covered, SearchKind, KeepsState, UpWord
  <2> QED BY <1>1, <2>1 DEF Streamed
<1> QED BY <1>1, <1>2, <1>3, <1>4 DEF ThirdInv

\* The two invariants together.
CInv == version # 1 => SecondInv /\ ThirdInv

\* At each step of the second machine, in any usable mode, the rows that
\* Conv_List_To_Full and its sparse and banded kin (acsmx2.c:1008-1771) made are read as
\* what they were made from, and the states that calls leave behind stand for words.
THEOREM CInvAlways ==
  ASSUME Room, ModesUsable
  PROVE  MCSpec => []CInv
<1>1. MCInit => CInv
  BY SecondInvInit, ThirdInvInit DEF CInv
<1>2. CInv /\ [MCNext]_mcvars => CInv'
  <2> SUFFICES ASSUME CInv, [MCNext]_mcvars, version' # 1
               PROVE  SecondInv' /\ ThirdInv'
    BY DEF CInv
  <2>1. CASE version = 1 /\ V1!Next /\ OthersOf1
    BY <2>1 DEF OthersOf1
  <2>2. CASE version = 2 /\ Next /\ UNCHANGED version
    BY <2>2, SecondInvNext, ThirdInvNext DEF CInv
  <2>3. CASE UNCHANGED mcvars
    <3>1. version # 1
      BY <2>3 DEF mcvars
    <3> QED BY <2>3, <3>1, SecondInvStutters, ThirdInvStutters DEF CInv
  <2> QED BY <2>1, <2>2, <2>3 DEF MCNext
<1> QED BY <1>1, <1>2, PTL DEF MCSpec

\* What a call leaves is carried on.
LEMMA CarriedRight ==
  ASSUME SecondInv, ThirdInv
  PROVE  CarriedState
<1> SUFFICES ASSUME pc = "ready", fsa # FSA_TRIE
             PROVE  str[cur] = LongestSuffixIn(Covered, Words)
  BY DEF CarriedState
<1>1. PICK n, st, W, w, x : n = LastState /\ st = str /\ W = WordSet(n, st) /\ w = Covered /\ x = st[cur]
  OBVIOUS
<1>2. Known2 /\ Streamed
  BY DEF SecondInv, ThirdInv, Supplied
<1>3. W \in SUBSET Seq(Inputs) /\ Words = W
  BY <1>1, <1>2, WordsKnown2
<1>4. Longest(x, w, W)
  BY <1>1, <1>2 DEF Streamed, Stands
<1>5. w \in Seq(Inputs)
  <2>1. text \in Seq(Inputs) /\ before \in Seq(Inputs)
    BY <1>2 DEF Streamed
  <2>2. before \o UpWord(text) \in Seq(Inputs)
    BY <2>1, StreamGrows
  <2> QED BY <1>1, <2>1, <2>2 DEF Covered
<1>6. x = LongestSuffixIn(w, W)
  BY <1>3, <1>4, <1>5, LongestIs
<1> QED BY <1>1, <1>3, <1>6

\* Rows, of acsmx.c and acsmx2.c: however a row was packed (acsmx2.c:1018-1775), the search
\* function that reads it gets the next state of the automaton, on every input, the
\* NFA search with its failure loop (acsmx2.c:3040), and the flag word says whether the
\* state has matches.
THEOREM RowsAlways ==
  ASSUME Room, ModesUsable
  PROVE  MCSpec => []Rows
<1>1. CInv => (version # 1 => Rows)
  <2> SUFFICES ASSUME version # 1, SecondInv, ThirdInv
               PROVE  RowsAgree
    BY DEF CInv, Rows
  <2>1. CASE pc = "ready" /\ fsa # FSA_TRIE
    BY <2>1, RowsRight DEF SecondInv, ThirdInv, Supplied
  <2>2. CASE ~(pc = "ready" /\ fsa # FSA_TRIE)
    BY <2>2 DEF RowsAgree
  <2> QED BY <2>1, <2>2
<1>2. MCSpec => [](version # 1 => Rows)
  BY <1>1, CInvAlways, PTL
<1>3. (version = 1 => Rows) /\ (version # 1 => Rows) => Rows
  OBVIOUS
<1> QED BY <1>2, <1>3, FirstRows, PTL

\* Carried, of acsmx.c and acsmx2.c: after each chunk the state left to the next stands
\* for the longest word that the stream ends in: the stream read, or, for the banded
\* and the NFA search (acsmx2.c:2938, 3016) that ran to the end of the chunk, the one before.
THEOREM CarriedAlways ==
  ASSUME Room, ModesUsable
  PROVE  MCSpec => []Carried
<1>1. CInv => (version # 1 => Carried)
  BY CarriedRight DEF CInv, Carried
<1>2. MCSpec => [](version # 1 => Carried)
  BY <1>1, CInvAlways, PTL
<1>3. (version = 1 => Carried) /\ (version # 1 => Carried) => Carried
  OBVIOUS
<1> QED BY <1>2, <1>3, FirstCarried, PTL

-----------------------------------------------------------------------------
(* What the searches of the second machine tell *)

\* The places of the match lists, and the calls of Match.
Slots(n, ml) == { e \in (0..n) \X Nat : e[2] \in 1..Len(ml[e[1]]) }
Calls == [id : Nat, index : Int]
Outcomes(n, ml) == [pmq : Seq(Slots(n, ml)), reports : Seq(Calls), stop : BOOLEAN]

\* The pattern a place of a list holds.
IdOf(ml, e) == ml[e[1]][e[2]].id

\* The patterns that were told of or wait in the queue.
SaidIds(ml, o) == { IdOf(ml, o.pmq[y]) : y \in 1..Len(o.pmq) }
                    \cup { o.reports[y].id : y \in 1..Len(o.reports) }

\* The queue holds no entry twice, and nothing once Match has stopped the search.
Once(q) == \A x, y \in 1..Len(q) : q[x] = q[y] => x = y
Orderly(n, ml, o) == o \in Outcomes(n, ml) /\ Once(o.pmq) /\ (o.stop => o.pmq = <<>>)

\* It is not full, only patterns of I are told of, and those of K are unless Match
\* has stopped the search.
Within(ml, o, I, K) == SaidIds(ml, o) \subseteq I /\ (o.stop \/ K \subseteq SaidIds(ml, o))
Queueing(n, ml, o, I, K) ==
  Orderly(n, ml, o) /\ Len(o.pmq) < AC_MAX_INQ /\ Within(ml, o, I, K)

\* The lists hold patterns.
ListsOf(n, ml) == n \in Nat /\ \A s \in 0..n : ml[s] \in Seq(Entry)

LEMMA SlotEntry ==
  ASSUME NEW n, NEW ml, ListsOf(n, ml), NEW e \in Slots(n, ml)
  PROVE  /\ e[1] \in 0..n /\ e[2] \in 1..Len(ml[e[1]]) /\ e = <<e[1], e[2]>>
         /\ ml[e[1]][e[2]] \in Entry /\ IdOf(ml, e) \in Nat
<1>1. e[1] \in 0..n /\ e[2] \in 1..Len(ml[e[1]]) /\ e = <<e[1], e[2]>>
  BY DEF Slots
<1>2. PICK l, x : l = ml[e[1]] /\ x = e[2]
  OBVIOUS
<1>3. l \in Seq(Entry) /\ x \in 1..Len(l)
  BY <1>1, <1>2 DEF ListsOf
<1>4. l[x] \in Entry
  BY <1>3, ElementOfSeq
<1>5. l[x].id \in Nat
  BY <1>4 DEF Entry
<1> QED BY <1>1, <1>2, <1>4, <1>5 DEF IdOf

\* The elements of two sequences one behind the other, and of the beginning of one.
LEMMA BehindEachOther ==
  ASSUME NEW S, NEW a \in Seq(S), NEW b \in Seq(S)
  PROVE  /\ a \o b \in Seq(S) /\ Len(a \o b) = Len(a) + Len(b) /\ Len(a) \in Nat /\ Len(b) \in Nat
         /\ \A y \in 1..Len(a) : y \in 1..Len(a \o b) /\ (a \o b)[y] = a[y]
         /\ \A y \in 1..Len(b) : Len(a) + y \in 1..Len(a \o b) /\ (a \o b)[Len(a) + y] = b[y]
         /\ \A y \in 1..Len(a \o b) :
              y \in 1..Len(a) \/ (y - Len(a) \in 1..Len(b) /\ (a \o b)[y] = b[y - Len(a)])
<1>1. PICK c : c = a \o b
  OBVIOUS
<1>2. /\ c \in Seq(S) /\ Len(c) = Len(a) + Len(b) /\ Len(a) \in Nat /\ Len(b) \in Nat
      /\ \A y \in 1..Len(c) : c[y] = IF y <= Len(a) THEN a[y] ELSE b[y - Len(a)]
  BY <1>1, ConcatProperties, LenProperties
<1>3. ASSUME NEW y \in 1..Len(a)
      PROVE  y \in 1..Len(c) /\ c[y] = a[y]
  <2>1. y \in 1..Len(c) /\ y <= Len(a)
    BY <1>2, SMTT(10)
  <2> QED BY <1>2, <2>1
<1>4. ASSUME NEW y \in 1..Len(b)
      PROVE  Len(a) + y \in 1..Len(c) /\ c[Len(a) + y] = b[y]
  <2>1. PICK z : z = Len(a) + y
    OBVIOUS
  <2>2. z \in 1..Len(c) /\ ~(z <= Len(a)) /\ z - Len(a) = y
    BY <1>2, <2>1, SMTT(10)
  <2> QED BY <1>2, <2>1, <2>2
<1>5. ASSUME NEW y \in 1..Len(c)
      PROVE  y \in 1..Len(a) \/ (y - Len(a) \in 1..Len(b) /\ c[y] = b[y - Len(a)])
  <2>1. y <= Len(a) \/ (y - Len(a) \in 1..Len(b) /\ ~(y <= Len(a)))
    BY <1>2, SMTT(10)
  <2>2. y <= Len(a) => y \in 1..Len(a)
    BY <1>2, SMTT(10)
  <2> QED BY <1>2, <2>1, <2>2
<1> QED BY <1>1, <1>2, <1>3, <1>4, <1>5

LEMMA FrontOf ==
  ASSUME NEW S, NEW d \in Seq(S), NEW m \in 0..Len(d)
  PROVE  /\ SubSeq(d, 1, m) \in Seq(S) /\ Len(SubSeq(d, 1, m)) = m
         /\ \A y \in 1..m : SubSeq(d, 1, m)[y] = d[y] /\ y \in 1..Len(d)
<1>1. PICK f : f = SubSeq(d, 1, m)
  OBVIOUS
<1>2. Len(d) \in Nat /\ m \in Nat /\ m \in Int /\ 1 \in Int /\ \A y \in 1..m : y \in 1..Len(d)
  <2>1. Len(d) \in Nat
    BY LenProperties
  <2> QED BY <2>1, SMTT(10)
<1>3. \A y \in 1..m : d[y] \in S
  BY <1>2, ElementOfSeq
<1>4. /\ f \in Seq(S) /\ Len(f) = (IF 1 <= m THEN m - 1 + 1 ELSE 0)
      /\ \A y \in 1..(m - 1 + 1) : f[y] = d[1 + y - 1]
  BY <1>1, <1>2, <1>3, SubSeqProperties
<1>5. Len(f) = m /\ \A y \in 1..m : y \in 1..(m - 1 + 1) /\ 1 + y - 1 = y
  <2>1. Len(f) = m
    BY <1>2, <1>4, SMTT(10)
  <2>2. \A y \in 1..m : y \in 1..(m - 1 + 1) /\ 1 + y - 1 = y
    BY <1>2, SMTT(10)
  <2> QED BY <2>1, <2>2
<1> QED BY <1>1, <1>2, <1>4, <1>5

\* What reports d make of o: all of them are told, or those up to the one that stops it.
Tells(n, ml, o, d, p) ==
  /\ p \in Outcomes(n, ml) /\ p.pmq = <<>>
  /\ \E m \in 0..Len(d) : /\ p.reports = o.reports \o SubSeq(d, 1, m)
                          /\ p.stop \/ SubSeq(d, 1, m) = d

LEMMA DeliveredIs ==
  ASSUME NEW n, NEW ml, NEW o \in Outcomes(n, ml), ~o.stop, NEW d \in Seq(Calls),
         NEW p \in Delivered(o, d)
  PROVE  Tells(n, ml, o, d, p)
<1>1. /\ o.pmq \in Seq(Slots(n, ml)) /\ o.reports \in Seq(Calls) /\ Len(d) \in Nat /\ <<>> \in Seq(Slots(n, ml))
      /\ o = [pmq |-> o.pmq, reports |-> o.reports, stop |-> o.stop]
  <2>1. Len(d) \in Nat /\ <<>> \in Seq(Slots(n, ml))
    BY LenProperties, EmptySeq
  <2> QED BY <2>1 DEF Outcomes
<1>2. CASE p = [o EXCEPT !.reports = @ \o d, !.pmq = <<>>]
  <2>1. p.reports = o.reports \o d /\ p.pmq = <<>> /\ p.stop = o.stop
        /\ p = [pmq |-> <<>>, reports |-> o.reports \o d, stop |-> o.stop]
    BY <1>1, <1>2
  <2>2. Len(d) \in 0..Len(d) /\ SubSeq(d, 1, Len(d)) = d
    <3>1. Len(d) \in 0..Len(d)
      BY <1>1, SMTT(10)
    <3>2. PICK f : f = SubSeq(d, 1, Len(d))
      OBVIOUS
    <3>3. f \in Seq(Calls) /\ Len(f) = Len(d) /\ \A y \in 1..Len(d) : f[y] = d[y]
      BY <3>1, <3>2, FrontOf
    <3>4. f = d
      BY <3>3, SeqEqual
    <3> QED BY <3>1, <3>2, <3>4
  <2>3. o.reports \o d \in Seq(Calls)
    BY <1>1, BehindEachOther
  <2>4. p \in Outcomes(n, ml)
    BY <1>1, <2>1, <2>3 DEF Outcomes
  <2> QED BY <2>1, <2>2, <2>4 DEF Tells
<1>3. CASE \E m \in 1..Len(d) : p = [o EXCEPT !.reports = @ \o SubSeq(d, 1, m), !.pmq = <<>>, !.stop = TRUE]
  <2>1. PICK m \in 1..Len(d) : p = [o EXCEPT !.reports = @ \o SubSeq(d, 1, m), !.pmq = <<>>, !.stop = TRUE]
    BY <1>3
  <2>2. PICK f : f = SubSeq(d, 1, m)
    OBVIOUS
  <2>3. p.reports = o.reports \o f /\ p.pmq = <<>> /\ p.stop = TRUE
        /\ p = [pmq |-> <<>>, reports |-> o.reports \o f, stop |-> TRUE]
    BY <1>1, <2>1, <2>2
  <2>4. m \in 0..Len(d)
    BY <1>1, SMTT(10)
  <2>5. f \in Seq(Calls)
    BY <2>2, <2>4, FrontOf
  <2>6. o.reports \o f \in Seq(Calls)
    BY <1>1, <2>5, BehindEachOther
  <2>7. p \in Outcomes(n, ml)
    BY <1>1, <2>3, <2>6 DEF Outcomes
  <2> QED BY <2>2, <2>3, <2>4, <2>7 DEF Tells
<1> QED BY <1>2, <1>3 DEF Delivered

\* What is told of once reports d are made.
LEMMA DeliveredIds ==
  ASSUME NEW n, NEW ml, NEW o \in Outcomes(n, ml), ~o.stop, NEW d \in Seq(Calls),
         NEW p \in Delivered(o, d)
  PROVE  /\ \A x \in SaidIds(ml, p) : \/ \E y \in 1..Len(o.reports) : o.reports[y].id = x
                                      \/ \E y \in 1..Len(d) : d[y].id = x
         /\ \A y \in 1..Len(o.reports) : o.reports[y].id \in SaidIds(ml, p)
         /\ p.stop \/ \A y \in 1..Len(d) : d[y].id \in SaidIds(ml, p)
<1>1. PICK a : a = o.reports
  OBVIOUS
<1>2. a \in Seq(Calls)
  BY <1>1 DEF Outcomes
<1>3. PICK m \in 0..Len(d) : p.reports = a \o SubSeq(d, 1, m) /\ (p.stop \/ SubSeq(d, 1, m) = d)
  <2>1. Tells(n, ml, o, d, p)
    BY DeliveredIs
  <2> QED BY <1>1, <2>1 DEF Tells
<1>4. PICK f, r : f = SubSeq(d, 1, m) /\ r = p.reports
  OBVIOUS
<1>5. f \in Seq(Calls) /\ Len(f) = m /\ \A y \in 1..m : f[y] = d[y] /\ y \in 1..Len(d)
  BY <1>4, FrontOf
<1>6. r = a \o f /\ (p.stop \/ f = d)
  BY <1>3, <1>4
<1>7. SaidIds(ml, p) = { r[y].id : y \in 1..Len(r) }
  <2>1. p.pmq = <<>>
    <3>1. Tells(n, ml, o, d, p)
      BY DeliveredIs
    <3> QED BY <3>1 DEF Tells
  <2>2. 1..Len(p.pmq) = {}
    <3>1. Len(p.pmq) = 0
      BY <2>1, EmptySeq
    <3> QED BY <3>1, SMTT(10)
  <2> QED BY <1>4, <2>2 DEF SaidIds
<1>8. /\ \A y \in 1..Len(a) : y \in 1..Len(r) /\ r[y] = a[y]
      /\ \A y \in 1..Len(f) : Len(a) + y \in 1..Len(r) /\ r[Len(a) + y] = f[y]
      /\ \A y \in 1..Len(r) : y \in 1..Len(a) \/ (y - Len(a) \in 1..Len(f) /\ r[y] = f[y - Len(a)])
  BY <1>2, <1>5, <1>6, BehindEachOther
<1>9. \A x \in SaidIds(ml, p) : (\E y \in 1..Len(a) : a[y].id = x) \/ (\E y \in 1..Len(d) : d[y].id = x)
  <2> TAKE x \in SaidIds(ml, p)
  <2>1. PICK y \in 1..Len(r) : r[y].id = x
    BY <1>7
  <2>2. CASE y \in 1..Len(a)
    BY <1>8, <2>1, <2>2
  <2>3. CASE y - Len(a) \in 1..Len(f) /\ r[y] = f[y - Len(a)]
    <3>1. PICK z : z = y - Len(a)
      OBVIOUS
    <3>2. z \in 1..m /\ r[y] = f[z]
      BY <1>5, <2>3, <3>1
    <3>3. z \in 1..Len(d) /\ f[z] = d[z]
      BY <1>5, <3>2
    <3> QED BY <2>1, <3>2, <3>3
  <2> QED BY <1>8, <2>2, <2>3
<1>10. \A y \in 1..Len(a) : a[y].id \in SaidIds(ml, p)
  BY <1>7, <1>8
<1>11. p.stop \/ \A y \in 1..Len(d) : d[y].id \in SaidIds(ml, p)
  <2> SUFFICES ASSUME ~p.stop, NEW y \in 1..Len(d)
               PROVE  d[y].id \in SaidIds(ml, p)
    OBVIOUS
  <2>1. f = d
    BY <1>6
  <2>2. PICK z : z = Len(a) + y
    OBVIOUS
  <2>3. z \in 1..Len(r) /\ r[z] = d[y]
    BY <1>8, <2>1, <2>2
  <2> QED BY <1>7, <2>3
<1> QED BY <1>1, <1>9, <1>10, <1>11

\* The queue has room for an entry.
QueueRoom == AC_MAX_INQ \in Nat \ {0}

\* What is in the queue is told of when it is processed.
LEMMA QueueProcessed ==
  ASSUME QueueRoom, NEW n, NEW ml, ml = matchList, ListsOf(n, ml), NEW I, NEW K,
         NEW o, Orderly(n, ml, o), ~o.stop, Within(ml, o, I, K), NEW p \in ProcessQueue(o)
  PROVE  Queueing(n, ml, p, I, K) /\ p.pmq = <<>>
<1>1. PICK q : q = o.pmq
  OBVIOUS
<1>2. o \in Outcomes(n, ml) /\ q \in Seq(Slots(n, ml)) /\ Len(q) \in Nat /\ DOMAIN q = 1..Len(q)
  <2>1. o \in Outcomes(n, ml) /\ q \in Seq(Slots(n, ml))
    BY <1>1 DEF Orderly, Outcomes
  <2> QED BY <2>1, LenProperties
<1>3. PICK d : d = [j \in 1..Len(q) |-> [id |-> IdOf(ml, q[j]), index |-> 0]]
  OBVIOUS
<1>4. p \in Delivered(o, d)
  BY <1>1, <1>2, <1>3 DEF ProcessQueue, Report, IdOf
<1>5. d \in Seq(Calls) /\ Len(d) = Len(q) /\ \A j \in 1..Len(q) : d[j].id = IdOf(ml, q[j])
  <2>1. \A j \in 1..Len(q) : IdOf(ml, q[j]) \in Nat
    <3> TAKE j \in 1..Len(q)
    <3>1. q[j] \in Slots(n, ml)
      BY <1>2, ElementOfSeq
    <3> QED BY <3>1, SlotEntry
  <2>2. 0 \in Int
    BY SMTT(10)
  <2>3. d \in [1..Len(q) -> Calls]
    BY <1>3, <2>1, <2>2 DEF Calls
  <2>4. d \in Seq(Calls) /\ Len(d) = Len(q)
    BY <1>2, <1>3, <2>3
  <2> QED BY <1>3, <2>4
<1>6. p \in Outcomes(n, ml) /\ p.pmq = <<>>
  <2>1. o \in Outcomes(n, ml)
    BY <1>2
  <2>2. d \in Seq(Calls)
    BY <1>5
  <2>3. Tells(n, ml, o, d, p)
    BY <1>4, <2>1, <2>2, DeliveredIs
  <2> QED BY <2>3 DEF Tells
<1>7. SaidIds(ml, o) = { d[j].id : j \in 1..Len(d) } \cup { o.reports[y].id : y \in 1..Len(o.reports) }
  BY <1>1, <1>5 DEF SaidIds
<1>8. SaidIds(ml, p) \subseteq SaidIds(ml, o) /\ (p.stop \/ SaidIds(ml, o) \subseteq SaidIds(ml, p))
  BY <1>2, <1>4, <1>5, <1>7, DeliveredIds
<1>9. Len(p.pmq) < AC_MAX_INQ /\ Once(p.pmq)
  <2>1. Len(p.pmq) = 0
    BY <1>6, EmptySeq
  <2>2. 0 < AC_MAX_INQ /\ \A x \in 1..0 : FALSE
    BY SMTT(10) DEF QueueRoom
  <2> QED BY <2>1, <2>2 DEF Once
<1> QED BY <1>6, <1>8, <1>9 DEF Queueing, Orderly, Within

\* An entry that is added is in the queue, or told of.
LEMMA QueueGrows ==
  ASSUME QueueRoom, NEW n, NEW ml, ml = matchList, ListsOf(n, ml), NEW I, NEW K,
         NEW o, Queueing(n, ml, o, I, K), NEW e \in Slots(n, ml), IdOf(ml, e) \in I,
         NEW p \in AddQueue(o, e)
  PROVE  Queueing(n, ml, p, I, K \cup {IdOf(ml, e)})
<1>1. PICK q : q = o.pmq
  OBVIOUS
<1>2. /\ o \in Outcomes(n, ml) /\ q \in Seq(Slots(n, ml)) /\ Len(q) \in Nat /\ DOMAIN q = 1..Len(q)
      /\ Once(q) /\ Len(q) < AC_MAX_INQ /\ Within(ml, o, I, K)
  <2>1. o \in Outcomes(n, ml) /\ q \in Seq(Slots(n, ml)) /\ Once(q) /\ Len(q) < AC_MAX_INQ /\ Within(ml, o, I, K)
    BY <1>1 DEF Queueing, Orderly, Outcomes
  <2> QED BY <2>1, LenProperties
<1>3. CASE o.stop \/ e \in Range(q)
  <2>1. p = o
    BY <1>1, <1>3 DEF AddQueue
  <2>2. o.stop \/ IdOf(ml, e) \in SaidIds(ml, o)
    BY <1>1, <1>2, <1>3 DEF Range, SaidIds
  <2> QED BY <2>1, <2>2 DEF Queueing, Within
<1>4. CASE ~(o.stop \/ e \in Range(q))
  <2>1. PICK a : a = [o EXCEPT !.pmq = Append(@, e)]
    OBVIOUS
  <2>2. PICK z : z = Append(q, e)
    OBVIOUS
  <2>3. a.pmq = z /\ a.reports = o.reports /\ a.stop = o.stop /\ a \in Outcomes(n, ml)
    <3>1. z \in Seq(Slots(n, ml))
      BY <1>2, <2>2, AppendProperties
    <3> QED BY <1>1, <1>2, <2>1, <2>2, <3>1 DEF Outcomes
  <2>4. Len(z) = Len(q) + 1 /\ z[Len(q) + 1] = e /\ \A x \in 1..Len(q) : z[x] = q[x]
    BY <1>2, <2>2, AppendProperties
  <2>5. /\ \A x \in 1..Len(z) : x \in 1..Len(q) \/ x = Len(q) + 1
        /\ \A x \in 1..Len(q) : x \in 1..Len(z)
        /\ Len(q) + 1 \in 1..Len(z)
    <3>1. \A x \in 1..Len(z) : x \in 1..Len(q) \/ x = Len(q) + 1
      BY <1>2, <2>4, SMTT(10)
    <3>2. \A x \in 1..Len(q) : x \in 1..Len(z)
      BY <1>2, <2>4, SMTT(10)
    <3>3. Len(q) + 1 \in 1..Len(z)
      BY <1>2, <2>4, SMTT(10)
    <3> QED BY <3>1, <3>2, <3>3
  <2>6. Once(z)
    <3>1. \A x \in 1..Len(q) : q[x] # e
      BY <1>2, <1>4 DEF Range
    <3> QED BY <1>2, <2>4, <2>5, <3>1 DEF Once
  <2>7. SaidIds(ml, a) = SaidIds(ml, o) \cup {IdOf(ml, e)}
    <3>1. { IdOf(ml, z[x]) : x \in 1..Len(z) } = { IdOf(ml, q[x]) : x \in 1..Len(q) } \cup {IdOf(ml, e)}
      BY <2>4, <2>5
    <3>2. SaidIds(ml, a) = { IdOf(ml, z[x]) : x \in 1..Len(z) } \cup { o.reports[y].id : y \in 1..Len(o.reports) }
      BY <2>3 DEF SaidIds
    <3>3. SaidIds(ml, o) = { IdOf(ml, q[x]) : x \in 1..Len(q) } \cup { o.reports[y].id : y \in 1..Len(o.reports) }
      BY <1>1 DEF SaidIds
    <3>4. PICK A, B, C : /\ A = { IdOf(ml, z[x]) : x \in 1..Len(z) } /\ B = { IdOf(ml, q[x]) : x \in 1..Len(q) }
                         /\ C = { o.reports[y].id : y \in 1..Len(o.reports) }
      OBVIOUS
    <3>5. SaidIds(ml, a) = A \cup C /\ SaidIds(ml, o) = B \cup C /\ A = B \cup {IdOf(ml, e)}
      BY <3>1, <3>2, <3>3, <3>4
    <3> QED BY <3>5
  <2>8. Orderly(n, ml, a) /\ ~a.stop
    BY <1>4, <2>3, <2>6 DEF Orderly
  <2>9. Within(ml, a, I, K \cup {IdOf(ml, e)})
    BY <1>2, <1>4, <2>7 DEF Within
  <2>10. CASE Len(z) = AC_MAX_INQ
    <3>1. p \in ProcessQueue(a)
      BY <1>1, <1>4, <2>1, <2>3, <2>10 DEF AddQueue
    <3> QED BY <2>8, <2>9, <3>1, QueueProcessed
  <2>11. CASE Len(z) # AC_MAX_INQ
    <3>1. p = a
      BY <1>1, <1>4, <2>1, <2>3, <2>11 DEF AddQueue
    <3>2. Len(z) < AC_MAX_INQ
      BY <1>2, <2>4, <2>11, SMTT(10) DEF QueueRoom
    <3> QED BY <2>3, <2>8, <2>9, <3>1, <3>2 DEF Queueing
  <2> QED BY <2>10, <2>11
<1> QED BY <1>3, <1>4

\* What an entry of state s makes of each outcome.
AddEach(s, os, k) == UNION { AddQueue(x, <<s, k>>) : x \in os }

\* The outcomes g after each of the entries w.
AddedUp(g, o, s, ks, w) ==
  /\ g[0] = {o} /\ \A k \in 1..Len(w) : g[k] = AddEach(s, g[k - 1], w[k])
  /\ AddAll(o, s, ks) = g[Len(w)]

\* The entries of a state are added one by one.
LEMMA AddedOneByOne ==
  ASSUME NEW o, NEW s, NEW ks, NEW w, w = Ascending(ks), w \in Seq(Nat)
  PROVE  \E g : AddedUp(g, o, s, ks, w)
<1>1. Len(w) \in Nat /\ DOMAIN w = 1..Len(w)
  BY LenProperties
<1> DEFINE Iterates(it, m) ==
      it = [u \in SUBSET (1..m) |->
              IF u = {} THEN {o} ELSE AddEach(s, it[u \ {Max(u)}], w[Max(u)])]
    bad == { m \in Nat : ~\E it : Iterates(it, m) }
<1>2. bad = {}
  <2> SUFFICES ASSUME bad # {}
               PROVE  FALSE
    OBVIOUS
  <2>1. PICK m \in bad : \A x \in bad : m <= x
    <3>1. bad \in SUBSET Nat
      OBVIOUS
    <3> HIDE DEF bad
    <3> QED BY <3>1, LeastNatural
  <2>2. CASE m = 0
    <3>1. 1..m = {}
      BY <2>2, SMTT(10)
    <3> DEFINE none == [u \in SUBSET (1..m) |-> {o}]
    <3>2. none = [u \in SUBSET (1..m) |->
                    IF u = {} THEN {o} ELSE AddEach(s, none[u \ {Max(u)}], w[Max(u)])]
      BY <3>1
    <3>3. Iterates(none, m)
      BY <3>2
    <3> QED BY <2>1, <3>3
  <2>3. CASE m # 0
    <3>1. m - 1 \in Nat /\ m - 1 < m
      BY <2>3, SMTT(10)
    <3>2. PICK it : Iterates(it, m - 1)
      <4>1. m \in Nat /\ ~(m <= m - 1)
        BY <2>1, SMTT(10)
      <4>2. m - 1 \notin bad
        <5> HIDE DEF bad
        <5> QED BY <2>1, <4>1
      <4> QED BY <3>1, <4>2
    <3> DEFINE more == [u \in SUBSET (1..m) |->
                          IF m \in u THEN AddEach(s, it[u \ {m}], w[m]) ELSE it[u]]
    <3>3. ASSUME NEW u \in SUBSET (1..m)
          PROVE  more[u] = IF u = {} THEN {o} ELSE AddEach(s, more[u \ {Max(u)}], w[Max(u)])
      <4> HIDE DEF more
      <4>1. /\ more[u] = IF m \in u THEN AddEach(s, it[u \ {m}], w[m]) ELSE it[u]
            /\ \A x \in SUBSET (1..(m - 1)) : more[x] = it[x]
        <5>1. 1..(m - 1) \subseteq 1..m /\ m \notin 1..(m - 1)
          BY SMTT(10)
        <5> QED BY <5>1 DEF more
      <4>2. \A x \in SUBSET (1..(m - 1)) :
              it[x] = IF x = {} THEN {o} ELSE AddEach(s, it[x \ {Max(x)}], w[Max(x)])
        BY <3>2
      <4> HIDE DEF Iterates
      <4>3. CASE u = {}
        BY <4>1, <4>2, <4>3
      <4>4. CASE u # {} /\ m \in u
        <5>1. Max(u) = m /\ u \ {m} \in SUBSET (1..(m - 1))
          BY <2>3, <4>4, WithoutMax
        <5> QED BY <4>1, <4>4, <5>1
      <4>5. CASE u # {} /\ m \notin u
        <5>1. u \in SUBSET (1..(m - 1)) /\ u \ {Max(u)} \in SUBSET (1..(m - 1))
          BY <2>3, <4>5, WithoutMax
        <5> QED BY <4>1, <4>2, <4>5, <5>1
      <4> QED BY <4>3, <4>4, <4>5
    <3>4. Iterates(more, m)
      <4>1. more = [u \in SUBSET (1..m) |-> more[u]]
        OBVIOUS
      <4> HIDE DEF more
      <4> QED BY <3>3, <4>1
    <3> QED BY <2>1, <3>4
  <2> QED BY <2>2, <2>3
<1>3. PICK it : Iterates(it, Len(w))
  BY <1>1, <1>2
<1> DEFINE I == CHOOSE f : f = [u \in SUBSET (DOMAIN w) |->
                   IF u = {} THEN {o} ELSE AddEach(s, f[u \ {Max(u)}], w[Max(u)])]
<1>4. I = [u \in SUBSET (DOMAIN w) |->
             IF u = {} THEN {o} ELSE AddEach(s, I[u \ {Max(u)}], w[Max(u)])]
  BY <1>1, <1>3
<1>5. AddAll(o, s, ks) = I[DOMAIN w]
  BY DEF AddAll, AddEach, FoldLeft, MapThenFoldSet
<1> HIDE DEF I
<1>6. PICK g : g = [k \in 0..Len(w) |-> I[1..k]]
  OBVIOUS
<1>7. g[0] = {o} /\ g[Len(w)] = I[DOMAIN w]
  <2>1. 1..0 = {} /\ 0 \in 0..Len(w) /\ Len(w) \in 0..Len(w)
    BY <1>1, SMTT(10)
  <2> QED BY <1>1, <1>4, <1>6, <2>1
<1>8. ASSUME NEW k \in 1..Len(w)
      PROVE  g[k] = AddEach(s, g[k - 1], w[k])
  <2>1. k \in Nat /\ k # 0 /\ k \in 0..Len(w) /\ k - 1 \in 0..Len(w) /\ 1..k \subseteq 1..Len(w)
    BY <1>1, SMTT(10)
  <2>2. Max(1..k) = k /\ 1..k # {} /\ (1..k) \ {k} = 1..(k - 1)
    BY <2>1, WithoutMax
  <2>3. I[1..k] = AddEach(s, I[1..(k - 1)], w[k])
    BY <1>1, <1>4, <2>1, <2>2
  <2> QED BY <1>6, <2>1, <2>3
<1> QED BY <1>5, <1>7, <1>8 DEF AddedUp

\* The identities of some of a list's entries.
IdsOf(ml, s, ks) == { IdOf(ml, <<s, x>>) : x \in ks }

\* The entries of a state at the places ks are all in the queue, or told of.
LEMMA EntriesQueued ==
  ASSUME QueueRoom, NEW n, NEW ml, ml = matchList, ListsOf(n, ml), NEW s \in 0..n,
         NEW ks \in SUBSET (1..Len(ml[s])), NEW I, NEW K, NEW o, Queueing(n, ml, o, I, K),
         IdsOf(ml, s, ks) \subseteq I, NEW p \in AddAll(o, s, ks)
  PROVE  Queueing(n, ml, p, I, K \cup IdsOf(ml, s, ks))
<1> USE DEF IdsOf
<1>1. Len(ml[s]) \in Nat
  BY LenProperties DEF ListsOf
<1>2. IsFiniteSet(ks) /\ (\A x \in ks : x \in Int) /\ \A x \in ks : x \in Nat
  <2>1. 1 \in Int /\ Len(ml[s]) \in Int /\ \A x \in 1..Len(ml[s]) : x \in Int /\ x \in Nat
    BY <1>1, SMTT(10)
  <2>2. IsFiniteSet(1..Len(ml[s]))
    BY <2>1, FS_Interval
  <2> QED BY <2>1, <2>2, FS_Subset
<1>3. PICK w, m : w = Ascending(ks) /\ m = Cardinality(ks)
  OBVIOUS
<1>4. m \in Nat /\ w \in [1..m -> ks] /\ \A x \in ks : \E k \in 1..m : w[k] = x
  BY <1>2, <1>3, AscendingOrders
<1>5. w \in Seq(Nat) /\ Len(w) = m
  <2>1. w \in [1..m -> Nat]
    BY <1>2, <1>4
  <2> QED BY <1>4, <2>1
<1>6. PICK g : /\ g[0] = {o} /\ \A k \in 1..m : g[k] = AddEach(s, g[k - 1], w[k])
               /\ AddAll(o, s, ks) = g[m]
  <2>1. w = Ascending(ks)
    BY <1>3
  <2>2. w \in Seq(Nat)
    BY <1>5
  <2>3. \E g : AddedUp(g, o, s, ks, w)
    BY <2>1, <2>2, AddedOneByOne
  <2> QED BY <1>5, <2>3 DEF AddedUp
<1> DEFINE Ids(y) == { IdOf(ml, <<s, w[z]>>) : z \in 1..y }
           bad == { y \in Nat : y <= m /\ ~\A x \in g[y] : Queueing(n, ml, x, I, K \cup Ids(y)) }
<1>7. bad = {}
  <2> SUFFICES ASSUME bad # {}
               PROVE  FALSE
    OBVIOUS
  <2>1. PICK y \in bad : \A x \in bad : y <= x
    <3>1. bad \in SUBSET Nat
      OBVIOUS
    <3> HIDE DEF bad
    <3> QED BY <3>1, LeastNatural
  <2>2. y \in Nat /\ y <= m
    BY <2>1
  <2>3. PICK x \in g[y] : ~Queueing(n, ml, x, I, K \cup Ids(y))
    BY <2>1
  <2>4. CASE y = 0
    <3>1. 1..0 = {}
      BY SMTT(10)
    <3>2. Ids(y) = {} /\ x = o
      BY <1>6, <2>3, <2>4, <3>1
    <3> HIDE DEF Ids
    <3>3. K \cup Ids(y) = K
      BY <3>2
    <3> QED BY <2>3, <3>2, <3>3
  <2>5. CASE y # 0
    <3>1. y - 1 \in Nat /\ y - 1 <= m /\ ~(y <= y - 1) /\ y \in 1..m /\ y \in 1..y
          /\ \A z \in 1..y : z \in 1..(y - 1) \/ z = y
      BY <1>4, <2>2, <2>5, SMTT(10)
    <3>2. \A z \in 1..(y - 1) : z \in 1..y
      BY <2>2, SMTT(10)
    <3>3. y - 1 \notin bad
      <4> HIDE DEF bad
      <4> QED BY <2>1, <3>1
    <3>4. \A v \in g[y - 1] : Queueing(n, ml, v, I, K \cup Ids(y - 1))
      BY <3>1, <3>3
    <3>5. PICK v \in g[y - 1] : x \in AddQueue(v, <<s, w[y]>>)
      BY <1>6, <2>3, <3>1 DEF AddEach
    <3>6. PICK e : e = <<s, w[y]>>
      OBVIOUS
    <3>7. e \in Slots(n, ml) /\ IdOf(ml, e) \in I
      <4>1. w[y] \in ks
        BY <1>4, <3>1
      <4>2. w[y] \in 1..Len(ml[s]) /\ w[y] \in Nat
        BY <1>2, <4>1
      <4>3. e[1] = s /\ e[2] = w[y]
        BY <3>6
      <4>4. e \in (0..n) \X Nat
        BY <3>6, <4>2
      <4> QED BY <3>6, <4>1, <4>2, <4>3, <4>4 DEF Slots
    <3>8. PICK L : L = K \cup Ids(y - 1)
      OBVIOUS
    <3>9. Queueing(n, ml, v, I, L)
      BY <3>4, <3>8
    <3>10. Queueing(n, ml, x, I, L \cup {IdOf(ml, e)})
      BY <3>5, <3>6, <3>7, <3>9, QueueGrows
    <3>11. Ids(y) = Ids(y - 1) \cup {IdOf(ml, e)}
      BY <3>1, <3>2, <3>6
    <3> HIDE DEF Ids
    <3>12. L \cup {IdOf(ml, e)} = K \cup Ids(y)
      BY <3>8, <3>11
    <3> QED BY <2>3, <3>10, <3>12
  <2> QED BY <2>4, <2>5
<1>8. Queueing(n, ml, p, I, K \cup Ids(m))
  <2>1. m \in Nat /\ m <= m
    BY <1>4, SMTT(10)
  <2>2. m \notin bad
    BY <1>7
  <2> QED BY <1>6, <2>1, <2>2
<1>9. Ids(m) = { IdOf(ml, <<s, x>>) : x \in ks }
  BY <1>4
<1> HIDE DEF Ids
<1> QED BY <1>8, <1>9

-----------------------------------------------------------------------------
(* What a search has told of the places it looked at *)

\* The index of a call is that of the character before in acsmSearchSparseNFA.
Late(k) == IF k = "nfa" THEN 1 ELSE 0
Everyone(k) == k \in {"full_all", "full_q_all"}

\* Call r says that pattern j ends at x.
Says(ps, k, r, j, x) == r.id = ps[j].id /\ r.index = x - Len(ps[j].patrn) - Late(k)

\* Some call says so, or, where the queue gives no index, pattern j is told of.
Mentions(ps, k, ml, o, j, x) ==
  IF Queued(k) THEN ps[j].id \in SaidIds(ml, o)
  ELSE \E y \in 1..Len(o.reports) : Says(ps, k, o.reports[y], j, x)

\* E are the patterns that end at each place, D those whose case fits there.  Only
\* patterns that end somewhere up to place i are told of.
Truthful(ps, k, ml, E, o, i) ==
  IF Queued(k) THEN SaidIds(ml, o) \subseteq { ps[j].id : j \in UNION { E[x] : x \in 0..i } }
  ELSE \A y \in 1..Len(o.reports) : \E x \in 0..i : \E j \in E[x] : Says(ps, k, o.reports[y], j, x)

\* Of each place up to i everything that has to be told is.
Thorough(ps, k, ml, E, D, o, i) ==
  \A x \in 1..i :
    IF Everyone(k) THEN \A j \in D[x] : Mentions(ps, k, ml, o, j, x)
    ELSE E[x] = {} \/ \E j \in E[x] : Mentions(ps, k, ml, o, j, x)

Tale(ps, k, n, ml, E, D, o, i) ==
  /\ Orderly(n, ml, o) /\ Len(o.pmq) < AC_MAX_INQ
  /\ Queued(k) \/ (o.pmq = <<>> /\ Once(o.reports))
  /\ Truthful(ps, k, ml, E, o, i)
  /\ o.stop \/ Thorough(ps, k, ml, E, D, o, i)

Plot(ps, E, D, i) ==
  Entered(ps) /\ i \in Nat /\ \A x \in 0..i : E[x] \in SUBSET (1..Len(ps)) /\ D[x] \in SUBSET E[x]

\* What the calls d for place i have to say.
Answers(ps, k, e, due, d, i) ==
  /\ d \in Seq(Calls) /\ Once(d)
  /\ \A y \in 1..Len(d) : \E j \in e : Says(ps, k, d[y], j, i)
  /\ IF Everyone(k) THEN \A j \in due : \E y \in 1..Len(d) : Says(ps, k, d[y], j, i)
     ELSE e = {} \/ \E j \in e : \E y \in 1..Len(d) : Says(ps, k, d[y], j, i)

\* No two patterns have one number.
LEMMA NumbersDiffer ==
  ASSUME NEW ps, Entered(ps), NEW j \in 1..Len(ps), NEW m \in 1..Len(ps), ps[j].id = ps[m].id
  PROVE  j = m
<1>1. ps[j].id = Len(ps) - j + 1 /\ ps[m].id = Len(ps) - m + 1
  BY DEF Entered
<1>2. Len(ps) \in Nat
  BY LenProperties DEF Entered
<1>3. Len(ps) - j + 1 = Len(ps) - m + 1
  BY <1>1
<1> QED BY <1>2, <1>3, SMTT(10)

\* Calls for a pattern at two places are different.
LEMMA PlacesDiffer ==
  ASSUME NEW ps, Entered(ps), NEW k, NEW r, NEW j \in 1..Len(ps), NEW m \in 1..Len(ps),
         NEW x \in Nat, NEW z \in Nat, Says(ps, k, r, j, x), Says(ps, k, r, m, z)
  PROVE  j = m /\ x = z
<1>1. j = m
  BY NumbersDiffer DEF Says
<1>2. PICK l, t : l = Len(ps[j].patrn) /\ t = Late(k)
  OBVIOUS
<1>3. l \in Nat /\ t \in Int
  <2>1. ps[j] \in Entry
    BY ElementOfSeq DEF Entered
  <2>2. ps[j].patrn \in Seq(Inputs)
    BY <2>1 DEF Entry
  <2>3. l \in Nat
    BY <1>2, <2>2, LenProperties
  <2>4. t = 0 \/ t = 1
    BY <1>2 DEF Late
  <2> QED BY <2>3, <2>4, SMTT(10)
<1>4. x - l - t = z - l - t
  BY <1>1, <1>2 DEF Says
<1> QED BY <1>1, <1>3, <1>4, SMTT(10)

\* The reports of a place join those of the places before.
LEMMA DirectlyTold ==
  ASSUME QueueRoom, NEW n, NEW ml, NEW ps, NEW k, ~Queued(k), NEW E, NEW D, NEW i, Plot(ps, E, D, i),
         NEW o, Tale(ps, k, n, ml, E, D, o, i - 1), ~o.stop,
         NEW d, Answers(ps, k, E[i], D[i], d, i), NEW p \in Delivered(o, d)
  PROVE  Tale(ps, k, n, ml, E, D, p, i)
<1>1. PICK a, r, e, due : a = o.reports /\ r = p.reports /\ e = E[i] /\ due = D[i]
  OBVIOUS
<1>2. /\ o \in Outcomes(n, ml) /\ a \in Seq(Calls) /\ d \in Seq(Calls) /\ Once(a) /\ Once(d)
      /\ Truthful(ps, k, ml, E, o, i - 1) /\ Thorough(ps, k, ml, E, D, o, i - 1)
  BY <1>1 DEF Tale, Orderly, Outcomes, Answers
<1>3. Tells(n, ml, o, d, p)
  <2>1. o \in Outcomes(n, ml) /\ d \in Seq(Calls)
    BY <1>2
  <2> QED BY <2>1, DeliveredIs
<1>4. PICK m \in 0..Len(d) : r = a \o SubSeq(d, 1, m) /\ (p.stop \/ SubSeq(d, 1, m) = d)
  BY <1>1, <1>3 DEF Tells
<1>5. PICK f : f = SubSeq(d, 1, m)
  OBVIOUS
<1>6. f \in Seq(Calls) /\ Len(f) = m /\ \A y \in 1..m : f[y] = d[y] /\ y \in 1..Len(d)
  BY <1>2, <1>5, FrontOf
<1>7. r = a \o f /\ (p.stop \/ f = d)
  BY <1>4, <1>5
<1>8. /\ Len(a) \in Nat /\ Len(f) \in Nat
      /\ \A y \in 1..Len(a) : y \in 1..Len(r) /\ r[y] = a[y]
      /\ \A y \in 1..Len(f) : Len(a) + y \in 1..Len(r) /\ r[Len(a) + y] = f[y]
      /\ \A y \in 1..Len(r) : y \in 1..Len(a) \/ (y - Len(a) \in 1..Len(f) /\ r[y] = f[y - Len(a)])
  <2>1. a \in Seq(Calls) /\ f \in Seq(Calls)
    BY <1>2, <1>6
  <2>2. /\ Len(a) \in Nat /\ Len(f) \in Nat
        /\ \A y \in 1..Len(a) : y \in 1..Len(a \o f) /\ (a \o f)[y] = a[y]
        /\ \A y \in 1..Len(f) : Len(a) + y \in 1..Len(a \o f) /\ (a \o f)[Len(a) + y] = f[y]
        /\ \A y \in 1..Len(a \o f) :
             y \in 1..Len(a) \/ (y - Len(a) \in 1..Len(f) /\ (a \o f)[y] = f[y - Len(a)])
    BY <2>1, BehindEachOther
  <2> QED BY <1>7, <2>2
<1>9. /\ Entered(ps) /\ i \in Nat /\ e \in SUBSET (1..Len(ps)) /\ due \in SUBSET e
      /\ \A x \in 0..(i - 1) : x \in 0..i /\ x \in Nat /\ x # i /\ E[x] \in SUBSET (1..Len(ps))
      /\ i \in 0..i
  <2>1. Entered(ps) /\ i \in Nat
    BY DEF Plot
  <2>2. \A x \in 0..(i - 1) : x \in 0..i /\ x \in Nat /\ x # i
    BY <2>1, SMTT(10)
  <2>3. i \in 0..i
    BY <2>1, SMTT(10)
  <2> QED BY <1>1, <2>1, <2>2, <2>3 DEF Plot
\* Where the calls of r come from.
<1>10. ASSUME NEW y \in 1..Len(r), y \in 1..Len(a)
       PROVE  \E x \in 0..(i - 1) : \E j \in E[x] : Says(ps, k, r[y], j, x)
  <2>1. \A z \in 1..Len(a) : \E x \in 0..(i - 1) : \E j \in E[x] : Says(ps, k, a[z], j, x)
    BY <1>1, <1>2 DEF Truthful
  <2>2. r[y] = a[y]
    BY <1>8, <1>10
  <2> QED BY <1>10, <2>1, <2>2
<1>11. ASSUME NEW y \in 1..Len(r), y \notin 1..Len(a)
       PROVE  \E z \in 1..m : z = y - Len(a) /\ r[y] = d[z] /\ z \in 1..Len(d) /\ \E j \in e : Says(ps, k, r[y], j, i)
  <2>1. PICK z : z = y - Len(a)
    OBVIOUS
  <2>2. z \in 1..m /\ r[y] = f[z]
    BY <1>6, <1>8, <1>11, <2>1
  <2>3. r[y] = d[z] /\ z \in 1..Len(d)
    BY <1>6, <2>2
  <2>4. \E j \in e : Says(ps, k, d[z], j, i)
    BY <1>1, <2>3 DEF Answers
  <2> QED BY <2>1, <2>2, <2>3, <2>4
<1>12. Truthful(ps, k, ml, E, p, i)
  <2> SUFFICES ASSUME NEW y \in 1..Len(r)
               PROVE  \E x \in 0..i : \E j \in E[x] : Says(ps, k, r[y], j, x)
    BY <1>1 DEF Truthful
  <2>1. CASE y \in 1..Len(a)
    BY <1>9, <1>10, <2>1
  <2>2. CASE y \notin 1..Len(a)
    BY <1>1, <1>9, <1>11, <2>2
  <2> QED BY <2>1, <2>2
<1>13. Once(r)
  <2> SUFFICES ASSUME NEW x \in 1..Len(r), NEW y \in 1..Len(r), r[x] = r[y]
               PROVE  x = y
    BY DEF Once
  <2>1. CASE x \in 1..Len(a) /\ y \in 1..Len(a)
    <3>1. a[x] = a[y]
      BY <1>8, <2>1
    <3> QED BY <1>2, <2>1, <3>1 DEF Once
  <2>2. CASE x \notin 1..Len(a) /\ y \notin 1..Len(a)
    <3>1. PICK u \in 1..m : u = x - Len(a) /\ r[x] = d[u] /\ u \in 1..Len(d)
      BY <1>11, <2>2
    <3>2. PICK v \in 1..m : v = y - Len(a) /\ r[y] = d[v] /\ v \in 1..Len(d)
      BY <1>11, <2>2
    <3>3. u = v
      BY <1>2, <3>1, <3>2 DEF Once
    <3>4. x - Len(a) = y - Len(a)
      BY <3>1, <3>2, <3>3
    <3>5. x \in Int /\ y \in Int
      BY SMTT(10)
    <3> QED BY <1>8, <3>4, <3>5, SMTT(10)
  <2>3. ASSUME NEW u \in 1..Len(r), NEW v \in 1..Len(r), u \in 1..Len(a), v \notin 1..Len(a), r[u] = r[v]
        PROVE  FALSE
    <3>9. PICK z \in 0..(i - 1) : \E j \in E[z] : Says(ps, k, r[u], j, z)
      BY <1>10, <2>3
    <3>1. PICK j \in E[z] : Says(ps, k, r[u], j, z)
      BY <3>9
    <3>2. PICK g \in e : Says(ps, k, r[u], g, i)
      BY <1>11, <2>3
    <3>3. z \in Nat /\ z # i /\ j \in 1..Len(ps) /\ g \in 1..Len(ps)
      BY <1>9
    <3> QED BY <1>9, <3>1, <3>2, <3>3, PlacesDiffer
  <2> QED BY <2>1, <2>2, <2>3
\* What was mentioned still is, and what is due at i now is.
<1>14. ASSUME NEW j, NEW x, Mentions(ps, k, ml, o, j, x)
       PROVE  Mentions(ps, k, ml, p, j, x)
  <2>1. PICK y \in 1..Len(a) : Says(ps, k, a[y], j, x)
    BY <1>1, <1>14 DEF Mentions
  <2>2. y \in 1..Len(r) /\ Says(ps, k, r[y], j, x)
    BY <1>8, <2>1
  <2> QED BY <1>1, <2>2 DEF Mentions
<1>15. ASSUME ~p.stop, NEW y \in 1..Len(d), NEW j, Says(ps, k, d[y], j, i)
       PROVE  Mentions(ps, k, ml, p, j, i)
  <2>1. f = d
    BY <1>7, <1>15
  <2>2. PICK z : z = Len(a) + y
    OBVIOUS
  <2>3. z \in 1..Len(r) /\ r[z] = d[y]
    BY <1>8, <2>1, <2>2
  <2>4. Says(ps, k, r[z], j, i)
    BY <1>15, <2>3
  <2> QED BY <1>1, <2>3, <2>4 DEF Mentions
<1>16. ASSUME ~p.stop
       PROVE  Thorough(ps, k, ml, E, D, p, i)
  <2> SUFFICES ASSUME NEW x \in 1..i
               PROVE  IF Everyone(k) THEN \A j \in D[x] : Mentions(ps, k, ml, p, j, x)
                      ELSE E[x] = {} \/ \E j \in E[x] : Mentions(ps, k, ml, p, j, x)
    BY DEF Thorough
  <2>1. CASE x = i
    <3>1. IF Everyone(k) THEN \A j \in due : \E y \in 1..Len(d) : Says(ps, k, d[y], j, i)
          ELSE e = {} \/ \E j \in e : \E y \in 1..Len(d) : Says(ps, k, d[y], j, i)
      BY <1>1 DEF Answers
    <3>2. \A j, y : y \in 1..Len(d) /\ Says(ps, k, d[y], j, i) => Mentions(ps, k, ml, p, j, i)
      BY <1>15, <1>16
    <3> QED BY <1>1, <2>1, <3>1, <3>2
  <2>2. CASE x # i
    <3>1. x \in 1..(i - 1)
      BY <1>9, <2>2, SMTT(10)
    <3>2. IF Everyone(k) THEN \A j \in D[x] : Mentions(ps, k, ml, o, j, x)
          ELSE E[x] = {} \/ \E j \in E[x] : Mentions(ps, k, ml, o, j, x)
      BY <1>2, <3>1 DEF Thorough
    <3> QED BY <1>14, <3>2
  <2> QED BY <2>1, <2>2
<1>17. Orderly(n, ml, p) /\ Len(p.pmq) < AC_MAX_INQ /\ p.pmq = <<>>
  <2>1. p \in Outcomes(n, ml) /\ p.pmq = <<>>
    BY <1>3 DEF Tells
  <2>2. Len(p.pmq) = 0
    BY <2>1, EmptySeq
  <2>3. 0 < AC_MAX_INQ /\ \A x \in 1..0 : FALSE
    BY SMTT(10) DEF QueueRoom
  <2> QED BY <2>1, <2>2, <2>3 DEF Orderly, Once
<1> QED BY <1>1, <1>12, <1>13, <1>16, <1>17 DEF Tale

\* The patterns that end somewhere up to place i.
IdsUpTo(ps, E, i) == { ps[j].id : j \in UNION { E[x] : x \in 0..i } }

\* What a queued search has told is a matter of the numbers said.
LEMMA TaleOfIds ==
  ASSUME NEW n, NEW ml, NEW ps, NEW k, Queued(k), NEW E, NEW D, NEW i, NEW o, NEW K,
         Queueing(n, ml, o, IdsUpTo(ps, E, i), K),
         \A x \in 1..i : IF Everyone(k) THEN \A j \in D[x] : ps[j].id \in K
                         ELSE E[x] = {} \/ \E j \in E[x] : ps[j].id \in K
  PROVE  Tale(ps, k, n, ml, E, D, o, i)
<1>1. /\ Orderly(n, ml, o) /\ Len(o.pmq) < AC_MAX_INQ /\ SaidIds(ml, o) \subseteq IdsUpTo(ps, E, i)
      /\ o.stop \/ K \subseteq SaidIds(ml, o)
  BY DEF Queueing, Within
<1>2. Truthful(ps, k, ml, E, o, i)
  BY <1>1 DEF Truthful, IdsUpTo
<1>3. ASSUME ~o.stop
      PROVE  Thorough(ps, k, ml, E, D, o, i)
  <2>1. \A j, x : ps[j].id \in K => Mentions(ps, k, ml, o, j, x)
    BY <1>1, <1>3 DEF Mentions
  <2> QED BY <2>1 DEF Thorough
<1> QED BY <1>1, <1>2, <1>3 DEF Tale

\* The entries of a place join those of the places before.
LEMMA QueueTold ==
  ASSUME QueueRoom, NEW n, NEW ml, ml = matchList, ListsOf(n, ml), NEW ps, NEW k, Queued(k),
         NEW E, NEW D, NEW i, Plot(ps, E, D, i),
         NEW o, Tale(ps, k, n, ml, E, D, o, i - 1), ~o.stop,
         NEW s \in 0..n, NEW ks \in SUBSET (1..Len(ml[s])),
         \A x \in ks : \E j \in E[i] : IdOf(ml, <<s, x>>) = ps[j].id,
         IF Everyone(k) THEN \A j \in D[i] : \E x \in ks : IdOf(ml, <<s, x>>) = ps[j].id
         ELSE E[i] = {} \/ \E j \in E[i] : \E x \in ks : IdOf(ml, <<s, x>>) = ps[j].id,
         NEW p \in AddAll(o, s, ks)
  PROVE  Tale(ps, k, n, ml, E, D, p, i)
<1>1. PICK I, K, L, M : /\ I = IdsUpTo(ps, E, i) /\ K = SaidIds(ml, o)
                        /\ L = { IdOf(ml, <<s, x>>) : x \in ks } /\ M = K \cup L
  OBVIOUS
<1>2. i \in Nat /\ i \in 0..i /\ (\A x \in 0..(i - 1) : x \in 0..i) /\ \A x \in 1..i : x = i \/ x \in 1..(i - 1)
  <2>1. i \in Nat
    BY DEF Plot
  <2>2. \A x \in 0..(i - 1) : x \in 0..i
    BY <2>1, SMTT(10)
  <2>3. \A x \in 1..i : x = i \/ x \in 1..(i - 1)
    BY <2>1, SMTT(10)
  <2>4. i \in 0..i
    BY <2>1, SMTT(10)
  <2> QED BY <2>1, <2>2, <2>3, <2>4
<1>3. /\ Orderly(n, ml, o) /\ Len(o.pmq) < AC_MAX_INQ /\ Truthful(ps, k, ml, E, o, i - 1)
      /\ Thorough(ps, k, ml, E, D, o, i - 1)
  BY DEF Tale
<1>4. K \subseteq I
  <2>1. K \subseteq { ps[j].id : j \in UNION { E[x] : x \in 0..(i - 1) } }
    BY <1>1, <1>3 DEF Truthful
  <2> QED BY <1>1, <1>2, <2>1 DEF IdsUpTo
<1>5. \A x \in ks : IdOf(ml, <<s, x>>) \in I
  <2> TAKE x \in ks
  <2>1. PICK j \in E[i] : IdOf(ml, <<s, x>>) = ps[j].id
    OBVIOUS
  <2>2. j \in UNION { E[z] : z \in 0..i }
    BY <1>2
  <2> QED BY <1>1, <2>1, <2>2 DEF IdsUpTo
<1>6. Queueing(n, ml, o, I, K)
  BY <1>1, <1>3, <1>4 DEF Queueing, Within
<1>7. Queueing(n, ml, p, I, M)
  <2>1. IdsOf(ml, s, ks) \subseteq I /\ L = IdsOf(ml, s, ks)
    BY <1>1, <1>5 DEF IdsOf
  <2>2. Queueing(n, ml, p, I, K \cup IdsOf(ml, s, ks))
    BY <1>6, <2>1, EntriesQueued
  <2> QED BY <1>1, <2>1, <2>2
<1>8. ASSUME NEW x \in 1..i
      PROVE  IF Everyone(k) THEN \A j \in D[x] : ps[j].id \in M
             ELSE E[x] = {} \/ \E j \in E[x] : ps[j].id \in M
  <2>1. CASE x = i
    <3>1. \A z \in ks : IdOf(ml, <<s, z>>) \in M
      BY <1>1
    <3> QED BY <2>1, <3>1
  <2>2. CASE x # i
    <3>1. \A j : Mentions(ps, k, ml, o, j, x) => ps[j].id \in M
      BY <1>1 DEF Mentions
    <3>2. IF Everyone(k) THEN \A j \in D[x] : Mentions(ps, k, ml, o, j, x)
          ELSE E[x] = {} \/ \E j \in E[x] : Mentions(ps, k, ml, o, j, x)
      BY <1>2, <1>3, <2>2 DEF Thorough
    <3> QED BY <3>1, <3>2
  <2> QED BY <2>1, <2>2
<1> QED BY <1>1, <1>7, <1>8, TaleOfIds

\* So do those that were in the queue at the end.
LEMMA QueueToldAtLast ==
  ASSUME QueueRoom, NEW n, NEW ml, ml = matchList, ListsOf(n, ml), NEW ps, NEW k, Queued(k),
         NEW E, NEW D, NEW i, NEW o, Tale(ps, k, n, ml, E, D, o, i), ~o.stop, NEW p \in ProcessQueue(o)
  PROVE  Tale(ps, k, n, ml, E, D, p, i) /\ p.pmq = <<>>
<1>1. PICK I, K : I = IdsUpTo(ps, E, i) /\ K = SaidIds(ml, o)
  OBVIOUS
<1>2. Orderly(n, ml, o) /\ Truthful(ps, k, ml, E, o, i) /\ Thorough(ps, k, ml, E, D, o, i)
  BY DEF Tale
<1>3. Within(ml, o, I, K)
  BY <1>1, <1>2 DEF Within, Truthful, IdsUpTo
<1>4. Queueing(n, ml, p, I, K) /\ p.pmq = <<>>
  BY <1>2, <1>3, QueueProcessed
<1>5. \A x \in 1..i : IF Everyone(k) THEN \A j \in D[x] : ps[j].id \in K
                      ELSE E[x] = {} \/ \E j \in E[x] : ps[j].id \in K
  <2>1. \A j, x : Mentions(ps, k, ml, o, j, x) => ps[j].id \in K
    BY <1>1 DEF Mentions
  <2> QED BY <1>2, <2>1 DEF Thorough
<1>6. Queueing(n, ml, p, IdsUpTo(ps, E, i), K)
  BY <1>1, <1>4
<1> QED BY <1>4, <1>5, <1>6, TaleOfIds

-----------------------------------------------------------------------------
(* What a search takes up of a match list *)

\* f says which pattern each place of the list l of word w holds.
Numbering(ps, l, w, f) ==
  /\ f \in [1..Len(l) -> EndsOf(ps, w)]
  /\ \A x \in 1..Len(l) : l[x] = ps[f[x]]
  /\ \A x, y \in 1..Len(l) : f[x] = f[y] => x = y
  /\ \A j \in EndsOf(ps, w) : \E x \in 1..Len(l) : f[x] = j

LEMMA ListNumbered ==
  ASSUME NEW ps, Entered(ps), NEW l \in Seq(Entry), NEW w, Gathers(ps, l, w)
  PROVE  \E f : Numbering(ps, l, w, f)
<1>1. PICK J, m : J = EndsOf(ps, w) /\ m = Len(l)
  OBVIOUS
<1>2. m \in Nat /\ J \in SUBSET (1..Len(ps)) /\ m = Cardinality(J)
  BY <1>1, LenProperties DEF EndsOf, Gathers
<1>3. \A x \in 1..m : \E j \in J : ps[j] = l[x]
  BY <1>1 DEF Gathers, Held, Those
<1>4. \A j \in J : \E x \in 1..m : ps[j] = l[x]
  BY <1>1 DEF Gathers, Held, Those
<1>5. PICK f : f = [x \in 1..m |-> CHOOSE j \in J : ps[j] = l[x]]
  OBVIOUS
<1>6. f \in [1..m -> J] /\ \A x \in 1..m : ps[f[x]] = l[x]
  <2>1. ASSUME NEW x \in 1..m
        PROVE  f[x] \in J /\ ps[f[x]] = l[x]
    BY <1>3, <1>5
  <2> QED BY <1>5, <2>1
<1>7. \A j \in J : \E x \in 1..m : f[x] = j
  <2> TAKE j \in J
  <2>1. PICK x \in 1..m : ps[j] = l[x]
    BY <1>4
  <2>2. PICK g : g = f[x]
    OBVIOUS
  <2>3. g \in J /\ ps[g] = ps[j]
    BY <1>6, <2>1, <2>2
  <2>4. g = j
    <3>1. ps[g].id = ps[j].id /\ g \in 1..Len(ps) /\ j \in 1..Len(ps)
      BY <1>2, <2>3
    <3> QED BY <3>1, NumbersDiffer
  <2> QED BY <2>2, <2>4
<1>8. \A x, y \in 1..m : f[x] = f[y] => x = y
  <2>1. IsFiniteSet(1..m) /\ Cardinality(1..m) = m
    <3>1. 1 \in Int /\ m \in Int
      BY <1>2, SMTT(10)
    <3>2. IsFiniteSet(1..m) /\ Cardinality(1..m) = IF 1 > m THEN 0 ELSE m - 1 + 1
      BY <3>1, FS_Interval
    <3> QED BY <1>2, <3>2, SMTT(10)
  <2>2. f \in Surjection(1..m, J)
    BY <1>6, <1>7 DEF Surjection
  <2>3. f \in Injection(1..m, J)
    BY <1>2, <2>1, <2>2, FS_SurjSameCardinalityImpliesInj
  <2> QED BY <2>3 DEF Injection, IsInjective
<1>9. Numbering(ps, l, w, f)
  BY <1>1, <1>6, <1>7, <1>8 DEF Numbering
<1> QED BY <1>9

\* The patterns among e whose case fits what was read up to place i of the chunk t.
Fitting(ps, e, t, i) ==
  { j \in e : /\ Len(ps[j].patrn) <= i
              /\ \/ ps[j].nocase
                 \/ ps[j].casepatrn = SubSeq(t, i - Len(ps[j].patrn) + 1, i) }

\* The places ks are those of all that is due, or of one pattern.
Chosen(k, e, due, f, ks) ==
  IF Everyone(k) THEN \A j \in due : \E x \in ks : f[x] = j
  ELSE e = {} \/ \E j \in e : \E x \in ks : f[x] = j

LEMMA EntriesChosen ==
  ASSUME NEW ps, NEW w, NEW f, NEW s, NEW l, l = matchList[s], l \in Seq(Entry), Numbering(ps, l, w, f),
         NEW read, NEW i, i = Len(read), i \in Nat, NEW ks \in Entries(s, read)
  PROVE  ks \in SUBSET (1..Len(l)) /\ Chosen(kind, EndsOf(ps, w), Fitting(ps, EndsOf(ps, w), read, i), f, ks)
<1>1. PICK e, due : e = EndsOf(ps, w) /\ due = Fitting(ps, e, read, i)
  OBVIOUS
<1>2. DOMAIN l = 1..Len(l) /\ Len(l) \in Nat
  BY LenProperties
<1>3. /\ f \in [1..Len(l) -> e] /\ (\A x \in 1..Len(l) : l[x] = ps[f[x]])
      /\ \A j \in e : \E x \in 1..Len(l) : f[x] = j
  BY <1>1 DEF Numbering
<1>4. CASE Everyone(kind)
  <2>1. PICK fits \in { g \in [1..Len(l) -> BOOLEAN] : \A x \in 1..Len(l) : g[x] \in CaseFits(l[x], read) } :
          ks = { x \in 1..Len(l) : fits[x] }
    BY <1>2, <1>4 DEF Entries, Everyone
  <2>2. ASSUME NEW j \in due
        PROVE  \E x \in ks : f[x] = j
    <3>1. PICK x \in 1..Len(l) : f[x] = j
      BY <1>1, <1>3, <2>2 DEF Fitting
    <3>2. l[x] = ps[j] /\ fits[x] \in CaseFits(l[x], read)
      BY <1>3, <2>1, <3>1
    <3>3. /\ Len(l[x].patrn) <= i
          /\ l[x].nocase \/ l[x].casepatrn = SubSeq(read, i - Len(l[x].patrn) + 1, i)
      BY <1>1, <2>2, <3>2 DEF Fitting
    <3>4. l[x].patrn \in Seq(Inputs)
      <4>1. l[x] \in Entry
        BY ElementOfSeq
      <4> QED BY <4>1 DEF Entry
    <3>5. ~(Len(l[x].patrn) > Len(read))
      <4>1. Len(l[x].patrn) \in Nat
        BY <3>4, LenProperties
      <4> QED BY <3>3, <4>1, SMTT(10)
    <3>6. CaseFits(l[x], read) = {TRUE}
      <4>1. CASE l[x].nocase
        BY <4>1 DEF CaseFits
      <4>2. CASE ~l[x].nocase
        <5>1. CaseFits(l[x], read) = { l[x].casepatrn = SubSeq(read, i - Len(l[x].patrn) + 1, i) }
          BY <3>5, <4>2 DEF CaseFits
        <5>2. (l[x].casepatrn = SubSeq(read, i - Len(l[x].patrn) + 1, i)) = TRUE
          BY <3>3, <4>2
        <5> QED BY <5>1, <5>2
      <4> QED BY <4>1, <4>2
    <3>7. fits[x] = TRUE
      BY <3>2, <3>6
    <3> QED BY <2>1, <3>1, <3>7
  <2> QED BY <1>1, <1>4, <2>1, <2>2 DEF Chosen
<1>5. CASE ~Everyone(kind)
  <2>1. ks = (1..Len(l)) \cap {1}
    BY <1>2, <1>5 DEF Entries, Everyone
  <2>2. ASSUME NEW j \in e
        PROVE  \E g \in e : \E x \in ks : f[x] = g
    <3>1. PICK x \in 1..Len(l) : f[x] = j
      BY <1>3
    <3>2. 1 \in 1..Len(l)
      BY <1>2, SMTT(10)
    <3> QED BY <1>3, <2>1, <3>2
  <2> QED BY <1>1, <1>5, <2>1, <2>2 DEF Chosen
<1> QED BY <1>4, <1>5

\* d are the calls for the places ks of the list l, in the order of the sequence a.
CalledFor(d, a, ks, l, k, i) ==
  /\ d \in Seq(Calls) /\ a \in [1..Len(d) -> ks]
  /\ \A x \in ks : \E y \in 1..Len(d) : a[y] = x
  /\ \A x, y \in 1..Len(d) : a[x] = a[y] => x = y
  /\ \A y \in 1..Len(d) : /\ a[y] \in 1..Len(l) /\ d[y].id = l[a[y]].id
                          /\ d[y].index = i - Len(l[a[y]].patrn) - Late(k)

LEMMA DirectCalls ==
  ASSUME NEW s, NEW l, l = matchList[s], l \in Seq(Entry), NEW read, NEW i, i = Len(read), i \in Nat,
         NEW ks \in SUBSET (1..Len(l)), NEW d, d = Direct(s, ks, read)
  PROVE  CalledFor(d, Ascending(ks), ks, l, kind, i)
<1>1. IsFiniteSet(ks) /\ \A x \in ks : x \in Int
  <2>1. 1 \in Int /\ Len(l) \in Int /\ \A x \in 1..Len(l) : x \in Int
    <3>1. Len(l) \in Nat
      BY LenProperties
    <3> QED BY <3>1, SMTT(10)
  <2>2. IsFiniteSet(1..Len(l))
    BY <2>1, FS_Interval
  <2> QED BY <2>1, <2>2, FS_Subset
<1>2. PICK c, a : c = Cardinality(ks) /\ a = Ascending(ks)
  OBVIOUS
<1>3. /\ c \in Nat /\ a \in [1..c -> ks] /\ (\A x \in ks : \E y \in 1..c : a[y] = x)
      /\ \A x, y \in 1..c : a[x] = a[y] => x = y
  BY <1>1, <1>2, AscendingOrders
<1>4. d = [y \in 1..c |-> [id |-> l[a[y]].id, index |-> Len(read) - Len(l[a[y]].patrn) - Late(kind)]]
  BY <1>2 DEF Direct, Report, Index, Late
<1>5. ASSUME NEW y \in 1..c
      PROVE  /\ a[y] \in 1..Len(l) /\ l[a[y]].id \in Nat
             /\ i - Len(l[a[y]].patrn) - Late(kind) \in Int
  <2>1. a[y] \in 1..Len(l)
    BY <1>3
  <2>2. l[a[y]] \in Entry
    BY <2>1, ElementOfSeq
  <2>3. l[a[y]].id \in Nat /\ l[a[y]].patrn \in Seq(Inputs)
    BY <2>2 DEF Entry
  <2>4. Len(l[a[y]].patrn) \in Nat
    BY <2>3, LenProperties
  <2>5. Late(kind) = 0 \/ Late(kind) = 1
    BY DEF Late
  <2>6. i - Len(l[a[y]].patrn) - Late(kind) \in Int
    <3>1. PICK m, t : m = Len(l[a[y]].patrn) /\ t = Late(kind)
      OBVIOUS
    <3>2. m \in Nat /\ (t = 0 \/ t = 1)
      BY <2>4, <2>5, <3>1
    <3>3. i - m - t \in Int
      BY <3>2, SMTT(10)
    <3> QED BY <3>1, <3>3
  <2> QED BY <2>1, <2>3, <2>6
<1>6. ASSUME NEW y \in 1..c
      PROVE  d[y].id = l[a[y]].id /\ d[y].index = i - Len(l[a[y]].patrn) - Late(kind) /\ d[y] \in Calls
  <2>1. d[y] = [id |-> l[a[y]].id, index |-> i - Len(l[a[y]].patrn) - Late(kind)]
    BY <1>4
  <2> QED BY <1>5, <2>1 DEF Calls
<1>7. d \in Seq(Calls) /\ Len(d) = c
  <2>1. d \in [1..c -> Calls]
    BY <1>4, <1>6
  <2> QED BY <1>3, <1>4, <2>1
<1> QED BY <1>2, <1>3, <1>5, <1>6, <1>7 DEF CalledFor

\* They say of each pattern taken up that it ends at the place looked at.
LEMMA DirectAnswers ==
  ASSUME NEW ps, Entered(ps), NEW w, NEW f, NEW s, NEW l, l = matchList[s], l \in Seq(Entry),
         Numbering(ps, l, w, f), NEW read, NEW i, i = Len(read), i \in Nat,
         NEW ks \in SUBSET (1..Len(l)), NEW due \in SUBSET EndsOf(ps, w),
         Chosen(kind, EndsOf(ps, w), due, f, ks), NEW d, d = Direct(s, ks, read)
  PROVE  Answers(ps, kind, EndsOf(ps, w), due, d, i)
<1>1. PICK e, a : e = EndsOf(ps, w) /\ a = Ascending(ks)
  OBVIOUS
<1>2. /\ d \in Seq(Calls) /\ a \in [1..Len(d) -> ks]
      /\ (\A x \in ks : \E y \in 1..Len(d) : a[y] = x)
      /\ (\A x, y \in 1..Len(d) : a[x] = a[y] => x = y)
      /\ \A y \in 1..Len(d) : /\ a[y] \in 1..Len(l) /\ d[y].id = l[a[y]].id
                              /\ d[y].index = i - Len(l[a[y]].patrn) - Late(kind)
  <2>1. CalledFor(d, Ascending(ks), ks, l, kind, i)
    BY DirectCalls
  <2> QED BY <1>1, <2>1 DEF CalledFor
<1>3. /\ f \in [1..Len(l) -> e] /\ (\A x \in 1..Len(l) : l[x] = ps[f[x]])
      /\ \A x, y \in 1..Len(l) : f[x] = f[y] => x = y
  BY <1>1 DEF Numbering
<1>4. e \in SUBSET (1..Len(ps))
  BY <1>1 DEF EndsOf
<1>5. ASSUME NEW y \in 1..Len(d)
      PROVE  f[a[y]] \in e /\ Says(ps, kind, d[y], f[a[y]], i)
  <2>1. PICK z, g : z = a[y] /\ g = f[z]
    OBVIOUS
  <2>2. /\ z \in 1..Len(l) /\ d[y].id = l[z].id /\ d[y].index = i - Len(l[z].patrn) - Late(kind)
    BY <1>2, <2>1
  <2>3. g \in e /\ l[z] = ps[g]
    BY <1>3, <2>1, <2>2
  <2>4. Says(ps, kind, d[y], g, i)
    BY <2>2, <2>3 DEF Says
  <2> QED BY <2>1, <2>3, <2>4
<1>6. Once(d)
  <2> SUFFICES ASSUME NEW x \in 1..Len(d), NEW y \in 1..Len(d), d[x] = d[y]
               PROVE  x = y
    BY DEF Once
  <2>1. PICK j, m : j = f[a[x]] /\ m = f[a[y]]
    OBVIOUS
  <2>2. j \in 1..Len(ps) /\ m \in 1..Len(ps) /\ ps[j].id = ps[m].id
    BY <1>4, <1>5, <2>1 DEF Says
  <2>3. j = m
    BY <2>2, NumbersDiffer
  <2>4. a[x] = a[y]
    <3>1. PICK u, v : u = a[x] /\ v = a[y]
      OBVIOUS
    <3>2. u \in 1..Len(l) /\ v \in 1..Len(l)
      BY <1>2, <3>1
    <3>3. f[u] = f[v]
      BY <2>1, <2>3, <3>1
    <3>4. u = v
      BY <1>3, <3>2, <3>3
    <3> QED BY <3>1, <3>4
  <2> QED BY <1>2, <2>4
<1>7. ASSUME NEW j, \E x \in ks : f[x] = j
      PROVE  \E y \in 1..Len(d) : Says(ps, kind, d[y], j, i)
  BY <1>2, <1>5, <1>7
<1>8. IF Everyone(kind) THEN \A j \in due : \E x \in ks : f[x] = j
      ELSE e = {} \/ \E j \in e : \E x \in ks : f[x] = j
  BY <1>1 DEF Chosen
<1>9. IF Everyone(kind) THEN \A j \in due : \E y \in 1..Len(d) : Says(ps, kind, d[y], j, i)
      ELSE e = {} \/ \E j \in e : \E y \in 1..Len(d) : Says(ps, kind, d[y], j, i)
  BY <1>7, <1>8
<1> QED BY <1>1, <1>2, <1>5, <1>6, <1>9 DEF Answers

-----------------------------------------------------------------------------
(* One look of a search at the matches of a state *)

\* What the search has when it looks.
Found == [pmq |-> pmq, reports |-> reports, stop |-> FALSE]

\* The places taken up are places of the list.
LEMMA EntriesPlaces ==
  ASSUME NEW s, NEW l, l = matchList[s], l \in Seq(Entry), NEW read, NEW ks \in Entries(s, read)
  PROVE  ks \in SUBSET (1..Len(l))
<1>1. DOMAIN l = 1..Len(l)
  BY LenProperties
<1>2. CASE kind \in {"full_all", "full_q_all"}
  <2>1. PICK fits : ks = { x \in 1..Len(l) : fits[x] }
    BY <1>1, <1>2 DEF Entries
  <2> QED BY <2>1
<1>3. CASE kind \notin {"full_all", "full_q_all"}
  <2>1. ks = (1..Len(l)) \cap {1}
    BY <1>1, <1>3 DEF Entries
  <2> QED BY <2>1
<1> QED BY <1>2, <1>3

\* What may come of a look.
LEMMA LookIs ==
  ASSUME NEW s, NEW read, NEW o \in Look(s, read)
  PROVE  \E ks \in Entries(s, read) : /\ Queued(kind) => o \in AddAll(Found, s, ks)
                                      /\ ~Queued(kind) => o \in Delivered(Found, Direct(s, ks, read))
<1>1. PICK ks \in Entries(s, read) : o \in IF Queued(kind) THEN AddAll(Found, s, ks)
                                           ELSE Delivered(Found, Direct(s, ks, read))
  BY DEF Look, Found
<1> QED BY <1>1

\* The queue keeps its order, whatever the lists hold.
LEMMA LookQueues ==
  ASSUME QueueRoom, NEW n, NEW ml, ml = matchList, ListsOf(n, ml), NEW s \in 0..n,
         NEW read, Len(read) \in Nat, Queueing(n, ml, Found, Nat, {}), NEW o \in Look(s, read)
  PROVE  Queueing(n, ml, o, Nat, {}) /\ (Queued(kind) \/ o.pmq = <<>>)
<1>1. PICK ks \in Entries(s, read) : /\ Queued(kind) => o \in AddAll(Found, s, ks)
                                     /\ ~Queued(kind) => o \in Delivered(Found, Direct(s, ks, read))
  BY LookIs
<1>2. PICK l, i, x : l = ml[s] /\ i = Len(read) /\ x = Found
  OBVIOUS
<1>3. l = matchList[s] /\ l \in Seq(Entry)
  BY <1>2 DEF ListsOf
<1>4. ks \in SUBSET (1..Len(l))
  BY <1>3, EntriesPlaces
<1>5. CASE Queued(kind)
  <2>1. \A z \in ks : IdOf(ml, <<s, z>>) \in Nat
    <3> TAKE z \in ks
    <3>1. PICK e : e = <<s, z>>
      OBVIOUS
    <3>2. z \in 1..Len(l) /\ z \in Nat
      <4>1. \A y \in 1..Len(l) : y \in Nat
        BY SMTT(10)
      <4> QED BY <1>4, <4>1
    <3>3. e \in Slots(n, ml)
      <4>1. e[1] = s /\ e[2] = z
        BY <3>1
      <4>2. e \in (0..n) \X Nat
        BY <3>1, <3>2
      <4> QED BY <1>2, <3>2, <4>1, <4>2 DEF Slots
    <3> QED BY <3>1, <3>3, SlotEntry
  <2>2. o \in AddAll(x, s, ks) /\ Queueing(n, ml, x, Nat, {})
    BY <1>1, <1>2, <1>5
  <2>3. ks \in SUBSET (1..Len(ml[s]))
    BY <1>2, <1>4
  <2>4. PICK I, K : I = Nat /\ K = {}
    OBVIOUS
  <2>5. Queueing(n, ml, x, I, K) /\ o \in AddAll(x, s, ks)
    BY <2>2, <2>4
  <2>6. IdsOf(ml, s, ks) \subseteq I
    BY <2>1, <2>4 DEF IdsOf
  <2>7. Queueing(n, ml, o, I, K \cup IdsOf(ml, s, ks))
    BY <2>3, <2>5, <2>6, EntriesQueued
  <2> QED BY <1>5, <2>4, <2>7 DEF Queueing, Within
<1>6. CASE ~Queued(kind)
  <2>1. PICK d : d = Direct(s, ks, read)
    OBVIOUS
  <2>2. d \in Seq(Calls)
    <3>1. CalledFor(d, Ascending(ks), ks, l, kind, i)
      BY <1>2, <1>3, <1>4, <2>1, DirectCalls
    <3> QED BY <3>1 DEF CalledFor
  <2>3. x \in Outcomes(n, ml) /\ ~x.stop
    <3>1. x.stop = FALSE
      BY <1>2 DEF Found
    <3> QED BY <1>2, <3>1 DEF Queueing, Orderly
  <2>4. Tells(n, ml, x, d, o)
    BY <1>1, <1>2, <1>6, <2>1, <2>2, <2>3, DeliveredIs
  <2>5. o \in Outcomes(n, ml) /\ o.pmq = <<>>
    BY <2>4 DEF Tells
  <2>6. Len(o.pmq) = 0 /\ o.reports \in Seq(Calls)
    BY <2>5, EmptySeq DEF Outcomes
  <2>7. 0 < AC_MAX_INQ /\ \A y \in 1..0 : FALSE
    BY SMTT(10) DEF QueueRoom
  <2>8. Once(o.pmq) /\ Len(o.pmq) < AC_MAX_INQ
    BY <2>6, <2>7 DEF Once
  <2>9. SaidIds(ml, o) \subseteq Nat
    <3>1. PICK r : r = o.reports
      OBVIOUS
    <3>2. \A y \in 1..Len(r) : r[y].id \in Nat
      <4> TAKE y \in 1..Len(r)
      <4>1. r[y] \in Calls
        BY <2>6, <3>1, ElementOfSeq
      <4> QED BY <4>1 DEF Calls
    <3>3. SaidIds(ml, o) = { r[y].id : y \in 1..Len(r) }
      BY <2>6, <2>7, <3>1 DEF SaidIds
    <3> QED BY <3>2, <3>3
  <2> QED BY <2>5, <2>8, <2>9 DEF Queueing, Orderly, Within
<1> QED BY <1>5, <1>6

\* A look at the place i tells what is to be told of it.
LEMMA LookTells ==
  ASSUME QueueRoom, NEW n, NEW ml, ml = matchList, ListsOf(n, ml), NEW ps, NEW E, NEW D, NEW i,
         Plot(ps, E, D, i), NEW s \in 0..n, NEW w, Gathers(ps, ml[s], w), EndsOf(ps, w) = E[i],
         NEW read, i = Len(read), D[i] = Fitting(ps, E[i], read, i),
         Tale(ps, kind, n, ml, E, D, Found, i - 1), NEW o \in Look(s, read)
  PROVE  Tale(ps, kind, n, ml, E, D, o, i)
<1>1. PICK ks \in Entries(s, read) : /\ Queued(kind) => o \in AddAll(Found, s, ks)
                                     /\ ~Queued(kind) => o \in Delivered(Found, Direct(s, ks, read))
  BY LookIs
<1>2. PICK l, e, due, x : l = ml[s] /\ e = EndsOf(ps, w) /\ due = Fitting(ps, e, read, i) /\ x = Found
  OBVIOUS
<1>3. l = matchList[s] /\ l \in Seq(Entry) /\ Gathers(ps, l, w) /\ E[i] = e /\ D[i] = due
  BY <1>2 DEF ListsOf
<1>4. Entered(ps) /\ i \in Nat /\ due \in SUBSET e
  BY <1>3, <1>2 DEF Plot, Fitting
<1>5. PICK f : Numbering(ps, l, w, f)
  BY <1>3, <1>4, ListNumbered
<1>6. ks \in SUBSET (1..Len(l)) /\ Chosen(kind, e, due, f, ks)
  <2>1. /\ ks \in SUBSET (1..Len(l))
        /\ Chosen(kind, EndsOf(ps, w), Fitting(ps, EndsOf(ps, w), read, i), f, ks)
    BY <1>3, <1>4, <1>5, EntriesChosen
  <2> QED BY <1>2, <2>1
<1>7. Tale(ps, kind, n, ml, E, D, x, i - 1) /\ ~x.stop
  <2>1. x.stop = FALSE
    BY <1>2 DEF Found
  <2> QED BY <1>2, <2>1
<1>8. CASE Queued(kind)
  <2>1. \A y \in ks : f[y] \in e /\ IdOf(ml, <<s, y>>) = ps[f[y]].id
    <3> TAKE y \in ks
    <3>1. y \in 1..Len(l)
      BY <1>6
    <3>2. f[y] \in e /\ l[y] = ps[f[y]]
      BY <1>2, <1>5, <3>1 DEF Numbering
    <3> QED BY <1>2, <3>2 DEF IdOf
  <2>2. \A y \in ks : \E j \in E[i] : IdOf(ml, <<s, y>>) = ps[j].id
    BY <1>3, <2>1
  <2>3. \A j : (\E y \in ks : f[y] = j) => \E y \in ks : IdOf(ml, <<s, y>>) = ps[j].id
    BY <2>1
  <2>4. IF Everyone(kind) THEN \A j \in D[i] : \E y \in ks : IdOf(ml, <<s, y>>) = ps[j].id
        ELSE E[i] = {} \/ \E j \in E[i] : \E y \in ks : IdOf(ml, <<s, y>>) = ps[j].id
    BY <1>3, <1>6, <2>3 DEF Chosen
  <2>5. o \in AddAll(x, s, ks) /\ ks \in SUBSET (1..Len(ml[s]))
    BY <1>1, <1>2, <1>6, <1>8
  <2> QED BY <1>7, <1>8, <2>2, <2>4, <2>5, QueueTold
<1>9. CASE ~Queued(kind)
  <2>1. PICK d : d = Direct(s, ks, read)
    OBVIOUS
  <2>2. due \in SUBSET EndsOf(ps, w) /\ Chosen(kind, EndsOf(ps, w), due, f, ks)
    BY <1>2, <1>4, <1>6
  <2>3. Answers(ps, kind, EndsOf(ps, w), due, d, i)
    BY <1>3, <1>4, <1>5, <1>6, <2>1, <2>2, DirectAnswers
  <2>4. Answers(ps, kind, E[i], D[i], d, i)
    BY <1>2, <1>3, <2>3
  <2>5. o \in Delivered(x, d)
    BY <1>1, <1>2, <1>9, <2>1
  <2> QED BY <1>7, <1>9, <2>4, <2>5, DirectlyTold
<1> QED BY <1>8, <1>9

\* Where no pattern ends there is nothing to tell.
LEMMA NothingToTell ==
  ASSUME NEW n, NEW ml, NEW ps, NEW k, NEW E, NEW D, NEW i, Plot(ps, E, D, i), E[i] = {},
         NEW o, Tale(ps, k, n, ml, E, D, o, i - 1)
  PROVE  Tale(ps, k, n, ml, E, D, o, i)
<1>1. i \in Nat /\ i \in 0..i /\ (\A x \in 0..(i - 1) : x \in 0..i) /\ \A x \in 1..i : x = i \/ x \in 1..(i - 1)
  <2>1. i \in Nat
    BY DEF Plot
  <2>2. \A x \in 0..(i - 1) : x \in 0..i
    BY <2>1, SMTT(10)
  <2>3. \A x \in 1..i : x = i \/ x \in 1..(i - 1)
    BY <2>1, SMTT(10)
  <2>4. i \in 0..i
    BY <2>1, SMTT(10)
  <2> QED BY <2>1, <2>2, <2>3, <2>4
<1>2. D[i] = {}
  BY <1>1 DEF Plot
<1>3. Truthful(ps, k, ml, E, o, i - 1) /\ (o.stop \/ Thorough(ps, k, ml, E, D, o, i - 1))
  BY DEF Tale
<1>4. Truthful(ps, k, ml, E, o, i)
  <2>1. CASE Queued(k)
    <3>1. { ps[j].id : j \in UNION { E[x] : x \in 0..(i - 1) } } \subseteq
          { ps[j].id : j \in UNION { E[x] : x \in 0..i } }
      BY <1>1
    <3>2. SaidIds(ml, o) \subseteq { ps[j].id : j \in UNION { E[x] : x \in 0..(i - 1) } }
      BY <1>3, <2>1 DEF Truthful
    <3>3. SaidIds(ml, o) \subseteq { ps[j].id : j \in UNION { E[x] : x \in 0..i } }
      BY <3>1, <3>2
    <3> QED BY <2>1, <3>3 DEF Truthful
  <2>2. CASE ~Queued(k)
    <3>1. \A y \in 1..Len(o.reports) : \E x \in 0..(i - 1) : \E j \in E[x] : Says(ps, k, o.reports[y], j, x)
      BY <1>3, <2>2 DEF Truthful
    <3>2. \A y \in 1..Len(o.reports) : \E x \in 0..i : \E j \in E[x] : Says(ps, k, o.reports[y], j, x)
      BY <1>1, <3>1
    <3> QED BY <2>2, <3>2 DEF Truthful
  <2> QED BY <2>1, <2>2
<1>5. o.stop \/ Thorough(ps, k, ml, E, D, o, i)
  BY <1>1, <1>2, <1>3 DEF Thorough
<1> QED BY <1>4, <1>5 DEF Tale

\* The same in the loop over the characters, where a flag of 0 means that there are none.
LEMMA LoopTells ==
  ASSUME QueueRoom, NEW n, NEW ml, ml = matchList, ListsOf(n, ml), NEW ps, NEW E, NEW D, NEW i,
         Plot(ps, E, D, i), NEW s \in 0..n, Ps(nextState[s], 1) = (IF ml[s] # <<>> THEN 1 ELSE 0),
         NEW w, Gathers(ps, ml[s], w), EndsOf(ps, w) = E[i],
         NEW read, i = Len(read), D[i] = Fitting(ps, E[i], read, i),
         Tale(ps, kind, n, ml, E, D, Found, i - 1), NEW o \in LookInLoop(s, read)
  PROVE  Tale(ps, kind, n, ml, E, D, o, i)
<1>1. CASE o \in Look(s, read)
  BY <1>1, LookTells
<1>2. CASE Ps(nextState[s], 1) = 0 /\ o = Found
  <2>1. ml[s] = <<>>
    <3>1. ~(1 = 0)
      BY SMTT(10)
    <3> QED BY <1>2, <3>1
  <2>2. E[i] = {}
    <3>1. Held(ml[s]) = {}
      <4>1. Len(ml[s]) = 0
        BY <2>1, EmptySeq
      <4>2. \A y \in 1..0 : FALSE
        BY SMTT(10)
      <4> QED BY <4>1, <4>2 DEF Held
    <3>2. Those(ps, EndsOf(ps, w)) = {}
      BY <3>1 DEF Gathers
    <3>3. EndsOf(ps, w) = {}
      BY <3>2 DEF Those
    <3> QED BY <3>3
  <2> QED BY <1>2, <2>2, NothingToTell
<1> QED BY <1>1, <1>2 DEF LookInLoop, Found

-----------------------------------------------------------------------------
(* The places of a chunk *)

\* The patterns that end at each place of chunk t of a stream that began with b, and
\* those whose case fits.
Here(ps, b, t) == [x \in 0..Len(t) |-> EndsOf(ps, SubSeq(b \o UpWord(t), 1, Len(b) + x))]
Due(ps, b, t) == [x \in 0..Len(t) |-> Fitting(ps, Here(ps, b, t)[x], t, x)]

LEMMA PlotIs ==
  ASSUME NEW ps, Entered(ps), NEW b \in Seq(Inputs), NEW t \in Seq(Inputs), NEW i \in 0..Len(t)
  PROVE  /\ Plot(ps, Here(ps, b, t), Due(ps, b, t), i)
         /\ Due(ps, b, t)[i] = Fitting(ps, Here(ps, b, t)[i], t, i)
<1>1. PICK E, D : E = Here(ps, b, t) /\ D = Due(ps, b, t)
  OBVIOUS
<1>2. Len(t) \in Nat /\ i \in Nat /\ \A x \in 0..i : x \in 0..Len(t)
  <2>1. Len(t) \in Nat
    BY LenProperties
  <2> QED BY <2>1, SMTT(10)
<1>3. \A x \in 0..Len(t) : E[x] \in SUBSET (1..Len(ps)) /\ D[x] = Fitting(ps, E[x], t, x)
  BY <1>1 DEF Here, Due, EndsOf
<1>4. \A x \in 0..Len(t) : D[x] \in SUBSET E[x]
  BY <1>3 DEF Fitting
<1> QED BY <1>1, <1>2, <1>3, <1>4 DEF Plot

\* At the end of what was read they are those of the stream.
LEMMA HereLast ==
  ASSUME NEW ps, NEW b \in Seq(Inputs), NEW t \in Seq(Inputs)
  PROVE  Here(ps, b, t)[Len(t)] = EndsOf(ps, b \o UpWord(t))
<1>1. PICK w : w = b \o UpWord(t)
  OBVIOUS
<1>2. w \in Seq(Inputs) /\ Len(w) = Len(b) + Len(t) /\ Len(t) \in Nat
  BY <1>1, StreamGrows
<1>3. Len(t) \in 0..Len(t)
  BY <1>2, SMTT(10)
<1>4. SubSeq(w, 1, Len(w)) = w
  BY <1>2, PrefixWords
<1> QED BY <1>1, <1>2, <1>3, <1>4 DEF Here

\* The part of w between k and x.
LEMMA MiddleOf ==
  ASSUME NEW S, NEW w, NEW k \in Int, NEW x \in Int, \A y \in k..x : w[y] \in S,
         NEW v, v = SubSeq(w, k, x), NEW n, n = x - k + 1
  PROVE  /\ v \in Seq(S) /\ Len(v) = (IF k <= x THEN n ELSE 0)
         /\ \A y \in 1..n : v[y] = w[k + y - 1]
BY SubSeqProperties

\* A part of a sequence does not depend on what follows.
LEMMA SameMiddle ==
  ASSUME NEW t \in Seq(Inputs), NEW c \in Inputs, NEW x \in 0..Len(t), NEW m \in Nat, m <= x
  PROVE  SubSeq(Append(t, c), x - m + 1, x) = SubSeq(t, x - m + 1, x)
<1>1. PICK a, k : a = Append(t, c) /\ k = x - m + 1
  OBVIOUS
<1>2. a \in Seq(Inputs) /\ Len(t) \in Nat /\ \A y \in 1..Len(t) : a[y] = t[y]
  BY <1>1, AppendWord
<1>3. k \in Int /\ x \in Int /\ (\A y \in k..x : y \in 1..Len(t)) /\ \A y \in 1..(x - k + 1) : k + y - 1 \in k..x
  <2>1. k \in Int /\ x \in Int /\ \A y \in k..x : y \in 1..Len(t)
    BY <1>1, <1>2, SMTT(10)
  <2>2. \A y \in 1..(x - k + 1) : k + y - 1 \in k..x
    BY <2>1, SMTT(10)
  <2> QED BY <2>1, <2>2
<1>4. \A y \in k..x : a[y] = t[y] /\ t[y] \in Inputs
  BY <1>2, <1>3, ElementOfSeq
<1>5. PICK u, v, n : u = SubSeq(a, k, x) /\ v = SubSeq(t, k, x) /\ n = x - k + 1
  OBVIOUS
<1>6. /\ u \in Seq(Inputs) /\ Len(u) = (IF k <= x THEN n ELSE 0)
      /\ \A y \in 1..n : u[y] = a[k + y - 1]
  <2>1. \A y \in k..x : a[y] \in Inputs
    BY <1>4
  <2>2. k \in Int /\ x \in Int
    BY <1>3
  <2>3. u = SubSeq(a, k, x) /\ n = x - k + 1
    BY <1>5
  <2> QED BY <2>1, <2>2, <2>3, MiddleOf
<1>7. /\ v \in Seq(Inputs) /\ Len(v) = (IF k <= x THEN n ELSE 0)
      /\ \A y \in 1..n : v[y] = t[k + y - 1]
  <2>1. \A y \in k..x : t[y] \in Inputs
    BY <1>4
  <2> QED BY <1>3, <1>5, <2>1, MiddleOf
<1>8. Len(u) = Len(v) /\ \A y \in 1..Len(u) : y \in 1..n
  <2>1. \A y \in 1..Len(u) : y \in 1..n
    BY <1>3, <1>5, <1>6, SMTT(10)
  <2> QED BY <1>6, <1>7, <2>1
<1>9. \A y \in 1..Len(u) : u[y] = v[y]
  BY <1>3, <1>4, <1>5, <1>6, <1>7, <1>8
<1>10. u = v
  BY <1>6, <1>7, <1>8, <1>9, SeqEqual
<1> QED BY <1>1, <1>5, <1>10

\* One character more changes nothing at the places before.
LEMMA PlotGrows ==
  ASSUME NEW ps, Entered(ps), NEW b \in Seq(Inputs), NEW t \in Seq(Inputs), NEW c \in Inputs,
         NEW x \in 0..Len(t)
  PROVE  /\ Here(ps, b, Append(t, c))[x] = Here(ps, b, t)[x]
         /\ Due(ps, b, Append(t, c))[x] = Due(ps, b, t)[x]
<1>1. PICK z, w, i, u : z = Append(t, c) /\ w = b \o UpWord(t) /\ i = Up[c] /\ u = b \o UpWord(z)
  OBVIOUS
<1>2. /\ w \in Seq(Inputs) /\ Len(w) = Len(b) + Len(t) /\ Len(t) \in Nat /\ Len(b) \in Nat
      /\ i \in Inputs /\ u = Append(w, i) /\ Len(z) = Len(t) + 1
  <2>1. w \in Seq(Inputs) /\ Len(w) = Len(b) + Len(t) /\ Len(t) \in Nat /\ Len(b) \in Nat
    BY <1>1, StreamGrows
  <2>2. i \in Inputs /\ Len(z) = Len(t) + 1
    <3>1. Longer(b, t, c)
      BY StreamGrows
    <3> QED BY <1>1, <3>1 DEF Longer
  <2>3. u = Append(w, i)
    <3>1. Longer(b, t, c)
      BY StreamGrows
    <3> QED BY <1>1, <3>1 DEF Longer
  <2> QED BY <2>1, <2>2, <2>3
<1>3. x \in 0..Len(z) /\ Len(b) + x \in 0..Len(w)
  <2>1. x \in 0..Len(z)
    BY <1>2, SMTT(10)
  <2>2. Len(b) + x \in 0..Len(w)
    BY <1>2, SMTT(10)
  <2> QED BY <2>1, <2>2
<1>4. SubSeq(u, 1, Len(b) + x) = SubSeq(w, 1, Len(b) + x)
  <2>1. PICK m : m = Len(b) + x
    OBVIOUS
  <2>2. m \in 0..Len(w)
    BY <1>3, <2>1
  <2> QED BY <1>2, <2>1, <2>2, SameFront
<1>5. Here(ps, b, z)[x] = Here(ps, b, t)[x]
  BY <1>1, <1>3, <1>4 DEF Here
<1>6. PICK e : e = Here(ps, b, t)[x]
  OBVIOUS
<1>7. e \in SUBSET (1..Len(ps))
  BY <1>6 DEF Here, EndsOf
<1>8. \A j \in e : Len(ps[j].patrn) <= x =>
        SubSeq(z, x - Len(ps[j].patrn) + 1, x) = SubSeq(t, x - Len(ps[j].patrn) + 1, x)
  <2> TAKE j \in e
  <2>1. PICK m : m = Len(ps[j].patrn)
    OBVIOUS
  <2>2. m \in Nat
    <3>1. ps[j] \in Entry
      BY <1>7, ElementOfSeq DEF Entered
    <3>2. ps[j].patrn \in Seq(Inputs)
      BY <3>1 DEF Entry
    <3> QED BY <2>1, <3>2, LenProperties
  <2>3. m <= x => SubSeq(z, x - m + 1, x) = SubSeq(t, x - m + 1, x)
    BY <1>1, <2>2, SameMiddle
  <2> QED BY <2>1, <2>3
<1>9. Fitting(ps, e, z, x) = Fitting(ps, e, t, x)
  BY <1>8 DEF Fitting
<1>10. Due(ps, b, z)[x] = Fitting(ps, Here(ps, b, z)[x], z, x) /\ Due(ps, b, t)[x] = Fitting(ps, e, t, x)
  BY <1>3, <1>6 DEF Due
<1> QED BY <1>1, <1>5, <1>6, <1>9, <1>10

\* What was told is a matter of the places up to i.
LEMMA TaleSame ==
  ASSUME NEW n, NEW ml, NEW ps, NEW k, NEW E, NEW D, NEW F, NEW G, NEW i \in Int,
         \A x \in 0..i : E[x] = F[x] /\ D[x] = G[x], NEW o, Tale(ps, k, n, ml, E, D, o, i)
  PROVE  Tale(ps, k, n, ml, F, G, o, i)
<1>1. \A x \in 1..i : x \in 0..i
  BY SMTT(10)
<1>2. Truthful(ps, k, ml, E, o, i) /\ (o.stop \/ Thorough(ps, k, ml, E, D, o, i))
  BY DEF Tale
<1>3. Truthful(ps, k, ml, F, o, i)
  <2>1. CASE Queued(k)
    <3>1. UNION { E[x] : x \in 0..i } = UNION { F[x] : x \in 0..i }
      OBVIOUS
    <3> QED BY <1>2, <2>1, <3>1 DEF Truthful
  <2>2. CASE ~Queued(k)
    BY <1>2, <2>2 DEF Truthful
  <2> QED BY <2>1, <2>2
<1>4. o.stop \/ Thorough(ps, k, ml, F, G, o, i)
  BY <1>1, <1>2 DEF Thorough
<1> QED BY <1>3, <1>4 DEF Tale

\* The patterns that the stream ends in are those that the word of its state ends in.
LEMMA StandsEnds ==
  ASSUME Known2, NEW s, NEW w \in Seq(Inputs), Stands(LastState, str, s, w)
  PROVE  EndsOf(patterns, str[s]) = EndsOf(patterns, w)
<1>1. PICK u, W, ps : u = str[s] /\ W = WordSet(LastState, str) /\ ps = patterns
  OBVIOUS
<1>2. Longest(u, w, W) /\ W \in SUBSET Seq(Inputs)
  BY <1>1, WordsKnown2 DEF Stands
<1>3. u \in Seq(Inputs) /\ Suf(u, w)
  BY <1>2 DEF Longest
<1>4. ASSUME NEW j \in 1..Len(ps)
      PROVE  Suf(ps[j].patrn, u) <=> Suf(ps[j].patrn, w)
  <2>1. PICK p : p = ps[j].patrn
    OBVIOUS
  <2>2. p \in W /\ p \in Seq(Inputs)
    BY <1>1, <2>1, PatternWords
  <2>3. Suf(p, u) => Suf(p, w)
    BY <1>3, <2>2, SufTrans
  <2>4. ASSUME Suf(p, w)
        PROVE  Suf(p, u)
    <3>1. Len(p) <= Len(u)
      BY <1>2, <2>2, <2>4 DEF Longest
    <3> QED BY <1>3, <2>2, <2>4, <3>1, SufSame
  <2> QED BY <2>1, <2>3, <2>4
<1> QED BY <1>1, <1>4 DEF EndsOf

-----------------------------------------------------------------------------
(* What a call has found *)

\* The queue is in order, empty in a search without one; and if no pattern is empty, what
\* was told up to place i of chunk t is what it should be.
Story(ps, k, n, ml, b, t, o, i) ==
  /\ Queueing(n, ml, o, Nat, {}) /\ (Queued(k) \/ o.pmq = <<>>)
  /\ Filled(ps) => Tale(ps, k, n, ml, Here(ps, b, t), Due(ps, b, t), o, i)

\* A call begins with nothing.
LEMMA StoryBegins ==
  ASSUME QueueRoom, NEW ps, NEW k, NEW n, NEW ml, NEW b, NEW t, NEW i \in Int, i < 1,
         NEW o, o = [pmq |-> <<>>, reports |-> <<>>, stop |-> FALSE]
  PROVE  Story(ps, k, n, ml, b, t, o, i)
<1>1. o.pmq = <<>> /\ o.reports = <<>> /\ o.stop = FALSE
  OBVIOUS
<1>2. PICK e : e = <<>>
  OBVIOUS
<1>3. e \in Seq(Slots(n, ml)) /\ e \in Seq(Calls) /\ Len(e) = 0 /\ 1..Len(e) = {}
  <2>1. e \in Seq(Slots(n, ml)) /\ e \in Seq(Calls) /\ Len(e) = 0
    BY <1>2, EmptySeq
  <2>2. 1..0 = {}
    BY SMTT(10)
  <2> QED BY <2>1, <2>2
<1>4. o.pmq = e /\ o.reports = e /\ o = [pmq |-> e, reports |-> e, stop |-> FALSE]
  BY <1>1, <1>2
<1>5. o \in Outcomes(n, ml)
  BY <1>3, <1>4 DEF Outcomes
<1>6. Once(e) /\ SaidIds(ml, o) = {}
  BY <1>3, <1>4 DEF Once, SaidIds
<1>7. Orderly(n, ml, o) /\ Len(o.pmq) < AC_MAX_INQ
  <2>1. 0 < AC_MAX_INQ
    BY SMTT(10) DEF QueueRoom
  <2> QED BY <1>1, <1>3, <1>4, <1>5, <1>6, <2>1 DEF Orderly
<1>8. Queueing(n, ml, o, Nat, {})
  BY <1>6, <1>7 DEF Queueing, Within
<1>9. 1..i = {}
  BY SMTT(10)
<1>10. Truthful(ps, k, ml, Here(ps, b, t), o, i)
  BY <1>3, <1>4, <1>6 DEF Truthful
<1>11. Thorough(ps, k, ml, Here(ps, b, t), Due(ps, b, t), o, i)
  BY <1>9 DEF Thorough
<1>12. Tale(ps, k, n, ml, Here(ps, b, t), Due(ps, b, t), o, i)
  BY <1>1, <1>4, <1>6, <1>7, <1>10, <1>11 DEF Tale
<1> QED BY <1>1, <1>8, <1>12 DEF Story

\* Another character is read.
LEMMA StoryGoesOn ==
  ASSUME NEW ps, Entered(ps), NEW k, NEW n, NEW ml, NEW b \in Seq(Inputs), NEW t \in Seq(Inputs),
         NEW c \in Inputs, NEW o, NEW i, i = Len(t), Story(ps, k, n, ml, b, t, o, i)
  PROVE  Story(ps, k, n, ml, b, Append(t, c), o, i)
<1>1. PICK z, E, D, F, G : /\ z = Append(t, c) /\ E = Here(ps, b, t) /\ D = Due(ps, b, t)
                           /\ F = Here(ps, b, z) /\ G = Due(ps, b, z)
  OBVIOUS
<1>2. i \in Int
  <2>1. Len(t) \in Nat
    BY LenProperties
  <2> QED BY <2>1, SMTT(10)
<1>3. \A x \in 0..i : E[x] = F[x] /\ D[x] = G[x]
  BY <1>1, PlotGrows
<1>4. Tale(ps, k, n, ml, E, D, o, i) => Tale(ps, k, n, ml, F, G, o, i)
  BY <1>2, <1>3, TaleSame
<1>5. Filled(ps) => Tale(ps, k, n, ml, E, D, o, i)
  BY <1>1 DEF Story
<1>6. Filled(ps) => Tale(ps, k, n, ml, F, G, o, i)
  BY <1>4, <1>5
<1> QED BY <1>1, <1>6 DEF Story

\* The lists, once they are merged.
LEMMA SuppliedLists ==
  ASSUME Supplied
  PROVE  /\ ListsOf(LastState, matchList) /\ Entered(patterns)
         /\ Filled(patterns) => \A s \in 0..LastState : Gathers(patterns, matchList[s], str[s])
<1>1. PICK n, ml, st : n = LastState /\ ml = matchList /\ st = str
  OBVIOUS
<1>2. Known2 /\ Lists(patterns, Top, n, st, ml, 0..n)
  BY <1>1 DEF Supplied
<1>3. n \in Nat /\ Top \in Nat /\ n <= Top
  BY <1>1, <1>2 DEF Known2
<1>4. \A s \in 0..n : s \in 0..Top
  BY <1>3, SMTT(10)
<1>5. \A s \in 0..n : ml[s] \in Seq(Entry)
  BY <1>2, <1>4 DEF Lists
<1> QED BY <1>1, <1>2, <1>3, <1>5 DEF ListsOf, Lists, Known2

\* A look adds the place looked at.
LEMMA StoryLooks ==
  ASSUME QueueRoom, Supplied, Packed, NEW b \in Seq(Inputs), NEW t \in Seq(Inputs), NEW s,
         Stands(LastState, str, s, b \o UpWord(t)), NEW i, i = Len(t),
         Story(patterns, kind, LastState, matchList, b, t, Found, i - 1),
         NEW o, o \in Look(s, t) \/ o \in LookInLoop(s, t)
  PROVE  Story(patterns, kind, LastState, matchList, b, t, o, i)
<1>1. PICK ps, n, ml, st, w, u, E, D : /\ ps = patterns /\ n = LastState /\ ml = matchList /\ st = str
                                       /\ w = b \o UpWord(t) /\ u = st[s]
                                       /\ E = Here(ps, b, t) /\ D = Due(ps, b, t)
  OBVIOUS
<1>2. ListsOf(n, ml) /\ Entered(ps) /\ (Filled(ps) => \A x \in 0..n : Gathers(ps, ml[x], st[x]))
  BY <1>1, SuppliedLists
<1>3. s \in 0..n /\ w \in Seq(Inputs) /\ i \in Nat
  BY <1>1, StreamGrows DEF Stands
<1>4. Ps(nextState[s], 1) = (IF ml[s] # <<>> THEN 1 ELSE 0)
  BY <1>1, <1>3, FlagsTell
<1>5. Queueing(n, ml, o, Nat, {}) /\ (Queued(kind) \/ o.pmq = <<>>)
  <2>1. Queueing(n, ml, Found, Nat, {}) /\ (Queued(kind) \/ Found.pmq = <<>>)
    BY <1>1 DEF Story
  <2>2. CASE o \in Look(s, t)
    BY <1>1, <1>2, <1>3, <2>1, <2>2, LookQueues
  <2>3. CASE o = Found
    BY <2>1, <2>3
  <2> QED BY <2>2, <2>3 DEF LookInLoop, Found
<1>6. ASSUME Filled(ps)
      PROVE  Tale(ps, kind, n, ml, E, D, o, i)
  <2>1. Tale(ps, kind, n, ml, E, D, Found, i - 1)
    BY <1>1, <1>6 DEF Story
  <2>2. Gathers(ps, ml[s], u)
    BY <1>1, <1>2, <1>3, <1>6
  <2>3. EndsOf(ps, u) = E[i]
    <3>1. Known2
      BY DEF Supplied
    <3>2. EndsOf(ps, u) = EndsOf(ps, w)
      BY <1>1, <1>3, <3>1, StandsEnds
    <3>3. E[i] = EndsOf(ps, w)
      BY <1>1, HereLast
    <3> QED BY <3>2, <3>3
  <2>4. Plot(ps, E, D, i) /\ D[i] = Fitting(ps, E[i], t, i)
    <3>1. i \in 0..Len(t)
      BY <1>3, SMTT(10)
    <3> QED BY <1>1, <1>2, <3>1, PlotIs
  <2>5. CASE o \in Look(s, t)
    BY <1>1, <1>2, <1>3, <2>1, <2>2, <2>3, <2>4, <2>5, LookTells
  <2>6. CASE o \in LookInLoop(s, t)
    BY <1>1, <1>2, <1>3, <1>4, <2>1, <2>2, <2>3, <2>4, <2>6, LoopTells
  <2> QED BY <2>5, <2>6
<1> QED BY <1>1, <1>5, <1>6 DEF Story

\* The queue is processed at the end of a chunk.
LEMMA StoryEnds ==
  ASSUME QueueRoom, Supplied, NEW k, Queued(k), NEW b, NEW t, NEW i, NEW o, ~o.stop,
         Story(patterns, k, LastState, matchList, b, t, o, i), NEW p \in ProcessQueue(o)
  PROVE  Story(patterns, k, LastState, matchList, b, t, p, i) /\ p.pmq = <<>>
<1>1. PICK ps, n, ml, E, D : /\ ps = patterns /\ n = LastState /\ ml = matchList
                             /\ E = Here(ps, b, t) /\ D = Due(ps, b, t)
  OBVIOUS
<1>2. ListsOf(n, ml)
  BY <1>1, SuppliedLists
<1>3. PICK I, K : I = Nat /\ K = {}
  OBVIOUS
<1>4. Orderly(n, ml, o) /\ Within(ml, o, I, K)
  BY <1>1, <1>3 DEF Story, Queueing
<1>5. Queueing(n, ml, p, I, K) /\ p.pmq = <<>>
  BY <1>1, <1>2, <1>4, QueueProcessed
<1>6. Filled(ps) => Tale(ps, k, n, ml, E, D, p, i)
  <2>1. Filled(ps) => Tale(ps, k, n, ml, E, D, o, i)
    BY <1>1 DEF Story
  <2> QED BY <1>1, <1>2, <2>1, QueueToldAtLast
<1> QED BY <1>1, <1>3, <1>5, <1>6 DEF Story

-----------------------------------------------------------------------------
(* The invariant of what is found *)

\* The matches up to this place have been looked at, in a search with a match list.
Looked == IF pc = "ready" \/ After(kind) THEN Len(text) ELSE Len(text) - 1
Plain(k) == k \in {"none", "trie"}
FoundSoFar == [pmq |-> pmq, reports |-> reports, stop |-> stopped]

\* What holds of the second machine in each phase, besides SecondInv and ThirdInv.
FoundInv ==
  /\ pc # "search" => pmq = <<>>
  /\ pc \in {"ready", "search"} =>
       /\ fsa = FSA_TRIE => Plain(kind)
       /\ Plain(kind) => pmq = <<>> /\ reports = <<>>
       /\ ~Plain(kind) => Story(patterns, kind, LastState, matchList, before, text, FoundSoFar, Looked)

\* What a search has to work with.
LEMMA SearchReady ==
  ASSUME SecondInv, ThirdInv, FoundInv, pc \in {"ready", "search"}, ~Plain(kind)
  PROVE  /\ fsa # FSA_TRIE /\ Supplied /\ Prepared /\ Packed /\ Selected /\ Streamed
         /\ text \in Seq(Inputs) /\ before \in Seq(Inputs) /\ Entered(patterns) /\ Len(text) \in Nat
         /\ pc = "search" => /\ ~stopped /\ FoundSoFar = Found
                             /\ Stands(LastState, str, state, before \o UpWord(text))
<1>1. fsa # FSA_TRIE
  BY DEF FoundInv
<1>2. Supplied /\ Packed /\ Selected /\ Streamed
  BY <1>1 DEF SecondInv, ThirdInv
<1>3. Prepared /\ Entered(patterns)
  BY <1>2 DEF Supplied, Prepared, Known2
<1>4. text \in Seq(Inputs) /\ before \in Seq(Inputs) /\ Len(text) \in Nat
  <2>1. text \in Seq(Inputs) /\ before \in Seq(Inputs)
    BY <1>2 DEF Streamed
  <2> QED BY <2>1, LenProperties
<1>5. ASSUME pc = "search"
      PROVE  /\ ~stopped /\ FoundSoFar = Found
             /\ Stands(LastState, str, state, before \o UpWord(text))
  <2>1. Stands(LastState, str, state, before \o UpWord(text))
    BY <1>1, <1>2, <1>5 DEF Streamed, Stream
  <2>2. stopped \in BOOLEAN /\ ~stopped
    <3>1. FoundSoFar \in Outcomes(LastState, matchList)
      BY <1>5 DEF FoundInv, Story, Queueing, Orderly
    <3>2. FoundSoFar.stop \in BOOLEAN /\ FoundSoFar.stop = stopped
      BY <3>1 DEF Outcomes, FoundSoFar
    <3> QED BY <1>2, <1>5, <3>2 DEF Streamed
  <2>3. stopped = FALSE
    BY <2>2
  <2> QED BY <2>1, <2>2, <2>3 DEF FoundSoFar, Found
<1> QED BY <1>1, <1>2, <1>3, <1>4, <1>5

LEMMA FoundInvBegins ==
  ASSUME QueueRoom, ThirdInv, FoundInv, NEW all \in BOOLEAN, NEW fresh \in BOOLEAN, Begin(all, fresh)
  PROVE  FoundInv'
<1>1. /\ pc' = "search" /\ kind' = SearchKind(all) /\ text' = <<>> /\ pmq' = <<>> /\ reports' = <<>>
      /\ stopped' = FALSE /\ fsa' = fsa
  BY DEF Begin, setup
<1>2. fsa' = FSA_TRIE => Plain(kind')
  <2>1. FSA_TRIE # FSA_NFA /\ FSA_TRIE # FSA_DFA
    BY SMTT(10) DEF FSA_DFA, FSA_TRIE, FSA_NFA
  <2>2. fsa = FSA_TRIE => SearchKind(all) = "trie"
    BY <2>1 DEF SearchKind
  <2> QED BY <1>1, <2>2 DEF Plain
<1>3. FoundSoFar' = [pmq |-> <<>>, reports |-> <<>>, stop |-> FALSE]
  BY <1>1 DEF FoundSoFar
<1>4. Looked' \in Int /\ Looked' < 1
  <2>1. Len(text') = 0
    BY <1>1, EmptySeq
  <2>2. Looked' = 0 \/ Looked' = 0 - 1
    BY <1>1, <2>1 DEF Looked
  <2> QED BY <2>2, SMTT(10)
<1>5. PICK ps, k, n, ml, b, t, o, i : /\ ps = patterns' /\ k = kind' /\ n = LastState' /\ ml = matchList'
                                      /\ b = before' /\ t = text' /\ o = FoundSoFar' /\ i = Looked'
  OBVIOUS
<1>6. Story(ps, k, n, ml, b, t, o, i)
  BY <1>3, <1>4, <1>5, StoryBegins
<1> QED BY <1>1, <1>2, <1>5, <1>6 DEF FoundInv, Plain

\* What a step of a search leaves alone.
LEMMA SearchKeeps ==
  ASSUME StepBefore \/ StepAfter \/ Finish
  PROVE  /\ pc = "search" /\ kind' = kind /\ before' = before /\ fsa' = fsa /\ patterns' = patterns
         /\ LastState' = LastState /\ matchList' = matchList /\ Plain(kind') = Plain(kind)
         /\ After(kind') = After(kind)
<1>1. pc = "search" /\ UNCHANGED <<setup, build, kind, before>>
  BY DEF StepBefore, StepAfter, Finish
<1>2. kind' = kind /\ before' = before /\ fsa' = fsa /\ patterns' = patterns /\ numStates' = numStates
      /\ matchList' = matchList
  BY <1>1 DEF setup, build
<1> QED BY <1>1, <1>2 DEF LastState, Plain, After

\* What the search took from an outcome is what it has found.
LEMMA Taken ==
  ASSUME NEW o, Take(o), NEW ps, NEW k, NEW n, NEW ml, NEW b, NEW t, NEW i,
         Story(ps, k, n, ml, b, t, o, i)
  PROVE  /\ FoundSoFar' = o /\ Story(ps, k, n, ml, b, t, FoundSoFar', i)
         /\ (o.stop => pmq' = <<>>) /\ (~Queued(k) => pmq' = <<>>)
<1>1. pmq' = o.pmq /\ reports' = o.reports /\ stopped' = o.stop
  BY DEF Take
<1>2. Orderly(n, ml, o) /\ (Queued(k) \/ o.pmq = <<>>)
  BY DEF Story, Queueing
<1>3. o \in Outcomes(n, ml) /\ (o.stop => o.pmq = <<>>)
  BY <1>2 DEF Orderly
<1>4. FoundSoFar' = [pmq |-> o.pmq, reports |-> o.reports, stop |-> o.stop]
  BY <1>1 DEF FoundSoFar
<1>5. o = [pmq |-> o.pmq, reports |-> o.reports, stop |-> o.stop]
  BY <1>3 DEF Outcomes
<1>6. FoundSoFar' = o
  BY <1>4, <1>5
<1> QED BY <1>1, <1>2, <1>3, <1>6

LEMMA FoundInvBefore ==
  ASSUME QueueRoom, SecondInv, ThirdInv, FoundInv, StepBefore
  PROVE  FoundInv'
<1>1. /\ pc = "search" /\ kind' = kind /\ before' = before /\ fsa' = fsa /\ patterns' = patterns
      /\ LastState' = LastState /\ matchList' = matchList /\ Plain(kind') = Plain(kind)
      /\ After(kind') = After(kind)
  BY SearchKeeps
<1>2. ~After(kind) /\ ~Plain(kind) /\ FSA_TRIE # FSA_NFA /\ FSA_TRIE # FSA_DFA
  <2>1. ~After(kind) /\ kind # "trie"
    BY DEF StepBefore
  <2>2. kind # "none"
    <3>1. \E all \in BOOLEAN : kind = SearchKind(all)
      BY <1>1 DEF ThirdInv, Streamed
    <3>2. fsa \in {FSA_TRIE, FSA_NFA, FSA_DFA} /\ (fsa = FSA_DFA =>
             format \in {ACF_FULL, ACF_SPARSE, ACF_BANDED, ACF_SPARSEBANDS, ACF_FULLQ})
      <4>1. FSA_DFA # FSA_TRIE /\ FSA_DFA # FSA_NFA
        BY SMTT(10) DEF FSA_DFA, FSA_TRIE, FSA_NFA
      <4> QED BY <4>1 DEF ThirdInv, Selected, Usable
    <3> QED BY <3>1, <3>2, SMTT(20) DEF SearchKind, FSA_DFA, FSA_TRIE, FSA_NFA, ACF_FULL, ACF_SPARSE,
                ACF_BANDED, ACF_SPARSEBANDS, ACF_FULLQ
  <2>3. FSA_TRIE # FSA_NFA /\ FSA_TRIE # FSA_DFA
    BY SMTT(10) DEF FSA_DFA, FSA_TRIE, FSA_NFA
  <2> QED BY <2>1, <2>2, <2>3 DEF Plain
<1>3. PICK ps, k, n, ml, b, t, i : /\ ps = patterns /\ k = kind /\ n = LastState /\ ml = matchList
                                   /\ b = before /\ t = text /\ i = Len(text)
  OBVIOUS
<1>4. /\ fsa # FSA_TRIE /\ Supplied /\ Packed /\ t \in Seq(Inputs) /\ b \in Seq(Inputs) /\ Entered(ps)
      /\ i \in Nat /\ FoundSoFar = Found /\ Stands(LastState, str, state, b \o UpWord(t))
  BY <1>1, <1>2, <1>3, SearchReady
<1>5. Story(patterns, kind, LastState, matchList, b, t, Found, i - 1)
  <2>1. Looked = i - 1
    BY <1>1, <1>2, <1>3 DEF Looked
  <2> QED BY <1>1, <1>2, <1>3, <1>4, <2>1 DEF FoundInv
<1>6. PICK o \in LookInLoop(state, text) :
        /\ Take(o)
        /\ IF o.stop
           THEN Return(state) /\ UNCHANGED <<text, state>>
           ELSE /\ \E c \in Inputs : text' = Append(text, c)
                /\ UNCHANGED <<pc, cur>>
  BY DEF StepBefore
<1>7. Story(ps, k, n, ml, b, t, o, i)
  <2>1. o \in LookInLoop(state, t)
    BY <1>3, <1>6
  <2>2. Story(patterns, kind, LastState, matchList, b, t, o, i)
    BY <1>3, <1>4, <1>5, <2>1, StoryLooks
  <2> QED BY <1>3, <2>2
<1>8. CASE o.stop
  <2>1. pc' = "ready" /\ text' = t
    BY <1>3, <1>6, <1>8 DEF Return
  <2>2. Looked' = i
    BY <1>3, <2>1 DEF Looked
  <2>3. pmq' = <<>> /\ Story(ps, k, n, ml, b, t, FoundSoFar', i)
    BY <1>6, <1>7, <1>8, Taken
  <2> QED BY <1>1, <1>2, <1>3, <1>4, <2>1, <2>2, <2>3 DEF FoundInv
<1>9. CASE ~o.stop
  <2>1. PICK c \in Inputs : text' = Append(text, c)
    BY <1>6, <1>9
  <2>2. PICK z : z = Append(t, c)
    OBVIOUS
  <2>3. pc' = "search" /\ text' = z
    BY <1>1, <1>3, <1>6, <1>9, <2>1, <2>2
  <2>4. Story(ps, k, n, ml, b, z, o, i)
    BY <1>3, <1>4, <1>7, <2>2, StoryGoesOn
  <2>5. Looked' = i
    <3>1. Len(z) = i + 1
      BY <1>3, <1>4, <2>2, AppendWord
    <3>2. Looked' = Len(z) - 1
      <4>1. ~After(kind') /\ pc' # "ready"
        BY <1>1, <1>2, <2>3
      <4> QED BY <2>3, <4>1 DEF Looked
    <3>3. PICK m : m = Len(z)
      OBVIOUS
    <3>4. m = i + 1 /\ m - 1 = i
      BY <1>4, <3>1, <3>3, SMTT(10)
    <3> QED BY <3>2, <3>3, <3>4
  <2>6. Story(ps, k, n, ml, b, z, FoundSoFar', i)
    BY <1>6, <2>4, Taken
  <2> QED BY <1>1, <1>2, <1>3, <1>4, <2>3, <2>5, <2>6 DEF FoundInv
<1> QED BY <1>8, <1>9

\* A search that looks after the transition has no queue.
LEMMA KindsApart ==
  ASSUME NEW k, After(k)
  PROVE  ~Plain(k) /\ ~Queued(k) /\ k # "trie"
BY DEF After, Plain, Queued

LEMMA FoundInvAfter ==
  ASSUME QueueRoom, SecondInv, ThirdInv, FoundInv, StepAfter
  PROVE  FoundInv'
<1>1. /\ pc = "search" /\ kind' = kind /\ before' = before /\ fsa' = fsa /\ patterns' = patterns
      /\ LastState' = LastState /\ matchList' = matchList /\ Plain(kind') = Plain(kind)
      /\ After(kind') = After(kind)
  BY SearchKeeps
<1>2. After(kind) /\ ~Plain(kind) /\ ~Queued(kind)
  BY KindsApart DEF StepAfter
<1>3. PICK ps, k, n, ml, b, t, i : /\ ps = patterns /\ k = kind /\ n = LastState /\ ml = matchList
                                   /\ b = before /\ t = text /\ i = Len(text)
  OBVIOUS
<1>4. /\ fsa # FSA_TRIE /\ Supplied /\ Packed /\ t \in Seq(Inputs) /\ b \in Seq(Inputs) /\ Entered(ps)
      /\ i \in Nat /\ FoundSoFar = Found /\ Streamed /\ Prepared /\ Selected
  BY <1>1, <1>2, <1>3, SearchReady
<1>5. Story(ps, k, n, ml, b, t, Found, i)
  <2>1. Looked = i
    BY <1>2, <1>3 DEF Looked
  <2> QED BY <1>1, <1>2, <1>3, <1>4, <2>1 DEF FoundInv
<1>6. PICK c \in Inputs :
        /\ text' = Append(text, c)
        /\ IF Transition(kind, state, Up[c]) \notin DOMAIN nextState
           THEN pc' = "crashed" /\ UNCHANGED <<state, pmq, reports, cur, stopped>>
           ELSE \E o \in LookInLoop(Transition(kind, state, Up[c]), text') :
                  /\ Take(o)
                  /\ IF o.stop THEN Return(Transition(kind, state, Up[c])) ELSE UNCHANGED <<pc, cur>>
  BY DEF StepAfter
<1>7. PICK next, z, m : next = Transition(kind, state, Up[c]) /\ z = Append(t, c) /\ m = Len(z)
  OBVIOUS
<1>8. Stands(LastState, str, next, b \o UpWord(z)) /\ next \in DOMAIN nextState
  BY <1>1, <1>3, <1>4, <1>7, StreamGoesOn
<1>9. text' = z /\ z \in Seq(Inputs) /\ m = i + 1 /\ m - 1 = i
  <2>1. z \in Seq(Inputs) /\ Len(z) = Len(t) + 1
    BY <1>4, <1>7, AppendWord
  <2>2. m = i + 1
    BY <1>3, <1>7, <2>1
  <2>3. m - 1 = i
    BY <1>4, <2>2, SMTT(10)
  <2> QED BY <1>3, <1>6, <1>7, <2>1, <2>2, <2>3
<1>10. PICK o \in LookInLoop(next, z) : Take(o) /\ IF o.stop THEN Return(next) ELSE UNCHANGED <<pc, cur>>
  BY <1>6, <1>7, <1>8, <1>9
<1>11. Story(ps, k, n, ml, b, z, Found, i)
  BY <1>3, <1>4, <1>5, <1>7, StoryGoesOn
<1>12. Story(ps, k, n, ml, b, z, o, m)
  <2>1. Story(patterns, kind, LastState, matchList, b, z, Found, m - 1)
    BY <1>3, <1>9, <1>11
  <2>2. Story(patterns, kind, LastState, matchList, b, z, o, m)
    BY <1>4, <1>7, <1>8, <1>9, <1>10, <2>1, StoryLooks
  <2> QED BY <1>3, <2>2
<1>13. Story(ps, k, n, ml, b, z, FoundSoFar', m) /\ pmq' = <<>>
  BY <1>2, <1>3, <1>10, <1>12, Taken
<1>14. pc' \in {"ready", "search"}
  BY <1>1, <1>10 DEF Return
<1>15. Looked' = m
  BY <1>1, <1>2, <1>7, <1>9 DEF Looked
<1> QED BY <1>1, <1>2, <1>3, <1>4, <1>9, <1>13, <1>14, <1>15 DEF FoundInv

LEMMA FoundInvEnds ==
  ASSUME QueueRoom, SecondInv, ThirdInv, FoundInv, Finish
  PROVE  FoundInv'
<1>1. /\ pc = "search" /\ kind' = kind /\ before' = before /\ fsa' = fsa /\ patterns' = patterns
      /\ LastState' = LastState /\ matchList' = matchList /\ Plain(kind') = Plain(kind)
      /\ After(kind') = After(kind)
  BY SearchKeeps
<1>2. pc' = "ready" /\ text' = text
  BY DEF Finish, Return
<1>3. \E all \in BOOLEAN : kind = SearchKind(all)
  BY <1>1 DEF ThirdInv, Streamed
<1>4. kind # "none"
  <2>1. fsa \in {FSA_TRIE, FSA_NFA, FSA_DFA} /\ (fsa = FSA_DFA =>
           format \in {ACF_FULL, ACF_SPARSE, ACF_BANDED, ACF_SPARSEBANDS, ACF_FULLQ})
    <3>1. FSA_DFA # FSA_TRIE /\ FSA_DFA # FSA_NFA
      BY SMTT(10) DEF FSA_DFA, FSA_TRIE, FSA_NFA
    <3> QED BY <3>1 DEF ThirdInv, Selected, Usable
  <2> QED BY <1>3, <2>1, SMTT(20) DEF SearchKind, FSA_DFA, FSA_TRIE, FSA_NFA, ACF_FULL, ACF_SPARSE,
              ACF_BANDED, ACF_SPARSEBANDS, ACF_FULLQ
<1>5. CASE Plain(kind)
  <2>1. kind = "trie"
    BY <1>4, <1>5 DEF Plain
  <2>2. pmq' = pmq /\ reports' = reports
    BY <2>1 DEF Finish
  <2>3. pmq' = <<>> /\ reports' = <<>>
    BY <1>1, <1>5, <2>2 DEF FoundInv
  <2> QED BY <1>1, <1>2, <1>5, <2>3 DEF FoundInv
<1>6. CASE ~Plain(kind)
  <2>1. PICK ps, k, n, ml, b, t, i : /\ ps = patterns /\ k = kind /\ n = LastState /\ ml = matchList
                                     /\ b = before /\ t = text /\ i = Len(text)
    OBVIOUS
  <2>2. /\ fsa # FSA_TRIE /\ Supplied /\ Packed /\ t \in Seq(Inputs) /\ b \in Seq(Inputs) /\ Entered(ps)
        /\ i \in Nat /\ FoundSoFar = Found /\ Stands(LastState, str, state, b \o UpWord(t))
    BY <1>1, <1>6, <2>1, SearchReady
  <2>3. Looked' = i
    BY <1>2, <2>1 DEF Looked
  <2>4. Story(patterns, kind, LastState, matchList, b, t, FoundSoFar, Looked)
    BY <1>1, <1>6, <2>1 DEF FoundInv
  <2>5. ASSUME Story(ps, k, n, ml, b, t, FoundSoFar', i), pmq' = <<>>
        PROVE  FoundInv'
    BY <1>1, <1>2, <1>6, <2>1, <2>2, <2>3, <2>5 DEF FoundInv
  <2>6. CASE After(kind)
    <3>1. UNCHANGED <<pmq, reports, stopped>>
      BY <2>6 DEF Finish
    <3>2. FoundSoFar' = FoundSoFar /\ Looked = i
      BY <2>1, <2>6, <3>1 DEF FoundSoFar, Looked
    <3>3. Story(ps, k, n, ml, b, t, FoundSoFar', i)
      BY <2>1, <2>4, <3>2
    <3>4. ~Queued(kind)
      BY <2>6, KindsApart
    <3>5. FoundSoFar.pmq = <<>>
      BY <2>4, <3>4 DEF Story
    <3>6. pmq' = <<>>
      BY <3>1, <3>5 DEF FoundSoFar
    <3> QED BY <2>5, <3>3, <3>6
  <2>7. CASE ~After(kind)
    <3>1. kind # "trie"
      BY <1>6 DEF Plain
    <3>2. PICK o \in Look(state, text) : \E p \in IF Queued(kind) /\ ~o.stop THEN ProcessQueue(o) ELSE {o} : Take(p)
      BY <2>7, <3>1 DEF Finish
    <3>3. PICK p \in IF Queued(kind) /\ ~o.stop THEN ProcessQueue(o) ELSE {o} : Take(p)
      BY <3>2
    <3>4. Story(patterns, kind, LastState, matchList, b, t, Found, i - 1)
      <4>1. Looked = i - 1
        BY <1>1, <2>1, <2>7 DEF Looked
      <4> QED BY <2>2, <2>4, <4>1
    <3>5. Story(patterns, kind, LastState, matchList, b, t, o, i)
      <4>1. o \in Look(state, t)
        BY <2>1, <3>2
      <4> QED BY <2>1, <2>2, <3>4, <4>1, StoryLooks
    <3>6. CASE Queued(kind) /\ ~o.stop
      <4>1. p \in ProcessQueue(o)
        BY <3>3, <3>6
      <4>2. Story(patterns, kind, LastState, matchList, b, t, p, i) /\ p.pmq = <<>>
        BY <2>2, <3>5, <3>6, <4>1, StoryEnds
      <4>3. Story(ps, k, n, ml, b, t, p, i)
        BY <2>1, <4>2
      <4>4. Story(ps, k, n, ml, b, t, FoundSoFar', i)
        BY <3>3, <4>3, Taken
      <4>5. pmq' = <<>>
        BY <3>3, <4>2 DEF Take
      <4> QED BY <2>5, <4>4, <4>5
    <3>7. CASE ~(Queued(kind) /\ ~o.stop)
      <4>1. p = o
        BY <3>3, <3>7
      <4>2. Take(o) /\ Story(ps, k, n, ml, b, t, o, i)
        BY <2>1, <3>3, <3>5, <4>1
      <4>3. Story(ps, k, n, ml, b, t, FoundSoFar', i) /\ (o.stop => pmq' = <<>>) /\ (~Queued(k) => pmq' = <<>>)
        BY <4>2, Taken
      <4> QED BY <2>1, <2>5, <3>7, <4>3
    <3> QED BY <3>6, <3>7
  <2> QED BY <2>6, <2>7
<1> QED BY <1>5, <1>6

LEMMA FoundInvInit ==
  ASSUME MCInit
  PROVE  FoundInv
<1>1. pmq = <<>> /\ pc = "setup"
  BY DEF MCInit, Init
<1> QED BY <1>1 DEF FoundInv

\* The steps before the first chunk.
LEMMA FoundInvOthers ==
  ASSUME SecondInv, ThirdInv, FoundInv,
         \/ \E mode \in Modes : Select(mode)
         \/ \E t \in Texts, nocase \in BOOLEAN : AddPattern(t, nocase)
         \/ Compile \/ Building \/ Free
  PROVE  FoundInv'
<1>1. /\ UNCHANGED search
      /\ (pc \in {"setup", "trie", "nfa", "dfa", "rows"} /\ pc' # "search") \/ (pc = "ready" /\ pc' = "freed")
  <2>1. CASE \E mode \in Modes : Select(mode)
    BY <2>1 DEF Select
  <2>2. CASE \E t \in Texts, nocase \in BOOLEAN : AddPattern(t, nocase)
    BY <2>2 DEF AddPattern
  <2>3. CASE Compile
    BY <2>3 DEF Compile
  <2>4. CASE Free
    BY <2>4 DEF Free
  <2>5. CASE Building
    <3>1. UNCHANGED search /\ pc \in {"trie", "nfa", "dfa", "rows"}
      BY <2>5 DEF Building, AddPatternStates, TrieDone, Build_NFA, NfaDone, Convert_NFA_To_DFA, DfaDone, Convert
    <3>2. pc' # "search"
      <4>1. TrieDone \/ NfaDone \/ DfaDone \/ Convert => pc' # "search"
        BY DEF TrieDone, NfaDone, DfaDone, Convert
      <4>2. AddPatternStates \/ Build_NFA \/ Convert_NFA_To_DFA => pc' = pc
        BY DEF AddPatternStates, Build_NFA, Convert_NFA_To_DFA
      <4> QED BY <2>5, <3>1, <4>1, <4>2 DEF Building
    <3> QED BY <3>1, <3>2
  <2> QED BY <2>1, <2>2, <2>3, <2>4, <2>5
<1>2. pmq' = pmq /\ reports' = reports /\ kind' = kind
  BY <1>1 DEF search
<1>3. pmq = <<>>
  BY <1>1 DEF FoundInv
<1>4. pc \in {"setup", "trie", "nfa", "dfa", "rows"} => kind = "none" /\ reports = <<>>
  BY DEF ThirdInv, Unsearched
<1>5. pc' = "ready" => Plain(kind') /\ pmq' = <<>> /\ reports' = <<>>
  BY <1>1, <1>2, <1>3, <1>4 DEF Plain
<1>6. pc' # "search"
  BY <1>1
<1> QED BY <1>2, <1>3, <1>5, <1>6 DEF FoundInv

LEMMA FoundInvNext ==
  ASSUME QueueRoom, SecondInv, ThirdInv, FoundInv, Next
  PROVE  FoundInv'
<1>1. ASSUME NEW all \in BOOLEAN, NEW fresh \in BOOLEAN, Begin(all, fresh)
      PROVE  FoundInv'
  BY <1>1, FoundInvBegins
<1> QED BY <1>1, FoundInvBefore, FoundInvAfter, FoundInvEnds, FoundInvOthers DEF Next

LEMMA FoundInvStutters ==
  ASSUME FoundInv, UNCHANGED mcvars
  PROVE  FoundInv'
<1>1. UNCHANGED <<fsa, patterns, pc, numStates, matchList, kind, text, before, pmq, reports, stopped>>
  BY DEF mcvars, vars, setup, build, search
<1>2. LastState' = LastState /\ FoundSoFar' = FoundSoFar /\ Looked' = Looked /\ Plain(kind') = Plain(kind)
  BY <1>1 DEF LastState, FoundSoFar, Looked, Plain, After
<1> QED BY <1>1, <1>2 DEF FoundInv

\* The three invariants together, and the queue that the first machine does not have.
DInv == /\ version = 1 => pmq = <<>>
        /\ version # 1 => SecondInv /\ ThirdInv /\ FoundInv

\* At each step of the second machine, in any usable mode, what its searches have told so
\* far and what waits in the match queue (acsmx2.c:2449-2511) are together what was
\* found up to the place they have looked at.
THEOREM DInvAlways ==
  ASSUME Room, ModesUsable, QueueRoom
  PROVE  MCSpec => []DInv
<1>1. MCInit => DInv
  <2>1. MCInit => pmq = <<>>
    BY DEF MCInit, Init
  <2> QED BY <2>1, SecondInvInit, ThirdInvInit, FoundInvInit DEF DInv
<1>2. DInv /\ [MCNext]_mcvars => DInv'
  <2> SUFFICES ASSUME DInv, [MCNext]_mcvars
               PROVE  DInv'
    OBVIOUS
  <2>1. CASE version = 1 /\ V1!Next /\ OthersOf1
    BY <2>1 DEF OthersOf1, DInv
  <2>2. CASE version = 2 /\ Next /\ UNCHANGED version
    <3>1. version # 1 /\ version' # 1
      BY <2>2
    <3>2. SecondInv' /\ ThirdInv' /\ FoundInv'
      BY <2>2, <3>1, SecondInvNext, ThirdInvNext, FoundInvNext DEF DInv
    <3> QED BY <3>1, <3>2 DEF DInv
  <2>3. CASE UNCHANGED mcvars
    <3>1. version' = version /\ pmq' = pmq
      BY <2>3 DEF mcvars, vars, search
    <3>2. version # 1 => SecondInv' /\ ThirdInv' /\ FoundInv'
      BY <2>3, SecondInvStutters, ThirdInvStutters, FoundInvStutters DEF DInv
    <3> QED BY <3>1, <3>2 DEF DInv
  <2> QED BY <2>1, <2>2, <2>3 DEF MCNext
<1> QED BY <1>1, <1>2, PTL DEF MCSpec

\* QueueKept, of acsmx2.c: _add_queue (acsmx2.c:2449) and _process_queue together keep the
\* match queue below AC_MAX_INQ entries between two characters, with no entry in it twice.
THEOREM QueueAlwaysKept ==
  ASSUME Room, ModesUsable, QueueRoom
  PROVE  MCSpec => []QueueKept
<1>1. DInv => QueueKept
  <2> SUFFICES ASSUME DInv
               PROVE  QueueKept
    OBVIOUS
  <2>1. CASE pmq = <<>>
    <3>1. PICK q : q = pmq
      OBVIOUS
    <3>2. Len(q) = 0 /\ DOMAIN q = {}
      <4>1. Len(q) = 0 /\ q \in Seq({})
        BY <2>1, <3>1, EmptySeq
      <4>2. DOMAIN q = 1..0 /\ 1..0 = {}
        <5>1. DOMAIN q = 1..Len(q)
          BY <4>1, LenProperties
        <5>2. 1..0 = {}
          BY SMTT(10)
        <5> QED BY <4>1, <5>1, <5>2
      <4> QED BY <4>1, <4>2
    <3>3. 0 < AC_MAX_INQ
      BY SMTT(10) DEF QueueRoom
    <3> QED BY <3>1, <3>2, <3>3 DEF QueueKept
  <2>2. CASE pmq # <<>>
    <3>1. pc = "search" /\ ~Plain(kind) /\ FoundInv
      BY <2>2 DEF DInv, FoundInv
    <3>2. Queueing(LastState, matchList, FoundSoFar, Nat, {})
      BY <3>1 DEF FoundInv, Story
    <3>3. PICK q : q = pmq
      OBVIOUS
    <3>4. q \in Seq(Slots(LastState, matchList)) /\ Once(q) /\ Len(q) < AC_MAX_INQ
      <4>1. FoundSoFar.pmq = q
        BY <3>3 DEF FoundSoFar
      <4> QED BY <3>2, <4>1 DEF Queueing, Orderly, Outcomes
    <3>5. DOMAIN q = 1..Len(q)
      BY <3>4, LenProperties
    <3> QED BY <3>3, <3>4, <3>5 DEF QueueKept, Once
  <2> QED BY <2>1, <2>2
<1> QED BY <1>1, DInvAlways, PTL

-----------------------------------------------------------------------------
(* What the reports say *)

\* The pattern of a number.
LEMMA PatternIs ==
  ASSUME Entered(patterns), NEW j \in 1..Len(patterns), NEW r, r.id = patterns[j].id
  PROVE  PatternOf(r) = patterns[j] /\ patterns[j] \in Range(patterns)
<1>1. PICK ps, p : ps = patterns /\ p = patterns[j]
  OBVIOUS
<1>2. Range(ps) = { ps[m] : m \in 1..Len(ps) } /\ p \in Range(ps)
  <2>1. DOMAIN ps = 1..Len(ps)
    BY <1>1, LenProperties DEF Entered
  <2>2. Range(ps) = { ps[m] : m \in 1..Len(ps) }
    BY <2>1 DEF Range
  <2> QED BY <1>1, <2>2
<1>3. ASSUME NEW q \in Range(ps), q.id = r.id
      PROVE  q = p
  <2>1. PICK m \in 1..Len(ps) : q = ps[m]
    BY <1>2
  <2>2. ps[j].id = ps[m].id /\ m \in 1..Len(ps) /\ j \in 1..Len(ps)
    BY <1>1, <1>3, <2>1
  <2>3. m = j
    BY <1>1, <2>2, NumbersDiffer
  <2> QED BY <1>1, <2>1, <2>3
<1>4. p.id = r.id
  BY <1>1
<1>5. (CHOOSE q \in Range(ps) : q.id = r.id) = p
  BY <1>2, <1>3, <1>4
<1> QED BY <1>1, <1>2, <1>5 DEF PatternOf

\* A pattern ends at a place when it is one of those of Here.
LEMMA EndsHereIs ==
  ASSUME Entered(patterns), before \in Seq(Inputs), text \in Seq(Inputs), NEW j \in 1..Len(patterns),
         NEW x \in 0..Len(text)
  PROVE  EndsHere(patterns[j], x) <=> j \in Here(patterns, before, text)[x]
<1>1. PICK w, p, m : w = before \o UpWord(text) /\ p = patterns[j].patrn /\ m = Len(before) + x
  OBVIOUS
<1>2. w \in Seq(Inputs) /\ Len(w) = Len(before) + Len(text) /\ Len(before) \in Nat /\ Len(text) \in Nat
  BY <1>1, StreamGrows
<1>3. m \in 0..Len(w)
  BY <1>1, <1>2, SMTT(10)
<1>4. p \in Seq(Inputs)
  <2>1. patterns[j] \in Entry
    BY ElementOfSeq DEF Entered
  <2> QED BY <1>1, <2>1 DEF Entry
<1>5. EndsAt(p, w, m) <=> Suf(p, SubSeq(w, 1, m))
  BY <1>2, <1>3, <1>4, EndsAtIs
<1>6. EndsHere(patterns[j], x) <=> EndsAt(p, w, m)
  BY <1>1 DEF EndsHere, Stream
<1>7. Here(patterns, before, text)[x] = EndsOf(patterns, SubSeq(w, 1, m))
  BY <1>1 DEF Here
<1> QED BY <1>1, <1>5, <1>6, <1>7 DEF EndsOf

\* Where a call says that a pattern ends.
LEMMA SaysEnd ==
  ASSUME Entered(patterns), NEW k, NEW r, NEW j \in 1..Len(patterns), NEW x \in Int,
         Says(patterns, k, r, j, x)
  PROVE  PatternOf(r) = patterns[j] /\ EndOf(r) + Late(k) = x
<1>1. r.id = patterns[j].id
  BY DEF Says
<1>2. PatternOf(r) = patterns[j]
  BY <1>1, PatternIs
<1>3. PICK m, l, e : m = Len(patterns[j].patrn) /\ l = Late(k) /\ e = r.index
  OBVIOUS
<1>4. m \in Nat /\ l \in Int
  <2>1. patterns[j] \in Entry
    BY ElementOfSeq DEF Entered
  <2>2. patterns[j].patrn \in Seq(Inputs)
    BY <2>1 DEF Entry
  <2>3. m \in Nat
    BY <1>3, <2>2, LenProperties
  <2>4. l = 0 \/ l = 1
    BY <1>3 DEF Late
  <2> QED BY <2>3, <2>4, SMTT(10)
<1>5. e = x - m - l
  BY <1>3 DEF Says
<1>6. e + m + l = x
  BY <1>4, <1>5, SMTT(10)
<1>7. EndOf(r) = e + m
  BY <1>2, <1>3 DEF EndOf
<1> QED BY <1>2, <1>3, <1>6, <1>7

\* What a search that found something told of.
LEMMA StoryTold ==
  ASSUME SecondInv, ThirdInv, FoundInv, Filled(patterns), pc \in {"ready", "search"}, ~Plain(kind)
  PROVE  /\ Tale(patterns, kind, LastState, matchList, Here(patterns, before, text),
                 Due(patterns, before, text), FoundSoFar, Looked)
         /\ Looked \in Int /\ \A x \in 0..Looked : x \in 0..Len(text)
         /\ reports \in Seq(Calls) /\ DOMAIN reports = 1..Len(reports)
         /\ Range(reports) = { reports[y] : y \in 1..Len(reports) }
<1>1. Story(patterns, kind, LastState, matchList, before, text, FoundSoFar, Looked)
  BY DEF FoundInv
<1>2. /\ Tale(patterns, kind, LastState, matchList, Here(patterns, before, text),
              Due(patterns, before, text), FoundSoFar, Looked)
      /\ FoundSoFar \in Outcomes(LastState, matchList)
  BY <1>1 DEF Story, Tale, Orderly
<1>3. reports \in Seq(Calls)
  <2>1. FoundSoFar.reports = reports
    BY DEF FoundSoFar
  <2> QED BY <1>2, <2>1 DEF Outcomes
<1>4. DOMAIN reports = 1..Len(reports)
  BY <1>3, LenProperties
<1>5. Looked \in Int /\ \A x \in 0..Looked : x \in 0..Len(text)
  <2>1. Len(text) \in Nat
    BY SearchReady
  <2>2. Looked = Len(text) \/ Looked = Len(text) - 1
    BY DEF Looked
  <2> QED BY <2>1, <2>2, SMTT(10)
<1>6. Range(reports) = { reports[y] : y \in 1..Len(reports) }
  BY <1>4 DEF Range
<1> QED BY <1>2, <1>3, <1>4, <1>5, <1>6

LEMMA SecondSound ==
  ASSUME SecondInv, ThirdInv, FoundInv, <<>> \notin Texts
  PROVE  SoundReports
<1> SUFFICES ASSUME pc \in {"search", "ready"}
             PROVE  /\ \A r \in Range(reports) :
                         IF Queued(kind)
                         THEN \E i \in 0..Len(text) : EndsHere(PatternOf(r), i)
                         ELSE EndsHere(PatternOf(r), EndOf(r) + (IF kind = "nfa" THEN 1 ELSE 0))
                    /\ Queued(kind) \/ \A i, j \in DOMAIN reports : reports[i] = reports[j] => i = j
  BY DEF SoundReports
<1>1. pc \in {"ready", "search"} /\ Filled(patterns)
  BY DEF SecondInv
<1>2. CASE Plain(kind)
  <2>1. PICK q : q = reports
    OBVIOUS
  <2>2. q = <<>>
    BY <1>1, <1>2, <2>1 DEF FoundInv
  <2>3. DOMAIN q = {}
    <3>1. Len(q) = 0 /\ q \in Seq({})
      BY <2>2, EmptySeq
    <3>2. DOMAIN q = 1..Len(q)
      BY <3>1, LenProperties
    <3>3. 1..0 = {}
      BY SMTT(10)
    <3> QED BY <3>1, <3>2, <3>3
  <2>4. Range(q) = {}
    BY <2>3 DEF Range
  <2> QED BY <2>1, <2>3, <2>4
<1>3. CASE ~Plain(kind)
  <2>1. PICK ps, k, ml, E, D, i, o : /\ ps = patterns /\ k = kind /\ ml = matchList
                                     /\ E = Here(patterns, before, text) /\ D = Due(patterns, before, text)
                                     /\ i = Looked /\ o = FoundSoFar
    OBVIOUS
  <2>2. /\ Tale(ps, k, LastState, ml, E, D, o, i) /\ i \in Int /\ (\A x \in 0..i : x \in 0..Len(text))
        /\ DOMAIN reports = 1..Len(reports) /\ Range(reports) = { reports[y] : y \in 1..Len(reports) }
    BY <1>1, <1>3, <2>1, StoryTold
  <2>3. /\ Entered(ps) /\ before \in Seq(Inputs) /\ text \in Seq(Inputs)
    BY <1>1, <1>3, <2>1, SearchReady
  <2>4. Truthful(ps, k, ml, E, o, i) /\ o.reports = reports /\ (Queued(k) \/ Once(o.reports))
    BY <2>1, <2>2 DEF Tale, FoundSoFar
  <2>5. ASSUME NEW x \in 0..i, NEW j \in E[x]
        PROVE  /\ j \in 1..Len(ps) /\ x \in 0..Len(text) /\ x \in Int /\ EndsHere(ps[j], x)
    <3>1. x \in 0..Len(text) /\ x \in Int
      <4>1. x \in Int
        BY SMTT(10)
      <4> QED BY <2>2, <4>1
    <3>2. j \in 1..Len(ps)
      BY <2>1, <2>5, <3>1 DEF Here, EndsOf
    <3> QED BY <2>1, <2>3, <2>5, <3>1, <3>2, EndsHereIs
  <2>6. CASE Queued(k)
    <3>1. ASSUME NEW r \in Range(reports)
          PROVE  \E x \in 0..Len(text) : EndsHere(PatternOf(r), x)
      <4>1. r.id \in SaidIds(ml, o)
        BY <2>2, <2>4, <3>1 DEF SaidIds
      <4>2. SaidIds(ml, o) \subseteq { ps[j].id : j \in UNION { E[x] : x \in 0..i } }
        BY <2>4, <2>6 DEF Truthful
      <4>3. PICK x \in 0..i : \E j \in E[x] : r.id = ps[j].id
        BY <4>1, <4>2
      <4>4. PICK j \in E[x] : r.id = ps[j].id
        BY <4>3
      <4>5. j \in 1..Len(ps) /\ x \in 0..Len(text) /\ EndsHere(ps[j], x)
        BY <2>5
      <4>6. PatternOf(r) = ps[j]
        BY <2>1, <2>3, <4>4, <4>5, PatternIs
      <4> QED BY <4>5, <4>6
    <3> QED BY <2>1, <2>6, <3>1
  <2>7. CASE ~Queued(k)
    <3>1. ASSUME NEW r \in Range(reports)
          PROVE  EndsHere(PatternOf(r), EndOf(r) + Late(k))
      <4>1. PICK y \in 1..Len(reports) : r = reports[y]
        BY <2>2, <3>1
      <4>2. PICK x \in 0..i : \E j \in E[x] : Says(ps, k, r, j, x)
        BY <2>4, <2>7, <4>1 DEF Truthful
      <4>3. PICK j \in E[x] : Says(ps, k, r, j, x)
        BY <4>2
      <4>4. j \in 1..Len(ps) /\ x \in Int /\ EndsHere(ps[j], x)
        BY <2>5
      <4>5. PatternOf(r) = ps[j] /\ EndOf(r) + Late(k) = x
        BY <2>1, <2>3, <4>3, <4>4, SaysEnd
      <4> QED BY <4>4, <4>5
    <3>2. \A r \in Range(reports) : EndsHere(PatternOf(r), EndOf(r) + (IF kind = "nfa" THEN 1 ELSE 0))
      BY <2>1, <3>1 DEF Late
    <3>3. \A x, y \in DOMAIN reports : reports[x] = reports[y] => x = y
      BY <2>2, <2>4, <2>7 DEF Once
    <3> QED BY <2>1, <2>7, <3>2, <3>3
  <2> QED BY <2>6, <2>7
<1> QED BY <1>2, <1>3

LEMMA SecondComplete ==
  ASSUME SecondInv, ThirdInv, FoundInv, <<>> \notin Texts
  PROVE  CompleteReports
<1> SUFFICES ASSUME pc = "ready", ~stopped, kind \notin {"none", "trie"}, NEW i \in 1..Len(text),
                    NEW here, here = { p \in Range(patterns) : EndsHere(p, i) }
             PROVE  IF kind \in {"full_all", "full_q_all"}
                    THEN \A p \in here :
                           /\ Len(p.patrn) <= i
                           /\ \/ p.nocase
                              \/ p.casepatrn = SubSeq(text, i - Len(p.patrn) + 1, i)
                           => Told(p, i)
                    ELSE here = {} \/ \E p \in here : Told(p, i)
  BY DEF CompleteReports
<1>1. pc \in {"ready", "search"} /\ ~Plain(kind) /\ Filled(patterns)
  BY DEF SecondInv, Plain
<1>2. PICK ps, k, ml, E, D, o : /\ ps = patterns /\ k = kind /\ ml = matchList
                                /\ E = Here(patterns, before, text) /\ D = Due(patterns, before, text)
                                /\ o = FoundSoFar
  OBVIOUS
<1>3. /\ Tale(ps, k, LastState, ml, E, D, o, Len(text)) /\ DOMAIN reports = 1..Len(reports)
      /\ Range(reports) = { reports[y] : y \in 1..Len(reports) }
  <2>1. Looked = Len(text)
    BY DEF Looked
  <2> QED BY <1>1, <1>2, <2>1, StoryTold
<1>4. Entered(ps) /\ before \in Seq(Inputs) /\ text \in Seq(Inputs) /\ Len(text) \in Nat
  BY <1>1, <1>2, SearchReady
<1>5. /\ ~o.stop /\ o.reports = reports /\ o.pmq = <<>>
  <2>1. pmq = <<>>
    BY DEF FoundInv
  <2> QED BY <1>2, <2>1 DEF FoundSoFar
<1>6. Thorough(ps, k, ml, E, D, o, Len(text))
  BY <1>3, <1>5 DEF Tale
<1>7. i \in 0..Len(text) /\ i \in Int
  BY <1>4, SMTT(10)
<1>8. /\ E[i] \in SUBSET (1..Len(ps)) /\ D[i] = Fitting(ps, E[i], text, i)
      /\ \A j \in 1..Len(ps) : EndsHere(ps[j], i) <=> j \in E[i]
  <2>1. Plot(ps, E, D, i) /\ D[i] = Fitting(ps, E[i], text, i)
    BY <1>2, <1>4, <1>7, PlotIs
  <2>2. i \in 0..i
    BY <1>7, SMTT(10)
  <2>3. \A j \in 1..Len(ps) : EndsHere(ps[j], i) <=> j \in E[i]
    BY <1>2, <1>4, <1>7, EndsHereIs
  <2> QED BY <2>1, <2>2, <2>3 DEF Plot
<1>9. ASSUME NEW j \in 1..Len(ps), Mentions(ps, k, ml, o, j, i)
      PROVE  Told(ps[j], i)
  <2>1. CASE Queued(k)
    <3>1. ps[j].id \in SaidIds(ml, o)
      BY <1>9, <2>1 DEF Mentions
    <3>2. 1..Len(o.pmq) = {}
      <4>1. Len(o.pmq) = 0
        BY <1>5, EmptySeq
      <4>2. 1..0 = {}
        BY SMTT(10)
      <4> QED BY <4>1, <4>2
    <3>3. \E y \in 1..Len(reports) : ps[j].id = reports[y].id
      BY <1>5, <3>1, <3>2 DEF SaidIds
    <3>4. \E r \in Range(reports) : r.id = ps[j].id
      BY <1>3, <3>3
    <3> QED BY <1>2, <2>1, <3>4 DEF Told
  <2>2. CASE ~Queued(k)
    <3>1. PICK y \in 1..Len(reports) : Says(ps, k, reports[y], j, i)
      BY <1>5, <1>9, <2>2 DEF Mentions
    <3>2. PICK r : r = reports[y]
      OBVIOUS
    <3>3. r \in Range(reports) /\ r.id = ps[j].id /\ Says(ps, k, r, j, i)
      BY <1>3, <3>1, <3>2 DEF Says
    <3>4. EndOf(r) + Late(k) = i
      BY <1>2, <1>4, <1>7, <3>3, SaysEnd
    <3>5. EndOf(r) + (IF kind = "nfa" THEN 1 ELSE 0) = i
      BY <1>2, <3>4 DEF Late
    <3> QED BY <3>3, <3>5 DEF Told
  <2> QED BY <2>1, <2>2
<1>10. here = { ps[j] : j \in E[i] }
  <2>1. Range(ps) = { ps[j] : j \in 1..Len(ps) }
    <3>1. DOMAIN ps = 1..Len(ps)
      BY <1>4, LenProperties DEF Entered
    <3> QED BY <3>1 DEF Range
  <2>2. here = { p \in Range(ps) : EndsHere(p, i) }
    BY <1>2
  <2> QED BY <1>8, <2>1, <2>2
<1>11. IF Everyone(k) THEN \A j \in D[i] : Mentions(ps, k, ml, o, j, i)
       ELSE E[i] = {} \/ \E j \in E[i] : Mentions(ps, k, ml, o, j, i)
  BY <1>6 DEF Thorough
<1>12. CASE Everyone(k)
  <2>1. ASSUME NEW p \in here, Len(p.patrn) <= i,
               p.nocase \/ p.casepatrn = SubSeq(text, i - Len(p.patrn) + 1, i)
        PROVE  Told(p, i)
    <3>1. PICK j \in E[i] : p = ps[j]
      BY <1>10
    <3>2. j \in D[i] /\ j \in 1..Len(ps)
      BY <1>8, <2>1, <3>1 DEF Fitting
    <3>3. Mentions(ps, k, ml, o, j, i)
      BY <1>11, <1>12, <3>2
    <3> QED BY <1>9, <3>1, <3>2, <3>3
  <2> QED BY <1>2, <1>12, <2>1 DEF Everyone
<1>13. CASE ~Everyone(k)
  <2>1. here = {} \/ \E p \in here : Told(p, i)
    BY <1>8, <1>9, <1>10, <1>11, <1>13
  <2> QED BY <1>2, <1>13, <2>1 DEF Everyone
<1> QED BY <1>12, <1>13

\* Sound, of acsmx.c and acsmx2.c: what a search reports occurs in the stream where the index
\* says, one further in the NFA search (acsmx2.c:3055), somewhere in the chunk when it comes
\* out of the match queue; and no match is reported twice but through the queue.
THEOREM SoundAlways ==
  ASSUME Room, ModesUsable, QueueRoom, <<>> \notin Texts
  PROVE  MCSpec => []Sound
<1>1. DInv => (version # 1 => Sound)
  BY SecondSound DEF DInv, Sound
<1>2. MCSpec => [](version # 1 => Sound)
  BY <1>1, DInvAlways, PTL
<1>3. (version = 1 => Sound) /\ (version # 1 => Sound) => Sound
  OBVIOUS
<1> QED BY <1>2, <1>3, FirstSound, PTL

\* Complete, of acsmx.c and acsmx2.c: a call that Match does not stop has reported, for every
\* place in the chunk where patterns end, one of them, or, in acsmSearchAll2 on full rows
\* (acsmx2.c:3117), every one whose case fits and which lies within the chunk.
THEOREM CompleteAlways ==
  ASSUME Room, ModesUsable, QueueRoom, <<>> \notin Texts
  PROVE  MCSpec => []Complete
<1>1. DInv => (version # 1 => Complete)
  BY SecondComplete DEF DInv, Complete
<1>2. MCSpec => [](version # 1 => Complete)
  BY <1>1, DInvAlways, PTL
<1>3. (version = 1 => Complete) /\ (version # 1 => Complete) => Complete
  OBVIOUS
<1> QED BY <1>2, <1>3, FirstComplete, PTL
==============================================================================
