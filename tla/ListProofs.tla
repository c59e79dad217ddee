----------------------------- MODULE ListProofs -----------------------------
(***************************************************************************)
(* The lists of list.h and the student list, for any number of heads and   *)
(* of entries.                                                             *)
(*                                                                         *)
(* 1. The doubly linked lists.  The objects in use form rings: next and    *)
(*    prev are inverse and stay at home (IInv, which gives Links).  Each   *)
(*    ring follows a sequence of entries (Threaded), every call does to    *)
(*    the sequences what its name says, and the walk of list_for_each      *)
(*    meets that sequence: WalkMeetsAll, and the refinement IsSeqLists.    *)
(* 2. The student list: one such ring of the records that are allocated,   *)
(*    with the cursors of the functions on it (SInv), and what those have  *)
(*    passed and deleted (DInv).                                           *)
(* 3. The hash lists: chains that follow a sequence (HInv), which each     *)
(*    call changes by one node at most (HStepped).                         *)
(***************************************************************************)
EXTENDS MCLists, FiniteSetTheorems, SequenceTheorems, TLAPS

\* next and prev are inverse on Q and stay within one home.
Rings(k, Q, home) ==
  \A x \in Q :
    /\ k.next[x] \in Q /\ home[k.next[x]] = home[x] /\ k.prev[k.next[x]] = x
    /\ k.prev[x] \in Q /\ home[k.prev[x]] = home[x] /\ k.next[k.prev[x]] = x

Fields == [next : [Objects -> Objects \cup {NULL, POISON1}],
           prev : [Objects -> Objects \cup {NULL, POISON2}]]

\* The entries outside Q keep their next.
Kept(k, k2, Q) == \A m \in Nodes : m \notin Q => k2.next[m] = k.next[m]

-----------------------------------------------------------------------------
(* The operations on any set of rings                                      *)

\* INIT_LIST_HEAD on an object outside the rings makes it one more ring.
LEMMA InitKeeps ==
  ASSUME NEW k \in Fields, NEW Q \in SUBSET Objects, NEW home, NEW x \in Objects,
         x \notin Q, Rings(k, Q, home)
  PROVE  InitListHead(k, x) \in Fields /\ Rings(InitListHead(k, x), Q \cup {x}, home)
BY DEF Fields, Rings, InitListHead

\* __list_add between two neighbours of a ring puts the object in that ring.
LEMMA InsertKeeps ==
  ASSUME NEW k \in Fields, NEW Q \in SUBSET Objects, NEW home, NEW x \in Objects,
         x \notin Q, Rings(k, Q, home),
         NEW b \in Q, NEW a \in Q, k.next[b] = a, home[x] = home[b]
  PROVE  InsertBetween(k, x, b, a) \in Fields /\ Rings(InsertBetween(k, x, b, a), Q \cup {x}, home)
BY DEF Fields, Rings, InsertBetween

\* __list_del closes the ring behind the object it takes out.
LEMMA UnlinkKeeps ==
  ASSUME NEW k \in Fields, NEW Q \in SUBSET Objects, NEW home, NEW x \in Q,
         Rings(k, Q, home)
  PROVE  Unlink(k, x) \in Fields /\ Rings(Unlink(k, x), Q \ {x}, home)
BY DEF Fields, Rings, Unlink

\* __list_splice makes one ring of two and leaves the head g outside.
LEMMA SpliceKeeps ==
  ASSUME NEW k \in Fields, NEW Q \in SUBSET Objects, NEW home, NEW home2,
         NEW g \in Q, NEW h \in Q, home[g] # home[h], k.next[g] # g,
         Rings(k, Q, home),
         \A x \in Q \ {g} : home2[x] = IF home[x] = home[g] THEN home[h] ELSE home[x]
  PROVE  SpliceIn(k, g, h) \in Fields /\ Rings(SpliceIn(k, g, h), Q \ {g}, home2)
BY DEF Fields, Rings, SpliceIn

\* A lone entry may be taken out of the account.
LEMMA RingsWithout ==
  ASSUME NEW k \in Fields, NEW Q \in SUBSET Objects, NEW home, NEW x, k.next[x] = x,
         Rings(k, Q, home)
  PROVE  Rings(k, Q \ {x}, home)
BY DEF Fields, Rings

\* Only the homes of the objects on the rings matter.
LEMMA RingsHome ==
  ASSUME NEW k, NEW Q, NEW home, NEW home2, Rings(k, Q, home),
         \A x \in Q : home2[x] = home[x]
  PROVE  Rings(k, Q, home2)
BY DEF Rings

-----------------------------------------------------------------------------
(* The invariant                                                           *)

HomeOf == [x \in Objects |-> Home(x)]

IInv ==
  /\ TypeOK
  /\ \A n \in Nodes : on[n] # NULL => on[n] \in ready
  /\ Rings(l, Linked, HomeOf)

\* Heads, entries and the special values are told apart.
LEMMA Kinds ==
  /\ \A n \in Nodes : n \in Objects /\ n \notin Heads /\ n # NULL /\ n # POISON1
  /\ \A h \in Heads : h \in Objects /\ h \notin Nodes /\ h # NULL /\ h # POISON1
BY KListAssumption DEF KListAssumption, Objects

\* Links says that the objects in use form rings.
LEMMA LinksIsRings == TypeOK => (Links <=> Rings(l, Linked, HomeOf))
<1> SUFFICES ASSUME TypeOK
             PROVE  Links <=> Rings(l, Linked, HomeOf)
  OBVIOUS
<1>1. \A x \in Linked : x \in Objects
  BY DEF Linked, TypeOK, Objects
<1> QED BY <1>1 DEF Links, Rings, HomeOf

\* A set that holds the ready heads and the entries on a list, whose pointers
\* are consistent and outside which no entry is alone, is the set of the
\* objects in use.
LEMMA Finish ==
  ASSUME TypeOK', \A n \in Nodes : on'[n] # NULL => on'[n] \in ready',
         NEW Q \in SUBSET Objects, Rings(l', Q, HomeOf'),
         Q \cap Heads = ready',
         \A n \in Nodes : on'[n] # NULL => n \in Q,
         \A n \in Nodes : n \notin Q => l'.next[n] # n
  PROVE  IInv'
<1>1. ASSUME NEW n \in Nodes, n \in Q, on'[n] = NULL
      PROVE  l'.next[n] = n
  <2>1. l'.next[n] \in Q /\ HomeOf'[l'.next[n]] = HomeOf'[n] /\ HomeOf'[n] = n
    BY <1>1, Kinds DEF Rings, HomeOf, Home
  <2>2. \A x \in Objects : HomeOf'[x] = n => x = n
    BY Kinds DEF HomeOf, Home, TypeOK, Objects
  <2> QED BY <2>1, <2>2
<1>2. Linked' = Q
  <2>1. \A x \in Objects : x \in Nodes \/ x \in Heads
    BY DEF Objects
  <2>2. \A h \in Heads : h \in Q <=> h \in Linked'
    BY Kinds DEF Linked
  <2>3. \A n \in Nodes : n \in Q <=> n \in Linked'
    BY <1>1, Kinds DEF Linked, TypeOK
  <2>4. Linked' \subseteq Objects
    BY DEF Linked, TypeOK, Objects
  <2> QED BY <2>1, <2>2, <2>3, <2>4
<1> QED BY <1>2 DEF IInv

\* What every step starts from.
LEMMA Start ==
  ASSUME IInv
  PROVE  /\ l \in Fields /\ Linked \in SUBSET Objects /\ ready \subseteq Heads
         /\ Rings(l, Linked, HomeOf) /\ on \in [Nodes -> Heads \cup {NULL}]
         /\ \A n \in Nodes : on[n] # NULL => on[n] \in ready
         /\ \A h \in Heads : HomeOf[h] = h /\ (h \in Linked <=> h \in ready)
         /\ \A n \in Nodes : HomeOf[n] = (IF on[n] = NULL THEN n ELSE on[n])
         /\ \A n \in Nodes : n \in Linked <=> (on[n] # NULL \/ l.next[n] = n)
<1>1. Linked \in SUBSET Objects
  BY DEF IInv, TypeOK, Linked, Objects
<1>2. \A h \in Heads : HomeOf[h] = h /\ (h \in Linked <=> h \in ready)
  BY Kinds DEF HomeOf, Home, Linked
<1>3. \A n \in Nodes : HomeOf[n] = (IF on[n] = NULL THEN n ELSE on[n])
  BY Kinds DEF HomeOf, Home
<1>4. \A n \in Nodes : n \in Linked <=> (on[n] # NULL \/ l.next[n] = n)
  BY Kinds DEF Linked, IInv, TypeOK
<1> QED BY <1>1, <1>2, <1>3, <1>4 DEF IInv, TypeOK, Fields

-----------------------------------------------------------------------------
(* The steps                                                               *)

\* The call INIT_LIST_HEAD on a head.
LEMMA InitHeadStep ==
  ASSUME IInv, NEW h \in Heads, InitHead(h)
  PROVE  IInv'
<1>1. PICK Q : Q = Linked
  OBVIOUS
<1>2. PICK home : home = HomeOf
  OBVIOUS
<1>3. Rings(l, Q \ {h}, home)
  <2>1. CASE h \in Q
    <3>1. l.next[h] \in Q /\ home[l.next[h]] = h
      BY <1>1, <1>2, <2>1, Start DEF Rings
    <3>2. l.next[h] = h
      BY <1>1, <1>2, <3>1, Start, Kinds DEF InitHead, Objects
    <3> QED BY <1>1, <1>2, <3>2, Start, RingsWithout
  <2>2. CASE h \notin Q
    BY <1>1, <1>2, <2>2, Start DEF Rings
  <2> QED BY <2>1, <2>2
<1>4. l' \in Fields /\ Rings(l', (Q \ {h}) \cup {h}, home)
  BY <1>1, <1>3, Start, InitKeeps, Kinds DEF InitHead
<1>5. HomeOf' = home
  BY <1>2 DEF HomeOf, Home, InitHead
<1>6. TypeOK'
  BY <1>4 DEF IInv, TypeOK, InitHead, Fields
<1>7. \A n \in Nodes : l'.next[n] = l.next[n] /\ n # h
  BY Kinds DEF InitHead, InitListHead, IInv, TypeOK
<1>8. /\ \A n \in Nodes : on'[n] # NULL => on'[n] \in ready' /\ n \in Q
      /\ \A n \in Nodes : n \notin Q => l'.next[n] # n
      /\ ready' = ready \cup {h}
  BY <1>1, <1>7, Start DEF InitHead
<1>9. (Q \ {h}) \cup {h} \in SUBSET Objects /\ ((Q \ {h}) \cup {h}) \cap Heads = ready'
  BY <1>1, <1>8, Start, Kinds
<1> QED BY <1>4, <1>5, <1>6, <1>8, <1>9, Finish

\* A step that puts entry n on list h, the rings of the others being as
\* described.
LEMMA PutStep ==
  ASSUME IInv, NEW n \in Nodes, NEW h \in Heads, h \in ready, Put(n, h),
         l' \in Fields, Rings(l', Linked \cup {n}, [HomeOf EXCEPT ![n] = h]),
         Kept(l, l', Linked \cup {n})
  PROVE  IInv'
<1>1. TypeOK'
  BY DEF IInv, TypeOK, Put, Fields
<1>2. HomeOf' = [HomeOf EXCEPT ![n] = h]
  BY Start, Kinds DEF HomeOf, Home, Put
<1>3. PICK T : T = Linked \cup {n}
  OBVIOUS
<1>4. \A m \in Nodes : on'[m] # NULL => on'[m] \in ready' /\ m \in T
  BY <1>3, Start DEF Put
<1>5. \A m \in Nodes : m \notin T => l'.next[m] # m
  BY <1>3, Start DEF Kept
<1>6. T \in SUBSET Objects /\ T \cap Heads = ready'
  BY <1>3, Start, Kinds DEF Put
<1>7. Rings(l', T, HomeOf')
  BY <1>2, <1>3
<1> QED BY <1>1, <1>4, <1>5, <1>6, <1>7, Finish

\* Insertion before or after a head.
LEMMA InsertAtHead ==
  ASSUME NEW k \in Fields, NEW Q \in SUBSET Objects, NEW home, Rings(k, Q, home),
         NEW n \in Nodes, n \notin Q, NEW h \in Q, home[n] = home[h]
  PROVE  /\ ListAdd(k, n, h) \in Fields /\ Rings(ListAdd(k, n, h), Q \cup {n}, home)
         /\ Kept(k, ListAdd(k, n, h), Q \cup {n})
         /\ ListAddTail(k, n, h) \in Fields /\ Rings(ListAddTail(k, n, h), Q \cup {n}, home)
         /\ Kept(k, ListAddTail(k, n, h), Q \cup {n})
<1>1. /\ k.next[h] \in Q /\ k.prev[h] \in Q /\ k.next[k.prev[h]] = h
      /\ home[k.prev[h]] = home[h] /\ n \in Objects
  BY Kinds DEF Rings
<1>2. ListAdd(k, n, h) \in Fields /\ Rings(ListAdd(k, n, h), Q \cup {n}, home)
  BY <1>1, InsertKeeps DEF ListAdd
<1>3. Kept(k, ListAdd(k, n, h), Q \cup {n})
  BY <1>1, Kinds DEF ListAdd, InsertBetween, Fields, Kept
<1>4. ListAddTail(k, n, h) \in Fields /\ Rings(ListAddTail(k, n, h), Q \cup {n}, home)
  BY <1>1, InsertKeeps DEF ListAddTail
<1>5. Kept(k, ListAddTail(k, n, h), Q \cup {n})
  BY <1>1, Kinds DEF ListAddTail, InsertBetween, Fields, Kept
<1> QED BY <1>2, <1>3, <1>4, <1>5

\* A free entry is put on a list.
LEMMA AddStep ==
  ASSUME IInv, NEW n \in Nodes, NEW h \in Heads, Add(n, h) \/ AddTail(n, h)
  PROVE  IInv'
<1>1. PICK Q, home, home2 : /\ Q = Linked \ {n}
                            /\ home = HomeOf /\ home2 = [home EXCEPT ![n] = h]
  OBVIOUS
<1>2. /\ on[n] = NULL /\ h \in ready /\ Put(n, h) /\ h \in Q /\ h # n
      /\ (l' = ListAdd(l, n, h) \/ l' = ListAddTail(l, n, h))
      /\ Q \in SUBSET Objects /\ n \notin Q
  BY <1>1, Start, Kinds DEF Add, AddTail
<1>3. Rings(l, Q, home)
  <2>1. CASE n \in Linked
    BY <1>1, <1>2, <2>1, Start, RingsWithout
  <2>2. CASE n \notin Linked
    BY <1>1, <2>2, Start DEF Rings
  <2> QED BY <2>1, <2>2
<1>4. home2[n] = home2[h] /\ \A x \in Q : home2[x] = home[x]
  BY <1>1, <1>2, Start, Kinds DEF HomeOf
<1>5. Rings(l, Q, home2)
  BY <1>3, <1>4, RingsHome
<1>6. l' \in Fields /\ Rings(l', Q \cup {n}, home2)
      /\ Kept(l, l', Q \cup {n})
  <2>1. /\ l \in Fields /\ Q \in SUBSET Objects /\ n \notin Q /\ h \in Q
        /\ home2[n] = home2[h] /\ Rings(l, Q, home2)
    BY <1>2, <1>4, <1>5, Start
  <2>2. /\ ListAdd(l, n, h) \in Fields /\ Rings(ListAdd(l, n, h), Q \cup {n}, home2)
        /\ Kept(l, ListAdd(l, n, h), Q \cup {n})
    BY <2>1, InsertAtHead
  <2>3. /\ ListAddTail(l, n, h) \in Fields /\ Rings(ListAddTail(l, n, h), Q \cup {n}, home2)
        /\ Kept(l, ListAddTail(l, n, h), Q \cup {n})
    BY <2>1, InsertAtHead
  <2>4. l' = ListAdd(l, n, h) \/ l' = ListAddTail(l, n, h)
    BY <1>2
  <2> QED BY <2>2, <2>3, <2>4
<1>7. Q \cup {n} = Linked \cup {n} /\ home2 = [HomeOf EXCEPT ![n] = h]
  BY <1>1
<1> QED BY <1>2, <1>6, <1>7, PutStep

\* An entry on a list, or alone, is unlinked.
LEMMA UnlinkEntry ==
  ASSUME IInv, NEW n \in Nodes, on[n] # NULL \/ Alone(n), NEW k, k = Unlink(l, n)
  PROVE  /\ n \in Linked /\ k \in Fields /\ Rings(k, Linked \ {n}, HomeOf)
         /\ Kept(l, k, Linked)
<1>1. n \in Linked
  BY Start DEF Alone
<1>2. PICK Q, home : Q = Linked /\ home = HomeOf
  OBVIOUS
<1>3. k \in Fields /\ Rings(k, Q \ {n}, home)
  BY <1>1, <1>2, Start, UnlinkKeeps
<1>4. l.prev[n] \in Q
  BY <1>1, <1>2, Start DEF Rings
<1>5. Kept(l, k, Q)
  BY <1>2, <1>4, Start, Kinds DEF Unlink, Fields, Kept
<1> QED BY <1>1, <1>2, <1>3, <1>5

\* The calls list_move and list_move_tail.
LEMMA MoveStep ==
  ASSUME IInv, NEW n \in Nodes, NEW h \in Heads, Move(n, h) \/ MoveTail(n, h)
  PROVE  IInv'
<1>1. PICK Q, home, home2, k :
        /\ Q = Linked \ {n}
        /\ home = HomeOf /\ home2 = [home EXCEPT ![n] = h] /\ k = Unlink(l, n)
  OBVIOUS
<1>2. /\ on[n] # NULL \/ Alone(n)
      /\ h \in ready /\ Put(n, h) /\ h \in Q /\ h # n
      /\ (l' = ListAdd(k, n, h) \/ l' = ListAddTail(k, n, h))
      /\ Q \in SUBSET Objects /\ n \notin Q
  BY <1>1, Start, Kinds DEF Move, MoveTail, ListMove, ListMoveTail
<1>3. /\ n \in Linked /\ k \in Fields /\ Rings(k, Q, home)
      /\ Kept(l, k, Linked)
  BY <1>1, <1>2, UnlinkEntry
<1>4. home2[n] = home2[h] /\ \A x \in Q : home2[x] = home[x]
  BY <1>1, <1>2, Start, Kinds DEF HomeOf
<1>5. Rings(k, Q, home2)
  BY <1>3, <1>4, RingsHome
<1>6. l' \in Fields /\ Rings(l', Q \cup {n}, home2)
      /\ Kept(k, l', Q \cup {n})

  <2>1. /\ k \in Fields /\ Q \in SUBSET Objects /\ n \notin Q /\ h \in Q
        /\ home2[n] = home2[h] /\ Rings(k, Q, home2)
    BY <1>2, <1>3, <1>4, <1>5
  <2>2. /\ ListAdd(k, n, h) \in Fields /\ Rings(ListAdd(k, n, h), Q \cup {n}, home2)
        /\ Kept(k, ListAdd(k, n, h), Q \cup {n})
    BY <2>1, InsertAtHead
  <2>3. /\ ListAddTail(k, n, h) \in Fields /\ Rings(ListAddTail(k, n, h), Q \cup {n}, home2)
        /\ Kept(k, ListAddTail(k, n, h), Q \cup {n})
    BY <2>1, InsertAtHead
  <2>4. l' = ListAdd(k, n, h) \/ l' = ListAddTail(k, n, h)
    BY <1>2
  <2> QED BY <2>2, <2>3, <2>4
<1>7. Q \cup {n} = Linked \cup {n} /\ home2 = [HomeOf EXCEPT ![n] = h]
  BY <1>1
<1>8. Kept(l, l', Linked \cup {n})
  BY <1>3, <1>6, <1>7 DEF Kept
<1> QED BY <1>2, <1>6, <1>7, <1>8, PutStep

\* The call list_del.
LEMMA DelStep ==
  ASSUME IInv, NEW n \in Nodes, Del(n)
  PROVE  IInv'
<1>1. PICK Q, home, k : Q = Linked \ {n} /\ home = HomeOf /\ k = Unlink(l, n)
  OBVIOUS
<1>2. /\ n \in Linked /\ k \in Fields /\ Rings(k, Q, home) /\ Q \in SUBSET Objects
      /\ Kept(l, k, Linked)
  BY <1>1, UnlinkEntry, Start DEF Del
<1>3. l' = [next |-> [k.next EXCEPT ![n] = POISON1], prev |-> [k.prev EXCEPT ![n] = POISON2]]
  BY <1>1 DEF Del, ListDel
<1>4. l' \in Fields /\ Rings(l', Q, home)
  BY <1>1, <1>2, <1>3, Kinds DEF Fields, Rings
<1>5. \A m \in Nodes : m \notin Q => l'.next[m] # m
  BY <1>1, <1>2, <1>3, Start, Kinds DEF Fields, Kept
<1>6. PICK home2 : home2 = HomeOf'
  OBVIOUS
<1>7. \A x \in Q : home2[x] = home[x]
  BY <1>1, <1>2, <1>6 DEF HomeOf, Home, Del, Put, IInv, TypeOK
<1>8. Rings(l', Q, HomeOf')
  BY <1>4, <1>6, <1>7, RingsHome
<1>9. TypeOK' /\ Q \cap Heads = ready'
  BY <1>1, <1>4, Start, Kinds DEF IInv, TypeOK, Del, Put, Fields
<1>10. \A m \in Nodes : on'[m] # NULL => on'[m] \in ready' /\ m \in Q
  BY <1>1, Start, Kinds DEF Del, Put
<1> QED BY <1>2, <1>5, <1>8, <1>9, <1>10, Finish

\* The call INIT_LIST_HEAD on a free entry.
LEMMA InitEntryStep ==
  ASSUME IInv, NEW n \in Nodes, InitEntry(n)
  PROVE  IInv'
<1>1. PICK Q, home : Q = Linked \ {n} /\ home = HomeOf
  OBVIOUS
<1>2. Rings(l, Q, home)
  <2>1. CASE n \in Linked
    BY <1>1, <2>1, Start, RingsWithout DEF InitEntry
  <2>2. CASE n \notin Linked
    BY <1>1, <2>2, Start DEF Rings
  <2> QED BY <2>1, <2>2
<1>3. l' \in Fields /\ Rings(l', Q \cup {n}, home)
  BY <1>1, <1>2, Start, Kinds, InitKeeps DEF InitEntry
<1>4. HomeOf' = home
  BY <1>1 DEF HomeOf, Home, InitEntry
<1>5. TypeOK'
  BY <1>3 DEF IInv, TypeOK, InitEntry, Fields
<1>6. \A m \in Nodes : m # n => l'.next[m] = l.next[m]
  BY Start, Kinds DEF InitEntry, InitListHead, Fields
<1>7. PICK T : T = Q \cup {n}
  OBVIOUS
<1>8. /\ \A m \in Nodes : on'[m] # NULL => on'[m] \in ready' /\ m \in T
      /\ \A m \in Nodes : m \notin T => l'.next[m] # m
  BY <1>1, <1>6, <1>7, Start DEF InitEntry
<1>9. T \in SUBSET Objects /\ T \cap Heads = ready'
  BY <1>1, <1>7, Start, Kinds DEF InitEntry
<1> QED BY <1>3, <1>4, <1>5, <1>7, <1>8, <1>9, Finish

\* The call list_del_init.
LEMMA DelInitStep ==
  ASSUME IInv, NEW n \in Nodes, DelInit(n)
  PROVE  IInv'
<1>1. PICK Q, home, home2, k :
        Q = Linked \ {n} /\ home = HomeOf /\ home2 = HomeOf' /\ k = Unlink(l, n)
  OBVIOUS
<1>2. /\ n \in Linked /\ k \in Fields /\ Rings(k, Q, home) /\ Q \in SUBSET Objects
      /\ Kept(l, k, Linked)
  BY <1>1, UnlinkEntry, Start DEF DelInit
<1>3. \A x \in Q : home2[x] = home[x]
  BY <1>1, <1>2 DEF HomeOf, Home, DelInit, Put, IInv, TypeOK
<1>4. l' = InitListHead(k, n) /\ n \in Objects /\ n \notin Q
  BY <1>1, Kinds DEF DelInit, ListDelInit
<1>5. l' \in Fields /\ Rings(l', Q \cup {n}, home2)
  BY <1>2, <1>3, <1>4, RingsHome, InitKeeps
<1>6. TypeOK'
  BY <1>5 DEF IInv, TypeOK, DelInit, Put, Fields
<1>7. PICK T : T = Q \cup {n}
  OBVIOUS
<1>8. \A m \in Nodes : on'[m] # NULL => on'[m] \in ready' /\ m \in T
  BY <1>1, <1>7, Start DEF DelInit, Put
<1>9. \A m \in Nodes : m \notin T => l'.next[m] # m
  BY <1>1, <1>2, <1>4, <1>7, Start, Kinds DEF InitListHead, Fields, Kept
<1>10. T \in SUBSET Objects /\ T \cap Heads = ready'
  BY <1>1, <1>7, Start, Kinds DEF DelInit, Put
<1> QED BY <1>1, <1>5, <1>6, <1>7, <1>8, <1>9, <1>10, Finish

\* The entries of g join those of h and g leaves the rings.
LEMMA Joined ==
  ASSUME IInv, NEW g \in ready, NEW h \in ready, g # h, ~ListEmpty(l, g), Rehome(g, h),
         NEW k, k = SpliceIn(l, g, h)
  PROVE  /\ k \in Fields /\ Rings(k, Linked \ {g}, HomeOf') /\ Kept(l, k, Linked)
         /\ on' \in [Nodes -> Heads \cup {NULL}]
         /\ \A n \in Nodes : on'[n] # NULL => on'[n] \in ready \ {g} /\ n \in Linked
<1>1. PICK Q, home, home2 : Q = Linked /\ home = HomeOf /\ home2 = HomeOf'
  OBVIOUS
<1>2. /\ g \in Heads /\ h \in Heads /\ g \in Q /\ h \in Q /\ home[g] = g /\ home[h] = h
      /\ l.next[g] # g
  BY <1>1, Start DEF ListEmpty
<1>3. \A x \in Q \ {g} : home2[x] = IF home[x] = home[g] THEN home[h] ELSE home[x]
  <2>1. \A n \in Nodes : home2[n] = IF home[n] = g THEN h ELSE home[n]
    BY <1>1, <1>2, Start, Kinds DEF HomeOf, Home, Rehome
  <2>2. \A a \in Heads : home2[a] = a /\ home[a] = a
    BY <1>1, Start, Kinds DEF HomeOf, Home
  <2>3. \A x \in Q : x \in Nodes \/ x \in Heads
    BY <1>1, Start DEF Objects
  <2> QED BY <1>2, <2>1, <2>2, <2>3
<1>4. k \in Fields /\ Rings(k, Q \ {g}, home2)
  <2>1. l \in Fields /\ Q \in SUBSET Objects /\ Rings(l, Q, home) /\ home[g] # home[h]
    BY <1>1, <1>2, Start
  <2>2. SpliceIn(l, g, h) \in Fields /\ Rings(SpliceIn(l, g, h), Q \ {g}, home2)
    BY <1>2, <1>3, <2>1, SpliceKeeps
  <2> QED BY <2>2
<1>5. l.prev[g] \in Q /\ h \in Q
  BY <1>1, <1>2, Start DEF Rings
<1>6. Kept(l, k, Q)
  BY <1>1, <1>5, Start, Kinds DEF Kept, SpliceIn, Fields
<1>7. /\ on' \in [Nodes -> Heads \cup {NULL}]
      /\ \A n \in Nodes : on'[n] # NULL => on'[n] \in ready \ {g} /\ n \in Q
  BY <1>1, <1>2, Start, Kinds DEF Rehome
<1> QED BY <1>1, <1>4, <1>6, <1>7

\* A step that leaves the lists alone.
LEMMA Untouched ==
  ASSUME IInv, UNCHANGED vars
  PROVE  IInv'
BY DEF IInv, TypeOK, Rings, Linked, HomeOf, Home, vars

\* The call list_splice.
LEMMA SpliceStep ==
  ASSUME IInv, NEW g \in Heads, NEW h \in Heads, Splice(g, h)
  PROVE  IInv'
<1>1. CASE ListEmpty(l, g)
  BY <1>1, Untouched DEF Splice
<1>2. CASE ~ListEmpty(l, g)
  <2>1. /\ l' \in Fields /\ Rings(l', Linked \ {g}, HomeOf') /\ Kept(l, l', Linked)
        /\ on' \in [Nodes -> Heads \cup {NULL}] /\ ready' = ready \ {g}
        /\ \A n \in Nodes : on'[n] # NULL => on'[n] \in ready \ {g} /\ n \in Linked
    BY <1>2, Joined DEF Splice
  <2>2. PICK T : T = Linked \ {g}
    OBVIOUS
  <2>3. TypeOK'
    BY <2>1, Start DEF TypeOK, Fields
  <2>4. \A n \in Nodes : n \notin T => l'.next[n] # n
    BY <2>1, <2>2, Start, Kinds DEF Kept
  <2>5. T \in SUBSET Objects /\ T \cap Heads = ready'
    BY <2>1, <2>2, Start
  <2>6. \A n \in Nodes : on'[n] # NULL => on'[n] \in ready' /\ n \in T
    BY <2>1, <2>2, Kinds
  <2> QED BY <2>1, <2>2, <2>3, <2>4, <2>5, <2>6, Finish
<1> QED BY <1>1, <1>2

\* The call list_splice_init.
LEMMA SpliceInitStep ==
  ASSUME IInv, NEW g \in Heads, NEW h \in Heads, SpliceInit(g, h)
  PROVE  IInv'
<1>1. CASE ListEmpty(l, g)
  BY <1>1, Untouched DEF SpliceInit
<1>2. CASE ~ListEmpty(l, g)
  <2>1. PICK k, home2, Q : k = SpliceIn(l, g, h) /\ home2 = HomeOf' /\ Q = Linked \ {g}
    OBVIOUS
  <2>2. /\ k \in Fields /\ Rings(k, Q, home2) /\ Kept(l, k, Linked)
        /\ on' \in [Nodes -> Heads \cup {NULL}]
        /\ \A n \in Nodes : on'[n] # NULL => on'[n] \in ready \ {g} /\ n \in Linked
    BY <1>2, <2>1, Joined DEF SpliceInit
  <2>3. l' = InitListHead(k, g) /\ g \in ready /\ ready' = ready
    BY <1>2, <2>1 DEF SpliceInit
  <2>4. l' \in Fields /\ Rings(l', Q \cup {g}, home2)
    BY <2>1, <2>2, <2>3, InitKeeps, Start, Kinds
  <2>5. PICK T : T = Q \cup {g}
    OBVIOUS
  <2>6. TypeOK'
    BY <2>2, <2>3, <2>4, Start DEF TypeOK, Fields
  <2>7. \A n \in Nodes : n \notin T => l'.next[n] # n
    BY <2>1, <2>2, <2>3, <2>5, Start, Kinds DEF Kept, InitListHead, Fields
  <2>8. T \in SUBSET Objects /\ T \cap Heads = ready'
    BY <2>1, <2>3, <2>5, Start
  <2>9. \A n \in Nodes : on'[n] # NULL => on'[n] \in ready' /\ n \in T
    BY <2>1, <2>2, <2>3, <2>5, Kinds
  <2> QED BY <2>1, <2>4, <2>5, <2>6, <2>7, <2>8, <2>9, Finish
<1> QED BY <1>1, <1>2

-----------------------------------------------------------------------------
(* The theorem                                                             *)

\* No object is in use at the start.
LEMMA Initial == Init => IInv
<1> SUFFICES ASSUME Init
             PROVE  IInv
  OBVIOUS
<1>1. TypeOK
  BY DEF Init, TypeOK
<1>2. Linked = {}
  BY Kinds DEF Init, Linked
<1> QED BY <1>1, <1>2 DEF IInv, Rings, Init

\* Every call keeps the invariant.
LEMMA Inductive == IInv /\ [Next]_vars => IInv'
<1> SUFFICES ASSUME IInv, [Next]_vars
             PROVE  IInv'
  OBVIOUS
<1>1. CASE UNCHANGED vars
  BY <1>1, Untouched
<1>2. ASSUME NEW h \in Heads, InitHead(h)
      PROVE  IInv'
  BY <1>2, InitHeadStep
<1>3. ASSUME NEW n \in Nodes, InitEntry(n) \/ Del(n) \/ DelInit(n)
      PROVE  IInv'
  BY <1>3, InitEntryStep, DelStep, DelInitStep
<1>4. ASSUME NEW n \in Nodes, NEW h \in Heads,
             Add(n, h) \/ AddTail(n, h) \/ Move(n, h) \/ MoveTail(n, h)
      PROVE  IInv'
  BY <1>4, AddStep, MoveStep
<1>5. ASSUME NEW g \in Heads, NEW h \in Heads, Splice(g, h) \/ SpliceInit(g, h)
      PROVE  IInv'
  BY <1>5, SpliceStep, SpliceInitStep
<1> QED BY <1>1, <1>2, <1>3, <1>4, <1>5 DEF Next

\* The least number of a set is one of it.
LEMMA HasLeast == ASSUME NEW Q \in SUBSET Nat, Q # {} PROVE \E x \in Q : \A y \in Q : x <= y
<1> DEFINE G == {0 .. x : x \in Q}
<1>1. G \subseteq FiniteSubsetsOf(Nat)
  <2>1. ASSUME NEW x \in Q PROVE 0 .. x \in SUBSET Nat /\ IsFiniteSet(0 .. x)
    BY FS_Interval, SMT
  <2> QED BY <2>1 DEF FiniteSubsetsOf
<1>2. PICK L \in G : \A N \in G : <<N, L>> \notin StrictSubsetOrdering(Nat)
  <2>1. IsWellFoundedOn(StrictSubsetOrdering(Nat), FiniteSubsetsOf(Nat))
    BY FS_StrictSubsetOrderingWellFounded
  <2>2. G # {}
    OBVIOUS
  <2> HIDE DEF G
  <2> QED BY <1>1, <2>1, <2>2, WFMin
<1>3. PICK x \in Q : L = 0 .. x
  OBVIOUS
<1>4. ASSUME NEW y \in Q, y < x PROVE FALSE
  <2>1. 0 .. y \in SUBSET Nat /\ L \in SUBSET Nat
    BY <1>3, SMT
  <2>2. 0 .. y \subseteq L /\ 0 .. y # L
    BY <1>3, <1>4, SMT
  <2>3. <<0 .. y, L>> \in StrictSubsetOrdering(Nat)
    BY <2>1, <2>2 DEF StrictSubsetOrdering
  <2> QED BY <1>2, <2>3
<1> QED BY <1>4, SMT

\* A number that is the least without a property has it one below.
LEMMA Stepwise ==
  ASSUME NEW n \in Nat, NEW Q \in SUBSET (0 .. n), 0 \in Q, \A i \in 1 .. n : i - 1 \in Q => i \in Q
  PROVE  Q = 0 .. n
<1> SUFFICES ASSUME (0 .. n) \ Q # {} PROVE FALSE
  OBVIOUS
<1> DEFINE R == (0 .. n) \ Q
<1>1. R \in SUBSET Nat /\ R # {}
  BY SMT
<1>2. PICK x \in R : \A y \in R : x <= y
  <2> HIDE DEF R
  <2> QED BY <1>1, HasLeast
<1>3. x # 0 /\ x \in 1 .. n /\ x - 1 \in 0 .. n /\ ~(x <= x - 1)
  BY <1>2, SMT
<1>4. x - 1 \in Q
  BY <1>2, <1>3
<1> QED BY <1>2, <1>3, <1>4

\* A walk of n steps by f from h, and there is only one.
Walks(w, f, h, n) == w[0] = h /\ \A i \in 1 .. n : w[i] = f[w[i - 1]]

\* Following a function from a value of its domain can go on for any number of steps.
LEMMA WalkExists ==
  ASSUME NEW V, NEW f, \A x \in V : f[x] \in V, NEW h \in V, NEW n \in Nat
  PROVE  \E w \in [0 .. n -> V] : Walks(w, f, h, n)
<1> DEFINE Q == {m \in 0 .. n : \E w \in [0 .. m -> V] : Walks(w, f, h, m)}
<1>1. 0 \in Q
  <2>1. [i \in 0 .. 0 |-> h] \in [0 .. 0 -> V] /\ Walks([i \in 0 .. 0 |-> h], f, h, 0)
    BY SMT DEF Walks
  <2>2. 0 \in 0 .. n
    BY SMT
  <2> QED BY <2>1, <2>2
<1>2. ASSUME NEW m \in 1 .. n, m - 1 \in Q PROVE m \in Q
  <2>1. PICK w \in [0 .. m - 1 -> V] : Walks(w, f, h, m - 1)
    BY <1>2
  <2> DEFINE u == [i \in 0 .. m |-> IF i = m THEN f[w[m - 1]] ELSE w[i]]
  <2>2. m - 1 \in 0 .. m - 1 /\ w[m - 1] \in V
    BY <2>1, SMT
  <2>3. u \in [0 .. m -> V]
    BY <2>1, <2>2, SMT
  <2>4. u[0] = h
    BY <2>1, SMT DEF Walks
  <2>5. ASSUME NEW i \in 1 .. m PROVE u[i] = f[u[i - 1]]
    <3>1. CASE i = m
      <4>1. u[i] = f[w[m - 1]] /\ u[i - 1] = w[m - 1]
        BY <3>1, SMT
      <4> QED BY <4>1
    <3>2. CASE i # m
      <4>1. i \in 1 .. m - 1 /\ u[i] = w[i] /\ u[i - 1] = w[i - 1]
        BY <3>2, SMT
      <4> QED BY <2>1, <4>1 DEF Walks
    <3> QED BY <3>1, <3>2
  <2>6. m \in 0 .. n
    BY SMT
  <2> HIDE DEF u
  <2> QED BY <2>3, <2>4, <2>5, <2>6 DEF Walks
<1>3. Q \in SUBSET (0 .. n)
  OBVIOUS
<1> HIDE DEF Q
<1>4. Q = 0 .. n
  BY <1>1, <1>2, <1>3, Stepwise
<1>5. n \in Q
  BY <1>4, SMT
<1> QED BY <1>5 DEF Q
-----------------------------------------------------------------------------
(* A ring of objects: a head and the entries of a sequence, in order.       *)

\* The entry at place i of s; before the first and behind the last is the head.
Spot(h, s, i) == IF i \in 1 .. Len(s) THEN s[i] ELSE h

\* No entry is there twice, and the head is none.
Line(h, s) == /\ s \in Seq(Nodes) /\ h \notin Nodes
              /\ \A i, j \in 1 .. Len(s) : s[i] = s[j] => i = j

\* The pointers of h and of the entries of s go round in the order of s.
Follows(p, h, s) ==
  \A i \in 0 .. Len(s) : /\ p.next[Spot(h, s, i)] = Spot(h, s, i + 1)
                         /\ p.prev[Spot(h, s, i + 1)] = Spot(h, s, i)

\* n is an entry of s.
In(n, s) == \E i \in 1 .. Len(s) : s[i] = n

\* The pointers are those of the objects in Q.
Pointers(p, Q) == /\ p = [next |-> p.next, prev |-> p.prev]
                  /\ p.next = [x \in Q |-> p.next[x]] /\ p.prev = [x \in Q |-> p.prev[x]]

\* No object has two places in a ring.
LEMMA SpotsDiffer ==
  ASSUME NEW h, NEW s, Line(h, s), NEW i \in Nat, NEW j \in Nat, Spot(h, s, i) = Spot(h, s, j),
         \/ i <= Len(s) /\ j <= Len(s)
         \/ i \in 1 .. Len(s) + 1 /\ j \in 1 .. Len(s) + 1
  PROVE  i = j
<1>1. Len(s) \in Nat /\ \A x \in 1 .. Len(s) : s[x] \in Nodes /\ s[x] # h
  BY LenProperties, ElementOfSeq DEF Line
<1> QED BY <1>1, SMT DEF Spot, Line

\* The places of a ring are its head and its entries.
LEMMA SpotsAre ==
  ASSUME NEW h, NEW s, Line(h, s), NEW i \in Nat
  PROVE  /\ Len(s) \in Nat
         /\ i \in 1 .. Len(s) => Spot(h, s, i) = s[i] /\ s[i] \in Nodes /\ s[i] # h
         /\ i \notin 1 .. Len(s) => Spot(h, s, i) = h
         /\ Spot(h, s, i) = h \/ (Spot(h, s, i) \in Nodes /\ In(Spot(h, s, i), s))
BY LenProperties, ElementOfSeq DEF Spot, Line, In

\* What touches no object of the ring leaves it alone.
LEMMA RingStays ==
  ASSUME NEW h, NEW s, Line(h, s), NEW p, NEW q, Follows(p, h, s),
         p.next[h] = q.next[h], p.prev[h] = q.prev[h],
         \A n \in Nodes : In(n, s) => p.next[n] = q.next[n] /\ p.prev[n] = q.prev[n]
  PROVE  Follows(q, h, s)
<1> SUFFICES ASSUME NEW i \in 0 .. Len(s)
             PROVE /\ q.next[Spot(h, s, i)] = Spot(h, s, i + 1)
                   /\ q.prev[Spot(h, s, i + 1)] = Spot(h, s, i)
  BY DEF Follows
<1>1. i \in Nat /\ i + 1 \in Nat
  BY SMT
<1>2. \A j \in Nat : p.next[Spot(h, s, j)] = q.next[Spot(h, s, j)] /\ p.prev[Spot(h, s, j)] = q.prev[Spot(h, s, j)]
  BY SpotsAre
<1> QED BY <1>1, <1>2 DEF Follows

\* __list_add between two neighbours: t is s with n behind its place m.
LEMMA RingGrows ==
  ASSUME NEW Q, NEW p, Pointers(p, Q), NEW h \in Q, NEW s, Line(h, s), Follows(p, h, s),
         NEW n \in Q, n \in Nodes, ~In(n, s), NEW m \in 0 .. Len(s),
         NEW t, Line(h, t), Len(t) = Len(s) + 1, t[m + 1] = n,
         \A i \in 1 .. m : t[i] = s[i], \A i \in m + 1 .. Len(s) : t[i + 1] = s[i],
         \A i \in 1 .. Len(s) : s[i] \in Q
  PROVE  Follows(InsertBetween(p, n, Spot(h, s, m), Spot(h, s, m + 1)), h, t)
<1> DEFINE b == Spot(h, s, m)
           a == Spot(h, s, m + 1)
           r == InsertBetween(p, n, b, a)
<1>1. Len(s) \in Nat /\ m \in Nat /\ m + 1 \in Nat /\ m <= Len(s)
  BY SpotsAre, SMT
<1>2. a \in Q /\ b \in Q /\ n # a /\ n # b
  BY <1>1, SpotsAre DEF Spot, In, Line
<1> HIDE DEF a, b
<1>3. /\ r.next = [p.next EXCEPT ![n] = a, ![b] = n]
      /\ r.prev = [p.prev EXCEPT ![a] = n, ![n] = b]
  BY DEF InsertBetween
<1> HIDE DEF r
<1>4. /\ r.next[n] = a /\ r.next[b] = n /\ r.prev[a] = n /\ r.prev[n] = b
      /\ \A x \in Q : x # n /\ x # b => r.next[x] = p.next[x]
      /\ \A x \in Q : x # n /\ x # a => r.prev[x] = p.prev[x]
  BY <1>2, <1>3 DEF Pointers
<1>5. /\ \A i \in 0 .. m : Spot(h, t, i) = Spot(h, s, i)
      /\ Spot(h, t, m + 1) = n
      /\ \A i \in m + 1 .. Len(s) + 1 : Spot(h, t, i + 1) = Spot(h, s, i)
  <2>1. Spot(h, t, m + 1) = n
    BY <1>1, SMT DEF Spot
  <2>2. ASSUME NEW i \in 0 .. m PROVE Spot(h, t, i) = Spot(h, s, i)
    BY <1>1, SMT DEF Spot
  <2>3. ASSUME NEW i \in m + 1 .. Len(s) + 1 PROVE Spot(h, t, i + 1) = Spot(h, s, i)
    BY <1>1, SMT DEF Spot
  <2> QED BY <2>1, <2>2, <2>3
<1>6. \A i \in Nat : Spot(h, s, i) \in Q /\ Spot(h, s, i) # n
  BY <1>1, SpotsAre DEF Spot, In, Line
<1> SUFFICES ASSUME NEW i \in 0 .. Len(t)
             PROVE  r.next[Spot(h, t, i)] = Spot(h, t, i + 1) /\ r.prev[Spot(h, t, i + 1)] = Spot(h, t, i)
  BY DEF Follows, r, a, b
<1>7. CASE i < m
  <2>1. i \in 0 .. m /\ i + 1 \in 0 .. m /\ i \in 0 .. Len(s) /\ i \in Nat /\ i + 1 \in Nat
    BY <1>1, <1>7, SMT
  <2>2. Spot(h, s, i) # b
    BY <1>1, <1>7, <2>1, SpotsDiffer, SMT DEF b
  <2>3. Spot(h, s, i + 1) # a
    <3>1. i + 1 \in 1 .. Len(s) + 1 /\ m + 1 \in 1 .. Len(s) + 1 /\ i + 1 # m + 1
      BY <1>1, <1>7, SMT
    <3> QED BY <1>1, <2>1, <3>1, SpotsDiffer DEF a
  <2> QED BY <1>4, <1>5, <1>6, <2>1, <2>2, <2>3 DEF Follows
<1>8. CASE i = m
  <2>1. m \in 0 .. m
    BY <1>1, SMT
  <2> QED BY <1>4, <1>5, <1>8, <2>1 DEF b
<1>9. CASE i = m + 1
  <2>1. m + 1 \in m + 1 .. Len(s) + 1 /\ i + 1 = (m + 1) + 1
    BY <1>1, <1>9, SMT
  <2>2. Spot(h, t, (m + 1) + 1) = a
    BY <1>5, <2>1 DEF a
  <2> QED BY <1>4, <1>5, <1>9, <2>2
<1>10. CASE i > m + 1
  <2> DEFINE j == i - 1
  <2>1. /\ j \in m + 1 .. Len(s) + 1 /\ j + 1 \in m + 1 .. Len(s) + 1 /\ j + 1 = i
        /\ j \in 0 .. Len(s) /\ j \in Nat /\ j + 1 \in Nat /\ j # m /\ j + 1 # m + 1
        /\ j <= Len(s) /\ j + 1 \in 1 .. Len(s) + 1 /\ m + 1 \in 1 .. Len(s) + 1
    BY <1>1, <1>10, SMT
  <2> HIDE DEF j
  <2>2. Spot(h, s, j) # b
    BY <1>1, <2>1, SpotsDiffer DEF b
  <2>3. Spot(h, s, j + 1) # a
    BY <1>1, <2>1, SpotsDiffer DEF a
  <2>4. Spot(h, t, i) = Spot(h, s, j) /\ Spot(h, t, i + 1) = Spot(h, s, j + 1)
    BY <1>5, <2>1
  <2> QED BY <1>4, <1>6, <2>1, <2>2, <2>3, <2>4 DEF Follows
<1> QED BY <1>1, <1>7, <1>8, <1>9, <1>10, SMT

\* The pointers at the ends of a list.
LEMMA EndsAre ==
  ASSUME NEW h, NEW s, Line(h, s), NEW p, Follows(p, h, s)
  PROVE  /\ Len(s) \in Nat /\ Spot(h, s, 0) = h /\ Spot(h, s, Len(s) + 1) = h
         /\ p.next[h] = Spot(h, s, 0 + 1) /\ p.prev[h] = Spot(h, s, Len(s))
<1>1. Len(s) \in Nat /\ 0 \in 0 .. Len(s) /\ Len(s) \in 0 .. Len(s)
  BY LenProperties, SMT DEF Line
<1>2. Spot(h, s, 0) = h /\ Spot(h, s, Len(s) + 1) = h
  BY <1>1, SMT DEF Spot
<1> QED BY <1>1, <1>2 DEF Follows

\* __list_del of the entry at place m: t is s without it.
LEMMA RingShrinks ==
  ASSUME NEW Q, NEW p, Pointers(p, Q), NEW h \in Q, NEW s, Line(h, s), Follows(p, h, s),
         NEW m \in 1 .. Len(s),
         NEW t, Line(h, t), Len(t) = Len(s) - 1,
         \A i \in 1 .. m - 1 : t[i] = s[i], \A i \in m .. Len(t) : t[i] = s[i + 1],
         \A i \in 1 .. Len(s) : s[i] \in Q
  PROVE  Follows(Unlink(p, s[m]), h, t)
<1> DEFINE b == Spot(h, s, m - 1)
           a == Spot(h, s, m + 1)
           r == Unlink(p, s[m])
<1>1. /\ Len(s) \in Nat /\ m \in Nat /\ m + 1 \in Nat /\ m - 1 \in Nat /\ m <= Len(s) /\ 1 <= m
      /\ m - 1 \in 0 .. Len(s) /\ m \in 0 .. Len(s) /\ (m - 1) + 1 = m
  BY SpotsAre, SMT
<1>2. a \in Q /\ b \in Q /\ s[m] \in Q
  BY <1>1, SpotsAre DEF Spot, In, Line
<1>3. p.next[s[m]] = a /\ p.prev[s[m]] = b
  <2>1. Spot(h, s, m) = s[m]
    BY <1>1 DEF Spot
  <2>2. p.next[Spot(h, s, m)] = Spot(h, s, m + 1)
    BY <1>1 DEF Follows
  <2>3. p.prev[Spot(h, s, (m - 1) + 1)] = Spot(h, s, m - 1)
    BY <1>1 DEF Follows
  <2> QED BY <1>1, <2>1, <2>2, <2>3
<1> HIDE DEF a, b
<1>4. r.next = [p.next EXCEPT ![b] = a] /\ r.prev = [p.prev EXCEPT ![a] = b]
  BY <1>3 DEF Unlink
<1> HIDE DEF r
<1>5. /\ r.next[b] = a /\ r.prev[a] = b
      /\ \A x \in Q : x # b => r.next[x] = p.next[x]
      /\ \A x \in Q : x # a => r.prev[x] = p.prev[x]
  BY <1>2, <1>4 DEF Pointers
<1>6. /\ \A i \in 0 .. m - 1 : Spot(h, t, i) = Spot(h, s, i)
      /\ \A i \in m .. Len(s) : Spot(h, t, i) = Spot(h, s, i + 1)
  <2>1. ASSUME NEW i \in 0 .. m - 1 PROVE Spot(h, t, i) = Spot(h, s, i)
    BY <1>1, SMT DEF Spot
  <2>2. ASSUME NEW i \in m .. Len(s) PROVE Spot(h, t, i) = Spot(h, s, i + 1)
    BY <1>1, SMT DEF Spot
  <2> QED BY <2>1, <2>2
<1>7. \A i \in Nat : Spot(h, s, i) \in Q
  BY <1>1, SpotsAre DEF Spot, In, Line
<1> SUFFICES ASSUME NEW i \in 0 .. Len(t)
             PROVE  r.next[Spot(h, t, i)] = Spot(h, t, i + 1) /\ r.prev[Spot(h, t, i + 1)] = Spot(h, t, i)
  BY DEF Follows, r
<1>8. CASE i < m - 1
  <2>1. /\ i \in 0 .. m - 1 /\ i + 1 \in 0 .. m - 1 /\ i \in 0 .. Len(s) /\ i \in Nat /\ i + 1 \in Nat
        /\ i <= Len(s) /\ m - 1 <= Len(s) /\ i # m - 1 /\ i + 1 <= Len(s) + 1 /\ i + 1 # m + 1
        /\ i + 1 \in 1 .. Len(s) + 1 /\ m + 1 \in 1 .. Len(s) + 1
    BY <1>1, <1>8, SMT
  <2>2. Spot(h, s, i) # b
    BY <1>1, <2>1, SpotsDiffer DEF b
  <2>3. Spot(h, s, i + 1) # a
    BY <1>1, <2>1, SpotsDiffer DEF a
  <2>4. p.next[Spot(h, s, i)] = Spot(h, s, i + 1) /\ p.prev[Spot(h, s, i + 1)] = Spot(h, s, i)
    BY <2>1 DEF Follows
  <2>5. Spot(h, t, i) = Spot(h, s, i) /\ Spot(h, t, i + 1) = Spot(h, s, i + 1)
    BY <1>6, <2>1
  <2> QED BY <1>5, <1>7, <2>1, <2>2, <2>3, <2>4, <2>5
<1>9. CASE i = m - 1
  <2>1. m - 1 \in 0 .. m - 1 /\ m \in m .. Len(s) /\ i + 1 = m
    BY <1>1, <1>9, SMT
  <2>2. Spot(h, t, m - 1) = b /\ Spot(h, t, m) = a
    BY <1>6, <2>1 DEF a, b
  <2> QED BY <1>5, <1>9, <2>1, <2>2
<1>10. CASE i > m - 1
  <2>1. /\ i \in m .. Len(s) /\ i + 1 \in m .. Len(s) /\ i + 1 \in 0 .. Len(s) /\ i + 1 \in Nat
        /\ (i + 1) + 1 \in Nat /\ i + 1 # m - 1 /\ (i + 1) + 1 # m + 1 /\ i + 1 <= Len(s) /\ m - 1 <= Len(s)
        /\ (i + 1) + 1 \in 1 .. Len(s) + 1 /\ m + 1 \in 1 .. Len(s) + 1
    BY <1>1, <1>10, SMT
  <2>2. Spot(h, s, i + 1) # b
    BY <1>1, <2>1, SpotsDiffer DEF b
  <2>3. Spot(h, s, (i + 1) + 1) # a
    BY <1>1, <2>1, SpotsDiffer DEF a
  <2>4. Spot(h, t, i) = Spot(h, s, i + 1) /\ Spot(h, t, i + 1) = Spot(h, s, (i + 1) + 1)
    BY <1>6, <2>1
  <2> QED BY <1>5, <1>7, <2>1, <2>2, <2>3, <2>4 DEF Follows
<1> QED BY <1>1, <1>8, <1>9, <1>10, SMT

\* __list_splice: the entries of s, of which there is one, before those of t.
LEMMA RingsJoin ==
  ASSUME NEW Q, NEW p, Pointers(p, Q), NEW g \in Q, NEW h \in Q, g # h,
         NEW s, Line(g, s), Follows(p, g, s), s # <<>>,
         NEW t, Line(h, t), Follows(p, h, t), h \notin Nodes,
         \A i \in 1 .. Len(s), j \in 1 .. Len(t) : s[i] # t[j],
         \A i \in 1 .. Len(s) : s[i] \in Q, \A i \in 1 .. Len(t) : t[i] \in Q
  PROVE  Line(h, s \o t) /\ Follows(SpliceIn(p, g, h), h, s \o t)
<1> DEFINE u == s \o t
           a == Spot(h, t, 1)
           r == SpliceIn(p, g, h)
           M == Len(s)
           N == Len(t)
<1>1. /\ s \in Seq(Nodes) /\ t \in Seq(Nodes) /\ M \in Nat \ {0} /\ N \in Nat
      /\ u \in Seq(Nodes) /\ Len(u) = M + N
      /\ \A i \in 1 .. M + N : u[i] = IF i <= M THEN s[i] ELSE t[i - M]
  BY EmptySeq, LenProperties, ConcatProperties DEF Line
<1> HIDE DEF u
<1>2. /\ \A i \in 1 .. M : u[i] = s[i]
      /\ \A i \in 1 .. N : u[M + i] = t[i]
  <2>1. ASSUME NEW i \in 1 .. M PROVE u[i] = s[i]
    BY <1>1, SMT
  <2>2. ASSUME NEW i \in 1 .. N PROVE u[M + i] = t[i]
    <3>1. M + i \in 1 .. M + N /\ ~(M + i <= M) /\ (M + i) - M = i
      BY <1>1, SMT
    <3> QED BY <1>1, <3>1
  <2> QED BY <2>1, <2>2
<1>3. Line(h, u)
  <2> SUFFICES ASSUME NEW i \in 1 .. M + N, NEW j \in 1 .. M + N, u[i] = u[j] PROVE i = j
    BY <1>1 DEF Line
  <2>1. \A x \in 1 .. M + N : x \in 1 .. M \/ \E y \in 1 .. N : x = M + y
    <3> SUFFICES ASSUME NEW x \in 1 .. M + N, x \notin 1 .. M PROVE \E y \in 1 .. N : x = M + y
      OBVIOUS
    <3>1. x - M \in 1 .. N /\ x = M + (x - M)
      BY <1>1, SMT
    <3> QED BY <3>1
  <2>2. CASE i \in 1 .. M /\ j \in 1 .. M
    BY <1>2, <2>2 DEF Line
  <2>3. ASSUME NEW x \in 1 .. N, NEW y \in 1 .. N, i = M + x, j = M + y PROVE i = j
    <3>1. t[x] = t[y]
      BY <1>2, <2>3
    <3> QED BY <2>3, <3>1 DEF Line
  <2>4. ASSUME NEW y \in 1 .. N, i \in 1 .. M, j = M + y PROVE FALSE
    BY <1>2, <2>4
  <2>5. ASSUME NEW x \in 1 .. N, i = M + x, j \in 1 .. M PROVE FALSE
    BY <1>2, <2>5
  <2> QED BY <2>1, <2>2, <2>3, <2>4, <2>5
<1>4. /\ \A i \in 1 .. M : Spot(h, u, i) = Spot(g, s, i)
      /\ \A i \in 1 .. N + 1 : Spot(h, u, M + i) = Spot(h, t, i)
      /\ Spot(h, u, 0) = h
  <2>1. ASSUME NEW i \in 1 .. M PROVE Spot(h, u, i) = Spot(g, s, i)
    BY <1>1, <1>2, SMT DEF Spot
  <2>2. ASSUME NEW i \in 1 .. N + 1 PROVE Spot(h, u, M + i) = Spot(h, t, i)
    <3>1. CASE i \in 1 .. N
      BY <1>1, <1>2, <3>1, SMT DEF Spot
    <3>2. CASE i \notin 1 .. N
      BY <1>1, <3>2, SMT DEF Spot
    <3> QED BY <3>1, <3>2
  <2>3. Spot(h, u, 0) = h
    BY SMT DEF Spot
  <2> QED BY <2>1, <2>2, <2>3
<1>5. /\ s[1] \in Nodes /\ s[M] \in Nodes /\ s[1] \in Q /\ s[M] \in Q /\ s[1] # h /\ s[M] # h
      /\ Spot(g, s, 1) = s[1] /\ Spot(g, s, M) = s[M] /\ Spot(g, s, 0) = g /\ Spot(g, s, M + 1) = g
  <2>1. 1 \in 1 .. M /\ M \in 1 .. M /\ 0 \notin 1 .. M /\ M + 1 \notin 1 .. M
    BY <1>1, SMT
  <2> QED BY <1>1, <2>1, ElementOfSeq DEF Spot, Line
<1>6. /\ p.next[g] = s[1] /\ p.prev[g] = s[M] /\ p.next[h] = a
  <2>1. 0 \in 0 .. M /\ M \in 0 .. M /\ 0 \in 0 .. N /\ 0 + 1 = 1
    BY <1>1, SMT
  <2>2. Spot(h, t, 0) = h
    BY SMT DEF Spot
  <2> QED BY <1>5, <2>1, <2>2 DEF Follows
<1>7. a \in Q /\ a # s[1] /\ a # s[M] /\ (a = h \/ a \in Nodes)
  <2>1. CASE N = 0
    <3>1. a = h
      BY <2>1, SMT DEF Spot
    <3> QED BY <1>5, <3>1
  <2>2. CASE N # 0
    <3>1. 1 \in 1 .. N /\ 1 \in 1 .. M /\ M \in 1 .. M
      BY <1>1, <2>2, SMT
    <3>2. a = t[1] /\ t[1] \in Nodes
      BY <1>1, <3>1, ElementOfSeq DEF Spot
    <3> QED BY <3>1, <3>2
  <2> QED BY <2>1, <2>2
<1> HIDE DEF a
<1>8. /\ r.next = [p.next EXCEPT ![h] = s[1], ![s[M]] = a]
      /\ r.prev = [p.prev EXCEPT ![s[1]] = h, ![a] = s[M]]
  BY <1>6 DEF SpliceIn
<1> HIDE DEF r
<1>9. /\ r.next[h] = s[1] /\ r.next[s[M]] = a /\ r.prev[s[1]] = h /\ r.prev[a] = s[M]
      /\ \A x \in Q : x # h /\ x # s[M] => r.next[x] = p.next[x]
      /\ \A x \in Q : x # s[1] /\ x # a => r.prev[x] = p.prev[x]
  BY <1>5, <1>7, <1>8 DEF Pointers
<1>10. /\ \A i \in 1 .. M : Spot(g, s, i) = s[i] /\ s[i] \in Q /\ s[i] \in Nodes /\ s[i] # h
       /\ \A i \in 1 .. N + 1 : Spot(h, t, i) \in Q /\ \A j \in 1 .. M : Spot(h, t, i) # s[j]
  <2>1. \A i \in 1 .. M : Spot(g, s, i) = s[i] /\ s[i] \in Q /\ s[i] \in Nodes /\ s[i] # h
    BY <1>1, ElementOfSeq DEF Spot
  <2>2. \A i \in 1 .. N : t[i] \in Q /\ \A j \in 1 .. M : t[i] # s[j]
    OBVIOUS
  <2> QED BY <2>1, <2>2 DEF Spot
<1> SUFFICES ASSUME NEW i \in 0 .. Len(u)
             PROVE  r.next[Spot(h, u, i)] = Spot(h, u, i + 1) /\ r.prev[Spot(h, u, i + 1)] = Spot(h, u, i)
  BY <1>3 DEF Follows, r, u
<1>11. CASE i = 0
  <2>1. 1 \in 1 .. M /\ i + 1 = 1
    BY <1>1, <1>11, SMT
  <2> QED BY <1>4, <1>5, <1>9, <1>11, <2>1
<1>12. CASE i \in 1 .. M - 1
  <2>1. /\ i \in 1 .. M /\ i + 1 \in 1 .. M /\ i \in 0 .. M /\ M \in 1 .. M /\ 1 \in 1 .. M
        /\ i # M /\ i + 1 # 1
    BY <1>1, <1>12, SMT
  <2>2. p.next[s[i]] = s[i + 1] /\ p.prev[s[i + 1]] = s[i]
    BY <1>10, <2>1 DEF Follows
  <2>3. s[i] # s[M] /\ s[i + 1] # s[1]
    BY <2>1 DEF Line
  <2>4. s[i + 1] # a
    <3>1. 1 \in 1 .. N + 1
      BY <1>1, SMT
    <3> QED BY <1>10, <2>1, <3>1 DEF a
  <2> QED BY <1>4, <1>9, <1>10, <2>1, <2>2, <2>3, <2>4
<1>13. CASE i = M
  <2>1. M \in 1 .. M /\ 1 \in 1 .. N + 1
    BY <1>1, SMT
  <2>2. Spot(h, u, M + 1) = a /\ Spot(h, u, M) = s[M]
    BY <1>4, <1>5, <2>1 DEF a
  <2> QED BY <1>9, <1>13, <2>2
<1>14. CASE i > M
  <2> DEFINE j == i - M
  <2>1. /\ j \in 1 .. N + 1 /\ j + 1 \in 1 .. N + 1 /\ j \in 0 .. N /\ M + j = i /\ M + (j + 1) = i + 1
        /\ j \in 1 .. N /\ M \in 1 .. M /\ 1 \in 1 .. M /\ j + 1 # 1 /\ 1 \in 1 .. N + 1
        /\ j + 1 \in Nat /\ 1 \in Nat
    BY <1>1, <1>14, SMT
  <2> HIDE DEF j
  <2>2. Spot(h, u, i) = Spot(h, t, j) /\ Spot(h, u, i + 1) = Spot(h, t, j + 1)
    BY <1>4, <2>1
  <2>3. Spot(h, t, j) # h
    BY <1>1, <2>1, ElementOfSeq DEF Spot
  <2>4. Spot(h, t, j + 1) # a
    BY <2>1, SpotsDiffer DEF a
  <2>5. p.next[Spot(h, t, j)] = Spot(h, t, j + 1) /\ p.prev[Spot(h, t, j + 1)] = Spot(h, t, j)
    BY <2>1 DEF Follows
  <2> QED BY <1>9, <1>10, <2>1, <2>2, <2>3, <2>4, <2>5
<1> QED BY <1>1, <1>11, <1>12, <1>13, <1>14, SMT

\* t is s with n behind its place m.
Grown(t, s, n, m) ==
  /\ t \in Seq(Nodes) /\ Len(t) = Len(s) + 1 /\ m \in 0 .. Len(s) /\ t[m + 1] = n
  /\ \A i \in 1 .. m : t[i] = s[i]
  /\ \A i \in m + 1 .. Len(s) : t[i + 1] = s[i]

\* t is s without its place m.
Shrunk(t, s, m) ==
  /\ t \in Seq(Nodes) /\ Len(t) = Len(s) - 1 /\ m \in 1 .. Len(s)
  /\ \A i \in 1 .. m - 1 : t[i] = s[i]
  /\ \A i \in m .. Len(t) : t[i] = s[i + 1]

\* The entries of a sequence that has grown.
LEMMA GrownIs ==
  ASSUME NEW h, NEW s, Line(h, s), NEW n \in Nodes, ~In(n, s), NEW m, NEW t, Grown(t, s, n, m)
  PROVE  Line(h, t) /\ \A x : In(x, t) <=> (x = n \/ In(x, s))
<1>1. Len(s) \in Nat /\ m \in Nat /\ m <= Len(s) /\ Len(t) = Len(s) + 1 /\ m + 1 \in 1 .. Len(t)
  BY LenProperties, SMT DEF Line, Grown
<1>2. \A i \in 1 .. Len(t) : \/ i \in 1 .. m /\ i \in 1 .. Len(s)
                             \/ i = m + 1
                             \/ \E j \in m + 1 .. Len(s) : j \in 1 .. Len(s) /\ i = j + 1
  <2> SUFFICES ASSUME NEW i \in 1 .. Len(t), i \notin 1 .. m, i # m + 1
               PROVE  \E j \in m + 1 .. Len(s) : j \in 1 .. Len(s) /\ i = j + 1
    BY <1>1, SMT
  <2>1. i - 1 \in m + 1 .. Len(s) /\ i - 1 \in 1 .. Len(s) /\ i = (i - 1) + 1
    BY <1>1, SMT
  <2> QED BY <2>1
<1>3. \A i \in 1 .. m : i \in 1 .. Len(s) /\ i \in 1 .. Len(t) /\ t[i] = s[i] /\ t[i] # n
  <2>1. \A i \in 1 .. m : i \in 1 .. Len(s) /\ i \in 1 .. Len(t)
    BY <1>1, SMT
  <2> QED BY <2>1 DEF Grown, In
<1>4. \A j \in m + 1 .. Len(s) : j \in 1 .. Len(s) /\ j + 1 \in 1 .. Len(t) /\ t[j + 1] = s[j] /\ t[j + 1] # n
  <2>1. \A j \in m + 1 .. Len(s) : j \in 1 .. Len(s) /\ j + 1 \in 1 .. Len(t)
    BY <1>1, SMT
  <2> QED BY <2>1 DEF Grown, In
<1>5. t[m + 1] = n
  BY DEF Grown
<1>6. ASSUME NEW i \in 1 .. Len(t), NEW j \in 1 .. Len(t), t[i] = t[j] PROVE i = j
  <2>1. CASE i = m + 1
    BY <1>2, <1>3, <1>4, <1>5, <1>6, <2>1
  <2>2. CASE j = m + 1
    BY <1>2, <1>3, <1>4, <1>5, <1>6, <2>2
  <2>3. CASE i # m + 1 /\ j # m + 1
    <3>1. ASSUME i \in 1 .. m, j \in 1 .. m PROVE i = j
      BY <1>3, <1>6, <3>1 DEF Line
    <3>2. ASSUME NEW x \in m + 1 .. Len(s), NEW y \in m + 1 .. Len(s), i = x + 1, j = y + 1 PROVE i = j
      <4>1. x = y
        BY <1>4, <1>6, <3>2 DEF Line
      <4> QED BY <3>2, <4>1
    <3>3. ASSUME NEW x \in 1 .. m, NEW y \in m + 1 .. Len(s) PROVE t[x] # t[y + 1]
      <4>1. x # y
        BY <1>1, SMT
      <4> QED BY <1>3, <1>4, <4>1 DEF Line
    <3> QED BY <1>2, <1>6, <2>3, <3>1, <3>2, <3>3
  <2> QED BY <2>1, <2>2, <2>3
<1>7. ASSUME NEW x PROVE In(x, t) <=> (x = n \/ In(x, s))
  <2>1. In(x, t) => x = n \/ In(x, s)
    BY <1>2, <1>3, <1>4, <1>5 DEF In
  <2>2. x = n => In(x, t)
    BY <1>1, <1>5 DEF In
  <2>3. ASSUME In(x, s) PROVE In(x, t)
    <3>1. PICK i \in 1 .. Len(s) : s[i] = x
      BY <2>3 DEF In
    <3>2. i \in 1 .. m \/ i \in m + 1 .. Len(s)
      BY <1>1, SMT
    <3> QED BY <1>3, <1>4, <3>1, <3>2 DEF In
  <2> QED BY <2>1, <2>2, <2>3
<1> QED BY <1>6, <1>7 DEF Line, Grown

\* The entries of a sequence that has shrunk.
LEMMA ShrunkIs ==
  ASSUME NEW h, NEW s, Line(h, s), NEW m, NEW t, Shrunk(t, s, m)
  PROVE  Line(h, t) /\ \A x : In(x, t) <=> (x # s[m] /\ In(x, s))
<1>1. Len(s) \in Nat /\ m \in Nat /\ m <= Len(s) /\ 1 <= m /\ Len(t) = Len(s) - 1 /\ m \in 1 .. Len(s)
  BY LenProperties, SMT DEF Line, Shrunk
<1>2. \A i \in 1 .. Len(t) : i \in 1 .. m - 1 \/ i \in m .. Len(t)
  BY <1>1, SMT
<1>3. \A i \in 1 .. m - 1 : i \in 1 .. Len(s) /\ i \in 1 .. Len(t) /\ i # m /\ t[i] = s[i]
  <2>1. \A i \in 1 .. m - 1 : i \in 1 .. Len(s) /\ i \in 1 .. Len(t) /\ i # m
    BY <1>1, SMT
  <2> QED BY <2>1 DEF Shrunk
<1>4. \A i \in m .. Len(t) : i + 1 \in 1 .. Len(s) /\ i \in 1 .. Len(t) /\ i + 1 # m /\ t[i] = s[i + 1]
  <2>1. \A i \in m .. Len(t) : i + 1 \in 1 .. Len(s) /\ i \in 1 .. Len(t) /\ i + 1 # m
    BY <1>1, SMT
  <2> QED BY <2>1 DEF Shrunk
<1>5. ASSUME NEW i \in 1 .. Len(t), NEW j \in 1 .. Len(t), t[i] = t[j] PROVE i = j
  <2>1. CASE i \in 1 .. m - 1 /\ j \in 1 .. m - 1
    BY <1>3, <1>5, <2>1 DEF Line
  <2>2. CASE i \in m .. Len(t) /\ j \in m .. Len(t)
    <3>1. i + 1 = j + 1
      BY <1>4, <1>5, <2>2 DEF Line
    <3> QED BY <1>1, <2>2, <3>1, SMT
  <2>3. ASSUME NEW x \in 1 .. m - 1, NEW y \in m .. Len(t) PROVE t[x] # t[y]
    <3>1. x # y + 1
      BY <1>1, SMT
    <3> QED BY <1>3, <1>4, <3>1 DEF Line
  <2> QED BY <1>2, <1>5, <2>1, <2>2, <2>3
<1>6. ASSUME NEW x PROVE In(x, t) <=> (x # s[m] /\ In(x, s))
  <2>1. ASSUME NEW i \in 1 .. Len(t), t[i] = x PROVE x # s[m] /\ In(x, s)
    BY <1>1, <1>2, <1>3, <1>4, <2>1 DEF In, Line
  <2>2. ASSUME NEW i \in 1 .. Len(s), s[i] = x, x # s[m] PROVE In(x, t)
    <3>1. i # m
      BY <2>2
    <3>2. CASE i \in 1 .. m - 1
      BY <1>3, <2>2, <3>2 DEF In
    <3>3. CASE i \notin 1 .. m - 1
      <4>1. i - 1 \in m .. Len(t) /\ (i - 1) + 1 = i
        BY <1>1, <3>1, <3>3, SMT
      <4> QED BY <1>4, <2>2, <4>1 DEF In
    <3> QED BY <3>2, <3>3
  <2> QED BY <2>1, <2>2 DEF In
<1> QED BY <1>5, <1>6 DEF Line, Shrunk

\* <<n>> \o s and Append put n before the first place and behind the last.
LEMMA AddsAre ==
  ASSUME NEW s \in Seq(Nodes), NEW n \in Nodes
  PROVE  Grown(<<n>> \o s, s, n, 0) /\ Grown(Append(s, n), s, n, Len(s))
<1>1. Len(s) \in Nat /\ <<n>> \in Seq(Nodes) /\ Len(<<n>>) = 1 /\ <<n>>[1] = n
  BY LenProperties
<1>2. Grown(<<n>> \o s, s, n, 0)
  <2> DEFINE u == <<n>> \o s
  <2>1. /\ u \in Seq(Nodes) /\ Len(u) = 1 + Len(s)
        /\ \A i \in 1 .. 1 + Len(s) : u[i] = IF i <= 1 THEN <<n>>[i] ELSE s[i - 1]
    BY <1>1, ConcatProperties
  <2> HIDE DEF u
  <2>2. Len(u) = Len(s) + 1 /\ 0 \in 0 .. Len(s) /\ u[0 + 1] = n /\ \A i \in 1 .. 0 : u[i] = s[i]
    BY <1>1, <2>1, SMT
  <2>3. ASSUME NEW i \in 0 + 1 .. Len(s) PROVE u[i + 1] = s[i]
    <3>1. i + 1 \in 1 .. 1 + Len(s) /\ ~(i + 1 <= 1) /\ (i + 1) - 1 = i
      BY <1>1, SMT
    <3> QED BY <2>1, <3>1
  <2>4. Grown(u, s, n, 0)
    BY <2>1, <2>2, <2>3 DEF Grown
  <2> QED BY <2>4 DEF u
<1>3. Grown(Append(s, n), s, n, Len(s))
  <2>1. \A i \in Len(s) + 1 .. Len(s) : FALSE
    BY <1>1, SMT
  <2>2. Len(s) \in 0 .. Len(s)
    BY <1>1, SMT
  <2> QED BY <2>1, <2>2, AppendProperties DEF Grown
<1> QED BY <1>2, <1>3

-----------------------------------------------------------------------------
(* The lists of list.h as sequences.                                        *)

\* What RemoveFirst does to a sequence without repetitions.
LEMMA Removed ==
  ASSUME NEW h, NEW s, Line(h, s), NEW n, NEW m \in 1 .. Len(s), s[m] = n
  PROVE  LET t == Lists!RemoveFirst(s, n)
         IN  /\ t \in Seq(Nodes) /\ Len(t) = Len(s) - 1
             /\ \A i \in 1 .. m - 1 : t[i] = s[i]
             /\ \A i \in m .. Len(t) : t[i] = s[i + 1]
<1> DEFINE I == {i \in 1 .. Len(s) : s[i] = n}
           x == SubSeq(s, 1, m - 1)
           y == SubSeq(s, m + 1, Len(s))
<1>1. Len(s) \in Nat /\ m \in Int /\ m - 1 \in Int /\ m + 1 \in Int /\ \A i \in 1 .. Len(s) : s[i] \in Nodes
  BY LenProperties, ElementOfSeq, SMT DEF Line
<1>2. I = {m}
  BY DEF Line
<1>3. Lists!Min(I) = m
  <2>1. m \in I /\ \A z \in I : m <= z
    BY <1>1, <1>2, SMT
  <2>2. \A z \in I : z = m
    BY <1>2
  <2> HIDE DEF I
  <2> QED BY <2>1, <2>2, Zenon DEF Lists!Min
<1>4. Lists!RemoveFirst(s, n) = x \o y
  <2>1. Lists!SelectInSeq(s, LAMBDA v : v = n) = m
    BY <1>2, <1>3 DEF Lists!SelectInSeq
  <2>2. \E i \in 1 .. Len(s) : s[i] = n
    OBVIOUS
  <2> QED BY <2>1, <2>2 DEF Lists!RemoveFirst, Lists!RemoveAt
<1>5. x \in Seq(Nodes) /\ Len(x) = m - 1 /\ \A i \in 1 .. m - 1 : x[i] = s[i]
  <2>1. \A i \in 1 .. m - 1 : s[i] \in Nodes
    BY <1>1, SMT
  <2>2. /\ x \in Seq(Nodes) /\ Len(x) = IF 1 <= m - 1 THEN (m - 1) - 1 + 1 ELSE 0
        /\ \A i \in 1 .. (m - 1) - 1 + 1 : x[i] = s[1 + i - 1]
    BY <1>1, <2>1, SubSeqProperties
  <2>3. (m - 1) - 1 + 1 = m - 1 /\ \A i \in 1 .. m - 1 : 1 + i - 1 = i
    BY <1>1, SMT
  <2>4. Len(x) = m - 1
    BY <1>1, <2>2, SMT
  <2> HIDE DEF x
  <2> QED BY <2>2, <2>3, <2>4
<1>6. y \in Seq(Nodes) /\ Len(y) = Len(s) - m /\ \A i \in 1 .. Len(s) - m : y[i] = s[m + i]
  <2>1. \A i \in m + 1 .. Len(s) : s[i] \in Nodes
    BY <1>1, SMT
  <2>2. /\ y \in Seq(Nodes) /\ Len(y) = IF m + 1 <= Len(s) THEN Len(s) - (m + 1) + 1 ELSE 0
        /\ \A i \in 1 .. Len(s) - (m + 1) + 1 : y[i] = s[(m + 1) + i - 1]
    BY <1>1, <2>1, SubSeqProperties
  <2>3. Len(s) - (m + 1) + 1 = Len(s) - m /\ \A i \in 1 .. Len(s) - m : (m + 1) + i - 1 = m + i
    BY <1>1, SMT
  <2>4. Len(y) = Len(s) - m
    BY <1>1, <2>2, SMT
  <2> HIDE DEF y
  <2> QED BY <2>2, <2>3, <2>4
<1> HIDE DEF x, y
<1>7. /\ x \o y \in Seq(Nodes) /\ Len(x \o y) = Len(s) - 1
      /\ \A i \in 1 .. Len(s) - 1 : (x \o y)[i] = IF i <= m - 1 THEN x[i] ELSE y[i - (m - 1)]
  <2>1. (m - 1) + (Len(s) - m) = Len(s) - 1
    BY <1>1, SMT
  <2>2. /\ x \o y \in Seq(Nodes) /\ Len(x \o y) = Len(x) + Len(y)
        /\ \A i \in 1 .. Len(x) + Len(y) : (x \o y)[i] = IF i <= Len(x) THEN x[i] ELSE y[i - Len(x)]
    BY <1>5, <1>6, ConcatProperties
  <2>3. Len(x) = m - 1 /\ Len(x) + Len(y) = Len(s) - 1
    BY <1>5, <1>6, <2>1
  <2> QED BY <2>2, <2>3
<1>8. ASSUME NEW i \in 1 .. m - 1 PROVE (x \o y)[i] = s[i]
  <2>1. i \in 1 .. Len(s) - 1 /\ i <= m - 1
    BY <1>1, SMT
  <2> QED BY <1>5, <1>7, <2>1
<1>9. ASSUME NEW i \in m .. Len(s) - 1 PROVE (x \o y)[i] = s[i + 1]
  <2>1. /\ i \in 1 .. Len(s) - 1 /\ ~(i <= m - 1) /\ i - (m - 1) \in 1 .. Len(s) - m
        /\ m + (i - (m - 1)) = i + 1
    BY <1>1, SMT
  <2> QED BY <1>6, <1>7, <2>1
<1> QED BY <1>4, <1>7, <1>8, <1>9

\* An entry that is not there is not removed.
LEMMA NotRemoved == ASSUME NEW s, NEW n, ~In(n, s) PROVE Lists!RemoveFirst(s, n) = s
BY DEF Lists!RemoveFirst, In

-----------------------------------------------------------------------------
(* What a walk of a ring meets.                                             *)

\* A function that is given by its first value and each one by the one before.
Walk(f, h, n) == CHOOSE w : w = [i \in 0 .. n |-> IF i = 0 THEN h ELSE f[w[i - 1]]]

\* So the walk is what its definition says.
LEMMA WalkChosen ==
  ASSUME NEW V, NEW f, \A x \in V : f[x] \in V, NEW h \in V, NEW n \in Nat
  PROVE  Walks(Walk(f, h, n), f, h, n)
<1> DEFINE G(u) == [i \in 0 .. n |-> IF i = 0 THEN h ELSE f[u[i - 1]]]
<1>1. PICK u \in [0 .. n -> V] : Walks(u, f, h, n)
  BY WalkExists
<1>2. u = G(u)
  <2>1. \A i \in 0 .. n : u[i] = G(u)[i]
    <3> SUFFICES ASSUME NEW i \in 0 .. n PROVE u[i] = G(u)[i]
      OBVIOUS
    <3>1. i # 0 => i \in 1 .. n
      BY SMT
    <3> QED BY <1>1, <3>1 DEF Walks
  <2> QED BY <2>1
<1> DEFINE w == Walk(f, h, n)
<1>3. w = CHOOSE x : x = G(x)
  BY DEF Walk
<1> HIDE DEF G, w
<1>4. w = G(w)
  BY <1>2, <1>3
<1>5. w[0] = h /\ \A i \in 1 .. n : w[i] = f[w[i - 1]]
  <2>1. 0 \in 0 .. n /\ \A i \in 1 .. n : i \in 0 .. n /\ i # 0
    BY SMT
  <2> QED BY <1>4, <2>1 DEF G
<1> QED BY <1>5 DEF Walks, w

\* A sequence without repetitions is no longer than there are entries.
LEMMA LineLength ==
  ASSUME NEW h, NEW s, Line(h, s), IsFiniteSet(Nodes)
  PROVE  Len(s) \in Nat /\ Cardinality(Nodes) \in Nat /\ Len(s) <= Cardinality(Nodes)
<1>1. Len(s) \in Nat /\ s \in [1 .. Len(s) -> Nodes]
  BY LenProperties DEF Line
<1>2. s \in Injection(1 .. Len(s), Nodes)
  BY <1>1 DEF Line, Injection, IsInjective
<1>3. Cardinality(1 .. Len(s)) <= Cardinality(Nodes)
  BY <1>2, FS_Injection
<1>4. Cardinality(1 .. Len(s)) = Len(s)
  BY <1>1, FS_Interval, SMT
<1> QED BY <1>1, <1>3, <1>4, FS_CardinalityType

\* A walk goes round the ring.
LEMMA WalkIsRing ==
  ASSUME NEW h, NEW s, Line(h, s), NEW p, Follows(p, h, s), NEW w, NEW n \in Nat, Walks(w, p.next, h, n),
         NEW m \in 0 .. n, m <= Len(s) + 1
  PROVE  w[m] = Spot(h, s, m)
<1>1. Len(s) \in Nat /\ m \in Nat
  BY LenProperties, SMT DEF Line
<1> DEFINE Q == {i \in 0 .. m : w[i] = Spot(h, s, i)}
<1>2. 0 \in Q
  BY <1>1, SMT DEF Walks, Spot
<1>3. ASSUME NEW i \in 1 .. m, i - 1 \in Q PROVE i \in Q
  <2>1. i \in 1 .. n /\ i - 1 \in 0 .. Len(s) /\ (i - 1) + 1 = i /\ i \in 0 .. m
    BY <1>1, SMT
  <2>2. p.next[Spot(h, s, i - 1)] = Spot(h, s, (i - 1) + 1)
    BY <2>1 DEF Follows
  <2> QED BY <1>3, <2>1, <2>2 DEF Walks
<1>4. Q \in SUBSET (0 .. m)
  OBVIOUS
<1> HIDE DEF Q
<1>5. Q = 0 .. m
  BY <1>1, <1>2, <1>3, <1>4, Stepwise
<1>6. m \in Q
  BY <1>1, <1>5, SMT
<1> QED BY <1>6 DEF Q

\* The steps of a walk that lead back to h.
Returns(back, w, h, n) == back = {i \in 1 .. n : w[i] = h}

\* The places where a walk is back at the head begin behind the last entry.
LEMMA WalkMeets ==
  ASSUME NEW h, NEW s, Line(h, s), NEW p, Follows(p, h, s), IsFiniteSet(Nodes),
         NEW w, Walks(w, p.next, h, Cardinality(Nodes) + 1),
         NEW back, Returns(back, w, h, Cardinality(Nodes) + 1)
  PROVE  back # {} /\ Min(back) - 1 = Len(s) /\ \A i \in 1 .. Len(s) : w[i] = s[i]
<1> DEFINE n == Cardinality(Nodes) + 1
<1> USE DEF Returns
<1>1. Len(s) \in Nat /\ Cardinality(Nodes) \in Nat /\ n \in Nat /\ Len(s) + 1 <= n /\ Len(s) + 1 \in 1 .. n
  BY LineLength, SMT
<1>2. Walks(w, p.next, h, n)
  OBVIOUS
<1>3. \A i \in 0 .. Len(s) + 1 : w[i] = Spot(h, s, i)
  <2> SUFFICES ASSUME NEW i \in 0 .. Len(s) + 1 PROVE w[i] = Spot(h, s, i)
    OBVIOUS
  <2>1. i \in 0 .. n /\ i <= Len(s) + 1
    BY <1>1, SMT
  <2> HIDE DEF n
  <2> QED BY <1>1, <1>2, <2>1, WalkIsRing
<1>4. w[Len(s) + 1] = h /\ \A i \in 1 .. Len(s) : w[i] = s[i] /\ s[i] # h
  <2>1. Len(s) + 1 \in 0 .. Len(s) + 1 /\ Len(s) + 1 \notin 1 .. Len(s)
    BY <1>1, SMT
  <2>2. \A i \in 1 .. Len(s) : i \in 0 .. Len(s) + 1 /\ s[i] \in Nodes
    BY <1>1, ElementOfSeq, SMT DEF Line
  <2> QED BY <1>3, <2>1, <2>2 DEF Spot, Line
<1>5. Len(s) + 1 \in back /\ \A y \in back : Len(s) + 1 <= y
  <2>1. Len(s) + 1 \in back
    BY <1>1, <1>4
  <2>2. ASSUME NEW y \in back PROVE Len(s) + 1 <= y
    <3>1. y \in 1 .. n /\ w[y] = h
      OBVIOUS
    <3>2. y \notin 1 .. Len(s)
      BY <1>4, <3>1
    <3> QED BY <1>1, <3>1, <3>2, SMT
  <2> QED BY <2>1, <2>2
<1>6. back \in SUBSET Nat
  BY <1>1, SMT
<1>7. Min(back) = Len(s) + 1
  <2>1. \A x \in back : (\A y \in back : x <= y) => x = Len(s) + 1
    BY <1>1, <1>5, <1>6, SMT
  <2> QED BY <1>5, <2>1, Zenon DEF Min
<1>9. (Len(s) + 1) - 1 = Len(s)
  BY <1>1, SMT
<1> QED BY <1>4, <1>5, <1>7, <1>9

\* The Contents of any pointers f.
ContentsOf(f, h) ==
  LET N == Cardinality(Nodes)
      back == {i \in 1 .. N + 1 : Walk(f, h, N + 1)[i] = h}
  IN  IF back # {} THEN [i \in 1 .. Min(back) - 1 |-> Walk(f, h, N + 1)[i]] ELSE <<>>

\* It is the sequence a ring follows.
LEMMA ContentsIs ==
  ASSUME IsFiniteSet(Nodes), NEW h, NEW s, Line(h, s), NEW p, Follows(p, h, s), NEW Q, h \in Q,
         \A x \in Q : p.next[x] \in Q
  PROVE  ContentsOf(p.next, h) = s
<1> DEFINE N == Cardinality(Nodes)
           w == Walk(p.next, h, N + 1)
           back == {i \in 1 .. N + 1 : w[i] = h}
<1>1. ContentsOf(p.next, h) = IF back # {} THEN [i \in 1 .. Min(back) - 1 |-> w[i]] ELSE <<>>
  BY DEF ContentsOf
<1>2. IsFiniteSet(Nodes) /\ N + 1 \in Nat
  BY LineLength, SMT
<1>3. Walks(w, p.next, h, N + 1)
  <2> HIDE DEF N
  <2> QED BY <1>2, WalkChosen
<1> HIDE DEF w, back
<1>4. back # {} /\ Min(back) - 1 = Len(s) /\ \A i \in 1 .. Len(s) : w[i] = s[i]
  <2>1. Walks(w, p.next, h, Cardinality(Nodes) + 1) /\ IsFiniteSet(Nodes)
    BY <1>2, <1>3
  <2>2. Returns(back, w, h, Cardinality(Nodes) + 1)
    BY DEF back, Returns
  <2> HIDE DEF N
  <2> QED BY <2>1, <2>2, WalkMeets
<1>5. [i \in 1 .. Len(s) |-> w[i]] = s
  <2>1. s \in [1 .. Len(s) -> Nodes]
    BY LenProperties DEF Line
  <2> QED BY <1>4, <2>1
<1> QED BY <1>1, <1>4, <1>5

\* What Contents says of the lists that may be used.
LEMMA ContentsAre ==
  /\ \A h \in Heads : Contents(h) = IF h \in ready THEN ContentsOf(l.next, h) ELSE <<>>
  /\ \A h \in Heads : Contents(h)' = IF h \in ready' THEN ContentsOf(l'.next, h) ELSE <<>>
BY DEF Contents, ContentsOf, Walk

\* The ready rings follow the sequences of c, which hold the entries that are
\* on the lists.
Threaded(c, p, o, r) ==
  /\ c = [h \in Heads |-> c[h]]
  /\ \A h \in Heads : /\ Line(h, c[h])
                      /\ h \in r => Follows(p, h, c[h])
                      /\ h \notin r => c[h] = <<>>
  /\ \A h \in Heads, n \in Nodes : In(n, c[h]) <=> o[n] = h

\* Pointers of entries on no list, or of unready heads, are nobody's.
LEMMA ThreadsStay ==
  ASSUME NEW c, NEW p, NEW q, NEW o, NEW r, Threaded(c, p, o, r),
         \A h \in r : p.next[h] = q.next[h] /\ p.prev[h] = q.prev[h],
         \A n \in Nodes : o[n] # NULL => p.next[n] = q.next[n] /\ p.prev[n] = q.prev[n]
  PROVE  Threaded(c, q, o, r)
<1> SUFFICES ASSUME NEW h \in Heads, h \in r PROVE Follows(q, h, c[h])
  BY DEF Threaded
<1>1. Line(h, c[h]) /\ Follows(p, h, c[h]) /\ h # NULL
  BY KListAssumption DEF Threaded, KListAssumption, Objects
<1>2. \A n \in Nodes : In(n, c[h]) => p.next[n] = q.next[n] /\ p.prev[n] = q.prev[n]
  BY <1>1 DEF Threaded
<1> QED BY <1>1, <1>2, RingStays

\* The pointers of a record of functions.
LEMMA FieldsPoint == ASSUME NEW p \in Fields PROVE Pointers(p, Objects)
BY DEF Fields, Pointers

\* The head and the entries of a list are objects.
LEMMA SpotObject ==
  ASSUME NEW h \in Heads, NEW s, Line(h, s), NEW i \in Nat
  PROVE  Spot(h, s, i) \in Objects /\ (Spot(h, s, i) = h \/ (Spot(h, s, i) \in Nodes /\ In(Spot(h, s, i), s)))
BY SpotsAre DEF Objects

\* What is left alone by the two operations.
LEMMA InsertTouches ==
  ASSUME NEW p \in Fields, NEW n, NEW b, NEW a, NEW x \in Objects, x # n, x # b, x # a
  PROVE  /\ InsertBetween(p, n, b, a).next[x] = p.next[x]
         /\ InsertBetween(p, n, b, a).prev[x] = p.prev[x]
BY DEF InsertBetween, Fields

\* __list_del writes to the two neighbours only.
LEMMA UnlinkTouches ==
  ASSUME NEW p \in Fields, NEW n, NEW b, NEW a, p.prev[n] = b, p.next[n] = a, NEW x \in Objects, x # b, x # a
  PROVE  Unlink(p, n).next[x] = p.next[x] /\ Unlink(p, n).prev[x] = p.prev[x]
BY DEF Unlink, Fields

\* __list_add at place m of a list: its sequence grows there.
LEMMA InsertThreads ==
  ASSUME NEW p \in Fields, NEW r \in SUBSET Heads, NEW c, NEW o \in [Nodes -> Heads \cup {NULL}],
         Threaded(c, p, o, r), NEW n \in Nodes, o[n] = NULL, NEW h \in r,
         NEW m, NEW t, Grown(t, c[h], n, m), NEW b, NEW a,
         b = Spot(h, c[h], m), a = Spot(h, c[h], m + 1)
  PROVE  Threaded([c EXCEPT ![h] = t], InsertBetween(p, n, b, a), [o EXCEPT ![n] = h], r)
<1> DEFINE q == InsertBetween(p, n, b, a)
           d == [c EXCEPT ![h] = t]
           s == c[h]
<1>1. h \in Heads /\ Line(h, s) /\ Follows(p, h, s) /\ ~In(n, s) /\ h # NULL
  BY KListAssumption DEF Threaded, KListAssumption, Objects
<1>2. Line(h, t) /\ \A x : In(x, t) <=> (x = n \/ In(x, s))
  BY <1>1, GrownIs
<1>3. Len(s) \in Nat /\ m \in Nat /\ m + 1 \in Nat /\ m \in 0 .. Len(s)
  BY <1>1, LenProperties, SMT DEF Line, Grown
<1>4. (a = h \/ (a \in Nodes /\ In(a, s))) /\ (b = h \/ (b \in Nodes /\ In(b, s)))
  BY <1>1, <1>3, SpotObject
<1>5. Follows(q, h, t)
  <2>1. Pointers(p, Objects) /\ h \in Objects /\ n \in Objects
    BY <1>1, FieldsPoint DEF Objects
  <2>2. \A i \in 1 .. Len(s) : s[i] \in Objects
    BY <1>1, ElementOfSeq DEF Line, Objects
  <2> HIDE DEF s, q, d
  <2>3. Follows(InsertBetween(p, n, Spot(h, s, m), Spot(h, s, m + 1)), h, t)
    BY <1>1, <1>2, <1>3, <2>1, <2>2, RingGrows DEF Grown, s
  <2> QED BY <2>3 DEF q, s
<1>6. ASSUME NEW g \in Heads, g # h PROVE g \in r => Follows(q, g, c[g])
  <2>1. Line(g, c[g]) /\ g \notin Nodes /\ g # n /\ g # a /\ g # b
    BY <1>1, <1>4, <1>6, KListAssumption DEF Threaded, KListAssumption, Line
  <2>2. q.next[g] = p.next[g] /\ q.prev[g] = p.prev[g]
    BY <2>1, InsertTouches DEF Objects
  <2>3. ASSUME NEW x \in Nodes, In(x, c[g]) PROVE q.next[x] = p.next[x] /\ q.prev[x] = p.prev[x]
    <3>1. o[x] = g
      BY <2>3 DEF Threaded
    <3>2. ~In(x, s) /\ x # n /\ x # h
      BY <1>1, <1>6, <3>1, KListAssumption DEF Threaded, Line, KListAssumption, Objects
    <3>3. x # a /\ x # b
      BY <1>4, <3>2
    <3> QED BY <3>2, <3>3, InsertTouches DEF Objects
  <2> HIDE DEF q
  <2> QED BY <2>1, <2>2, <2>3, RingStays DEF Threaded
<1>7. d = [g \in Heads |-> d[g]] /\ d[h] = t /\ \A g \in Heads : g # h => d[g] = c[g]
  BY <1>1 DEF Threaded
<1> HIDE DEF d, q
<1>8. ASSUME NEW g \in Heads
      PROVE  Line(g, d[g]) /\ (g \in r => Follows(q, g, d[g])) /\ (g \notin r => d[g] = <<>>)
  BY <1>2, <1>5, <1>6, <1>7 DEF Threaded
<1>9. ASSUME NEW g \in Heads, NEW x \in Nodes PROVE In(x, d[g]) <=> [o EXCEPT ![n] = h][x] = g
  <2>1. [o EXCEPT ![n] = h][x] = IF x = n THEN h ELSE o[x]
    OBVIOUS
  <2>2. In(x, c[g]) <=> o[x] = g
    BY DEF Threaded
  <2>3. g # NULL
    BY KListAssumption DEF KListAssumption, Objects
  <2> QED BY <1>2, <1>7, <2>1, <2>2, <2>3
<1> QED BY <1>7, <1>8, <1>9 DEF Threaded, d, q

\* An entry is taken out of the list it is on.
LEMMA UnlinkThreads ==
  ASSUME NEW p \in Fields, NEW r \in SUBSET Heads, NEW c, NEW o \in [Nodes -> Heads \cup {NULL}],
         Threaded(c, p, o, r), NEW n \in Nodes, NEW h \in r, o[n] = h,
         NEW m, NEW t, Shrunk(t, c[h], m), c[h][m] = n
  PROVE  Threaded([c EXCEPT ![h] = t], Unlink(p, n), [o EXCEPT ![n] = NULL], r)
<1> DEFINE q == Unlink(p, n)
           d == [c EXCEPT ![h] = t]
           s == c[h]
<1>1. h \in Heads /\ Line(h, s) /\ Follows(p, h, s) /\ h # NULL
  BY KListAssumption DEF Threaded, KListAssumption, Objects
<1>2. Line(h, t) /\ \A x : In(x, t) <=> (x # n /\ In(x, s))
  BY <1>1, ShrunkIs
<1>3. Len(s) \in Nat /\ m \in Nat /\ m + 1 \in Nat /\ m - 1 \in Nat /\ (m - 1) + 1 = m
      /\ m \in 1 .. Len(s) /\ m \in 0 .. Len(s) /\ m - 1 \in 0 .. Len(s)
  BY <1>1, LenProperties, SMT DEF Line, Shrunk
<1>4. PICK a, b : a = Spot(h, s, m + 1) /\ b = Spot(h, s, m - 1)
  OBVIOUS
<1>5. (a = h \/ (a \in Nodes /\ In(a, s))) /\ (b = h \/ (b \in Nodes /\ In(b, s)))
  BY <1>1, <1>3, <1>4, SpotObject
<1>6. p.next[n] = a /\ p.prev[n] = b
  <2>1. Spot(h, s, m) = n
    BY <1>3 DEF Spot
  <2>2. p.next[Spot(h, s, m)] = Spot(h, s, m + 1) /\ p.prev[Spot(h, s, (m - 1) + 1)] = Spot(h, s, m - 1)
    BY <1>1, <1>3 DEF Follows
  <2> HIDE DEF s
  <2> QED BY <1>3, <1>4, <2>1, <2>2
<1>7. Follows(q, h, t)
  <2>1. Pointers(p, Objects) /\ h \in Objects
    BY <1>1, FieldsPoint DEF Objects
  <2>2. \A i \in 1 .. Len(s) : s[i] \in Objects
    BY <1>1, ElementOfSeq DEF Line, Objects
  <2>3. Shrunk(t, s, m) /\ s[m] = n
    OBVIOUS
  <2> HIDE DEF s, q, d
  <2>4. Follows(Unlink(p, s[m]), h, t)
    BY <1>1, <1>2, <1>3, <2>1, <2>2, <2>3, RingShrinks DEF Shrunk
  <2> QED BY <2>3, <2>4 DEF q
<1>8. ASSUME NEW g \in Heads, g # h PROVE g \in r => Follows(q, g, c[g])
  <2>1. Line(g, c[g]) /\ g # a /\ g # b
    BY <1>1, <1>5, <1>8, KListAssumption DEF Threaded, KListAssumption, Line
  <2>2. q.next[g] = p.next[g] /\ q.prev[g] = p.prev[g]
    BY <1>6, <2>1, UnlinkTouches DEF Objects
  <2>3. ASSUME NEW x \in Nodes, In(x, c[g]) PROVE q.next[x] = p.next[x] /\ q.prev[x] = p.prev[x]
    <3>1. o[x] = g
      BY <2>3 DEF Threaded
    <3>2. ~In(x, s) /\ x # h
      BY <1>1, <1>8, <3>1, KListAssumption DEF Threaded, Line, KListAssumption, Objects
    <3>3. x # a /\ x # b
      BY <1>5, <3>2
    <3> QED BY <1>6, <3>3, UnlinkTouches DEF Objects
  <2> HIDE DEF q
  <2> QED BY <2>1, <2>2, <2>3, RingStays DEF Threaded
<1>9. d = [g \in Heads |-> d[g]] /\ d[h] = t /\ \A g \in Heads : g # h => d[g] = c[g]
  BY <1>1 DEF Threaded
<1> HIDE DEF d, q
<1>10. ASSUME NEW g \in Heads
       PROVE  Line(g, d[g]) /\ (g \in r => Follows(q, g, d[g])) /\ (g \notin r => d[g] = <<>>)
  BY <1>2, <1>7, <1>8, <1>9 DEF Threaded
<1>11. ASSUME NEW g \in Heads, NEW x \in Nodes PROVE In(x, d[g]) <=> [o EXCEPT ![n] = NULL][x] = g
  <2>1. [o EXCEPT ![n] = NULL][x] = IF x = n THEN NULL ELSE o[x]
    OBVIOUS
  <2>2. In(x, c[g]) <=> o[x] = g
    BY DEF Threaded
  <2>3. g # NULL
    BY KListAssumption DEF KListAssumption, Objects
  <2> QED BY <1>2, <1>9, <2>1, <2>2, <2>3
<1> QED BY <1>9, <1>10, <1>11 DEF Threaded, d, q

\* n is taken out, whichever list it is on, or alone.
LEMMA DropThreads ==
  ASSUME NEW p \in Fields, NEW r \in SUBSET Heads, NEW c, NEW o \in [Nodes -> Heads \cup {NULL}],
         Threaded(c, p, o, r), NEW n \in Nodes,
         \/ o[n] \in r
         \/ o[n] = NULL /\ p.next[n] = n /\ p.prev[n] = n
  PROVE  Threaded(Lists!Drop(c, n), Unlink(p, n), [o EXCEPT ![n] = NULL], r)
<1>1. \A h \in Heads : h # NULL /\ h \notin Nodes
  BY KListAssumption DEF KListAssumption, Objects
<1>2. c = [h \in Heads |-> c[h]]
  BY DEF Threaded
<1>3. CASE o[n] \in r
  <2>1. PICK h \in r : o[n] = h
    BY <1>3
  <2>2. h \in Heads /\ Line(h, c[h]) /\ In(n, c[h])
    BY <2>1 DEF Threaded
  <2>3. PICK m \in 1 .. Len(c[h]) : c[h][m] = n
    BY <2>2 DEF In
  <2>4. PICK t : t = Lists!RemoveFirst(c[h], n)
    OBVIOUS
  <2>5. Shrunk(t, c[h], m)
    BY <2>2, <2>3, <2>4, Removed DEF Shrunk
  <2>6. Threaded([c EXCEPT ![h] = t], Unlink(p, n), [o EXCEPT ![n] = NULL], r)
    BY <2>1, <2>3, <2>5, UnlinkThreads
  <2>7. Lists!Drop(c, n) = [c EXCEPT ![h] = t]
    <3>1. \A g \in Heads : g # h => Lists!RemoveFirst(c[g], n) = c[g]
      BY <1>1, <2>1, NotRemoved DEF Threaded
    <3>2. Lists!Drop(c, n) = [g \in Heads |-> Lists!RemoveFirst(c[g], n)]
      BY DEF Lists!Drop
    <3>3. DOMAIN c = Heads
      BY <1>2
    <3> QED BY <1>2, <2>2, <2>4, <3>1, <3>2, <3>3
  <2> QED BY <2>6, <2>7
<1>4. CASE o[n] = NULL /\ p.next[n] = n /\ p.prev[n] = n
  <2>1. \A g \in Heads : Lists!RemoveFirst(c[g], n) = c[g]
    BY <1>1, <1>4, NotRemoved DEF Threaded
  <2>2. Lists!Drop(c, n) = c
    <3>1. Lists!Drop(c, n) = [g \in Heads |-> Lists!RemoveFirst(c[g], n)]
      BY DEF Lists!Drop
    <3> QED BY <1>2, <2>1, <3>1
  <2>3. [o EXCEPT ![n] = NULL] = o
    BY <1>4
  <2>4. \A x \in Objects : x # n => Unlink(p, n).next[x] = p.next[x] /\ Unlink(p, n).prev[x] = p.prev[x]
    BY <1>4, UnlinkTouches
  <2>5. Threaded(c, Unlink(p, n), o, r)
    <3>1. /\ \A h \in r : p.next[h] = Unlink(p, n).next[h] /\ p.prev[h] = Unlink(p, n).prev[h]
          /\ \A x \in Nodes : o[x] # NULL => p.next[x] = Unlink(p, n).next[x] /\ p.prev[x] = Unlink(p, n).prev[x]
      BY <1>1, <1>4, <2>4 DEF Objects
    <3> QED BY <3>1, ThreadsStay
  <2> QED BY <2>2, <2>3, <2>5
<1> QED BY <1>3, <1>4

\* n goes to the front or to the back of h.
LEMMA PutThreads ==
  ASSUME NEW p \in Fields, NEW r \in SUBSET Heads, NEW c, NEW o \in [Nodes -> Heads \cup {NULL}],
         Threaded(c, p, o, r), NEW n \in Nodes, o[n] = NULL, NEW h \in r
  PROVE  /\ Threaded([c EXCEPT ![h] = <<n>> \o @], ListAdd(p, n, h), [o EXCEPT ![n] = h], r)
         /\ Threaded([c EXCEPT ![h] = Append(@, n)], ListAddTail(p, n, h), [o EXCEPT ![n] = h], r)
<1>1. Line(h, c[h]) /\ Follows(p, h, c[h]) /\ c[h] \in Seq(Nodes)
  BY DEF Threaded, Line
<1>2. /\ Len(c[h]) \in Nat /\ Spot(h, c[h], 0) = h /\ Spot(h, c[h], Len(c[h]) + 1) = h
      /\ p.next[h] = Spot(h, c[h], 0 + 1) /\ p.prev[h] = Spot(h, c[h], Len(c[h]))
  BY <1>1, EndsAre
<1>3. Grown(<<n>> \o c[h], c[h], n, 0) /\ Grown(Append(c[h], n), c[h], n, Len(c[h]))
  BY <1>1, AddsAre
<1>4. ListAdd(p, n, h) = InsertBetween(p, n, h, p.next[h])
  BY DEF ListAdd
<1>5. ListAddTail(p, n, h) = InsertBetween(p, n, p.prev[h], h)
  BY DEF ListAddTail
<1>6. Threaded([c EXCEPT ![h] = <<n>> \o c[h]], InsertBetween(p, n, h, p.next[h]), [o EXCEPT ![n] = h], r)
  <2>1. PICK t, m : t = <<n>> \o c[h] /\ m = 0
    OBVIOUS
  <2>2. Grown(t, c[h], n, m) /\ h = Spot(h, c[h], m) /\ p.next[h] = Spot(h, c[h], m + 1)
    BY <1>2, <1>3, <2>1
  <2>3. Threaded([c EXCEPT ![h] = t], InsertBetween(p, n, h, p.next[h]), [o EXCEPT ![n] = h], r)
    BY <2>2, InsertThreads
  <2> QED BY <2>1, <2>3
<1>7. Threaded([c EXCEPT ![h] = Append(c[h], n)], InsertBetween(p, n, p.prev[h], h), [o EXCEPT ![n] = h], r)
  <2>1. PICK t, m : t = Append(c[h], n) /\ m = Len(c[h])
    OBVIOUS
  <2>2. Grown(t, c[h], n, m) /\ p.prev[h] = Spot(h, c[h], m) /\ h = Spot(h, c[h], m + 1)
    BY <1>2, <1>3, <2>1
  <2>3. Threaded([c EXCEPT ![h] = t], InsertBetween(p, n, p.prev[h], h), [o EXCEPT ![n] = h], r)
    BY <2>2, InsertThreads
  <2> QED BY <2>1, <2>3
<1> QED BY <1>4, <1>5, <1>6, <1>7

\* A head that holds nothing is made ready.
LEMMA HeadThreads ==
  ASSUME NEW p \in Fields, NEW r \in SUBSET Heads, NEW c, NEW o, Threaded(c, p, o, r),
         NEW h \in Heads, c[h] = <<>>
  PROVE  Threaded(c, InitListHead(p, h), o, r \cup {h})
<1> DEFINE q == InitListHead(p, h)
<1>1. q.next[h] = h /\ q.prev[h] = h /\ \A x \in Objects : x # h => q.next[x] = p.next[x] /\ q.prev[x] = p.prev[x]
  BY DEF InitListHead, Fields, Objects
<1> HIDE DEF q
<1>2. \A g \in Heads : Line(g, c[g]) /\ g \in Objects /\ g \notin Nodes
  BY DEF Threaded, Line, Objects
<1>3. Follows(q, h, <<>>)
  <2> SUFFICES ASSUME NEW i \in 0 .. Len(<<>>)
               PROVE  q.next[Spot(h, <<>>, i)] = Spot(h, <<>>, i + 1) /\ q.prev[Spot(h, <<>>, i + 1)] = Spot(h, <<>>, i)
    BY DEF Follows
  <2>1. \A j : Spot(h, <<>>, j) = h
    <3>1. Len(<<>>) = 0 /\ \A j \in 1 .. 0 : FALSE
      BY EmptySeq, SMT
    <3> QED BY <3>1 DEF Spot
  <2> QED BY <1>1, <2>1
<1>4. ASSUME NEW g \in r, g # h PROVE Follows(q, g, c[g])
  <2>1. q.next[g] = p.next[g] /\ q.prev[g] = p.prev[g]
    BY <1>1, <1>2, <1>4
  <2>2. \A x \in Nodes : q.next[x] = p.next[x] /\ q.prev[x] = p.prev[x]
    BY <1>1, <1>2 DEF Objects
  <2>3. Line(g, c[g]) /\ Follows(p, g, c[g])
    BY <1>2 DEF Threaded
  <2> QED BY <2>1, <2>2, <2>3, RingStays
<1>5. \A g \in Heads : /\ Line(g, c[g])
                       /\ g \in r \cup {h} => Follows(q, g, c[g])
                       /\ g \notin r \cup {h} => c[g] = <<>>
  BY <1>2, <1>3, <1>4 DEF Threaded
<1>6. Threaded(c, q, o, r \cup {h})
  BY <1>5 DEF Threaded
<1> QED BY <1>6 DEF q

\* The sequence of an empty list is empty.
LEMMA EmptyIs ==
  ASSUME NEW h, NEW s, Line(h, s), NEW p, Follows(p, h, s)
  PROVE  /\ p.next[h] = h <=> s = <<>>
         /\ p.next[h] = h => p.prev[h] = h
<1>1. Len(s) \in Nat /\ p.next[h] = Spot(h, s, 0 + 1) /\ p.prev[h] = Spot(h, s, Len(s)) /\ Spot(h, s, 0) = h
  BY EndsAre
<1>2. CASE Len(s) = 0
  <2>1. s = <<>>
    BY <1>2, EmptySeq DEF Line
  <2>2. Spot(h, s, 0 + 1) = h
    BY <1>2, SMT DEF Spot
  <2> QED BY <1>1, <1>2, <2>1, <2>2
<1>3. CASE Len(s) # 0
  <2>1. 0 + 1 \in 1 .. Len(s) /\ 0 + 1 \in Nat
    BY <1>1, <1>3, SMT
  <2>2. Spot(h, s, 0 + 1) # h
    BY <2>1, SpotsAre
  <2>3. s # <<>>
    BY <1>3, EmptySeq
  <2> QED BY <1>1, <2>2, <2>3
<1> QED BY <1>2, <1>3

\* Who is on which list once the entries of g are on h.
Moved(o, g, h) == [n \in Nodes |-> IF o[n] = g THEN h ELSE o[n]]

\* __list_splice of a list that is not empty: one sequence before the other.
LEMMA SpliceThreads ==
  ASSUME NEW p \in Fields, NEW r \in SUBSET Heads, NEW c, NEW o \in [Nodes -> Heads \cup {NULL}],
         Threaded(c, p, o, r), NEW g \in r, NEW h \in r, g # h, c[g] # <<>>
  PROVE  Threaded([c EXCEPT ![h] = c[g] \o @, ![g] = <<>>], SpliceIn(p, g, h), Moved(o, g, h), r \ {g})
<1> DEFINE q == SpliceIn(p, g, h)
           d == [c EXCEPT ![h] = c[g] \o @, ![g] = <<>>]
<1>1. PICK s, t : s = c[g] /\ t = c[h]
  OBVIOUS
<1>2. /\ Line(g, s) /\ Follows(p, g, s) /\ Line(h, t) /\ Follows(p, h, t) /\ s # <<>>
      /\ g \in Heads /\ h \in Heads /\ g \in Objects /\ h \in Objects /\ h \notin Nodes /\ g \notin Nodes
      /\ s \in Seq(Nodes) /\ t \in Seq(Nodes)
  BY <1>1 DEF Threaded, Line, Objects
<1>3. \A x \in Nodes : ~(In(x, s) /\ In(x, t))
  BY <1>1, <1>2 DEF Threaded
<1>4. Len(s) \in Nat /\ Len(t) \in Nat /\ \A i \in 1 .. Len(s) : s[i] \in Nodes /\ s[i] \in Objects
  BY <1>2, LenProperties, ElementOfSeq DEF Objects
<1>5. \A i \in 1 .. Len(t) : t[i] \in Nodes /\ t[i] \in Objects
  BY <1>2, ElementOfSeq DEF Objects
<1>6. Line(h, s \o t) /\ Follows(q, h, s \o t)
  <2>1. Pointers(p, Objects)
    BY FieldsPoint
  <2>2. \A i \in 1 .. Len(s), j \in 1 .. Len(t) : s[i] # t[j]
    BY <1>3, <1>4 DEF In
  <2> QED BY <1>2, <1>4, <1>5, <2>1, <2>2, RingsJoin
<1>7. \A x : In(x, s \o t) <=> (In(x, s) \/ In(x, t))
  <2>1. /\ Len(s \o t) = Len(s) + Len(t)
        /\ \A i \in 1 .. Len(s) + Len(t) : (s \o t)[i] = IF i <= Len(s) THEN s[i] ELSE t[i - Len(s)]
    BY <1>2, ConcatProperties
  <2>2. ASSUME NEW i \in 1 .. Len(s) + Len(t) PROVE In((s \o t)[i], s) \/ In((s \o t)[i], t)
    <3>1. CASE i <= Len(s)
      <4>1. i \in 1 .. Len(s)
        BY <1>4, <3>1, SMT
      <4> QED BY <2>1, <3>1, <4>1 DEF In
    <3>2. CASE ~(i <= Len(s))
      <4>1. i - Len(s) \in 1 .. Len(t)
        BY <1>4, <3>2, SMT
      <4> QED BY <2>1, <3>2, <4>1 DEF In
    <3> QED BY <3>1, <3>2
  <2>3. ASSUME NEW i \in 1 .. Len(s) PROVE In(s[i], s \o t)
    <3>1. i \in 1 .. Len(s) + Len(t) /\ i <= Len(s)
      BY <1>4, SMT
    <3> QED BY <2>1, <3>1 DEF In
  <2>4. ASSUME NEW i \in 1 .. Len(t) PROVE In(t[i], s \o t)
    <3>1. Len(s) + i \in 1 .. Len(s) + Len(t) /\ ~(Len(s) + i <= Len(s)) /\ (Len(s) + i) - Len(s) = i
      BY <1>4, SMT
    <3>2. (s \o t)[Len(s) + i] = t[i]
      BY <2>1, <3>1
    <3> QED BY <2>1, <3>1, <3>2 DEF In
  <2>5. ASSUME NEW x, In(x, s \o t) PROVE In(x, s) \/ In(x, t)
    <3>1. PICK i \in 1 .. Len(s \o t) : (s \o t)[i] = x
      BY <2>5 DEF In
    <3> QED BY <2>1, <2>2, <3>1
  <2>6. ASSUME NEW x, In(x, s) PROVE In(x, s \o t)
    BY <2>3, <2>6 DEF In
  <2>7. ASSUME NEW x, In(x, t) PROVE In(x, s \o t)
    BY <2>4, <2>7 DEF In
  <2> QED BY <2>5, <2>6, <2>7
<1>8. /\ p.next[g] \in Nodes /\ In(p.next[g], s) /\ p.prev[g] \in Nodes /\ In(p.prev[g], s)
      /\ (p.next[h] = h \/ (p.next[h] \in Nodes /\ In(p.next[h], t)))
  <2>1. /\ p.next[g] = Spot(g, s, 0 + 1) /\ p.prev[g] = Spot(g, s, Len(s))
        /\ p.next[h] = Spot(h, t, 0 + 1)
    BY <1>2, EndsAre
  <2>2. Len(s) # 0
    BY <1>2, EmptySeq
  <2>3. 0 + 1 \in 1 .. Len(s) /\ Len(s) \in 1 .. Len(s) /\ 0 + 1 \in Nat
    BY <1>4, <2>2, SMT
  <2>4. p.next[g] = s[0 + 1] /\ p.prev[g] = s[Len(s)]
    BY <2>1, <2>3 DEF Spot
  <2>5. p.next[h] = h \/ (p.next[h] \in Nodes /\ In(p.next[h], t))
    BY <1>2, <2>1, <2>3, SpotsAre
  <2> QED BY <1>4, <2>3, <2>4, <2>5 DEF In
<1>9. ASSUME NEW x \in Objects, x # g, x # h, ~In(x, s), ~In(x, t)
      PROVE  q.next[x] = p.next[x] /\ q.prev[x] = p.prev[x]
  <2>1. x # p.next[g] /\ x # p.prev[g] /\ x # p.next[h]
    BY <1>8, <1>9
  <2> QED BY <1>9, <2>1 DEF SpliceIn, Fields
<1> HIDE DEF q
<1>10. ASSUME NEW e \in Heads, e # g, e # h PROVE e \in r => Follows(q, e, c[e])
  <2>1. Line(e, c[e]) /\ e \in Objects /\ ~In(e, s) /\ ~In(e, t)
    BY <1>4, <1>5 DEF Threaded, Line, In, Objects
  <2>2. q.next[e] = p.next[e] /\ q.prev[e] = p.prev[e]
    BY <1>9, <1>10, <2>1
  <2>3. ASSUME NEW x \in Nodes, In(x, c[e]) PROVE q.next[x] = p.next[x] /\ q.prev[x] = p.prev[x]
    <3>1. o[x] = e
      BY <2>3 DEF Threaded
    <3>2. ~In(x, s) /\ ~In(x, t) /\ x # g /\ x # h /\ x \in Objects
      BY <1>1, <1>2, <1>10, <3>1 DEF Threaded, Objects
    <3> QED BY <1>9, <3>2
  <2> QED BY <2>1, <2>2, <2>3, RingStays DEF Threaded
<1>11. d = [e \in Heads |-> d[e]] /\ d[h] = s \o t /\ d[g] = <<>> /\ \A e \in Heads : e # h /\ e # g => d[e] = c[e]
  <2>1. c = [e \in Heads |-> c[e]]
    BY DEF Threaded
  <2>2. PICK u : u = s \o t
    OBVIOUS
  <2>3. d = [[c EXCEPT ![h] = u] EXCEPT ![g] = <<>>]
    BY <1>1, <2>2
  <2> HIDE DEF d
  <2> QED BY <1>2, <2>1, <2>2, <2>3
<1> HIDE DEF d
<1>12. Line(g, <<>>) /\ \A x : ~In(x, <<>>)
  <2>1. Len(<<>>) = 0 /\ <<>> \in Seq(Nodes) /\ \A i \in 1 .. 0 : FALSE
    BY EmptySeq, SMT
  <2> QED BY <1>2, <2>1 DEF Line, In
<1>13. ASSUME NEW e \in Heads
       PROVE  Line(e, d[e]) /\ (e \in r \ {g} => Follows(q, e, d[e])) /\ (e \notin r \ {g} => d[e] = <<>>)
  <2>1. CASE e = h
    BY <1>6, <1>11, <2>1
  <2>2. CASE e = g
    BY <1>11, <1>12, <2>2
  <2>3. CASE e # h /\ e # g
    <3>1. Line(e, c[e]) /\ (e \notin r => c[e] = <<>>)
      BY DEF Threaded
    <3> QED BY <1>10, <1>11, <2>3, <3>1
  <2> QED BY <2>1, <2>2, <2>3
<1>14. ASSUME NEW e \in Heads, NEW x \in Nodes PROVE In(x, d[e]) <=> Moved(o, g, h)[x] = e
  <2>1. Moved(o, g, h)[x] = IF o[x] = g THEN h ELSE o[x]
    BY DEF Moved
  <2>2. \A f \in Heads : In(x, c[f]) <=> o[x] = f
    BY DEF Threaded
  <2>3. CASE e = h
    BY <1>1, <1>2, <1>7, <1>11, <2>1, <2>2, <2>3
  <2>4. CASE e = g
    BY <1>2, <1>11, <1>12, <2>1, <2>4
  <2>5. CASE e # h /\ e # g
    BY <1>11, <2>1, <2>2, <2>5
  <2> QED BY <2>3, <2>4, <2>5
<1> QED BY <1>11, <1>13, <1>14 DEF Threaded, q, d

\* What the steps below use of the invariant.
LEMMA Known ==
  ASSUME IInv
  PROVE  /\ l \in Fields /\ ready \in SUBSET Heads /\ on \in [Nodes -> Heads \cup {NULL}]
         /\ \A n \in Nodes : on[n] # NULL => on[n] \in ready
         /\ \A n \in Nodes : on[n] = NULL /\ l.next[n] = n => l.prev[n] = n
<1>1. ASSUME NEW n \in Nodes, on[n] = NULL, l.next[n] = n PROVE l.prev[n] = n
  BY <1>1, Start DEF Rings
<1> QED BY <1>1, Start

\* The sequences are the Contents.
LEMMA ThreadIs ==
  ASSUME NEW c, NEW p, NEW o, NEW r \in SUBSET Heads, Threaded(c, p, o, r),
         NEW Q, r \subseteq Q, \A x \in Q : p.next[x] \in Q
  PROVE  \A h \in Heads : c[h] = IF h \in r THEN ContentsOf(p.next, h) ELSE <<>>
<1>1. ASSUME NEW h \in Heads PROVE c[h] = IF h \in r THEN ContentsOf(p.next, h) ELSE <<>>
  <2>1. CASE h \in r
    <3>1. Line(h, c[h]) /\ Follows(p, h, c[h]) /\ IsFiniteSet(Nodes) /\ h \in Q
      BY <2>1, KListAssumption DEF Threaded, KListAssumption
    <3> QED BY <2>1, <3>1, ContentsIs
  <2>2. CASE h \notin r
    BY <2>2 DEF Threaded
  <2> QED BY <2>1, <2>2
<1> QED BY <1>1

\* The sequences the lists follow are what list_for_each meets.
LEMMA ThreadNow ==
  ASSUME IInv, NEW c, Threaded(c, l, on, ready)
  PROVE  c = [h \in Heads |-> Contents(h)] /\ \A h \in Heads : c[h] = Contents(h)
<1>1. ready \in SUBSET Heads /\ ready \subseteq Linked /\ \A x \in Linked : l.next[x] \in Linked
  BY Start DEF Rings, Linked
<1>2. \A h \in Heads : c[h] = IF h \in ready THEN ContentsOf(l.next, h) ELSE <<>>
  BY <1>1, ThreadIs
<1> QED BY <1>2, ContentsAre DEF Threaded

\* The same after the step.
LEMMA ThreadNext ==
  ASSUME IInv', NEW d, Threaded(d, l', on', ready')
  PROVE  d = [h \in Heads |-> Contents(h)']
<1>1. /\ ready' \in SUBSET Heads /\ ready' \subseteq Linked' /\ \A x \in Linked' : l'.next[x] \in Linked'
  BY DEF IInv, TypeOK, Rings, Linked
<1>2. \A h \in Heads : d[h] = IF h \in ready' THEN ContentsOf(l'.next, h) ELSE <<>>
  BY <1>1, ThreadIs
<1> QED BY <1>2, ContentsAre DEF Threaded

\* What a step does to the sequences the lists follow, it does to the Contents.
LEMMA Read ==
  ASSUME IInv, IInv', NEW c, Threaded(c, l, on, ready), NEW d, Threaded(d, l', on', ready')
  PROVE  c = [h \in Heads |-> Contents(h)] /\ d = [h \in Heads |-> Contents(h)']
BY ThreadNow, ThreadNext

\* INIT_LIST_HEAD on a head, on the sequences.
LEMMA HeadStep ==
  ASSUME IInv, IInv', NEW c, Threaded(c, l, on, ready), NEW h \in Heads, InitHead(h)
  PROVE  Threaded(c, l', on', ready') /\ Lists!Prepare(h)
<1>1. c[h] = <<>>
  <2>1. Line(h, c[h]) /\ \A n \in Nodes : ~In(n, c[h])
    BY DEF Threaded, InitHead
  <2>2. Len(c[h]) \in Nat /\ c[h] \in Seq(Nodes) /\ \A i \in 1 .. Len(c[h]) : c[h][i] \in Nodes
    BY <2>1, LenProperties, ElementOfSeq DEF Line
  <2>3. \A i \in 1 .. Len(c[h]) : FALSE
    BY <2>1, <2>2 DEF In
  <2>4. Len(c[h]) = 0
    <3>1. Len(c[h]) # 0 => 1 \in 1 .. Len(c[h])
      BY <2>2, SMT
    <3> QED BY <2>3, <3>1
  <2> QED BY <2>2, <2>4, EmptySeq
<1>2. Threaded(c, InitListHead(l, h), on, ready \cup {h})
  BY <1>1, Known, HeadThreads
<1>3. Threaded(c, l', on', ready')
  BY <1>2 DEF InitHead
<1>4. c = [g \in Heads |-> Contents(g)] /\ c = [g \in Heads |-> Contents(g)']
  BY <1>3, Read
<1> QED BY <1>1, <1>3, <1>4 DEF InitHead, Lists!Prepare

\* Entries that are on no list may be given any pointers.
LEMMA FreeThreads ==
  ASSUME NEW p \in Fields, NEW r \in SUBSET Heads, NEW c, NEW o, Threaded(c, p, o, r),
         NEW n \in Nodes, o[n] = NULL, NEW q,
         \A x \in Objects : x # n => q.next[x] = p.next[x] /\ q.prev[x] = p.prev[x]
  PROVE  Threaded(c, q, o, r)
<1>1. \A h \in r : h \in Objects /\ h # n
  BY KListAssumption DEF KListAssumption, Objects
<1>2. \A x \in Nodes : x \in Objects
  BY DEF Objects
<1> QED BY <1>1, <1>2, ThreadsStay

\* INIT_LIST_HEAD on an entry, on the sequences.
LEMMA EntryStep ==
  ASSUME IInv, IInv', NEW c, Threaded(c, l, on, ready), NEW n \in Nodes, InitEntry(n)
  PROVE  Threaded(c, l', on', ready') /\ UNCHANGED Lists!specVars
<1>1. \A x \in Objects : x # n => l'.next[x] = l.next[x] /\ l'.prev[x] = l.prev[x]
  BY Known DEF InitEntry, InitListHead, Fields
<1>2. Threaded(c, l', on, ready)
  BY <1>1, Known, FreeThreads DEF InitEntry
<1>3. Threaded(c, l', on', ready')
  BY <1>2 DEF InitEntry
<1>4. c = [g \in Heads |-> Contents(g)] /\ c = [g \in Heads |-> Contents(g)']
  BY <1>3, Read
<1> QED BY <1>3, <1>4 DEF InitEntry, Lists!specVars

\* What the deletions and moves begin with.
LEMMA TakenOut ==
  ASSUME IInv, NEW c, Threaded(c, l, on, ready), NEW n \in Nodes, on[n] # NULL \/ Alone(n)
  PROVE  /\ Threaded(Lists!Drop(c, n), Unlink(l, n), [on EXCEPT ![n] = NULL], ready)
         /\ Unlink(l, n) \in Fields
         /\ [on EXCEPT ![n] = NULL] \in [Nodes -> Heads \cup {NULL}]
         /\ [on EXCEPT ![n] = NULL][n] = NULL
<1>1. on[n] \in ready \/ (on[n] = NULL /\ l.next[n] = n /\ l.prev[n] = n)
  BY Known DEF Alone
<1>2. Threaded(Lists!Drop(c, n), Unlink(l, n), [on EXCEPT ![n] = NULL], ready)
  BY <1>1, Known, DropThreads
<1> QED BY <1>2, Known, UnlinkEntry

\* list_del and list_del_init, on the sequences.
LEMMA RemoveStep ==
  ASSUME IInv, IInv', NEW c, Threaded(c, l, on, ready), NEW n \in Nodes, Del(n) \/ DelInit(n)
  PROVE  Lists!Delete(n) /\ \E d : Threaded(d, l', on', ready')
<1>1. PICK d, p, o : d = Lists!Drop(c, n) /\ p = Unlink(l, n) /\ o = [on EXCEPT ![n] = NULL]
  OBVIOUS
<1>2. /\ on[n] # NULL \/ Alone(n)
      /\ on' = o /\ ready' = ready
      /\ \/ l' = [next |-> [p.next EXCEPT ![n] = POISON1], prev |-> [p.prev EXCEPT ![n] = POISON2]]
         \/ l' = InitListHead(p, n)
  BY <1>1 DEF Del, DelInit, Put, ListDel, ListDelInit
<1>3. Threaded(d, p, o, ready) /\ p \in Fields /\ o[n] = NULL
  BY <1>1, <1>2, TakenOut
<1>4. \A x \in Objects : x # n => l'.next[x] = p.next[x] /\ l'.prev[x] = p.prev[x]
  BY <1>2, <1>3 DEF InitListHead, Fields
<1>5. Threaded(d, l', on', ready')
  BY <1>2, <1>3, <1>4, Known, FreeThreads
<1>6. c = [h \in Heads |-> Contents(h)] /\ d = [h \in Heads |-> Contents(h)']
  BY <1>5, Read
<1> QED BY <1>1, <1>2, <1>5, <1>6 DEF Lists!Delete

\* Both additions, on the sequences.
LEMMA Added ==
  ASSUME IInv, NEW c, Threaded(c, l, on, ready), NEW n \in Nodes, NEW h \in Heads,
         on[n] = NULL, h \in ready
  PROVE  /\ \A g \in Heads : ~Lists!Contains(c[g], n)
         /\ Threaded([c EXCEPT ![h] = <<n>> \o @], ListAdd(l, n, h), [on EXCEPT ![n] = h], ready)
         /\ Threaded([c EXCEPT ![h] = Append(@, n)], ListAddTail(l, n, h), [on EXCEPT ![n] = h], ready)
<1>1. \A g \in Heads : ~In(n, c[g])
  BY KListAssumption DEF Threaded, KListAssumption, Objects
<1> QED BY <1>1, Known, PutThreads DEF In, Lists!Contains

\* list_add pushes.
LEMMA AddPushes ==
  ASSUME IInv, IInv', NEW c, Threaded(c, l, on, ready), NEW n \in Nodes, NEW h \in Heads, Add(n, h)
  PROVE  Lists!Push(n, h) /\ \E d : Threaded(d, l', on', ready')
<1>1. on[n] = NULL /\ h \in ready /\ on' = [on EXCEPT ![n] = h] /\ ready' = ready /\ l' = ListAdd(l, n, h)
  BY DEF Add, Put
<1>2. PICK d : d = [c EXCEPT ![h] = <<n>> \o @]
  OBVIOUS
<1>3. Threaded(d, l', on', ready') /\ \A g \in Heads : ~Lists!Contains(c[g], n)
  BY <1>1, <1>2, Added
<1>4. c = [g \in Heads |-> Contents(g)] /\ d = [g \in Heads |-> Contents(g)']
  BY <1>3, Read
<1> QED BY <1>1, <1>2, <1>3, <1>4 DEF Lists!Push, Lists!Free

\* list_add_tail enqueues.
LEMMA AddTailEnqueues ==
  ASSUME IInv, IInv', NEW c, Threaded(c, l, on, ready), NEW n \in Nodes, NEW h \in Heads, AddTail(n, h)
  PROVE  Lists!Enqueue(n, h) /\ \E d : Threaded(d, l', on', ready')
<1>1. on[n] = NULL /\ h \in ready /\ on' = [on EXCEPT ![n] = h] /\ ready' = ready /\ l' = ListAddTail(l, n, h)
  BY DEF AddTail, Put
<1>2. PICK d : d = [c EXCEPT ![h] = Append(@, n)]
  OBVIOUS
<1>3. Threaded(d, l', on', ready') /\ \A g \in Heads : ~Lists!Contains(c[g], n)
  BY <1>1, <1>2, Added
<1>4. c = [g \in Heads |-> Contents(g)] /\ d = [g \in Heads |-> Contents(g)']
  BY <1>3, Read
<1> QED BY <1>1, <1>2, <1>3, <1>4 DEF Lists!Enqueue, Lists!Free

\* Both moves, on the sequences.
LEMMA Shifted ==
  ASSUME IInv, NEW c, Threaded(c, l, on, ready), NEW n \in Nodes, NEW h \in Heads,
         on[n] # NULL \/ Alone(n), h \in ready
  PROVE  /\ Threaded([Lists!Drop(c, n) EXCEPT ![h] = <<n>> \o @], ListMove(l, n, h), [on EXCEPT ![n] = h], ready)
         /\ Threaded([Lists!Drop(c, n) EXCEPT ![h] = Append(@, n)], ListMoveTail(l, n, h), [on EXCEPT ![n] = h], ready)
<1>1. PICK d, p, o : d = Lists!Drop(c, n) /\ p = Unlink(l, n) /\ o = [on EXCEPT ![n] = NULL]
  OBVIOUS
<1>2. Threaded(d, p, o, ready) /\ p \in Fields /\ o[n] = NULL /\ o \in [Nodes -> Heads \cup {NULL}]
  BY <1>1, TakenOut
<1>3. /\ Threaded([d EXCEPT ![h] = <<n>> \o @], ListAdd(p, n, h), [o EXCEPT ![n] = h], ready)
      /\ Threaded([d EXCEPT ![h] = Append(@, n)], ListAddTail(p, n, h), [o EXCEPT ![n] = h], ready)
  BY <1>2, Known, PutThreads
<1>4. [o EXCEPT ![n] = h] = [on EXCEPT ![n] = h]
  BY <1>1, Known
<1> QED BY <1>1, <1>3, <1>4 DEF ListMove, ListMoveTail

\* list_move puts the entry first.
LEMMA MovePutsFirst ==
  ASSUME IInv, IInv', NEW c, Threaded(c, l, on, ready), NEW n \in Nodes, NEW h \in Heads, Move(n, h)
  PROVE  Lists!MoveFirst(n, h) /\ \E d : Threaded(d, l', on', ready')
<1>1. /\ on[n] # NULL \/ Alone(n)
      /\ h \in ready /\ on' = [on EXCEPT ![n] = h] /\ ready' = ready /\ l' = ListMove(l, n, h)
  BY DEF Move, Put
<1>2. PICK d : d = [Lists!Drop(c, n) EXCEPT ![h] = <<n>> \o @]
  OBVIOUS
<1>3. Threaded(d, l', on', ready')
  BY <1>1, <1>2, Shifted
<1>4. c = [g \in Heads |-> Contents(g)] /\ d = [g \in Heads |-> Contents(g)']
  BY <1>3, Read
<1> QED BY <1>1, <1>2, <1>3, <1>4 DEF Lists!MoveFirst

\* list_move_tail puts it last.
LEMMA MovePutsLast ==
  ASSUME IInv, IInv', NEW c, Threaded(c, l, on, ready), NEW n \in Nodes, NEW h \in Heads, MoveTail(n, h)
  PROVE  Lists!MoveLast(n, h) /\ \E d : Threaded(d, l', on', ready')
<1>1. /\ on[n] # NULL \/ Alone(n)
      /\ h \in ready /\ on' = [on EXCEPT ![n] = h] /\ ready' = ready /\ l' = ListMoveTail(l, n, h)
  BY DEF MoveTail, Put
<1>2. PICK d : d = [Lists!Drop(c, n) EXCEPT ![h] = Append(@, n)]
  OBVIOUS
<1>3. Threaded(d, l', on', ready')
  BY <1>1, <1>2, Shifted
<1>4. c = [g \in Heads |-> Contents(g)] /\ d = [g \in Heads |-> Contents(g)']
  BY <1>3, Read
<1> QED BY <1>1, <1>2, <1>3, <1>4 DEF Lists!MoveLast

\* A splice of an empty list changes nothing.
LEMMA SpliceOfNone ==
  ASSUME IInv, IInv', NEW c, Threaded(c, l, on, ready), NEW g \in ready, NEW h \in ready, g # h,
         ListEmpty(l, g), UNCHANGED vars
  PROVE  Lists!JoinAway(g, h) /\ Lists!JoinInit(g, h) /\ \E d : Threaded(d, l', on', ready')
<1>1. c[g] = <<>> /\ c[h] \in Seq(Nodes) /\ g \in Heads /\ h \in Heads /\ c = [e \in Heads |-> c[e]]
  BY EmptyIs, Start DEF Threaded, ListEmpty, Line
<1>2. <<>> \o c[h] = c[h]
  BY <1>1, ConcatEmptySeq
<1>3. [c EXCEPT ![h] = c[g] \o @, ![g] = <<>>] = c
  <2>1. PICK t : t = c[h]
    OBVIOUS
  <2>2. PICK u : u = [c EXCEPT ![h] = t]
    OBVIOUS
  <2>3. u = c /\ [u EXCEPT ![g] = <<>>] = u
    BY <1>1, <2>1, <2>2
  <2>4. c[g] \o c[h] = t
    BY <1>1, <1>2, <2>1
  <2> QED BY <2>2, <2>3, <2>4
<1>4. Threaded(c, l', on', ready') /\ ready' = ready
  BY DEF vars
<1>5. c = [e \in Heads |-> Contents(e)] /\ c = [e \in Heads |-> Contents(e)']
  BY <1>4, Read
<1>6. Lists!Join(g, h)
  BY <1>3, <1>5 DEF Lists!Join
<1>7. [e \in Heads |-> Contents(e)][g] = <<>>
  BY <1>1, <1>5
<1> QED BY <1>4, <1>6, <1>7 DEF Lists!JoinAway, Lists!JoinInit

\* list_splice puts one list before the other and leaves its head unusable.
LEMMA SpliceJoins ==
  ASSUME IInv, IInv', NEW c, Threaded(c, l, on, ready), NEW g \in Heads, NEW h \in Heads, Splice(g, h)
  PROVE  Lists!JoinAway(g, h) /\ \E d : Threaded(d, l', on', ready')
<1>1. g \in ready /\ h \in ready /\ g # h
  BY DEF Splice
<1>2. CASE ListEmpty(l, g)
  BY <1>1, <1>2, SpliceOfNone DEF Splice
<1>3. CASE ~ListEmpty(l, g)
  <2>1. c[g] # <<>>
    BY <1>1, <1>3, EmptyIs DEF Threaded, ListEmpty
  <2>2. PICK d : d = [c EXCEPT ![h] = c[g] \o @, ![g] = <<>>]
    OBVIOUS
  <2>3. l' = SpliceIn(l, g, h) /\ ready' = ready \ {g} /\ on' = Moved(on, g, h)
    BY <1>3 DEF Splice, Rehome, Moved
  <2>4. Threaded(d, l', on', ready')
    BY <1>1, <2>1, <2>2, <2>3, Known, SpliceThreads
  <2>5. c = [e \in Heads |-> Contents(e)] /\ d = [e \in Heads |-> Contents(e)']
    BY <2>4, Read
  <2>6. Lists!Join(g, h)
    BY <1>1, <2>2, <2>5 DEF Lists!Join
  <2>7. [e \in Heads |-> Contents(e)][g] # <<>>
    BY <2>1, <2>5
  <2> QED BY <2>3, <2>4, <2>6, <2>7 DEF Lists!JoinAway
<1> QED BY <1>2, <1>3

\* list_splice_init does the same and makes the head ready again.
LEMMA SpliceInitJoins ==
  ASSUME IInv, IInv', NEW c, Threaded(c, l, on, ready), NEW g \in Heads, NEW h \in Heads, SpliceInit(g, h)
  PROVE  Lists!JoinInit(g, h) /\ \E d : Threaded(d, l', on', ready')
<1>1. g \in ready /\ h \in ready /\ g # h
  BY DEF SpliceInit
<1>2. CASE ListEmpty(l, g)
  BY <1>1, <1>2, SpliceOfNone DEF SpliceInit
<1>3. CASE ~ListEmpty(l, g)
  <2>1. c[g] # <<>>
    BY <1>1, <1>3, EmptyIs DEF Threaded, ListEmpty
  <2>2. PICK d : d = [c EXCEPT ![h] = c[g] \o @, ![g] = <<>>]
    OBVIOUS
  <2>3. l' = InitListHead(SpliceIn(l, g, h), g) /\ ready' = ready /\ on' = Moved(on, g, h)
    BY <1>3 DEF SpliceInit, Rehome, Moved
  <2>4. Threaded(d, SpliceIn(l, g, h), on', ready \ {g})
    BY <1>1, <2>1, <2>2, <2>3, Known, SpliceThreads
  <2>5. d[g] = <<>>
    BY <1>1, <2>2 DEF Threaded
  <2>6. SpliceIn(l, g, h) \in Fields
    BY <1>1, <1>3, Joined DEF SpliceInit
  <2>7. Threaded(d, l', on', (ready \ {g}) \cup {g}) /\ (ready \ {g}) \cup {g} = ready'
    BY <1>1, <2>3, <2>4, <2>5, <2>6, Known, HeadThreads
  <2>8. Threaded(d, l', on', ready')
    BY <2>7
  <2>9. c = [e \in Heads |-> Contents(e)] /\ d = [e \in Heads |-> Contents(e)']
    BY <2>8, Read
  <2>10. Lists!Join(g, h)
    BY <1>1, <2>2, <2>9 DEF Lists!Join
  <2> QED BY <2>3, <2>8, <2>10 DEF Lists!JoinInit
<1> QED BY <1>2, <1>3

LInv == IInv /\ \E c : Threaded(c, l, on, ready)

\* At the start every list is empty, as in SeqLists.
LEMMA ListInitial == Init => LInv /\ Lists!Init
<1> SUFFICES ASSUME Init PROVE LInv /\ Lists!Init
  OBVIOUS
<1> DEFINE c == [h \in Heads |-> <<>>]
<1>1. Threaded(c, l, on, ready)
  <2>1. \A h \in Heads : h \notin Nodes /\ h # NULL
    BY KListAssumption DEF KListAssumption, Objects
  <2>2. Len(<<>>) = 0 /\ <<>> \in Seq(Nodes) /\ \A i \in 1 .. 0 : FALSE
    BY EmptySeq, SMT
  <2>3. c = [h \in Heads |-> c[h]] /\ \A h \in Heads : c[h] = <<>>
    OBVIOUS
  <2>4. ready = {} /\ \A n \in Nodes : on[n] = NULL
    BY DEF Init
  <2> HIDE DEF c
  <2> QED BY <2>1, <2>2, <2>3, <2>4 DEF Threaded, Line, In
<1>2. c = [h \in Heads |-> Contents(h)]
  <2> HIDE DEF c
  <2> QED BY <1>1, Initial, ThreadNow
<1> QED BY <1>1, <1>2, Initial DEF LInv, Init, Lists!Init

\* Every call does to the sequences what its name says.
LEMMA CallsName == ASSUME IInv, IInv', NEW c, Threaded(c, l, on, ready) PROVE CallsAsNamed
BY HeadStep, EntryStep, RemoveStep, AddPushes, AddTailEnqueues, MovePutsFirst, MovePutsLast, SpliceJoins, SpliceInitJoins
   DEF CallsAsNamed

\* Every call leaves the lists on sequences, and is a step of SeqLists.
LEMMA StepsThread ==
  ASSUME IInv, IInv', NEW c, Threaded(c, l, on, ready), [Next]_vars
  PROVE  [Lists!Next]_(Lists!specVars) /\ \E d : Threaded(d, l', on', ready')
<1>1. CASE UNCHANGED vars
  <2>1. Threaded(c, l', on', ready') /\ ready' = ready
    BY <1>1 DEF vars
  <2>2. c = [h \in Heads |-> Contents(h)] /\ c = [h \in Heads |-> Contents(h)']
    BY <2>1, Read
  <2> QED BY <2>1, <2>2 DEF Lists!specVars
<1>2. ASSUME NEW h \in Heads, InitHead(h)
      PROVE  [Lists!Next]_(Lists!specVars) /\ \E d : Threaded(d, l', on', ready')
  BY <1>2, HeadStep DEF Lists!Next
<1>3. ASSUME NEW n \in Nodes, InitEntry(n)
      PROVE  [Lists!Next]_(Lists!specVars) /\ \E d : Threaded(d, l', on', ready')
  BY <1>3, EntryStep
<1>4. ASSUME NEW n \in Nodes, Del(n) \/ DelInit(n)
      PROVE  [Lists!Next]_(Lists!specVars) /\ \E d : Threaded(d, l', on', ready')
  BY <1>4, RemoveStep DEF Lists!Next
<1>5. ASSUME NEW n \in Nodes, NEW h \in Heads, Add(n, h) \/ AddTail(n, h) \/ Move(n, h) \/ MoveTail(n, h)
      PROVE  [Lists!Next]_(Lists!specVars) /\ \E d : Threaded(d, l', on', ready')
  BY <1>5, AddPushes, AddTailEnqueues, MovePutsFirst, MovePutsLast DEF Lists!Next
<1>6. ASSUME NEW g \in Heads, NEW h \in Heads, Splice(g, h) \/ SpliceInit(g, h)
      PROVE  [Lists!Next]_(Lists!specVars) /\ \E d : Threaded(d, l', on', ready')
  BY <1>6, SpliceJoins, SpliceInitJoins DEF Lists!Next
<1> QED BY <1>1, <1>2, <1>3, <1>4, <1>5, <1>6 DEF Next

\* Every call keeps the lists on their sequences, and does to these what its name says.
LEMMA ListInductive ==
  ASSUME LInv, [Next]_vars
  PROVE  LInv' /\ [Lists!Next]_(Lists!specVars) /\ CallsAsNamed
<1>1. PICK c : Threaded(c, l, on, ready)
  BY DEF LInv
<1>2. IInv /\ IInv'
  BY Inductive DEF LInv
<1> QED BY <1>1, <1>2, StepsThread, CallsName DEF LInv

\* A list that follows its sequence is met in full by list_for_each.
LEMMA ListsMeetAll == LInv => WalkMeetsAll
<1> SUFFICES ASSUME LInv, NEW h \in ready
             PROVE  /\ {n \in Nodes : on[n] = h} = {Contents(h)[i] : i \in DOMAIN Contents(h)}
                    /\ ListEmpty(l, h) <=> Contents(h) = <<>>
                    /\ ListEmptyCareful(l, h) <=> ListEmpty(l, h)
  BY DEF WalkMeetsAll
<1>1. PICK c : Threaded(c, l, on, ready)
  BY DEF LInv
<1>2. c[h] = Contents(h) /\ h \in Heads
  BY <1>1, ThreadNow, Start DEF LInv
<1>3. PICK s : s = Contents(h)
  OBVIOUS
<1>4. Line(h, s) /\ Follows(l, h, s) /\ \A n \in Nodes : In(n, s) <=> on[n] = h
  BY <1>1, <1>2, <1>3 DEF Threaded
<1>5. (ListEmpty(l, h) <=> s = <<>>) /\ (ListEmptyCareful(l, h) <=> ListEmpty(l, h))
  BY <1>4, EmptyIs DEF ListEmpty, ListEmptyCareful
<1>6. {n \in Nodes : on[n] = h} = {s[i] : i \in DOMAIN s}
  <2>1. DOMAIN s = 1 .. Len(s) /\ \A i \in 1 .. Len(s) : s[i] \in Nodes
    BY <1>4, LenProperties, ElementOfSeq DEF Line
  <2> QED BY <1>4, <2>1 DEF In
<1> QED BY <1>3, <1>5, <1>6

\* A step of one of the programs is a step of the lists or leaves them alone.
LEMMA ListsApart == [MCNext]_allVars => [Next]_vars
BY Zenon DEF MCNext, allVars

\* Whatever legal calls are made, in whatever order, the pointers of the
\* objects in use are inverse of each other and stay within their list
\* (INIT_LIST_HEAD to list_splice_init of list.h), for any number of heads and
\* entries.
THEOREM LinksConsistent == MCSpec => []Links
<1>1. IInv => Links
  BY LinksIsRings DEF IInv
<1>2. MCInit => IInv
  BY Initial DEF MCInit
<1>3. IInv /\ [MCNext]_allVars => IInv'
  BY Inductive, ListsApart
<1> QED BY <1>1, <1>2, <1>3, PTL DEF MCSpec

\* list_for_each meets every entry that was put on the list and not taken off,
\* and no other; list_empty and list_empty_careful say whether it meets one.
THEOREM WalksMeetAll == MCSpec => []WalkMeetsAll
<1>1. MCInit => LInv
  BY ListInitial DEF MCInit
<1>2. LInv /\ [MCNext]_allVars => LInv'
  BY ListInductive, ListsApart
<1> QED BY <1>1, <1>2, ListsMeetAll, PTL DEF MCSpec

\* The pointer surgery of list.h implements the sequences of SeqLists: each
\* call does to what list_for_each meets what its name says (list_add pushes,
\* list_add_tail enqueues, and so on: CallsAsNamed), a stutter when it changes
\* no list.
THEOREM ListsAreSequences == MCSpec => IsSeqLists
<1>1. MCInit => LInv /\ Lists!Init
  BY ListInitial DEF MCInit
<1>2. LInv /\ [MCNext]_allVars => LInv' /\ [Lists!Next]_(Lists!specVars) /\ [CallsAsNamed]_vars
  BY ListInductive, ListsApart
<1> QED BY <1>1, <1>2, PTL DEF MCSpec, IsSeqLists, Lists!Spec

-----------------------------------------------------------------------------
(* The student list.                                                        *)

\* Its head.
First == CHOOSE h \in Heads : TRUE

\* The records in the list, in order.
Enrolled(s, p, live) ==
  /\ Pointers(p, S!Objects) /\ Line(First, s) /\ Follows(p, First, s)
  /\ \A n \in Nodes : In(n, s) <=> n \in live

SInv ==
  /\ S!TypeOK /\ \E s : Enrolled(s, sl, heap)
  /\ pc # "idle" => pos \in heap \cup {First}

\* The head of the student list.
LEMMA FirstIs == First \in Heads /\ First \notin Nodes /\ S!Objects = Nodes \cup {First}
<1>1. \E h \in Heads : TRUE
  BY HeadExists
<1>2. First \in Heads
  BY <1>1, Zenon DEF First
<1> QED BY <1>2, KListAssumption DEF KListAssumption, S!Objects, First

\* The operations of the module are those of the lists.
LEMMA SameOps ==
  ASSUME NEW p, NEW x, NEW h
  PROVE  /\ S!ListAddTail(p, x, h) = ListAddTail(p, x, h)
         /\ S!ListDel(p, x) = ListDel(p, x)
         /\ S!InitListHead(p, x) = InitListHead(p, x)
BY DEF S!ListAddTail, S!InsertBetween, ListAddTail, InsertBetween, S!ListDel, S!Unlink, ListDel, Unlink,
       S!InitListHead, InitListHead

\* What every step starts from: the ring of the records and the head.
LEMMA RingIs ==
  ASSUME NEW s, NEW p, NEW live, Enrolled(s, p, live), live \subseteq Nodes, NEW x \in live \cup {First}
  PROVE  /\ p.next[x] \in live \cup {First} /\ p.prev[p.next[x]] = x
         /\ x \in live => p.next[x] # x
<1>1. Len(s) \in Nat /\ First \notin Nodes /\ Line(First, s) /\ Follows(p, First, s)
  BY LenProperties DEF Enrolled, Line
<1>2. PICK i \in 0 .. Len(s) : x = Spot(First, s, i)
  <2>1. CASE x = First
    <3>1. Spot(First, s, 0) = First /\ 0 \in 0 .. Len(s)
      BY <1>1, SMT DEF Spot
    <3> QED BY <2>1, <3>1
  <2>2. CASE x # First
    <3>1. PICK i \in 1 .. Len(s) : s[i] = x
      BY <2>2 DEF Enrolled, In
    <3>2. i \in 0 .. Len(s)
      BY <1>1, SMT
    <3> QED BY <3>1, <3>2 DEF Spot
  <2> QED BY <2>1, <2>2
<1>3. i \in Nat /\ i + 1 \in Nat /\ i # i + 1 /\ i <= Len(s) /\ (i # 0 => i \in 1 .. Len(s) + 1 /\ i + 1 \in 1 .. Len(s) + 1)
  BY <1>1, SMT
<1>4. p.next[x] = Spot(First, s, i + 1) /\ p.prev[Spot(First, s, i + 1)] = x
  BY <1>1, <1>2 DEF Follows
<1>5. Spot(First, s, i + 1) \in live \cup {First}
  BY <1>1, <1>3, SpotsAre DEF Enrolled
<1>6. ASSUME x \in live PROVE Spot(First, s, i + 1) # x
  <2>1. i # 0
    <3>1. Spot(First, s, 0) = First
      BY <1>1, SMT DEF Spot
    <3> QED BY <1>1, <1>2, <1>6, <3>1
  <2> QED BY <1>1, <1>2, <1>3, <2>1, SpotsDiffer
<1> QED BY <1>4, <1>5, <1>6

\* A record is appended.
LEMMA EnrolStep ==
  ASSUME SInv, NEW r \in Nodes, NEW nm \in Names, S!Insert(r, nm)
  PROVE  SInv'
<1>1. /\ r \notin heap /\ pc = "idle" /\ heap' = heap \cup {r} /\ pc' = pc
      /\ sl' = ListAddTail(sl, r, First)
  BY SameOps DEF S!Insert, First
<1>2. S!TypeOK'
  BY DEF SInv, S!TypeOK, S!Insert
<1>3. PICK s : Enrolled(s, sl, heap)
  BY DEF SInv
<1>4. PICK t, m : t = Append(s, r) /\ m = Len(s)
  OBVIOUS
<1>5. /\ Line(First, s) /\ s \in Seq(Nodes) /\ ~In(r, s) /\ Follows(sl, First, s)
      /\ Pointers(sl, S!Objects) /\ First \in S!Objects /\ r \in S!Objects
      /\ \A i \in 1 .. Len(s) : s[i] \in S!Objects
  BY <1>1, <1>3, FirstIs, ElementOfSeq DEF Enrolled, Line
<1>6. Grown(t, s, r, m)
  BY <1>4, <1>5, AddsAre
<1>7. Line(First, t) /\ \A x : In(x, t) <=> (x = r \/ In(x, s))
  BY <1>5, <1>6, GrownIs
<1>8. sl' = InsertBetween(sl, r, Spot(First, s, m), Spot(First, s, m + 1))
  BY <1>1, <1>4, <1>5, EndsAre DEF ListAddTail
<1>9. Follows(sl', First, t)
  BY <1>5, <1>6, <1>7, <1>8, RingGrows DEF Grown
<1>10. Pointers(sl', S!Objects)
  <2>1. Spot(First, s, m) \in S!Objects /\ Spot(First, s, m + 1) \in S!Objects
    <3>1. m \in Nat /\ m + 1 \in Nat
      BY <1>4, <1>5, LenProperties, SMT
    <3> QED BY <1>5, <3>1, SpotsAre, FirstIs
  <2> QED BY <1>5, <1>8, <2>1 DEF Pointers, InsertBetween
<1>11. Enrolled(t, sl', heap')
  <2>1. \A n \in Nodes : In(n, t) <=> n \in heap'
    BY <1>1, <1>3, <1>7 DEF Enrolled
  <2> QED BY <1>7, <1>9, <1>10, <2>1 DEF Enrolled
<1> QED BY <1>1, <1>2, <1>11 DEF SInv

\* A record is unlinked; the rest of the ring is as before but for its neighbours.
LEMMA Expelled ==
  ASSUME NEW s, NEW p, NEW live \in SUBSET Nodes, Enrolled(s, p, live), NEW n \in live, NEW q, q = ListDel(p, n)
  PROVE  \E t, m : Enrolled(t, q, live \ {n}) /\ s[m] = n /\ Shrunk(t, s, m)
<1>1. /\ Line(First, s) /\ s \in Seq(Nodes) /\ In(n, s) /\ Follows(p, First, s) /\ n \in Nodes
      /\ Pointers(p, S!Objects) /\ First \in S!Objects /\ n \in S!Objects /\ First \notin Nodes
      /\ \A i \in 1 .. Len(s) : s[i] \in Nodes /\ s[i] \in S!Objects
  BY FirstIs, ElementOfSeq DEF Enrolled, Line
<1>2. PICK m \in 1 .. Len(s) : s[m] = n
  BY <1>1 DEF In
<1>3. PICK t : t = Lists!RemoveFirst(s, n)
  OBVIOUS
<1>4. Shrunk(t, s, m)
  BY <1>1, <1>2, <1>3, Removed DEF Shrunk
<1>5. Line(First, t) /\ \A x : In(x, t) <=> (x # n /\ In(x, s))
  BY <1>1, <1>2, <1>4, ShrunkIs
<1>6. PICK k : k = Unlink(p, n)
  OBVIOUS
<1>7. Follows(k, First, t)
  BY <1>1, <1>2, <1>4, <1>5, <1>6, RingShrinks DEF Shrunk
<1>8. p.next[n] \in S!Objects /\ p.prev[n] \in S!Objects
  <2>1. p.next[n] \in live \cup {First}
    BY <1>1, RingIs
  <2>2. PICK j \in Nat : j + 1 = m /\ j \in 0 .. Len(s)
    <3>1. m - 1 \in Nat /\ (m - 1) + 1 = m /\ m - 1 \in 0 .. Len(s)
      BY <1>1, LenProperties, SMT
    <3> QED BY <3>1
  <2>3. p.prev[Spot(First, s, j + 1)] = Spot(First, s, j) /\ Spot(First, s, m) = n
    BY <1>1, <1>2, <2>2 DEF Follows, Spot
  <2>4. p.prev[n] \in S!Objects
    BY <1>1, <2>2, <2>3, SpotsAre, FirstIs
  <2> QED BY <2>1, <2>4, FirstIs
<1>9. Pointers(k, S!Objects)
  BY <1>1, <1>6, <1>8 DEF Pointers, Unlink
<1>10. /\ q.next = [k.next EXCEPT ![n] = POISON1] /\ q.prev = [k.prev EXCEPT ![n] = POISON2]
       /\ q = [next |-> q.next, prev |-> q.prev]
  BY <1>6 DEF ListDel
<1>11. /\ Pointers(q, S!Objects)
       /\ \A x \in S!Objects : x # n => q.next[x] = k.next[x] /\ q.prev[x] = k.prev[x]
  <2>1. k.next = [x \in S!Objects |-> k.next[x]] /\ k.prev = [x \in S!Objects |-> k.prev[x]]
    BY <1>9 DEF Pointers
  <2>2. PICK a, b : a = k.next /\ b = k.prev
    OBVIOUS
  <2>3. /\ q.next = [x \in S!Objects |-> q.next[x]]
        /\ \A x \in S!Objects : x # n => q.next[x] = a[x]
    BY <1>1, <1>10, <2>1, <2>2
  <2>4. /\ q.prev = [x \in S!Objects |-> q.prev[x]]
        /\ \A x \in S!Objects : x # n => q.prev[x] = b[x]
    BY <1>1, <1>10, <2>1, <2>2
  <2> QED BY <1>10, <2>2, <2>3, <2>4 DEF Pointers
<1>12. Follows(q, First, t)
  <2>1. \A x \in Nodes : In(x, t) => q.next[x] = k.next[x] /\ q.prev[x] = k.prev[x]
    BY <1>5, <1>11, FirstIs
  <2>2. q.next[First] = k.next[First] /\ q.prev[First] = k.prev[First]
    BY <1>1, <1>11
  <2> QED BY <1>5, <1>7, <2>1, <2>2, RingStays
<1>13. \A x \in Nodes : In(x, t) <=> x \in live \ {n}
  BY <1>5 DEF Enrolled
<1> QED BY <1>2, <1>4, <1>5, <1>11, <1>12, <1>13 DEF Enrolled

\* What every step starts from.
LEMMA Known2 ==
  ASSUME SInv
  PROVE  /\ heap \in SUBSET Nodes /\ S!TypeOK
         /\ \E s : Enrolled(s, sl, heap)
         /\ \A x \in heap \cup {First} : sl.next[x] \in heap \cup {First} /\ (x \in heap => sl.next[x] # x)
         /\ \A x \in heap \cup {First} : x \in S!Objects \cup {NULL}
<1>1. heap \in SUBSET Nodes
  BY DEF SInv, S!TypeOK
<1> QED BY <1>1, RingIs, FirstIs DEF SInv

\* A function of stuinfo.c is called.
LEMMA CallStep ==
  ASSUME SInv, NEW f \in {"find", "del", "delall"}, NEW nm \in Names \cup {NULL}, S!Call(f, nm)
  PROVE  SInv'
<1>1. pos' = sl.next[First] /\ pc' = f /\ arg' = nm /\ UNCHANGED <<sl, name, heap>>
  BY DEF S!Call, First
<1>2. pos' \in heap \cup {First}
  BY <1>1, Known2
<1>3. S!TypeOK'
  BY <1>1, <1>2, Known2 DEF S!TypeOK
<1> QED BY <1>1, <1>2, <1>3 DEF SInv

\* A search goes to the next record.
LEMMA GoStep ==
  ASSUME SInv, S!FindStep \/ S!DelStep
  PROVE  SInv'
<1>1. pc # "idle" /\ pos' = sl.next[pos] /\ UNCHANGED <<sl, name, heap, pc, arg>>
  BY DEF S!FindStep, S!DelStep, S!Step
<1>2. pos \in heap \cup {First}
  BY <1>1 DEF SInv
<1>3. pos' \in heap \cup {First}
  BY <1>1, <1>2, Known2
<1>4. S!TypeOK'
  BY <1>1, <1>3, Known2 DEF S!TypeOK
<1> QED BY <1>1, <1>3, <1>4 DEF SInv

\* find_stuinfo_by_name and del_all_stu return.
LEMMA BackStep ==
  ASSUME SInv, S!FindReturn \/ S!DelAllReturn
  PROVE  SInv'
<1>1. pc # "idle" /\ pos' \in {NULL, pos} /\ pc' = "idle" /\ arg' = NULL /\ UNCHANGED <<sl, name, heap>>
  BY DEF S!FindReturn, S!DelAllReturn, S!Return
<1>2. S!TypeOK'
  BY <1>1, Known2 DEF S!TypeOK
<1> QED BY <1>1, <1>2 DEF SInv

\* del_stuinfo deletes a record or finds none.
LEMMA TakeStep ==
  ASSUME SInv, S!DelReturn
  PROVE  SInv'
<1>1. pc # "idle" /\ pos' = NULL /\ pc' = "idle" /\ arg' = NULL /\ UNCHANGED name
  BY DEF S!DelReturn, S!Return
<1>2. /\ heap' \subseteq heap
      /\ \E s : Enrolled(s, sl', heap')
  <2>1. CASE UNCHANGED <<sl, heap>>
    BY <2>1, Known2
  <2>2. CASE pos # First /\ sl' = ListDel(sl, pos) /\ heap' = heap \ {pos}
    <3>1. pos \in heap
      BY <1>1, <2>2 DEF SInv
    <3> QED BY <2>2, <3>1, Known2, Expelled
  <2> QED BY <2>1, <2>2, SameOps DEF S!DelReturn, First
<1>3. S!TypeOK'
  BY <1>1, <1>2, Known2 DEF S!TypeOK
<1> QED BY <1>1, <1>2, <1>3 DEF SInv

\* The record after the freed one is the next the loop skips.
LEMMA TakeAllStep ==
  ASSUME SInv, S!DelAllStep
  PROVE  SInv'
<1>1. /\ pc # "idle" /\ pos # First /\ sl' = ListDel(sl, pos) /\ heap' = heap \ {pos}
      /\ pos' = sl'.next[sl.next[pos]] /\ UNCHANGED <<name, pc, arg>>
  BY SameOps DEF S!DelAllStep, First
<1>2. pos \in heap
  BY <1>1 DEF SInv
<1>3. PICK s : Enrolled(s, sl', heap')
  BY <1>1, <1>2, Known2, Expelled
<1>4. sl.next[pos] \in heap' \cup {First} /\ heap' \subseteq Nodes
  BY <1>1, <1>2, Known2
<1>5. pos' \in heap' \cup {First}
  BY <1>1, <1>3, <1>4, RingIs
<1>6. S!TypeOK'
  BY <1>1, <1>4, <1>5, Known2, FirstIs DEF S!TypeOK
<1> QED BY <1>3, <1>5, <1>6 DEF SInv

\* init_stuinfo leaves an empty list.
LEMMA StuInitial == S!Init => SInv
<1> SUFFICES ASSUME S!Init PROVE SInv
  OBVIOUS
<1>1. /\ sl.next = [[x \in S!Objects |-> NULL] EXCEPT ![First] = First]
      /\ sl.prev = [[x \in S!Objects |-> NULL] EXCEPT ![First] = First]
      /\ sl = [next |-> sl.next, prev |-> sl.prev]
      /\ heap = {} /\ pc = "idle" /\ arg = NULL /\ pos = NULL /\ name \in [Nodes -> {NULL}]
  BY DEF S!Init, S!InitListHead, First
<1>2. Len(<<>>) = 0 /\ <<>> \in Seq(Nodes) /\ \A i \in 1 .. 0 : FALSE
  BY EmptySeq, SMT
<1>3. Enrolled(<<>>, sl, heap)
  <2>1. sl.next[First] = First /\ sl.prev[First] = First /\ Pointers(sl, S!Objects)
    BY <1>1, FirstIs DEF Pointers
  <2>2. \A j : Spot(First, <<>>, j) = First
    BY <1>2 DEF Spot
  <2>3. Line(First, <<>>) /\ Follows(sl, First, <<>>) /\ \A n \in Nodes : ~In(n, <<>>)
    BY <1>2, <2>1, <2>2, FirstIs DEF Line, Follows, In
  <2> QED BY <1>1, <2>1, <2>3 DEF Enrolled
<1>4. S!TypeOK
  BY <1>1 DEF S!TypeOK
<1> QED BY <1>1, <1>3, <1>4 DEF SInv

\* Every step of stuinfo.c keeps the invariant.
LEMMA StuInductive == SInv /\ [S!Next]_svars => SInv'
<1> SUFFICES ASSUME SInv, [S!Next]_svars PROVE SInv'
  OBVIOUS
<1>1. CASE UNCHANGED svars
  <2>1. UNCHANGED <<sl, name, heap, pc, arg, pos>>
    BY <1>1 DEF svars
  <2>2. S!TypeOK'
    BY <2>1, Known2 DEF S!TypeOK
  <2> QED BY <2>1, <2>2 DEF SInv
<1>2. ASSUME NEW r \in Nodes, NEW nm \in Names, S!Insert(r, nm) PROVE SInv'
  BY <1>2, EnrolStep
<1>3. ASSUME NEW nm \in Names, S!Call("find", nm) \/ S!Call("del", nm) PROVE SInv'
  BY <1>3, CallStep
<1>4. CASE S!Call("delall", NULL)
  BY <1>4, CallStep
<1>5. CASE S!Run
  BY <1>5, GoStep, BackStep, TakeStep, TakeAllStep DEF S!Run
<1> QED BY <1>1, <1>2, <1>3, <1>4, <1>5 DEF S!Next

\* The Contents of the student list are those of its ring.
LEMMA StuContents == S!Contents = ContentsOf(sl.next, First)
<1>1. S!Cardinality(Nodes) = Cardinality(Nodes)
  BY DEF S!Cardinality, Cardinality
<1>2. \A Q : S!Min(Q) = Min(Q)
  BY DEF S!Min, Min
<1> DEFINE n == Cardinality(Nodes) + 1
           w == Walk(sl.next, First, n)
           back == {i \in 1 .. n : w[i] = First}
<1>3. S!Contents = IF \E i \in 1 .. n : w[i] = First THEN [i \in 1 .. S!Min(back) - 1 |-> w[i]] ELSE <<>>
  BY <1>1 DEF S!Contents, Walk, First
<1>4. ContentsOf(sl.next, First) = IF back # {} THEN [i \in 1 .. Min(back) - 1 |-> w[i]] ELSE <<>>
  BY DEF ContentsOf
<1>5. (\E i \in 1 .. n : w[i] = First) <=> back # {}
  OBVIOUS
<1>6. S!Min(back) = Min(back)
  BY <1>2
<1> HIDE DEF n, w, back
<1> QED BY <1>3, <1>4, <1>5, <1>6

\* The invariant says that linked records are live.
LEMMA StuLinked == SInv => S!LinkedIsLive
<1> SUFFICES ASSUME SInv PROVE S!LinkedIsLive
  OBVIOUS
<1>1. PICK s : Enrolled(s, sl, heap)
  BY Known2
<1>2. S!Contents = s
  <2>1. \A x \in heap \cup {First} : sl.next[x] \in heap \cup {First}
    BY Known2
  <2>2. ContentsOf(sl.next, First) = s
    BY <1>1, <2>1, ContentsIs, KListAssumption DEF Enrolled, KListAssumption
  <2> QED BY <2>2, StuContents
<1>3. {s[i] : i \in DOMAIN s} = heap
  <2>1. DOMAIN s = 1 .. Len(s) /\ \A i \in 1 .. Len(s) : s[i] \in Nodes
    BY <1>1, LenProperties, ElementOfSeq DEF Enrolled, Line
  <2> QED BY <1>1, <2>1, Known2 DEF Enrolled, In
<1>4. \A x \in heap \cup {First} : sl.prev[sl.next[x]] = x
  BY <1>1, Known2, RingIs
<1>5. pc # "idle" => pos \in heap \cup {First}
  BY DEF SInv
<1> QED BY <1>2, <1>3, <1>4, <1>5 DEF S!LinkedIsLive, First

\* A step of one of the programs is a step of the student list or leaves it alone.
LEMMA StudentsApart == [MCNext]_allVars => [S!Next]_svars
BY Zenon DEF MCNext, allVars

\* The records linked from the head are those malloc'ed and not freed, in
\* consistent links, and the cursor of a function that runs stands on none that
\* is freed: insertstuinfo, del_stuinfo and del_all_stu of list_test/stuinfo.c,
\* for any number of records.
THEOREM StudentsLive == MCSpec => []LinkedIsLive
<1>1. MCInit => IInv /\ SInv
  BY Initial, StuInitial DEF MCInit
<1>2. IInv /\ SInv /\ [MCNext]_allVars => IInv' /\ SInv'
  BY Inductive, ListsApart, StuInductive, StudentsApart
<1>3. IInv /\ SInv => LinkedIsLive
  BY StuLinked DEF LinkedIsLive, IInv, SInv
<1> QED BY <1>1, <1>2, <1>3, PTL DEF MCSpec

\* What is known of a function that runs: what it has passed, and for
\* del_all_stu how far it is in its round: of the L records that the round
\* began with, which were every d-th of those at the call, m - 1 were kept, m - 1
\* are deleted, and the one at place m is next.
Round(s, b, m, d, L) ==
  /\ m \in 1 .. Len(s) + 1 /\ d \in Nat /\ L \in Nat /\ b \in Seq(Nodes)
  /\ Len(s) + (m - 1) = L /\ (L + 1) * d = Len(b) + 1
  /\ S!Stride[Len(b)] = d * S!Stride[L]
  /\ \A i \in 1 .. m - 1 : s[i] = b[(2 * i) * d]
  /\ \A i \in m .. Len(s) : s[i] = b[(i + (m - 1)) * d]

Cursor(s) ==
  /\ pc \in {"find", "del"} =>
       /\ before = s
       /\ \E i \in 1 .. Len(s) + 1 : pos = Spot(First, s, i) /\ \A j \in 1 .. i - 1 : name[s[j]] # arg
  /\ pc = "delall" => \E m, d, L : Round(s, before, m, d, L) /\ pos = Spot(First, s, m)

DInv == SInv /\ \E s : Enrolled(s, sl, heap) /\ Cursor(s)

\* The Stride of the numbers up to n.
Strides(f, n) == \A i \in 0 .. n : f[i] = IF i % 2 = 1 THEN 2 * f[i \div 2] ELSE 2

LEMMA Halves ==
  ASSUME NEW i \in Nat
  PROVE  /\ i \div 2 \in Nat /\ (i % 2 = 1 \/ i % 2 = 0)
         /\ i % 2 = 1 => i \div 2 < i /\ i = 2 * (i \div 2) + 1
         /\ i % 2 = 0 => i = 2 * (i \div 2)
BY SMT

\* There is only one.
LEMMA OneStride ==
  ASSUME NEW n \in Nat, NEW k \in Nat, NEW f, NEW g, Strides(f, n), Strides(g, k), NEW i \in Nat, i <= n, i <= k
  PROVE  f[i] = g[i]
<1> SUFFICES ASSUME f[i] # g[i] PROVE FALSE
  OBVIOUS
<1> DEFINE Q == {j \in Nat : j <= i /\ f[j] # g[j]}
<1>1. PICK j \in Q : \A y \in Q : j <= y
  <2>1. Q \in SUBSET Nat /\ Q # {}
    BY SMT
  <2> HIDE DEF Q
  <2> QED BY <2>1, HasLeast
<1>2. j \in Nat /\ j <= i /\ f[j] # g[j] /\ j \in 0 .. n /\ j \in 0 .. k
  BY SMT
<1>3. /\ f[j] = IF j % 2 = 1 THEN 2 * f[j \div 2] ELSE 2
      /\ g[j] = IF j % 2 = 1 THEN 2 * g[j \div 2] ELSE 2
  BY <1>2 DEF Strides
<1>4. j % 2 = 1
  BY <1>2, <1>3
<1>5. j \div 2 \in Nat /\ j \div 2 <= i /\ ~(j <= j \div 2)
  BY <1>2, <1>4, Halves, SMT
<1>6. f[j \div 2] = g[j \div 2]
  BY <1>1, <1>5
<1> QED BY <1>2, <1>3, <1>6

LEMMA StridesExist == ASSUME NEW n \in Nat PROVE \E f \in [0 .. n -> Nat] : Strides(f, n)
<1> DEFINE Q == {k \in 0 .. n : \E f \in [0 .. k -> Nat] : Strides(f, k)}
<1>1. 0 \in Q
  <2>1. (\A i \in 0 .. 0 : i = 0) /\ 0 % 2 # 1 /\ 0 \in 0 .. 0 /\ 0 \in 0 .. n
    BY SMT
  <2>2. [i \in 0 .. 0 |-> 2] \in [0 .. 0 -> Nat] /\ Strides([i \in 0 .. 0 |-> 2], 0)
    BY <2>1 DEF Strides
  <2> QED BY <2>1, <2>2
<1>2. ASSUME NEW k \in 1 .. n, k - 1 \in Q PROVE k \in Q
  <2>1. PICK f \in [0 .. k - 1 -> Nat] : Strides(f, k - 1)
    BY <1>2
  <2>2. PICK v : v = IF k % 2 = 1 THEN 2 * f[k \div 2] ELSE 2
    OBVIOUS
  <2>3. k \in Nat /\ k \in 0 .. n /\ k \notin 0 .. k - 1 /\ \A i \in 0 .. k : i = k \/ i \in 0 .. k - 1
    BY SMT
  <2>4. k % 2 = 1 => k \div 2 \in 0 .. k - 1
    BY <2>3, Halves, SMT
  <2>5. v \in Nat
    BY <2>2, <2>4, SMT
  <2>6. PICK g : g = [i \in 0 .. k |-> IF i = k THEN v ELSE f[i]]
    OBVIOUS
  <2>7. g \in [0 .. k -> Nat] /\ (\A i \in 0 .. k - 1 : g[i] = f[i]) /\ g[k] = v
    <3>1. \A i \in 0 .. k - 1 : i \in 0 .. k /\ i # k
      BY <2>3, SMT
    <3>2. k \in 0 .. k
      BY <2>3, SMT
    <3> QED BY <2>3, <2>5, <2>6, <3>1, <3>2
  <2>8. ASSUME NEW i \in 0 .. k PROVE g[i] = IF i % 2 = 1 THEN 2 * g[i \div 2] ELSE 2
    <3>1. CASE i = k
      BY <2>2, <2>4, <2>7, <3>1
    <3>2. CASE i \in 0 .. k - 1
      <4>1. i % 2 = 1 => i \div 2 \in 0 .. k - 1
        <5>1. i \in Nat
          BY SMT
        <5> QED BY <3>2, <5>1, Halves, SMT
      <4> QED BY <2>1, <2>7, <3>2, <4>1 DEF Strides
    <3> QED BY <2>3, <3>1, <3>2
  <2> QED BY <2>3, <2>7, <2>8 DEF Strides
<1>3. Q \in SUBSET (0 .. n)
  OBVIOUS
<1> HIDE DEF Q
<1>4. n \in Q
  <2>1. Q = 0 .. n
    BY <1>1, <1>2, <1>3, Stepwise
  <2> QED BY <2>1, SMT
<1> QED BY <1>4 DEF Q

\* So Stride is what its definition says.
LEMMA StrideIs ==
  ASSUME NEW n \in Nat
  PROVE  S!Stride[n] \in Nat /\ S!Stride[n] = IF n % 2 = 1 THEN 2 * S!Stride[n \div 2] ELSE 2
<1> DEFINE f(i) == CHOOSE f \in [0 .. i -> Nat] : Strides(f, i)
           F == [i \in Nat |-> f(i)[i]]
           G(u) == [i \in Nat |-> IF i % 2 = 1 THEN 2 * u[i \div 2] ELSE 2]
<1>1. ASSUME NEW i \in Nat PROVE f(i) \in [0 .. i -> Nat] /\ Strides(f(i), i) /\ i \in 0 .. i
  <2>1. \E g \in [0 .. i -> Nat] : Strides(g, i)
    BY StridesExist
  <2> QED BY <2>1, SMT
<1> HIDE DEF f
<1>2. ASSUME NEW i \in Nat PROVE F[i] \in Nat /\ F[i] = IF i % 2 = 1 THEN 2 * F[i \div 2] ELSE 2
  <2>1. f(i)[i] \in Nat /\ f(i)[i] = IF i % 2 = 1 THEN 2 * f(i)[i \div 2] ELSE 2
    BY <1>1 DEF Strides
  <2>2. i % 2 = 1 => f(i)[i \div 2] = f(i \div 2)[i \div 2]
    <3> SUFFICES ASSUME i % 2 = 1 PROVE f(i)[i \div 2] = f(i \div 2)[i \div 2]
      OBVIOUS
    <3>1. i \div 2 \in Nat /\ i \div 2 <= i /\ i \div 2 <= i \div 2
      BY Halves, SMT
    <3>2. PICK k : k = i \div 2
      OBVIOUS
    <3>3. k \in Nat /\ k <= i /\ k <= k /\ Strides(f(i), i) /\ Strides(f(k), k)
      BY <1>1, <3>1, <3>2
    <3>4. f(i)[k] = f(k)[k]
      BY <3>3, OneStride
    <3> QED BY <3>2, <3>4
  <2> QED BY <2>1, <2>2, Halves
<1>3. F = G(F)
  BY <1>2
<1>4. S!Stride = CHOOSE u : u = G(u)
  BY DEF S!Stride
<1> HIDE DEF F, G
<1>5. S!Stride = G(S!Stride)
  BY <1>3, <1>4
<1>6. ASSUME NEW i \in Nat PROVE S!Stride[i] = IF i % 2 = 1 THEN 2 * S!Stride[i \div 2] ELSE 2
  BY <1>5 DEF G
<1>7. Strides(S!Stride, n) /\ n <= n
  BY <1>6, SMT DEF Strides
<1>8. S!Stride[n] = f(n)[n]
  BY <1>1, <1>7, OneStride
<1> QED BY <1>1, <1>6, <1>8

\* What is met from the head of the list is what is enrolled.
LEMMA StuWalk == ASSUME SInv, NEW s, Enrolled(s, sl, heap) PROVE S!Contents = s
<1>1. \A x \in heap \cup {First} : sl.next[x] \in heap \cup {First}
  BY Known2
<1>2. ContentsOf(sl.next, First) = s
  BY <1>1, ContentsIs, KListAssumption DEF Enrolled, KListAssumption
<1> QED BY <1>2, StuContents

\* At the call the cursor is on the first record.
LEMMA CallCursor ==
  ASSUME DInv, SInv', NEW f \in {"find", "del", "delall"}, NEW nm, S!Call(f, nm)
  PROVE  DInv'
<1>1. PICK s : Enrolled(s, sl, heap)
  BY DEF DInv
<1>2. pos' = sl.next[First] /\ pc' = f /\ sl' = sl /\ heap' = heap /\ before' = s
  BY <1>1, StuWalk DEF S!Call, First, DInv
<1>3. Len(s) \in Nat /\ s \in Seq(Nodes) /\ Line(First, s) /\ Follows(sl, First, s)
  BY <1>1, LenProperties DEF Enrolled, Line
<1>4. 0 \in 0 .. Len(s) /\ 0 + 1 = 1 /\ 1 \in 1 .. Len(s) + 1 /\ 0 \notin 1 .. Len(s) /\ 1 - 1 = 0 /\ \A j \in 1 .. 0 : FALSE
  BY <1>3, SMT
<1>5. pos' = Spot(First, s, 1)
  <2>1. Spot(First, s, 0) = First
    BY <1>4 DEF Spot
  <2> QED BY <1>2, <1>3, <1>4, <2>1 DEF Follows
<1>6. Round(s, s, 1, 1, Len(s))
  <2>1. /\ Len(s) + (1 - 1) = Len(s) /\ (Len(s) + 1) * 1 = Len(s) + 1 /\ 1 \in Nat
        /\ \A i \in 1 .. Len(s) : (i + (1 - 1)) * 1 = i
    BY <1>3, SMT
  <2>2. S!Stride[Len(s)] = 1 * S!Stride[Len(s)]
    <3>1. S!Stride[Len(s)] \in Nat
      BY <1>3, StrideIs
    <3> QED BY <3>1, SMT
  <2> QED BY <1>3, <1>4, <2>1, <2>2 DEF Round
<1>7. Cursor(s)'
  BY <1>2, <1>4, <1>5, <1>6 DEF Cursor
<1> QED BY <1>1, <1>2, <1>7 DEF DInv

\* The cursor of a search goes on by one place.
LEMMA GoCursor ==
  ASSUME DInv, SInv', S!FindStep \/ S!DelStep
  PROVE  DInv'
<1>1. PICK s : Enrolled(s, sl, heap) /\ Cursor(s)
  BY DEF DInv
<1>2. /\ pc \in {"find", "del"} /\ pos # First /\ name[pos] # arg /\ pos' = sl.next[pos]
      /\ UNCHANGED <<sl, name, heap, pc, arg, before>>
  BY DEF S!FindStep, S!DelStep, S!Step, First
<1>3. PICK i \in 1 .. Len(s) + 1 : pos = Spot(First, s, i) /\ \A j \in 1 .. i - 1 : name[s[j]] # arg
  BY <1>1, <1>2 DEF Cursor
<1>4. before = s /\ Follows(sl, First, s) /\ Len(s) \in Nat
  BY <1>1, <1>2, LenProperties DEF Cursor, Enrolled, Line
<1>5. i \in 1 .. Len(s) /\ pos = s[i]
  BY <1>2, <1>3 DEF Spot
<1>6. i \in 0 .. Len(s) /\ i + 1 \in 1 .. Len(s) + 1 /\ \A j \in 1 .. (i + 1) - 1 : j = i \/ j \in 1 .. i - 1
  BY <1>4, <1>5, SMT
<1>7. pos' = Spot(First, s, i + 1)
  BY <1>2, <1>3, <1>4, <1>6 DEF Follows
<1>8. \A j \in 1 .. (i + 1) - 1 : name[s[j]] # arg
  BY <1>2, <1>3, <1>5, <1>6
<1>9. Cursor(s)'
  BY <1>2, <1>4, <1>6, <1>7, <1>8 DEF Cursor
<1> QED BY <1>1, <1>2, <1>9 DEF DInv

\* One record of a round is deleted and one passed; a round that ends at a
\* deleted record begins the next one.
LEMMA RoundGoes ==
  ASSUME NEW s, Line(First, s), NEW b, NEW m \in 1 .. Len(s), NEW d, NEW L, Round(s, b, m, d, L), NEW t, Shrunk(t, s, m)
  PROVE  \/ m < Len(s) /\ Round(t, b, m + 1, d, L)
         \/ m = Len(s) /\ Round(t, b, 1, 2 * d, L \div 2)
<1>1. /\ Len(s) \in Nat /\ Len(t) = Len(s) - 1 /\ m \in Nat /\ 1 <= m /\ m <= Len(s) /\ d \in Nat /\ L \in Nat
      /\ b \in Seq(Nodes) /\ Len(s) + (m - 1) = L /\ (L + 1) * d = Len(b) + 1
      /\ S!Stride[Len(b)] = d * S!Stride[L]
  BY LenProperties, SMT DEF Line, Shrunk, Round
<1>2. /\ \A i \in 1 .. m - 1 : s[i] = b[(2 * i) * d]
      /\ \A i \in m .. Len(s) : s[i] = b[(i + (m - 1)) * d]
  BY DEF Round
<1>3. /\ \A i \in 1 .. m - 1 : t[i] = s[i]
      /\ \A i \in m .. Len(t) : t[i] = s[i + 1]
  BY DEF Shrunk
<1>4. CASE m < Len(s)
  <2>1. /\ m + 1 \in 1 .. Len(t) + 1 /\ Len(t) + ((m + 1) - 1) = L
        /\ \A i \in 1 .. (m + 1) - 1 : i \in 1 .. m - 1 \/ i = m
        /\ m \in m .. Len(t) /\ m + 1 \in m .. Len(s) /\ (m + 1) + (m - 1) = 2 * m
        /\ \A i \in m + 1 .. Len(t) : i \in m .. Len(t) /\ i + 1 \in m .. Len(s) /\ (i + 1) + (m - 1) = i + ((m + 1) - 1)
    BY <1>1, <1>4, SMT
  <2>2. \A i \in 1 .. (m + 1) - 1 : t[i] = b[(2 * i) * d]
    <3>1. t[m] = b[(2 * m) * d]
      BY <1>2, <1>3, <2>1
    <3> QED BY <1>2, <1>3, <2>1, <3>1
  <2>3. \A i \in m + 1 .. Len(t) : t[i] = b[(i + ((m + 1) - 1)) * d]
    BY <1>2, <1>3, <2>1
  <2>4. Round(t, b, m + 1, d, L)
    BY <1>1, <2>1, <2>2, <2>3 DEF Round
  <2> QED BY <1>4, <2>4
<1>5. CASE m = Len(s)
  <2>1. L % 2 = 1 /\ L \div 2 = m - 1 /\ L + 1 = 2 * m
    <3>1. L = 2 * (m - 1) + 1
      BY <1>1, <1>5, SMT
    <3> QED BY <1>1, <3>1, SMT
  <2>2. /\ 1 \in 1 .. Len(t) + 1 /\ Len(t) = m - 1 /\ m - 1 \in Nat /\ Len(t) + (1 - 1) = m - 1 /\ 2 * d \in Nat /\ (m - 1) + 1 = m
        /\ (\A i \in 1 .. 1 - 1 : FALSE) /\ \A i \in 1 .. Len(t) : i \in 1 .. m - 1 /\ i \in Nat /\ i + (1 - 1) = i
    BY <1>1, <1>5, SMT
  <2>3. ((m - 1) + 1) * (2 * d) = Len(b) + 1
    <3>1. m * (2 * d) = (2 * m) * d
      BY <1>1, SMT
    <3> QED BY <1>1, <2>1, <2>2, <3>1
  <2>4. S!Stride[Len(b)] = (2 * d) * S!Stride[m - 1]
    <3>1. S!Stride[L] = 2 * S!Stride[m - 1] /\ S!Stride[m - 1] \in Nat
      BY <1>1, <2>1, <2>2, StrideIs
    <3>2. \A x \in Nat : d * (2 * x) = (2 * d) * x
      BY <1>1, SMT
    <3> QED BY <1>1, <3>1, <3>2
  <2>5. \A i \in 1 .. Len(t) : t[i] = b[(i + (1 - 1)) * (2 * d)]
    <3> SUFFICES ASSUME NEW i \in 1 .. Len(t) PROVE t[i] = b[(i + (1 - 1)) * (2 * d)]
      OBVIOUS
    <3>1. i * (2 * d) = (2 * i) * d
      BY <1>1, <2>2, SMT
    <3> QED BY <1>2, <1>3, <2>2, <3>1
  <2>6. Round(t, b, 1, 2 * d, m - 1)
    BY <1>1, <2>2, <2>3, <2>4, <2>5 DEF Round
  <2> QED BY <1>5, <2>1, <2>6
<1> QED BY <1>1, <1>4, <1>5, SMT

\* The cursor of del_all_stu goes on by two places.
LEMMA TakeAllCursor ==
  ASSUME DInv, SInv', S!DelAllStep
  PROVE  DInv'
<1>1. PICK s : Enrolled(s, sl, heap) /\ Cursor(s)
  BY DEF DInv
<1>2. /\ pc = "delall" /\ pos # First /\ sl' = ListDel(sl, pos) /\ heap' = heap \ {pos}
      /\ pos' = sl'.next[sl.next[pos]] /\ UNCHANGED <<name, pc, arg, before>>
  BY SameOps DEF S!DelAllStep, First
<1>3. PICK m, d, L : Round(s, before, m, d, L) /\ pos = Spot(First, s, m)
  BY <1>1, <1>2 DEF Cursor
<1>4. m \in 1 .. Len(s) /\ pos = s[m] /\ m \in Nat /\ Line(First, s) /\ Follows(sl, First, s) /\ Len(s) \in Nat
  BY <1>1, <1>2, <1>3, LenProperties DEF Spot, Enrolled, Line
<1>5. pos \in heap /\ heap \in SUBSET Nodes
  BY <1>1, <1>2, Known2 DEF DInv, SInv
<1>6. PICK t, k : Enrolled(t, sl', heap') /\ s[k] = pos /\ Shrunk(t, s, k)
  BY <1>1, <1>2, <1>5, Expelled
<1>7. Shrunk(t, s, m)
  <2>1. k \in 1 .. Len(s)
    BY <1>6 DEF Shrunk
  <2> QED BY <1>4, <1>6, <2>1 DEF Line
<1>8. sl.next[pos] = Spot(First, s, m + 1) /\ Follows(sl', First, t) /\ Len(t) \in Nat /\ Len(t) = Len(s) - 1
  <2>1. m \in 0 .. Len(s)
    BY <1>4, SMT
  <2> QED BY <1>3, <1>4, <1>6, <2>1, LenProperties DEF Follows, Enrolled, Line, Shrunk
<1>9. CASE m < Len(s) /\ Round(t, before, m + 1, d, L)
  <2>1. m \in 1 .. Len(t) /\ m \in 0 .. Len(t) /\ m \in m .. Len(t) /\ m + 1 \in 1 .. Len(s)
    BY <1>4, <1>8, <1>9, SMT
  <2>2. Spot(First, s, m + 1) = Spot(First, t, m)
    BY <1>7, <2>1 DEF Spot, Shrunk
  <2>3. pos' = Spot(First, t, m + 1)
    BY <1>2, <1>8, <2>1, <2>2 DEF Follows
  <2>4. Cursor(t)'
    BY <1>2, <1>9, <2>3 DEF Cursor
  <2> QED BY <1>6, <2>4 DEF DInv
<1>10. CASE m = Len(s) /\ Round(t, before, 1, 2 * d, L \div 2)
  <2>1. m + 1 \notin 1 .. Len(s) /\ 0 \notin 1 .. Len(t) /\ 0 \in 0 .. Len(t) /\ 0 + 1 = 1
    BY <1>4, <1>8, <1>10, SMT
  <2>2. Spot(First, s, m + 1) = Spot(First, t, 0)
    BY <2>1 DEF Spot
  <2>3. pos' = Spot(First, t, 1)
    BY <1>2, <1>8, <2>1, <2>2 DEF Follows
  <2>4. Cursor(t)'
    BY <1>2, <1>10, <2>3 DEF Cursor
  <2> QED BY <1>6, <2>4 DEF DInv
<1> QED BY <1>3, <1>4, <1>7, <1>9, <1>10, RoundGoes

\* At the start no function runs.
LEMMA CursorInitial == S!Init => DInv
<1> SUFFICES ASSUME S!Init PROVE DInv
  OBVIOUS
<1>1. SInv /\ pc = "idle"
  BY StuInitial DEF S!Init
<1> QED BY <1>1 DEF DInv, SInv, Cursor

LEMMA CursorInductive == DInv /\ [S!Next]_svars => DInv'
<1> SUFFICES ASSUME DInv, [S!Next]_svars PROVE DInv'
  OBVIOUS
<1>1. SInv'
  BY StuInductive DEF DInv
<1>2. ASSUME pc' = "idle" PROVE DInv'
  BY <1>1, <1>2 DEF DInv, SInv, Cursor
<1>3. CASE UNCHANGED svars
  BY <1>1, <1>3 DEF svars, DInv, Cursor
<1>4. ASSUME NEW r \in Nodes, NEW nm \in Names, S!Insert(r, nm) PROVE DInv'
  BY <1>2, <1>4 DEF S!Insert
<1>5. ASSUME NEW nm \in Names, S!Call("find", nm) \/ S!Call("del", nm) PROVE DInv'
  BY <1>1, <1>5, CallCursor
<1>6. CASE S!Call("delall", NULL)
  BY <1>1, <1>6, CallCursor
<1>7. CASE S!Run
  <2>1. CASE S!FindReturn \/ S!DelReturn \/ S!DelAllReturn
    BY <1>2, <2>1 DEF S!FindReturn, S!DelReturn, S!DelAllReturn, S!Return
  <2>2. CASE S!FindStep \/ S!DelStep
    BY <1>1, <2>2, GoCursor
  <2>3. CASE S!DelAllStep
    BY <1>1, <2>3, TakeAllCursor
  <2> QED BY <1>7, <2>1, <2>2, <2>3 DEF S!Run
<1> QED BY <1>3, <1>4, <1>5, <1>6, <1>7 DEF S!Next

\* The first record of the name is the one the cursor found.
LEMMA FirstFound ==
  ASSUME NEW s, Line(First, s), NEW i \in 1 .. Len(s) + 1, \A j \in 1 .. i - 1 : name[s[j]] # arg
  PROVE  /\ i \in 1 .. Len(s) /\ name[s[i]] = arg => S!Match(s, arg) # {} /\ S!Min(S!Match(s, arg)) = i
         /\ i \notin 1 .. Len(s) => S!Match(s, arg) = {}
<1>1. Len(s) \in Nat /\ DOMAIN s = 1 .. Len(s)
  BY LenProperties DEF Line
<1>2. \A j \in 1 .. Len(s) : j \in 1 .. i - 1 \/ i <= j
  BY <1>1, SMT
<1>3. i \notin 1 .. Len(s) => \A j \in 1 .. Len(s) : j \in 1 .. i - 1
  BY <1>1, SMT
<1>4. S!Match(s, arg) = {j \in 1 .. Len(s) : name[s[j]] = arg}
  BY <1>1 DEF S!Match
<1>5. ASSUME i \in 1 .. Len(s), name[s[i]] = arg PROVE S!Match(s, arg) # {} /\ S!Min(S!Match(s, arg)) = i
  <2>1. PICK Q : Q = S!Match(s, arg)
    OBVIOUS
  <2>2. i \in Q /\ \A j \in Q : j \in 1 .. Len(s) /\ i <= j
    BY <1>2, <1>4, <1>5, <2>1
  <2>3. \A x \in Q : (\A y \in Q : x <= y) => x = i
    BY <1>1, <2>2, SMT
  <2>4. S!Min(Q) = i
    BY <2>2, <2>3, Zenon DEF S!Min
  <2> QED BY <2>1, <2>2, <2>4
<1> QED BY <1>3, <1>4, <1>5

\* What find_stuinfo_by_name returns and del_stuinfo deletes.
LEMMA StuMatches ==
  ASSUME DInv
  PROVE  /\ S!FindReturn => pos' = IF S!Match(S!Contents, arg) = {} THEN NULL
                                   ELSE S!Contents[S!Min(S!Match(S!Contents, arg))]
         /\ S!DelReturn => heap \ heap' = IF S!Match(before, arg) = {} THEN {}
                                          ELSE {before[S!Min(S!Match(before, arg))]}
<1>1. PICK s : Enrolled(s, sl, heap) /\ Cursor(s)
  BY DEF DInv
<1>2. Line(First, s) /\ S!Contents = s /\ First \notin Nodes /\ \A j \in 1 .. Len(s) : s[j] \in Nodes
  BY <1>1, StuWalk, ElementOfSeq, FirstIs DEF Enrolled, DInv, Line
<1>3. ASSUME S!FindReturn \/ S!DelReturn
      PROVE  /\ before = s
             /\ \E i \in 1 .. Len(s) + 1 : pos = Spot(First, s, i) /\ \A j \in 1 .. i - 1 : name[s[j]] # arg
  BY <1>1, <1>3 DEF Cursor, S!FindReturn, S!DelReturn
<1>4. ASSUME NEW i \in 1 .. Len(s) + 1, pos = Spot(First, s, i), \A j \in 1 .. i - 1 : name[s[j]] # arg
      PROVE  /\ pos = First => S!Match(s, arg) = {}
             /\ pos # First /\ name[pos] = arg => S!Match(s, arg) # {} /\ pos = s[S!Min(S!Match(s, arg))]
  <2>1. pos # First => i \in 1 .. Len(s) /\ pos = s[i]
    BY <1>4 DEF Spot
  <2>2. pos = First => i \notin 1 .. Len(s)
    BY <1>2, <1>4 DEF Spot
  <2> QED BY <1>2, <1>4, <2>1, <2>2, FirstFound
<1>5. ASSUME S!FindReturn
      PROVE  pos' = IF S!Match(s, arg) = {} THEN NULL ELSE s[S!Min(S!Match(s, arg))]
  <2>1. \/ pos = First /\ pos' = NULL
        \/ pos # First /\ name[pos] = arg /\ pos' = pos
    BY <1>5 DEF S!FindReturn, S!Return, First
  <2> QED BY <1>3, <1>4, <1>5, <2>1
<1>6. ASSUME S!DelReturn
      PROVE  heap \ heap' = IF S!Match(s, arg) = {} THEN {} ELSE {s[S!Min(S!Match(s, arg))]}
  <2>1. \/ pos = First /\ heap' = heap
        \/ pos # First /\ name[pos] = arg /\ heap' = heap \ {pos}
    BY <1>6 DEF S!DelReturn, First
  <2>2. pos \in heap \cup {First}
    BY <1>6 DEF DInv, SInv, S!DelReturn
  <2>3. pos # First => heap \ (heap \ {pos}) = {pos}
    BY <2>2
  <2> QED BY <1>3, <1>4, <1>6, <2>1, <2>3
<1> QED BY <1>2, <1>3, <1>5, <1>6

\* A quotient is known by its remainder.
LEMMA Quotient ==
  ASSUME NEW n \in Nat, NEW e \in Nat, e > 0, NEW q \in Nat, NEW x \in Int, n = e * q + x, 0 <= x, x < e
  PROVE  n \div e = q
BY SMT

\* An even round ends at the head; what it kept is every (2 * d)-th.
LEMMA RoundEnds ==
  ASSUME NEW s, Line(First, s), NEW b, NEW m, NEW d, NEW L, Round(s, b, m, d, L), m \notin 1 .. Len(s)
  PROVE  s = S!Survivors(b)
<1>1. /\ Len(s) \in Nat /\ m = Len(s) + 1 /\ L = 2 * Len(s) /\ d \in Nat /\ b \in Seq(Nodes) /\ Len(b) \in Nat
      /\ (L + 1) * d = Len(b) + 1 /\ S!Stride[Len(b)] = d * S!Stride[L] /\ L \in Nat
  <2>1. /\ Len(s) \in Nat /\ m \in 1 .. Len(s) + 1 /\ d \in Nat /\ b \in Seq(Nodes) /\ L \in Nat /\ Len(s) + (m - 1) = L
        /\ (L + 1) * d = Len(b) + 1 /\ S!Stride[Len(b)] = d * S!Stride[L]
    BY LenProperties DEF Line, Round
  <2>2. m = Len(s) + 1 /\ L = 2 * Len(s)
    BY <2>1, SMT
  <2> QED BY <2>1, <2>2, LenProperties
<1>2. PICK e : e = 2 * d
  OBVIOUS
<1>3. S!Stride[Len(b)] = e
  <2>1. S!Stride[L] = 2
    BY <1>1, StrideIs, SMT
  <2> QED BY <1>1, <1>2, <2>1, SMT
<1>4. Len(b) \div e = Len(s)
  <2>1. d # 0
    BY <1>1, SMT
  <2>2. e \in Nat /\ e > 0 /\ d - 1 \in Int /\ Len(b) = e * Len(s) + (d - 1) /\ 0 <= d - 1 /\ d - 1 < e
    <3>1. (L + 1) * d = (2 * d) * Len(s) + d
      BY <1>1, SMT
    <3> QED BY <1>1, <1>2, <2>1, <3>1, SMT
  <2> QED BY <1>1, <2>2, Quotient
<1>5. \A i \in 1 .. Len(s) : s[i] = b[i * e]
  <2> SUFFICES ASSUME NEW i \in 1 .. Len(s) PROVE s[i] = b[i * e]
    OBVIOUS
  <2>1. i * e = (2 * i) * d /\ i \in 1 .. m - 1
    BY <1>1, <1>2, SMT
  <2> QED BY <2>1 DEF Round
<1>6. S!Survivors(b) = [i \in 1 .. Len(s) |-> b[i * e]]
  BY <1>3, <1>4 DEF S!Survivors
<1>7. s = [i \in 1 .. Len(s) |-> s[i]]
  BY LenProperties DEF Line
<1> QED BY <1>5, <1>6, <1>7

\* What del_all_stu leaves.
LEMMA StuLeaves == ASSUME DInv, S!DelAllReturn PROVE S!Contents = S!Survivors(before)
<1>1. PICK s : Enrolled(s, sl, heap) /\ Cursor(s)
  BY DEF DInv
<1>2. Line(First, s) /\ S!Contents = s /\ \A j \in 1 .. Len(s) : s[j] \in Nodes
  BY <1>1, StuWalk, ElementOfSeq DEF Enrolled, DInv, Line
<1>3. PICK m, d, L : Round(s, before, m, d, L) /\ pos = Spot(First, s, m)
  BY <1>1 DEF Cursor, S!DelAllReturn
<1>4. m \notin 1 .. Len(s)
  BY <1>2, <1>3, FirstIs DEF Spot, S!DelAllReturn, First
<1> QED BY <1>2, <1>3, <1>4, RoundEnds

\* find_stuinfo_by_name and del_stuinfo take the first record of the name, and
\* del_all_stu leaves the records that Survivors says, whatever their number.
THEOREM DeletesAlwaysAsTold == MCSpec => DeletesAsTold
<1>1. MCInit => DInv
  BY CursorInitial DEF MCInit
<1>2. DInv /\ [MCNext]_allVars => DInv'
  BY CursorInductive, StudentsApart
<1>3. DInv /\ [MCNext]_allVars =>
        [ /\ S!FindReturn => pos' = IF S!Match(S!Contents, arg) = {} THEN NULL
                                    ELSE S!Contents[S!Min(S!Match(S!Contents, arg))]
          /\ S!DelReturn => heap \ heap' = IF S!Match(before, arg) = {} THEN {}
                                           ELSE {before[S!Min(S!Match(before, arg))]} ]_(S!vars)
  BY StuMatches
<1>4. DInv /\ [MCNext]_allVars => [S!DelAllReturn => S!Contents = S!Survivors(before)]_(S!vars)
  BY StuLeaves
<1> QED BY <1>1, <1>2, <1>3, <1>4, PTL DEF MCSpec, DeletesAsTold, S!FirstMatch, S!DelAllLeaves

-----------------------------------------------------------------------------
(* The hash lists: chains of a head and the nodes of a sequence, in order.  *)

\* The object at place i of the chain, and NULL behind the last.
Place(h, s, i) == IF i \in 1 .. Len(s) THEN s[i] ELSE IF i = 0 THEN h ELSE NULL

\* first, next and pprev lead along s and back.
Chain(f, b, h, s) ==
  /\ \A i \in 0 .. Len(s) : f[Place(h, s, i)] = Place(h, s, i + 1)
  /\ \A i \in 1 .. Len(s) : b[Place(h, s, i)] = Place(h, s, i - 1)

\* Heads, nodes and the special values of the hash lists are told apart.
LEMMA HKinds ==
  /\ \A n \in Nodes : n \in Objects /\ n \notin Heads /\ n # NULL /\ n # POISON1 /\ n # POISON2
  /\ \A h \in Heads : h \in Objects /\ h \notin Nodes /\ h # NULL /\ h # POISON1 /\ h # POISON2
  /\ NULL # POISON1 /\ NULL # POISON2 /\ NULL \notin Objects /\ H!Objects = Objects
BY KListAssumption DEF KListAssumption, Objects, H!Objects

\* What stands at place i of a chain.
LEMMA PlacesAre ==
  ASSUME NEW h \in Heads, NEW s, Line(h, s), NEW i \in Nat
  PROVE  /\ Len(s) \in Nat
         /\ i \in 1 .. Len(s) => Place(h, s, i) = s[i] /\ s[i] \in Nodes /\ In(s[i], s)
         /\ i = 0 => Place(h, s, i) = h
         /\ i > Len(s) => Place(h, s, i) = NULL
<1>1. Len(s) \in Nat /\ \A x \in 1 .. Len(s) : s[x] \in Nodes
  BY LenProperties, ElementOfSeq DEF Line
<1>2. i = 0 => i \notin 1 .. Len(s)
  BY <1>1, SMT
<1>3. i > Len(s) => i \notin 1 .. Len(s) /\ i # 0
  BY <1>1, SMT
<1> QED BY <1>1, <1>2, <1>3 DEF Place, In

\* No object has two places in a chain.
LEMMA PlacesDiffer ==
  ASSUME NEW h \in Heads, NEW s, Line(h, s), NEW i \in Nat, NEW j \in Nat, Place(h, s, i) = Place(h, s, j),
         i <= Len(s) + 1, j <= Len(s) + 1
  PROVE  i = j
<1>1. Len(s) \in Nat /\ \A x \in 1 .. Len(s) : s[x] \in Nodes
  BY LenProperties, ElementOfSeq DEF Line
<1>2. \A x \in Nat : x <= Len(s) + 1 => x = 0 \/ x \in 1 .. Len(s) \/ x = Len(s) + 1
  BY <1>1, SMT
<1>3. Place(h, s, 0) = h /\ Place(h, s, Len(s) + 1) = NULL /\ \A x \in 1 .. Len(s) : Place(h, s, x) = s[x]
  <2>1. 0 \notin 1 .. Len(s) /\ Len(s) + 1 \notin 1 .. Len(s) /\ Len(s) + 1 # 0
    BY <1>1, SMT
  <2> QED BY <2>1 DEF Place
<1> QED BY <1>1, <1>2, <1>3, HKinds DEF Line

\* What touches no object of the chain leaves it alone.
LEMMA ChainStays ==
  ASSUME NEW h \in Heads, NEW s, Line(h, s), NEW f, NEW b, NEW g, NEW d, Chain(f, b, h, s),
         f[h] = g[h], \A n \in Nodes : In(n, s) => f[n] = g[n] /\ b[n] = d[n]
  PROVE  Chain(g, d, h, s)
<1>1. Len(s) \in Nat /\ \A i \in 1 .. Len(s) : s[i] \in Nodes /\ In(s[i], s)
  BY LenProperties, ElementOfSeq DEF Line, In
<1>2. \A i \in 0 .. Len(s) : i = 0 \/ i \in 1 .. Len(s)
  BY <1>1, SMT
<1>3. Place(h, s, 0) = h /\ \A i \in 1 .. Len(s) : Place(h, s, i) = s[i]
  <2>1. 0 \notin 1 .. Len(s)
    BY SMT
  <2> QED BY <2>1 DEF Place
<1>4. ASSUME NEW i \in 0 .. Len(s) PROVE g[Place(h, s, i)] = Place(h, s, i + 1)
  BY <1>1, <1>2, <1>3 DEF Chain
<1>5. ASSUME NEW i \in 1 .. Len(s) PROVE d[Place(h, s, i)] = Place(h, s, i - 1)
  BY <1>1, <1>3 DEF Chain
<1> QED BY <1>4, <1>5 DEF Chain

\* A node is hung in behind place m.
LEMMA ChainGrows ==
  ASSUME NEW h \in Heads, NEW s, Line(h, s), NEW f, NEW b, Chain(f, b, h, s),
         NEW n \in Nodes, ~In(n, s), NEW m, NEW t, Grown(t, s, n, m), NEW u, NEW v,
         u = Place(h, s, m), v = Place(h, s, m + 1), NEW g, NEW d,
         g[n] = v, g[u] = n, \A x \in Objects : x # n /\ x # u => g[x] = f[x],
         d[n] = u, v \in Nodes => d[v] = n, \A x \in Nodes : x # n /\ x # v => d[x] = b[x]
  PROVE  Chain(g, d, h, t)
<1>1. Len(s) \in Nat /\ m \in Nat /\ m <= Len(s) /\ Len(t) = Len(s) + 1 /\ m + 1 \in Nat
  BY LenProperties, SMT DEF Line, Grown
<1>2. \A i \in 1 .. Len(s) : s[i] \in Nodes /\ s[i] \in Objects /\ s[i] # n
  BY ElementOfSeq DEF Line, In, Objects
<1>3. /\ \A i \in 0 .. m : Place(h, t, i) = Place(h, s, i)
      /\ Place(h, t, m + 1) = n
      /\ \A i \in m + 1 .. Len(s) + 1 : Place(h, t, i + 1) = Place(h, s, i)
  <2>1. Place(h, t, m + 1) = n
    BY <1>1, SMT DEF Place, Grown
  <2>2. ASSUME NEW i \in 0 .. m PROVE Place(h, t, i) = Place(h, s, i)
    BY <1>1, SMT DEF Place, Grown
  <2>3. ASSUME NEW i \in m + 1 .. Len(s) + 1 PROVE Place(h, t, i + 1) = Place(h, s, i)
    BY <1>1, SMT DEF Place, Grown
  <2> QED BY <2>1, <2>2, <2>3
<1>4. /\ \A i \in 0 .. Len(s) : Place(h, s, i) \in Objects /\ Place(h, s, i) # n
      /\ \A i \in 1 .. Len(s) : Place(h, s, i) \in Nodes
  <2>1. \A i \in 0 .. Len(s) : i = 0 \/ i \in 1 .. Len(s)
    BY <1>1, SMT
  <2>2. Place(h, s, 0) = h
    BY SMT DEF Place
  <2> QED BY <1>2, <2>1, <2>2, HKinds DEF Place
<1>5. ASSUME NEW i \in 0 .. Len(t) PROVE g[Place(h, t, i)] = Place(h, t, i + 1)
  <2>1. CASE i < m
    <3>1. i \in 0 .. m /\ i + 1 \in 0 .. m /\ i \in 0 .. Len(s) /\ i # m /\ i \in Nat /\ i <= Len(s) + 1 /\ m <= Len(s) + 1
      BY <1>1, <2>1, SMT
    <3>2. Place(h, s, i) # u
      BY <1>1, <3>1, PlacesDiffer
    <3> QED BY <1>3, <1>4, <3>1, <3>2 DEF Chain
  <2>2. CASE i = m
    <3>1. m \in 0 .. m
      BY <1>1, SMT
    <3> QED BY <1>3, <2>2, <3>1
  <2>3. CASE i = m + 1
    <3>1. m + 1 \in m + 1 .. Len(s) + 1
      BY <1>1, SMT
    <3> QED BY <1>3, <2>3, <3>1
  <2>4. CASE i > m + 1
    <3> DEFINE j == i - 1
    <3>1. /\ j \in m + 1 .. Len(s) + 1 /\ j + 1 \in m + 1 .. Len(s) + 1 /\ j + 1 = i /\ j \in 0 .. Len(s)
          /\ j \in Nat /\ j # m /\ j <= Len(s) + 1 /\ m <= Len(s) + 1
      BY <1>1, <2>4, SMT
    <3> HIDE DEF j
    <3>2. Place(h, s, j) # u
      BY <1>1, <3>1, PlacesDiffer
    <3>3. Place(h, t, i) = Place(h, s, j) /\ Place(h, t, i + 1) = Place(h, s, j + 1)
      BY <1>3, <3>1
    <3> QED BY <1>4, <3>1, <3>2, <3>3 DEF Chain
  <2> QED BY <1>1, <2>1, <2>2, <2>3, <2>4, SMT
<1>6. ASSUME NEW i \in 1 .. Len(t) PROVE d[Place(h, t, i)] = Place(h, t, i - 1)
  <2>1. CASE i < m + 1
    <3>1. /\ i \in 0 .. m /\ i - 1 \in 0 .. m /\ i \in 1 .. Len(s) /\ i # m + 1 /\ i \in Nat
          /\ i <= Len(s) + 1 /\ m + 1 <= Len(s) + 1 /\ i \in 0 .. Len(s)
      BY <1>1, <2>1, SMT
    <3>2. Place(h, s, i) # v
      BY <1>1, <3>1, PlacesDiffer
    <3> QED BY <1>3, <1>4, <3>1, <3>2 DEF Chain
  <2>2. CASE i = m + 1
    <3>1. m \in 0 .. m /\ i - 1 = m
      BY <1>1, <2>2, SMT
    <3> QED BY <1>3, <2>2, <3>1
  <2>3. CASE i = m + 2
    <3>1. m + 1 \in m + 1 .. Len(s) + 1 /\ m + 1 \in 1 .. Len(s) /\ (m + 1) + 1 = i /\ i - 1 = m + 1
      BY <1>1, <2>3, SMT
    <3>2. Place(h, t, i) = v /\ v \in Nodes
      BY <1>3, <1>4, <3>1
    <3> QED BY <1>3, <3>1, <3>2
  <2>4. CASE i > m + 2
    <3> DEFINE j == i - 1
    <3>1. /\ j \in m + 1 .. Len(s) + 1 /\ j - 1 \in m + 1 .. Len(s) + 1 /\ j + 1 = i /\ (j - 1) + 1 = i - 1
          /\ j \in 1 .. Len(s) /\ j \in 0 .. Len(s) /\ j \in Nat /\ j # m + 1 /\ j <= Len(s) + 1 /\ m + 1 <= Len(s) + 1
      BY <1>1, <2>4, SMT
    <3> HIDE DEF j
    <3>2. Place(h, s, j) # v
      BY <1>1, <3>1, PlacesDiffer
    <3>3. Place(h, t, i) = Place(h, s, j) /\ Place(h, t, i - 1) = Place(h, s, j - 1)
      BY <1>3, <3>1
    <3> QED BY <1>4, <3>1, <3>2, <3>3 DEF Chain
  <2> QED BY <1>1, <2>1, <2>2, <2>3, <2>4, SMT
<1> QED BY <1>5, <1>6 DEF Chain

\* The node at place m is taken out.
LEMMA ChainShrinks ==
  ASSUME NEW h \in Heads, NEW s, Line(h, s), NEW f, NEW b, Chain(f, b, h, s),
         NEW m, NEW t, Shrunk(t, s, m), NEW u, NEW v,
         u = Place(h, s, m - 1), v = Place(h, s, m + 1), NEW g, NEW d,
         g[u] = v, \A x \in Objects : x # s[m] /\ x # u => g[x] = f[x],
         v \in Nodes => d[v] = u, \A x \in Nodes : x # s[m] /\ x # v => d[x] = b[x]
  PROVE  Chain(g, d, h, t)
<1>1. /\ Len(s) \in Nat /\ m \in Nat /\ 1 <= m /\ m <= Len(s) /\ Len(t) = Len(s) - 1 /\ m + 1 \in Nat /\ m - 1 \in Nat
      /\ m \in 1 .. Len(s)
  BY LenProperties, SMT DEF Line, Shrunk
<1>2. \A i \in 1 .. Len(s) : s[i] \in Nodes /\ s[i] \in Objects /\ Place(h, s, i) = s[i]
  BY ElementOfSeq DEF Line, Objects, Place
<1>3. /\ \A i \in 0 .. m - 1 : Place(h, t, i) = Place(h, s, i)
      /\ \A i \in m .. Len(s) : Place(h, t, i) = Place(h, s, i + 1)
  <2>2. ASSUME NEW i \in 0 .. m - 1 PROVE Place(h, t, i) = Place(h, s, i)
    BY <1>1, SMT DEF Place, Shrunk
  <2>3. ASSUME NEW i \in m .. Len(s) PROVE Place(h, t, i) = Place(h, s, i + 1)
    BY <1>1, SMT DEF Place, Shrunk
  <2> QED BY <2>2, <2>3
<1>4. \A i \in 0 .. Len(s) : Place(h, s, i) \in Objects /\ (i # m => Place(h, s, i) # s[m])
  <2>1. \A i \in 0 .. Len(s) : i = 0 \/ i \in 1 .. Len(s)
    BY <1>1, SMT
  <2>2. Place(h, s, 0) = h
    BY SMT DEF Place
  <2> QED BY <1>1, <1>2, <2>1, <2>2, HKinds DEF Line
<1>5. ASSUME NEW i \in 0 .. Len(t) PROVE g[Place(h, t, i)] = Place(h, t, i + 1)
  <2>1. CASE i < m - 1
    <3>1. /\ i \in 0 .. m - 1 /\ i + 1 \in 0 .. m - 1 /\ i \in 0 .. Len(s) /\ i # m /\ i # m - 1 /\ i \in Nat
          /\ i <= Len(s) + 1 /\ m - 1 <= Len(s) + 1
      BY <1>1, <2>1, SMT
    <3>2. Place(h, s, i) # u
      BY <1>1, <3>1, PlacesDiffer
    <3> QED BY <1>3, <1>4, <3>1, <3>2 DEF Chain
  <2>2. CASE i = m - 1
    <3>1. m - 1 \in 0 .. m - 1 /\ m \in m .. Len(s) /\ i + 1 = m
      BY <1>1, <2>2, SMT
    <3> QED BY <1>3, <2>2, <3>1
  <2>3. CASE i > m - 1
    <3>1. /\ i \in m .. Len(s) /\ i + 1 \in m .. Len(s) /\ i + 1 \in 0 .. Len(s) /\ i + 1 # m /\ i + 1 # m - 1
          /\ i + 1 \in Nat /\ i + 1 <= Len(s) + 1 /\ m - 1 <= Len(s) + 1
      BY <1>1, <2>3, SMT
    <3>2. Place(h, s, i + 1) # u
      BY <1>1, <3>1, PlacesDiffer
    <3>3. Place(h, t, i) = Place(h, s, i + 1) /\ Place(h, t, i + 1) = Place(h, s, (i + 1) + 1)
      BY <1>3, <3>1
    <3> QED BY <1>4, <3>1, <3>2, <3>3 DEF Chain
  <2> QED BY <1>1, <2>1, <2>2, <2>3, SMT
<1>6. ASSUME NEW i \in 1 .. Len(t) PROVE d[Place(h, t, i)] = Place(h, t, i - 1)
  <2>1. CASE i < m
    <3>1. /\ i \in 0 .. m - 1 /\ i - 1 \in 0 .. m - 1 /\ i \in 1 .. Len(s) /\ i # m /\ i # m + 1 /\ i \in Nat
          /\ i <= Len(s) + 1 /\ m + 1 <= Len(s) + 1 /\ i \in 0 .. Len(s)
      BY <1>1, <2>1, SMT
    <3>2. Place(h, s, i) # v
      BY <1>1, <3>1, PlacesDiffer
    <3>3. Place(h, s, i) \in Nodes
      BY <1>2, <3>1
    <3> QED BY <1>3, <1>4, <3>1, <3>2, <3>3 DEF Chain
  <2>2. CASE i = m
    <3>1. m \in m .. Len(s) /\ m - 1 \in 0 .. m - 1 /\ m + 1 \in 1 .. Len(s)
      BY <1>1, <2>2, SMT
    <3>2. v \in Nodes
      BY <1>2, <3>1
    <3> QED BY <1>3, <2>2, <3>1, <3>2
  <2>3. CASE i > m
    <3>1. /\ i \in m .. Len(s) /\ i - 1 \in m .. Len(s) /\ (i - 1) + 1 = i /\ i + 1 \in 1 .. Len(s) /\ (i + 1) - 1 = i
          /\ i + 1 \in 0 .. Len(s) /\ i + 1 # m /\ i + 1 # m + 1 /\ i + 1 \in Nat /\ i + 1 <= Len(s) + 1 /\ m + 1 <= Len(s) + 1
      BY <1>1, <2>3, SMT
    <3>2. Place(h, s, i + 1) # v
      BY <1>1, <3>1, PlacesDiffer
    <3>3. Place(h, t, i) = Place(h, s, i + 1) /\ Place(h, t, i - 1) = Place(h, s, i) /\ Place(h, s, i + 1) \in Nodes
      BY <1>2, <1>3, <3>1
    <3>4. b[Place(h, s, i + 1)] = Place(h, s, (i + 1) - 1)
      BY <3>1 DEF Chain
    <3> QED BY <1>4, <3>1, <3>2, <3>3, <3>4
  <2> QED BY <1>1, <2>1, <2>2, <2>3, SMT
<1> QED BY <1>5, <1>6 DEF Chain

\* The chains of the initialised heads follow the sequences of c, which hold
\* the nodes that are on the lists.
Chained(c, f, b, o) ==
  /\ c = [h \in Heads |-> c[h]]
  /\ \A h \in Heads : /\ Line(h, c[h])
                      /\ f[h] # POISON1 => Chain(f, b, h, c[h])
                      /\ f[h] = POISON1 => c[h] = <<>>
  /\ \A h \in Heads, n \in Nodes : In(n, c[h]) <=> o[n] = h

HInv == H!TypeOK /\ \E c : Chained(c, fwd, pprev, hashed)

\* Each sequence has a node more, a node less or is the same.
OneNode(c, e) ==
  \A h \in Heads : e[h] = c[h] \/ (\E n, m : Grown(e[h], c[h], n, m)) \/ \E m : Shrunk(e[h], c[h], m)

\* What a step makes of the sequences.
HStepped == \E c, e : Chained(c, fwd, pprev, hashed) /\ Chained(e, fwd', pprev', hashed') /\ OneNode(c, e)

\* An unready head holds nothing.
LEMMA HashedReady ==
  ASSUME NEW c, NEW f, NEW b, NEW o, Chained(c, f, b, o), NEW n \in Nodes, NEW h \in Heads, o[n] = h
  PROVE  f[h] # POISON1 /\ In(n, c[h]) /\ Line(h, c[h]) /\ Chain(f, b, h, c[h])
<1>1. In(n, c[h])
  BY DEF Chained
<1>2. c[h] # <<>>
  <2>1. Len(<<>>) = 0 /\ \A i \in 1 .. 0 : FALSE
    BY EmptySeq, SMT
  <2> QED BY <1>1, <2>1 DEF In
<1> QED BY <1>1, <1>2 DEF Chained

\* What touches no node on a list and no head leaves the chains alone.
LEMMA ChainsStay ==
  ASSUME NEW c, NEW f, NEW b, NEW g, NEW d, NEW o, Chained(c, f, b, o),
         \A h \in Heads : g[h] = f[h],
         \A n \in Nodes : o[n] # NULL => g[n] = f[n] /\ d[n] = b[n]
  PROVE  Chained(c, g, d, o)
<1> SUFFICES ASSUME NEW h \in Heads, f[h] # POISON1 PROVE Chain(g, d, h, c[h])
  BY DEF Chained
<1>1. Line(h, c[h]) /\ Chain(f, b, h, c[h]) /\ \A n \in Nodes : In(n, c[h]) => g[n] = f[n] /\ d[n] = b[n]
  BY HKinds DEF Chained
<1> QED BY <1>1, ChainStays

\* n is hung in between u and v, in the fields and in what the user knows.
Hung(n, h, u, v, f, b, o, g, d, q) ==
  /\ g[n] = v /\ g[u] = n /\ \A x \in Objects : x # n /\ x # u => g[x] = f[x]
  /\ d[n] = u /\ (v \in Nodes => d[v] = n) /\ \A x \in Nodes : x # n /\ x # v => d[x] = b[x]
  /\ q[n] = h /\ \A x \in Nodes : x # n => q[x] = o[x]

\* n is taken out from between u and v.
Taken(n, u, v, f, b, o, g, d, q) ==
  /\ g[u] = v /\ \A x \in Objects : x # n /\ x # u => g[x] = f[x]
  /\ (v \in Nodes => d[v] = u) /\ \A x \in Nodes : x # n /\ x # v => d[x] = b[x]
  /\ q[n] = NULL /\ \A x \in Nodes : x # n => q[x] = o[x]

\* A node is hung in.
LEMMA HangThreads ==
  ASSUME NEW c, NEW f, NEW b, NEW o \in [Nodes -> Heads \cup {NULL}], Chained(c, f, b, o),
         NEW n \in Nodes, o[n] = NULL, NEW h \in Heads, f[h] # POISON1,
         NEW m, NEW t, Grown(t, c[h], n, m), NEW u, NEW v,
         u = Place(h, c[h], m), v = Place(h, c[h], m + 1), NEW g, NEW d,
         NEW q, Hung(n, h, u, v, f, b, o, g, d, q)
  PROVE  \E e : Chained(e, g, d, q) /\ OneNode(c, e)
<1> USE DEF Hung
<1>1. PICK s : s = c[h]
  OBVIOUS
<1>2. Line(h, s) /\ Chain(f, b, h, s) /\ ~In(n, s) /\ Grown(t, s, n, m) /\ u = Place(h, s, m) /\ v = Place(h, s, m + 1)
  BY <1>1, HKinds DEF Chained
<1>3. Line(h, t) /\ \A x : In(x, t) <=> (x = n \/ In(x, s))
  BY <1>2, GrownIs
<1>4. Chain(g, d, h, t)
  BY <1>2, ChainGrows
<1>5. (u = h \/ (u \in Nodes /\ In(u, s))) /\ (v = NULL \/ (v \in Nodes /\ In(v, s)))
  <2>1. Len(s) \in Nat /\ m \in Nat /\ m + 1 \in Nat /\ (m = 0 \/ m \in 1 .. Len(s)) /\ (m + 1 > Len(s) \/ m + 1 \in 1 .. Len(s))
    BY <1>2, LenProperties, SMT DEF Line, Grown
  <2> QED BY <1>2, <2>1, PlacesAre
<1>6. ASSUME NEW k \in Heads, k # h PROVE Line(k, c[k]) /\ (g[k] # POISON1 => Chain(g, d, k, c[k])) /\ (g[k] = POISON1 => c[k] = <<>>)
  <2>1. k # n /\ k # u /\ k \in Objects
    BY <1>5, <1>6, HKinds
  <2>2. g[k] = f[k] /\ Line(k, c[k])
    BY <2>1 DEF Chained
  <2>3. ASSUME NEW x \in Nodes, In(x, c[k]) PROVE g[x] = f[x] /\ d[x] = b[x]
    <3>1. o[x] = k
      BY <2>3 DEF Chained
    <3>2. ~In(x, s) /\ x # n /\ x # h /\ x \in Objects
      BY <1>1, <1>6, <3>1, HKinds DEF Chained
    <3> QED BY <1>5, <3>2, HKinds
  <2>4. ASSUME g[k] # POISON1 PROVE Chain(g, d, k, c[k])
    <3>1. Chain(f, b, k, c[k])
      BY <2>2, <2>4 DEF Chained
    <3> QED BY <2>2, <2>3, <3>1, ChainStays
  <2> QED BY <2>2, <2>4 DEF Chained
<1>7. g[h] # POISON1
  <2>1. u # h => g[h] = f[h]
    BY HKinds
  <2> QED BY <2>1, HKinds
<1>8. PICK e : e = [c EXCEPT ![h] = t]
  OBVIOUS
<1>9. e = [k \in Heads |-> e[k]] /\ e[h] = t /\ \A k \in Heads : k # h => e[k] = c[k]
  BY <1>8 DEF Chained
<1>10. ASSUME NEW k \in Heads
       PROVE  Line(k, e[k]) /\ (g[k] # POISON1 => Chain(g, d, k, e[k])) /\ (g[k] = POISON1 => e[k] = <<>>)
  <2>1. CASE k = h
    BY <1>3, <1>4, <1>7, <1>9, <2>1
  <2>2. CASE k # h
    BY <1>6, <1>9, <2>2
  <2> QED BY <2>1, <2>2
<1>11. ASSUME NEW k \in Heads, NEW x \in Nodes PROVE In(x, e[k]) <=> q[x] = k
  <2>1. q[x] = IF x = n THEN h ELSE o[x]
    OBVIOUS
  <2>2. In(x, c[k]) <=> o[x] = k
    BY DEF Chained
  <2> QED BY <1>1, <1>3, <1>9, <2>1, <2>2, HKinds
<1>12. Chained(e, g, d, q)
  BY <1>9, <1>10, <1>11 DEF Chained
<1>13. OneNode(c, e)
  BY <1>9 DEF OneNode
<1> QED BY <1>12, <1>13

\* A node is taken out.
LEMMA TakeThreads ==
  ASSUME NEW c, NEW f, NEW b, NEW o \in [Nodes -> Heads \cup {NULL}], Chained(c, f, b, o),
         NEW n \in Nodes, NEW h \in Heads, o[n] = h, f[h] # POISON1,
         NEW m, NEW t, Shrunk(t, c[h], m), c[h][m] = n, NEW u, NEW v,
         u = Place(h, c[h], m - 1), v = Place(h, c[h], m + 1), NEW g, NEW d,
         NEW q, Taken(n, u, v, f, b, o, g, d, q)
  PROVE  \E e : Chained(e, g, d, q) /\ OneNode(c, e)
<1> USE DEF Taken
<1>1. PICK s : s = c[h]
  OBVIOUS
<1>2. /\ Line(h, s) /\ Chain(f, b, h, s) /\ Shrunk(t, s, m) /\ s[m] = n
      /\ u = Place(h, s, m - 1) /\ v = Place(h, s, m + 1)
  BY <1>1, HKinds DEF Chained
<1>3. Line(h, t) /\ \A x : In(x, t) <=> (x # n /\ In(x, s))
  BY <1>2, ShrunkIs
<1>4. Chain(g, d, h, t)
  BY <1>2, ChainShrinks
<1>5. (u = h \/ (u \in Nodes /\ In(u, s))) /\ (v = NULL \/ (v \in Nodes /\ In(v, s)))
  <2>1. /\ Len(s) \in Nat /\ m - 1 \in Nat /\ m + 1 \in Nat /\ (m - 1 = 0 \/ m - 1 \in 1 .. Len(s))
        /\ (m + 1 > Len(s) \/ m + 1 \in 1 .. Len(s))
    BY <1>2, LenProperties, SMT DEF Line, Shrunk
  <2> QED BY <1>2, <2>1, PlacesAre
<1>6. ASSUME NEW k \in Heads, k # h PROVE Line(k, c[k]) /\ (g[k] # POISON1 => Chain(g, d, k, c[k])) /\ (g[k] = POISON1 => c[k] = <<>>)
  <2>1. k # n /\ k # u /\ k \in Objects
    BY <1>5, <1>6, HKinds
  <2>2. g[k] = f[k] /\ Line(k, c[k])
    BY <2>1 DEF Chained
  <2>3. ASSUME NEW x \in Nodes, In(x, c[k]) PROVE g[x] = f[x] /\ d[x] = b[x]
    <3>1. o[x] = k
      BY <2>3 DEF Chained
    <3>2. ~In(x, s) /\ x # n /\ x # h /\ x \in Objects
      BY <1>1, <1>6, <3>1, HKinds DEF Chained
    <3> QED BY <1>5, <3>2, HKinds
  <2>4. ASSUME g[k] # POISON1 PROVE Chain(g, d, k, c[k])
    <3>1. Chain(f, b, k, c[k])
      BY <2>2, <2>4 DEF Chained
    <3> QED BY <2>2, <2>3, <3>1, ChainStays
  <2> QED BY <2>2, <2>4 DEF Chained
<1>7. g[h] # POISON1
  <2>1. u # h => g[h] = f[h]
    BY HKinds
  <2> QED BY <1>5, <2>1, HKinds
<1>8. PICK e : e = [c EXCEPT ![h] = t]
  OBVIOUS
<1>9. e = [k \in Heads |-> e[k]] /\ e[h] = t /\ \A k \in Heads : k # h => e[k] = c[k]
  BY <1>8 DEF Chained
<1>10. ASSUME NEW k \in Heads
       PROVE  Line(k, e[k]) /\ (g[k] # POISON1 => Chain(g, d, k, e[k])) /\ (g[k] = POISON1 => e[k] = <<>>)
  <2>1. CASE k = h
    BY <1>3, <1>4, <1>7, <1>9, <2>1
  <2>2. CASE k # h
    BY <1>6, <1>9, <2>2
  <2> QED BY <2>1, <2>2
<1>11. ASSUME NEW k \in Heads, NEW x \in Nodes PROVE In(x, e[k]) <=> q[x] = k
  <2>1. q[x] = IF x = n THEN NULL ELSE o[x]
    OBVIOUS
  <2>2. In(x, c[k]) <=> o[x] = k
    BY DEF Chained
  <2> QED BY <1>1, <1>3, <1>9, <2>1, <2>2, HKinds
<1>12. Chained(e, g, d, q)
  BY <1>9, <1>10, <1>11 DEF Chained
<1>13. OneNode(c, e)
  BY <1>9 DEF OneNode
<1> QED BY <1>12, <1>13

\* Where a node on a list is, and what it and its fields point to.
LEMMA SeatIs ==
  ASSUME NEW c, NEW f, NEW b, NEW o, Chained(c, f, b, o), NEW n \in Nodes, NEW h \in Heads, o[n] = h
  PROVE  \E m \in 1 .. Len(c[h]) :
           /\ c[h][m] = n /\ m \in Nat /\ m - 1 \in Nat /\ m - 1 \in 0 .. Len(c[h]) /\ m \in 0 .. Len(c[h])
           /\ f[n] = Place(h, c[h], m + 1) /\ b[n] = Place(h, c[h], m - 1) /\ n = Place(h, c[h], m)
           /\ f[b[n]] = n /\ (f[n] \in Nodes => b[f[n]] = n)
           /\ (b[n] = h \/ (b[n] \in Nodes /\ o[b[n]] = h)) /\ (f[n] = NULL \/ (f[n] \in Nodes /\ o[f[n]] = h))
           /\ f[n] # n /\ b[n] # n
<1>1. In(n, c[h]) /\ Line(h, c[h]) /\ Chain(f, b, h, c[h])
  BY HashedReady
<1>2. PICK s : s = c[h]
  OBVIOUS
<1>3. PICK m \in 1 .. Len(s) : s[m] = n
  BY <1>1, <1>2 DEF In
<1>4. /\ Len(s) \in Nat /\ m \in Nat /\ m - 1 \in Nat /\ m - 1 \in 0 .. Len(s) /\ m \in 0 .. Len(s) /\ (m - 1) + 1 = m
      /\ m + 1 \in Nat /\ (m - 1 = 0 \/ m - 1 \in 1 .. Len(s)) /\ (m + 1 > Len(s) \/ (m + 1 \in 1 .. Len(s) /\ (m + 1) - 1 = m))
      /\ m + 1 # m /\ m - 1 # m /\ m - 1 <= Len(s) + 1 /\ m + 1 <= Len(s) + 1 /\ m <= Len(s) + 1
  BY <1>1, <1>2, LenProperties, SMT DEF Line
<1>5. n = Place(h, s, m)
  BY <1>3 DEF Place
<1>6. f[n] = Place(h, s, m + 1) /\ b[n] = Place(h, s, m - 1) /\ f[b[n]] = n
  <2>1. f[Place(h, s, m)] = Place(h, s, m + 1) /\ b[Place(h, s, m)] = Place(h, s, m - 1)
    BY <1>1, <1>2, <1>4 DEF Chain
  <2>2. f[Place(h, s, m - 1)] = Place(h, s, (m - 1) + 1)
    BY <1>1, <1>2, <1>4 DEF Chain
  <2> QED BY <1>4, <1>5, <2>1, <2>2
<1>7. b[n] = h \/ (b[n] \in Nodes /\ o[b[n]] = h)
  BY <1>1, <1>2, <1>4, <1>6, PlacesAre DEF Chained
<1>8. f[n] = NULL \/ (f[n] \in Nodes /\ o[f[n]] = h /\ b[f[n]] = n)
  <2>1. CASE m + 1 > Len(s)
    BY <1>1, <1>2, <1>4, <1>6, <2>1, PlacesAre
  <2>2. CASE m + 1 \in 1 .. Len(s)
    <3>1. b[Place(h, s, m + 1)] = Place(h, s, (m + 1) - 1) /\ (m + 1) - 1 = m
      BY <1>1, <1>2, <1>4, <2>2 DEF Chain
    <3>2. f[n] \in Nodes /\ In(f[n], s)
      BY <1>1, <1>2, <1>4, <1>6, <2>2, PlacesAre
    <3>3. b[f[n]] = n
      BY <1>5, <1>6, <3>1
    <3> QED BY <1>2, <3>2, <3>3 DEF Chained
  <2> QED BY <1>4, <2>1, <2>2
<1>9. f[n] # n /\ b[n] # n
  BY <1>1, <1>2, <1>4, <1>5, <1>6, PlacesDiffer
<1>10. (f[n] \in Nodes => b[f[n]] = n) /\ (f[n] = NULL \/ (f[n] \in Nodes /\ o[f[n]] = h))
  BY <1>8, HKinds
<1> QED BY <1>2, <1>3, <1>4, <1>5, <1>6, <1>7, <1>9, <1>10

\* What every step starts from.
LEMMA Known3 ==
  ASSUME HInv
  PROVE  /\ fwd \in [Objects -> Nodes \cup {NULL, POISON1}]
         /\ pprev \in [Nodes -> Objects \cup {NULL, POISON2}]
         /\ hashed \in [Nodes -> Heads \cup {NULL}]
         /\ \E c : Chained(c, fwd, pprev, hashed)
BY HKinds DEF HInv, H!TypeOK

\* What the invariant is after a step.
LEMMA HFinish ==
  ASSUME NEW o, hashed' = o,
         fwd' \in [Objects -> Nodes \cup {NULL, POISON1}],
         pprev' \in [Nodes -> Objects \cup {NULL, POISON2}],
         o \in [Nodes -> Heads \cup {NULL}],
         NEW c, Chained(c, fwd, pprev, hashed), \E e : Chained(e, fwd', pprev', o) /\ OneNode(c, e)
  PROVE  HInv' /\ HStepped
BY HKinds DEF HInv, HStepped, H!TypeOK, H!Objects

\* Nothing is done.
LEMMA HStays == ASSUME HInv, fwd' = fwd, pprev' = pprev, hashed' = hashed PROVE HInv' /\ HStepped
<1>1. PICK c : Chained(c, fwd, pprev, hashed)
  BY Known3
<1>2. OneNode(c, c)
  BY DEF OneNode
<1> QED BY <1>1, <1>2, Known3, HFinish

\* The call INIT_HLIST_HEAD.
LEMMA HeadSet ==
  ASSUME HInv, NEW h \in Heads, H!InitHead(h)
  PROVE  HInv' /\ HStepped
<1>1. PICK c : Chained(c, fwd, pprev, hashed)
  BY Known3
<1>2. (\A n \in Nodes : hashed[n] # h) /\ fwd' = [fwd EXCEPT ![h] = NULL] /\ pprev' = pprev /\ hashed' = hashed
  BY DEF H!InitHead
<1>3. \A x \in Objects : fwd'[x] = IF x = h THEN NULL ELSE fwd[x]
  BY <1>2, Known3
<1>4. c[h] = <<>>
  <2>1. Line(h, c[h]) /\ \A n \in Nodes : ~In(n, c[h])
    BY <1>1, <1>2 DEF Chained
  <2>2. Len(c[h]) \in Nat /\ c[h] \in Seq(Nodes) /\ \A i \in 1 .. Len(c[h]) : FALSE
    BY <2>1, LenProperties, ElementOfSeq DEF Line, In
  <2>3. Len(c[h]) = 0
    <3>1. Len(c[h]) # 0 => 1 \in 1 .. Len(c[h])
      BY <2>2, SMT
    <3> QED BY <2>2, <3>1
  <2> QED BY <2>2, <2>3, EmptySeq
<1>5. Chain(fwd', pprev', h, <<>>)
  <2>1. Len(<<>>) = 0
    BY EmptySeq
  <2>2. Place(h, <<>>, 0) = h /\ Place(h, <<>>, 0 + 1) = NULL /\ (\A i \in 1 .. 0 : FALSE) /\ \A i \in 0 .. 0 : i = 0
    BY <2>1, SMT DEF Place
  <2>3. fwd'[h] = NULL
    BY <1>3, HKinds
  <2> QED BY <2>1, <2>2, <2>3 DEF Chain
<1>6. ASSUME NEW k \in Heads
      PROVE  /\ fwd'[k] # POISON1 => Chain(fwd', pprev', k, c[k])
             /\ fwd'[k] = POISON1 => c[k] = <<>>
  <2>1. CASE k = h
    BY <1>3, <1>4, <1>5, <2>1, HKinds
  <2>2. CASE k # h
    <3>1. fwd'[k] = fwd[k] /\ \A n \in Nodes : fwd'[n] = fwd[n] /\ pprev'[n] = pprev[n]
      BY <1>2, <1>3, <2>2, HKinds
    <3>2. Line(k, c[k]) /\ (fwd[k] # POISON1 => Chain(fwd, pprev, k, c[k])) /\ (fwd[k] = POISON1 => c[k] = <<>>)
      BY <1>1 DEF Chained
    <3> QED BY <3>1, <3>2, ChainStays
  <2> QED BY <2>1, <2>2
<1>7. Chained(c, fwd', pprev', hashed)
  BY <1>1, <1>6 DEF Chained
<1>8. OneNode(c, c)
  BY DEF OneNode
<1> QED BY <1>1, <1>2, <1>7, <1>8, Known3, HFinish, HKinds

\* The call INIT_HLIST_NODE on a free node.
LEMMA NodeSet ==
  ASSUME HInv, NEW n \in Nodes, H!InitNode(n)
  PROVE  HInv' /\ HStepped
<1>1. PICK c : Chained(c, fwd, pprev, hashed)
  BY Known3
<1>2. /\ hashed[n] = NULL /\ hashed' = hashed
      /\ fwd' = [fwd EXCEPT ![n] = NULL] /\ pprev' = [pprev EXCEPT ![n] = NULL]
  BY DEF H!InitNode
<1>3. (\A h \in Heads : fwd'[h] = fwd[h]) /\ \A x \in Nodes : hashed[x] # NULL => fwd'[x] = fwd[x] /\ pprev'[x] = pprev[x]
  BY <1>2, Known3, HKinds
<1>4. Chained(c, fwd', pprev', hashed)
  BY <1>1, <1>3, ChainsStay
<1>5. OneNode(c, c)
  BY DEF OneNode
<1> QED BY <1>1, <1>2, <1>4, <1>5, Known3, HFinish, HKinds

\* __hlist_del and what is left in the node.
LEMMA TakeOutStep ==
  ASSUME HInv, NEW n \in Nodes, hashed[n] # NULL, NEW x \in {NULL, POISON1}, NEW y \in {NULL, POISON2},
         H!TakeOut(n, x, y)
  PROVE  HInv' /\ HStepped
<1>1. PICK c : Chained(c, fwd, pprev, hashed)
  BY Known3
<1>2. PICK h \in Heads : hashed[n] = h
  BY Known3
<1>3. PICK u, v : u = pprev[n] /\ v = fwd[n]
  OBVIOUS
<1>4. PICK m \in 1 .. Len(c[h]) :
        /\ c[h][m] = n /\ v = Place(h, c[h], m + 1) /\ u = Place(h, c[h], m - 1)
        /\ (u = h \/ u \in Nodes) /\ v # n /\ u # n /\ (v = NULL \/ v \in Nodes)
  BY <1>1, <1>2, <1>3, SeatIs
<1>5. /\ fwd' = [fwd EXCEPT ![u] = v, ![n] = x]
      /\ pprev' = [[z \in Nodes |-> IF z = v THEN u ELSE pprev[z]] EXCEPT ![n] = y]
      /\ hashed' = [hashed EXCEPT ![n] = NULL]
  BY <1>3 DEF H!TakeOut, H!SetPprev
<1>6. u \in Objects /\ n \in Objects
  BY <1>4, HKinds
<1>7. /\ fwd'[u] = v /\ \A z \in Objects : z # n /\ z # u => fwd'[z] = fwd[z]
      /\ v \in Nodes => pprev'[v] = u
      /\ \A z \in Nodes : z # n /\ z # v => pprev'[z] = pprev[z]
      /\ fwd' \in [Objects -> Nodes \cup {NULL, POISON1}]
      /\ pprev' \in [Nodes -> Objects \cup {NULL, POISON2}]
  BY <1>4, <1>5, <1>6, Known3
<1>8. PICK t : t = Lists!RemoveFirst(c[h], n)
  OBVIOUS
<1>9. Shrunk(t, c[h], m)
  <2>1. Line(h, c[h])
    BY <1>1 DEF Chained
  <2>2. c[h][m] = n
    BY <1>4
  <2> QED BY <1>8, <2>1, <2>2, Removed DEF Shrunk
<1>10. fwd[h] # POISON1
  BY <1>1, <1>2, HashedReady
<1>11. PICK o : o = [hashed EXCEPT ![n] = NULL]
  OBVIOUS
<1>12. \E e : Chained(e, fwd', pprev', o) /\ OneNode(c, e)
  <2>1. PICK g, d : g = fwd' /\ d = pprev'
    OBVIOUS
  <2>2. Taken(n, u, v, fwd, pprev, hashed, g, d, o)
    BY <1>7, <1>11, <2>1, Known3 DEF Taken
  <2>3. c[h][m] = n /\ u = Place(h, c[h], m - 1) /\ v = Place(h, c[h], m + 1)
    BY <1>4
  <2>4. \E e : Chained(e, g, d, o) /\ OneNode(c, e)
    <3>1. hashed \in [Nodes -> Heads \cup {NULL}]
      BY Known3
    <3> QED BY <1>1, <1>2, <1>9, <1>10, <2>2, <2>3, <3>1, TakeThreads
  <2> QED BY <2>1, <2>4
<1>13. o \in [Nodes -> Heads \cup {NULL}] /\ hashed' = o
  BY <1>5, <1>11, Known3
<1> QED BY <1>1, <1>7, <1>12, <1>13, HFinish

\* A node is hung in behind place m of h, between u and v.
LEMMA HangStep ==
  ASSUME HInv, NEW c, Chained(c, fwd, pprev, hashed), NEW n \in Nodes, hashed[n] = NULL,
         NEW h \in Heads, fwd[h] # POISON1, NEW m \in 0 .. Len(c[h]), NEW u, NEW v,
         u = Place(h, c[h], m), v = Place(h, c[h], m + 1),
         fwd' \in [Objects -> Nodes \cup {NULL, POISON1}],
         pprev' \in [Nodes -> Objects \cup {NULL, POISON2}],
         hashed' \in [Nodes -> Heads \cup {NULL}],
         Hung(n, h, u, v, fwd, pprev, hashed, fwd', pprev', hashed')
  PROVE  HInv' /\ HStepped
<1>1. \E t : Grown(t, c[h], n, m)
  <2>1. PICK s : s = c[h]
    OBVIOUS
  <2>2. s \in Seq(Nodes) /\ Len(s) \in Nat /\ \A i \in 1 .. Len(s) : s[i] \in Nodes
    BY <2>1, LenProperties, ElementOfSeq DEF Chained, Line
  <2>3. m \in Nat /\ m <= Len(s)
    BY <2>1, <2>2, SMT
  <2> DEFINE t == [i \in 1 .. Len(s) + 1 |-> IF i <= m THEN s[i] ELSE IF i = m + 1 THEN n ELSE s[i - 1]]
  <2>4. \A i \in 1 .. Len(s) + 1 : t[i] \in Nodes
    <3> SUFFICES ASSUME NEW i \in 1 .. Len(s) + 1 PROVE t[i] \in Nodes
      OBVIOUS
    <3>1. CASE i <= m
      <4>1. i \in 1 .. Len(s)
        BY <2>2, <2>3, <3>1, SMT
      <4> QED BY <2>2, <3>1, <4>1
    <3>2. CASE i = m + 1
      <4>1. ~(i <= m)
        BY <2>3, <3>2, SMT
      <4> QED BY <3>2, <4>1
    <3>3. CASE ~(i <= m) /\ i # m + 1
      <4>1. i - 1 \in 1 .. Len(s)
        BY <2>2, <2>3, <3>3, SMT
      <4> QED BY <2>2, <3>3, <4>1
    <3> QED BY <3>1, <3>2, <3>3
  <2>5. Len(s) + 1 \in Nat /\ DOMAIN t = 1 .. Len(s) + 1
    BY <2>2, SMT
  <2>6. t \in Seq(Nodes) /\ Len(t) = Len(s) + 1
    <3>1. t \in [1 .. Len(s) + 1 -> Nodes]
      BY <2>4
    <3> HIDE DEF t
    <3> QED BY <2>5, <3>1, SeqDef, LenProperties, SMT
  <2>7. t[m + 1] = n
    BY <2>2, <2>3, SMT
  <2>8. \A i \in 1 .. m : t[i] = s[i]
    BY <2>2, <2>3, SMT
  <2>9. \A i \in m + 1 .. Len(s) : t[i + 1] = s[i]
    BY <2>2, <2>3, SMT
  <2> HIDE DEF t
  <2> QED BY <2>1, <2>6, <2>7, <2>8, <2>9 DEF Grown
<1>2. PICK t : Grown(t, c[h], n, m)
  BY <1>1
<1>3. PICK g, d, q : g = fwd' /\ d = pprev' /\ q = hashed'
  OBVIOUS
<1>4. \E e : Chained(e, g, d, q) /\ OneNode(c, e)
  <2>1. hashed \in [Nodes -> Heads \cup {NULL}]
    BY Known3
  <2>2. Hung(n, h, u, v, fwd, pprev, hashed, g, d, q)
    BY <1>3
  <2> QED BY <1>2, <2>1, <2>2, HangThreads
<1> QED BY <1>3, <1>4, HFinish

\* What hanging in does to the fields.
LEMMA HungIs ==
  ASSUME HInv, NEW n \in Nodes, NEW h \in Heads, NEW u \in Objects, NEW v \in Nodes \cup {NULL}, u # n, v # n,
         fwd' = [fwd EXCEPT ![n] = v, ![u] = n],
         \A z \in Nodes : pprev'[z] = IF z = n THEN u ELSE IF z = v THEN n ELSE pprev[z],
         pprev' = [z \in Nodes |-> pprev'[z]],
         hashed' = [hashed EXCEPT ![n] = h]
  PROVE  /\ Hung(n, h, u, v, fwd, pprev, hashed, fwd', pprev', hashed')
         /\ fwd' \in [Objects -> Nodes \cup {NULL, POISON1}]
         /\ pprev' \in [Nodes -> Objects \cup {NULL, POISON2}]
         /\ hashed' \in [Nodes -> Heads \cup {NULL}]
<1>1. /\ fwd'[n] = v /\ fwd'[u] = n /\ \A z \in Objects : z # n /\ z # u => fwd'[z] = fwd[z]
      /\ fwd' \in [Objects -> Nodes \cup {NULL, POISON1}]
  BY Known3, HKinds
<1>2. /\ pprev'[n] = u /\ (v \in Nodes => pprev'[v] = n)
      /\ \A z \in Nodes : z # n /\ z # v => pprev'[z] = pprev[z]
  OBVIOUS
<1>3. pprev' \in [Nodes -> Objects \cup {NULL, POISON2}]
  <2>1. \A z \in Nodes : pprev'[z] \in Objects \cup {NULL, POISON2}
    BY Known3, HKinds
  <2> QED BY <2>1
<1>4. /\ hashed' \in [Nodes -> Heads \cup {NULL}]
      /\ hashed'[n] = h /\ \A z \in Nodes : z # n => hashed'[z] = hashed[z]
  BY Known3
<1> QED BY <1>1, <1>2, <1>3, <1>4 DEF Hung

\* The call hlist_add_head.
LEMMA AddHeadStep ==
  ASSUME HInv, NEW n \in Nodes, NEW h \in Heads, H!AddHead(n, h)
  PROVE  HInv' /\ HStepped
<1>1. PICK c : Chained(c, fwd, pprev, hashed)
  BY Known3
<1>2. hashed[n] = NULL /\ fwd[h] # POISON1
  BY DEF H!AddHead, H!Ready
<1>3. PICK u, v, m : u = h /\ v = fwd[h] /\ m = 0
  OBVIOUS
<1>4. /\ fwd' = [fwd EXCEPT ![n] = v, ![u] = n]
      /\ pprev' = [[z \in Nodes |-> IF z = v THEN n ELSE pprev[z]] EXCEPT ![n] = u]
      /\ hashed' = [hashed EXCEPT ![n] = h]
  BY <1>3 DEF H!AddHead, H!SetPprev
<1>5. Line(h, c[h]) /\ Chain(fwd, pprev, h, c[h]) /\ Len(c[h]) \in Nat /\ m \in 0 .. Len(c[h]) /\ ~In(n, c[h])
  <2>1. Line(h, c[h]) /\ Chain(fwd, pprev, h, c[h]) /\ ~In(n, c[h])
    BY <1>1, <1>2, HKinds DEF Chained
  <2>2. Len(c[h]) \in Nat
    BY <2>1, LenProperties DEF Line
  <2> QED BY <1>3, <2>1, <2>2, SMT
<1>6. u = Place(h, c[h], m) /\ v = Place(h, c[h], m + 1)
  <2>1. u = Place(h, c[h], m)
    BY <1>3, <1>5, PlacesAre, SMT
  <2> QED BY <1>3, <1>5, <2>1 DEF Chain
<1>7. v \in Nodes \cup {NULL} /\ v # n /\ u \in Objects /\ u # n
  <2>1. fwd[h] \in Nodes \cup {NULL}
    BY <1>2, Known3, HKinds
  <2>2. v # n
    <3>1. m + 1 \in Nat /\ (m + 1 \in 1 .. Len(c[h]) \/ m + 1 > Len(c[h]))
      BY <1>3, <1>5, SMT
    <3> QED BY <1>5, <1>6, <3>1, PlacesAre, HKinds
  <2> QED BY <1>3, <2>1, <2>2, HKinds
<1>8. /\ \A z \in Nodes : pprev'[z] = IF z = n THEN u ELSE IF z = v THEN n ELSE pprev[z]
      /\ pprev' = [z \in Nodes |-> pprev'[z]]
  BY <1>4
<1>9. /\ Hung(n, h, u, v, fwd, pprev, hashed, fwd', pprev', hashed')
      /\ fwd' \in [Objects -> Nodes \cup {NULL, POISON1}]
      /\ pprev' \in [Nodes -> Objects \cup {NULL, POISON2}]
      /\ hashed' \in [Nodes -> Heads \cup {NULL}]
  BY <1>4, <1>7, <1>8, HungIs
<1> QED BY <1>1, <1>2, <1>5, <1>6, <1>9, HangStep

\* The call hlist_add_before.
LEMMA AddBeforeStep ==
  ASSUME HInv, NEW n \in Nodes, NEW x \in Nodes, H!AddBefore(n, x)
  PROVE  HInv' /\ HStepped
<1>1. PICK c : Chained(c, fwd, pprev, hashed)
  BY Known3
<1>2. hashed[n] = NULL /\ hashed[x] # NULL
  BY DEF H!AddBefore
<1>3. PICK h \in Heads : hashed[x] = h
  BY <1>2, Known3
<1>4. PICK u, v : u = pprev[x] /\ v = x
  OBVIOUS
<1>5. PICK k \in 1 .. Len(c[h]) :
        /\ c[h][k] = x /\ k \in Nat /\ k - 1 \in Nat /\ k - 1 \in 0 .. Len(c[h])
        /\ u = Place(h, c[h], k - 1) /\ x = Place(h, c[h], k)
        /\ (u = h \/ (u \in Nodes /\ hashed[u] = h)) /\ u # x
  BY <1>1, <1>3, <1>4, SeatIs
<1>6. PICK m \in 0 .. Len(c[h]) : u = Place(h, c[h], m) /\ v = Place(h, c[h], m + 1)
  <2>1. (k - 1) + 1 = k
    BY <1>5, SMT
  <2> QED BY <1>4, <1>5, <2>1
<1>7. fwd[h] # POISON1
  BY <1>1, <1>3, HashedReady
<1>8. /\ fwd' = [fwd EXCEPT ![n] = v, ![u] = n]
      /\ pprev' = [pprev EXCEPT ![n] = u, ![v] = n]
      /\ hashed' = [hashed EXCEPT ![n] = h]
  BY <1>3, <1>4 DEF H!AddBefore
<1>9. u \in Objects /\ u # n /\ v # n /\ v \in Nodes \cup {NULL}
  BY <1>2, <1>3, <1>4, <1>5, HKinds
<1>10. /\ \A z \in Nodes : pprev'[z] = IF z = n THEN u ELSE IF z = v THEN n ELSE pprev[z]
       /\ pprev' = [z \in Nodes |-> pprev'[z]]
  BY <1>4, <1>8, <1>9, Known3
<1>11. /\ Hung(n, h, u, v, fwd, pprev, hashed, fwd', pprev', hashed')
       /\ fwd' \in [Objects -> Nodes \cup {NULL, POISON1}]
       /\ pprev' \in [Nodes -> Objects \cup {NULL, POISON2}]
       /\ hashed' \in [Nodes -> Heads \cup {NULL}]
  <2>1. fwd' = [fwd EXCEPT ![n] = v, ![u] = n] /\ hashed' = [hashed EXCEPT ![n] = h]
    BY <1>8
  <2> QED BY <1>9, <1>10, <2>1, HungIs
<1> QED BY <1>1, <1>2, <1>6, <1>7, <1>11, HangStep

\* The call hlist_add_after.
LEMMA AddAfterStep ==
  ASSUME HInv, NEW u \in Nodes, NEW n \in Nodes, H!AddAfter(u, n)
  PROVE  HInv' /\ HStepped
<1>1. PICK c : Chained(c, fwd, pprev, hashed)
  BY Known3
<1>2. hashed[n] = NULL /\ hashed[u] # NULL
  BY DEF H!AddAfter
<1>3. PICK h \in Heads : hashed[u] = h
  BY <1>2, Known3
<1>4. PICK v : v = fwd[u]
  OBVIOUS
<1>5. PICK m \in 1 .. Len(c[h]) :
        /\ m \in 0 .. Len(c[h]) /\ u = Place(h, c[h], m) /\ v = Place(h, c[h], m + 1)
        /\ (v = NULL \/ (v \in Nodes /\ hashed[v] = h)) /\ u # v
  BY <1>1, <1>3, <1>4, SeatIs
<1>6. fwd[h] # POISON1
  BY <1>1, <1>3, HashedReady
<1>7. /\ fwd' = [fwd EXCEPT ![n] = v, ![u] = n]
      /\ pprev' = [[z \in Nodes |-> IF z = v THEN n ELSE pprev[z]] EXCEPT ![n] = u]
      /\ hashed' = [hashed EXCEPT ![n] = h]
  BY <1>3, <1>4 DEF H!AddAfter, H!SetPprev
<1>8. u \in Objects /\ u # n /\ v # n /\ v \in Nodes \cup {NULL}
  BY <1>2, <1>3, <1>5, HKinds
<1>9. /\ \A z \in Nodes : pprev'[z] = IF z = n THEN u ELSE IF z = v THEN n ELSE pprev[z]
      /\ pprev' = [z \in Nodes |-> pprev'[z]]
  BY <1>7
<1>10. /\ Hung(n, h, u, v, fwd, pprev, hashed, fwd', pprev', hashed')
       /\ fwd' \in [Objects -> Nodes \cup {NULL, POISON1}]
       /\ pprev' \in [Nodes -> Objects \cup {NULL, POISON2}]
       /\ hashed' \in [Nodes -> Heads \cup {NULL}]
  <2>1. fwd' = [fwd EXCEPT ![n] = v, ![u] = n] /\ hashed' = [hashed EXCEPT ![n] = h]
    BY <1>7
  <2> QED BY <1>8, <1>9, <2>1, HungIs
<1> QED BY <1>1, <1>2, <1>5, <1>6, <1>10, HangStep

\* hlist_del_init asks hlist_unhashed, which is told apart by pprev.
LEMMA OutStep ==
  ASSUME HInv, NEW n \in Nodes, H!Del(n) \/ H!DelInit(n)
  PROVE  HInv' /\ HStepped
<1>1. CASE H!Del(n)
  BY <1>1, TakeOutStep DEF H!Del
<1>2. CASE H!DelInit(n) /\ pprev[n] # NULL
  BY <1>2, TakeOutStep DEF H!DelInit
<1>3. CASE H!DelInit(n) /\ pprev[n] = NULL
  BY <1>3, HStays DEF H!DelInit, H!vars
<1> QED BY <1>1, <1>2, <1>3

\* No hash list is ready at the start.
LEMMA HInitial == H!Init => HInv
<1> SUFFICES ASSUME H!Init PROVE HInv
  OBVIOUS
<1>1. /\ fwd = [x \in Objects |-> POISON1] /\ pprev = [n \in Nodes |-> POISON2]
      /\ hashed = [n \in Nodes |-> NULL]
  BY HKinds DEF H!Init
<1> DEFINE c == [h \in Heads |-> <<>>]
<1>2. c = [h \in Heads |-> c[h]] /\ \A h \in Heads : c[h] = <<>>
  OBVIOUS
<1> HIDE DEF c
<1>3. Len(<<>>) = 0 /\ <<>> \in Seq(Nodes) /\ \A i \in 1 .. 0 : FALSE
  BY EmptySeq, SMT
<1>4. Chained(c, fwd, pprev, hashed)
  BY <1>1, <1>2, <1>3, HKinds DEF Chained, Line, In
<1>5. H!TypeOK
  BY <1>1, HKinds DEF H!TypeOK
<1> QED BY <1>4, <1>5 DEF HInv

\* Every call keeps the chains.
LEMMA HInductive == HInv /\ [H!Next]_hvars => HInv' /\ HStepped
<1> SUFFICES ASSUME HInv, [H!Next]_hvars PROVE HInv' /\ HStepped
  OBVIOUS
<1>1. CASE UNCHANGED hvars
  BY <1>1, HStays DEF hvars
<1>2. CASE H!Next
  BY <1>2, HeadSet, NodeSet, OutStep, AddHeadStep, AddBeforeStep, AddAfterStep DEF H!Next
<1> QED BY <1>1, <1>2

\* What the invariant says of the pointers of the nodes.
LEMMA HBack == HInv => H!BackPointers
<1> SUFFICES ASSUME HInv PROVE H!BackPointers
  OBVIOUS
<1>1. PICK c : Chained(c, fwd, pprev, hashed)
  BY Known3
<1>2. ASSUME NEW n \in Nodes, hashed[n] # NULL
      PROVE  /\ pprev[n] \in Objects /\ fwd[pprev[n]] = n
             /\ pprev[n] \in Nodes => hashed[pprev[n]] = hashed[n]
             /\ pprev[n] \in Heads => hashed[n] = pprev[n]
             /\ fwd[n] \in Nodes => hashed[fwd[n]] # NULL /\ pprev[fwd[n]] = n
  <2>1. PICK h \in Heads : hashed[n] = h
    BY <1>2, Known3
  <2>2. /\ fwd[pprev[n]] = n /\ (fwd[n] \in Nodes => pprev[fwd[n]] = n)
        /\ (pprev[n] = h \/ (pprev[n] \in Nodes /\ hashed[pprev[n]] = h))
        /\ (fwd[n] = NULL \/ (fwd[n] \in Nodes /\ hashed[fwd[n]] = h))
    BY <1>1, <2>1, SeatIs
  <2> QED BY <2>1, <2>2, HKinds
<1>3. ASSUME NEW h \in Heads, fwd[h] \in Nodes
      PROVE  hashed[fwd[h]] # NULL /\ pprev[fwd[h]] = h
  <2>1. Line(h, c[h]) /\ Chain(fwd, pprev, h, c[h])
    BY <1>1, <1>3, HKinds DEF Chained
  <2>2. Len(c[h]) \in Nat /\ Place(h, c[h], 0) = h /\ 0 \in 0 .. Len(c[h])
    BY <2>1, PlacesAre, SMT
  <2>3. fwd[h] = Place(h, c[h], 0 + 1)
    BY <2>1, <2>2 DEF Chain
  <2>4. 0 + 1 \in 1 .. Len(c[h])
    <3>1. 0 + 1 \in Nat /\ (0 + 1 > Len(c[h]) \/ 0 + 1 \in 1 .. Len(c[h]))
      BY <2>2, SMT
    <3> QED BY <1>3, <2>1, <2>3, <3>1, PlacesAre, HKinds
  <2>5. pprev[fwd[h]] = Place(h, c[h], (0 + 1) - 1) /\ (0 + 1) - 1 = 0
    BY <2>1, <2>3, <2>4 DEF Chain
  <2>6. hashed[fwd[h]] = h
    <3>1. 0 + 1 \in Nat
      BY SMT
    <3>2. In(fwd[h], c[h])
      BY <2>1, <2>3, <2>4, <3>1, PlacesAre
    <3> QED BY <1>1, <1>3, <3>2 DEF Chained
  <2> QED BY <2>2, <2>5, <2>6, HKinds
<1>4. ASSUME NEW n \in Nodes, hashed[n] # NULL
      PROVE  /\ pprev[n] \in H!Objects /\ fwd[pprev[n]] = n
             /\ pprev[n] \in Nodes => hashed[pprev[n]] = hashed[n]
             /\ pprev[n] \in Heads => hashed[n] = pprev[n]
  BY <1>2, <1>4, HKinds
<1>5. ASSUME NEW x \in Heads \cup {n \in Nodes : hashed[n] # NULL}, fwd[x] \in Nodes
      PROVE  hashed[fwd[x]] # NULL /\ pprev[fwd[x]] = x
  BY <1>2, <1>3, <1>5
<1> QED BY <1>4, <1>5 DEF H!BackPointers

\* The walk of hlist_for_each is given by its first value and each one by the
\* one before.
HWalk(f, h, n) ==
  CHOOSE w : w = [i \in 0 .. n |-> IF i = 0 THEN h ELSE IF w[i - 1] \in Objects THEN f[w[i - 1]] ELSE NULL]

Strolls(w, f, h, n) ==
  w[0] = h /\ \A i \in 1 .. n : w[i] = IF w[i - 1] \in Objects THEN f[w[i - 1]] ELSE NULL

\* The walk exists, so it is what its definition says.
LEMMA HWalkChosen ==
  ASSUME NEW f \in [Objects -> Nodes \cup {NULL, POISON1}], NEW h \in Heads, NEW n \in Nat
  PROVE  Strolls(HWalk(f, h, n), f, h, n)
<1> DEFINE V == Objects \cup {NULL, POISON1}
           F == [x \in V |-> IF x \in Objects THEN f[x] ELSE NULL]
           G(u) == [i \in 0 .. n |-> IF i = 0 THEN h ELSE IF u[i - 1] \in Objects THEN f[u[i - 1]] ELSE NULL]
<1>1. (\A x \in V : F[x] \in V) /\ h \in V
  BY HKinds
<1>2. \A x \in V : F[x] = IF x \in Objects THEN f[x] ELSE NULL
  OBVIOUS
<1> HIDE DEF V, F
<1>3. PICK u \in [0 .. n -> V] : Walks(u, F, h, n)
  BY <1>1, WalkExists
<1>4. u = G(u)
  <2>1. \A i \in 0 .. n : u[i] = G(u)[i]
    <3> SUFFICES ASSUME NEW i \in 0 .. n PROVE u[i] = G(u)[i]
      OBVIOUS
    <3>1. i # 0 => i \in 1 .. n /\ i - 1 \in 0 .. n
      BY SMT
    <3> QED BY <1>2, <1>3, <3>1 DEF Walks
  <2> QED BY <2>1
<1> DEFINE w == HWalk(f, h, n)
<1>5. w = CHOOSE x : x = G(x)
  BY DEF HWalk
<1> HIDE DEF G, w
<1>6. w = G(w)
  BY <1>4, <1>5
<1>7. w[0] = h /\ \A i \in 1 .. n : w[i] = IF w[i - 1] \in Objects THEN f[w[i - 1]] ELSE NULL
  <2>1. 0 \in 0 .. n /\ \A i \in 1 .. n : i \in 0 .. n /\ i # 0
    BY SMT
  <2> QED BY <1>6, <2>1 DEF G
<1> QED BY <1>7 DEF Strolls, w

\* It goes along the chain.
LEMMA HWalkIs ==
  ASSUME NEW h \in Heads, NEW s, Line(h, s), NEW f, NEW b, Chain(f, b, h, s), NEW n \in Nat, Len(s) + 1 <= n,
         NEW w, Strolls(w, f, h, n)
  PROVE  \A i \in 0 .. Len(s) + 1 : w[i] = Place(h, s, i)
<1>1. Len(s) \in Nat /\ Len(s) + 1 \in Nat
  BY LenProperties, SMT DEF Line
<1> DEFINE Q == {i \in 0 .. Len(s) + 1 : w[i] = Place(h, s, i)}
<1>2. 0 \in Q
  BY <1>1, SMT DEF Strolls, Place
<1>3. ASSUME NEW i \in 1 .. Len(s) + 1, i - 1 \in Q PROVE i \in Q
  <2>1. /\ i \in 1 .. n /\ i - 1 \in 0 .. Len(s) /\ (i - 1) + 1 = i /\ i \in 0 .. Len(s) + 1 /\ i - 1 \in Nat
        /\ (i - 1 = 0 \/ i - 1 \in 1 .. Len(s))
    BY <1>1, SMT
  <2>2. f[Place(h, s, i - 1)] = Place(h, s, (i - 1) + 1)
    BY <2>1 DEF Chain
  <2>3. Place(h, s, i - 1) \in Objects
    BY <2>1, PlacesAre, HKinds
  <2> QED BY <1>3, <2>1, <2>2, <2>3 DEF Strolls
<1>4. Q \in SUBSET (0 .. Len(s) + 1)
  OBVIOUS
<1> HIDE DEF Q
<1>5. Q = 0 .. Len(s) + 1
  BY <1>1, <1>2, <1>3, <1>4, Stepwise
<1> QED BY <1>5 DEF Q

\* The steps of a walk that leave the nodes.
Ends(ends, w, n) == ends = {i \in 1 .. n : w[i] \notin Nodes}

\* They begin behind the last node.
LEMMA HWalkEnds ==
  ASSUME NEW h \in Heads, NEW s, Line(h, s), NEW n \in Nat, Len(s) + 1 <= n, NEW w,
         \A i \in 1 .. Len(s) : w[i] = s[i], w[Len(s) + 1] \notin Nodes,
         NEW ends, Ends(ends, w, n)
  PROVE  ends # {} /\ Min(ends) - 1 = Len(s)
<1>1. Len(s) \in Nat /\ Len(s) + 1 \in 1 .. n /\ \A i \in 1 .. Len(s) : s[i] \in Nodes
  BY LenProperties, ElementOfSeq, SMT DEF Line
<1>2. Len(s) + 1 \in ends
  BY <1>1 DEF Ends
<1>3. \A y \in ends : y \in Int /\ Len(s) + 1 <= y
  <2> SUFFICES ASSUME NEW y \in ends PROVE y \in Int /\ Len(s) + 1 <= y
    OBVIOUS
  <2>1. y \in 1 .. n /\ w[y] \notin Nodes
    BY DEF Ends
  <2>2. y \notin 1 .. Len(s)
    BY <1>1, <2>1
  <2> QED BY <1>1, <2>1, <2>2, SMT
<1>4. Min(ends) = Len(s) + 1
  <2>1. \A x \in ends : (\A y \in ends : x <= y) => x = Len(s) + 1
    BY <1>1, <1>2, <1>3, SMT
  <2> QED BY <1>2, <1>3, <2>1, Zenon DEF Min
<1>5. (Len(s) + 1) - 1 = Len(s)
  BY <1>1, SMT
<1> QED BY <1>2, <1>4, <1>5

\* What hlist_for_each meets are the nodes of the chain.
LEMMA HContentsIs ==
  ASSUME HInv, NEW c, Chained(c, fwd, pprev, hashed), NEW h \in Heads
  PROVE  H!Contents(h) = c[h]
<1>1. H!Cardinality(Nodes) = Cardinality(Nodes)
  BY DEF H!Cardinality, Cardinality
<1>2. \A Q : H!Min(Q) = Min(Q)
  BY DEF H!Min, Min
<1>3. PICK s, n : s = c[h] /\ n = Cardinality(Nodes) + 1
  OBVIOUS
<1>4. Line(h, s) /\ IsFiniteSet(Nodes)
  BY <1>3, KListAssumption DEF Chained, KListAssumption
<1>5. Len(s) \in Nat /\ n \in Nat /\ Len(s) + 1 <= n
  BY <1>3, <1>4, LineLength, SMT
<1>6. PICK w : w = HWalk(fwd, h, n)
  OBVIOUS
<1>7. PICK ends : Ends(ends, w, n)
  BY DEF Ends
<1>8. H!Contents(h) = [i \in 1 .. (IF ends = {} THEN n ELSE H!Min(ends) - 1) |-> w[i]]
  BY <1>1, <1>3, <1>6, <1>7, HKinds DEF H!Contents, HWalk, Ends
<1>9. Strolls(w, fwd, h, n)
  BY <1>5, <1>6, HWalkChosen, Known3
<1>10. (\A i \in 1 .. Len(s) : w[i] = s[i]) /\ w[Len(s) + 1] \notin Nodes
  <2>1. CASE fwd[h] # POISON1
    <3>1. \A i \in 0 .. Len(s) + 1 : w[i] = Place(h, s, i)
      <4>1. Chain(fwd, pprev, h, s)
        BY <1>3, <2>1 DEF Chained
      <4> QED BY <1>4, <1>5, <1>9, <4>1, HWalkIs
    <3>2. /\ \A i \in 1 .. Len(s) : i \in 0 .. Len(s) + 1
          /\ Len(s) + 1 \in 0 .. Len(s) + 1 /\ Len(s) + 1 \in Nat /\ Len(s) + 1 > Len(s)
      BY <1>5, SMT
    <3>3. Place(h, s, Len(s) + 1) = NULL
      BY <1>4, <3>2, PlacesAre
    <3> QED BY <3>1, <3>2, <3>3, HKinds DEF Place
  <2>2. CASE fwd[h] = POISON1
    <3>1. Len(s) = 0 /\ (\A i \in 1 .. 0 : FALSE) /\ 0 + 1 \in 1 .. n /\ (0 + 1) - 1 = 0
      <4>1. Len(s) = 0
        BY <1>1, <1>3, <2>2, EmptySeq DEF Chained
      <4> QED BY <1>5, <4>1, SMT
    <3>2. w[0 + 1] = POISON1
      BY <1>9, <2>2, <3>1, HKinds DEF Strolls
    <3> QED BY <3>1, <3>2, HKinds
  <2> QED BY <2>1, <2>2
<1>11. ends # {} /\ Min(ends) - 1 = Len(s)
  BY <1>4, <1>5, <1>7, <1>10, HWalkEnds
<1>12. H!Contents(h) = [i \in 1 .. Len(s) |-> w[i]]
  BY <1>2, <1>8, <1>11
<1>13. [i \in 1 .. Len(s) |-> w[i]] = s
  <2>1. s \in [1 .. Len(s) -> Nodes]
    BY <1>4, LenProperties DEF Line
  <2> QED BY <1>10, <2>1
<1> QED BY <1>3, <1>12, <1>13

\* A chain is met in full by hlist_for_each, each node once.
LEMMA HMeetsAll == HInv => H!WalkMeetsAll
<1> SUFFICES ASSUME HInv, NEW h \in Heads
             PROVE  /\ Len(H!Contents(h)) = H!Cardinality({n \in Nodes : hashed[n] = h})
                    /\ H!ToSet(H!Contents(h)) = {n \in Nodes : hashed[n] = h}
  BY DEF H!WalkMeetsAll
<1>1. PICK c : Chained(c, fwd, pprev, hashed)
  BY Known3
<1>2. PICK s : s = c[h]
  OBVIOUS
<1>3. H!Contents(h) = s
  BY <1>1, <1>2, HContentsIs
<1>4. Line(h, s) /\ \A n \in Nodes : In(n, s) <=> hashed[n] = h
  BY <1>1, <1>2 DEF Chained
<1>5. PICK T : T = {n \in Nodes : hashed[n] = h}
  OBVIOUS
<1>6. DOMAIN s = 1 .. Len(s) /\ Len(s) \in Nat /\ s \in [1 .. Len(s) -> Nodes] /\ \A i \in 1 .. Len(s) : s[i] \in Nodes
  BY <1>4, LenProperties, ElementOfSeq DEF Line
<1>7. {s[i] : i \in DOMAIN s} = T
  BY <1>4, <1>5, <1>6 DEF In
<1>8. H!ToSet(s) = T
  BY <1>7 DEF H!ToSet
<1>9. Len(s) = Cardinality(T)
  <2>1. s \in Bijection(1 .. Len(s), T)
    <3>1. s \in [1 .. Len(s) -> T]
      BY <1>6, <1>7
    <3>2. \A i, j \in 1 .. Len(s) : s[i] = s[j] => i = j
      BY <1>4 DEF Line
    <3>3. \A y \in T : \E i \in 1 .. Len(s) : s[i] = y
      BY <1>6, <1>7
    <3>4. s \in Injection(1 .. Len(s), T)
      BY <3>1, <3>2 DEF Injection, IsInjective
    <3>5. s \in Surjection(1 .. Len(s), T)
      BY <3>1, <3>3 DEF Surjection
    <3> QED BY <3>4, <3>5 DEF Bijection
  <2>2. ExistsBijection(1 .. Len(s), T)
    BY <2>1 DEF ExistsBijection
  <2>3. IsFiniteSet(1 .. Len(s)) /\ Cardinality(1 .. Len(s)) = Len(s)
    BY <1>6, FS_Interval, SMT
  <2>4. Cardinality(T) = Cardinality(1 .. Len(s))
    BY <2>2, <2>3, FS_Bijection
  <2> QED BY <2>3, <2>4
<1>10. H!Cardinality(T) = Cardinality(T)
  BY DEF H!Cardinality, Cardinality
<1> QED BY <1>3, <1>5, <1>8, <1>9, <1>10

\* s meets n before m.
Precedes(s, n, m) == \E i, j \in 1 .. Len(s) : i < j /\ s[i] = n /\ s[j] = m

\* If the order of s is in t, then t has no other of the nodes of both.
LEMMA OrderStays ==
  ASSUME NEW h, NEW s, NEW t, Line(h, s), Line(h, t),
         \A i, j \in 1 .. Len(s) : i < j /\ In(s[i], t) /\ In(s[j], t) => Precedes(t, s[i], s[j]),
         NEW n, NEW m, In(n, s), In(n, t), In(m, s), In(m, t)
  PROVE  Precedes(s, n, m) <=> Precedes(t, n, m)
<1>1. /\ Len(s) \in Nat /\ Len(t) \in Nat
      /\ \A i, j \in 1 .. Len(s) : i < j \/ j < i \/ i = j
      /\ \A i, j \in 1 .. Len(t) : ~(i < j /\ j < i) /\ ~(i < i)
  BY LenProperties, SMT DEF Line
<1>2. Precedes(s, n, m) => Precedes(t, n, m)
  BY DEF Precedes
<1>3. ASSUME Precedes(t, n, m), ~Precedes(s, n, m) PROVE FALSE
  <2>1. PICK i \in 1 .. Len(s), j \in 1 .. Len(s) : s[i] = n /\ s[j] = m
    BY DEF In
  <2>2. j < i \/ i = j
    BY <1>1, <1>3, <2>1 DEF Precedes
  <2>3. PICK x \in 1 .. Len(t), y \in 1 .. Len(t) : x < y /\ t[x] = n /\ t[y] = m
    BY <1>3 DEF Precedes
  <2>4. CASE i = j
    <3>1. x = y
      BY <2>1, <2>3, <2>4 DEF Line
    <3> QED BY <1>1, <2>3, <3>1
  <2>5. CASE j < i
    <3>1. Precedes(t, m, n)
      BY <2>1, <2>5
    <3>2. PICK v \in 1 .. Len(t), u \in 1 .. Len(t) : v < u /\ t[v] = m /\ t[u] = n
      BY <3>1 DEF Precedes
    <3>3. v = y /\ u = x
      BY <2>3, <3>2 DEF Line
    <3> QED BY <1>1, <2>3, <3>2, <3>3
  <2> QED BY <2>2, <2>4, <2>5
<1> QED BY <1>2, <1>3

\* A node more or less leaves the order of the others.
LEMMA OneNodeOrder ==
  ASSUME NEW h, NEW s, NEW t, Line(h, s), Line(h, t),
         t = s \/ (\E n, m : Grown(t, s, n, m)) \/ \E m : Shrunk(t, s, m),
         NEW n, NEW m, In(n, s), In(n, t), In(m, s), In(m, t)
  PROVE  Precedes(s, n, m) <=> Precedes(t, n, m)
<1>1. Len(s) \in Nat /\ Len(t) \in Nat
  BY LenProperties DEF Line
<1>2. ASSUME NEW x, NEW k, Grown(t, s, x, k) PROVE Precedes(s, n, m) <=> Precedes(t, n, m)
  <2> DEFINE F(i) == IF i <= k THEN i ELSE i + 1
  <2>1. k \in Nat /\ Len(t) = Len(s) + 1
    BY <1>1, <1>2, SMT DEF Grown
  <2>2. \A i, j \in 1 .. Len(s) : i < j => F(i) < F(j)
    BY <1>1, <2>1, SMT
  <2>3. \A i \in 1 .. Len(s) : F(i) \in 1 .. Len(t) /\ t[F(i)] = s[i]
    <3> SUFFICES ASSUME NEW i \in 1 .. Len(s) PROVE F(i) \in 1 .. Len(t) /\ t[F(i)] = s[i]
      OBVIOUS
    <3>1. F(i) \in 1 .. Len(t) /\ (i \in 1 .. k \/ (i \in k + 1 .. Len(s) /\ ~(i <= k))) /\ (i \in 1 .. k => i <= k)
      BY <1>1, <2>1, SMT
    <3> QED BY <1>2, <3>1 DEF Grown
  <2> HIDE DEF F
  <2>4. \A i, j \in 1 .. Len(s) : i < j => Precedes(t, s[i], s[j])
    BY <2>2, <2>3 DEF Precedes
  <2> QED BY <2>4, OrderStays
<1>3. ASSUME NEW k, Shrunk(t, s, k) PROVE Precedes(s, n, m) <=> Precedes(t, n, m)
  <2> DEFINE F(i) == IF i < k THEN i ELSE i + 1
  <2>1. k \in Nat /\ 1 <= k /\ k <= Len(s) /\ Len(t) = Len(s) - 1
    BY <1>1, <1>3, SMT DEF Shrunk
  <2>2. \A i, j \in 1 .. Len(t) : i < j => F(i) < F(j)
    BY <1>1, <2>1, SMT
  <2>3. \A i \in 1 .. Len(t) : F(i) \in 1 .. Len(s) /\ s[F(i)] = t[i]
    <3> SUFFICES ASSUME NEW i \in 1 .. Len(t) PROVE F(i) \in 1 .. Len(s) /\ s[F(i)] = t[i]
      OBVIOUS
    <3>1. F(i) \in 1 .. Len(s) /\ ((i \in 1 .. k - 1 /\ i < k) \/ (i \in k .. Len(t) /\ ~(i < k)))
      BY <1>1, <2>1, SMT
    <3> QED BY <1>3, <3>1 DEF Shrunk
  <2> HIDE DEF F
  <2>4. \A i, j \in 1 .. Len(t) : i < j => Precedes(s, t[i], t[j])
    BY <2>2, <2>3 DEF Precedes
  <2> QED BY <2>4, OrderStays
<1> QED BY <1>2, <1>3

\* A node whose field names another stands right before it.
LEMMA RightBefore ==
  ASSUME NEW c, NEW f, NEW b, NEW o, Chained(c, f, b, o),
         NEW n \in Nodes, NEW m \in Nodes, NEW h \in Heads, o[n] = h, f[n] = m
  PROVE  \E i, j \in 1 .. Len(c[h]) : j = i + 1 /\ c[h][i] = n /\ c[h][j] = m
<1>1. PICK i \in 1 .. Len(c[h]) : c[h][i] = n /\ m = Place(h, c[h], i + 1)
  BY SeatIs
<1>2. Len(c[h]) \in Nat /\ i + 1 \in Nat /\ (i + 1 > Len(c[h]) \/ i + 1 \in 1 .. Len(c[h])) /\ Line(h, c[h])
  BY LenProperties, SMT DEF Chained, Line
<1>3. i + 1 \in 1 .. Len(c[h])
  BY <1>1, <1>2, PlacesAre, HKinds
<1> QED BY <1>1, <1>3 DEF Place

\* The same of the walks after the step.
LEMMA HContentsAre ==
  HInv => \A c : Chained(c, fwd, pprev, hashed) => \A h \in Heads : H!Contents(h) = c[h]
BY HContentsIs

LEMMA HContentsNext ==
  (HInv => \A c : Chained(c, fwd, pprev, hashed) => \A h \in Heads : H!Contents(h) = c[h])'
BY HContentsAre, PTL

\* The walks of a step.
LEMMA HWalks ==
  ASSUME HInv, HInv', HStepped
  PROVE  \E c, e : /\ Chained(c, fwd, pprev, hashed) /\ Chained(e, fwd', pprev', hashed') /\ OneNode(c, e)
                   /\ \A h \in Heads : H!Contents(h) = c[h] /\ H!Contents(h)' = e[h]
<1>1. PICK c, e : Chained(c, fwd, pprev, hashed) /\ Chained(e, fwd', pprev', hashed') /\ OneNode(c, e)
  BY DEF HStepped
<1>2. \A h \in Heads : H!Contents(h) = c[h]
  BY <1>1, HContentsIs
<1>3. \A h \in Heads : H!Contents(h)' = e[h]
  BY <1>1, HContentsNext
<1> QED BY <1>1, <1>2, <1>3

\* A step of one of the programs is a step of the hash lists or leaves them alone.
LEMMA HashApart == [MCNext]_allVars => [H!Next]_hvars
BY Zenon DEF MCNext, allVars

\* Every node on a hash list is reached through the field its pprev names, and
\* hlist_for_each meets the nodes that were added and not deleted, all of them
\* and no other (INIT_HLIST_HEAD to hlist_add_after of list.h), for any number
\* of heads and nodes.
THEOREM HashListsHold == MCSpec => []HashLists
<1>1. MCInit => HInv
  BY HInitial DEF MCInit
<1>2. HInv /\ [MCNext]_allVars => HInv'
  BY HInductive, HashApart
<1>3. HInv => HashLists
  BY HBack, HMeetsAll DEF HashLists, HInv
<1> QED BY <1>1, <1>2, <1>3, PTL DEF MCSpec

\* What a step does to the order.
LEMMA HOrders ==
  ASSUME HInv, HInv', HStepped
  PROVE  /\ \A h \in Heads : \A n, m \in H!Stay(h) : H!Before(h, n, m)' <=> H!Before(h, n, m)
         /\ \A n \in Nodes, h \in Heads : H!AddHead(n, h) => H!Contents(h)'[1] = n
         /\ \A n, m \in Nodes : H!AddBefore(n, m) => H!NextTo(hashed[m], n, m)'
         /\ \A n, m \in Nodes : H!AddAfter(n, m) => H!NextTo(hashed[n], n, m)'
<1>1. PICK c, e : /\ Chained(c, fwd, pprev, hashed) /\ Chained(e, fwd', pprev', hashed') /\ OneNode(c, e)
                  /\ \A h \in Heads : H!Contents(h) = c[h] /\ H!Contents(h)' = e[h]
  BY HWalks
<1>2. ASSUME NEW h \in Heads
      PROVE  Line(h, c[h]) /\ Line(h, e[h]) /\ DOMAIN c[h] = 1 .. Len(c[h]) /\ DOMAIN e[h] = 1 .. Len(e[h])
  <2>1. Line(h, c[h]) /\ Line(h, e[h])
    BY <1>1 DEF Chained
  <2> QED BY <2>1, LenProperties DEF Line
<1>3. ASSUME NEW h \in Heads, NEW n \in H!Stay(h), NEW m \in H!Stay(h)
      PROVE  H!Before(h, n, m)' <=> H!Before(h, n, m)
  <2>1. H!Before(h, n, m) <=> Precedes(c[h], n, m)
    BY <1>1, <1>2 DEF H!Before, Precedes
  <2>2. H!Before(h, n, m)' <=> Precedes(e[h], n, m)
    BY <1>1, <1>2 DEF H!Before, Precedes
  <2>3. In(n, c[h]) /\ In(n, e[h]) /\ In(m, c[h]) /\ In(m, e[h])
    BY <1>1 DEF H!Stay, Chained
  <2>4. e[h] = c[h] \/ (\E x, k : Grown(e[h], c[h], x, k)) \/ \E k : Shrunk(e[h], c[h], k)
    BY <1>1 DEF OneNode
  <2> QED BY <1>2, <2>1, <2>2, <2>3, <2>4, OneNodeOrder
<1>4. ASSUME NEW n \in Nodes, NEW h \in Heads, H!AddHead(n, h) PROVE H!Contents(h)'[1] = n
  <2>1. fwd'[h] = n /\ hashed'[n] = h
    BY <1>4, Known3, HKinds DEF H!AddHead
  <2>2. fwd'[h] # POISON1 /\ In(n, e[h]) /\ Line(h, e[h]) /\ Chain(fwd', pprev', h, e[h])
    BY <1>1, <2>1, HashedReady
  <2>3. 0 \in 0 .. Len(e[h]) /\ 0 + 1 = 1 /\ 1 \in Nat /\ 0 \in Nat /\ (1 \in 1 .. Len(e[h]) \/ 1 > Len(e[h]))
    BY <2>2, LenProperties, SMT DEF Line
  <2>4. Place(h, e[h], 0) = h
    BY <2>2, <2>3, PlacesAre
  <2>5. n = Place(h, e[h], 1)
    BY <2>1, <2>2, <2>3, <2>4 DEF Chain
  <2>6. e[h][1] = n
    BY <2>2, <2>3, <2>5, PlacesAre, HKinds
  <2> QED BY <1>1, <2>6
<1>5. ASSUME NEW n \in Nodes, NEW m \in Nodes, NEW h \in Heads, hashed'[n] = h, fwd'[n] = m PROVE H!NextTo(h, n, m)'
  <2>1. \E i, j \in 1 .. Len(e[h]) : j = i + 1 /\ e[h][i] = n /\ e[h][j] = m
    BY <1>1, <1>5, RightBefore
  <2> QED BY <1>1, <1>2, <2>1 DEF H!NextTo
<1>6. ASSUME NEW n \in Nodes, NEW m \in Nodes, H!AddBefore(n, m) PROVE H!NextTo(hashed[m], n, m)'
  <2>1. hashed[m] \in Heads /\ hashed[n] = NULL /\ hashed' = [hashed EXCEPT ![n] = hashed[m]] /\ n # m
    BY <1>6, Known3, HKinds DEF H!AddBefore
  <2>2. fwd'[n] = m
    <3>1. pprev[m] # n
      BY HBack, <1>6, HKinds DEF H!AddBefore, H!BackPointers
    <3> QED BY <1>6, <3>1, Known3, HKinds DEF H!AddBefore
  <2>3. hashed'[n] = hashed[m] /\ hashed'[m] = hashed[m]
    BY <2>1, Known3
  <2> QED BY <1>5, <2>1, <2>2, <2>3
<1>7. ASSUME NEW n \in Nodes, NEW m \in Nodes, H!AddAfter(n, m) PROVE H!NextTo(hashed[n], n, m)'
  <2>1. hashed[n] \in Heads /\ hashed[m] = NULL /\ hashed' = [hashed EXCEPT ![m] = hashed[n]] /\ n # m
    BY <1>7, Known3, HKinds DEF H!AddAfter
  <2>2. fwd'[n] = m /\ hashed'[n] = hashed[n]
    BY <1>7, <2>1, Known3, HKinds DEF H!AddAfter
  <2> QED BY <1>5, <2>1, <2>2
<1> QED BY <1>3, <1>4, <1>6, <1>7

\* No call reorders the nodes that stay on a hash list, and hlist_add_head,
\* hlist_add_before and hlist_add_after put the new node where they say, for any
\* number of heads and nodes.
THEOREM OrderAlwaysKept == MCSpec => OrderKept
<1>1. MCInit => HInv
  BY HInitial DEF MCInit
<1>2. HInv /\ [MCNext]_allVars => HInv'
  BY HInductive, HashApart
<1>3. HInv /\ HInv' /\ [MCNext]_allVars => 
        [ /\ \A h \in Heads : \A n, m \in H!Stay(h) : H!Before(h, n, m)' <=> H!Before(h, n, m)
          /\ \A n \in Nodes, h \in Heads : H!AddHead(n, h) => H!Contents(h)'[1] = n
          /\ \A n, m \in Nodes : H!AddBefore(n, m) => H!NextTo(hashed[m], n, m)'
          /\ \A n, m \in Nodes : H!AddAfter(n, m) => H!NextTo(hashed[n], n, m)' ]_(H!vars)
  BY HInductive, HashApart, HOrders
<1> QED BY <1>1, <1>2, <1>3, PTL DEF MCSpec, OrderKept, H!OrderKept

=============================================================================
