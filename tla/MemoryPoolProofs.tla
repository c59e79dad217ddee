-------------------------- MODULE MemoryPoolProofs --------------------------
(***************************************************************************)
(* Safety of the block list of MemoryPool, for every set of blocks, every  *)
(* finite set of client pointers, every unit size and every nGrowSize      *)
(* whose block does not exceed 16 bits; that the pool implements           *)
(* UnitAllocator when a block has at most two units; that pPrev is right   *)
(* and nothing faults when it has one; and that the list is what is live.  *)
(***************************************************************************)
EXTENDS MemoryPool, FiniteSetTheorems, WellFoundedInduction, TLAPS

\* What the theorems assume of the constants beyond SizeAssumption: nSize is
\* the size of a block, and the client has finitely many pointers.
NoWrap == UnitSize * GrowSize < U16 /\ IsFiniteSet(Handles)

-----------------------------------------------------------------------------
(* The inductive invariant                                                 *)

InPool == pc \in {"idle", "malloc", "free"}

\* f ranks the blocks of S in the order in which next links them.
OrderOf(f, next, S) ==
  /\ \A b, c \in S : b # c => f[b] # f[c]
  /\ \A b \in S : next[b] = NULL => \A c \in S : f[c] <= f[b]
  /\ \A b \in S : next[b] # NULL =>
       /\ next[b] \in S
       /\ f[b] < f[next[b]]
       /\ \A c \in S : f[c] <= f[b] \/ f[next[b]] <= f[c]

Ordered(f) == OrderOf(f, pNext, live)

\* The head comes first, and the list is empty only when no block is live.
HeadFirst(f) ==
  /\ pBlock = NULL => live = {}
  /\ pBlock # NULL => pBlock \in live /\ \A b \in live : f[pBlock] <= f[b]

\* Where a walk may be: mem_free has not passed the block it looks for, and
\* destroy has freed what it has passed.
Walk(f) ==
  /\ cur # NULL => cur \in live
  /\ pc = "free" => cur # NULL /\ f[cur] <= f[ptr[arg][1]]
  /\ pc = "destroy" => \A b \in live : cur # NULL /\ f[cur] <= f[b]

List(f) == Ordered(f) /\ (InPool => HeadFirst(f)) /\ Walk(f)

\* The call in progress is for a pointer of the client.
CallOK ==
  /\ pc = "malloc" => arg \in Handles /\ ptr[arg] = NULL
  /\ pc = "free" => arg \in Handles /\ ptr[arg] # NULL

\* Outside the life of the pool nothing is held and, once destroyed, nothing
\* is live.
NoPool ==
  /\ pc = "none" => live = {}
  /\ ~InPool => \A h \in Handles : ptr[h] = NULL

PrevOK == InPool => \A b \in live :
            pPrev[b] # NULL => pPrev[b] \in live /\ pNext[pPrev[b]] = b

IInv ==
  /\ TypeOK
  /\ CallOK
  /\ NoPool
  /\ \E f \in [Blocks -> Int] : List(f)
  /\ PrevOK
  /\ NoDangling
  /\ Accounting
  /\ FreeFindsBlock

-----------------------------------------------------------------------------
(* Arithmetic of sizes                                                     *)

LEMMA U16Type == U16 \in Nat /\ U16 > 4
BY SMT DEF U16

\* Remainders.
LEMMA Remainder ==
  ASSUME NEW n \in Nat, NEW w \in Nat, w > 0
  PROVE  n % w \in 0 .. w - 1 /\ (n < w => n % w = n)
BY SMTT(30)

\* What stays of a number stored in a u16.
LEMMA U16Store ==
  ASSUME NEW n \in Nat
  PROVE  n % U16 \in 0 .. U16 - 1 /\ (n < U16 => n % U16 = n)
<1>1. U16 \in Nat /\ U16 > 0
  BY U16Type
<1> QED BY <1>1, Remainder

LEMMA UnitSizeType == UnitSize \in Nat /\ UnitSize > 0
<1>1. ASSUME NEW n \in Nat
      PROVE  n \div 4 \in Nat /\ n < 4 * (n \div 4) + 4
  BY SMT
<1>2. UnitArg \in Nat
  BY SizeAssumption, U16Type, SMT DEF SizeAssumption
<1>3. CASE UnitArg > 4
  <2>1. (UnitArg + 3) \div 4 \in Nat /\ UnitArg + 3 < 4 * ((UnitArg + 3) \div 4) + 4
    BY <1>1, <1>2
  <2> QED BY <1>3, <1>2, <2>1, SMT DEF UnitSize
<1> QED BY <1>2, <1>3, SMT DEF UnitSize

LEMMA GrowSizeType == GrowSize \in 0 .. U16 - 1
BY SizeAssumption DEF SizeAssumption

LEMMA BlockSizeExact ==
  /\ BlockSize \in 0 .. U16 - 1
  /\ NoWrap => BlockSize = UnitSize * GrowSize
<1>1. UnitSize * GrowSize \in Nat
  BY UnitSizeType, GrowSizeType, U16Type, SMT
<1> QED BY <1>1, U16Store DEF BlockSize, NoWrap

\* Without a wrap a block is as large as its units, so every unit of a block
\* is found in it.
LEMMA ContainsUnit ==
  ASSUME NoWrap, NEW b \in Blocks, NEW p \in Pointers
  PROVE  Contains(b, p) <=> p[1] = b
<1>1. p[1] \in Blocks /\ p[2] \in Units
  BY DEF Pointers
<1>2. \A x, y, z \in Nat : x < y /\ z > 0 => x * z < z * y
  BY Z3
<1>3. p[2] \in Nat /\ GrowSize \in Nat /\ p[2] < GrowSize
  BY <1>1, GrowSizeType, U16Type DEF Units
<1>4. p[2] * UnitSize < UnitSize * GrowSize
  BY <1>2, <1>3, UnitSizeType
<1> QED BY <1>4, BlockSizeExact DEF Contains

\* The test of mem_free for an entirely free block counts its units.
LEMMA AllFreeMeaning ==
  ASSUME NoWrap, nFree[cur] \in 0 .. U16 - 2
  PROVE  /\ FreeCount = nFree[cur] + 1
         /\ AllFree <=> nFree[cur] + 1 = GrowSize
<1>1. FreeCount = nFree[cur] + 1 /\ FreeCount \in Nat /\ GrowSize \in Nat
  <2>1. nFree[cur] + 1 \in Nat /\ nFree[cur] + 1 < U16
    BY U16Type
  <2>2. GrowSize \in Nat
    BY GrowSizeType, U16Type
  <2> QED BY <2>1, <2>2, U16Store DEF FreeCount
<1>2. \A x, y, z \in Nat : z > 0 => (x * z = z * y <=> x = y)
  BY Z3
<1>3. FreeCount * UnitSize = UnitSize * GrowSize <=> FreeCount = GrowSize
  BY <1>1, <1>2, UnitSizeType
<1> QED BY <1>1, <1>3, BlockSizeExact DEF AllFree
-----------------------------------------------------------------------------
(* Type correctness                                                        *)

LEMMA PutBackType ==
  ASSUME TypeOK, PutBack, cur \in Blocks, arg \in Handles, ptr[arg] \in Pointers
  PROVE  /\ nFree' \in [Blocks -> 0 .. U16 - 1]
         /\ nFirst' \in [Blocks -> 0 .. U16 - 1]
         /\ link' \in [Blocks -> [Units -> 0 .. U16 - 1]]
<1>1. ptr[arg][2] \in Units /\ \A u \in Units : u \in 0 .. U16 - 1
  BY GrowSizeType, U16Type DEF Pointers, Units
<1>2. FreeCount \in 0 .. U16 - 1
  BY U16Store, U16Type DEF FreeCount, TypeOK
<1> QED BY <1>1, <1>2 DEF PutBack, TypeOK

TypeInv == TypeOK /\ CallOK

LEMMA TypeStep == TypeInv /\ [Next]_vars => TypeInv'
<1> SUFFICES ASSUME TypeInv, [Next]_vars
             PROVE  TypeInv'
  OBVIOUS
<1> USE DEF TypeInv, CallOK, TypeOK, Faults, blockVars
<1>a. GrowSize \in 0 .. U16 - 1 /\ U16 \in Nat /\ U16 > 4
  BY GrowSizeType, U16Type
<1>b. \A h \in Handles : ptr[h] # NULL =>
        ptr[h] \in Pointers /\ ptr[h][1] \in Blocks /\ ptr[h][2] \in Units
  BY DEF Pointers
<1>1. CASE Create
  BY <1>1 DEF Create, At
<1>2. CASE DestroyCall
  BY <1>2 DEF DestroyCall, At
<1>3. ASSUME NEW h \in Handles, ClientWrite(h)
      PROVE  TypeInv'
  BY <1>3, <1>a, <1>b, SizeAssumption DEF ClientWrite, At, SizeAssumption
<1>4. ASSUME NEW h \in Handles, MallocCall(h)
      PROVE  TypeInv'
  BY <1>4 DEF MallocCall, At
<1>5. ASSUME NEW h \in Handles, FreeCall(h)
      PROVE  TypeInv'
  BY <1>5 DEF FreeCall, At
<1>6. CASE MallocScan
  BY <1>6 DEF MallocScan, At
<1>7. CASE MallocTake
  <2>1. cur \in Blocks /\ nFirst[cur] \in Units /\ <<cur, nFirst[cur]>> \in Pointers
    BY <1>7 DEF MallocTake, At, Pointers
  <2>2. link[cur][nFirst[cur]] \in 0 .. U16 - 1
    BY <2>1
  <2>3. nFree[cur] - 1 \in 0 .. U16 - 1
    <3>1. nFree[cur] \in 0 .. U16 - 1 /\ nFree[cur] # 0
      BY <1>7, <2>1 DEF MallocTake, HasFree
    <3> HIDE DEF TypeInv
    <3> QED BY <1>a, <3>1
  <2> QED
    BY <1>7, <2>1, <2>2, <2>3 DEF MallocTake, Return
<1>8. CASE MallocWild
  BY <1>8 DEF MallocWild, At
<1>9. CASE MallocFail
  BY <1>9 DEF MallocFail, At, Return
<1>10. ASSUME NEW b \in Blocks, MallocGrow(b)
       PROVE  TypeInv'
  <2>1. <<b, 0>> \in Pointers /\ GrowSize - 1 \in 0 .. U16 - 1 /\ 1 \in 0 .. U16 - 1
    BY <1>10, <1>a DEF MallocGrow, Pointers, Units
  <2>2. InitialLinks \in [Units -> 0 .. U16 - 1]
    BY <1>a DEF InitialLinks, Units
  <2> QED
    BY <1>10, <2>1, <2>2 DEF MallocGrow, FreshFree, Return
<1>11. CASE FreeScan
  BY <1>11 DEF FreeScan, At
<1>12. CASE FreeToHeap
  BY <1>12 DEF FreeToHeap, At
<1>13. CASE FreeInHead
  BY <1>13, <1>b, PutBackType DEF FreeInHead, Found, At, Return
<1>14. CASE FreeMoveToHead
  BY <1>14, <1>b, PutBackType DEF FreeMoveToHead, Found, At, Return, NextWithout, PrevWithout
<1>15. CASE FreeDropHead
  BY <1>15, <1>b, PutBackType DEF FreeDropHead, Found, At, Return
<1>16. CASE FreeDropOther
  BY <1>16, <1>b, PutBackType DEF FreeDropOther, Found, At, Return, NextWithout, PrevWithout
<1>17. CASE FreeNullPrev
  BY <1>17, <1>b, PutBackType DEF FreeNullPrev, Found, At
<1>18. CASE DestroyBlock
  BY <1>18 DEF DestroyBlock, At
<1>19. CASE DestroyReturn
  BY <1>19 DEF DestroyReturn, At
<1>20. CASE UNCHANGED vars
  BY <1>20 DEF vars, blockVars
<1> QED
  BY <1>1, <1>2, <1>3, <1>4, <1>5, <1>6, <1>7, <1>8, <1>9, <1>10, <1>11, <1>12, <1>13, <1>14, <1>15, <1>16, <1>17, <1>18, <1>19, <1>20
     DEF Next, Client, Pool, MallocStep, FreeStep

\* Every reachable state is well typed, whatever the sizes (even when nSize
\* wraps and when nFirst holds what a client wrote).
THEOREM TypeCorrect == Spec => []TypeOK
<1>1. Init => TypeInv
  BY U16Type DEF Init, TypeInv, TypeOK, CallOK, Faults
<1> QED BY <1>1, TypeStep, PTL DEF Spec, TypeInv

-----------------------------------------------------------------------------
(* Lists: what the code does to a list, on the order of its blocks         *)

\* Only the blocks of the list matter.
LEMMA OrderFrame ==
  ASSUME NEW S, NEW f, NEW g, NEW next, NEW n2, OrderOf(f, next, S),
         \A b \in S : f[b] = g[b] /\ next[b] = n2[b]
  PROVE  OrderOf(g, n2, S)
BY DEF OrderOf

\* The first block leaves.
LEMMA OrderDropFirst ==
  ASSUME NEW S \in SUBSET Blocks, NEW f \in [Blocks -> Int], NEW next,
         OrderOf(f, next, S), NEW h \in S, \A b \in S : f[h] <= f[b]
  PROVE  OrderOf(f, next, S \ {h})
<1>1. ASSUME NEW b \in S, next[b] = h
      PROVE  FALSE
  <2>1. h # NULL /\ f[h] \in Int /\ f[b] \in Int
    BY NullAssumption DEF NullAssumption
  <2>2. f[b] < f[h] /\ f[h] <= f[b]
    BY <1>1, <2>1 DEF OrderOf
  <2> QED BY <2>1, <2>2
<1> QED BY <1>1 DEF OrderOf

\* A block is unlinked through the block before it.
LEMMA OrderUnlink ==
  ASSUME NEW S \in SUBSET Blocks, NEW f \in [Blocks -> Int],
         NEW next \in [Blocks -> Blocks \cup {NULL}],
         OrderOf(f, next, S), NEW b \in S, NEW p \in S, next[p] = b
  PROVE  /\ OrderOf(f, [next EXCEPT ![p] = next[b]], S \ {b})
         /\ p # b /\ f[p] < f[b]
<1>0. b \in Blocks /\ p \in Blocks /\ b # NULL
  BY NullAssumption DEF NullAssumption
<1>1. p # b /\ f[p] < f[b]
  <2>1. next[p] # NULL /\ f[p] < f[next[p]] /\ f[b] \in Int
    BY <1>0 DEF OrderOf
  <2> QED BY <2>1
<1>2. \A c \in S : next[c] = b => c = p
  <2> SUFFICES ASSUME NEW c \in S, next[c] = b, c # p
               PROVE  FALSE
    OBVIOUS
  <2>1. f[c] \in Int /\ f[p] \in Int /\ f[b] \in Int /\ f[c] # f[p]
    BY <1>0 DEF OrderOf
  <2>2. f[p] <= f[c] \/ f[b] <= f[p]
    BY <1>0, <2>1 DEF OrderOf
  <2>3. f[c] <= f[p] \/ f[b] <= f[c]
    BY <1>0, <2>1 DEF OrderOf
  <2>4. f[c] < f[b]
    BY <1>0 DEF OrderOf
  <2> QED BY <1>1, <2>1, <2>2, <2>3, <2>4
<1> DEFINE n2 == [next EXCEPT ![p] = next[b]]
           T  == S \ {b}
<1>3. n2[p] = next[b] /\ \A c \in T : c # p => n2[c] = next[c] /\ next[c] # b
  BY <1>0, <1>2
<1>4. \A c \in T : c # p /\ n2[c] # NULL =>
        n2[c] \in T /\ f[c] < f[n2[c]] /\ \A d \in T : f[d] <= f[c] \/ f[n2[c]] <= f[d]
  BY <1>3 DEF OrderOf
<1>5. n2[p] # NULL =>
        n2[p] \in T /\ f[p] < f[n2[p]] /\ \A d \in T : f[d] <= f[p] \/ f[n2[p]] <= f[d]
  <2> SUFFICES ASSUME next[b] # NULL
               PROVE  /\ next[b] \in T /\ f[p] < f[next[b]]
                      /\ \A d \in T : f[d] <= f[p] \/ f[next[b]] <= f[d]
    BY <1>3
  <2>1. next[b] \in S /\ f[b] < f[next[b]]
    BY DEF OrderOf
  <2>2. next[b] \in T /\ f[p] < f[next[b]]
    BY <1>0, <1>1, <2>1
  <2>3. ASSUME NEW d \in T
        PROVE  f[d] <= f[p] \/ f[next[b]] <= f[d]
    <3>1. f[d] <= f[p] \/ f[b] <= f[d]
      BY <1>0 DEF OrderOf
    <3>2. f[d] <= f[b] \/ f[next[b]] <= f[d]
      BY DEF OrderOf
    <3>3. f[d] # f[b] /\ f[d] \in Int /\ f[b] \in Int
      BY <1>0 DEF OrderOf
    <3> QED BY <3>1, <3>2, <3>3
  <2> QED BY <2>2, <2>3
<1>6. \A c \in T : n2[c] = NULL => \A d \in T : f[d] <= f[c]
  <2>1. \A c \in T : c # p /\ n2[c] = NULL => \A d \in T : f[d] <= f[c]
    BY <1>3 DEF OrderOf
  <2>2. ASSUME next[b] = NULL, NEW d \in T
        PROVE  f[d] <= f[p]
    <3>1. f[d] <= f[b] /\ f[d] # f[b]
      BY <2>2 DEF OrderOf
    <3>2. f[d] <= f[p] \/ f[b] <= f[d]
      BY <1>0 DEF OrderOf
    <3>3. f[d] \in Int /\ f[b] \in Int
      BY <1>0
    <3> QED BY <3>1, <3>2, <3>3
  <2> QED BY <1>3, <2>1, <2>2
<1>7. \A c, d \in T : c # d => f[c] # f[d]
  BY DEF OrderOf
<1>8. OrderOf(f, n2, T)
  <2>1. \A c \in T : n2[c] # NULL =>
          /\ n2[c] \in T
          /\ f[c] < f[n2[c]]
          /\ \A d \in T : f[d] <= f[c] \/ f[n2[c]] <= f[d]
    BY <1>4, <1>5
  <2> HIDE DEF n2, T
  <2> QED BY <1>6, <1>7, <2>1 DEF OrderOf
<1> QED BY <1>1, <1>8

\* A block is put before the first one.
LEMMA OrderPush ==
  ASSUME NEW S \in SUBSET Blocks, NEW f \in [Blocks -> Int], NEW next,
         OrderOf(f, next, S), NEW b \in Blocks, b \notin S,
         \A c \in S : f[b] < f[c],
         next[b] = NULL => S = {},
         next[b] # NULL => next[b] \in S /\ \A c \in S : f[next[b]] <= f[c]
  PROVE  OrderOf(f, next, S \cup {b})
<1>0. \A c \in S \cup {b} : f[c] \in Int
  OBVIOUS
<1>1. \A c, d \in S \cup {b} : c # d => f[c] # f[d]
  BY <1>0 DEF OrderOf
<1>2. \A c \in S \cup {b} : next[c] = NULL => \A d \in S \cup {b} : f[d] <= f[c]
  BY <1>0 DEF OrderOf
<1>3. \A c \in S \cup {b} : next[c] # NULL =>
        /\ next[c] \in S \cup {b}
        /\ f[c] < f[next[c]]
        /\ \A d \in S \cup {b} : f[d] <= f[c] \/ f[next[c]] <= f[d]
  BY <1>0 DEF OrderOf
<1> QED BY <1>1, <1>2, <1>3 DEF OrderOf

-----------------------------------------------------------------------------
(* Ownership: what a call does to the pointers held into the blocks        *)

LEMMA HeldFinite ==
  ASSUME IsFiniteSet(Handles), NEW b
  PROVE  IsFiniteSet(HeldIn(b)) /\ Cardinality(HeldIn(b)) \in Nat
<1>1. HeldIn(b) \in SUBSET Handles
  BY DEF HeldIn
<1> QED BY <1>1, FS_Subset, FS_CardinalityType

\* mem_malloc gives the client one more pointer into block b.
LEMMA HeldGain ==
  ASSUME TypeOK, IsFiniteSet(Handles), NEW h \in Handles, ptr[h] = NULL,
         NEW b \in Blocks, NEW u \in Units, ptr' = [ptr EXCEPT ![h] = <<b, u>>]
  PROVE  /\ Cardinality(HeldIn(b)') = Cardinality(HeldIn(b)) + 1
         /\ \A c \in Blocks : c # b => HeldIn(c)' = HeldIn(c)
<1>1. ptr'[h] = <<b, u>> /\ ptr'[h][1] = b /\ \A g \in Handles : g # h => ptr'[g] = ptr[g]
  BY DEF TypeOK
<1>2. <<b, u>> # NULL
  BY NullAssumption DEF NullAssumption, Units
<1>3. HeldIn(b)' = HeldIn(b) \cup {h} /\ h \notin HeldIn(b)
  BY <1>1, <1>2 DEF HeldIn
<1>4. \A c \in Blocks : c # b => HeldIn(c)' = HeldIn(c)
  BY <1>1 DEF HeldIn
<1> QED BY <1>3, <1>4, HeldFinite, FS_AddElement

\* mem_free takes the client's pointer into block b.
LEMMA HeldLoss ==
  ASSUME TypeOK, IsFiniteSet(Handles), NEW h \in Handles, ptr[h] # NULL,
         ptr' = [ptr EXCEPT ![h] = NULL], NEW b \in Blocks, b = ptr[h][1]
  PROVE  /\ Cardinality(HeldIn(b)') = Cardinality(HeldIn(b)) - 1
         /\ HeldIn(b)' = HeldIn(b) \ {h}
         /\ h \in HeldIn(b)
         /\ \A c \in Blocks : c # b => HeldIn(c)' = HeldIn(c)
<1>1. ptr'[h] = NULL /\ \A g \in Handles : g # h => ptr'[g] = ptr[g]
  BY DEF TypeOK
<1>2. HeldIn(b)' = HeldIn(b) \ {h} /\ h \in HeldIn(b)
  BY <1>1 DEF HeldIn
<1>3. ASSUME NEW c \in Blocks, c # b
      PROVE  HeldIn(c)' = HeldIn(c)
  <2>1. ptr[h][1] # c
    BY <1>3
  <2> QED BY <1>1, <2>1 DEF HeldIn
<1>4. Cardinality(HeldIn(b)') = Cardinality(HeldIn(b)) - 1
  <2>1. IsFiniteSet(HeldIn(b))
    BY HeldFinite
  <2>2. Cardinality(HeldIn(b) \ {h}) = Cardinality(HeldIn(b)) - 1
    BY <1>2, <2>1, FS_RemoveElement
  <2> QED BY <1>2, <2>2
<1> QED BY <1>2, <1>3, <1>4

-----------------------------------------------------------------------------
(* The steps                                                               *)

\* What IInv says beyond types.
Rest ==
  /\ NoPool
  /\ \E f \in [Blocks -> Int] : List(f)
  /\ PrevOK
  /\ NoDangling
  /\ Accounting
  /\ FreeFindsBlock

\* A step that changes neither the list nor the pointers keeps what is said
\* of them.
LEMMA SameMemory ==
  ASSUME IInv, InPool, InPool', UNCHANGED <<pBlock, pNext, pPrev, live, ptr>>,
         \/ nFree' = nFree /\ fault' = fault
         \/ fault' \in {"null_prev", "wild_unit"}
  PROVE  /\ NoDangling' /\ Accounting' /\ PrevOK' /\ FreeFindsBlock' /\ NoPool'
         /\ \A f : Ordered(f) /\ HeadFirst(f) => Ordered(f)' /\ HeadFirst(f)'
<1>1. \A b : HeldIn(b)' = HeldIn(b)
  BY DEF HeldIn
<1>2. NoDangling' /\ PrevOK' /\ FreeFindsBlock' /\ NoPool'
  BY DEF IInv, NoDangling, PrevOK, FreeFindsBlock, InPool, NoPool
<1>3. Accounting'
  BY <1>1 DEF IInv, Accounting, Running, InPool
<1>4. \A f : Ordered(f) /\ HeadFirst(f) => Ordered(f)' /\ HeadFirst(f)'
  BY DEF Ordered, OrderOf, HeadFirst
<1> QED BY <1>2, <1>3, <1>4

\* Calls that begin, loops that go on, and the faults.
LEMMA QuietStep ==
  ASSUME IInv, NoWrap,
         \/ \E h \in Handles : ClientWrite(h) \/ MallocCall(h) \/ FreeCall(h)
         \/ MallocScan \/ MallocWild \/ MallocFail \/ FreeScan \/ FreeNullPrev
  PROVE  Rest'
<1> USE DEF At, Return, InPool
<1>0. PICK f \in [Blocks -> Int] : List(f)
  BY DEF IInv
<1>1. InPool /\ Ordered(f) /\ HeadFirst(f) /\ Walk(f)
  BY <1>0 DEF ClientWrite, MallocCall, FreeCall, MallocScan, MallocWild, MallocFail,
              FreeScan, FreeNullPrev, Found, List
<1>2. /\ InPool'
      /\ UNCHANGED <<pBlock, pNext, pPrev, live, ptr>>
      /\ (nFree' = nFree /\ fault' = fault) \/ fault' \in {"null_prev", "wild_unit"}
  BY DEF ClientWrite, MallocCall, FreeCall, MallocScan, MallocWild, MallocFail,
         FreeScan, FreeNullPrev, Found, blockVars
<1>3. Walk(f)'
  <2>1. ASSUME NEW h \in Handles, ClientWrite(h) \/ MallocCall(h)
        PROVE  Walk(f)'
    BY <1>1, <2>1 DEF ClientWrite, MallocCall, Walk, HeadFirst
  <2>2. ASSUME NEW h \in Handles, FreeCall(h)
        PROVE  Walk(f)'
    <3>1. ptr[h][1] \in live
      BY <2>2 DEF FreeCall, IInv, NoDangling
    <3> QED BY <1>1, <2>2, <3>1 DEF FreeCall, Walk, HeadFirst
  <2>3. CASE MallocScan
    BY <1>1, <2>3 DEF MallocScan, blockVars, Walk, Ordered, OrderOf
  <2>4. CASE MallocWild \/ MallocFail \/ FreeNullPrev
    BY <1>1, <2>4 DEF MallocWild, MallocFail, FreeNullPrev, Found, blockVars, Walk
  <2>5. CASE FreeScan
    <3>1. arg \in Handles /\ ptr[arg] \in Pointers /\ ptr[arg] # NULL /\ cur \in Blocks
      BY <2>5 DEF FreeScan, IInv, CallOK, TypeOK
    <3>2. cur # ptr[arg][1] /\ ptr[arg][1] \in live /\ cur \in live
      BY <1>1, <2>5, <3>1, ContainsUnit DEF FreeScan, IInv, NoDangling, Walk
    <3>3. f[cur] <= f[ptr[arg][1]] /\ f[cur] # f[ptr[arg][1]]
      BY <1>1, <2>5, <3>2 DEF FreeScan, Walk, Ordered, OrderOf
    <3>4. f[cur] \in Int /\ f[ptr[arg][1]] \in Int
      BY <3>1 DEF Pointers
    <3>5. pNext[cur] # NULL /\ pNext[cur] \in live /\ f[pNext[cur]] <= f[ptr[arg][1]]
      BY <1>1, <3>2, <3>3, <3>4 DEF Ordered, OrderOf
    <3> QED BY <2>5, <3>5 DEF FreeScan, blockVars, Walk
  <2> QED BY <2>1, <2>2, <2>3, <2>4, <2>5
<1>4. List(f)'
  BY <1>1, <1>2, <1>3, SameMemory DEF List
<1> QED BY <1>1, <1>2, <1>4, SameMemory DEF Rest

\* The pool is created, and destroyed block by block.
LEMMA LifeStep ==
  ASSUME IInv, NoWrap, Create \/ DestroyCall \/ DestroyBlock \/ DestroyReturn
  PROVE  Rest'
<1> USE DEF At, InPool
<1>0. PICK f \in [Blocks -> Int] : List(f)
  BY DEF IInv
<1>1. CASE Create
  <2>1. live = {} /\ live' = {} /\ cur = NULL /\ \A h \in Handles : ptr[h] = NULL
    BY <1>0, <1>1 DEF Create, IInv, NoPool, List, Walk
  <2>2. List(f)'
    BY <1>1, <2>1 DEF Create, List, Ordered, OrderOf, HeadFirst, Walk
  <2> QED BY <1>1, <2>1, <2>2 DEF Create, Rest, NoPool, PrevOK, NoDangling,
             Accounting, FreeFindsBlock, IInv
<1>2. CASE DestroyCall
  <2>1. Ordered(f) /\ HeadFirst(f) /\ UNCHANGED <<live, pNext>>
    BY <1>0, <1>2 DEF DestroyCall, List, blockVars
  <2>2. List(f)'
    BY <1>2, <2>1 DEF DestroyCall, List, Ordered, OrderOf, HeadFirst, Walk
  <2> QED BY <1>2, <2>2 DEF DestroyCall, Rest, NoPool, PrevOK, NoDangling,
             Accounting, FreeFindsBlock, IInv, Running
<1>3. CASE DestroyBlock
  <2>1. /\ Ordered(f) /\ cur \in live /\ live' = live \ {cur} /\ UNCHANGED <<pNext, pc, ptr>>
        /\ pc = "destroy" /\ cur' = pNext[cur] /\ fault' = fault
        /\ \A b \in live : f[cur] <= f[b]
    BY <1>0, <1>3 DEF DestroyBlock, List, Walk, blockVars
  <2>2. live \in SUBSET Blocks
    BY DEF IInv, TypeOK
  <2>3. OrderOf(f, pNext, live \ {cur})
    BY <2>1, <2>2, OrderDropFirst DEF Ordered
  <2>4. Ordered(f)'
    BY <2>1, <2>3 DEF Ordered, OrderOf
  <2>5. ASSUME NEW b \in live, b # cur
        PROVE  pNext[cur] # NULL /\ pNext[cur] \in live /\ pNext[cur] # cur /\ f[pNext[cur]] <= f[b]
    <3>1. f[cur] \in Int /\ f[b] \in Int /\ f[b] # f[cur] /\ f[cur] <= f[b]
      BY <2>1, <2>2, <2>5 DEF Ordered, OrderOf
    <3>2. pNext[cur] # NULL
      BY <2>1, <3>1 DEF Ordered, OrderOf
    <3>3. pNext[cur] \in live /\ f[cur] < f[pNext[cur]] /\ (f[b] <= f[cur] \/ f[pNext[cur]] <= f[b])
      BY <2>1, <3>2 DEF Ordered, OrderOf
    <3> QED BY <3>1, <3>2, <3>3
  <2>6. pNext[cur] # NULL => pNext[cur] \in live \ {cur}
    <3>1. pNext[cur] # NULL => pNext[cur] \in live /\ f[cur] < f[pNext[cur]] /\ f[cur] \in Int
      BY <2>1, <2>2 DEF Ordered, OrderOf
    <3> QED BY <3>1
  <2>7. Walk(f)'
    BY <2>1, <2>5, <2>6 DEF Walk
  <2>8. List(f)'
    BY <2>1, <2>4, <2>7 DEF List
  <2> QED BY <2>1, <2>8 DEF Rest, NoPool, PrevOK, NoDangling, Accounting,
             FreeFindsBlock, IInv, Running
<1>4. CASE DestroyReturn
  <2>1. /\ live = {} /\ Ordered(f) /\ UNCHANGED <<pNext, cur, ptr, live, fault>>
        /\ pc = "destroy" /\ cur = NULL /\ pc' = "none"
    BY <1>0, <1>4 DEF DestroyReturn, List, Walk, blockVars
  <2>2. List(f)'
    BY <2>1 DEF List, Ordered, OrderOf, Walk
  <2> QED BY <2>1, <2>2 DEF Rest, NoPool, PrevOK, NoDangling, Accounting,
             FreeFindsBlock, IInv, Running
<1> QED BY <1>1, <1>2, <1>3, <1>4

\* mem_malloc hands out a unit of a block it has.
LEMMA TakeStep ==
  ASSUME IInv, NoWrap, MallocTake
  PROVE  Rest'
<1> USE DEF At, Return, InPool
<1>0. PICK f \in [Blocks -> Int] : List(f)
  BY DEF IInv
<1>1. cur \in live /\ cur \in Blocks /\ arg \in Handles /\ ptr[arg] = NULL
  BY <1>0 DEF MallocTake, List, Walk, IInv, CallOK, TypeOK
<1>2. /\ ptr' = [ptr EXCEPT ![arg] = <<cur, nFirst[cur]>>] /\ nFirst[cur] \in Units
      /\ nFree' = [nFree EXCEPT ![cur] = nFree[cur] - 1]
      /\ UNCHANGED <<pBlock, pNext, pPrev, live, fault>>
      /\ pc = "malloc" /\ pc' = "idle" /\ cur' = NULL /\ fault = "none"
  BY DEF MallocTake, HasFree
<1>3. NoDangling'
  BY <1>1, <1>2 DEF IInv, NoDangling, TypeOK
<1>4. Accounting'
  <2> SUFFICES ASSUME NEW b \in live
               PROVE  nFree'[b] + Cardinality(HeldIn(b)') = GrowSize
    BY <1>2 DEF Accounting
  <2>1. nFree[b] + Cardinality(HeldIn(b)) = GrowSize /\ nFree[b] \in Int
    BY <1>2, U16Type DEF IInv, Accounting, Running, TypeOK
  <2>2. Cardinality(HeldIn(b)) \in Nat
    BY HeldFinite DEF NoWrap
  <2>3. CASE b = cur
    <3>1. Cardinality(HeldIn(b)') = Cardinality(HeldIn(b)) + 1
      <4>1. \A c \in Blocks : c = cur => Cardinality(HeldIn(c)') = Cardinality(HeldIn(c)) + 1
        BY <1>1, <1>2, HeldGain DEF IInv, NoWrap
      <4> QED BY <1>1, <2>3, <4>1
    <3>2. nFree'[b] = nFree[b] - 1
      BY <1>1, <1>2, <2>3 DEF IInv, TypeOK
    <3> QED BY <2>1, <2>2, <3>1, <3>2
  <2>4. CASE b # cur
    <3>1. HeldIn(b)' = HeldIn(b)
      <4>1. \A c, d \in Blocks : c = cur /\ d # c => HeldIn(d)' = HeldIn(d)
        BY <1>1, <1>2, HeldGain DEF IInv, NoWrap
      <4> QED BY <1>1, <2>4, <4>1 DEF IInv, TypeOK
    <3>2. nFree'[b] = nFree[b]
      BY <1>2, <2>4 DEF IInv, TypeOK
    <3> QED BY <2>1, <3>1, <3>2
  <2> QED BY <2>3, <2>4
<1>5. List(f)'
  BY <1>0, <1>2 DEF List, Ordered, OrderOf, HeadFirst, Walk
<1>6. PrevOK' /\ FreeFindsBlock' /\ NoPool'
  BY <1>2 DEF IInv, PrevOK, FreeFindsBlock, NoPool
<1> QED BY <1>3, <1>4, <1>5, <1>6 DEF Rest

\* mem_malloc puts a fresh block at the head and hands out its unit 0.
LEMMA GrowStep ==
  ASSUME IInv, NoWrap, NEW b \in Blocks, MallocGrow(b)
  PROVE  Rest'
<1> USE DEF At, Return, InPool
<1>0. PICK f \in [Blocks -> Int] : List(f)
  BY DEF IInv
<1>1. /\ b \notin live /\ arg \in Handles /\ ptr[arg] = NULL /\ b # NULL
      /\ Ordered(f) /\ HeadFirst(f) /\ live \in SUBSET Blocks
      /\ pNext \in [Blocks -> Blocks \cup {NULL}] /\ pPrev \in [Blocks -> Blocks \cup {NULL}]
      /\ nFree \in [Blocks -> 0 .. U16 - 1]
  BY <1>0, NullAssumption DEF MallocGrow, List, IInv, CallOK, TypeOK, NullAssumption
<1>2. /\ ptr' = [ptr EXCEPT ![arg] = <<b, 0>>] /\ 0 \in Units
      /\ nFree' = [nFree EXCEPT ![b] = GrowSize - 1]
      /\ live' = live \cup {b} /\ pBlock' = b
      /\ pNext' = [pNext EXCEPT ![b] = pBlock]
      /\ pPrev' = [c \in Blocks |-> IF c = b THEN NULL
                                    ELSE IF c = pBlock THEN b ELSE pPrev[c]]
      /\ pc = "malloc" /\ pc' = "idle" /\ cur' = NULL /\ fault = "none" /\ fault' = "none"
  BY GrowSizeType, U16Type DEF MallocGrow, FreshFree, Units
<1>3. NoDangling'
  BY <1>1, <1>2 DEF IInv, NoDangling, TypeOK
<1>4. Accounting'
  <2>1. /\ Cardinality(HeldIn(b)') = Cardinality(HeldIn(b)) + 1
        /\ \A c \in Blocks : c # b => HeldIn(c)' = HeldIn(c)
    BY <1>1, <1>2, HeldGain DEF IInv, NoWrap
  <2>2. HeldIn(b) = {}
    BY <1>1 DEF HeldIn, IInv, NoDangling
  <2>3. nFree'[b] + Cardinality(HeldIn(b)') = GrowSize
    <3>1. nFree'[b] = GrowSize - 1 /\ GrowSize \in Int
      BY <1>1, <1>2, GrowSizeType, U16Type
    <3>2. Cardinality(HeldIn(b)) = 0
      BY <2>2, FS_EmptySet
    <3> QED BY <2>1, <3>1, <3>2
  <2>4. ASSUME NEW c \in live
        PROVE  nFree'[c] + Cardinality(HeldIn(c)') = GrowSize
    <3>1. c # b /\ c \in Blocks /\ nFree[c] + Cardinality(HeldIn(c)) = GrowSize
      BY <1>1, <1>2 DEF IInv, Accounting, Running
    <3> QED BY <1>1, <1>2, <2>1, <3>1
  <2> QED BY <1>2, <2>3, <2>4 DEF Accounting
<1>5. \E g \in [Blocks -> Int] : List(g)'
  <2> DEFINE g == [f EXCEPT ![b] = IF pBlock = NULL THEN 0 ELSE f[pBlock] - 1]
  <2>1. /\ g \in [Blocks -> Int]
        /\ \A c \in live : g[c] = f[c] /\ pNext'[c] = pNext[c]
        /\ \A c \in live : g[b] < g[c]
    BY <1>1, <1>2 DEF HeadFirst
  <2>2. OrderOf(g, pNext', live)
    BY <1>1, <2>1, OrderFrame DEF Ordered
  <2>3. /\ pNext'[b] = NULL => live = {}
        /\ pNext'[b] # NULL => pNext'[b] \in live /\ \A c \in live : g[pNext'[b]] <= g[c]
    BY <1>1, <1>2, <2>1 DEF HeadFirst
  <2> HIDE DEF g
  <2>4. OrderOf(g, pNext', live \cup {b})
    BY <1>1, <2>1, <2>2, <2>3, OrderPush
  <2>5. OrderOf(g, pNext', live')
    BY <1>2, <2>4
  <2>6. ASSUME NEW c \in live'
        PROVE  g[b] <= g[c]
    <3>1. c \in Blocks /\ g[b] \in Int /\ g[c] \in Int
      BY <1>1, <1>2, <2>1
    <3>2. c = b \/ g[b] < g[c]
      BY <1>2, <2>1
    <3> QED BY <3>1, <3>2
  <2>7. \E h \in [Blocks -> Int] :
          OrderOf(h, pNext', live') /\ \A c \in live' : h[b] <= h[c]
    BY <2>1, <2>5, <2>6
  <2>8. PICK h \in [Blocks -> Int] :
          OrderOf(h, pNext', live') /\ \A c \in live' : h[b] <= h[c]
    BY <2>7
  <2>9. Ordered(h)' /\ HeadFirst(h)' /\ Walk(h)'
    BY <1>1, <1>2, <2>8 DEF Ordered, OrderOf, HeadFirst, Walk
  <2> QED BY <2>9 DEF List
<1>6. PrevOK'
  <2> SUFFICES ASSUME NEW c \in live \cup {b}, pPrev'[c] # NULL
               PROVE  pPrev'[c] \in live \cup {b} /\ pNext'[pPrev'[c]] = c
    BY <1>2 DEF PrevOK
  <2>1. c # b /\ c \in live
    BY <1>1, <1>2
  <2>2. CASE c = pBlock
    BY <1>1, <1>2, <2>1, <2>2
  <2>3. CASE c # pBlock
    <3>1. pPrev'[c] = pPrev[c] /\ pPrev[c] \in live /\ pNext[pPrev[c]] = c /\ pPrev[c] # b
      BY <1>1, <1>2, <2>1, <2>3 DEF IInv, PrevOK
    <3> QED BY <1>1, <1>2, <3>1
  <2> QED BY <2>2, <2>3
<1>7. FreeFindsBlock' /\ NoPool'
  BY <1>2 DEF IInv, FreeFindsBlock, NoPool
<1> QED BY <1>3, <1>4, <1>5, <1>6, <1>7 DEF Rest

\* What holds when mem_free has found the block of the pointer and put the
\* unit back: the counts still add up, and the block is entirely free just
\* when the client holds nothing more in it.
LEMMA FreeFacts ==
  ASSUME IInv, NoWrap, Found, PutBack, ptr' = [ptr EXCEPT ![arg] = NULL]
  PROVE  /\ cur \in live /\ cur \in Blocks /\ cur # NULL /\ fault = "none" /\ pc = "free"
         /\ \A b \in live : nFree'[b] + Cardinality(HeldIn(b)') = GrowSize
         /\ \A h \in Handles : ptr'[h] # NULL => ptr'[h] = ptr[h] /\ ptr[h][1] \in live
         /\ AllFree => \A h \in Handles : ptr'[h] # NULL => ptr'[h][1] # cur
<1> USE DEF At, InPool
<1>1. /\ cur \in live /\ cur \in Blocks /\ cur # NULL /\ fault = "none" /\ pc = "free"
      /\ arg \in Handles /\ ptr[arg] # NULL /\ ptr[arg] \in Pointers
      /\ nFree \in [Blocks -> 0 .. U16 - 1] /\ live \in SUBSET Blocks
  BY DEF Found, IInv, List, Walk, CallOK, TypeOK
<1>2. ptr[arg][1] = cur
  BY <1>1, ContainsUnit DEF Found
<1>3. \A c \in Blocks : c = cur =>
        /\ Cardinality(HeldIn(c)') = Cardinality(HeldIn(c)) - 1
        /\ HeldIn(c)' = HeldIn(c) \ {arg} /\ arg \in HeldIn(c)
        /\ \A d \in Blocks : d # c => HeldIn(d)' = HeldIn(d)
  BY <1>1, <1>2, HeldLoss DEF IInv, NoWrap
<1>4. \A b \in live : nFree[b] + Cardinality(HeldIn(b)) = GrowSize /\ nFree[b] \in Nat
                     /\ Cardinality(HeldIn(b)) \in Nat
  <2>1. \A b : Cardinality(HeldIn(b)) \in Nat
    BY HeldFinite DEF NoWrap
  <2> QED BY <1>1, <2>1, U16Type DEF IInv, Accounting, Running
<1>5. Cardinality(HeldIn(cur)) > 0
  <2>1. HeldIn(cur) # {} /\ IsFiniteSet(HeldIn(cur))
    BY <1>1, <1>3, HeldFinite DEF NoWrap
  <2>2. Cardinality(HeldIn(cur)) # 0
    BY <2>1, FS_EmptySet
  <2> QED BY <1>1, <1>4, <2>2
<1>6. nFree[cur] \in 0 .. U16 - 2
  BY <1>1, <1>4, <1>5, GrowSizeType, U16Type
<1>7. FreeCount = nFree[cur] + 1 /\ (AllFree <=> nFree[cur] + 1 = GrowSize)
  BY <1>6, AllFreeMeaning
<1>8. nFree' = [nFree EXCEPT ![cur] = nFree[cur] + 1]
  BY <1>7 DEF PutBack
<1>9. ASSUME NEW b \in live
      PROVE  nFree'[b] + Cardinality(HeldIn(b)') = GrowSize
  <2>1. CASE b = cur
    <3>1. Cardinality(HeldIn(b)') = Cardinality(HeldIn(b)) - 1
      BY <1>1, <1>3, <2>1
    <3>2. nFree'[b] = nFree[b] + 1
      BY <1>1, <1>8, <2>1
    <3> QED BY <1>4, <3>1, <3>2
  <2>2. CASE b # cur
    <3>1. HeldIn(b)' = HeldIn(b)
      BY <1>1, <1>3, <2>2
    <3>2. nFree'[b] = nFree[b]
      BY <1>1, <1>8, <2>2
    <3> QED BY <1>4, <3>1, <3>2
  <2> QED BY <2>1, <2>2
<1>10. \A h \in Handles : ptr'[h] # NULL => ptr'[h] = ptr[h] /\ ptr[h][1] \in live
  BY DEF IInv, NoDangling, TypeOK
<1>11. ASSUME AllFree, NEW h \in Handles, ptr'[h] # NULL, ptr'[h][1] = cur
       PROVE  FALSE
  <2>1. ASSUME NEW c \in Blocks, c = cur
        PROVE  h \in HeldIn(c)' /\ Cardinality(HeldIn(c)') = 0
    <3>1. nFree'[c] = GrowSize
      BY <1>1, <1>7, <1>8, <1>11, <2>1
    <3>2. nFree'[c] + Cardinality(HeldIn(c)') = GrowSize
      BY <1>1, <1>9, <2>1
    <3>3. Cardinality(HeldIn(c)') = 0
      BY <1>1, <1>3, <1>4, <2>1, <3>1, <3>2, GrowSizeType, U16Type
    <3> QED BY <1>11, <2>1, <3>3 DEF HeldIn
  <2>2. PICK c \in Blocks : c = cur
    BY <1>1
  <2>3. h \in HeldIn(c)' /\ Cardinality(HeldIn(c)') = 0 /\ HeldIn(c)' \subseteq HeldIn(c)
    BY <2>1, <2>2, <1>3
  <2>4. IsFiniteSet(HeldIn(c)) 
    BY HeldFinite DEF NoWrap
  <2>5. IsFiniteSet(HeldIn(c)')
    BY <2>3, <2>4, FS_Subset
  <2> QED BY <2>3, <2>5, FS_EmptySet
<1> QED BY <1>1, <1>9, <1>10, <1>11

\* Where a walk of mem_free that has found a block other than the head is:
\* its pPrev, being not NULL, is the block before it.
LEMMA FoundInList ==
  ASSUME IInv, Found, NEW f \in [Blocks -> Int], List(f)
  PROVE  /\ Ordered(f) /\ HeadFirst(f) /\ live \in SUBSET Blocks
         /\ cur \in live /\ cur \in Blocks /\ cur # NULL
         /\ pBlock \in live /\ pBlock # NULL
         /\ pNext \in [Blocks -> Blocks \cup {NULL}]
         /\ pPrev \in [Blocks -> Blocks \cup {NULL}]
         /\ \A b \in live : pPrev[b] # NULL => pPrev[b] \in live /\ pNext[pPrev[b]] = b
BY DEF IInv, Found, At, List, Walk, InPool, HeadFirst, PrevOK, TypeOK

\* A unit goes back to the head block, which stays.
LEMMA InHeadStep ==
  ASSUME IInv, NoWrap, FreeInHead
  PROVE  Rest'
<1>1. PICK f \in [Blocks -> Int] : List(f)
  BY DEF IInv
<1>2. /\ Found /\ PutBack /\ ptr' = [ptr EXCEPT ![arg] = NULL]
      /\ UNCHANGED <<pBlock, pNext, pPrev, live, fault>>
      /\ pc' = "idle" /\ cur' = NULL
  BY DEF FreeInHead, Return
<1>3. List(f)'
  BY <1>1, <1>2, FoundInList DEF List, Ordered, OrderOf, HeadFirst, Walk
<1>4. NoDangling' /\ Accounting'
  BY <1>2, FreeFacts DEF NoDangling, Accounting
<1> QED BY <1>2, <1>3, <1>4, FreeFacts DEF Rest, PrevOK, FreeFindsBlock, NoPool, InPool, IInv

\* The head block is entirely free and leaves.
LEMMA DropHeadStep ==
  ASSUME IInv, NoWrap, FreeDropHead
  PROVE  Rest'
<1>1. PICK f \in [Blocks -> Int] : List(f)
  BY DEF IInv
<1>2. /\ Found /\ PutBack /\ ptr' = [ptr EXCEPT ![arg] = NULL] /\ AllFree
      /\ cur = pBlock /\ pBlock' = pNext[cur] /\ live' = live \ {cur}
      /\ pPrev' = [c \in Blocks |-> IF c = pNext[cur] THEN NULL ELSE pPrev[c]]
      /\ pNext' = pNext /\ fault' = fault /\ pc' = "idle" /\ cur' = NULL
  BY DEF FreeDropHead, Return
<1>3. /\ Ordered(f) /\ live \in SUBSET Blocks /\ cur \in live /\ cur \in Blocks
      /\ pNext \in [Blocks -> Blocks \cup {NULL}] /\ pPrev \in [Blocks -> Blocks \cup {NULL}]
      /\ \A b \in live : f[cur] <= f[b]
      /\ \A b \in live : pPrev[b] # NULL => pPrev[b] \in live /\ pNext[pPrev[b]] = b
  BY <1>1, <1>2, FoundInList DEF HeadFirst
<1>4. Ordered(f)'
  <2>1. OrderOf(f, pNext, live \ {cur})
    BY <1>3, OrderDropFirst DEF Ordered
  <2> QED BY <1>2, <2>1 DEF Ordered, OrderOf
<1>5. HeadFirst(f)'
  <2>1. ASSUME NEW b \in live, b # cur
        PROVE  pNext[cur] # NULL /\ pNext[cur] \in live \ {cur} /\ f[pNext[cur]] <= f[b]
    <3>1. f[cur] \in Int /\ f[b] \in Int /\ f[b] # f[cur] /\ f[cur] <= f[b]
      BY <1>3, <2>1 DEF Ordered, OrderOf
    <3>2. pNext[cur] # NULL
      BY <1>3, <3>1 DEF Ordered, OrderOf
    <3>3. /\ pNext[cur] \in live /\ f[cur] < f[pNext[cur]]
          /\ f[b] <= f[cur] \/ f[pNext[cur]] <= f[b]
      BY <1>3, <3>2 DEF Ordered, OrderOf
    <3> QED BY <3>1, <3>2, <3>3
  <2>2. pNext[cur] # NULL => pNext[cur] \in live \ {cur}
    <3>1. pNext[cur] # NULL => pNext[cur] \in live /\ f[cur] < f[pNext[cur]] /\ f[cur] \in Int
      BY <1>3 DEF Ordered, OrderOf
    <3> QED BY <3>1
  <2> QED BY <1>2, <2>1, <2>2 DEF HeadFirst
<1>6. PrevOK'
  <2> SUFFICES ASSUME NEW b \in live, b # cur, pPrev'[b] # NULL
               PROVE  pPrev'[b] \in live /\ pPrev'[b] # cur /\ pNext[pPrev'[b]] = b
    BY <1>2 DEF PrevOK
  <2>1. b # pNext[cur] /\ pPrev'[b] = pPrev[b]
    BY <1>2, <1>3
  <2> QED BY <1>3, <2>1
<1>7. NoDangling' /\ Accounting'
  BY <1>2, FreeFacts DEF NoDangling, Accounting
<1>8. List(f)'
  BY <1>2, <1>4, <1>5 DEF List, Walk
<1> QED BY <1>2, <1>6, <1>7, <1>8, FreeFacts DEF Rest, FreeFindsBlock, NoPool, InPool, IInv

\* Unlinking a block through its pPrev: of the order and of the pPrev of
\* those that stay, whose head is as before.
LEMMA UnlinkFacts ==
  ASSUME IInv, Found, NEW f \in [Blocks -> Int], List(f), cur # pBlock, pPrev[cur] # NULL
  PROVE  /\ OrderOf(f, NextWithout(cur), live \ {cur})
         /\ NextWithout(cur) \in [Blocks -> Blocks \cup {NULL}]
         /\ \A b \in live \ {cur} : PrevWithout(cur)[b] # NULL =>
              /\ PrevWithout(cur)[b] \in live \ {cur}
              /\ NextWithout(cur)[PrevWithout(cur)[b]] = b
<1> DEFINE p == pPrev[cur]
           S == live \ {cur}
<1>1. /\ p \in live /\ pNext[p] = cur /\ p \in Blocks /\ cur \in live /\ cur \in Blocks
      /\ live \in SUBSET Blocks /\ OrderOf(f, pNext, live)
      /\ pNext \in [Blocks -> Blocks \cup {NULL}]
      /\ pPrev \in [Blocks -> Blocks \cup {NULL}]
      /\ \A b \in live : pPrev[b] # NULL => pPrev[b] \in live /\ pNext[pPrev[b]] = b
  BY FoundInList DEF Ordered
<1>2. OrderOf(f, NextWithout(cur), S) /\ p # cur
  <2>1. NextWithout(cur) = [pNext EXCEPT ![p] = pNext[cur]]
    BY DEF NextWithout
  <2> HIDE DEF p
  <2>2. /\ live \in SUBSET Blocks /\ pNext \in [Blocks -> Blocks \cup {NULL}]
        /\ OrderOf(f, pNext, live) /\ cur \in live /\ p \in live /\ pNext[p] = cur
    BY <1>1
  <2>3. OrderOf(f, [pNext EXCEPT ![p] = pNext[cur]], live \ {cur}) /\ p # cur
    BY ONLY f \in [Blocks -> Int], <2>2, OrderUnlink
  <2> QED BY <2>1, <2>3
<1>3. NextWithout(cur) \in [Blocks -> Blocks \cup {NULL}]
  BY <1>1 DEF NextWithout
<1>4. ASSUME NEW b \in S, PrevWithout(cur)[b] # NULL
      PROVE  PrevWithout(cur)[b] \in S /\ NextWithout(cur)[PrevWithout(cur)[b]] = b
  <2>1. CASE b = pNext[cur]
    <3>1. PrevWithout(cur)[b] = p /\ NextWithout(cur)[p] = b
      BY <1>1, <2>1 DEF PrevWithout, NextWithout
    <3> QED BY <1>1, <1>2, <3>1
  <2>2. CASE b # pNext[cur]
    <3>1. PrevWithout(cur)[b] = pPrev[b]
      BY <1>1, <2>2 DEF PrevWithout
    <3>2. pPrev[b] \in live /\ pNext[pPrev[b]] = b /\ b # cur
      BY <1>1, <1>4, <3>1
    <3>3. pPrev[b] # cur /\ pPrev[b] # p
      BY <1>1, <2>2, <3>2
    <3> QED BY <1>1, <3>1, <3>2, <3>3 DEF NextWithout
  <2> QED BY <2>1, <2>2
<1> HIDE DEF p
<1> QED BY <1>2, <1>3, <1>4

\* Another block is entirely free and leaves.
LEMMA DropOtherStep ==
  ASSUME IInv, NoWrap, FreeDropOther
  PROVE  Rest'
<1>1. PICK f \in [Blocks -> Int] : List(f)
  BY DEF IInv
<1>2. /\ Found /\ PutBack /\ ptr' = [ptr EXCEPT ![arg] = NULL] /\ AllFree
      /\ cur # pBlock /\ pPrev[cur] # NULL
      /\ pBlock' = pBlock /\ live' = live \ {cur}
      /\ pNext' = NextWithout(cur) /\ pPrev' = PrevWithout(cur)
      /\ fault' = fault /\ pc' = "idle" /\ cur' = NULL
  BY DEF FreeDropOther, Return
<1>3. Ordered(f)' /\ PrevOK'
  <2>1. OrderOf(f, pNext', live') /\ \A b \in live' : pPrev'[b] # NULL =>
          pPrev'[b] \in live' /\ pNext'[pPrev'[b]] = b
    BY <1>1, <1>2, UnlinkFacts
  <2> QED BY <2>1 DEF Ordered, OrderOf, PrevOK
<1>4. HeadFirst(f)'
  BY <1>1, <1>2, FoundInList DEF HeadFirst
<1>5. NoDangling' /\ Accounting'
  BY <1>2, FreeFacts DEF NoDangling, Accounting
<1>6. List(f)'
  BY <1>2, <1>3, <1>4 DEF List, Walk
<1> QED BY <1>2, <1>3, <1>5, <1>6, FreeFacts DEF Rest, FreeFindsBlock, NoPool, InPool, IInv

\* Another block still in use moves to the head.
LEMMA MoveStep ==
  ASSUME IInv, NoWrap, FreeMoveToHead
  PROVE  Rest'
<1>1. PICK f \in [Blocks -> Int] : List(f)
  BY DEF IInv
<1>2. /\ Found /\ PutBack /\ ptr' = [ptr EXCEPT ![arg] = NULL]
      /\ cur # pBlock /\ pPrev[cur] # NULL
      /\ pBlock' = cur /\ live' = live
      /\ pNext' = [NextWithout(cur) EXCEPT ![cur] = pBlock]
      /\ pPrev' = [PrevWithout(cur) EXCEPT ![cur] = NULL]
      /\ fault' = fault /\ pc' = "idle" /\ cur' = NULL
  BY DEF FreeMoveToHead, Return
<1>3. /\ cur \in live /\ cur \in Blocks /\ cur # NULL /\ live \in SUBSET Blocks
      /\ pBlock \in live /\ pBlock \in Blocks /\ pBlock # NULL
      /\ \A b \in live : f[pBlock] <= f[b]
  BY <1>1, FoundInList, <1>2 DEF HeadFirst
<1>4. /\ OrderOf(f, NextWithout(cur), live \ {cur})
      /\ NextWithout(cur) \in [Blocks -> Blocks \cup {NULL}]
      /\ \A b \in live \ {cur} : PrevWithout(cur)[b] # NULL =>
              /\ PrevWithout(cur)[b] \in live \ {cur}
              /\ NextWithout(cur)[PrevWithout(cur)[b]] = b
  BY <1>1, <1>2, UnlinkFacts
<1>5. /\ pNext'[cur] = pBlock
      /\ \A b \in live \ {cur} : pNext'[b] = NextWithout(cur)[b]
      /\ \A b \in live : pPrev'[b] = IF b = cur THEN NULL ELSE PrevWithout(cur)[b]
  BY <1>2, <1>3, <1>4 DEF PrevWithout
<1>6. \E g \in [Blocks -> Int] : List(g)'
  <2> DEFINE g == [f EXCEPT ![cur] = f[pBlock] - 1]
  <2>1. /\ g \in [Blocks -> Int]
        /\ \A b \in live \ {cur} : g[b] = f[b] /\ g[cur] < g[b]
        /\ \A b \in live \ {cur} : g[pBlock] <= g[b]
    BY <1>2, <1>3
  <2> HIDE DEF g
  <2>2. OrderOf(g, pNext', live \ {cur})
    BY <1>4, <1>5, <2>1, OrderFrame
  <2>3. OrderOf(g, pNext', (live \ {cur}) \cup {cur})
    BY <1>2, <1>3, <1>5, <2>1, <2>2, OrderPush
  <2>4. (live \ {cur}) \cup {cur} = live'
    BY <1>2, <1>3
  <2>5. OrderOf(g, pNext', live')
    BY <2>3, <2>4
  <2>6. \A b \in live' : g[pBlock'] <= g[b]
    <3> SUFFICES ASSUME NEW b \in live
                 PROVE  g[cur] <= g[b]
      BY <1>2
    <3>1. g[cur] \in Int /\ g[b] \in Int
      BY <1>3, <2>1
    <3> QED BY <2>1, <3>1
  <2>7. PICK h \in [Blocks -> Int] :
          OrderOf(h, pNext', live') /\ \A b \in live' : h[pBlock'] <= h[b]
    BY <2>1, <2>5, <2>6
  <2>8. Ordered(h)' /\ HeadFirst(h)' /\ Walk(h)'
    BY <1>2, <1>3, <2>7 DEF Ordered, OrderOf, HeadFirst, Walk
  <2> QED BY <2>8 DEF List
<1>7. PrevOK'
  BY <1>2, <1>4, <1>5 DEF PrevOK
<1>8. NoDangling' /\ Accounting'
  BY <1>2, FreeFacts DEF NoDangling, Accounting
<1> QED BY <1>2, <1>6, <1>7, <1>8, FreeFacts DEF Rest, FreeFindsBlock, NoPool, InPool, IInv

-----------------------------------------------------------------------------
(* The theorem                                                             *)

\* FreeToHeap cannot be taken: the walk meets the block.
LEMMA NoFreeToHeap ==
  ASSUME IInv
  PROVE  ~FreeToHeap
BY DEF IInv, FreeToHeap, At, List, Walk

LEMMA Inductive == IInv /\ NoWrap /\ [Next]_vars => IInv'
<1> SUFFICES ASSUME IInv, NoWrap, [Next]_vars
             PROVE  IInv'
  OBVIOUS
<1>1. TypeOK' /\ CallOK'
  BY TypeStep DEF TypeInv, IInv
<1>2. Rest'
  <2>1. CASE Client
    BY <2>1, LifeStep, QuietStep DEF Client
  <2>2. CASE MallocStep
    BY <2>2, QuietStep, TakeStep, GrowStep DEF MallocStep
  <2>3. CASE FreeStep
    BY <2>3, QuietStep, NoFreeToHeap, InHeadStep, MoveStep, DropHeadStep, DropOtherStep
       DEF FreeStep
  <2>4. CASE DestroyBlock \/ DestroyReturn
    BY <2>4, LifeStep
  <2>5. CASE UNCHANGED vars
    BY <2>5 DEF vars, blockVars, IInv, Rest, NoPool, InPool, List, Ordered, OrderOf,
                HeadFirst, Walk, PrevOK, NoDangling, Accounting, Running, HeldIn,
                FreeFindsBlock
  <2> QED BY <2>1, <2>2, <2>3, <2>4, <2>5 DEF Next, Pool
<1> QED BY <1>1, <1>2 DEF IInv, Rest

LEMMA Initial == Init => IInv
<1> SUFFICES ASSUME Init
             PROVE  IInv
  OBVIOUS
<1>1. TypeOK /\ CallOK
  BY U16Type DEF Init, TypeOK, CallOK, Faults
<1>2. [b \in Blocks |-> 0] \in [Blocks -> Int] /\ List([b \in Blocks |-> 0])
  BY DEF Init, List, Ordered, OrderOf, HeadFirst, Walk, InPool
<1> QED BY <1>1, <1>2 DEF Init, IInv, NoPool, PrevOK, InPool, NoDangling, Accounting,
           Running, FreeFindsBlock

\* As long as nSize does not wrap, under every sequence of calls: a block goes
\* back to the heap only when the client holds nothing in it, the counts of
\* free and held units add up, a pPrev that is followed is the block before,
\* and the walk of mem_free finds every pointer of the pool.
THEOREM PoolSafe ==
  ASSUME NoWrap
  PROVE  Spec => [](NoDangling /\ Accounting /\ PrevIsNullOrPredecessor /\ FreeFindsBlock)
<1>1. IInv => NoDangling /\ Accounting /\ PrevIsNullOrPredecessor /\ FreeFindsBlock
  BY DEF IInv, PrevOK, PrevIsNullOrPredecessor, Running, InPool
<1>2. Init => IInv
  BY Initial
<1>3. IInv /\ [Next]_vars => IInv'
  BY Inductive
<1> QED BY <1>1, <1>2, <1>3, PTL DEF Spec

-----------------------------------------------------------------------------
(* The pool implements UnitAllocator, with at most two units a block       *)

\* No unit is handed out twice.
OneHolder ==
  \A g, h \in Handles : ptr[g] # NULL /\ ptr[g] = ptr[h] => g = h

\* A block on the list is never entirely free, and the unit a block with a free
\* one hands out next is held by nobody.
SpareUnit ==
  Running => \A b \in live :
    /\ nFree[b] < GrowSize
    /\ nFree[b] # 0 => /\ nFirst[b] \in Units
                       /\ \A h \in Handles : ptr[h] # <<b, nFirst[b]>>

AInv == IInv /\ OneHolder /\ SpareUnit

AllocatorStep == Allocator!Next \/ UNCHANGED Allocator!specVars

\* Calls that leave the units of blocks alone.
LEMMA QuietAllocates ==
  ASSUME AInv,
         \/ \E h \in Handles : ClientWrite(h) \/ MallocCall(h) \/ FreeCall(h)
         \/ MallocScan \/ MallocWild \/ MallocFail \/ FreeScan \/ FreeNullPrev
         \/ Create \/ DestroyCall \/ DestroyBlock \/ DestroyReturn \/ UNCHANGED vars
  PROVE  OneHolder' /\ SpareUnit' /\ AllocatorStep
<1> USE DEF At, Return, AInv
<1>1. CASE \E h \in Handles : MallocCall(h)
  <2>1. PICK h \in Handles : MallocCall(h)
    BY <1>1
  <2>2. Allocator!Request(h)
    BY <2>1, NullAssumption DEF MallocCall, Allocator!Request, NullAssumption
  <2>3. AllocatorStep
    BY <2>2 DEF AllocatorStep, Allocator!Next
  <2> QED BY <2>1, <2>3 DEF MallocCall, OneHolder, SpareUnit, Running, blockVars
<1>2. CASE DestroyCall
  <2>1. Allocator!ReleaseAll
    BY <1>2 DEF DestroyCall, Allocator!ReleaseAll
  <2>2. AllocatorStep
    BY <2>1 DEF AllocatorStep, Allocator!Next
  <2> QED BY <1>2, <2>2 DEF DestroyCall, OneHolder, SpareUnit, Running
<1>3. CASE MallocFail
  <2>1. Allocator!Deny
    BY <1>3, NullAssumption DEF MallocFail, Allocator!Deny, NullAssumption, IInv, CallOK
  <2>2. AllocatorStep
    BY <2>1 DEF AllocatorStep, Allocator!Next, Allocator!Answer
  <2> QED BY <1>3, <2>2 DEF MallocFail, OneHolder, SpareUnit, Running, blockVars
<1>4. CASE \/ \E h \in Handles : ClientWrite(h) \/ FreeCall(h)
           \/ MallocScan \/ MallocWild \/ FreeScan \/ FreeNullPrev
           \/ DestroyBlock \/ DestroyReturn \/ Create \/ UNCHANGED vars
  <2>1. UNCHANGED Allocator!specVars
    BY <1>4 DEF ClientWrite, FreeCall, MallocScan, MallocWild, FreeScan, FreeNullPrev,
       Found, DestroyBlock, DestroyReturn, Create, vars, Allocator!specVars
  <2>2. ptr' = ptr
    BY <1>4 DEF ClientWrite, FreeCall, MallocScan, MallocWild, FreeScan, FreeNullPrev,
       DestroyBlock, DestroyReturn, Create, vars
  <2>3. SpareUnit'
    BY <1>4, <2>2 DEF ClientWrite, FreeCall, MallocScan, MallocWild, FreeScan,
       FreeNullPrev, DestroyBlock, DestroyReturn, Create, vars, blockVars, SpareUnit,
       Running, IInv, NoPool
  <2> QED BY <2>1, <2>2, <2>3 DEF OneHolder, AllocatorStep
<1> QED BY <1>1, <1>2, <1>3, <1>4

\* A unit of a block is granted by malloc.
LEMMA GrantAllocates ==
  ASSUME AInv, NEW b \in Blocks, NEW u \in Units, pc = "malloc", fault = "none",
         \A h \in Handles : ptr[h] # <<b, u>>,
         ptr' = [ptr EXCEPT ![arg] = <<b, u>>], pc' = "idle"
  PROVE  OneHolder' /\ AllocatorStep
<1>1. arg \in Handles /\ ptr[arg] = NULL /\ arg # NULL /\ ptr \in [Handles -> Pointers \cup {NULL}]
  BY NullAssumption DEF AInv, IInv, CallOK, TypeOK, NullAssumption
<1>2. <<b, u>> \in Pointers
  BY DEF Pointers
<1>3. Allocator!Grant(<<b, u>>)
  BY <1>1 DEF Allocator!Grant
<1>4. AllocatorStep
  BY <1>2, <1>3 DEF AllocatorStep, Allocator!Next, Allocator!Answer
<1>5. OneHolder'
  BY <1>1 DEF AInv, OneHolder
<1> QED BY <1>4, <1>5

\* mem_malloc hands out the spare unit of a block that has one, or unit 0 of a
\* fresh block, in which nobody holds anything as it is not live.
LEMMA MallocAllocates ==
  ASSUME AInv, GrowSize <= 2, MallocTake \/ \E b \in Blocks : MallocGrow(b)
  PROVE  OneHolder' /\ SpareUnit' /\ AllocatorStep
<1>a. /\ GrowSize \in Nat /\ live \in SUBSET Blocks /\ nFree \in [Blocks -> 0 .. U16 - 1]
      /\ nFirst \in [Blocks -> 0 .. U16 - 1] /\ ptr \in [Handles -> Pointers \cup {NULL}]
      /\ U16 \in Nat
  BY GrowSizeType, U16Type DEF AInv, IInv, TypeOK
<1>1. CASE MallocTake
  <2>1. cur \in live /\ arg \in Handles /\ ptr[arg] = NULL
    BY <1>1 DEF MallocTake, At, AInv, IInv, List, Walk, CallOK
  <2>2. /\ pc = "malloc" /\ fault = "none" /\ pc' = "idle" /\ live' = live
        /\ nFirst[cur] \in Units /\ nFree[cur] # 0
        /\ ptr' = [ptr EXCEPT ![arg] = <<cur, nFirst[cur]>>]
        /\ nFree' = [nFree EXCEPT ![cur] = @ - 1]
        /\ \A b \in Blocks : b # cur => nFirst'[b] = nFirst[b]
    BY <1>1, <1>a DEF MallocTake, At, HasFree, Return
  <2>3. nFree[cur] = 1 /\ \A h \in Handles : ptr[h] # <<cur, nFirst[cur]>>
    BY <2>1, <2>2, <1>a DEF AInv, SpareUnit, Running
  <2>4. OneHolder' /\ AllocatorStep
    BY <2>1, <2>2, <2>3, <1>a, GrantAllocates
  <2>5. SpareUnit'
    <3> SUFFICES ASSUME NEW b \in live
                 PROVE  /\ nFree'[b] < GrowSize
                        /\ nFree'[b] # 0 => /\ nFirst'[b] \in Units
                                            /\ \A h \in Handles : ptr'[h] # <<b, nFirst'[b]>>
      BY <2>2 DEF SpareUnit
    <3>1. CASE b = cur
      BY <3>1, <2>1, <2>2, <2>3, <1>a DEF AInv, SpareUnit, Running
    <3>2. CASE b # cur
      <4>1. /\ nFree'[b] = nFree[b] /\ nFirst'[b] = nFirst[b]
            /\ \A h \in Handles : ptr'[h] = ptr[h] \/ ptr'[h] = <<cur, nFirst[cur]>>
        BY <3>2, <2>2, <1>a
      <4> QED BY <4>1, <3>2, <2>2 DEF AInv, SpareUnit, Running
    <3> QED BY <3>1, <3>2
  <2> QED BY <2>4, <2>5
<1>2. ASSUME NEW b \in Blocks, MallocGrow(b)
      PROVE  OneHolder' /\ SpareUnit' /\ AllocatorStep
  <2>1. /\ pc = "malloc" /\ fault = "none" /\ pc' = "idle" /\ live' = live \cup {b}
        /\ b \notin live /\ GrowSize # 0
        /\ ptr' = [ptr EXCEPT ![arg] = <<b, 0>>]
        /\ nFree' = [nFree EXCEPT ![b] = GrowSize - 1]
        /\ nFirst' = [nFirst EXCEPT ![b] = 1]
    BY <1>2 DEF MallocGrow, At, Return, FreshFree
  <2>2. 0 \in Units /\ (GrowSize # 1 => 1 \in Units)
    BY <2>1, <1>a, SMTT(10) DEF Units
  <2>3. \A h \in Handles : ptr[h] # NULL => ptr[h][1] # b
    BY <2>1 DEF AInv, IInv, NoDangling
  <2>4. \A h \in Handles, u \in Units : ptr[h] # <<b, u>>
    <3> TAKE h \in Handles, u \in Units
    <3>1. <<b, u>> # NULL /\ <<b, u>>[1] = b
      BY NullAssumption DEF NullAssumption, Units
    <3> QED BY <2>3, <3>1
  <2>5. OneHolder' /\ AllocatorStep
    BY <2>1, <2>2, <2>4, GrantAllocates
  <2>6. SpareUnit'
    <3> SUFFICES ASSUME NEW c \in live'
                 PROVE  /\ nFree'[c] < GrowSize
                        /\ nFree'[c] # 0 => /\ nFirst'[c] \in Units
                                            /\ \A h \in Handles : ptr'[h] # <<c, nFirst'[c]>>
      BY DEF SpareUnit
    <3>1. \A h \in Handles : ptr'[h] = ptr[h] \/ ptr'[h] = <<b, 0>>
      BY <2>1, <1>a
    <3>2. CASE c = b
      <4>1. nFree'[b] = GrowSize - 1 /\ nFirst'[b] = 1
        BY <2>1, <1>a
      <4>2. nFree'[b] # 0 => 1 \in Units /\ \A h \in Handles : ptr'[h] # <<b, 1>>
        BY <4>1, <3>1, <2>2, <2>4, <1>a
      <4> QED BY <3>2, <4>1, <4>2, <1>a, SMTT(10)
    <3>3. CASE c # b
      <4>1. c \in live /\ nFree'[c] = nFree[c] /\ nFirst'[c] = nFirst[c]
        BY <3>3, <2>1, <1>a
      <4> QED BY <4>1, <3>1, <3>3, <2>1 DEF AInv, SpareUnit, Running
    <3> QED BY <3>2, <3>3
  <2> QED BY <2>5, <2>6
<1> QED BY <1>1, <1>2

\* mem_free makes the unit the spare one of its block, or gives the block back
\* with its last.
LEMMA FreeAllocates ==
  ASSUME NoWrap, AInv, GrowSize <= 2,
         FreeInHead \/ FreeMoveToHead \/ FreeDropHead \/ FreeDropOther
  PROVE  OneHolder' /\ SpareUnit' /\ AllocatorStep
<1>1. /\ Found /\ PutBack /\ ptr' = [ptr EXCEPT ![arg] = NULL]
      /\ pc' = "idle" /\ fault' = fault
      /\ \/ ~AllFree /\ live' = live
         \/ AllFree /\ live' = live \ {cur}
  BY DEF FreeInHead, FreeMoveToHead, FreeDropHead, FreeDropOther, Return
<1>2. /\ pc = "free" /\ fault = "none" /\ cur \in live /\ cur \in Blocks
      /\ arg \in Handles /\ ptr[arg] # NULL /\ ptr[arg] \in Pointers
      /\ ptr \in [Handles -> Pointers \cup {NULL}] /\ live \in SUBSET Blocks
      /\ nFree \in [Blocks -> 0 .. U16 - 1] /\ nFirst \in [Blocks -> 0 .. U16 - 1]
      /\ GrowSize \in Nat /\ U16 \in Nat /\ U16 > 4
  BY <1>1, FreeFacts, GrowSizeType, U16Type DEF Found, At, AInv, IInv, CallOK, TypeOK
<1>3. ptr[arg][1] = cur /\ ptr[arg][2] \in Units /\ ptr[arg] = <<cur, ptr[arg][2]>>
  <2>1. ptr[arg][1] = cur
    BY <1>1, <1>2, ContainsUnit DEF Found
  <2> QED BY <2>1, <1>2 DEF Pointers
<1>4. \A h \in Handles : h # arg => ptr'[h] = ptr[h]
  BY <1>1, <1>2
<1>5. ptr'[arg] = NULL
  BY <1>1, <1>2
<1>6. OneHolder'
  BY <1>4, <1>5 DEF AInv, OneHolder
<1>7. AllocatorStep
  <2>1. Allocator!Release(arg)
    BY <1>1, <1>2 DEF Allocator!Release
  <2> QED BY <2>1, <1>2 DEF AllocatorStep, Allocator!Next
<1>8. \A b \in live : nFree[b] < GrowSize
  BY <1>2 DEF AInv, SpareUnit, Running
<1>9. nFree[cur] \in 0 .. U16 - 2 /\ nFree[cur] < GrowSize
  BY <1>2, <1>8, SMTT(10)
<1>10. /\ nFree' = [nFree EXCEPT ![cur] = nFree[cur] + 1]
       /\ nFirst' = [nFirst EXCEPT ![cur] = ptr[arg][2]]
       /\ AllFree <=> nFree[cur] + 1 = GrowSize
  BY <1>1, <1>9, AllFreeMeaning DEF PutBack
<1>11. \A h \in Handles : ptr'[h] # <<cur, ptr[arg][2]>>
  <2> TAKE h \in Handles
  <2>1. CASE h = arg
    BY <2>1, <1>2, <1>3, <1>5
  <2>2. CASE h # arg
    BY <2>2, <1>2, <1>3, <1>4 DEF AInv, OneHolder
  <2> QED BY <2>1, <2>2
<1>12. SpareUnit'
  <2> SUFFICES ASSUME NEW b \in live'
               PROVE  /\ nFree'[b] < GrowSize
                      /\ nFree'[b] # 0 => /\ nFirst'[b] \in Units
                                          /\ \A h \in Handles : ptr'[h] # <<b, nFirst'[b]>>
    BY DEF SpareUnit
  <2>1. CASE b = cur
    <3>1. nFree'[b] = nFree[cur] + 1 /\ nFirst'[b] = ptr[arg][2] /\ ~AllFree
      BY <2>1, <1>1, <1>2, <1>10
    <3>2. nFree'[b] < GrowSize
      BY <3>1, <1>2, <1>9, <1>10, SMTT(10)
    <3> QED BY <2>1, <3>1, <3>2, <1>3, <1>11
  <2>2. CASE b # cur
    <3>1. b \in live /\ nFree'[b] = nFree[b] /\ nFirst'[b] = nFirst[b]
      BY <2>2, <1>1, <1>2, <1>10
    <3>2. \A h \in Handles : ptr'[h] = ptr[h] \/ ptr'[h] = NULL
      BY <1>4, <1>5
    <3>3. <<b, nFirst[b]>> # NULL \/ nFirst[b] \notin Units
      BY <3>1, <1>2, NullAssumption DEF NullAssumption, Units
    <3> QED BY <3>1, <3>2, <3>3, <1>2 DEF AInv, SpareUnit, Running
  <2> QED BY <2>1, <2>2
<1> QED BY <1>6, <1>7, <1>12

\* One step of the pool keeps the strengthened invariant and is one of the
\* allocator's, or none.
LEMMA AllocatorInductive ==
  ASSUME NoWrap, GrowSize <= 2, AInv, [Next]_vars
  PROVE  AInv' /\ AllocatorStep
<1>1. IInv'
  BY Inductive DEF AInv
<1>2. OneHolder' /\ SpareUnit' /\ AllocatorStep
  <2>1. ~FreeToHeap
    BY NoFreeToHeap DEF AInv
  <2>2. CASE Client \/ DestroyBlock \/ DestroyReturn \/ UNCHANGED vars
    BY <2>2, QuietAllocates DEF Client
  <2>3. CASE MallocStep
    BY <2>3, QuietAllocates, MallocAllocates DEF MallocStep
  <2>4. CASE FreeStep
    BY <2>1, <2>4, QuietAllocates, FreeAllocates DEF FreeStep
  <2> QED BY <2>2, <2>3, <2>4 DEF Next, Pool
<1> QED BY <1>1, <1>2 DEF AInv

\* memory.c with at most two units a block, where the links of a fresh block
\* do no harm, implements the safety part of UnitAllocator: whatever the
\* client writes, mem_malloc answers with a unit nobody holds or with NULL, and
\* nothing but mem_free and the pool's destruction takes a unit away.
THEOREM PoolAllocates ==
  ASSUME NoWrap, GrowSize <= 2
  PROVE  Spec => IsAllocator
<1>1. Init => AInv /\ Allocator!Init
  <2> SUFFICES ASSUME Init
               PROVE  AInv /\ Allocator!Init
    OBVIOUS
  <2> QED BY Initial DEF Init, AInv, OneHolder, SpareUnit, Running, Allocator!Init
<1>2. AInv /\ [Next]_vars => AInv' /\ [Allocator!Next]_Allocator!specVars
  BY AllocatorInductive DEF AllocatorStep
<1> QED BY <1>1, <1>2, PTL DEF Spec, IsAllocator

-----------------------------------------------------------------------------
(* Blocks of one unit                                                      *)

\* Every block on the list but the first has a pPrev, and none has a free unit.
Doubly ==
  InPool => \A b \in live : nFree[b] = 0 /\ (b # pBlock => pPrev[b] # NULL)

LInv == IInv /\ Doubly /\ fault = "none"

\* A pointer that comes back is the only one into its block.
LEMMA OneUnitFreed ==
  ASSUME LInv, NoWrap, GrowSize = 1, Found
  PROVE  AllFree /\ (cur # pBlock => pPrev[cur] # NULL)
<1>1. cur \in live /\ cur \in Blocks /\ nFree[cur] = 0 /\ InPool
  BY DEF LInv, IInv, TypeOK, Found, At, List, Walk, Doubly, InPool
<1>2. nFree[cur] \in 0 .. U16 - 2 /\ nFree[cur] + 1 = GrowSize
  BY <1>1, U16Type
<1> QED BY <1>1, <1>2, AllFreeMeaning DEF LInv, Doubly

LEMMA OneUnitGrown ==
  ASSUME LInv, GrowSize = 1, NEW b \in Blocks, MallocGrow(b)
  PROVE  Doubly' /\ fault' = "none"
<1>1. /\ live' = live \cup {b} /\ pBlock' = b
      /\ nFree' = [nFree EXCEPT ![b] = 0]
      /\ pPrev' = [c \in Blocks |-> IF c = b THEN NULL
                                    ELSE IF c = pBlock THEN b ELSE pPrev[c]]
      /\ fault' = fault /\ pc = "malloc" /\ b # NULL
  BY NullAssumption DEF MallocGrow, FreshFree, At, NullAssumption
<1>2. live \in SUBSET Blocks /\ nFree \in [Blocks -> 0 .. U16 - 1]
  BY DEF LInv, IInv, TypeOK
<1> QED BY <1>1, <1>2 DEF LInv, Doubly, InPool

LEMMA OneUnitDropped ==
  ASSUME LInv, NoWrap, GrowSize = 1, FreeDropHead \/ FreeDropOther
  PROVE  Doubly' /\ fault' = "none"
<1>1. /\ Found /\ nFree' = [nFree EXCEPT ![cur] = FreeCount] /\ live' = live \ {cur}
      /\ fault' = fault
  BY DEF FreeDropHead, FreeDropOther, PutBack
<1>2. /\ live \in SUBSET Blocks /\ cur \in live /\ nFree \in [Blocks -> 0 .. U16 - 1]
      /\ pNext \in [Blocks -> Blocks \cup {NULL}]
      /\ \A b \in live : nFree[b] = 0 /\ (b # pBlock => pPrev[b] # NULL)
  BY <1>1 DEF LInv, IInv, TypeOK, Found, At, List, Walk, Doubly, InPool
<1>3. \A b \in live' : nFree'[b] = 0
  BY <1>1, <1>2
<1>4. ASSUME FreeDropHead, NEW b \in live', b # pBlock'
      PROVE  pPrev'[b] # NULL
  BY <1>1, <1>2, <1>4 DEF FreeDropHead
<1>5. ASSUME FreeDropOther, NEW b \in live', b # pBlock'
      PROVE  pPrev'[b] # NULL
  BY <1>1, <1>2, <1>5 DEF FreeDropOther, PrevWithout
<1> QED BY <1>1, <1>3, <1>4, <1>5 DEF LInv, Doubly

LEMMA OneUnitInductive ==
  ASSUME LInv, NoWrap, GrowSize = 1, [Next]_vars
  PROVE  LInv'
<1>1. IInv'
  BY Inductive DEF LInv
<1>2. Doubly' /\ fault' = "none"
  <2>1. CASE Create
    <3>1. live = {} /\ live' = {} /\ fault' = fault
      BY <2>1 DEF Create, At, LInv, IInv, NoPool
    <3> QED BY <3>1 DEF LInv, Doubly
  <2>2. CASE DestroyCall
    BY <2>2 DEF DestroyCall, LInv, Doubly, InPool
  <2>3. ASSUME NEW h \in Handles, ClientWrite(h) \/ MallocCall(h) \/ FreeCall(h)
        PROVE  Doubly' /\ fault' = "none"
    BY <2>3 DEF ClientWrite, MallocCall, FreeCall, At, blockVars, LInv, Doubly, InPool
  <2>4. CASE MallocScan \/ MallocFail \/ FreeScan
    BY <2>4 DEF MallocScan, MallocFail, FreeScan, At, Return, blockVars, LInv, Doubly, InPool
  <2>5. ~MallocTake /\ ~MallocWild
    BY DEF MallocTake, MallocWild, HasFree, At, LInv, IInv, List, Walk, Doubly, InPool
  <2>6. ~FreeToHeap /\ ~FreeInHead /\ ~FreeMoveToHead /\ ~FreeNullPrev
    BY NoFreeToHeap, OneUnitFreed DEF FreeInHead, FreeMoveToHead, FreeNullPrev, LInv
  <2>7. CASE FreeDropHead \/ FreeDropOther
    BY <2>7, OneUnitDropped
  <2>8. ASSUME NEW b \in Blocks, MallocGrow(b)
        PROVE  Doubly' /\ fault' = "none"
    BY <2>8, OneUnitGrown
  <2>9. CASE DestroyBlock \/ DestroyReturn
    BY <2>9 DEF DestroyBlock, DestroyReturn, At, LInv, Doubly, InPool
  <2>10. CASE UNCHANGED vars
    BY <2>10 DEF vars, blockVars, LInv, Doubly, InPool
  <2> QED BY <2>1, <2>2, <2>3, <2>4, <2>5, <2>6, <2>7, <2>8, <2>9, <2>10
          DEF Next, Client, Pool, MallocStep, FreeStep
<1> QED BY <1>1, <1>2 DEF LInv

\* In a doubly linked list in which pPrev is the block before or NULL, and NULL in the
\* first block only, it is the block before.
LEMMA DoublyLinks ==
  ASSUME LInv
  PROVE  PrevIsPredecessor
<1> SUFFICES ASSUME InPool, NEW b \in live, NEW c \in live, pNext[b] = c
             PROVE  pPrev[c] = b
  BY DEF PrevIsPredecessor, Running, InPool
<1>1. PICK f \in [Blocks -> Int] : List(f)
  BY DEF LInv, IInv
<1>2. /\ b \in Blocks /\ c \in Blocks /\ c # NULL /\ live \in SUBSET Blocks
      /\ f[b] \in Int /\ f[c] \in Int
  BY NullAssumption DEF NullAssumption, LInv, IInv, TypeOK
<1>3. f[b] < f[c] /\ f[pBlock] <= f[b] /\ pBlock \in Blocks
  BY <1>1, <1>2 DEF List, Ordered, OrderOf, HeadFirst
<1>4. c # pBlock
  BY <1>2, <1>3
<1>5. PICK p : p = pPrev[c]
  OBVIOUS
<1>6. p \in live /\ pNext[p] = c
  BY <1>4, <1>5 DEF LInv, Doubly, IInv, PrevOK
<1>7. f[p] \in Int /\ f[p] < f[c]
  BY <1>1, <1>2, <1>6 DEF List, Ordered, OrderOf
<1>8. f[p] <= f[b] \/ f[c] <= f[p]
  BY <1>1, <1>2, <1>6 DEF List, Ordered, OrderOf
<1>9. f[b] <= f[p] \/ f[c] <= f[b]
  BY <1>1, <1>2, <1>6 DEF List, Ordered, OrderOf
<1>10. f[p] = f[b]
  BY <1>2, <1>3, <1>7, <1>8, <1>9
<1>11. p = b
  BY <1>1, <1>6, <1>10 DEF List, Ordered, OrderOf
<1> QED BY <1>5, <1>11

\* With one unit a block pPrev is the block before, as memory.h:15 says, and no call
\* faults: FreeMoveToHead, which leaves a pPrev behind (memory.c:155), is never taken.
THEOREM SingleUnitsLinked ==
  ASSUME NoWrap, GrowSize = 1
  PROVE  Spec => [](PrevIsPredecessor /\ fault = "none")
<1>1. Init => LInv
  BY Initial DEF Init, LInv, Doubly, InPool
<1>2. LInv /\ [Next]_vars => LInv'
  BY OneUnitInductive
<1>3. LInv => PrevIsPredecessor /\ fault = "none"
  BY DoublyLinks DEF LInv
<1> QED BY <1>1, <1>2, <1>3, PTL DEF Spec


-----------------------------------------------------------------------------
(* The list holds every live block                                         *)

\* The least number of a set is one of it.
LEMMA HasLeast == ASSUME NEW Q \in SUBSET Nat, Q # {} PROVE \E x \in Q : \A y \in Q : x <= y
<1> DEFINE G == {0 .. x : x \in Q}
<1>1. G \subseteq FiniteSubsetsOf(Nat)
  <2>1. ASSUME NEW x \in Q PROVE 0 .. x \in SUBSET Nat /\ IsFiniteSet(0 .. x)
    BY FS_Interval, SMT
  <2> QED BY <2>1 DEF FiniteSubsetsOf
<1>2. PICK L \in G : \A N \in G : <<N, L>> \notin StrictSubsetOrdering(Nat)
  <2>1. IsWellFoundedOn(StrictSubsetOrdering(Nat), FiniteSubsetsOf(Nat))
    BY FS_StrictSubsetOrderingWellFounded
  <2>2. G # {}
    OBVIOUS
  <2> HIDE DEF G
  <2> QED BY <1>1, <2>1, <2>2, WFMin
<1>3. PICK x \in Q : L = 0 .. x
  OBVIOUS
<1>4. ASSUME NEW y \in Q, y < x PROVE FALSE
  <2>1. 0 .. y \in SUBSET Nat /\ L \in SUBSET Nat
    BY <1>3, SMT
  <2>2. 0 .. y \subseteq L /\ 0 .. y # L
    BY <1>3, <1>4, SMT
  <2>3. <<0 .. y, L>> \in StrictSubsetOrdering(Nat)
    BY <2>1, <2>2 DEF StrictSubsetOrdering
  <2> QED BY <1>2, <2>3
<1> QED BY <1>4, SMT

\* What holds of 0 and goes on from each number to the next holds up to n.
LEMMA Stepwise ==
  ASSUME NEW n \in Nat, NEW Q \in SUBSET (0 .. n), 0 \in Q, \A i \in 1 .. n : i - 1 \in Q => i \in Q
  PROVE  Q = 0 .. n
<1> SUFFICES ASSUME (0 .. n) \ Q # {} PROVE FALSE
  OBVIOUS
<1> DEFINE R == (0 .. n) \ Q
<1>1. R \in SUBSET Nat /\ R # {}
  BY SMT
<1>2. PICK x \in R : \A y \in R : x <= y
  <2> HIDE DEF R
  <2> QED BY <1>1, HasLeast
<1>3. x # 0 /\ x \in 1 .. n /\ x - 1 \in 0 .. n /\ ~(x <= x - 1)
  BY <1>2, SMT
<1>4. x - 1 \in Q
  BY <1>2, <1>3
<1> QED BY <1>2, <1>3, <1>4

\* The blocks a set of blocks leads to in one step, with the set.
Onward(S) == S \cup ({pNext[b] : b \in S} \ {NULL})
First     == {pBlock} \ {NULL}

\* r follows the list for n steps.
Follows(r, n) ==
  r = [i \in 0 .. n |-> IF i = 0 THEN First ELSE Onward(r[i - 1])]

\* The list can be followed for any number of steps.
LEMMA FollowsExist == ASSUME NEW n \in Nat PROVE \E r : Follows(r, n)
<1> DEFINE Q == {m \in 0 .. n : \E r : Follows(r, m)}
<1>1. 0 \in Q
  <2>1. PICK r : r = [i \in 0 .. 0 |-> First]
    OBVIOUS
  <2>2. Follows(r, 0)
    <3>1. \A i \in 0 .. 0 : i = 0
      BY SMT
    <3> QED BY <2>1, <3>1 DEF Follows
  <2>3. 0 \in 0 .. n
    BY SMT
  <2> QED BY <2>2, <2>3
<1>2. ASSUME NEW m \in 1 .. n, m - 1 \in Q PROVE m \in Q
  <2>1. PICK r : Follows(r, m - 1)
    BY <1>2
  <2>2. PICK v : v = Onward(r[m - 1])
    OBVIOUS
  <2>3. PICK u : u = [i \in 0 .. m |-> IF i = m THEN v ELSE r[i]]
    OBVIOUS
  <2>4. /\ m \in 0 .. n /\ m # 0 /\ m \in 0 .. m /\ m - 1 \in 0 .. m /\ m - 1 # m
        /\ \A i \in 0 .. m : i = m \/ (i \in 0 .. m - 1 /\ i # m /\ (i # 0 => i - 1 \in 0 .. m /\ i - 1 # m))
    BY SMT
  <2>5. \A i \in 0 .. m - 1 : r[i] = IF i = 0 THEN First ELSE Onward(r[i - 1])
    BY <2>1 DEF Follows
  <2>6. ASSUME NEW i \in 0 .. m
        PROVE  u[i] = IF i = 0 THEN First ELSE Onward(u[i - 1])
    <3>1. CASE i = m
      <4>1. u[i] = v /\ u[i - 1] = r[m - 1]
        BY <2>3, <2>4, <3>1
      <4> QED BY <2>2, <2>4, <3>1, <4>1
    <3>2. CASE i # m
      <4>1. i \in 0 .. m - 1 /\ u[i] = r[i] /\ (i # 0 => u[i - 1] = r[i - 1])
        BY <2>3, <2>4, <3>2
      <4> QED BY <2>5, <4>1
    <3> QED BY <3>1, <3>2
  <2>7. Follows(u, m)
    BY <2>3, <2>6 DEF Follows
  <2> QED BY <2>4, <2>7
<1>3. Q \in SUBSET (0 .. n)
  OBVIOUS
<1> HIDE DEF Q
<1>4. n \in Q
  <2>1. Q = 0 .. n
    BY <1>1, <1>2, <1>3, Stepwise
  <2> QED BY <2>1, SMT
<1> QED BY <1>4 DEF Q

\* So Reach is what its definition says.
LEMMA ReachIs ==
  ASSUME IsFiniteSet(Blocks)
  PROVE  /\ Reach[0] = First
         /\ \A i \in 1 .. Cardinality(Blocks) : Reach[i] = Onward(Reach[i - 1])
<1>1. PICK n : n = Cardinality(Blocks)
  OBVIOUS
<1>2. n \in Nat
  BY <1>1, FS_CardinalityType
<1>3. PICK r : Follows(r, n)
  BY <1>2, FollowsExist
<1>4. Reach = CHOOSE w : Follows(w, n)
  BY <1>1 DEF Reach, Follows, Onward, First
<1>5. Follows(Reach, n)
  BY <1>3, <1>4
<1>6. 0 \in 0 .. n /\ \A i \in 1 .. n : i \in 0 .. n /\ i # 0
  BY <1>2, SMT
<1>7. \A i \in 0 .. n : Reach[i] = IF i = 0 THEN First ELSE Onward(Reach[i - 1])
  <2>1. PICK w : w = Reach
    OBVIOUS
  <2>2. w = [i \in 0 .. n |-> IF i = 0 THEN First ELSE Onward(w[i - 1])]
    BY <1>5, <2>1 DEF Follows
  <2>3. \A i \in 0 .. n : w[i] = IF i = 0 THEN First ELSE Onward(w[i - 1])
    BY <2>2
  <2> QED BY <2>1, <2>3
<1> QED BY <1>1, <1>6, <1>7

\* Nothing is reached but live blocks, and what is reached stays so.
LEMMA ReachStays ==
  ASSUME IsFiniteSet(Blocks), NEW f, Ordered(f), HeadFirst(f),
         NEW n, n = Cardinality(Blocks)
  PROVE  \A i \in 0 .. n : Reach[i] \subseteq live /\ Reach[i] \subseteq Reach[n]
<1>1. n \in Nat /\ \A i \in 1 .. n : Reach[i] = Onward(Reach[i - 1])
  BY ReachIs, FS_CardinalityType
<1>2. PICK Q : Q = {i \in 0 .. n : Reach[i] \subseteq live}
  OBVIOUS
<1>3. 0 .. n = Q
  <2>1. 0 \in Q
    <3>1. First \subseteq live
      BY DEF First, HeadFirst
    <3>2. 0 \in 0 .. n
      BY <1>1, SMT
    <3> QED BY <1>2, <3>1, <3>2, ReachIs
  <2>2. ASSUME NEW i \in 1 .. n, i - 1 \in Q PROVE i \in Q
    <3>1. Reach[i] = Onward(Reach[i - 1]) /\ Reach[i - 1] \subseteq live /\ i \in 0 .. n
      BY <1>1, <1>2, <2>2, SMT
    <3>2. \A b \in live : pNext[b] # NULL => pNext[b] \in live
      BY DEF Ordered, OrderOf
    <3> QED BY <1>2, <3>1, <3>2 DEF Onward
  <2>3. Q \in SUBSET (0 .. n)
    BY <1>2
  <2> QED BY <1>1, <2>1, <2>2, <2>3, Stepwise
<1>4. PICK R : R = {i \in 0 .. n : Reach[n - i] \subseteq Reach[n]}
  OBVIOUS
<1>5. 0 .. n = R
  <2>1. 0 \in R
    <3>1. 0 \in 0 .. n /\ n - 0 = n
      BY <1>1, SMT
    <3> QED BY <1>4, <3>1
  <2>2. ASSUME NEW i \in 1 .. n, i - 1 \in R PROVE i \in R
    <3>1. PICK j \in 1 .. n : j = n - (i - 1) /\ j - 1 = n - i /\ i \in 0 .. n
      BY <1>1, SMT
    <3>2. Reach[j] = Onward(Reach[j - 1]) /\ Reach[j] \subseteq Reach[n]
      BY <1>1, <1>4, <2>2, <3>1
    <3> QED BY <1>4, <3>1, <3>2 DEF Onward
  <2>3. R \in SUBSET (0 .. n)
    BY <1>4
  <2> QED BY <1>1, <2>1, <2>2, <2>3, Stepwise
<1>6. ASSUME NEW i \in 0 .. n PROVE Reach[i] \subseteq live /\ Reach[i] \subseteq Reach[n]
  <2>1. PICK j \in 0 .. n : n - j = i
    <3>1. n - i \in 0 .. n /\ n - (n - i) = i
      BY <1>1, SMT
    <3> QED BY <3>1
  <2> QED BY <1>2, <1>3, <1>4, <1>5, <2>1
<1> QED BY <1>6

\* No block is passed over: at each step towards one that is never reached, there would
\* be one block more before it.
LEMMA ReachesAll ==
  ASSUME IsFiniteSet(Blocks), live \in SUBSET Blocks, pBlock \in Blocks \cup {NULL},
         NEW f \in [Blocks -> Int], Ordered(f), HeadFirst(f),
         NEW n, n = Cardinality(Blocks), NEW b \in live
  PROVE  b \in Reach[n]
<1> SUFFICES ASSUME b \notin Reach[n] PROVE FALSE
  OBVIOUS
<1>1. n \in Nat /\ Reach[0] = First /\ \A i \in 1 .. n : Reach[i] = Onward(Reach[i - 1])
  BY ReachIs, FS_CardinalityType
<1>2. \A i \in 0 .. n : Reach[i] \subseteq live /\ Reach[i] \subseteq Reach[n]
  BY ReachStays
<1> DEFINE Before(c) == {d \in live : f[d] < f[c]}
           Far(i) == \E c \in Reach[i] : f[c] < f[b] /\ i <= Cardinality(Before(c))
<1>3. ASSUME NEW c
      PROVE  IsFiniteSet(Before(c)) /\ Cardinality(Before(c)) \in Nat
  <2>1. Before(c) \in SUBSET Blocks
    OBVIOUS
  <2> HIDE DEF Before
  <2> QED BY <2>1, FS_Subset, FS_CardinalityType
<1>4. Far(0)
  <2>1. pBlock \in live /\ f[pBlock] <= f[b] /\ pBlock # NULL
    BY DEF HeadFirst
  <2>2. pBlock \in Reach[0]
    BY <1>1, <2>1 DEF First
  <2>3. pBlock # b /\ f[pBlock] # f[b]
    <3>1. 0 \in 0 .. n
      BY <1>1, SMT
    <3>2. pBlock # b
      BY <1>2, <2>2, <3>1
    <3> QED BY <2>1, <3>2 DEF Ordered, OrderOf
  <2>4. f[pBlock] < f[b]
    BY <2>1, <2>3
  <2>5. 0 <= Cardinality(Before(pBlock))
    <3>1. \A k \in Nat : 0 <= k
      BY SMT
    <3> QED BY <1>3, <3>1
  <2> QED BY <2>2, <2>4, <2>5
<1>5. ASSUME NEW i \in 1 .. n, Far(i - 1) PROVE Far(i)
  <2>1. PICK c \in Reach[i - 1] : f[c] < f[b] /\ i - 1 <= Cardinality(Before(c))
    BY <1>5
  <2>2. i - 1 \in 0 .. n /\ i \in 0 .. n
    BY <1>1, SMT
  <2>3. c \in live /\ f[c] \in Int /\ f[b] \in Int
    BY <1>2, <2>2
  <2>4. pNext[c] # NULL
    <3>1. pNext[c] = NULL => f[b] <= f[c]
      BY <2>3 DEF Ordered, OrderOf
    <3> QED BY <2>1, <2>3, <3>1
  <2>5. PICK d : d = pNext[c]
    OBVIOUS
  <2>6. d \in live /\ f[c] < f[d] /\ (f[b] <= f[c] \/ f[d] <= f[b]) /\ f[d] \in Int
    BY <2>3, <2>4, <2>5 DEF Ordered, OrderOf
  <2>7. d \in Reach[i]
    BY <1>1, <2>4, <2>5 DEF Onward
  <2>8. d # b
    BY <1>2, <2>2, <2>7
  <2>9. f[d] # f[b]
    BY <2>6, <2>8 DEF Ordered, OrderOf
  <2>10. f[d] < f[b]
    BY <2>1, <2>3, <2>6, <2>9
  <2>11. i <= Cardinality(Before(d))
    <3>1. c \in Before(d) /\ c \notin Before(c) /\ Before(c) \subseteq Before(d)
      BY <2>3, <2>6
    <3>2. PICK B : B = Before(c)
      OBVIOUS
    <3>3. PICK D : D = Before(d)
      OBVIOUS
    <3>4. IsFiniteSet(B) /\ Cardinality(B) \in Nat /\ IsFiniteSet(D) /\ Cardinality(D) \in Nat
      BY <1>3, <3>2, <3>3
    <3>5. B \cup {c} \in SUBSET D /\ c \notin B
      BY <3>1, <3>2, <3>3
    <3>6. Cardinality(B \cup {c}) = Cardinality(B) + 1
      BY <3>4, <3>5, FS_AddElement
    <3>7. Cardinality(B \cup {c}) <= Cardinality(D)
      BY <3>4, <3>5, FS_Subset
    <3>8. i - 1 <= Cardinality(B)
      BY <2>1, <3>2
    <3>9. i <= Cardinality(D)
      BY <3>4, <3>6, <3>7, <3>8, SMT
    <3> QED BY <3>3, <3>9
  <2> QED BY <2>7, <2>10, <2>11
<1> HIDE DEF Far
<1>6. Far(n)
  <2>1. PICK Q : Q = {i \in 0 .. n : Far(i)}
    OBVIOUS
  <2>2. 0 \in 0 .. n /\ n \in 0 .. n /\ \A i \in 1 .. n : i \in 0 .. n
    BY <1>1, SMT
  <2>3. 0 \in Q /\ Q \in SUBSET (0 .. n) /\ \A i \in 1 .. n : i - 1 \in Q => i \in Q
    BY <1>4, <1>5, <2>1, <2>2
  <2>4. Q = 0 .. n
    BY <1>1, <2>3, Stepwise
  <2> QED BY <2>1, <2>2, <2>4
<1>7. PICK c \in Reach[n] : f[c] < f[b] /\ n <= Cardinality(Before(c))
  BY <1>6 DEF Far
<1>8. c \in Blocks /\ b \in Blocks /\ f[c] \in Int
  <2>1. n \in 0 .. n
    BY <1>1, SMT
  <2> QED BY <1>2, <2>1
<1>9. Before(c) \in SUBSET (Blocks \ {c})
  BY <1>8
<1>10. Cardinality(Before(c)) <= n - 1
  <2>1. IsFiniteSet(Blocks \ {c}) /\ Cardinality(Blocks \ {c}) = n - 1
    BY <1>8, FS_RemoveElement
  <2> HIDE DEF Before
  <2> QED BY <1>9, <2>1, FS_Subset
<1>11. Cardinality(Before(c)) \in Nat
  BY <1>3
<1> QED BY <1>1, <1>7, <1>10, <1>11

\* Under every sequence of calls, as long as nSize does not wrap, the list from
\* mpool->pBlock on holds exactly the blocks the heap has given: moving (memory.c:155),
\* dropping and adding a block loses none and leaves none on it that was freed.
THEOREM ListAlwaysLive ==
  ASSUME NoWrap, IsFiniteSet(Blocks)
  PROVE  Spec => []ListIsLive
<1>1. ASSUME IInv PROVE ListIsLive
  <2> SUFFICES ASSUME InPool PROVE Reach[Cardinality(Blocks)] = live
    BY DEF ListIsLive, Running, InPool
  <2>1. PICK f \in [Blocks -> Int] : Ordered(f) /\ HeadFirst(f)
    BY <1>1 DEF IInv, List
  <2>2. live \in SUBSET Blocks /\ pBlock \in Blocks \cup {NULL}
    BY <1>1 DEF IInv, TypeOK
  <2>3. Cardinality(Blocks) \in 0 .. Cardinality(Blocks)
    BY FS_CardinalityType, SMT
  <2>4. Reach[Cardinality(Blocks)] \subseteq live
    BY <2>1, <2>3, ReachStays
  <2>5. live \subseteq Reach[Cardinality(Blocks)]
    BY <2>1, <2>2, ReachesAll
  <2> QED BY <2>4, <2>5
<1>2. IInv => ListIsLive
  BY <1>1
<1>3. Init => IInv
  BY Initial
<1>4. IInv /\ [Next]_vars => IInv'
  BY Inductive
<1> QED BY <1>2, <1>3, <1>4, PTL DEF Spec
=============================================================================
