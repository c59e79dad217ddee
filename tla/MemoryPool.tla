----------------------------- MODULE MemoryPool -----------------------------
(***************************************************************************)
(* The fixed-unit memory pool of memory/memory01/memory.c.                 *)
(*                                                                         *)
(* A pool is a doubly linked list of heap blocks.  Every block holds       *)
(* nGrowSize units; the free ones are meant to be chained through their    *)
(* first two bytes, starting from nFirst.  A pointer returned by           *)
(* mem_malloc is the pair <<block, unit>>; link[b][u] is what the first    *)
(* two bytes of unit u of block b hold, which is the pool's while the unit *)
(* is free and the client's while it is handed out.                        *)
(*                                                                         *)
(* The two loops that walk the block list are modelled one iteration per   *)
(* step.  fault names the first undefined behaviour the code runs into;    *)
(* nothing is modelled past it.                                            *)
(***************************************************************************)
EXTENDS Integers, FiniteSets

CONSTANTS
  Blocks,     \* the addresses malloc may return for a block
  Handles,    \* the client's pointer variables
  UnitArg,    \* the unit size create_memory_pool is called with
  GrowSize,   \* nGrowSize, the units of a block
  Garbage,    \* what a client may write into the first bytes of a unit
  NULL

U16 == 65536                    \* u16 arithmetic is modulo 2^16

SizeAssumption ==
  /\ UnitArg \in 0 .. U16 - 4   \* above that the rounded size wraps to 0
  /\ GrowSize \in 0 .. U16 - 1
  /\ Garbage \subseteq 0 .. U16 - 1
ASSUME SizeAssumption

NullAssumption ==
  /\ NULL \notin Blocks
  /\ NULL \notin Blocks \X (0 .. GrowSize - 1)
  /\ NULL \notin Handles
ASSUME NullAssumption

Units    == 0 .. GrowSize - 1
Pointers == Blocks \X Units

\* nUnitSize as create_memory_pool rounds it.
UnitSize == IF UnitArg > 4 THEN ((UnitArg + 3) \div 4) * 4
            ELSE IF UnitArg <= 2 THEN 2 ELSE 4

\* nSize of every block: the product is stored in a u16.
BlockSize == (UnitSize * GrowSize) % U16

Faults == {"none", "null_prev", "wild_unit", "bad_free"}

VARIABLES
  pBlock,     \* mpool->pBlock, the list head
  pNext, pPrev, nFree, nFirst, link,   \* the fields of the blocks
  live,       \* the blocks the heap has handed out and not taken back
  ptr,        \* the client's pointers
  pc,         \* the call the (single) thread is in
  cur, arg,   \* the block the loop is at; the client's pointer of the call
  fault

blockVars  == <<pNext, pPrev, nFree, nFirst, link>>
vars == <<pBlock, blockVars, live, ptr, pc, cur, arg, fault>>

Init ==
  /\ pBlock = NULL
  /\ pNext  = [b \in Blocks |-> NULL]
  /\ pPrev  = [b \in Blocks |-> NULL]
  /\ nFree  = [b \in Blocks |-> 0]
  /\ nFirst = [b \in Blocks |-> 0]
  /\ link   = [b \in Blocks |-> [u \in Units |-> 0]]
  /\ live   = {}
  /\ ptr    = [h \in Handles |-> NULL]
  /\ pc     = "none"
  /\ cur    = NULL
  /\ arg    = NULL
  /\ fault  = "none"

At(label) == pc = label /\ fault = "none"

Return == pc' = "idle" /\ cur' = NULL /\ arg' = NULL

-----------------------------------------------------------------------------
\* create_memory_pool: the block list of a fresh pool is empty.
Create ==
  /\ At("none")
  /\ pBlock' = NULL
  /\ pc' = "idle"
  /\ UNCHANGED <<blockVars, live, ptr, cur, arg, fault>>

\* The client uses the memory it holds.
ClientWrite(h) ==
  /\ At("idle")
  /\ ptr[h] # NULL
  /\ \E g \in Garbage : link' = [link EXCEPT ![ptr[h][1]][ptr[h][2]] = g]
  /\ UNCHANGED <<pBlock, pNext, pPrev, nFree, nFirst, live, ptr, pc, cur, arg, fault>>

-----------------------------------------------------------------------------
(* mem_malloc                                                              *)

MallocCall(h) ==
  /\ At("idle")
  /\ ptr[h] = NULL
  /\ pc' = "malloc" /\ cur' = pBlock /\ arg' = h
  /\ UNCHANGED <<pBlock, blockVars, live, ptr, fault>>

HasFree(b) == nFree[b] # 0

\* while (pBlock && !pBlock->nFree) pBlock = pBlock->pNext
MallocScan ==
  /\ At("malloc")
  /\ cur # NULL
  /\ ~HasFree(cur)
  /\ cur' = pNext[cur]
  /\ UNCHANGED <<pBlock, blockVars, live, ptr, pc, arg, fault>>

\* Unit nFirst of a block with free units is handed out.
MallocTake ==
  /\ At("malloc")
  /\ cur # NULL
  /\ HasFree(cur)
  /\ nFirst[cur] \in Units
  /\ nFirst' = [nFirst EXCEPT ![cur] = link[cur][nFirst[cur]]]
  /\ nFree'  = [nFree EXCEPT ![cur] = @ - 1]
  /\ ptr'    = [ptr EXCEPT ![arg] = <<cur, nFirst[cur]>>]
  /\ Return
  /\ UNCHANGED <<pBlock, pNext, pPrev, link, live, fault>>

\* nFirst names no unit of the block: the address computed is outside it.
MallocWild ==
  /\ At("malloc")
  /\ cur # NULL
  /\ HasFree(cur)
  /\ nFirst[cur] \notin Units
  /\ fault' = "wild_unit"
  /\ UNCHANGED <<pBlock, blockVars, live, ptr, pc, cur, arg>>

\* The first two bytes of the units of a fresh block: each unit's own number.
InitialLinks == [u \in Units |-> u]

\* Mutant of FreshFree: the unit about to be handed out counts as free.
FreshFreeAll == GrowSize

\* The free units of a fresh block.
FreshFree == GrowSize - 1

\* No free unit: a block from the heap goes to the head of the list, and its
\* unit 0 to the client.
MallocGrow(b) ==
  /\ At("malloc")
  /\ cur = NULL
  /\ GrowSize # 0
  /\ b \notin live
  /\ live'   = live \cup {b}
  /\ nFree'  = [nFree EXCEPT ![b] = FreshFree]
  /\ nFirst' = [nFirst EXCEPT ![b] = 1]
  /\ link'   = [link EXCEPT ![b] = InitialLinks]
  /\ pNext'  = [pNext EXCEPT ![b] = pBlock]
  /\ pPrev'  = [c \in Blocks |-> IF c = b THEN NULL
                                 ELSE IF c = pBlock THEN b ELSE pPrev[c]]
  /\ pBlock' = b
  /\ ptr'    = [ptr EXCEPT ![arg] = <<b, 0>>]
  /\ Return
  /\ UNCHANGED fault

\* Growth is not allowed, or the heap is exhausted: NULL is returned.
MallocFail ==
  /\ At("malloc")
  /\ cur = NULL
  /\ Return
  /\ UNCHANGED <<pBlock, blockVars, live, ptr, fault>>

-----------------------------------------------------------------------------
(* mem_free                                                                *)

FreeCall(h) ==
  /\ At("idle")
  /\ ptr[h] # NULL
  /\ pc' = "free" /\ cur' = pBlock /\ arg' = h
  /\ UNCHANGED <<pBlock, blockVars, live, ptr, fault>>

\* The address test of the loop: blocks do not overlap, so only the block of
\* the pointer can contain it, and does so within its (16-bit) nSize.
Contains(b, p) == p[1] = b /\ p[2] * UnitSize < BlockSize

FreeScan ==
  /\ At("free")
  /\ cur # NULL
  /\ ~Contains(cur, ptr[arg])
  /\ cur' = pNext[cur]
  /\ UNCHANGED <<pBlock, blockVars, live, ptr, pc, arg, fault>>

\* The pointer is in no block: free(pFree), here an address inside a block
\* that the heap never handed out.
FreeToHeap ==
  /\ At("free")
  /\ cur = NULL
  /\ fault' = "bad_free"
  /\ UNCHANGED <<pBlock, blockVars, live, ptr, pc, cur, arg>>

Found == At("free") /\ cur # NULL /\ Contains(cur, ptr[arg])

FreeCount == (nFree[cur] + 1) % U16          \* nFree after pBlock->nFree++

\* Mutants of AllFree: one unit too early, and >= for ==.
AllButOneFree == (FreeCount + 1) * UnitSize = BlockSize
AllFreeAtLeast == FreeCount * UnitSize >= BlockSize

\* nFree * nUnitSize == nSize; the int product is exact wherever it can be equal.
AllFree == FreeCount * UnitSize = BlockSize

\* Mutant of PutBack: the free chain keeps its head.
PutBackUnchained ==
  /\ nFree'  = [nFree EXCEPT ![cur] = FreeCount]
  /\ link'   = [link EXCEPT ![cur][ptr[arg][2]] = nFirst[cur]]
  /\ UNCHANGED nFirst

\* The unit goes back to its block and heads its free chain.
PutBack ==
  /\ nFree'  = [nFree EXCEPT ![cur] = FreeCount]
  /\ link'   = [link EXCEPT ![cur][ptr[arg][2]] = nFirst[cur]]
  /\ nFirst' = [nFirst EXCEPT ![cur] = ptr[arg][2]]

\* Mutants of NextWithout and PrevWithout: the block before keeps pointing at
\* the block, or loses what follows it; the block after keeps its pPrev.
NextKept(b) == pNext
NextCut(b)  == [pNext EXCEPT ![pPrev[b]] = NULL]
PrevKept(b) == pPrev

\* pPrev->pNext = pNext; pNext->pPrev = pPrev, for a block that is not the head.
NextWithout(b) == [pNext EXCEPT ![pPrev[b]] = pNext[b]]
PrevWithout(b) == [c \in Blocks |-> IF c = pNext[b] THEN pPrev[b] ELSE pPrev[c]]

\* The head block stays where it is.
FreeInHead ==
  /\ Found /\ ~AllFree
  /\ cur = pBlock
  /\ PutBack
  /\ ptr' = [ptr EXCEPT ![arg] = NULL]
  /\ Return
  /\ UNCHANGED <<pBlock, pNext, pPrev, live, fault>>

\* Another block is moved to the head.  The old head's pPrev is not set.
FreeMoveToHead ==
  /\ Found /\ ~AllFree
  /\ cur # pBlock
  /\ pPrev[cur] # NULL
  /\ PutBack
  /\ pNext'  = [NextWithout(cur) EXCEPT ![cur] = pBlock]
  /\ pPrev'  = [PrevWithout(cur) EXCEPT ![cur] = NULL]
  /\ pBlock' = cur
  /\ ptr' = [ptr EXCEPT ![arg] = NULL]
  /\ Return
  /\ UNCHANGED <<live, fault>>

\* A head block that became entirely free goes back to the heap.
FreeDropHead ==
  /\ Found /\ AllFree
  /\ cur = pBlock
  /\ PutBack
  /\ pBlock' = pNext[cur]
  /\ pPrev'  = [c \in Blocks |-> IF c = pNext[cur] THEN NULL ELSE pPrev[c]]
  /\ live'   = live \ {cur}
  /\ ptr' = [ptr EXCEPT ![arg] = NULL]
  /\ Return
  /\ UNCHANGED <<pNext, fault>>

\* So does any other block.
FreeDropOther ==
  /\ Found /\ AllFree
  /\ cur # pBlock
  /\ pPrev[cur] # NULL
  /\ PutBack
  /\ pNext' = NextWithout(cur)
  /\ pPrev' = PrevWithout(cur)
  /\ live'  = live \ {cur}
  /\ ptr' = [ptr EXCEPT ![arg] = NULL]
  /\ Return
  /\ UNCHANGED <<pBlock, fault>>

\* pBlock->pPrev->pNext with a NULL pPrev.
FreeNullPrev ==
  /\ Found
  /\ cur # pBlock
  /\ pPrev[cur] = NULL
  /\ PutBack
  /\ fault' = "null_prev"
  /\ UNCHANGED <<pBlock, pNext, pPrev, live, ptr, pc, cur, arg>>

-----------------------------------------------------------------------------
(* destory_memory_pool                                                     *)

\* The client gives up all its pointers with the pool.
DestroyCall ==
  /\ At("idle")
  /\ pc' = "destroy" /\ cur' = pBlock
  /\ ptr' = [h \in Handles |-> NULL]
  /\ UNCHANGED <<pBlock, blockVars, live, arg, fault>>

DestroyBlock ==
  /\ At("destroy")
  /\ cur # NULL
  /\ cur'  = pNext[cur]
  /\ live' = live \ {cur}
  /\ UNCHANGED <<pBlock, blockVars, ptr, pc, arg, fault>>

\* mpool->pBlock is left as it is.
DestroyReturn ==
  /\ At("destroy")
  /\ cur = NULL
  /\ pc' = "none"
  /\ UNCHANGED <<pBlock, blockVars, live, ptr, cur, arg, fault>>

-----------------------------------------------------------------------------
Client == \/ Create
          \/ DestroyCall
          \/ \E h \in Handles : ClientWrite(h) \/ MallocCall(h) \/ FreeCall(h)

MallocStep == \/ MallocScan \/ MallocTake \/ MallocWild \/ MallocFail
              \/ \E b \in Blocks : MallocGrow(b)

FreeStep == \/ FreeScan \/ FreeToHeap \/ FreeInHead \/ FreeMoveToHead
            \/ FreeDropHead \/ FreeDropOther \/ FreeNullPrev

Pool == MallocStep \/ FreeStep \/ DestroyBlock \/ DestroyReturn

Next == Client \/ Pool

Spec == Init /\ [][Next]_vars

\* A call in progress goes on: the code has no wait in it.
FairSpec == Spec /\ WF_vars(Pool)

-----------------------------------------------------------------------------
(* Properties                                                              *)

\* Types.
TypeOK ==
  /\ pBlock \in Blocks \cup {NULL}
  /\ pNext \in [Blocks -> Blocks \cup {NULL}]
  /\ pPrev \in [Blocks -> Blocks \cup {NULL}]
  /\ nFree \in [Blocks -> 0 .. U16 - 1]
  /\ nFirst \in [Blocks -> 0 .. U16 - 1]
  /\ link \in [Blocks -> [Units -> 0 .. U16 - 1]]
  /\ live \subseteq Blocks
  /\ ptr \in [Handles -> Pointers \cup {NULL}]
  /\ pc \in {"none", "idle", "malloc", "free", "destroy"}
  /\ cur \in Blocks \cup {NULL}
  /\ arg \in Handles \cup {NULL}
  /\ fault \in Faults

\* The pool exists and no fault has ended the program.
Running == pc \in {"idle", "malloc", "free"} /\ fault = "none"

\* The pointers the client holds into a block.
HeldIn(b) == {h \in Handles : ptr[h] # NULL /\ ptr[h][1] = b}

\* mem_free gives a block back to the heap only when the client holds nothing
\* in it: no pointer the client holds is ever into a freed block.
NoDangling == \A h \in Handles : ptr[h] # NULL => ptr[h][1] \in live

\* nFree and what the client holds add up, for every block, at every step of
\* every call: no unit is lost to a leak and none is counted twice.
Accounting == Running => \A b \in live : nFree[b] + Cardinality(HeldIn(b)) = GrowSize

\* A pPrev the code follows is the block before: unlinking through it cuts
\* the list nowhere else (FreeMoveToHead leaves others NULL, never wrong).
PrevIsNullOrPredecessor ==
  Running => \A b \in live :
    pPrev[b] # NULL => pPrev[b] \in live /\ pNext[pPrev[b]] = b

\* The walk of mem_free always meets the block of a pointer the pool handed
\* out: it is never given to free() as if it were not the pool's.
FreeFindsBlock == fault # "bad_free"

\* Blocks reached from the head in at most n steps.
Reach[n \in 0 .. Cardinality(Blocks)] ==
  IF n = 0 THEN {pBlock} \ {NULL}
  ELSE Reach[n - 1] \cup ({pNext[b] : b \in Reach[n - 1]} \ {NULL})

\* The list holds exactly the blocks taken from the heap: none leaks out of
\* it when blocks are moved, dropped and added, and none on it is freed.
ListIsLive == Running => Reach[Cardinality(Blocks)] = live

\* memory.h:15: pPrev is the block before.
PrevIsPredecessor ==
  Running => \A b, c \in live : pNext[b] = c => pPrev[c] = b

\* The units of the free chain of block b, from nFirst through the links.
Chain(b) ==
  LET C[n \in 0 .. GrowSize] ==
        IF n = 0 THEN {} ELSE
        IF n = 1 THEN {nFirst[b]} ELSE C[n - 1] \cup {link[b][u] : u \in C[n - 1] \cap Units}
  IN  C[nFree[b]]

\* memory/README.md:86: the free units of a block are chained from nFirst
\* through the numbers in their first two bytes.
FreeUnitsChained ==
  Running => \A b \in live :
    Chain(b) = {u \in Units : \A h \in Handles : ptr[h] # <<b, u>>}

\* The pool is a UnitAllocator: ptr and the call in progress tell what it
\* owns and whom it is serving.
Allocator == INSTANCE UnitAllocator
  WITH Cells <- Pointers, own <- ptr, asking <- IF pc = "malloc" THEN arg ELSE NULL

\* With at most two units in a block mem_malloc answers with a unit nobody
\* holds, or NULL, and only mem_free and the pool's destruction take one away.
IsAllocator == Allocator!Init /\ [][Allocator!Next]_Allocator!specVars

\* Every call of the pool returns: the list walks end (unless the process
\* dies of a fault).
CallsReturn == pc # "idle" ~> pc \in {"idle", "none"} \/ fault # "none"

=============================================================================
