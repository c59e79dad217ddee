---------------------------- MODULE MCMemoryPool ----------------------------
(***************************************************************************)
(* Instances of MemoryPool for TLC.  The pool behaves in different ways as *)
(* its two sizes differ, so the run takes one of four shapes of pool at    *)
(* the start and stays with it.  The constants of the .cfg are those of    *)
(* the first shape, one unit a block: blocks come and go anywhere in the   *)
(* list and none is ever moved.                                            *)
(***************************************************************************)
EXTENDS MemoryPool

\* Two blocks are enough for the larger ones.
TwoBlocks == CHOOSE B \in SUBSET Blocks : Cardinality(B) = 2

\* Two units a block, which are handed out properly.
Pairs == INSTANCE MemoryPool WITH Blocks <- TwoBlocks, GrowSize <- 2

\* Three units a block, where the free chain breaks.
Chained == INSTANCE MemoryPool WITH Blocks <- TwoBlocks, GrowSize <- 3, Garbage <- {0, 3}

\* Units so large that nSize wraps.
Wide == INSTANCE MemoryPool WITH Blocks <- TwoBlocks, GrowSize <- 2, UnitArg <- 40000

VARIABLE shape

MCInit ==
  \/ shape = "single" /\ Init
  \/ shape = "pairs" /\ Pairs!Init
  \/ shape = "chained" /\ Chained!Init
  \/ shape = "wide" /\ Wide!Init

MCNext ==
  \/ shape = "single" /\ Next /\ UNCHANGED shape
  \/ shape = "pairs" /\ Pairs!Next /\ UNCHANGED shape
  \/ shape = "chained" /\ Chained!Next /\ UNCHANGED shape
  \/ shape = "wide" /\ Wide!Next /\ UNCHANGED shape

MCPool ==
  /\ \/ shape = "single" /\ Pool
     \/ shape = "pairs" /\ Pairs!Pool
     \/ shape = "chained" /\ Chained!Pool
     \/ shape = "wide" /\ Wide!Pool
  /\ UNCHANGED shape

MCSpec == MCInit /\ [][MCNext]_<<vars, shape>> /\ WF_<<vars, shape>>(MCPool)

-----------------------------------------------------------------------------

\* In pools of every shape the types hold, and nFree and what the client holds
\* add up.
Accounts ==
  /\ shape = "single" => TypeOK /\ Accounting
  /\ shape = "pairs" => Pairs!TypeOK /\ Pairs!Accounting
  /\ shape = "chained" => Chained!TypeOK /\ Chained!Accounting
  /\ shape = "wide" => Wide!TypeOK /\ Wide!Accounting

\* Unless nSize wraps, mem_free finds the block of every pointer it is given.
FindsBlock == shape # "wide" => FreeFindsBlock

\* In pools of every shape a pPrev that is not NULL is the block before, and
\* the list holds exactly the blocks the heap has given.  With one unit a block
\* the list stays doubly linked and no call faults.
ListKept ==
  /\ shape = "single" => PrevIsPredecessor /\ ListIsLive /\ fault = "none"
  /\ shape = "pairs" => Pairs!PrevIsNullOrPredecessor /\ Pairs!ListIsLive
  /\ shape = "chained" => Chained!PrevIsNullOrPredecessor /\ Chained!ListIsLive

\* The pool of pairs hands out only units that nobody holds: it takes the
\* steps of the abstract allocator.
Allocates ==
  /\ shape = "pairs" => Pairs!Allocator!Init
  /\ [][shape = "pairs" => Pairs!Allocator!Next \/ UNCHANGED Pairs!Allocator!specVars]_<<vars, shape>>

=============================================================================
