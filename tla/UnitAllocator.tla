---------------------------- MODULE UnitAllocator ----------------------------
(***************************************************************************)
(* What a pool of units promises its client: a request is answered, with a *)
(* unit nobody holds or with NULL, and a unit is held until it is          *)
(* released.  MemoryPool implements it as long as a block has at most two  *)
(* units.                                                                  *)
(***************************************************************************)
CONSTANTS Cells, Handles, NULL

VARIABLES own, asking     \* the unit each pointer holds; the pointer being served

specVars == <<own, asking>>

Init == own = [h \in Handles |-> NULL] /\ asking = NULL

Request(h) ==
  /\ asking = NULL
  /\ own[h] = NULL
  /\ asking' = h
  /\ UNCHANGED own

Grant(c) ==
  /\ asking # NULL
  /\ \A h \in Handles : own[h] # c
  /\ own' = [own EXCEPT ![asking] = c]
  /\ asking' = NULL

Deny == asking # NULL /\ asking' = NULL /\ UNCHANGED own

Release(h) ==
  /\ asking = NULL
  /\ own[h] # NULL
  /\ own' = [own EXCEPT ![h] = NULL]
  /\ UNCHANGED asking

\* The pool is destroyed with everything in it.
ReleaseAll ==
  /\ asking = NULL
  /\ own' = [h \in Handles |-> NULL]
  /\ UNCHANGED asking

Answer == Deny \/ \E c \in Cells : Grant(c)

Next == ReleaseAll \/ Answer \/ \E h \in Handles : Request(h) \/ Release(h)

Spec == Init /\ [][Next]_specVars /\ WF_specVars(Answer)

=============================================================================
