------------------------------- MODULE MCLists -------------------------------
(***************************************************************************)
(* The lists of list.h for TLC: the doubly linked lists (KList), the hash  *)
(* lists (HList) and the student list built on the former (StuList).  They *)
(* share no state, so a behaviour picks one of them at the start and goes  *)
(* on with it alone.                                                       *)
(***************************************************************************)
EXTENDS KList

CONSTANT Names

VARIABLES fwd, pprev, hashed                        \* HList
VARIABLES sl, name, heap, pc, arg, pos, before      \* StuList
VARIABLE which

H == INSTANCE HList WITH on <- hashed
S == INSTANCE StuList WITH Records <- Nodes, List <- CHOOSE h \in Heads : TRUE, l <- sl

hvars == <<fwd, pprev, hashed>>
svars == <<sl, name, heap, pc, arg, pos, before>>
allVars == <<vars, hvars, svars, which>>

\* The student list has a head.
ASSUME HeadExists == Heads # {}

MCInit == Init /\ H!Init /\ S!Init /\ which \in {"list", "hlist", "students"}

MCNext ==
  \/ which = "list" /\ Next /\ UNCHANGED <<hvars, svars, which>>
  \/ which = "hlist" /\ H!Next /\ UNCHANGED <<vars, svars, which>>
  \/ which = "students" /\ S!Next /\ UNCHANGED <<vars, hvars, which>>

MCSpec == MCInit /\ [][MCNext]_allVars /\ WF_svars(which = "students" /\ S!Run /\ UNCHANGED <<vars, hvars, which>>)

-----------------------------------------------------------------------------
\* The hash lists (list.h:226): the pprev of each node is the field that points
\* to it, the walk meets every node that is in a list, and operations keep the
\* order of the others (see HList).
HashLists == H!TypeOK /\ H!BackPointers /\ H!WalkMeetsAll
OrderKept == H!OrderKept

\* The student list: a linked record is not freed, find and delete take the first
\* of a name, and what del_all_stu leaves behind is known (see StuList).
LinkedIsLive == TypeOK /\ S!TypeOK /\ S!LinkedIsLive
DeletesAsTold == S!FirstMatch /\ S!DelAllLeaves
CallsReturn == S!CallsReturn

=============================================================================
