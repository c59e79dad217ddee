----------------------------- MODULE SocketPair -----------------------------
(***************************************************************************)
(* socketpair.c: a parent that sends numbers through a socket pair and a   *)
(* child that sends each back increased by one, where either may be killed *)
(* at any time.  As for a socket pair there are an end 0 and an end 1, a   *)
(* queue towards each, and the processes that hold each open.              *)
(***************************************************************************)
EXTENDS Integers, Sequences

CONSTANT MaxVal         \* bound: the parent sends no number above it

Procs == {"parent", "child"}
Other(p) == IF p = "parent" THEN "child" ELSE "parent"
EndOf(p) == IF p = "parent" THEN 1 ELSE 0

VARIABLES
  pc,             \* per process: fork, close, send, recv, dead
  val,            \* its variable val
  holds,          \* per end of the pair, who has it open
  queue,          \* per end, what can be read there
  sent            \* history: the last number the parent sent

vars == <<pc, val, holds, queue, sent>>

\* The child's val has no value before its first read; 0 stands for it.
Init ==
  /\ pc = [p \in Procs |-> IF p = "parent" THEN "fork" ELSE "dead"]
  /\ val = [p \in Procs |-> 0]
  /\ holds = [e \in 0..1 |-> {"parent"}]
  /\ queue = [e \in 0..1 |-> <<>>]
  /\ sent = 0

Fork ==
  /\ pc["parent"] = "fork"
  /\ pc' = [p \in Procs |-> "close"]
  /\ holds' = [e \in 0..1 |-> Procs]
  /\ UNCHANGED <<val, queue, sent>>

\* Mutant of Close: each process keeps both ends.
CloseNone(p) ==
  /\ pc[p] = "close"
  /\ pc' = [pc EXCEPT ![p] = IF p = "parent" THEN "send" ELSE "recv"]
  /\ UNCHANGED <<val, holds, queue, sent>>

\* Mutant of Close: both write first.
CloseAndSend(p) ==
  /\ pc[p] = "close"
  /\ holds' = [holds EXCEPT ![EndOf(Other(p))] = @ \ {p}]
  /\ pc' = [pc EXCEPT ![p] = "send"]
  /\ UNCHANGED <<val, queue, sent>>

\* Each process closes the other's end.
Close(p) ==
  /\ pc[p] = "close"
  /\ holds' = [holds EXCEPT ![EndOf(Other(p))] = @ \ {p}]
  /\ pc' = [pc EXCEPT ![p] = IF p = "parent" THEN "send" ELSE "recv"]
  /\ UNCHANGED <<val, queue, sent>>

\* A process ends, killed or by SIGPIPE: its descriptors are closed.
Dies(p) ==
  /\ pc' = [pc EXCEPT ![p] = "dead"]
  /\ holds' = [e \in 0..1 |-> holds[e] \ {p}]

\* The other end of p's is open somewhere.
Connected(p) == holds[EndOf(Other(p))] # {}

\* The parent adds one and writes; the child wrote one more than it read.
Sends(p) == val' = [val EXCEPT ![p] = @ + 1]

Write(p) ==
  /\ pc[p] = "send"
  /\ Sends(p)
  /\ IF Connected(p)
     THEN /\ val[p] < MaxVal
          /\ queue' = [queue EXCEPT ![EndOf(Other(p))] = Append(@, val[p] + 1)]
          /\ pc' = [pc EXCEPT ![p] = "recv"]
          /\ sent' = IF p = "parent" THEN val[p] + 1 ELSE sent
          /\ UNCHANGED holds
     ELSE Dies(p) /\ UNCHANGED <<queue, sent>>

\* read waits while there is nothing and somebody could write; at the end of the
\* stream it returns 0 and val stays as it is.
Read(p) ==
  /\ pc[p] = "recv"
  /\ queue[EndOf(p)] # <<>> \/ ~Connected(p)
  /\ IF queue[EndOf(p)] # <<>>
     THEN /\ val' = [val EXCEPT ![p] = Head(queue[EndOf(p)])]
          /\ queue' = [queue EXCEPT ![EndOf(p)] = Tail(@)]
     ELSE UNCHANGED <<val, queue>>
  /\ pc' = [pc EXCEPT ![p] = "send"]
  /\ UNCHANGED <<holds, sent>>

Step(p) == Close(p) \/ Write(p) \/ Read(p)

Kill(p) == /\ pc[p] \in {"close", "send", "recv"} /\ pc[Other(p)] # "fork"
           /\ Dies(p)
           /\ UNCHANGED <<val, queue, sent>>

Next == Fork \/ \E p \in Procs : Step(p) \/ Kill(p)

Spec == Init /\ [][Next]_vars /\ \A p \in Procs : WF_vars(Step(p))

-----------------------------------------------------------------------------
(***************************************************************************)
(* socketpair.c:27: the two take turns: what the parent has read while the *)
(* child was there is one more than what it sent, never an older answer,   *)
(* and the child never answers twice.                                      *)
(***************************************************************************)
TakeTurns ==
  /\ Len(queue[0]) + Len(queue[1]) <= 1
  /\ (pc["parent"] = "send" /\ Connected("parent") /\ sent > 0) => val["parent"] = sent + 1

(***************************************************************************)
(* socketpair.c:21, 35: because each closes the end it does not use, the   *)
(* one that is left finds out that the other is gone, and ends as well.    *)
(***************************************************************************)
SurvivorEnds == \A p \in Procs :
  (pc[p] = "dead" /\ pc[Other(p)] # "fork") ~> pc[Other(p)] = "dead"

=============================================================================
