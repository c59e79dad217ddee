------------------------------ MODULE EpollEcho ------------------------------
(***************************************************************************)
(* The edge-triggered echo server of epoll_eg.c, the clients of client.c,  *)
(* and, as far as the two use it, the kernel between them: the accept      *)
(* queue, one queue of bytes each way per connection, and epoll's list of  *)
(* ready descriptors.                                                      *)
(*                                                                         *)
(* The server has one buffer buf and one count n for all connections: it   *)
(* reads into them on EPOLLIN and writes from them at the next EPOLLOUT.   *)
(* A request stands for the bytes of one send; n counts requests.          *)
(***************************************************************************)
EXTENDS Integers, Sequences, FiniteSets, SequencesExt

CONSTANTS
  Clients,
  MaxEvents,      \* the size of events[]
  MaxSends        \* bound: the requests a client sends

Listen == "listen"

EpollEchoAssumption == Listen \notin Clients /\ MaxEvents \in Nat \ {0} /\ MaxSends \in Nat
ASSUME EpollEchoAssumption

VARIABLES
  \* the kernel
  conn,           \* none, pending (to be accepted), open or closed by the server
  backlog,        \* the pending connections, in the order they came
  inbox, outbox,  \* bytes towards the server, towards the client
  peer,           \* the other end: up, fin, rst, or lost (its error has been reported)
  interest,       \* the event a connection is registered for
  rdllist,        \* the descriptors with an event to report, first come first served
  \* the server
  pc, events, buf, n, errno,
  \* the clients
  at, sent, got

kernel == <<conn, backlog, inbox, outbox, peer, interest, rdllist>>
server == <<pc, events, buf, n, errno>>
clients == <<at, sent, got>>
vars == <<kernel, server, clients>>

Requests == Clients \X (1 .. MaxSends)

TypeOK ==
  /\ conn \in [Clients -> {"none", "pending", "open", "closed"}]
  /\ backlog \in Seq(Clients) /\ \A c \in Clients : Contains(backlog, c) <=> conn[c] = "pending"
  /\ inbox \in [Clients -> Seq(Requests)] /\ outbox \in [Clients -> Seq(Requests)]
  /\ peer \in [Clients -> {"up", "fin", "rst", "lost"}]
  /\ interest \in [Clients -> {"IN", "OUT"}]
  /\ rdllist \in Seq(Clients \cup {Listen}) /\ IsInjective(rdllist)
  /\ pc \in {"wait", "handle", "sleep"}
  /\ events \in Seq((Clients \cup {Listen}) \X {"IN", "OUT"}) /\ Len(events) <= MaxEvents
  /\ buf \in Seq(Requests) /\ n \in -1 .. Len(buf)
  /\ errno \in {"none", "ECONNRESET", "other"}
  /\ at \in [Clients -> {"send", "recv", "gone"}]
  /\ sent \in [Clients -> 0 .. MaxSends] /\ got \in [Clients -> Seq(Requests)]

\* main up to its loop: the listening socket is registered, nobody has
\* connected.  n and errno are not read before they are set.
Init ==
  /\ conn = [c \in Clients |-> "none"] /\ peer = [c \in Clients |-> "up"]
  /\ backlog = <<>>
  /\ inbox = [c \in Clients |-> <<>>] /\ outbox = inbox /\ got = inbox
  /\ interest = [c \in Clients |-> "IN"] /\ rdllist = <<>>
  /\ pc = "wait" /\ events = <<>> /\ buf = <<>> /\ n = 0 /\ errno = "none"
  /\ at = [c \in Clients |-> "send"] /\ sent = [c \in Clients |-> 0]

-----------------------------------------------------------------------------
\* What the kernel does.

\* recv would return at once.
Readable(c) == inbox[c] # <<>> \/ peer[c] # "up"

\* A socket whose buffer is not full is always writable.
Holds(fd) == IF fd = Listen THEN backlog # <<>>
             ELSE conn[fd] = "open" /\ (interest[fd] = "OUT" \/ Readable(fd))

\* An edge: the descriptor joins the ready list unless it is on it.
Edge(fd) == IF Contains(rdllist, fd) THEN rdllist ELSE Append(rdllist, fd)

\* Something arrives from c: an edge if c is registered for EPOLLIN.
Arrives(c) ==
  rdllist' = IF conn[c] = "open" /\ interest[c] = "IN" THEN Edge(c) ELSE rdllist

\* EPOLL_CTL_MOD looks at the socket again: what is there already is an edge.
EpollMod(c, event) ==
  /\ interest' = [interest EXCEPT ![c] = event]
  /\ rdllist' = IF event = "OUT" \/ Readable(c) THEN Edge(c) ELSE rdllist

\* The places, in order, of the m descriptors among the first k of the ready
\* list that have something to report.
Reported(m, k) ==
  { place \in [1 .. m -> 1 .. k] :
      /\ \A i, j \in 1 .. m : i < j => place[i] < place[j]
      /\ Range(place) = { i \in 1 .. k : Holds(rdllist[i]) } }

\* epoll_wait goes through the ready list until events[] is full; what it looked
\* at leaves the list, the rest waits for the next call.
EventOf(fd) == <<fd, IF fd = Listen THEN "IN" ELSE interest[fd]>>
EpollWait ==
  /\ pc = "wait"
  /\ \E k \in 1 .. Len(rdllist), m \in 1 .. MaxEvents : \E place \in Reported(m, k) :
       /\ IF m = MaxEvents THEN place[m] = k ELSE k = Len(rdllist)
       /\ events' = [i \in 1 .. m |-> EventOf(rdllist[place[i]])]
       /\ rdllist' = SubSeq(rdllist, k + 1, Len(rdllist))
  /\ pc' = "handle"
  /\ UNCHANGED <<conn, backlog, inbox, outbox, peer, interest, buf, n, errno, clients>>

-----------------------------------------------------------------------------
\* The server: the events of a batch, one after the other.

Fd == events[1][1]
NextEvent == /\ events' = Tail(events)
             /\ pc' = IF Len(events) = 1 THEN "wait" ELSE "handle"

\* Mutant of Accept: one accept per event.
AcceptOnce ==
  /\ pc = "handle" /\ Fd = Listen
  /\ backlog # <<>> /\ backlog' = Tail(backlog)
  /\ LET c == Head(backlog) IN
       /\ conn' = [conn EXCEPT ![c] = "open"]
       /\ interest' = [interest EXCEPT ![c] = "IN"]
       /\ rdllist' = IF Readable(c) THEN Edge(c) ELSE rdllist
  /\ NextEvent
  /\ UNCHANGED <<inbox, outbox, peer, buf, n, errno, clients>>

\* One turn of the accept loop, and its end, when accept has nobody to return.
Accept ==
  /\ pc = "handle" /\ Fd = Listen
  /\ backlog # <<>> /\ backlog' = Tail(backlog)
  /\ LET c == Head(backlog) IN
       /\ conn' = [conn EXCEPT ![c] = "open"]
       /\ interest' = [interest EXCEPT ![c] = "IN"]
       /\ rdllist' = IF Readable(c) THEN Edge(c) ELSE rdllist
  /\ UNCHANGED <<inbox, outbox, peer, server, clients>>

AcceptDone ==
  /\ pc = "handle" /\ Fd = Listen /\ backlog = <<>>
  /\ NextEvent
  /\ UNCHANGED <<kernel, buf, n, errno, clients>>

\* Mutant of IsIn: whatever the event, it is read.
IsInAlways == Fd # Listen

IsIn == Fd # Listen /\ events[1][2] = "IN"

\* recv: what is there, else the end of the stream, else the error, once.  The
\* error of a reset is ECONNRESET, unless printf has changed errno by the time
\* it is read; a peer that no longer answers gives another one.
Recv ==
  /\ pc = "handle" /\ IsIn
  /\ Readable(Fd)
  /\ \/ /\ inbox[Fd] # <<>>
        /\ buf' = inbox[Fd] /\ n' = Len(inbox[Fd])
        /\ inbox' = [inbox EXCEPT ![Fd] = <<>>]
        /\ UNCHANGED <<peer, errno>>
     \/ /\ inbox[Fd] = <<>> /\ peer[Fd] # "rst"
        /\ n' = 0
        /\ UNCHANGED <<inbox, peer, buf, errno>>
     \/ /\ inbox[Fd] = <<>> /\ peer[Fd] = "rst"
        /\ n' = -1 /\ errno' \in {"ECONNRESET", "other"}
        /\ peer' = [peer EXCEPT ![Fd] = "lost"]
        /\ UNCHANGED <<inbox, buf>>
  /\ pc' = "sleep"
  /\ UNCHANGED <<conn, backlog, outbox, interest, rdllist, events, clients>>

\* After sleep(2).
CloseFd ==
  /\ pc = "sleep"
  /\ n = 0 \/ (n < 0 /\ errno = "ECONNRESET")
  /\ conn' = [conn EXCEPT ![Fd] = "closed"]
  /\ rdllist' = RemoveFirst(rdllist, Fd)
  /\ NextEvent
  /\ UNCHANGED <<backlog, inbox, outbox, peer, interest, buf, n, errno, clients>>

Sorry ==
  /\ pc = "sleep" /\ n < 0 /\ errno # "ECONNRESET"
  /\ NextEvent
  /\ UNCHANGED <<kernel, buf, n, errno, clients>>

ArmOut ==
  /\ pc = "sleep" /\ n > 0
  /\ EpollMod(Fd, "OUT")
  /\ NextEvent
  /\ UNCHANGED <<conn, backlog, inbox, outbox, peer, buf, n, errno, clients>>

\* write sends the first n of buf, whoever they are from; with n = 0 or -1 it
\* sends nothing.
Written == SubSeq(buf, 1, n)

\* Mutant of Write: the connection stays registered for EPOLLOUT.
WriteStaysOut ==
  /\ pc = "handle" /\ Fd # Listen /\ ~IsIn
  /\ outbox' = [outbox EXCEPT ![Fd] = IF peer[Fd] = "up" THEN @ \o Written ELSE @]
  /\ EpollMod(Fd, "OUT")
  /\ NextEvent
  /\ UNCHANGED <<conn, backlog, inbox, peer, buf, n, errno, clients>>

Write ==
  /\ pc = "handle" /\ Fd # Listen /\ ~IsIn
  /\ outbox' = [outbox EXCEPT ![Fd] = IF peer[Fd] = "up" THEN @ \o Written ELSE @]
  /\ EpollMod(Fd, "IN")
  /\ NextEvent
  /\ UNCHANGED <<conn, backlog, inbox, peer, buf, n, errno, clients>>

Server == \/ EpollWait
          \/ pc # "wait" /\ (Accept \/ AcceptDone \/ Recv \/ CloseFd \/ Sorry \/ ArmOut \/ Write)

-----------------------------------------------------------------------------
\* The clients: connect, then send and recv in turn, until they are killed.

Connect(c) ==
  /\ conn[c] = "none" /\ at[c] = "send"
  /\ conn' = [conn EXCEPT ![c] = "pending"]
  /\ backlog' = Append(backlog, c)
  /\ rdllist' = Edge(Listen)
  /\ UNCHANGED <<inbox, outbox, peer, interest, server, clients>>

Send(c) ==
  /\ conn[c] # "none" /\ at[c] = "send" /\ sent[c] < MaxSends
  /\ sent' = [sent EXCEPT ![c] = @ + 1]
  /\ inbox' = [inbox EXCEPT ![c] = Append(@, <<c, sent[c] + 1>>)]
  /\ at' = [at EXCEPT ![c] = "recv"]
  /\ Arrives(c)
  /\ UNCHANGED <<conn, backlog, outbox, peer, interest, server, got>>

Receive(c) ==
  /\ at[c] = "recv" /\ outbox[c] # <<>>
  /\ got' = [got EXCEPT ![c] = @ \o outbox[c]]
  /\ outbox' = [outbox EXCEPT ![c] = <<>>]
  /\ at' = [at EXCEPT ![c] = "send"]
  /\ UNCHANGED <<conn, backlog, inbox, peer, interest, rdllist, server, sent>>

\* The client's process ends: a reset if it leaves a reply unread.
Exit(c) ==
  /\ conn[c] # "none" /\ at[c] # "gone"
  /\ at' = [at EXCEPT ![c] = "gone"]
  /\ peer' = [peer EXCEPT ![c] = IF outbox[c] = <<>> THEN "fin" ELSE "rst"]
  /\ outbox' = [outbox EXCEPT ![c] = <<>>]
  /\ Arrives(c)
  /\ UNCHANGED <<conn, backlog, inbox, interest, server, sent, got>>

Client(c) == Connect(c) \/ Send(c) \/ Receive(c) \/ Exit(c)

Next == Server \/ \E c \in Clients : Client(c)

\* The server goes on while it has something to do; clients may stop anywhere.
Spec == Init /\ [][Next]_vars /\ WF_vars(Server)

-----------------------------------------------------------------------------
(***************************************************************************)
(* One step is never to stop the server: the accepted sockets are blocking,*)
(* so recv must be called only on a connection that has something to read, *)
(* and no event is left for a connection closed earlier in the batch.      *)
(***************************************************************************)
NeverBlocks ==
  /\ (pc = "handle" /\ IsIn) => (conn[Fd] = "open" /\ Readable(Fd))
  /\ pc # "wait" => \A i \in DOMAIN events : events[i][1] # Listen => conn[events[i][1]] = "open"

(***************************************************************************)
(* The edge trigger reports a change once.  Whatever the order of          *)
(* arrivals, batches and re-registrations, none is lost: who connects is   *)
(* accepted, what is sent is read, and who leaves is closed, or reported   *)
(* as an error that the server answers with "sorry".                       *)
(***************************************************************************)
Served == \A c \in Clients :
  /\ conn[c] = "pending" ~> conn[c] # "pending"
  /\ inbox[c] # <<>> ~> inbox[c] = <<>>
  /\ at[c] = "gone" ~> (conn[c] = "closed" \/ peer[c] = "lost")

(***************************************************************************)
(* What holds of the replies although buf and n are shared: a client gets  *)
(* no more replies than it sent requests, each reply is a request that     *)
(* somebody sent, and is never older than the client's own; alone, a       *)
(* client gets its own requests in order.                                  *)
(***************************************************************************)
Replies(c) == got[c] \o outbox[c]
Connected == {c \in Clients : conn[c] # "none"}
RepliesWereSent == \A c \in Clients :
  /\ Len(Replies(c)) <= sent[c]
  /\ \A i \in DOMAIN Replies(c) : Replies(c)[i][2] <= sent[Replies(c)[i][1]]
  /\ \A i, j \in DOMAIN Replies(c) :
       (i < j /\ Replies(c)[i][1] = c /\ Replies(c)[j][1] = c) => Replies(c)[i][2] < Replies(c)[j][2]
  /\ Connected = {c} => Replies(c) = [i \in DOMAIN Replies(c) |-> <<c, i>>]

(***************************************************************************)
(* client.c waits for an answer to each of its sends.  It need not come: a *)
(* recv that returns 0 or -1 for another connection, between the read and  *)
(* the write, leaves n so for this one, and the write sends nothing.       *)
(***************************************************************************)
EveryRequestAnswered == \A c \in Clients : at[c] = "recv" ~> (outbox[c] # <<>> \/ at[c] # "recv")

=============================================================================
