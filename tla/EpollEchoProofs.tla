--------------------------- MODULE EpollEchoProofs ---------------------------
(***************************************************************************)
(* Safety of the echo server for every number of clients, every size of    *)
(* events[] and any number of requests: types, that the server never       *)
(* blocks in recv, and that the replies are requests that were sent.       *)
(***************************************************************************)
EXTENDS EpollEcho, SequenceTheorems, WellFoundedInduction, TLAPS

Fds == Clients \cup {Listen}

-----------------------------------------------------------------------------
(* Sequences without repetitions: the ready list and the accept queue      *)

Distinct(S) == { s \in Seq(S) : IsInjective(s) }

\* What is appended if it is not there yet.
LEMMA AppendNew ==
  ASSUME NEW S, NEW s \in Distinct(S), NEW x \in S, ~Contains(s, x)
  PROVE  /\ Append(s, x) \in Distinct(S)
         /\ \A y : Contains(Append(s, x), y) <=> y = x \/ Contains(s, y)
<1>1. /\ Append(s, x) \in Seq(S) /\ Len(Append(s, x)) = Len(s) + 1
      /\ \A i \in 1 .. Len(s) : Append(s, x)[i] = s[i]
      /\ Append(s, x)[Len(s) + 1] = x
      /\ Len(s) \in Nat
  BY SMTT(10) DEF Distinct
<1>2. \A i \in 1 .. Len(s) : s[i] # x
  BY DEF Contains
<1>3. DOMAIN Append(s, x) = 1 .. Len(s) + 1 /\ DOMAIN s = 1 .. Len(s)
  BY <1>1, SMTT(10) DEF Distinct
<1>4. IsInjective(Append(s, x))
  BY <1>1, <1>2, <1>3, SMTT(10) DEF IsInjective, Distinct
<1>5. \A y : Contains(Append(s, x), y) <=> y = x \/ Contains(s, y)
  BY <1>1, SMTT(10) DEF Contains
<1> QED BY <1>1, <1>4, <1>5 DEF Distinct

\* A part of such a sequence is one.
LEMMA PartDistinct ==
  ASSUME NEW S, NEW s \in Distinct(S), NEW m \in 1 .. Len(s) + 1
  PROVE  SubSeq(s, m, Len(s)) \in Distinct(S)
<1>1. s \in Seq(S) /\ Len(s) \in Nat /\ DOMAIN s = 1 .. Len(s)
  BY DEF Distinct
<1> DEFINE t == SubSeq(s, m, Len(s))
<1>2. /\ t \in Seq(S) /\ Len(t) = Len(s) + 1 - m /\ DOMAIN t = 1 .. Len(t)
      /\ \A i \in 1 .. Len(t) : t[i] = s[m + i - 1]
  BY <1>1, SMTT(10)
<1> HIDE DEF t
<1>3. IsInjective(t)
  <2> SUFFICES ASSUME NEW i \in 1 .. Len(t), NEW j \in 1 .. Len(t), t[i] = t[j]
               PROVE  i = j
    BY <1>2 DEF IsInjective
  <2>1. m + i - 1 \in DOMAIN s /\ m + j - 1 \in DOMAIN s
    BY <1>1, <1>2, SMTT(10)
  <2>2. m + i - 1 = m + j - 1
    BY <1>2, <2>1 DEF IsInjective, Distinct
  <2> QED BY <2>2, <1>1, <1>2, SMTT(10)
<1> QED BY <1>2, <1>3 DEF Distinct, t

\* The rest of such a sequence no longer holds its first element.
LEMMA TailDistinct ==
  ASSUME NEW S, NEW s \in Distinct(S), s # <<>>
  PROVE  /\ Tail(s) \in Distinct(S) /\ Head(s) \in S
         /\ \A y : Contains(Tail(s), y) <=> Contains(s, y) /\ y # Head(s)
<1>1. s \in Seq(S) /\ Len(s) \in Nat /\ DOMAIN s = 1 .. Len(s) /\ Len(s) > 0
  BY SMTT(10) DEF Distinct
<1>2. /\ Tail(s) \in Seq(S) /\ Len(Tail(s)) = Len(s) - 1 /\ Head(s) = s[1]
      /\ \A i \in 1 .. Len(s) - 1 : Tail(s)[i] = s[i + 1]
      /\ DOMAIN Tail(s) = 1 .. Len(s) - 1
  BY <1>1, SMTT(10)
<1>3. IsInjective(Tail(s))
  <2> SUFFICES ASSUME NEW i \in 1 .. Len(s) - 1, NEW j \in 1 .. Len(s) - 1,
                      Tail(s)[i] = Tail(s)[j]
               PROVE  i = j
    BY <1>2 DEF IsInjective
  <2>1. i + 1 \in DOMAIN s /\ j + 1 \in DOMAIN s
    BY <1>1, SMTT(10)
  <2>2. i + 1 = j + 1
    BY <1>2, <2>1 DEF IsInjective, Distinct
  <2> QED BY <2>2, <1>1, SMTT(10)
<1>4. ASSUME NEW y
      PROVE  Contains(Tail(s), y) <=> Contains(s, y) /\ y # Head(s)
  <2>1. ASSUME Contains(Tail(s), y)
        PROVE  Contains(s, y) /\ y # Head(s)
    <3>1. PICK i \in 1 .. Len(s) - 1 : s[i + 1] = y
      BY <1>2, <2>1 DEF Contains
    <3>2. i + 1 \in DOMAIN s /\ 1 \in DOMAIN s /\ i + 1 # 1
      BY <1>1, SMTT(10)
    <3>3. s[i + 1] # s[1]
      BY <3>2 DEF IsInjective, Distinct
    <3> QED BY <1>1, <1>2, <3>1, <3>2, <3>3 DEF Contains
  <2>2. ASSUME Contains(s, y), y # Head(s)
        PROVE  Contains(Tail(s), y)
    <3>1. PICK i \in 1 .. Len(s) : s[i] = y
      BY <2>2 DEF Contains
    <3>2. i - 1 \in 1 .. Len(s) - 1 /\ (i - 1) + 1 = i
      BY <1>1, <1>2, <2>2, <3>1, SMTT(10)
    <3>3. Tail(s)[i - 1] = y
      BY <1>2, <3>1, <3>2
    <3> QED BY <1>2, <3>2, <3>3 DEF Contains
  <2> QED BY <2>1, <2>2
<1>5. Head(s) \in S
  BY <1>1, <1>2, SMTT(10)
<1> QED BY <1>2, <1>3, <1>4, <1>5 DEF Distinct

\* Where the elements are when the k-th is taken out.
LEMMA RemoveAtPlaces ==
  ASSUME NEW S, NEW s \in Seq(S), NEW k \in 1 .. Len(s)
  PROVE  LET t == RemoveAt(s, k)
         IN  /\ t \in Seq(S) /\ DOMAIN t = 1 .. Len(s) - 1
             /\ \A i \in 1 .. Len(s) - 1 : t[i] = s[IF i < k THEN i ELSE i + 1]
<1> DEFINE u == SubSeq(s, 1, k - 1)
           v == SubSeq(s, k + 1, Len(s))
<1>1. Len(s) \in Nat /\ \A i \in 1 .. Len(s) : s[i] \in S
  BY LenProperties, ElementOfSeq
<1>2. u \in Seq(S) /\ Len(u) = k - 1 /\ \A i \in 1 .. k - 1 : u[i] = s[i]
  <2>1. /\ u \in Seq(S) /\ Len(u) = IF 1 <= k - 1 THEN k - 1 - 1 + 1 ELSE 0
        /\ \A i \in 1 .. k - 1 - 1 + 1 : u[i] = s[1 + i - 1]
    BY <1>1, SubSeqProperties
  <2> HIDE DEF u
  <2> QED BY <1>1, <2>1, SMTT(10)
<1>3. v \in Seq(S) /\ Len(v) = Len(s) - k /\ \A i \in 1 .. Len(s) - k : v[i] = s[k + i]
  <2>1. /\ v \in Seq(S)
        /\ Len(v) = IF k + 1 <= Len(s) THEN Len(s) - (k + 1) + 1 ELSE 0
        /\ \A i \in 1 .. Len(s) - (k + 1) + 1 : v[i] = s[(k + 1) + i - 1]
    BY <1>1, SubSeqProperties
  <2> HIDE DEF v
  <2> QED BY <1>1, <2>1, SMTT(10)
<1> HIDE DEF u, v
<1>4. /\ u \o v \in Seq(S) /\ Len(u \o v) = Len(u) + Len(v)
      /\ \A i \in 1 .. Len(u) + Len(v) :
           (u \o v)[i] = IF i <= Len(u) THEN u[i] ELSE v[i - Len(u)]
  BY <1>2, <1>3, ConcatProperties
<1>5. Len(u \o v) = Len(s) - 1 /\ DOMAIN (u \o v) = 1 .. Len(s) - 1
  BY <1>1, <1>2, <1>3, <1>4, LenProperties, SMTT(10)
<1>6. ASSUME NEW i \in 1 .. Len(s) - 1
      PROVE  (u \o v)[i] = s[IF i < k THEN i ELSE i + 1]
  <2>1. CASE i < k
    BY <1>1, <1>2, <1>3, <1>4, <2>1, SMTT(10)
  <2>2. CASE ~(i < k)
    <3>1. i - (k - 1) \in 1 .. Len(s) - k /\ k + (i - (k - 1)) = i + 1
      BY <1>1, <2>2, SMTT(10)
    <3>2. (u \o v)[i] = v[i - (k - 1)]
      BY <1>1, <1>2, <1>3, <1>4, <2>2, SMTT(10)
    <3>3. v[i - (k - 1)] = s[k + (i - (k - 1))]
      BY <1>3, <3>1
    <3> QED BY <2>2, <3>1, <3>2, <3>3
  <2> QED BY <2>1, <2>2
<1>7. RemoveAt(s, k) = u \o v
  BY DEF RemoveAt, u, v
<1> QED BY <1>4, <1>5, <1>6, <1>7

\* Nor does such a sequence lose the property when an element is taken out.
LEMMA RemoveFirstDistinct ==
  ASSUME NEW S, NEW s \in Distinct(S), NEW x
  PROVE  RemoveFirst(s, x) \in Distinct(S)
<1>1. s \in Seq(S) /\ Len(s) \in Nat /\ DOMAIN s = 1 .. Len(s)
  BY DEF Distinct
<1>2. CASE ~\E i \in 1 .. Len(s) : s[i] = x
  BY <1>2 DEF RemoveFirst
<1>3. CASE \E i \in 1 .. Len(s) : s[i] = x
  <2> DEFINE I == { i \in 1 .. Len(s) : s[i] = x }
  <2>1. I # {} /\ I \in SUBSET Nat
    BY <1>1, <1>3, SMTT(10)
  <2>2. \E i \in I : \A j \in I : i <= j
    <3>1. \E i \in I : \A j \in I : <<j, i>> \notin OpToRel(<, Nat)
      BY <2>1, NatLessThanWellFounded, WFMin
    <3>2. \A i, j \in I : <<j, i>> \notin OpToRel(<, Nat) => i <= j
      BY <2>1 DEF OpToRel
    <3> QED BY <3>1, <3>2
  <2>3. Min(I) \in I
    BY <2>2 DEF Min
  <2>4. RemoveFirst(s, x) = RemoveAt(s, Min(I))
    BY <1>3, <2>1 DEF RemoveFirst, SelectInSeq
  <2>5. PICK k \in 1 .. Len(s) : RemoveFirst(s, x) = RemoveAt(s, k)
    BY <2>3, <2>4
  <2> DEFINE t == RemoveAt(s, k)
  <2>7. /\ t \in Seq(S) /\ DOMAIN t = 1 .. Len(s) - 1
        /\ \A i \in 1 .. Len(s) - 1 : t[i] = s[IF i < k THEN i ELSE i + 1]
    BY <1>1, <2>5, RemoveAtPlaces
  <2> HIDE DEF t
  <2>8. IsInjective(t)
    <3> SUFFICES ASSUME NEW i \in 1 .. Len(s) - 1, NEW j \in 1 .. Len(s) - 1, t[i] = t[j]
                 PROVE  i = j
      BY <2>7 DEF IsInjective
    <3> DEFINE moved(i_) == IF i_ < k THEN i_ ELSE i_ + 1
    <3>1. moved(i) \in DOMAIN s /\ moved(j) \in DOMAIN s
      BY <1>1, <2>5, SMTT(10)
    <3>2. moved(i) = moved(j)
      BY <2>7, <3>1 DEF IsInjective, Distinct
    <3> QED BY <1>1, <2>5, <3>2, SMTT(10)
  <2> QED BY <2>5, <2>7, <2>8 DEF Distinct, t
<1> QED BY <1>2, <1>3

-----------------------------------------------------------------------------
(* The inductive invariant                                                 *)

\* The events of a batch are of different descriptors, and what each reports
\* stays true until the server comes to it, or, for the one it is at, until
\* it has read.
Batch ==
  /\ pc # "wait" => events # <<>>
  /\ pc = "sleep" => Fd # Listen
  /\ \A i, j \in DOMAIN events : events[i][1] = events[j][1] => i = j
  /\ \A i \in DOMAIN events : events[i][1] # Listen =>
       /\ conn[events[i][1]] = "open"
       /\ events[i][2] = "IN" /\ ~(pc = "sleep" /\ i = 1) => Readable(events[i][1])

IInv == TypeOK /\ IsInjective(backlog) /\ Batch

\* What the types say of the sequences of the kernel and of the batch.
LEMMA TypeFacts ==
  ASSUME IInv
  PROVE  /\ rdllist \in Distinct(Fds) /\ backlog \in Distinct(Clients)
         /\ Listen \notin Clients
         /\ events \in Seq(Fds \X {"IN", "OUT"}) /\ DOMAIN events = 1 .. Len(events)
         /\ Len(events) \in Nat
BY EpollEchoAssumption, LenProperties DEF IInv, TypeOK, Distinct, Fds, EpollEchoAssumption

\* What the server is at while it handles a batch.
LEMMA FdFacts ==
  ASSUME IInv, pc # "wait"
  PROVE  /\ 1 \in DOMAIN events /\ Fd \in Fds /\ Len(events) >= 1
         /\ Fd # Listen => Fd \in Clients /\ conn[Fd] = "open"
<1>1. events # <<>>
  BY DEF IInv, Batch
<1>2. Len(events) \in Nat \ {0}
  BY <1>1, TypeFacts, EmptySeq
<1>3. 1 \in DOMAIN events /\ Len(events) >= 1
  BY <1>2, TypeFacts, SMTT(10)
<1>4. events[1] \in Fds \X {"IN", "OUT"}
  BY <1>3, TypeFacts, ElementOfSeq
<1>5. Fd \in Fds
  BY <1>4 DEF Fd
<1>6. Fd # Listen => Fd \in Clients /\ conn[Fd] = "open"
  BY <1>3, <1>5 DEF IInv, Batch, Fd, Fds
<1> QED BY <1>3, <1>5, <1>6

\* An edge keeps the ready list free of repetitions.
LEMMA EdgeDistinct ==
  ASSUME rdllist \in Distinct(Fds), NEW fd \in Fds
  PROVE  Edge(fd) \in Distinct(Fds)
BY AppendNew DEF Edge

\* Going to the next event.
LEMMA NextEventFacts ==
  ASSUME IInv, pc # "wait", NextEvent
  PROVE  /\ events' \in Seq(Fds \X {"IN", "OUT"}) /\ Len(events') <= MaxEvents
         /\ pc' \in {"wait", "handle"} /\ (pc' # "wait" => events' # <<>>)
         /\ \A i \in DOMAIN events' : i + 1 \in DOMAIN events /\ events'[i] = events[i + 1]
<1>1. events # <<>> /\ events' = Tail(events) /\ Len(events) <= MaxEvents
  BY DEF IInv, Batch, NextEvent, TypeOK
<1>2. /\ events' \in Seq(Fds \X {"IN", "OUT"}) /\ Len(events') = Len(events) - 1
      /\ \A i \in 1 .. Len(events') : events'[i] = events[i + 1]
  BY <1>1, TypeFacts, HeadTailProperties
<1>3. DOMAIN events' = 1 .. Len(events')
  BY <1>2, LenProperties
<1>4. MaxEvents \in Nat
  BY EpollEchoAssumption DEF EpollEchoAssumption
<1>5. \A i \in DOMAIN events' : i + 1 \in DOMAIN events
  BY <1>2, <1>3, TypeFacts, SMTT(10)
<1>6. pc' # "wait" => events' # <<>>
  <2>1. pc' # "wait" => Len(events') # 0
    BY <1>2, TypeFacts, SMTT(10) DEF NextEvent
  <2> QED BY <2>1, EmptySeq
<1>7. Len(events') <= MaxEvents
  BY <1>1, <1>2, <1>4, TypeFacts, SMTT(10)
<1> QED BY <1>2, <1>3, <1>5, <1>6, <1>7 DEF NextEvent

\* The other events of a batch stay true when the server goes to the next one
\* and has changed nothing but the connection it was at.
LEMMA BatchNext ==
  ASSUME IInv, pc # "wait", NextEvent,
         \A c \in Clients : c # Fd =>
           conn'[c] = conn[c] /\ inbox'[c] = inbox[c] /\ peer'[c] = peer[c]
  PROVE  Batch'
<1>1. /\ pc' \in {"wait", "handle"} /\ (pc' # "wait" => events' # <<>>)
      /\ \A i \in DOMAIN events' : i + 1 \in DOMAIN events /\ events'[i] = events[i + 1]
      /\ events' \in Seq(Fds \X {"IN", "OUT"})
  BY NextEventFacts
<1>2. DOMAIN events' \subseteq Nat \ {0}
  <2>1. DOMAIN events' = 1 .. Len(events')
    BY <1>1, LenProperties
  <2> QED BY <2>1, SMTT(10)
<1>3. \A i, j \in DOMAIN events' : events'[i][1] = events'[j][1] => i = j
  <2> TAKE i, j \in DOMAIN events'
  <2> HAVE events'[i][1] = events'[j][1]
  <2>1. i + 1 = j + 1
    BY <1>1 DEF IInv, Batch
  <2> QED BY <1>2, <2>1, SMTT(10)
<1>4. ASSUME NEW i \in DOMAIN events', events'[i][1] # Listen
      PROVE  /\ conn'[events'[i][1]] = "open"
             /\ events'[i][2] = "IN" => inbox'[events'[i][1]] # <<>> \/ peer'[events'[i][1]] # "up"
  <2> DEFINE c == events[i + 1][1]
  <2>1. events'[i] = events[i + 1] /\ i + 1 \in DOMAIN events
    BY <1>1
  <2>2. i + 1 # 1 /\ 1 \in DOMAIN events
    BY <1>2, FdFacts, SMTT(10)
  <2>3. c # Fd
    BY <2>1, <2>2 DEF IInv, Batch, Fd
  <2>4. c \in Clients
    BY <1>4, <2>1, TypeFacts, ElementOfSeq DEF Fds
  <2>5. conn[c] = "open" /\ (events[i + 1][2] = "IN" => Readable(c))
    BY <1>4, <2>1, <2>2 DEF IInv, Batch
  <2> QED BY <2>1, <2>3, <2>4, <2>5 DEF Readable
<1> QED BY <1>1, <1>3, <1>4 DEF Batch, Readable

\* Nor do they change when the world moves on, while the server is where it was.
LEMMA BatchSame ==
  ASSUME IInv, UNCHANGED <<pc, events>>,
         \A c \in Clients : conn[c] = "open" => conn'[c] = "open",
         \A c \in Clients : Readable(c) => Readable(c)'
  PROVE  Batch'
<1>1. \A i \in DOMAIN events : events[i][1] # Listen => events[i][1] \in Clients
  BY TypeFacts, ElementOfSeq DEF Fds
<1> QED BY <1>1 DEF IInv, Batch, Fd

-----------------------------------------------------------------------------
(* The steps                                                               *)

\* epoll_wait: a batch starts with events that are true, of different descriptors.
LEMMA EpollWaitStep == IInv /\ EpollWait => IInv'
<1> SUFFICES ASSUME IInv, EpollWait
             PROVE  IInv'
  OBVIOUS
<1>1. PICK k \in 1 .. Len(rdllist), m \in 1 .. MaxEvents :
        \E place \in Reported(m, k) :
          /\ events' = [i \in 1 .. m |-> EventOf(rdllist[place[i]])]
          /\ rdllist' = SubSeq(rdllist, k + 1, Len(rdllist))
  BY DEF EpollWait
<1>2. PICK place \in Reported(m, k) :
          /\ events' = [i \in 1 .. m |-> EventOf(rdllist[place[i]])]
          /\ rdllist' = SubSeq(rdllist, k + 1, Len(rdllist))
  BY <1>1
<1>3. MaxEvents \in Nat /\ Len(rdllist) \in Nat /\ DOMAIN rdllist = 1 .. Len(rdllist)
  BY EpollEchoAssumption, TypeFacts, LenProperties DEF EpollEchoAssumption, Distinct
<1>4. m \in Nat \ {0} /\ m <= MaxEvents
  BY <1>3, SMTT(10)
<1>5. /\ place \in [1 .. m -> 1 .. k]
      /\ \A i, j \in 1 .. m : i < j => place[i] < place[j]
      /\ \A i \in 1 .. m : Holds(rdllist[place[i]])
  BY DEF Reported, Range
<1>6. \A i \in 1 .. m : place[i] \in DOMAIN rdllist
  BY <1>3, <1>5, SMTT(10)
<1>7. \A i, j \in 1 .. m : place[i] = place[j] => i = j
  BY <1>3, <1>4, <1>5, SMTT(10)
<1>8. \A i, j \in 1 .. m : rdllist[place[i]] = rdllist[place[j]] => i = j
  BY <1>6, <1>7, TypeFacts DEF Distinct, IsInjective
<1>9. \A i \in 1 .. m : rdllist[place[i]] \in Fds
  BY <1>3, <1>6, TypeFacts, ElementOfSeq DEF Distinct
<1>10. \A i \in 1 .. m : EventOf(rdllist[place[i]]) \in Fds \X {"IN", "OUT"}
  BY <1>9 DEF EventOf, Fds, IInv, TypeOK
<1>11. /\ events' \in Seq(Fds \X {"IN", "OUT"}) /\ Len(events') = m
       /\ DOMAIN events' = 1 .. m /\ events' # <<>>
  <2>1. events' \in [1 .. m -> Fds \X {"IN", "OUT"}]
    BY <1>2, <1>10
  <2> QED BY <2>1, <1>4, SMTT(10)
<1>12. rdllist' \in Distinct(Fds)
  <2>1. k + 1 \in 1 .. Len(rdllist) + 1
    BY <1>3, SMTT(10)
  <2> QED BY <2>1, <1>2, PartDistinct, TypeFacts
<1>13. /\ pc' = "handle"
       /\ UNCHANGED <<conn, backlog, inbox, outbox, peer, interest, buf, n, errno, clients>>
  BY DEF EpollWait
<1>14. TypeOK' /\ IsInjective(backlog)'
  BY <1>4, <1>11, <1>12, <1>13 DEF IInv, TypeOK, Distinct, Fds, clients
<1>15. Batch'
  <2>1. \A i \in 1 .. m : events'[i] = EventOf(rdllist[place[i]])
    BY <1>2
  <2>2. \A i \in 1 .. m : events'[i][1] = rdllist[place[i]]
    BY <2>1 DEF EventOf
  <2>3. \A i, j \in DOMAIN events' : events'[i][1] = events'[j][1] => i = j
    BY <1>8, <1>11, <2>2
  <2>4. ASSUME NEW i \in DOMAIN events', events'[i][1] # Listen
        PROVE  conn[events'[i][1]] = "open" /\ (events'[i][2] = "IN" => Readable(events'[i][1]))
    <3>1. i \in 1 .. m /\ Holds(events'[i][1])
      BY <1>5, <1>11, <2>2
    <3>2. events'[i][2] = interest[events'[i][1]]
      BY <2>1, <2>2, <2>4, <3>1 DEF EventOf
    <3> QED BY <2>4, <3>1, <3>2 DEF Holds
  <2> QED BY <1>11, <1>13, <2>3, <2>4 DEF Batch, Readable
<1> QED BY <1>14, <1>15 DEF IInv

\* accept: the connection leaves the accept queue and is open.
LEMMA AcceptStep == IInv /\ pc # "wait" /\ Accept => IInv'
<1> SUFFICES ASSUME IInv, pc # "wait", Accept
             PROVE  IInv'
  OBVIOUS
<1> DEFINE c == Head(backlog)
<1>1. /\ backlog # <<>> /\ backlog' = Tail(backlog)
      /\ conn' = [conn EXCEPT ![c] = "open"]
      /\ interest' = [interest EXCEPT ![c] = "IN"]
      /\ rdllist' = IF Readable(c) THEN Edge(c) ELSE rdllist
      /\ UNCHANGED <<inbox, outbox, peer, server, clients>>
  BY DEF Accept
<1>2. /\ Tail(backlog) \in Distinct(Clients) /\ c \in Clients
      /\ \A y : Contains(Tail(backlog), y) <=> Contains(backlog, y) /\ y # c
  BY <1>1, TypeFacts, TailDistinct
<1> HIDE DEF c
<1>3. rdllist' \in Distinct(Fds)
  BY <1>1, <1>2, TypeFacts, EdgeDistinct DEF Fds
<1>4. \A d \in Clients : Contains(backlog', d) <=> conn'[d] = "pending"
  BY <1>1, <1>2 DEF IInv, TypeOK
<1>5. TypeOK' /\ IsInjective(backlog)'
  BY <1>1, <1>2, <1>3, <1>4 DEF IInv, TypeOK, Distinct, Fds, server, clients
<1>6. Batch'
  BY <1>1, <1>2, BatchSame DEF IInv, TypeOK, server, Readable
<1> QED BY <1>5, <1>6 DEF IInv

\* The accept queue is empty and the server goes on.
LEMMA AcceptDoneStep == IInv /\ pc # "wait" /\ AcceptDone => IInv'
<1> SUFFICES ASSUME IInv, pc # "wait", AcceptDone
             PROVE  IInv'
  OBVIOUS
<1>1. NextEvent /\ UNCHANGED <<kernel, buf, n, errno, clients>>
  BY DEF AcceptDone
<1>2. TypeOK' /\ IsInjective(backlog)'
  BY <1>1, NextEventFacts DEF IInv, TypeOK, kernel, clients, Fds
<1>3. Batch'
  BY <1>1, BatchNext DEF kernel
<1> QED BY <1>2, <1>3 DEF IInv

\* recv: only the connection it reads can cease to be readable, and the server is
\* past its event.
LEMMA RecvStep == IInv /\ Recv => IInv'
<1> SUFFICES ASSUME IInv, Recv
             PROVE  IInv'
  OBVIOUS
<1>1. /\ pc = "handle" /\ pc' = "sleep" /\ Fd # Listen
      /\ UNCHANGED <<conn, backlog, outbox, interest, rdllist, events, clients>>
  BY DEF Recv, IsIn
<1>2. Fd \in Clients /\ 1 \in DOMAIN events
  BY <1>1, FdFacts
<1>3. /\ inbox' \in [Clients -> Seq(Requests)] /\ buf' \in Seq(Requests)
      /\ n' \in -1 .. Len(buf') /\ errno' \in {"none", "ECONNRESET", "other"}
      /\ peer' \in [Clients -> {"up", "fin", "rst", "lost"}]
      /\ \A c \in Clients : c # Fd => inbox'[c] = inbox[c] /\ peer'[c] = peer[c]
  <2>1. CASE /\ inbox[Fd] # <<>>
             /\ buf' = inbox[Fd] /\ n' = Len(inbox[Fd])
             /\ inbox' = [inbox EXCEPT ![Fd] = <<>>]
             /\ UNCHANGED <<peer, errno>>
    <3>1. inbox[Fd] \in Seq(Requests) /\ Len(inbox[Fd]) \in Nat
      BY <1>2, LenProperties DEF IInv, TypeOK
    <3>2. <<>> \in Seq(Requests)
      BY EmptySeq
    <3>3. n' \in -1 .. Len(buf')
      BY <2>1, <3>1, SMTT(10)
    <3> QED BY <1>2, <2>1, <3>1, <3>2, <3>3 DEF IInv, TypeOK
  <2>2. CASE n' = 0 /\ UNCHANGED <<inbox, peer, buf, errno>>
    <3>1. buf \in Seq(Requests) /\ Len(buf) \in Nat
      BY LenProperties DEF IInv, TypeOK
    <3>2. n' \in -1 .. Len(buf')
      BY <2>2, <3>1, SMTT(10)
    <3> QED BY <2>2, <3>2 DEF IInv, TypeOK
  <2>3. CASE /\ n' = -1 /\ errno' \in {"ECONNRESET", "other"}
             /\ peer' = [peer EXCEPT ![Fd] = "lost"]
             /\ UNCHANGED <<inbox, buf>>
    <3>1. buf \in Seq(Requests) /\ Len(buf) \in Nat
      BY LenProperties DEF IInv, TypeOK
    <3>2. n' \in -1 .. Len(buf')
      BY <2>3, <3>1, SMTT(10)
    <3> QED BY <1>2, <2>3, <3>2 DEF IInv, TypeOK
  <2> QED BY <2>1, <2>2, <2>3 DEF Recv
<1>4. TypeOK' /\ IsInjective(backlog)'
  BY <1>1, <1>3 DEF IInv, TypeOK, clients
<1>5. Batch'
  <2>1. ASSUME NEW i \in DOMAIN events, events[i][1] # Listen, i # 1, events[i][2] = "IN"
        PROVE  Readable(events[i][1])'
    <3>1. events[i][1] \in Clients
      BY <2>1, TypeFacts, ElementOfSeq DEF Fds
    <3>2. events[i][1] # Fd
      BY <1>2, <2>1 DEF IInv, Batch, Fd
    <3>3. Readable(events[i][1])
      BY <1>1, <2>1 DEF IInv, Batch
    <3> QED BY <1>1, <1>3, <3>1, <3>2, <3>3 DEF Readable
  <2> QED BY <1>1, <2>1 DEF IInv, Batch, Fd, Readable
<1> QED BY <1>4, <1>5 DEF IInv

\* close: no other event of the batch is of the descriptor closed.
LEMMA CloseFdStep == IInv /\ CloseFd => IInv'
<1> SUFFICES ASSUME IInv, CloseFd
             PROVE  IInv'
  OBVIOUS
<1>1. /\ pc = "sleep" /\ NextEvent
      /\ conn' = [conn EXCEPT ![Fd] = "closed"]
      /\ rdllist' = RemoveFirst(rdllist, Fd)
      /\ UNCHANGED <<backlog, inbox, outbox, peer, interest, buf, n, errno, clients>>
  BY DEF CloseFd
<1>2. Fd \in Clients /\ conn[Fd] = "open"
  BY <1>1, FdFacts DEF IInv, Batch
<1>3. rdllist' \in Distinct(Fds)
  BY <1>1, TypeFacts, RemoveFirstDistinct
<1>4. \A d \in Clients : conn'[d] = "pending" <=> conn[d] = "pending"
  BY <1>1, <1>2 DEF IInv, TypeOK
<1>5. TypeOK' /\ IsInjective(backlog)'
  BY <1>1, <1>3, <1>4, NextEventFacts DEF IInv, TypeOK, Distinct, Fds, clients
<1>6. Batch'
  BY <1>1, <1>2, BatchNext DEF IInv, TypeOK
<1> QED BY <1>5, <1>6 DEF IInv

\* An error other than ECONNRESET: nothing but the event is gone.
LEMMA SorryStep == IInv /\ Sorry => IInv'
<1> SUFFICES ASSUME IInv, Sorry
             PROVE  IInv'
  OBVIOUS
<1>1. pc = "sleep" /\ NextEvent /\ UNCHANGED <<kernel, buf, n, errno, clients>>
  BY DEF Sorry
<1>2. TypeOK' /\ IsInjective(backlog)'
  BY <1>1, NextEventFacts DEF IInv, TypeOK, kernel, clients, Fds
<1>3. Batch'
  BY <1>1, BatchNext DEF kernel
<1> QED BY <1>2, <1>3 DEF IInv

\* A registration for the other kind of event, with what is done beside it.
LEMMA ModStep ==
  ASSUME IInv, pc # "wait", Fd # Listen, NEW event \in {"IN", "OUT"}, EpollMod(Fd, event),
         NextEvent, UNCHANGED <<conn, backlog, inbox, peer, buf, n, errno, clients>>,
         outbox' \in [Clients -> Seq(Requests)]
  PROVE  IInv'
<1>1. Fd \in Clients
  BY FdFacts
<1>2. rdllist' \in Distinct(Fds) /\ interest' \in [Clients -> {"IN", "OUT"}]
  BY <1>1, TypeFacts, EdgeDistinct DEF EpollMod, Fds, IInv, TypeOK
<1>3. TypeOK' /\ IsInjective(backlog)'
  BY <1>2, NextEventFacts DEF IInv, TypeOK, Distinct, Fds, clients
<1>4. Batch'
  BY BatchNext
<1> QED BY <1>3, <1>4 DEF IInv

\* After a recv that returned something: registered for EPOLLOUT.
LEMMA ArmOutStep == IInv /\ ArmOut => IInv'
BY ModStep DEF ArmOut, IInv, TypeOK, Batch

\* write: what is sent are requests, as n is never above what is in buf.
LEMMA WriteStep == IInv /\ Write => IInv'
<1> SUFFICES ASSUME IInv, Write
             PROVE  IInv'
  OBVIOUS
<1>1. Fd \in Clients /\ pc = "handle" /\ Fd # Listen
  BY FdFacts DEF Write
<1>2. Written \in Seq(Requests)
  <2>1. buf \in Seq(Requests) /\ n \in -1 .. Len(buf) /\ Len(buf) \in Nat
    BY LenProperties DEF IInv, TypeOK
  <2>2. n \in Int /\ \A i \in 1 .. n : i \in 1 .. Len(buf)
    BY <2>1, SMTT(10)
  <2>3. \A i \in 1 .. n : buf[i] \in Requests
    BY <2>1, <2>2, ElementOfSeq
  <2> QED BY <2>2, <2>3, SubSeqProperties DEF Written
<1>3. outbox[Fd] \o Written \in Seq(Requests)
  BY <1>1, <1>2, ConcatProperties DEF IInv, TypeOK
<1>4. outbox' \in [Clients -> Seq(Requests)]
  BY <1>1, <1>3 DEF Write, IInv, TypeOK
<1> QED BY <1>1, <1>4, ModStep DEF Write

\* A client takes nothing away that the server was told of.
LEMMA ClientStep == ASSUME IInv, NEW c \in Clients, Client(c) PROVE IInv'
<1>1. CASE Connect(c)
  <2>1. /\ conn[c] = "none" /\ conn' = [conn EXCEPT ![c] = "pending"]
        /\ backlog' = Append(backlog, c) /\ rdllist' = Edge(Listen)
        /\ UNCHANGED <<inbox, outbox, peer, interest, server, clients>>
    BY <1>1 DEF Connect
  <2>2. ~Contains(backlog, c)
    BY <2>1 DEF IInv, TypeOK
  <2>3. /\ backlog' \in Distinct(Clients)
        /\ \A y : Contains(backlog', y) <=> y = c \/ Contains(backlog, y)
    BY <2>1, <2>2, TypeFacts, AppendNew
  <2>4. rdllist' \in Distinct(Fds)
    BY <2>1, TypeFacts, EdgeDistinct DEF Fds
  <2>5. \A d \in Clients : Contains(backlog', d) <=> conn'[d] = "pending"
    BY <2>1, <2>3 DEF IInv, TypeOK
  <2>6. TypeOK' /\ IsInjective(backlog)'
    BY <2>1, <2>3, <2>4, <2>5 DEF IInv, TypeOK, Distinct, Fds, server, clients
  <2>7. Batch'
    BY <2>1, BatchSame DEF IInv, TypeOK, server, Readable
  <2> QED BY <2>6, <2>7 DEF IInv
<1>2. CASE Send(c)
  <2>1. /\ sent[c] < MaxSends /\ sent' = [sent EXCEPT ![c] = @ + 1]
        /\ inbox' = [inbox EXCEPT ![c] = Append(@, <<c, sent[c] + 1>>)]
        /\ at' = [at EXCEPT ![c] = "recv"] /\ Arrives(c)
        /\ UNCHANGED <<conn, backlog, outbox, peer, interest, server, got>>
    BY <1>2 DEF Send
  <2>2. sent[c] + 1 \in 1 .. MaxSends /\ sent[c] + 1 \in 0 .. MaxSends
    BY <2>1, EpollEchoAssumption, SMTT(10) DEF IInv, TypeOK, EpollEchoAssumption
  <2>3. <<c, sent[c] + 1>> \in Requests /\ inbox[c] \in Seq(Requests)
    BY <2>2 DEF Requests, IInv, TypeOK
  <2>4. /\ Append(inbox[c], <<c, sent[c] + 1>>) \in Seq(Requests)
        /\ Append(inbox[c], <<c, sent[c] + 1>>) # <<>>
    BY <2>3, AppendProperties, EmptySeq
  <2>5. rdllist' \in Distinct(Fds)
    BY <2>1, TypeFacts, EdgeDistinct DEF Arrives, Fds
  <2>6. TypeOK' /\ IsInjective(backlog)'
    BY <2>1, <2>2, <2>4, <2>5 DEF IInv, TypeOK, Distinct, Fds, server
  <2>7. \A d \in Clients : Readable(d) => Readable(d)'
    BY <2>1, <2>4 DEF Readable, IInv, TypeOK
  <2>8. Batch'
    BY <2>1, <2>7, BatchSame DEF server
  <2> QED BY <2>6, <2>8 DEF IInv
<1>3. CASE Receive(c)
  <2>1. /\ got' = [got EXCEPT ![c] = @ \o outbox[c]]
        /\ outbox' = [outbox EXCEPT ![c] = <<>>] /\ at' = [at EXCEPT ![c] = "send"]
        /\ UNCHANGED <<conn, backlog, inbox, peer, interest, rdllist, server, sent>>
    BY <1>3 DEF Receive
  <2>2. got[c] \o outbox[c] \in Seq(Requests) /\ <<>> \in Seq(Requests)
    BY ConcatProperties, EmptySeq DEF IInv, TypeOK
  <2>3. TypeOK' /\ IsInjective(backlog)'
    BY <2>1, <2>2 DEF IInv, TypeOK, server
  <2>4. Batch'
    BY <2>1, BatchSame DEF server, Readable
  <2> QED BY <2>3, <2>4 DEF IInv
<1>4. CASE Exit(c)
  <2>1. /\ at' = [at EXCEPT ![c] = "gone"]
        /\ peer' = [peer EXCEPT ![c] = IF outbox[c] = <<>> THEN "fin" ELSE "rst"]
        /\ outbox' = [outbox EXCEPT ![c] = <<>>] /\ Arrives(c)
        /\ UNCHANGED <<conn, backlog, inbox, interest, server, sent, got>>
    BY <1>4 DEF Exit
  <2>2. rdllist' \in Distinct(Fds)
    BY <2>1, TypeFacts, EdgeDistinct DEF Arrives, Fds
  <2>3. <<>> \in Seq(Requests)
    BY EmptySeq
  <2>4. TypeOK' /\ IsInjective(backlog)'
    BY <2>1, <2>2, <2>3 DEF IInv, TypeOK, Distinct, Fds, server
  <2>5. \A d \in Clients : Readable(d) => Readable(d)'
    BY <2>1 DEF Readable, IInv, TypeOK
  <2>6. Batch'
    BY <2>1, <2>5, BatchSame DEF server
  <2> QED BY <2>4, <2>6 DEF IInv
<1> QED BY <1>1, <1>2, <1>3, <1>4 DEF Client

-----------------------------------------------------------------------------
(* Types, and that recv returns at once                                    *)

\* Nothing is connected at the start.
LEMMA Initial == Init => IInv
<1> SUFFICES ASSUME Init
             PROVE  IInv
  OBVIOUS
<1>1. \A S : <<>> \in Seq(S) /\ Len(<<>>) = 0
  BY EmptySeq
<1>2. IsInjective(<<>>)
  BY SMTT(10) DEF IsInjective
<1>3. \A c : ~Contains(<<>>, c)
  BY <1>1, SMTT(10) DEF Contains
<1>4. MaxSends \in Nat /\ MaxEvents \in Nat \ {0}
  BY EpollEchoAssumption DEF EpollEchoAssumption
<1>5. 0 \in -1 .. 0 /\ 0 \in 0 .. MaxSends /\ 0 <= MaxEvents
  BY <1>4, SMTT(10)
<1>6. TypeOK
  BY <1>1, <1>2, <1>3, <1>5 DEF Init, TypeOK
<1>7. DOMAIN <<>> = {}
  BY SMTT(10)
<1> QED BY <1>2, <1>6, <1>7 DEF IInv, Init, Batch

\* Every step of the server and of a client keeps the invariant.
LEMMA Inductive == IInv /\ [Next]_vars => IInv'
<1> SUFFICES ASSUME IInv, [Next]_vars
             PROVE  IInv'
  OBVIOUS
<1>1. CASE Server
  BY <1>1, EpollWaitStep, AcceptStep, AcceptDoneStep, RecvStep, CloseFdStep, SorryStep,
     ArmOutStep, WriteStep DEF Server
<1>2. CASE \E c \in Clients : Client(c)
  BY <1>2, ClientStep
<1>3. CASE UNCHANGED vars
  BY <1>3 DEF vars, kernel, server, clients, IInv, TypeOK, Batch, Fd, Readable
<1> QED BY <1>1, <1>2, <1>3 DEF Next

\* epoll_eg.c: every variable of the server, the kernel and the clients keeps its
\* type: the ready list and the accept queue name no descriptor twice, and n is
\* never more than what is in buf.
THEOREM TypeCorrect == Spec => []TypeOK
<1>1. IInv => TypeOK
  BY DEF IInv
<1> QED BY <1>1, Initial, Inductive, PTL DEF Spec

\* epoll_eg.c:126: however clients come, send and die, recv is called only when
\* it returns at once, and no event of a batch is for a connection closed.
THEOREM RecvNeverBlocks == Spec => []NeverBlocks
<1>1. IInv => NeverBlocks
  <2> SUFFICES ASSUME IInv
               PROVE  NeverBlocks
    OBVIOUS
  <2>1. (pc = "handle" /\ IsIn) => (conn[Fd] = "open" /\ Readable(Fd))
    BY FdFacts DEF IInv, Batch, IsIn, Fd
  <2>2. pc # "wait" => \A i \in DOMAIN events :
          events[i][1] # Listen => conn[events[i][1]] = "open"
    BY DEF IInv, Batch
  <2> QED BY <2>1, <2>2 DEF NeverBlocks
<1> QED BY <1>1, Initial, Inductive, PTL DEF Spec

-----------------------------------------------------------------------------
(* The replies                                                             *)

\* The server is between recv and arming EPOLLOUT for c.
Reading(c) == pc = "sleep" /\ Fd = c /\ n > 0

\* The last request of c is on its way, read, or about to be answered.
Owes(c) == inbox[c] # <<>> \/ Reading(c) \/ interest[c] = "OUT"

\* What a batch reports is what the descriptor is registered for.
Agree ==
  /\ \A i \in DOMAIN events : events[i][1] # Listen => interest[events[i][1]] = events[i][2]
  /\ pc = "sleep" => events[1][2] = "IN"

\* buf holds one request that was sent.
Buffer ==
  /\ buf \in Seq(Requests) /\ Len(buf) <= 1
  /\ buf # <<>> => buf[1][2] <= sent[buf[1][1]]

\* A client has one request under way at most, at one place.
Turn(c) ==
  /\ conn[c] = "none" => at[c] = "send" /\ sent[c] = 0 /\ got[c] = <<>>
  /\ at[c] = "send" => ~Owes(c)
  /\ at[c] # "recv" => outbox[c] = <<>>
  /\ at[c] = "gone" <=> peer[c] # "up"
  /\ Owes(c) => outbox[c] = <<>>
  /\ inbox[c] # <<>> => ~Reading(c) /\ interest[c] = "IN" /\ inbox[c] = <<<<c, sent[c]>>>>
  /\ Reading(c) => n = 1 /\ buf = <<<<c, sent[c]>>>>
  /\ interest[c] = "OUT" => conn[c] = "open" /\ (buf # <<>> /\ buf[1][1] = c => buf[1][2] = sent[c])

\* The replies in R to c are requests somebody sent, c's own in order, and as
\* long as one is due to c its last request is not among them.
Fine(c, R) ==
  /\ R \in Seq(Requests) /\ Len(R) + (IF Owes(c) THEN 1 ELSE 0) <= sent[c]
  /\ \A i \in 1 .. Len(R) : R[i][2] <= sent[R[i][1]]
  /\ \A i \in 1 .. Len(R) : R[i][1] = c /\ Owes(c) => R[i][2] < sent[c]
  /\ \A i, j \in 1 .. Len(R) : i < j /\ R[i][1] = c /\ R[j][1] = c => R[i][2] < R[j][2]

Alone(c) == conn[c] # "none" /\ \A d \in Clients : d # c => conn[d] = "none"

\* Alone, c gets its requests back, each once and in order, while it is there.
Own(c, R) ==
  Alone(c) =>
    /\ \A i \in 1 .. Len(R) : R[i] = <<c, i>>
    /\ at[c] # "gone" => Len(R) + (IF Owes(c) THEN 1 ELSE 0) = sent[c]
    /\ interest[c] = "OUT" => n = 1 /\ buf = <<<<c, sent[c]>>>>

RInv ==
  /\ IInv /\ Agree /\ Buffer
  /\ \A c \in Clients : Turn(c) /\ Fine(c, Replies(c)) /\ Own(c, Replies(c))

\* The types of what a client has.
LEMMA ClientTypes ==
  ASSUME IInv
  PROVE  /\ \A c \in Clients : /\ sent[c] \in 0 .. MaxSends /\ sent[c] \in Nat /\ got[c] \in Seq(Requests)
                               /\ outbox[c] \in Seq(Requests) /\ inbox[c] \in Seq(Requests)
                               /\ interest[c] \in {"IN", "OUT"} /\ at[c] \in {"send", "recv", "gone"}
                               /\ Len(got[c]) \in Nat /\ Len(outbox[c]) \in Nat
         /\ n \in Int /\ pc \in {"wait", "handle", "sleep"}
         /\ \A m \in Requests : m[1] \in Clients /\ m[2] \in Nat
<1>1. MaxSends \in Nat
  BY EpollEchoAssumption DEF EpollEchoAssumption
<1>2. 0 .. MaxSends \subseteq Nat /\ 1 .. MaxSends \subseteq Nat
  BY <1>1, SMTT(10)
<1>3. n \in Int
  <2>1. Len(buf) \in Nat
    BY LenProperties DEF IInv, TypeOK
  <2> QED BY <2>1, SMTT(10) DEF IInv, TypeOK
<1>4. \A c \in Clients : Len(got[c]) \in Nat /\ Len(outbox[c]) \in Nat
  BY LenProperties DEF IInv, TypeOK
<1> QED BY <1>2, <1>3, <1>4 DEF IInv, TypeOK, Requests

\* A client that a step does not touch.
LEMMA Untouched ==
  ASSUME IInv, NEW d \in Clients, Turn(d), Fine(d, Replies(d)), Own(d, Replies(d)),
         at'[d] = at[d], inbox'[d] = inbox[d], outbox'[d] = outbox[d], got'[d] = got[d], sent'[d] = sent[d],
         peer'[d] = peer[d], interest'[d] = interest[d], conn'[d] = "none" => conn[d] = "none",
         interest[d] = "OUT" => conn'[d] = conn[d],
         Reading(d)' <=> Reading(d), Reading(d) \/ Alone(d)' => buf' = buf /\ n' = n, Alone(d)' => Alone(d),
         buf' = buf \/ buf' = <<>> \/ buf'[1][1] # d,
         \A x \in Clients : sent[x] <= sent'[x] /\ sent'[x] \in Nat
  PROVE  Turn(d)' /\ Fine(d, Replies(d))' /\ Own(d, Replies(d))'
<1>1. Replies(d)' = Replies(d) /\ (Owes(d)' <=> Owes(d))
  BY DEF Replies, Owes
<1>2. Turn(d)'
  BY <1>1 DEF Turn
<1>3. PICK R : R = Replies(d)
  OBVIOUS
<1>4. Fine(d, R)'
  <2>1. R \in Seq(Requests) /\ Len(R) \in Nat /\ Fine(d, R)
    BY <1>3, LenProperties DEF Fine
  <2>2. ASSUME NEW i \in 1 .. Len(R)
        PROVE  R[i][2] <= sent'[R[i][1]]
    <3>1. R[i][1] \in Clients /\ R[i][2] \in Nat /\ R[i][2] <= sent[R[i][1]]
      BY <2>1, ElementOfSeq, ClientTypes DEF Fine
    <3>2. sent[R[i][1]] <= sent'[R[i][1]] /\ sent[R[i][1]] \in Nat /\ sent'[R[i][1]] \in Nat
      BY <3>1, ClientTypes
    <3> QED BY <3>1, <3>2, SMTT(10)
  <2> QED BY <1>1, <2>1, <2>2 DEF Fine
<1>5. Own(d, R)'
  BY <1>1, <1>3 DEF Own
<1> QED BY <1>1, <1>2, <1>3, <1>4, <1>5 DEF Fine, Own

\* What Untouched asks of a client and keeps.
Held(c) == Turn(c) /\ Fine(c, Replies(c)) /\ Own(c, Replies(c))

\* What the event of the server says of its connection.
LEMMA FdEvent ==
  ASSUME RInv, pc # "wait", Fd # Listen
  PROVE  /\ Fd \in Clients /\ conn[Fd] = "open" /\ Held(Fd)
         /\ events[1][2] = interest[Fd] /\ (pc = "sleep" => interest[Fd] = "IN")
         /\ \A d \in Clients : d # Fd => ~Alone(d)
<1>1. IInv /\ Agree
  BY DEF RInv
<1>2. Fd \in Clients /\ conn[Fd] = "open" /\ 1 \in DOMAIN events
  BY <1>1, FdFacts
<1>3. events[1][2] = interest[Fd] /\ (pc = "sleep" => interest[Fd] = "IN")
  BY <1>1, <1>2 DEF Agree, Fd
<1>4. Held(Fd)
  BY <1>2 DEF RInv, Held
<1>5. \A d \in Clients : d # Fd => ~Alone(d)
  BY <1>2 DEF Alone
<1> QED BY <1>2, <1>3, <1>4, <1>5

\* The batch still says what the descriptors are registered for when the server
\* goes to the next event and has registered nothing but the one it was at.
LEMMA AgreeNext ==
  ASSUME IInv, Agree, pc # "wait", NextEvent,
         \A d \in Clients : d # Fd => interest'[d] = interest[d]
  PROVE  Agree'
<1>1. /\ pc' \in {"wait", "handle"}
      /\ \A i \in DOMAIN events' : i + 1 \in DOMAIN events /\ events'[i] = events[i + 1]
      /\ events' \in Seq(Fds \X {"IN", "OUT"})
  BY NextEventFacts
<1>2. DOMAIN events' \subseteq Nat \ {0}
  <2>1. DOMAIN events' = 1 .. Len(events')
    BY <1>1, LenProperties
  <2> QED BY <2>1, SMTT(10)
<1>3. ASSUME NEW i \in DOMAIN events', events'[i][1] # Listen
      PROVE  interest'[events'[i][1]] = events'[i][2]
  <2>1. events'[i] = events[i + 1] /\ i + 1 \in DOMAIN events
    BY <1>1
  <2>2. i + 1 # 1 /\ 1 \in DOMAIN events
    BY <1>2, FdFacts, SMTT(10)
  <2>3. events[i + 1][1] # Fd
    BY <2>1, <2>2 DEF IInv, Batch, Fd
  <2>4. events[i + 1][1] \in Clients
    BY <1>3, <2>1, TypeFacts, ElementOfSeq DEF Fds
  <2>5. interest[events[i + 1][1]] = events[i + 1][2]
    BY <1>3, <2>1 DEF Agree
  <2> QED BY <2>1, <2>3, <2>4, <2>5
<1> QED BY <1>1, <1>3 DEF Agree

\* Nor does it say anything else while the server is where it was and no open
\* connection is registered anew.
LEMMA AgreeSame ==
  ASSUME IInv, Agree, UNCHANGED <<pc, events>>,
         \A d \in Clients : conn[d] = "open" => interest'[d] = interest[d]
  PROVE  Agree'
<1>1. \A i \in DOMAIN events : events[i][1] # Listen =>
        events[i][1] \in Clients /\ conn[events[i][1]] = "open"
  BY TypeFacts, ElementOfSeq DEF Fds, IInv, Batch
<1> QED BY <1>1 DEF Agree

\* What a client was sent.
LEMMA RepliesFacts ==
  ASSUME IInv, NEW c \in Clients
  PROVE  /\ Replies(c) \in Seq(Requests) /\ Len(Replies(c)) = Len(got[c]) + Len(outbox[c])
         /\ \A i \in 1 .. Len(got[c]) : Replies(c)[i] = got[c][i]
         /\ outbox[c] = <<>> => Replies(c) = got[c]
<1>1. PICK g, o : g = got[c] /\ o = outbox[c]
  OBVIOUS
<1>2. g \in Seq(Requests) /\ o \in Seq(Requests) /\ Len(g) \in Nat /\ Len(o) \in Nat
  BY <1>1, ClientTypes
<1>3. /\ g \o o \in Seq(Requests) /\ Len(g \o o) = Len(g) + Len(o)
      /\ \A i \in 1 .. Len(g) + Len(o) : (g \o o)[i] = IF i <= Len(g) THEN g[i] ELSE o[i - Len(g)]
  BY <1>2, ConcatProperties
<1>4. \A i \in 1 .. Len(g) : (g \o o)[i] = g[i]
  BY <1>2, <1>3, SMTT(10)
<1>5. o = <<>> => g \o o = g
  BY <1>2, ConcatEmptySeq
<1> QED BY <1>1, <1>3, <1>4, <1>5 DEF Replies

\* The clients, where a step changes neither what they have nor buf and n.
LEMMA AllUntouched ==
  ASSUME RInv, UNCHANGED <<at, inbox, outbox, got, sent, peer, interest, buf, n>>,
         \A d \in Clients : /\ conn'[d] = "none" <=> conn[d] = "none"
                            /\ interest[d] = "OUT" => conn'[d] = conn[d]
                            /\ ~Reading(d) /\ ~Reading(d)'
  PROVE  Buffer' /\ \A d \in Clients : Held(d)'
<1>1. IInv
  BY DEF RInv
<1>2. \A x \in Clients : sent[x] <= sent'[x] /\ sent'[x] \in Nat
  <2>1. \A x \in Clients : sent[x] \in Nat /\ sent'[x] = sent[x]
    BY <1>1, ClientTypes
  <2> QED BY <2>1, SMTT(10)
<1>3. ASSUME NEW d \in Clients
      PROVE  Held(d)'
  <2>1. Alone(d)' => Alone(d)
    BY DEF Alone
  <2>2. Turn(d) /\ Fine(d, Replies(d)) /\ Own(d, Replies(d))
    BY DEF RInv
  <2> QED BY <1>1, <1>2, <2>1, <2>2, Untouched DEF Held
<1>4. Buffer'
  BY DEF RInv, Buffer
<1> QED BY <1>3, <1>4

\* epoll_wait: the batch says what the descriptors are registered for.
LEMMA EpollWaitReplies == RInv /\ EpollWait => (Agree /\ Buffer)' /\ \A d \in Clients : Held(d)'
<1> SUFFICES ASSUME RInv, EpollWait
             PROVE  (Agree /\ Buffer)' /\ \A d \in Clients : Held(d)'
  OBVIOUS
<1>1. /\ pc = "wait" /\ pc' = "handle"
      /\ UNCHANGED <<conn, backlog, inbox, outbox, peer, interest, buf, n, errno, at, sent, got>>
  BY DEF EpollWait, clients
<1>2. Buffer' /\ \A d \in Clients : Held(d)'
  <2>1. \A d \in Clients : ~Reading(d) /\ ~Reading(d)'
    BY <1>1 DEF Reading
  <2>2. \A d \in Clients : interest[d] = "OUT" => conn'[d] = conn[d]
    BY <1>1
  <2>3. \A d \in Clients : conn'[d] = "none" <=> conn[d] = "none"
    BY <1>1
  <2> QED BY <1>1, <2>1, <2>2, <2>3, AllUntouched
<1>3. PICK m, place : events' = [i \in 1 .. m |-> EventOf(rdllist[place[i]])]
  BY DEF EpollWait
<1>4. Agree'
  <2>1. \A i \in DOMAIN events' : events'[i] = EventOf(rdllist[place[i]])
    BY <1>3
  <2> QED BY <1>1, <2>1 DEF Agree, EventOf
<1> QED BY <1>2, <1>4

\* accept: a connection is registered for EPOLLIN, as it was.
LEMMA AcceptReplies == RInv /\ Accept => (Agree /\ Buffer)' /\ \A d \in Clients : Held(d)'
<1> SUFFICES ASSUME RInv, Accept
             PROVE  (Agree /\ Buffer)' /\ \A d \in Clients : Held(d)'
  OBVIOUS
<1>1. PICK c : c = Head(backlog)
  OBVIOUS
<1>2. /\ pc = "handle" /\ backlog # <<>> /\ conn' = [conn EXCEPT ![c] = "open"]
      /\ interest' = [interest EXCEPT ![c] = "IN"]
      /\ UNCHANGED <<inbox, outbox, peer, pc, events, buf, n, errno, at, sent, got>>
  BY <1>1 DEF Accept, server, clients
<1>3. IInv
  BY DEF RInv
<1>4. c \in Clients /\ conn[c] = "pending"
  <2>1. c \in Clients /\ ~Contains(Tail(backlog), c)
    BY <1>1, <1>2, <1>3, TypeFacts, TailDistinct
  <2>2. Contains(backlog, c)
    <3>1. Len(backlog) \in Nat \ {0} /\ c = backlog[1]
      BY <1>1, <1>2, <1>3, TypeFacts, EmptySeq, LenProperties, HeadTailProperties DEF Distinct
    <3>2. 1 \in 1 .. Len(backlog)
      BY <3>1, SMTT(10)
    <3> QED BY <3>1, <3>2 DEF Contains
  <2> QED BY <1>3, <2>1, <2>2 DEF IInv, TypeOK
<1>5. interest[c] = "IN"
  <2>1. interest[c] # "OUT"
    BY <1>4 DEF RInv, Turn
  <2> QED BY <2>1, <1>3, <1>4, ClientTypes
<1>6. interest' = interest
  BY <1>2, <1>3, <1>4, <1>5 DEF IInv, TypeOK
<1>7. \A d \in Clients : conn'[d] = IF d = c THEN "open" ELSE conn[d]
  BY <1>2, <1>3 DEF IInv, TypeOK
<1>8. Buffer' /\ \A d \in Clients : Held(d)'
  <2>1. \A d \in Clients : ~Reading(d) /\ ~Reading(d)'
    BY <1>2 DEF Reading
  <2>2. \A d \in Clients : interest[d] = "OUT" => conn'[d] = conn[d]
    BY <1>5, <1>7
  <2>3. \A d \in Clients : conn'[d] = "none" <=> conn[d] = "none"
    BY <1>4, <1>7
  <2> QED BY <1>2, <1>6, <2>1, <2>2, <2>3, AllUntouched
<1>9. Agree'
  BY <1>2, <1>3, <1>6, AgreeSame DEF RInv
<1> QED BY <1>8, <1>9

\* The accept queue is empty, or after an error or the end of a stream: nothing
\* is read, nothing written, and who is closed is registered for EPOLLIN.
LEMMA NothingReplies ==
  RInv /\ (AcceptDone \/ CloseFd \/ Sorry) => (Agree /\ Buffer)' /\ \A d \in Clients : Held(d)'
<1> SUFFICES ASSUME RInv, AcceptDone \/ CloseFd \/ Sorry
             PROVE  (Agree /\ Buffer)' /\ \A d \in Clients : Held(d)'
  OBVIOUS
<1>1. /\ pc # "wait" /\ NextEvent
      /\ UNCHANGED <<inbox, outbox, peer, interest, buf, n, errno, at, sent, got>>
  BY Zenon DEF AcceptDone, CloseFd, Sorry, kernel, clients
<1>2. IInv
  BY DEF RInv
<1>3. n \in Int
  BY <1>2, ClientTypes
<1>4. pc = "sleep" => ~(n > 0)
  <2>1. pc = "sleep" => n = 0 \/ n < 0
    BY DEF AcceptDone, CloseFd, Sorry
  <2> QED BY <1>3, <2>1, SMTT(10)
<1>5. \/ UNCHANGED conn
      \/ pc = "sleep" /\ conn' = [conn EXCEPT ![Fd] = "closed"]
  BY DEF AcceptDone, CloseFd, Sorry, kernel
<1>6. \A d \in Clients : /\ conn'[d] = "none" <=> conn[d] = "none"
                         /\ interest[d] = "OUT" => conn'[d] = conn[d]
  <2>1. CASE UNCHANGED conn
    BY <2>1
  <2>2. CASE pc = "sleep" /\ conn' = [conn EXCEPT ![Fd] = "closed"]
    <3>1. Fd # Listen
      BY <1>2, <2>2 DEF IInv, Batch
    <3>2. Fd \in Clients /\ conn[Fd] = "open" /\ interest[Fd] = "IN"
      BY <2>2, <3>1, FdEvent
    <3>3. \A d \in Clients : conn'[d] = IF d = Fd THEN "closed" ELSE conn[d]
      BY <1>2, <2>2 DEF IInv, TypeOK
    <3> QED BY <3>2, <3>3
  <2> QED BY <1>5, <2>1, <2>2
<1>7. \A d \in Clients : ~Reading(d) /\ ~Reading(d)'
  <2>1. pc' # "sleep"
    BY <1>1 DEF NextEvent
  <2> QED BY <1>4, <2>1 DEF Reading
<1>8. Buffer' /\ \A d \in Clients : Held(d)'
  BY <1>1, <1>6, <1>7, AllUntouched
<1>9. Agree'
  BY <1>1, <1>2, AgreeNext DEF RInv
<1> QED BY <1>8, <1>9

\* A client other than the one the server is at, when the server reads or writes.
LEMMA OthersUntouched ==
  ASSUME RInv, pc # "wait", Fd # Listen, NEW d \in Clients, d # Fd,
         UNCHANGED <<conn, at, got, sent>>,
         inbox'[d] = inbox[d], outbox'[d] = outbox[d], peer'[d] = peer[d], interest'[d] = interest[d],
         pc' # "sleep" \/ Fd' = Fd, buf' = buf \/ buf' = <<>> \/ buf'[1][1] # d
  PROVE  Held(d)'
<1>1. IInv /\ Turn(d) /\ Fine(d, Replies(d)) /\ Own(d, Replies(d))
  BY DEF RInv
<1>2. ~Reading(d) /\ ~Reading(d)'
  BY DEF Reading
<1>3. ~Alone(d)'
  <2>1. Fd \in Clients /\ conn[Fd] = "open"
    BY FdEvent
  <2> QED BY <2>1 DEF Alone
<1>4. \A x \in Clients : sent[x] <= sent'[x] /\ sent'[x] \in Nat
  <2>1. \A x \in Clients : sent[x] \in Nat /\ sent'[x] = sent[x]
    BY <1>1, ClientTypes
  <2> QED BY <2>1, SMTT(10)
<1> QED BY <1>1, <1>2, <1>3, <1>4, Untouched DEF Held

\* recv: the last request of the connection goes from its queue into buf.
LEMMA RecvReplies == RInv /\ Recv => (Agree /\ Buffer)' /\ \A d \in Clients : Held(d)'
<1> SUFFICES ASSUME RInv, Recv
             PROVE  (Agree /\ Buffer)' /\ \A d \in Clients : Held(d)'
  OBVIOUS
<1>1. /\ pc = "handle" /\ pc' = "sleep" /\ Fd # Listen /\ events[1][2] = "IN"
      /\ UNCHANGED <<conn, outbox, interest, events, at, sent, got>>
  BY DEF Recv, IsIn, clients
<1>2. IInv
  BY DEF RInv
<1>3. PICK c : c = Fd
  OBVIOUS
<1>4. c \in Clients /\ conn[c] = "open" /\ interest[c] = "IN" /\ Held(c)
  BY <1>1, <1>3, FdEvent
<1>5. Fd' = c /\ n \in Int /\ sent[c] \in Nat
  BY <1>1, <1>2, <1>3, <1>4, ClientTypes DEF Fd
<1>6. Agree'
  <2>1. \A i \in DOMAIN events : events[i][1] # Listen => interest[events[i][1]] = events[i][2]
    BY DEF RInv, Agree
  <2> QED BY <1>1, <2>1 DEF Agree
<1>7. \/ /\ inbox[c] # <<>> /\ buf' = <<<<c, sent[c]>>>> /\ n' = 1
         /\ inbox' = [inbox EXCEPT ![c] = <<>>] /\ UNCHANGED peer
         /\ inbox[c] = <<<<c, sent[c]>>>>
      \/ /\ inbox[c] = <<>> /\ ~(n' > 0) /\ UNCHANGED <<inbox, buf>>
         /\ \A d \in Clients : peer'[d] = "up" <=> peer[d] = "up"
         /\ \A d \in Clients : d # c => peer'[d] = peer[d]
  <2>1. CASE inbox[c] # <<>> /\ buf' = inbox[c] /\ n' = Len(inbox[c])
             /\ inbox' = [inbox EXCEPT ![c] = <<>>] /\ UNCHANGED peer
    <3>1. inbox[c] = <<<<c, sent[c]>>>>
      BY <1>4, <2>1 DEF Held, Turn
    <3>2. Len(<<<<c, sent[c]>>>>) = 1
      OBVIOUS
    <3> QED BY <2>1, <3>1, <3>2
  <2>2. CASE inbox[c] = <<>> /\ n' = 0 /\ UNCHANGED <<inbox, peer, buf>>
    BY <2>2, SMTT(10)
  <2>3. CASE /\ inbox[c] = <<>> /\ peer[c] = "rst" /\ n' = -1
             /\ peer' = [peer EXCEPT ![c] = "lost"] /\ UNCHANGED <<inbox, buf>>
    <3>1. ~(n' > 0)
      BY <2>3, SMTT(10)
    <3>2. \A d \in Clients : peer'[d] = IF d = c THEN "lost" ELSE peer[d]
      BY <1>2, <2>3 DEF IInv, TypeOK
    <3> QED BY <2>3, <3>1, <3>2
  <2> QED BY <1>3, <2>1, <2>2, <2>3 DEF Recv
<1>8. ASSUME NEW d \in Clients, d # c
      PROVE  Held(d)'
  <2>1. inbox'[d] = inbox[d] /\ peer'[d] = peer[d] /\ outbox'[d] = outbox[d] /\ interest'[d] = interest[d]
    BY <1>1, <1>2, <1>7, <1>8 DEF IInv, TypeOK
  <2>2. buf' = buf \/ buf'[1][1] # d
    BY <1>7, <1>8
  <2> QED BY <1>1, <1>3, <1>5, <1>8, <2>1, <2>2, OthersUntouched
<1>9. Replies(c)' = Replies(c) /\ (Alone(c)' <=> Alone(c)) /\ interest'[c] = "IN"
  BY <1>1, <1>4 DEF Replies, Alone
<1>10. (Owes(c)' <=> Owes(c)) /\ (Reading(c)' => n' > 0)
  BY <1>1, <1>4, <1>5, <1>7, <1>2, SMTT(10) DEF Owes, Reading, IInv, TypeOK
<1>11. Turn(c)'
  <2>1. CASE inbox[c] # <<>>
    BY <1>1, <1>2, <1>4, <1>5, <1>7, <1>10, <2>1 DEF Held, Turn, Owes, IInv, TypeOK
  <2>2. CASE inbox[c] = <<>>
    BY <1>1, <1>2, <1>4, <1>5, <1>7, <1>10, <2>2 DEF Held, Turn
  <2> QED BY <2>1, <2>2
<1>12. Held(c)'
  <2>1. PICK R : R = Replies(c)
    OBVIOUS
  <2>2. Fine(c, R) /\ Own(c, R)
    BY <1>4, <2>1 DEF Held
  <2>3. Fine(c, R)'
    BY <1>1, <1>10, <2>2 DEF Fine
  <2>4. Own(c, R)'
    BY <1>1, <1>9, <1>10, <2>2 DEF Own
  <2> QED BY <1>9, <1>11, <2>1, <2>3, <2>4 DEF Held, Fine, Own
<1>13. Buffer'
  <2>1. CASE UNCHANGED buf
    BY <1>1, <2>1 DEF RInv, Buffer
  <2>2. CASE buf' = <<<<c, sent[c]>>>> /\ inbox[c] = <<<<c, sent[c]>>>>
    <3>1. buf' \in Seq(Requests) /\ Len(buf') = 1 /\ buf'[1] = <<c, sent[c]>>
      BY <1>2, <1>4, <2>2, ClientTypes
    <3>2. sent'[c] = sent[c] /\ sent[c] <= sent[c] /\ 1 <= 1
      BY <1>1, <1>5, SMTT(10)
    <3> QED BY <3>1, <3>2 DEF Buffer
  <2> QED BY <1>7, <2>1, <2>2
<1> QED BY <1>6, <1>8, <1>12, <1>13

\* After recv: the connection is registered for EPOLLOUT, and its request is in buf.
LEMMA ArmOutReplies == RInv /\ ArmOut => (Agree /\ Buffer)' /\ \A d \in Clients : Held(d)'
<1> SUFFICES ASSUME RInv, ArmOut
             PROVE  (Agree /\ Buffer)' /\ \A d \in Clients : Held(d)'
  OBVIOUS
<1>1. /\ pc = "sleep" /\ n > 0 /\ NextEvent /\ interest' = [interest EXCEPT ![Fd] = "OUT"]
      /\ UNCHANGED <<conn, inbox, outbox, peer, buf, n, at, sent, got>>
  BY DEF ArmOut, EpollMod, clients
<1>2. IInv
  BY DEF RInv
<1>3. pc # "wait" /\ Fd # Listen
  BY <1>1, <1>2 DEF IInv, Batch
<1>4. PICK c : c = Fd
  OBVIOUS
<1>5. c \in Clients /\ conn[c] = "open" /\ Held(c)
  BY <1>3, <1>4, FdEvent
<1>6. \A d \in Clients : interest'[d] = IF d = c THEN "OUT" ELSE interest[d]
  BY <1>1, <1>2, <1>4 DEF IInv, TypeOK
<1>7. Agree'
  BY <1>1, <1>2, <1>3, <1>4, <1>6, AgreeNext DEF RInv
<1>8. Buffer'
  BY <1>1 DEF RInv, Buffer
<1>9. pc' # "sleep"
  BY <1>1 DEF NextEvent
<1>10. ASSUME NEW d \in Clients, d # c
       PROVE  Held(d)'
  BY <1>1, <1>3, <1>4, <1>6, <1>9, <1>10, OthersUntouched
<1>11. Reading(c) /\ ~Reading(c)' /\ Owes(c) /\ Owes(c)'
  BY <1>1, <1>4, <1>5, <1>6, <1>9 DEF Reading, Owes
<1>12. /\ inbox[c] = <<>> /\ n = 1 /\ buf = <<<<c, sent[c]>>>>
       /\ buf[1] = <<c, sent[c]>>
  BY <1>5, <1>11 DEF Held, Turn
<1>13. Turn(c)'
  BY <1>1, <1>5, <1>11, <1>12 DEF Held, Turn
<1>14. Replies(c)' = Replies(c) /\ (Alone(c)' <=> Alone(c))
  BY <1>1 DEF Replies, Alone
<1>15. Held(c)'
  <2>1. PICK R : R = Replies(c)
    OBVIOUS
  <2>2. Fine(c, R) /\ Own(c, R)
    BY <1>5, <2>1 DEF Held
  <2>3. Fine(c, R)'
    BY <1>1, <1>11, <2>2 DEF Fine
  <2>4. Own(c, R)'
    BY <1>1, <1>11, <1>12, <1>14, <2>2 DEF Own
  <2> QED BY <1>13, <1>14, <2>1, <2>3, <2>4 DEF Held, Fine, Own
<1> QED BY <1>7, <1>8, <1>10, <1>15

\* write: what is sent is what is in buf, if anything; for the connection its own
\* last request, or somebody's, but then none after its own.
LEMMA WriteReplies == RInv /\ Write => (Agree /\ Buffer)' /\ \A d \in Clients : Held(d)'
<1> SUFFICES ASSUME RInv, Write
             PROVE  (Agree /\ Buffer)' /\ \A d \in Clients : Held(d)'
  OBVIOUS
<1>1. /\ pc = "handle" /\ Fd # Listen /\ events[1][2] # "IN" /\ NextEvent
      /\ interest' = [interest EXCEPT ![Fd] = "IN"]
      /\ outbox' = [outbox EXCEPT ![Fd] = IF peer[Fd] = "up" THEN @ \o Written ELSE @]
      /\ UNCHANGED <<conn, inbox, peer, buf, n, at, sent, got>>
  BY DEF Write, IsIn, EpollMod, clients
<1>2. IInv
  BY DEF RInv
<1>3. PICK c : c = Fd
  OBVIOUS
<1>4. c \in Clients /\ conn[c] = "open" /\ interest[c] = "OUT" /\ Held(c)
  <2>1. Fd \in Clients /\ conn[Fd] = "open" /\ Held(Fd) /\ interest[Fd] # "IN"
    BY <1>1, FdEvent
  <2> QED BY <1>2, <1>3, <2>1, ClientTypes
<1>5. \A d \in Clients : interest'[d] = IF d = c THEN "IN" ELSE interest[d]
  BY <1>1, <1>2, <1>3 DEF IInv, TypeOK
<1>6. Agree'
  BY <1>1, <1>2, <1>3, <1>5, AgreeNext DEF RInv
<1>7. Buffer'
  BY <1>1 DEF RInv, Buffer
<1>8. pc' # "sleep"
  BY <1>1 DEF NextEvent
<1>9. \A d \in Clients : d # c => outbox'[d] = outbox[d]
  BY <1>1, <1>2, <1>3 DEF IInv, TypeOK
<1>10. ASSUME NEW d \in Clients, d # c
       PROVE  Held(d)'
  BY <1>1, <1>3, <1>5, <1>8, <1>9, <1>10, OthersUntouched
<1>11. Owes(c) /\ outbox[c] = <<>> /\ inbox[c] = <<>> /\ at[c] # "send" /\ conn[c] # "none"
  <2>1. Owes(c)
    BY <1>4 DEF Owes
  <2> QED BY <1>4, <2>1 DEF Held, Turn
<1>12. ~Owes(c)' /\ ~Reading(c)'
  BY <1>1, <1>4, <1>5, <1>8, <1>11 DEF Owes, Reading
<1>13. PICK R : R = Replies(c)
  OBVIOUS
<1>14. R = got[c] /\ Fine(c, R) /\ Own(c, R)
  BY <1>2, <1>4, <1>11, <1>13, RepliesFacts DEF Held
<1>15. R \in Seq(Requests) /\ Len(R) \in Nat /\ Len(R) + 1 <= sent[c] /\ sent[c] \in Nat
  BY <1>2, <1>4, <1>11, <1>14, ClientTypes DEF Fine
<1>16. Alone(c)' <=> Alone(c)
  BY <1>1 DEF Alone
<1>17. Written = IF n > 0 THEN <<buf[1]>> ELSE <<>>
  <2>1. buf \in Seq(Requests) /\ Len(buf) \in Nat /\ Len(buf) <= 1 /\ n \in -1 .. Len(buf)
    BY <1>2, LenProperties DEF RInv, Buffer, IInv, TypeOK
  <2>2. CASE n > 0
    <3>1. n = 1
      BY <2>1, <2>2, SMTT(10)
    <3>2. SubSeq(buf, 1, 1) = <<buf[1]>>
      <4>1. buf[1] \in Requests
        <5>1. 1 \in 1 .. Len(buf)
          BY <2>1, <3>1, SMTT(10)
        <5> QED BY <2>1, <5>1, ElementOfSeq
      <4>2. PICK t : t = SubSeq(buf, 1, 1)
        OBVIOUS
      <4>3. /\ t \in Seq(Requests) /\ Len(t) = IF 1 <= 1 THEN 1 - 1 + 1 ELSE 0
            /\ \A i \in 1 .. 1 - 1 + 1 : t[i] = buf[1 + i - 1]
        BY <2>1, <4>1, <4>2, SubSeqProperties
      <4>4. Len(t) = 1 /\ \A i \in 1 .. 1 : t[i] = buf[i]
        BY <4>3, SMTT(10)
      <4>5. <<buf[1]>> \in Seq(Requests) /\ Len(<<buf[1]>>) = 1 /\ \A i \in 1 .. 1 : <<buf[1]>>[i] = buf[i]
        BY <4>1
      <4>6. t = <<buf[1]>>
        BY <4>3, <4>4, <4>5, SeqEqual
      <4> QED BY <4>2, <4>6
    <3> QED BY <2>2, <3>1, <3>2 DEF Written
  <2>3. CASE ~(n > 0)
    <3>1. n \in Int /\ n < 1
      BY <2>1, <2>3, SMTT(10)
    <3>2. SubSeq(buf, 1, n) = <<>>
      BY <2>1, <3>1, SMTT(10)
    <3> QED BY <2>3, <3>2 DEF Written
  <2> QED BY <2>2, <2>3
<1>18. ASSUME ~(peer[c] = "up" /\ n > 0)
       PROVE  Held(c)'
  <2>1. outbox'[c] = <<>>
    <3>1. <<>> \o <<>> = <<>>
      BY EmptySeq, ConcatEmptySeq
    <3> QED BY <1>1, <1>2, <1>3, <1>4, <1>11, <1>17, <1>18, <3>1 DEF IInv, TypeOK
  <2>2. Replies(c)' = R
    BY <1>1, <1>11, <1>13, <2>1 DEF Replies
  <2>3. Turn(c)'
    BY <1>1, <1>4, <1>5, <1>11, <1>12, <2>1 DEF Held, Turn
  <2>4. Fine(c, R)'
    <3>1. Len(R) + 0 <= sent[c]
      BY <1>15, SMTT(10)
    <3> QED BY <1>1, <1>12, <1>14, <3>1 DEF Fine
  <2>5. Own(c, R)'
    <3>1. SUFFICES ASSUME Alone(c)
                   PROVE  (\A i \in 1 .. Len(R) : R[i] = <<c, i>>) /\ at[c] = "gone"
      BY <1>1, <1>4, <1>5, <1>16 DEF Own
    <3>2. \A i \in 1 .. Len(R) : R[i] = <<c, i>>
      BY <1>14, <3>1 DEF Own
    <3>3. n > 0
      <4>1. n = 1
        BY <1>4, <1>14, <3>1 DEF Own
      <4> QED BY <4>1, SMTT(10)
    <3> QED BY <1>4, <1>18, <3>2, <3>3 DEF Held, Turn
  <2> QED BY <2>2, <2>3, <2>4, <2>5 DEF Held, Fine, Own
<1>19. ASSUME peer[c] = "up", n > 0
       PROVE  Held(c)'
  <2>1. PICK m : m = buf[1]
    OBVIOUS
  <2>2. buf # <<>> /\ m \in Requests /\ m[2] <= sent[m[1]]
    <3>1. buf \in Seq(Requests) /\ Len(buf) \in Nat /\ n \in -1 .. Len(buf)
      BY <1>2, LenProperties DEF IInv, TypeOK
    <3>2. 1 \in 1 .. Len(buf) /\ Len(buf) # 0
      BY <1>19, <3>1, SMTT(10)
    <3>3. buf # <<>>
      BY <3>2, EmptySeq
    <3> QED BY <2>1, <3>1, <3>2, <3>3, ElementOfSeq DEF RInv, Buffer
  <2>3. m[1] \in Clients /\ m[2] \in Nat /\ (m[1] = c => m[2] = sent[c])
    BY <1>2, <1>4, <2>1, <2>2, ClientTypes DEF Held, Turn
  <2>4. outbox'[c] = <<m>>
    <3>1. <<>> \o <<m>> = <<m>>
      BY <2>2, ConcatEmptySeq
    <3> QED BY <1>1, <1>2, <1>3, <1>4, <1>11, <1>17, <1>19, <2>1, <3>1 DEF IInv, TypeOK
  <2>5. PICK R1 : R1 = Replies(c)'
    OBVIOUS
  <2>6. /\ R1 \in Seq(Requests) /\ Len(R1) = Len(R) + 1 /\ R1[Len(R) + 1] = m
        /\ \A i \in 1 .. Len(R) : R1[i] = R[i]
    <3>1. R1 = R \o <<m>>
      BY <1>1, <1>14, <2>4, <2>5 DEF Replies
    <3>2. R \o <<m>> = Append(R, m)
      BY <1>15, <2>2, SMTT(10)
    <3> QED BY <1>15, <2>2, <3>1, <3>2, AppendProperties
  <2>7. at[c] = "recv"
    <3>1. at[c] # "gone"
      BY <1>4, <1>19 DEF Held, Turn
    <3> QED BY <1>2, <1>4, <1>11, <3>1, ClientTypes
  <2>8. Turn(c)'
    BY <1>1, <1>4, <1>5, <1>11, <1>12, <2>7 DEF Held, Turn
  <2>9. \A i \in 1 .. Len(R1) : i \in 1 .. Len(R) \/ i = Len(R) + 1
    BY <1>15, <2>6, SMTT(10)
  <2>10. Fine(c, R1)'
    <3>1. Len(R1) + 0 <= sent[c]
      BY <1>15, <2>6, SMTT(10)
    <3>2. \A i \in 1 .. Len(R1) : R1[i][2] <= sent[R1[i][1]]
      BY <1>14, <2>2, <2>6, <2>9 DEF Fine
    <3>3. ASSUME NEW i \in 1 .. Len(R1), NEW j \in 1 .. Len(R1), i < j, R1[i][1] = c, R1[j][1] = c
          PROVE  R1[i][2] < R1[j][2]
      <4>1. i \in 1 .. Len(R)
        BY <1>15, <2>6, <3>3, SMTT(10)
      <4>2. CASE j \in 1 .. Len(R)
        BY <1>14, <2>6, <3>3, <4>1, <4>2 DEF Fine
      <4>3. CASE j = Len(R) + 1
        BY <1>11, <1>14, <2>3, <2>6, <3>3, <4>1, <4>3 DEF Fine
      <4> QED BY <2>9, <4>2, <4>3
    <3> QED BY <1>1, <1>12, <2>6, <3>1, <3>2, <3>3 DEF Fine
  <2>11. Own(c, R1)'
    <3>1. SUFFICES ASSUME Alone(c)
                   PROVE  (\A i \in 1 .. Len(R1) : R1[i] = <<c, i>>) /\ Len(R1) + 0 = sent[c]
      BY <1>1, <1>4, <1>5, <1>12, <1>16 DEF Own
    <3>2. /\ \A i \in 1 .. Len(R) : R[i] = <<c, i>>
          /\ Len(R) + 1 = sent[c] /\ buf = <<<<c, sent[c]>>>>
      BY <1>4, <1>11, <1>14, <2>7, <3>1 DEF Own
    <3>3. m = <<c, Len(R) + 1>>
      BY <2>1, <3>2
    <3>4. Len(R1) + 0 = sent[c]
      BY <1>15, <2>6, <3>2, SMTT(10)
    <3> QED BY <2>6, <2>9, <3>2, <3>3, <3>4
  <2> QED BY <2>5, <2>8, <2>10, <2>11 DEF Held, Fine, Own
<1> QED BY <1>6, <1>7, <1>10, <1>18, <1>19

\* A client other than the one that moves.
LEMMA OtherClients ==
  ASSUME RInv, NEW c \in Clients, NEW d \in Clients, d # c,
         UNCHANGED <<interest, pc, events, buf, n>>, conn'[c] # "none", conn'[d] = conn[d],
         at'[d] = at[d], inbox'[d] = inbox[d], outbox'[d] = outbox[d], got'[d] = got[d], sent'[d] = sent[d],
         peer'[d] = peer[d], \A x \in Clients : sent[x] <= sent'[x] /\ sent'[x] \in Nat
  PROVE  Held(d)'
<1>1. IInv /\ Turn(d) /\ Fine(d, Replies(d)) /\ Own(d, Replies(d))
  BY DEF RInv
<1>2. Reading(d)' <=> Reading(d)
  BY DEF Reading, Fd
<1>3. ~Alone(d)'
  BY DEF Alone
<1> QED BY <1>1, <1>2, <1>3, Untouched DEF Held

\* The batch and buf, when a client moves.
LEMMA ClientKeeps ==
  ASSUME RInv, UNCHANGED <<interest, pc, events, buf, n>>,
         \A x \in Clients : sent[x] <= sent'[x] /\ sent'[x] \in Nat
  PROVE  (Agree /\ Buffer)'
<1>1. IInv
  BY DEF RInv
<1>2. Agree'
  BY <1>1, AgreeSame DEF RInv
<1>3. buf \in Seq(Requests) /\ Len(buf) <= 1 /\ (buf # <<>> => buf[1][2] <= sent[buf[1][1]])
  BY DEF RInv, Buffer
<1>4. buf # <<>> => buf[1][2] <= sent'[buf[1][1]]
  <2>1. SUFFICES ASSUME buf # <<>>
                 PROVE  buf[1][2] <= sent'[buf[1][1]]
    OBVIOUS
  <2>2. Len(buf) \in Nat \ {0}
    BY <1>3, <2>1, EmptySeq
  <2>3. 1 \in 1 .. Len(buf)
    BY <2>2, SMTT(10)
  <2>4. buf[1] \in Requests
    BY <1>3, <2>3, ElementOfSeq
  <2>5. PICK x, k : x = buf[1][1] /\ k = buf[1][2]
    OBVIOUS
  <2>6. x \in Clients /\ k \in Nat /\ k <= sent[x]
    BY <1>1, <1>3, <2>1, <2>4, <2>5, ClientTypes
  <2>7. sent[x] \in Nat /\ sent[x] <= sent'[x] /\ sent'[x] \in Nat
    BY <1>1, <2>6, ClientTypes
  <2>8. k <= sent'[x]
    BY <2>6, <2>7, SMTT(10)
  <2> QED BY <2>5, <2>8
<1> QED BY <1>2, <1>3, <1>4 DEF Buffer

\* What the counts of requests are, as long as nobody sends.
LEMMA SentSame ==
  ASSUME RInv, UNCHANGED sent
  PROVE  \A x \in Clients : sent[x] <= sent'[x] /\ sent'[x] \in Nat
<1>1. IInv
  BY DEF RInv
<1>2. \A x \in Clients : sent[x] \in Nat /\ sent'[x] = sent[x]
  BY <1>1, ClientTypes
<1> QED BY <1>2, SMTT(10)

\* connect: nothing was sent before it.
LEMMA ConnectReplies ==
  ASSUME RInv, NEW c \in Clients, Connect(c)
  PROVE  (Agree /\ Buffer)' /\ \A d \in Clients : Held(d)'
<1>1. /\ conn[c] = "none" /\ at[c] = "send"
      /\ UNCHANGED <<inbox, outbox, peer, interest, pc, events, buf, n, errno, at, sent, got>>
  BY DEF Connect, server, clients
<1>2. IInv /\ Turn(c) /\ Fine(c, Replies(c))
  BY DEF RInv
<1>3. \A d \in Clients : conn'[d] = IF d = c THEN "pending" ELSE conn[d]
  BY <1>2 DEF Connect, IInv, TypeOK
<1>4. \A x \in Clients : sent[x] <= sent'[x] /\ sent'[x] \in Nat
  BY <1>1, SentSame
<1>5. (Agree /\ Buffer)'
  BY <1>1, <1>4, ClientKeeps
<1>6. \A d \in Clients : d # c => Held(d)'
  BY <1>1, <1>3, <1>4, OtherClients
<1>7. sent[c] = 0 /\ got[c] = <<>> /\ outbox[c] = <<>> /\ ~Owes(c) /\ interest[c] # "OUT"
  BY <1>1, <1>2 DEF Turn
<1>8. Reading(c)' = Reading(c) /\ Owes(c)' = Owes(c) /\ Replies(c)' = Replies(c)
  BY <1>1 DEF Reading, Owes, Replies, Fd
<1>9. PICK R : R = Replies(c)
  OBVIOUS
<1>10. R = <<>> /\ Len(R) = 0 /\ Fine(c, R)
  BY <1>2, <1>7, <1>9, RepliesFacts, EmptySeq
<1>11. Turn(c)'
  BY <1>1, <1>2, <1>3, <1>7, <1>8 DEF Turn
<1>12. Fine(c, R)'
  BY <1>1, <1>8, <1>10 DEF Fine
<1>13. Own(c, R)'
  <2>1. Len(R) + 0 = sent[c] /\ \A i \in 1 .. Len(R) : FALSE
    BY <1>7, <1>10, SMTT(10)
  <2> QED BY <1>1, <1>7, <1>8, <2>1 DEF Own
<1>14. Held(c)'
  BY <1>8, <1>9, <1>11, <1>12, <1>13 DEF Held, Fine, Own
<1> QED BY <1>5, <1>6, <1>14

\* send: the client sends when no request of its own is under way.
LEMMA SendReplies ==
  ASSUME RInv, NEW c \in Clients, Send(c)
  PROVE  (Agree /\ Buffer)' /\ \A d \in Clients : Held(d)'
<1>1. /\ conn[c] # "none" /\ at[c] = "send"
      /\ UNCHANGED <<conn, outbox, peer, interest, pc, events, buf, n, errno, got>>
  BY DEF Send, server
<1>2. IInv /\ Turn(c) /\ Fine(c, Replies(c)) /\ Own(c, Replies(c))
  BY DEF RInv
<1>3. PICK k : k = sent[c]
  OBVIOUS
<1>4. k \in Nat /\ k + 1 \in Nat /\ k <= k + 1
  <2>1. k \in Nat
    BY <1>2, <1>3, ClientTypes
  <2> QED BY <2>1, SMTT(10)
<1>5. ~Owes(c) /\ ~Reading(c) /\ outbox[c] = <<>> /\ inbox[c] = <<>> /\ interest[c] # "OUT" /\ peer[c] = "up"
  <2>1. ~Owes(c)
    BY <1>1, <1>2 DEF Turn
  <2> QED BY <1>1, <1>2, <2>1 DEF Turn, Owes
<1>6. \A d \in Clients : /\ sent'[d] = IF d = c THEN k + 1 ELSE sent[d]
                         /\ at'[d] = IF d = c THEN "recv" ELSE at[d]
                         /\ d # c => inbox'[d] = inbox[d]
  BY <1>2, <1>3 DEF Send, IInv, TypeOK
<1>7. inbox'[c] = <<<<c, k + 1>>>>
  <2>1. inbox'[c] = Append(<<>>, <<c, k + 1>>)
    BY <1>2, <1>3, <1>5 DEF Send, IInv, TypeOK
  <2> QED BY <2>1
<1>8. \A x \in Clients : sent[x] <= sent'[x] /\ sent'[x] \in Nat
  <2>1. \A x \in Clients : sent[x] \in Nat
    BY <1>2, ClientTypes
  <2> QED BY <1>3, <1>4, <1>6, <2>1, SMTT(10)
<1>9. (Agree /\ Buffer)'
  BY <1>1, <1>8, ClientKeeps
<1>10. \A d \in Clients : d # c => Held(d)'
  BY <1>1, <1>6, <1>8, OtherClients
<1>11. ~Reading(c)' /\ Owes(c)' /\ Replies(c)' = Replies(c) /\ (Alone(c)' <=> Alone(c))
  <2>1. inbox'[c] # <<>>
    BY <1>7
  <2> QED BY <1>1, <1>5, <2>1 DEF Reading, Owes, Replies, Fd, Alone
<1>12. interest[c] = "IN"
  BY <1>2, <1>5, ClientTypes
<1>13. Turn(c)'
  BY <1>1, <1>5, <1>6, <1>7, <1>11, <1>12 DEF Turn
<1>14. PICK R : R = Replies(c)
  OBVIOUS
<1>15. Fine(c, R) /\ Own(c, R) /\ Len(R) \in Nat /\ R \in Seq(Requests)
  BY <1>2, <1>14, LenProperties DEF Fine
<1>16. Fine(c, R)'
  <2>1. Len(R) + 1 <= k + 1
    <3>1. Len(R) + 0 <= k
      BY <1>3, <1>5, <1>15 DEF Fine
    <3> QED BY <1>4, <1>15, <3>1, SMTT(10)
  <2>2. ASSUME NEW i \in 1 .. Len(R)
        PROVE  R[i][2] <= sent'[R[i][1]] /\ (R[i][1] = c => R[i][2] < k + 1)
    <3>1. PICK x, y : x = R[i][1] /\ y = R[i][2]
      OBVIOUS
    <3>2. x \in Clients /\ y \in Nat /\ y <= sent[x]
      BY <1>2, <1>15, <3>1, ElementOfSeq, ClientTypes DEF Fine
    <3>3. sent[x] \in Nat /\ sent[x] <= sent'[x] /\ sent'[x] \in Nat
      BY <1>2, <1>8, <3>2, ClientTypes
    <3>4. y <= sent'[x] /\ (x = c => y < k + 1)
      BY <1>3, <1>4, <3>2, <3>3, SMTT(10)
    <3> QED BY <3>1, <3>4
  <2> QED BY <1>6, <1>11, <1>15, <2>1, <2>2 DEF Fine
<1>17. Own(c, R)'
  <2>1. SUFFICES ASSUME Alone(c)
                 PROVE  (\A i \in 1 .. Len(R) : R[i] = <<c, i>>) /\ Len(R) + 1 = k + 1
    BY <1>1, <1>6, <1>11, <1>12 DEF Own
  <2>2. (\A i \in 1 .. Len(R) : R[i] = <<c, i>>) /\ Len(R) + 0 = k
    BY <1>1, <1>3, <1>5, <1>15, <2>1 DEF Own
  <2> QED BY <1>4, <1>15, <2>2, SMTT(10)
<1>18. Held(c)'
  BY <1>11, <1>13, <1>14, <1>16, <1>17 DEF Held, Fine, Own
<1> QED BY <1>9, <1>10, <1>18

\* recv at the client: what was on its way has arrived.
LEMMA ReceiveReplies ==
  ASSUME RInv, NEW c \in Clients, Receive(c)
  PROVE  (Agree /\ Buffer)' /\ \A d \in Clients : Held(d)'
<1>1. /\ at[c] = "recv" /\ outbox[c] # <<>>
      /\ UNCHANGED <<conn, inbox, peer, interest, pc, events, buf, n, errno, sent>>
  BY DEF Receive, server
<1>2. IInv /\ Turn(c) /\ Fine(c, Replies(c)) /\ Own(c, Replies(c))
  BY DEF RInv
<1>3. \A d \in Clients : /\ at'[d] = IF d = c THEN "send" ELSE at[d]
                         /\ outbox'[d] = IF d = c THEN <<>> ELSE outbox[d]
                         /\ got'[d] = IF d = c THEN got[c] \o outbox[c] ELSE got[d]
  BY <1>2 DEF Receive, IInv, TypeOK
<1>4. conn[c] # "none" /\ peer[c] = "up" /\ ~Owes(c)
  BY <1>1, <1>2 DEF Turn
<1>5. \A x \in Clients : sent[x] <= sent'[x] /\ sent'[x] \in Nat
  BY <1>1, SentSame
<1>6. (Agree /\ Buffer)'
  BY <1>1, <1>5, ClientKeeps
<1>7. \A d \in Clients : d # c => Held(d)'
  BY <1>1, <1>3, <1>4, <1>5, OtherClients
<1>8. PICK R : R = Replies(c)
  OBVIOUS
<1>9. Replies(c)' = R
  <2>1. R \in Seq(Requests) /\ R = got[c] \o outbox[c]
    BY <1>2, <1>8, RepliesFacts DEF Replies
  <2>2. Replies(c)' = R \o <<>>
    BY <1>3, <2>1 DEF Replies
  <2> QED BY <2>1, <2>2, ConcatEmptySeq
<1>10. (Reading(c)' <=> Reading(c)) /\ (Owes(c)' <=> Owes(c)) /\ (Alone(c)' <=> Alone(c))
  BY <1>1 DEF Reading, Owes, Fd, Alone
<1>11. Turn(c)'
  BY <1>1, <1>2, <1>3, <1>4, <1>10 DEF Turn
<1>12. Fine(c, R)' /\ Own(c, R)'
  <2>1. Fine(c, R) /\ Own(c, R)
    BY <1>2, <1>8
  <2>2. at[c] # "gone"
    BY <1>1
  <2> QED BY <1>1, <1>10, <2>1, <2>2 DEF Fine, Own
<1>13. Held(c)'
  BY <1>9, <1>11, <1>12 DEF Held, Fine, Own
<1> QED BY <1>6, <1>7, <1>13

\* The client ends: what it had not received is lost.
LEMMA ExitReplies ==
  ASSUME RInv, NEW c \in Clients, Exit(c)
  PROVE  (Agree /\ Buffer)' /\ \A d \in Clients : Held(d)'
<1>1. /\ conn[c] # "none" /\ at[c] # "gone"
      /\ UNCHANGED <<conn, inbox, interest, pc, events, buf, n, errno, sent, got>>
  BY DEF Exit, server
<1>2. IInv /\ Turn(c) /\ Fine(c, Replies(c)) /\ Own(c, Replies(c))
  BY DEF RInv
<1>3. \A d \in Clients : /\ at'[d] = IF d = c THEN "gone" ELSE at[d]
                         /\ outbox'[d] = IF d = c THEN <<>> ELSE outbox[d]
                         /\ IF d = c THEN peer'[d] # "up" ELSE peer'[d] = peer[d]
  BY <1>2 DEF Exit, IInv, TypeOK
<1>4. \A x \in Clients : sent[x] <= sent'[x] /\ sent'[x] \in Nat
  BY <1>1, SentSame
<1>5. (Agree /\ Buffer)'
  BY <1>1, <1>4, ClientKeeps
<1>6. \A d \in Clients : d # c => Held(d)'
  BY <1>1, <1>3, <1>4, OtherClients
<1>7. PICK R, R1 : R = Replies(c) /\ R1 = got[c]
  OBVIOUS
<1>8. /\ R1 \in Seq(Requests) /\ Len(R1) \in Nat /\ Len(R) \in Nat /\ Len(R1) <= Len(R)
      /\ sent[c] \in Nat /\ \A i \in 1 .. Len(R1) : i \in 1 .. Len(R) /\ R1[i] = R[i]
  <2>1. /\ Len(R) = Len(R1) + Len(outbox[c]) /\ Len(R1) \in Nat /\ Len(outbox[c]) \in Nat
        /\ R1 \in Seq(Requests) /\ sent[c] \in Nat
        /\ \A i \in 1 .. Len(R1) : R[i] = R1[i]
    BY <1>2, <1>7, RepliesFacts, ClientTypes
  <2>2. Len(R) \in Nat /\ Len(R1) <= Len(R) /\ \A i \in 1 .. Len(R1) : i \in 1 .. Len(R)
    BY <2>1, SMTT(10)
  <2> QED BY <2>1, <2>2
<1>9. Replies(c)' = R1
  <2>1. Replies(c)' = R1 \o <<>>
    BY <1>1, <1>3, <1>7 DEF Replies
  <2> QED BY <1>8, <2>1, ConcatEmptySeq
<1>10. (Reading(c)' <=> Reading(c)) /\ (Owes(c)' <=> Owes(c)) /\ (Alone(c)' <=> Alone(c))
  BY <1>1 DEF Reading, Owes, Fd, Alone
<1>11. Turn(c)'
  BY <1>1, <1>2, <1>3, <1>10 DEF Turn
<1>12. Fine(c, R) /\ Own(c, R)
  BY <1>2, <1>7
<1>13. Fine(c, R1)'
  <2>1. PICK e : e = IF Owes(c) THEN 1 ELSE 0
    OBVIOUS
  <2>2. Len(R1) + e <= sent[c]
    <3>1. Len(R) + e <= sent[c] /\ e \in Nat
      BY <1>12, <2>1 DEF Fine
    <3> QED BY <1>8, <3>1, SMTT(10)
  <2>3. \A i \in 1 .. Len(R1) : R1[i][2] <= sent[R1[i][1]]
    BY <1>8, <1>12 DEF Fine
  <2>4. \A i \in 1 .. Len(R1) : R1[i][1] = c /\ Owes(c) => R1[i][2] < sent[c]
    BY <1>8, <1>12 DEF Fine
  <2>5. \A i, j \in 1 .. Len(R1) : i < j /\ R1[i][1] = c /\ R1[j][1] = c => R1[i][2] < R1[j][2]
    BY <1>8, <1>12 DEF Fine
  <2> QED BY <1>1, <1>8, <1>10, <2>1, <2>2, <2>3, <2>4, <2>5 DEF Fine
<1>14. Own(c, R1)'
  <2>1. Alone(c) => \A i \in 1 .. Len(R1) : R1[i] = <<c, i>>
    BY <1>8, <1>12 DEF Own
  <2>2. Alone(c) /\ interest[c] = "OUT" => n = 1 /\ buf = <<<<c, sent[c]>>>>
    BY <1>12 DEF Own
  <2> QED BY <1>1, <1>3, <1>10, <2>1, <2>2 DEF Own
<1>15. Held(c)'
  BY <1>9, <1>11, <1>13, <1>14 DEF Held, Fine, Own
<1> QED BY <1>5, <1>6, <1>15

\* Nobody has sent anything at the start.
LEMMA InitialReplies == Init => RInv
<1> SUFFICES ASSUME Init
             PROVE  RInv
  OBVIOUS
<1>1. IInv
  BY Initial
<1>2. /\ pc = "wait" /\ events = <<>> /\ buf = <<>>
      /\ \A c \in Clients : /\ conn[c] = "none" /\ peer[c] = "up" /\ inbox[c] = <<>> /\ outbox[c] = <<>>
                            /\ got[c] = <<>> /\ interest[c] = "IN" /\ at[c] = "send" /\ sent[c] = 0
  BY DEF Init
<1>3. DOMAIN <<>> = {} /\ Len(<<>>) = 0 /\ <<>> \in Seq(Requests)
  BY EmptySeq, SMTT(10)
<1>4. Agree
  BY <1>2, <1>3 DEF Agree
<1>5. Buffer
  BY <1>2, <1>3, SMTT(10) DEF Buffer
<1>6. ASSUME NEW c \in Clients
      PROVE  Turn(c) /\ Fine(c, Replies(c)) /\ Own(c, Replies(c))
  <2>1. Replies(c) = <<>>
    BY <1>1, <1>2, RepliesFacts
  <2>2. ~Owes(c) /\ ~Reading(c) /\ ~Alone(c)
    BY <1>2 DEF Owes, Reading, Alone
  <2>3. Turn(c)
    BY <1>2, <2>2 DEF Turn
  <2>4. Fine(c, <<>>)
    <3>1. \A i \in 1 .. Len(<<>>) : FALSE
      BY <1>3, SMTT(10)
    <3>2. Len(<<>>) + 0 <= sent[c]
      BY <1>2, <1>3, SMTT(10)
    <3> QED BY <1>3, <2>2, <3>1, <3>2 DEF Fine
  <2> QED BY <2>1, <2>2, <2>3, <2>4 DEF Own
<1> QED BY <1>1, <1>4, <1>5, <1>6 DEF RInv

\* Every step keeps the requests and the replies in order.
LEMMA InductiveReplies == RInv /\ [Next]_vars => RInv'
<1> SUFFICES ASSUME RInv, [Next]_vars
             PROVE  RInv'
  OBVIOUS
<1>1. IInv /\ IInv'
  BY Inductive DEF RInv
<1>2. (Agree /\ Buffer)' /\ \A d \in Clients : Held(d)'
  <2>1. CASE Server
    BY <2>1, EpollWaitReplies, AcceptReplies, NothingReplies, RecvReplies, ArmOutReplies,
       WriteReplies DEF Server
  <2>2. ASSUME NEW c \in Clients, Client(c)
        PROVE  (Agree /\ Buffer)' /\ \A d \in Clients : Held(d)'
    BY <2>2, ConnectReplies, SendReplies, ReceiveReplies, ExitReplies DEF Client
  <2>3. CASE UNCHANGED vars
    <3>1. UNCHANGED <<conn, inbox, outbox, peer, interest, pc, events, buf, n, at, sent, got>>
      BY <2>3 DEF vars, kernel, server, clients
    <3>2. \A x \in Clients : sent[x] <= sent'[x] /\ sent'[x] \in Nat
      BY <3>1, SentSame
    <3>3. ASSUME NEW d \in Clients
          PROVE  Held(d)'
      <4>1. (Reading(d)' <=> Reading(d)) /\ (Alone(d)' <=> Alone(d))
        BY <3>1 DEF Reading, Fd, Alone
      <4>2. Turn(d) /\ Fine(d, Replies(d)) /\ Own(d, Replies(d))
        BY DEF RInv
      <4> QED BY <1>1, <3>1, <3>2, <4>1, <4>2, Untouched DEF Held
    <3>4. (Agree /\ Buffer)'
      BY <3>1, <3>2, ClientKeeps
    <3> QED BY <3>3, <3>4
  <2> QED BY <2>1, <2>2, <2>3 DEF Next
<1> QED BY <1>1, <1>2 DEF RInv, Held

\* epoll_eg.c:128-145: although all connections share buf and n, no client gets
\* more replies than it sent requests, none that nobody sent, its own each at most
\* once and in order; and a client that is alone gets exactly its own.
THEOREM OnlyWhatWasSent == Spec => []RepliesWereSent
<1>1. RInv => RepliesWereSent
  <2> SUFFICES ASSUME RInv, NEW c \in Clients
               PROVE  /\ Len(Replies(c)) <= sent[c]
                      /\ \A i \in DOMAIN Replies(c) : Replies(c)[i][2] <= sent[Replies(c)[i][1]]
                      /\ \A i, j \in DOMAIN Replies(c) :
                           (i < j /\ Replies(c)[i][1] = c /\ Replies(c)[j][1] = c) =>
                             Replies(c)[i][2] < Replies(c)[j][2]
                      /\ Connected = {c} => Replies(c) = [i \in DOMAIN Replies(c) |-> <<c, i>>]
    BY DEF RepliesWereSent
  <2>1. PICK R : R = Replies(c)
    OBVIOUS
  <2>2. IInv /\ Fine(c, R) /\ Own(c, R)
    BY <2>1 DEF RInv
  <2>3. R \in Seq(Requests) /\ Len(R) \in Nat /\ DOMAIN R = 1 .. Len(R) /\ sent[c] \in Nat
    BY <2>2, LenProperties, ClientTypes DEF Fine
  <2>4. Len(R) <= sent[c]
    <3>1. Len(R) + 1 <= sent[c] \/ Len(R) + 0 <= sent[c]
      BY <2>2 DEF Fine
    <3> QED BY <2>3, <3>1, SMTT(10)
  <2>5. ASSUME Connected = {c}
        PROVE  R = [i \in DOMAIN R |-> <<c, i>>]
    <3>1. Alone(c)
      BY <2>5 DEF Connected, Alone
    <3>2. \A i \in 1 .. Len(R) : R[i] = <<c, i>>
      BY <2>2, <3>1 DEF Own
    <3>3. R = [i \in DOMAIN R |-> R[i]]
      BY <2>3, LenProperties
    <3> QED BY <2>3, <3>2, <3>3
  <2> QED BY <2>1, <2>2, <2>3, <2>4, <2>5 DEF Fine
<1> QED BY <1>1, InitialReplies, InductiveReplies, PTL DEF Spec

=============================================================================
