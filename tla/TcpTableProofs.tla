--------------------------- MODULE TcpTableProofs ---------------------------
(***************************************************************************)
(* Proofs about TcpTable for every number of sockets, control blocks,      *)
(* ports and peers, and every length of the accept queues.                 *)
(***************************************************************************)
EXTENDS TcpTable, TLAPS

\* The first element and the others.
LEMMA SeqTail ==
  ASSUME NEW S, NEW s \in Seq(S), s # <<>>
  PROVE  /\ Head(s) \in S
         /\ Tail(s) \in Seq(S)
         /\ Len(Tail(s)) = Len(s) - 1
         /\ \A i \in 1..Len(Tail(s)) : Tail(s)[i] = s[i + 1]
  OBVIOUS

\* A sequence is empty when its length is 0.
LEMMA SeqEmpty ==
  ASSUME NEW S
  PROVE  /\ <<>> \in Seq(S)
         /\ Len(<<>>) = 0
         /\ \A s \in Seq(S) : s # <<>> => Len(s) \in Nat \ {0}
  OBVIOUS

\* No index is in the range of an empty sequence.
LEMMA EmptyRange == Len(<<>>) = 0 /\ \A n : n \notin 1..0
  OBVIOUS

-----------------------------------------------------------------------------
(* The inductive invariant, and that it survives what the actions have in  *)
(* common: a block that is freed, that changes state, that is new, that is *)
(* queued, accepted, or left by its socket.                                *)

\* A free slot is empty: nothing of the block before is left in it.
FreeIsEmpty ==
    \A k \in Tcbs :
        /\ tcbs[k].active <=> tcbs[k].state # "CLOSED"
        /\ ~tcbs[k].active => tcbs[k].listener = NULL /\ tcbs[k].acceptq = <<>>

\* Only a socket in use has a control block.
UsedHasTcb == \A i \in Socks : socks[i].tcb # NULL => socks[i].used

\* A listener is nobody's child, so tcb_free need not go further than one
\* generation.
ListenersAreTop == \A k \in Tcbs : tcbs[k].state = "LISTEN" => tcbs[k].listener = NULL

\* A child that was not accepted has no socket.
ChildUnowned ==
    ~died => \A k \in Tcbs : tcbs[k].listener # NULL => tcbs[k].sock = NULL

\* The inductive invariant.  The properties of TcpTable are not inductive: they
\* need to know what a free slot holds, and that a child has no socket and no
\* children.
IInv ==
    /\ TypeOK /\ FreeIsEmpty /\ UsedHasTcb /\ ListenersAreTop /\ ChildUnowned
    /\ OwnersAgree /\ ListenerLive /\ QueueHoldsChildren /\ NoOrphan

-----------------------------------------------------------------------------
(* Types.                                                                  *)

\* The zeroed entries have their types; the null pointer is no slot.
LEMMA ClearTypes ==
    /\ ClearSock \in SockType
    /\ ClearTcb \in TcbType
    /\ NULL \notin Socks /\ NULL \notin Tcbs
  <1>1. 0 \in Socks /\ 0 \in 0..TCP_ACCEPT_QLEN
    BY TableConstants DEF Socks
  <1>2. NULL \notin Socks /\ NULL \notin Tcbs
    BY DEF Socks, Tcbs, NULL
  <1>3. <<>> \in Seq(Tcbs)
    OBVIOUS
  <1> QED
    BY <1>1, <1>2, <1>3, Zenon DEF ClearSock, SockType, ClearTcb, TcbType, States

\* What the invariant says of the queues.
LEMMA QueueFacts ==
    ASSUME IInv
    PROVE  \A l \in Tcbs :
             /\ tcbs[l].acceptq \in Seq(Tcbs) /\ Len(tcbs[l].acceptq) \in Nat
             /\ Len(tcbs[l].acceptq) <= tcbs[l].backlog
             /\ \A n \in 1..Len(tcbs[l].acceptq) : tcbs[l].acceptq[n] \in Tcbs
             /\ ~died => \A n \in 1..Len(tcbs[l].acceptq) :
                   /\ tcbs[tcbs[l].acceptq[n]].listener = l
                   /\ tcbs[tcbs[l].acceptq[n]].state \in {"ESTABLISHED", "CLOSE_WAIT"}
                   /\ \A m \in 1..Len(tcbs[l].acceptq) :
                         tcbs[l].acceptq[m] = tcbs[l].acceptq[n] => m = n
  <1> TAKE l \in Tcbs
  <1> DEFINE q == tcbs[l].acceptq
  <1>1. q \in Seq(Tcbs)
    BY Zenon DEF IInv, TypeOK, TcbType
  <1>2. /\ Len(q) <= tcbs[l].backlog
        /\ ~died => \A n \in 1..Len(q) :
              /\ tcbs[q[n]].listener = l
              /\ tcbs[q[n]].state \in {"ESTABLISHED", "CLOSE_WAIT"}
              /\ \A m \in 1..Len(q) : q[m] = q[n] => m = n
    BY Zenon DEF IInv, QueueHoldsChildren
  <1> HIDE DEF q
  <1>3. Len(q) \in Nat /\ \A n \in 1..Len(q) : q[n] \in Tcbs
    BY <1>1
  <1> QED
    BY <1>1, <1>2, <1>3, ZenonT(60) DEF q

\* What QueueHoldsChildren says of one queue.
QueueOk(c) ==
    LET q == tcbs[c].acceptq
    IN  /\ Len(q) <= tcbs[c].backlog
        /\ ~died => \A n \in 1..Len(q) :
              /\ tcbs[q[n]].listener = c
              /\ tcbs[q[n]].state \in {"ESTABLISHED", "CLOSE_WAIT"}
              /\ \A m \in 1..Len(q) : q[m] = q[n] => m = n

\* A queue that a step leaves alone, with those that wait in it.
LEMMA QueueKept ==
    ASSUME IInv, NEW c \in Tcbs, died' = died,
           tcbs'[c].acceptq = tcbs[c].acceptq, tcbs'[c].backlog = tcbs[c].backlog,
           ~died => \A n \in 1..Len(tcbs[c].acceptq) :
              /\ tcbs'[tcbs[c].acceptq[n]].listener = tcbs[tcbs[c].acceptq[n]].listener
              /\ tcbs'[tcbs[c].acceptq[n]].state \in {"ESTABLISHED", "CLOSE_WAIT"}
    PROVE  QueueOk(c)'
  <1> DEFINE q == tcbs[c].acceptq
  <1>1. /\ Len(q) <= tcbs[c].backlog
        /\ ~died => \A n \in 1..Len(q) :
              /\ tcbs[q[n]].listener = c
              /\ \A m \in 1..Len(q) : q[m] = q[n] => m = n
    BY QueueFacts, ZenonT(60)
  <1>2. ~died => \A n \in 1..Len(q) :
              /\ tcbs'[q[n]].listener = c
              /\ tcbs'[q[n]].state \in {"ESTABLISHED", "CLOSE_WAIT"}
    BY <1>1, Zenon
  <1>3. tcbs'[c].acceptq = q
    BY Zenon
  <1> HIDE DEF q
  <1> QED
    BY <1>1, <1>2, <1>3, Zenon DEF QueueOk

-----------------------------------------------------------------------------
(* tcb_free.                                                               *)

\* r is q without its first d elements.
Shifted(r, q, d) == Len(q) = Len(r) + d /\ \A n \in 1..Len(r) : r[n] = q[n + d]

\* The tables after block k was freed, perhaps after it was taken off a queue.
FreedTcbs(k) ==
    /\ tcbs' \in [Tcbs -> TcbType]
    /\ \A c \in Doomed(tcbs, k) : tcbs'[c] = ClearTcb
    /\ \A c \in Tcbs \ Doomed(tcbs, k) :
          /\ tcbs'[c].active = tcbs[c].active /\ tcbs'[c].state = tcbs[c].state
          /\ tcbs'[c].sock = tcbs[c].sock /\ tcbs'[c].listener = tcbs[c].listener
          /\ tcbs'[c].backlog = tcbs[c].backlog
          /\ \E d \in {0, 1} : Shifted(tcbs'[c].acceptq, tcbs[c].acceptq, d)

Hit(k, i) == \E c \in Doomed(tcbs, k) : tcbs[c].sock = i

FreedSocks(k) ==
    /\ socks' \in [Socks -> SockType]
    /\ UsedHasTcb'
    /\ ~died' => \A i \in Socks : socks'[i].tcb = IF Hit(k, i) THEN NULL ELSE socks[i].tcb

\* A queue that was left alone.
LEMMA NotShifted == ASSUME NEW q \in Seq(Tcbs) PROVE \E d \in {0, 1} : Shifted(q, q, d)
  <1>1. Len(q) \in Nat
    OBVIOUS
  <1>2. Shifted(q, q, 0)
    BY <1>1 DEF Shifted
  <1> QED
    BY <1>2, Zenon

\* What tcb_free does to the two tables, entry by entry.
LEMMA FreeEffect ==
    ASSUME IInv, NEW k \in Tcbs, tcb_free(k)
    PROVE  FreedTcbs(k) /\ FreedSocks(k)
  <1> DEFINE D == Doomed(tcbs, k)
  <1>1. /\ \A c \in Tcbs : tcbs[c] \in TcbType
        /\ \A i \in Socks : socks[i] \in SockType
    BY Zenon DEF IInv, TypeOK
  <1>2. /\ D \subseteq Tcbs
        /\ tcbs' = [c \in Tcbs |-> IF c \in D THEN ClearTcb ELSE tcbs[c]]
    BY Zenon DEF tcb_free, FreeTcbs, Doomed
  <1>3. socks' = [i \in Socks |-> IF Hit(k, i) THEN [socks[i] EXCEPT !.tcb = NULL] ELSE socks[i]]
    BY Zenon DEF tcb_free, Detached, Hit
  <1>4. FreedTcbs(k)
    <2>1. tcbs' \in [Tcbs -> TcbType]
      BY <1>1, <1>2, ClearTypes, Zenon
    <2>2. \A c \in Tcbs : \E d \in {0, 1} : Shifted(tcbs[c].acceptq, tcbs[c].acceptq, d)
      BY <1>1, NotShifted, Zenon DEF TcbType
    <2> QED
      BY <1>2, <2>1, <2>2, Zenon DEF FreedTcbs
  <1>5. FreedSocks(k)
    <2>1. \A i \in Socks :
            /\ socks'[i] \in SockType
            /\ socks'[i].tcb = IF Hit(k, i) THEN NULL ELSE socks[i].tcb
            /\ socks'[i].used = socks[i].used
      BY <1>1, <1>3, Zenon DEF SockType
    <2> QED
      BY <1>3, <2>1, Zenon DEF FreedSocks, IInv, UsedHasTcb
  <1> QED
    BY <1>4, <1>5, Zenon

\* Freeing a block keeps the tables sound, as long as no queued child goes
\* unnoticed.
LEMMA FreeStep ==
    ASSUME IInv, NEW k \in Tcbs, FreedTcbs(k), FreedSocks(k), connecting' \in Socks \cup {NULL},
           died' \in BOOLEAN, died => died',
           ~died' => /\ tcbs[k].active
                     /\ \A l \in Tcbs : \A n \in 1..Len(tcbs'[l].acceptq) : tcbs'[l].acceptq[n] # k
    PROVE  IInv'
  <1> DEFINE D == Doomed(tcbs, k)
  <1>1. /\ \A c \in Tcbs : tcbs[c] \in TcbType
        /\ \A i \in Socks : socks[i] \in SockType
    BY Zenon DEF IInv, TypeOK
  <1>2. /\ \A c \in D : tcbs'[c] = ClearTcb
        /\ \A c \in Tcbs : c \notin D =>
              /\ tcbs'[c].active = tcbs[c].active /\ tcbs'[c].state = tcbs[c].state
              /\ tcbs'[c].sock = tcbs[c].sock /\ tcbs'[c].listener = tcbs[c].listener
              /\ tcbs'[c].backlog = tcbs[c].backlog
              /\ \E d \in {0, 1} : Shifted(tcbs'[c].acceptq, tcbs[c].acceptq, d)
    BY Zenon DEF FreedTcbs
  <1>3. ~died' => \A i \in Socks : socks'[i].tcb = IF Hit(k, i) THEN NULL ELSE socks[i].tcb
    BY Zenon DEF FreedSocks
  <1>4. /\ k \in D /\ D \subseteq Tcbs
        /\ \A c \in Tcbs : (tcbs[c].listener \in D /\ tcbs[c].listener # NULL) => c \in D
        /\ \A c \in D : c # k => tcbs[c].active /\ tcbs[c].listener = k /\ tcbs[k].state = "LISTEN"
    <2>1. \A c \in Tcbs : (tcbs[c].listener \in D /\ tcbs[c].listener # NULL) => tcbs[c].listener = k
      BY ClearTypes, Zenon DEF Doomed, IInv, ListenerLive, ListenersAreTop
    <2>2. \A c \in Tcbs : tcbs[c].listener = k => c \in D
      BY ClearTypes, Zenon DEF Doomed, IInv, ListenerLive, FreeIsEmpty
    <2> QED
      BY <2>1, <2>2, Zenon DEF Doomed
  <1>5. TypeOK'
    BY Zenon DEF IInv, TypeOK, FreedTcbs, FreedSocks
  <1>6. FreeIsEmpty' /\ ListenersAreTop' /\ UsedHasTcb' /\ ChildUnowned'
    <2>1. UsedHasTcb'
      BY Zenon DEF FreedSocks
    <2>2. ListenersAreTop' /\ ChildUnowned'
      BY <1>2 DEF IInv, ListenersAreTop, ChildUnowned, ClearTcb
    <2>3. FreeIsEmpty'
      <3> SUFFICES ASSUME NEW c \in Tcbs
                   PROVE  /\ tcbs'[c].active <=> tcbs'[c].state # "CLOSED"
                          /\ ~tcbs'[c].active => tcbs'[c].listener = NULL /\ tcbs'[c].acceptq = <<>>
        BY Zenon DEF FreeIsEmpty
      <3>1. CASE c \in D
        BY <1>2, <3>1 DEF ClearTcb
      <3>2. CASE c \notin D
        <4>1. ~tcbs[c].active => tcbs'[c].acceptq = <<>>
          <5> SUFFICES ASSUME ~tcbs[c].active PROVE tcbs'[c].acceptq = <<>>
            BY Zenon
          <5>1. tcbs[c].acceptq = <<>> /\ tcbs'[c].acceptq \in Seq(Tcbs)
            BY <1>5, Zenon DEF IInv, FreeIsEmpty, TypeOK, TcbType
          <5>2. PICK d \in {0, 1} : Len(tcbs[c].acceptq) = Len(tcbs'[c].acceptq) + d
            BY <1>2, <3>2, Zenon DEF Shifted
          <5>3. Len(tcbs'[c].acceptq) = 0
            BY <5>1, <5>2, SMTT(60)
          <5> QED
            BY <5>1, <5>3, SeqEmpty, Zenon
        <4> QED
          BY <1>2, <3>2, <4>1, ZenonT(60) DEF IInv, FreeIsEmpty
      <3> QED
        BY <3>1, <3>2, Zenon
    <2> QED
      BY <2>1, <2>2, <2>3, Zenon
  <1> HIDE DEF D
  <1>7. ListenerLive' /\ NoOrphan'
    <2>1. ListenerLive'
      BY <1>1, <1>2, <1>4, ClearTypes, SMTT(60) DEF IInv, ListenerLive, ClearTcb, TcbType
    <2>2. NoOrphan'
      BY <1>1, <1>2, <1>4, ClearTypes, SMTT(60) DEF IInv, NoOrphan, ClearTcb
    <2> QED
      BY <2>1, <2>2, Zenon
  <1>8. OwnersAgree'
    <2> SUFFICES ASSUME ~died' PROVE OwnersAgree'
      BY Zenon DEF OwnersAgree
    <2>1. /\ \A c \in D : tcbs[c].active
          /\ \A i \in Socks : socks[i].tcb # NULL =>
                tcbs[socks[i].tcb].active /\ tcbs[socks[i].tcb].sock = i
          /\ \A c \in Tcbs : tcbs[c].active /\ tcbs[c].sock # NULL => socks[tcbs[c].sock].tcb = c
      BY <1>4, Zenon DEF IInv, OwnersAgree, SocketOwnsTcb
    <2>2. \A i \in Socks : Hit(k, i) <=> \E c \in D : tcbs[c].sock = i
      BY Zenon DEF Hit, D
    <2>3. ASSUME NEW i \in Socks, socks'[i].tcb # NULL
          PROVE  tcbs'[socks'[i].tcb].active /\ tcbs'[socks'[i].tcb].sock = i
      <3>1. socks[i].tcb \in Tcbs /\ socks'[i].tcb = socks[i].tcb /\ ~Hit(k, i)
        BY <1>1, <1>3, <2>3, Zenon DEF SockType
      <3>2. socks[i].tcb \notin D
        BY <2>1, <2>2, <2>3, <3>1, ZenonT(60)
      <3> QED
        BY <1>2, <2>1, <2>3, <3>1, <3>2
    <2>4. ASSUME NEW c \in Tcbs, tcbs'[c].active, tcbs'[c].sock # NULL
          PROVE  socks'[tcbs'[c].sock].tcb = c
      <3>1. c \notin D /\ tcbs[c].active /\ tcbs'[c].sock = tcbs[c].sock
        BY <1>2, <2>4, SMTT(60) DEF ClearTcb
      <3>2. tcbs[c].sock \in Socks /\ socks[tcbs[c].sock].tcb = c
        BY <1>1, <2>1, <2>4, <3>1, Zenon DEF TcbType
      <3>3. ~Hit(k, tcbs[c].sock)
        BY <1>4, <2>1, <2>2, <3>1, <3>2, ClearTypes, SMTT(60)
      <3> QED
        BY <1>3, <3>1, <3>2, <3>3, Zenon
    <2> QED
      BY <2>3, <2>4, Zenon DEF OwnersAgree, SocketOwnsTcb
  <1>9. QueueHoldsChildren'
    <2> SUFFICES ASSUME NEW l \in Tcbs
                 PROVE  /\ Len(tcbs'[l].acceptq) <= tcbs'[l].backlog
                        /\ ~died' => \A n \in 1..Len(tcbs'[l].acceptq) :
                              /\ tcbs'[tcbs'[l].acceptq[n]].listener = l
                              /\ tcbs'[tcbs'[l].acceptq[n]].state \in {"ESTABLISHED", "CLOSE_WAIT"}
                              /\ \A m \in 1..Len(tcbs'[l].acceptq) :
                                    tcbs'[l].acceptq[m] = tcbs'[l].acceptq[n] => m = n
      BY <1>5, Zenon DEF QueueHoldsChildren
    <2>1. CASE l \in D
      BY <1>2, <2>1, SMTT(60) DEF ClearTcb
    <2>2. CASE l \notin D
      <3> DEFINE q == tcbs[l].acceptq
      <3> DEFINE r == tcbs'[l].acceptq
      <3>1. PICK d \in {0, 1} : Len(q) = Len(r) + d /\ \A n \in 1..Len(r) : r[n] = q[n + d]
        BY <1>2, <2>2, Zenon DEF Shifted
      <3>2. /\ Len(q) \in Nat /\ Len(r) \in Nat /\ Len(q) <= tcbs[l].backlog
            /\ tcbs'[l].backlog = tcbs[l].backlog /\ tcbs[l].backlog \in Nat
        <4>1. q \in Seq(Tcbs) /\ r \in Seq(Tcbs) /\ tcbs[l].backlog \in Nat
          BY <1>1, <1>5, TableConstants, SMTT(60) DEF TypeOK, TcbType
        <4> QED
          BY <1>2, <2>2, <4>1 DEF IInv, QueueHoldsChildren
      <3>3. ~died => \A n \in 1..Len(q) :
                       /\ q[n] \in Tcbs /\ tcbs[q[n]].listener = l
                       /\ tcbs[q[n]].state \in {"ESTABLISHED", "CLOSE_WAIT"}
                       /\ \A m \in 1..Len(q) : q[m] = q[n] => m = n
        BY <1>1, SMTT(60) DEF IInv, QueueHoldsChildren, TcbType
      <3>4. ~died' => \A n \in 1..Len(r) : r[n] # k
        BY Zenon
      <3> HIDE DEF q, r
      <3>5. ASSUME ~died', NEW n \in 1..Len(r)
            PROVE  /\ n + d \in 1..Len(q) /\ r[n] = q[n + d]
                   /\ tcbs'[r[n]].listener = l
                   /\ tcbs'[r[n]].state \in {"ESTABLISHED", "CLOSE_WAIT"}
        <4>1. n + d \in 1..Len(q) /\ r[n] = q[n + d]
          BY <3>1, <3>2, <3>5
        <4>2. /\ r[n] \in Tcbs /\ tcbs[r[n]].listener = l
              /\ tcbs[r[n]].state \in {"ESTABLISHED", "CLOSE_WAIT"}
          BY <3>3, <3>5, <4>1, Zenon
        <4>3. r[n] \notin D
          BY <1>4, <2>2, <3>4, <3>5, <4>2, Zenon
        <4> QED
          BY <1>2, <4>1, <4>2, <4>3, Zenon
      <3>6. ASSUME ~died', NEW n \in 1..Len(r), NEW m \in 1..Len(r), r[m] = r[n]
            PROVE  m = n
        <4>1. /\ n + d \in 1..Len(q) /\ r[n] = q[n + d]
              /\ m + d \in 1..Len(q) /\ r[m] = q[m + d]
          BY <3>5, <3>6, Zenon
        <4>2. m + d = n + d
          BY <3>3, <3>6, <4>1, ZenonT(60)
        <4> QED
          BY <3>2, <4>2
      <3>7. Len(r) <= tcbs'[l].backlog
        BY <3>1, <3>2
      <3> QED
        BY <3>5, <3>6, <3>7, Zenon DEF r
    <2> QED
      BY <2>1, <2>2, Zenon
  <1> QED
    BY <1>5, <1>6, <1>7, <1>8, <1>9, Zenon DEF IInv

-----------------------------------------------------------------------------
(* Other steps that several actions share.                                 *)

\* A block that goes from one state to the next, neither listening nor free.
LEMMA StateStep ==
    ASSUME IInv, NEW k \in Tcbs, NEW s \in States \ {"CLOSED", "LISTEN"},
           tcbs[k].state \notin {"CLOSED", "LISTEN"},
           tcbs[k].state \in {"ESTABLISHED", "CLOSE_WAIT"} => s \in {"ESTABLISHED", "CLOSE_WAIT"},
           tcbs[k].state \in Closing => s \in Closing,
           tcbs' = [tcbs EXCEPT ![k].state = s], UNCHANGED <<socks, connecting, died>>
    PROVE  IInv'
  <1>1. /\ \A c \in Tcbs : tcbs[c] \in TcbType
        /\ socks' = socks /\ connecting' = connecting /\ died' = died
    BY Zenon DEF IInv, TypeOK
  <1>2. \A c \in Tcbs :
          /\ tcbs'[c] \in TcbType
          /\ c # k => tcbs'[c] = tcbs[c]
          /\ tcbs'[c].state = IF c = k THEN s ELSE tcbs[c].state
          /\ tcbs'[c].active = tcbs[c].active /\ tcbs'[c].sock = tcbs[c].sock
          /\ tcbs'[c].listener = tcbs[c].listener /\ tcbs'[c].backlog = tcbs[c].backlog
          /\ tcbs'[c].acceptq = tcbs[c].acceptq
    BY <1>1 DEF IInv, TypeOK, TcbType
  <1>3. TypeOK'
    <2>1. tcbs' = [c \in Tcbs |-> tcbs'[c]]
      BY ZenonT(60) DEF IInv, TypeOK
    <2> QED
      BY <1>1, <1>2, <2>1, Zenon DEF IInv, TypeOK
  <1>4. FreeIsEmpty' /\ ListenersAreTop' /\ UsedHasTcb' /\ ChildUnowned'
    BY <1>1, <1>2 DEF IInv, FreeIsEmpty, ListenersAreTop, UsedHasTcb, ChildUnowned
  <1>5. OwnersAgree'
    BY <1>1, <1>2, SMTT(60) DEF IInv, OwnersAgree, SocketOwnsTcb, TypeOK, SockType
  <1>6. ListenerLive' /\ NoOrphan'
    BY <1>1, <1>2, SMTT(60) DEF IInv, ListenerLive, NoOrphan, TcbType
  <1>7. QueueHoldsChildren'
    <2>1. ASSUME NEW c \in Tcbs PROVE QueueOk(c)'
      <3>1. ~died => \A n \in 1..Len(tcbs[c].acceptq) :
               /\ tcbs'[tcbs[c].acceptq[n]].listener = tcbs[tcbs[c].acceptq[n]].listener
               /\ tcbs'[tcbs[c].acceptq[n]].state \in {"ESTABLISHED", "CLOSE_WAIT"}
        <4> SUFFICES ASSUME ~died, NEW n \in 1..Len(tcbs[c].acceptq)
                     PROVE  /\ tcbs'[tcbs[c].acceptq[n]].listener = tcbs[tcbs[c].acceptq[n]].listener
                            /\ tcbs'[tcbs[c].acceptq[n]].state \in {"ESTABLISHED", "CLOSE_WAIT"}
          BY Zenon
        <4> DEFINE h == tcbs[c].acceptq[n]
        <4>1. h \in Tcbs /\ tcbs[h].state \in {"ESTABLISHED", "CLOSE_WAIT"}
          BY QueueFacts, Zenon
        <4> HIDE DEF h
        <4>2. tcbs'[h].listener = tcbs[h].listener /\ tcbs'[h].state \in {"ESTABLISHED", "CLOSE_WAIT"}
          BY <1>2, <4>1, ZenonT(60)
        <4> QED
          BY <4>2, Zenon DEF h
      <3> QED
        BY <1>1, <1>2, <3>1, QueueKept, Zenon
    <2> QED
      BY <1>3, <2>1, Zenon DEF QueueHoldsChildren, QueueOk
  <1> QED
    BY <1>3, <1>4, <1>5, <1>6, <1>7, Zenon DEF IInv

\* A new block in a free slot: for a socket, or a child of a listener.
LEMMA NewStep ==
    ASSUME IInv, NEW k \in Tcbs, ~tcbs[k].active, NEW b \in TcbType,
           tcbs' = [tcbs EXCEPT ![k] = b],
           b.active, b.state \in {"LISTEN", "SYN_SENT", "SYN_RCVD"}, b.acceptq = <<>>,
           \/ /\ b.sock = NULL /\ b.state # "LISTEN" /\ socks' = socks
              /\ b.listener \in Tcbs /\ tcbs[b.listener].state = "LISTEN"
           \/ /\ b.listener = NULL
              /\ \E i \in Socks, x \in SockType :
                    /\ b.sock = i /\ socks[i].tcb = NULL /\ x.used /\ x.tcb = k
                    /\ socks' = [socks EXCEPT ![i] = x],
           connecting' \in Socks \cup {NULL}, died' = died
    PROVE  IInv'
  <1>1. /\ \A c \in Tcbs : tcbs[c] \in TcbType
        /\ \A i \in Socks : socks[i] \in SockType
        /\ tcbs[k].state = "CLOSED" /\ tcbs[k].listener = NULL
    BY Zenon DEF IInv, TypeOK, FreeIsEmpty
  <1>2. \A c \in Tcbs : tcbs'[c] = IF c = k THEN b ELSE tcbs[c]
    BY Zenon DEF IInv, TypeOK
  <1>3. /\ \A i \in Socks : socks'[i] \in SockType
        /\ socks' = [i \in Socks |-> socks'[i]] /\ tcbs' = [c \in Tcbs |-> tcbs'[c]]
    BY <1>1, ZenonT(60) DEF IInv, TypeOK
  <1>4. TypeOK'
    BY <1>1, <1>2, <1>3, Zenon DEF IInv, TypeOK
  <1>5. FreeIsEmpty' /\ ListenersAreTop' /\ ChildUnowned'
    BY <1>2 DEF IInv, FreeIsEmpty, ListenersAreTop, ChildUnowned
  <1>6. UsedHasTcb'
    BY Zenon DEF IInv, UsedHasTcb, TypeOK
  <1>7. ListenerLive' /\ NoOrphan'
    <2>1. \A c \in Tcbs : tcbs[c].listener # k
      BY <1>1, ClearTypes, Zenon DEF IInv, ListenerLive
    <2>2. b.listener \in Tcbs => b.listener # k
      BY <1>1, ClearTypes, Zenon
    <2>3. ListenerLive'
      <3> SUFFICES ASSUME NEW c \in Tcbs, tcbs'[c].listener # NULL
                   PROVE  /\ tcbs'[tcbs'[c].listener].active
                          /\ tcbs'[tcbs'[c].listener].state = "LISTEN"
        BY Zenon DEF ListenerLive
      <3>1. CASE c = k
        BY <1>1, <1>2, <2>2, <3>1, ClearTypes, SMTT(60) DEF IInv, FreeIsEmpty
      <3>2. CASE c # k
        BY <1>1, <1>2, <2>1, <3>2, SMTT(60) DEF IInv, ListenerLive, TcbType
      <3> QED
        BY <3>1, <3>2, Zenon
    <2>4. NoOrphan'
      BY <1>2, ClearTypes DEF IInv, NoOrphan
    <2> QED
      BY <2>3, <2>4, Zenon
  <1>8. OwnersAgree'
    <2> SUFFICES ASSUME ~died PROVE (SocketOwnsTcb /\ \A c \in Tcbs :
                   (tcbs[c].active /\ tcbs[c].sock # NULL) => socks[tcbs[c].sock].tcb = c)'
      BY Zenon DEF OwnersAgree
    <2>1. /\ \A i \in Socks : socks[i].tcb # NULL =>
                /\ socks[i].tcb \in Tcbs /\ socks[i].tcb # k
                /\ tcbs[socks[i].tcb].active /\ tcbs[socks[i].tcb].sock = i
          /\ \A c \in Tcbs : tcbs[c].active /\ tcbs[c].sock # NULL => socks[tcbs[c].sock].tcb = c
      BY <1>1, Zenon DEF IInv, OwnersAgree, SocketOwnsTcb, SockType
    <2>2. CASE b.sock = NULL /\ socks' = socks
      BY <1>1, <1>2, <2>1, <2>2, ClearTypes, SMTT(60) DEF SocketOwnsTcb
    <2>3. ASSUME NEW i \in Socks, NEW x \in SockType, b.sock = i, socks[i].tcb = NULL, x.tcb = k,
                 socks' = [socks EXCEPT ![i] = x]
          PROVE  (SocketOwnsTcb /\ \A c \in Tcbs :
                   (tcbs[c].active /\ tcbs[c].sock # NULL) => socks[tcbs[c].sock].tcb = c)'
      <3>1. \A j \in Socks : socks'[j] = IF j = i THEN x ELSE socks[j]
        BY <2>3, Zenon DEF IInv, TypeOK
      <3>2. \A c \in Tcbs : tcbs[c].sock \in Socks \cup {NULL}
        BY <1>1, Zenon DEF TcbType
      <3> QED
        BY <1>1, <1>2, <2>1, <2>3, <3>1, <3>2, ClearTypes DEF SocketOwnsTcb
    <2> QED
      BY <2>2, <2>3, Zenon
  <1>9. QueueHoldsChildren'
    <2>1. \A l \in Tcbs : \A n \in 1..Len(tcbs[l].acceptq) : tcbs[l].acceptq[n] \in Tcbs
      BY <1>1, SMTT(60) DEF TcbType
    <2>2. ~died => \A l \in Tcbs : \A n \in 1..Len(tcbs[l].acceptq) : tcbs[l].acceptq[n] # k
      BY <1>1, SMTT(60) DEF IInv, QueueHoldsChildren
    <2>3. Len(b.acceptq) = 0 /\ b.backlog \in Nat
      BY TableConstants DEF TcbType
    <2>4. ASSUME NEW c \in Tcbs, c # k PROVE QueueOk(c)'
      <3>1. tcbs'[c].acceptq = tcbs[c].acceptq /\ tcbs'[c].backlog = tcbs[c].backlog
        BY <1>2, <2>4, Zenon
      <3>2. ~died => \A n \in 1..Len(tcbs[c].acceptq) :
               tcbs'[tcbs[c].acceptq[n]] = tcbs[tcbs[c].acceptq[n]]
        BY <1>2, <2>1, <2>2, ZenonT(60)
      <3>3. ~died => \A n \in 1..Len(tcbs[c].acceptq) :
               tcbs[tcbs[c].acceptq[n]].state \in {"ESTABLISHED", "CLOSE_WAIT"}
        BY QueueFacts, Zenon
      <3> QED
        BY <3>1, <3>2, <3>3, QueueKept, ZenonT(60)
    <2>5. QueueOk(k)'
      <3>1. tcbs'[k] = b
        BY <1>2, Zenon
      <3>2. Len(b.acceptq) <= b.backlog /\ \A n : n \notin 1..Len(b.acceptq)
        BY <2>3
      <3> QED
        BY <3>1, <3>2, Zenon DEF QueueOk
    <2>6. \A c \in Tcbs : QueueOk(c)'
      BY <2>4, <2>5, Zenon
    <2> QED
      BY <1>4, <2>6, Zenon DEF QueueHoldsChildren, QueueOk
  <1> QED
    BY <1>4, <1>5, <1>6, <1>7, <1>8, <1>9, Zenon DEF IInv

\* A call that touches no control block and no pointer to one.
LEMMA SockStep ==
    ASSUME IInv, NEW i \in Socks, NEW x \in SockType, x.tcb = socks[i].tcb,
           x.tcb # NULL => x.used,
           socks' = [socks EXCEPT ![i] = x], UNCHANGED <<tcbs, connecting, died>>
    PROVE  IInv'
  <1>1. /\ \A j \in Socks : socks'[j] = IF j = i THEN x ELSE socks[j]
        /\ socks' \in [Socks -> SockType]
    BY Zenon DEF IInv, TypeOK
  <1>2. \A j \in Socks : socks'[j].tcb = socks[j].tcb
    BY <1>1, Zenon
  <1>3. TypeOK'
    BY <1>1, Zenon DEF IInv, TypeOK
  <1>4. FreeIsEmpty' /\ ListenersAreTop' /\ UsedHasTcb' /\ ChildUnowned'
    BY <1>1, Zenon DEF IInv, FreeIsEmpty, ListenersAreTop, UsedHasTcb, ChildUnowned
  <1>5. OwnersAgree'
    BY <1>2, SMTT(60) DEF IInv, OwnersAgree, SocketOwnsTcb, TypeOK, TcbType
  <1>6. ListenerLive' /\ NoOrphan' /\ QueueHoldsChildren'
    BY <1>3 DEF IInv, ListenerLive, NoOrphan, QueueHoldsChildren
  <1> QED
    BY <1>3, <1>4, <1>5, <1>6, Zenon DEF IInv

\* The table after a handshake that completes into the queue of its listener.
Enqueued(k, l, s) ==
    /\ tcbs' \in [Tcbs -> TcbType]
    /\ \A c \in Tcbs :
          /\ tcbs'[c].state = IF c = k THEN s ELSE tcbs[c].state
          /\ tcbs'[c].acceptq = IF c = l THEN Append(tcbs[l].acceptq, k) ELSE tcbs[c].acceptq
          /\ tcbs'[c].active = tcbs[c].active /\ tcbs'[c].sock = tcbs[c].sock
          /\ tcbs'[c].listener = tcbs[c].listener /\ tcbs'[c].backlog = tcbs[c].backlog

\* A block with another state.
LEMMA WithState ==
    ASSUME NEW b \in TcbType, NEW s \in States, NEW x, x = [b EXCEPT !.state = s]
    PROVE  /\ x \in TcbType /\ x.state = s /\ x.active = b.active /\ x.sock = b.sock
           /\ x.listener = b.listener /\ x.backlog = b.backlog /\ x.acceptq = b.acceptq
  BY Zenon DEF TcbType

\* What a completed handshake does to the table, entry by entry.
LEMMA EnqueueEffect ==
    ASSUME IInv, NEW k \in Tcbs, NEW l \in Tcbs, l # k, NEW s \in States,
           tcbs' = [tcbs EXCEPT ![k].state = s, ![l].acceptq = Append(@, k)]
    PROVE  Enqueued(k, l, s)
  <1>1. /\ \A c \in Tcbs : tcbs[c] \in TcbType
        /\ tcbs \in [Tcbs -> TcbType]
    BY Zenon DEF IInv, TypeOK
  <1>2. /\ tcbs' = [c \in Tcbs |-> tcbs'[c]]
        /\ \A c \in Tcbs : c # k /\ c # l => tcbs'[c] = tcbs[c]
        /\ tcbs'[k] = [tcbs[k] EXCEPT !.state = s]
        /\ tcbs'[l] = [tcbs[l] EXCEPT !.acceptq = Append(@, k)]
    BY <1>1, ZenonT(60)
  <1>3. /\ tcbs'[k] \in TcbType /\ tcbs'[k].state = s
        /\ tcbs'[k].active = tcbs[k].active /\ tcbs'[k].sock = tcbs[k].sock
        /\ tcbs'[k].listener = tcbs[k].listener /\ tcbs'[k].backlog = tcbs[k].backlog
        /\ tcbs'[k].acceptq = tcbs[k].acceptq
    BY <1>1, <1>2, WithState
  <1>4. /\ tcbs'[l] \in TcbType /\ tcbs'[l].state = tcbs[l].state
        /\ tcbs'[l].active = tcbs[l].active /\ tcbs'[l].sock = tcbs[l].sock
        /\ tcbs'[l].listener = tcbs[l].listener /\ tcbs'[l].backlog = tcbs[l].backlog
        /\ tcbs'[l].acceptq = Append(tcbs[l].acceptq, k)
    <2>1. Append(tcbs[l].acceptq, k) \in Seq(Tcbs)
      BY <1>1 DEF TcbType
    <2> QED
      BY <1>1, <1>2, <2>1, ZenonT(60) DEF TcbType
  <1>5. \A c \in Tcbs : tcbs'[c] \in TcbType
    BY <1>1, <1>2, <1>3, <1>4, Zenon
  <1> QED
    BY <1>2, <1>3, <1>4, <1>5, ZenonT(60) DEF Enqueued

\* A child joins the queue of its listener, which has room for it.
LEMMA QueueStep ==
    ASSUME IInv, NEW k \in Tcbs, NEW l \in Tcbs, NEW s \in {"ESTABLISHED", "CLOSE_WAIT"},
           tcbs[k].state = "SYN_RCVD", tcbs[k].listener = l, QueueRoom(l),
           Enqueued(k, l, s), UNCHANGED <<socks, connecting, died>>
    PROVE  IInv'
  <1>1. /\ \A c \in Tcbs : tcbs[c] \in TcbType
        /\ l # k /\ l # NULL /\ tcbs[l].state = "LISTEN"
        /\ tcbs[l].acceptq \in Seq(Tcbs)
    BY ClearTypes, Zenon DEF IInv, TypeOK, TcbType, ListenerLive
  <1>2. /\ tcbs' \in [Tcbs -> TcbType]
        /\ \A c \in Tcbs :
             /\ tcbs'[c].state = IF c = k THEN s ELSE tcbs[c].state
             /\ tcbs'[c].acceptq = IF c = l THEN Append(tcbs[l].acceptq, k) ELSE tcbs[c].acceptq
             /\ tcbs'[c].active = tcbs[c].active /\ tcbs'[c].sock = tcbs[c].sock
             /\ tcbs'[c].listener = tcbs[c].listener /\ tcbs'[c].backlog = tcbs[c].backlog
    BY Zenon DEF Enqueued
  <1>3. TypeOK'
    BY <1>2, Zenon DEF IInv, TypeOK
  <1>4. FreeIsEmpty' /\ ListenersAreTop' /\ UsedHasTcb' /\ ChildUnowned'
    BY <1>1, <1>2 DEF IInv, FreeIsEmpty, ListenersAreTop, UsedHasTcb, ChildUnowned
  <1>5. OwnersAgree'
    <2>1. \A j \in Socks : socks[j].tcb # NULL => socks[j].tcb \in Tcbs
      BY Zenon DEF IInv, TypeOK, SockType
    <2> QED
      BY <1>2, <2>1 DEF IInv, OwnersAgree, SocketOwnsTcb
  <1>6. ListenerLive' /\ NoOrphan'
    <2>1. \A c \in Tcbs : tcbs[c].listener # NULL => tcbs[c].listener \in Tcbs
      BY <1>1, Zenon DEF TcbType
    <2>2. ListenerLive'
      BY <1>2, <2>1 DEF IInv, ListenerLive
    <2>3. NoOrphan'
      BY <1>1, <1>2, SMTT(60) DEF IInv, NoOrphan
    <2> QED
      BY <2>2, <2>3, Zenon
  <1>7. QueueHoldsChildren'
    <2>1. ~died => \A c \in Tcbs : \A n \in 1..Len(tcbs[c].acceptq) :
                     tcbs[c].acceptq[n] \in Tcbs /\ tcbs[c].acceptq[n] # k
      BY <1>1, QueueFacts, ZenonT(60)
    <2> SUFFICES ASSUME NEW c \in Tcbs
                 PROVE  /\ Len(tcbs'[c].acceptq) <= tcbs'[c].backlog
                        /\ ~died => \A n \in 1..Len(tcbs'[c].acceptq) :
                              /\ tcbs'[tcbs'[c].acceptq[n]].listener = c
                              /\ tcbs'[tcbs'[c].acceptq[n]].state \in {"ESTABLISHED", "CLOSE_WAIT"}
                              /\ \A m \in 1..Len(tcbs'[c].acceptq) :
                                    tcbs'[c].acceptq[m] = tcbs'[c].acceptq[n] => m = n
      BY <1>3, Zenon DEF QueueHoldsChildren
    <2>2. CASE c # l
      <3>1. tcbs'[c].acceptq = tcbs[c].acceptq /\ tcbs'[c].backlog = tcbs[c].backlog
        BY <1>2, <2>2, Zenon
      <3>2. ~died => \A n \in 1..Len(tcbs[c].acceptq) :
               /\ tcbs'[tcbs[c].acceptq[n]].listener = tcbs[tcbs[c].acceptq[n]].listener
               /\ tcbs'[tcbs[c].acceptq[n]].state \in {"ESTABLISHED", "CLOSE_WAIT"}
        <4> SUFFICES ASSUME ~died, NEW n \in 1..Len(tcbs[c].acceptq)
                     PROVE  /\ tcbs'[tcbs[c].acceptq[n]].listener = tcbs[tcbs[c].acceptq[n]].listener
                            /\ tcbs'[tcbs[c].acceptq[n]].state \in {"ESTABLISHED", "CLOSE_WAIT"}
          BY Zenon
        <4> DEFINE h == tcbs[c].acceptq[n]
        <4>1. h \in Tcbs /\ tcbs[h].state \in {"ESTABLISHED", "CLOSE_WAIT"} /\ h # k
          BY <2>1, QueueFacts, Zenon
        <4> HIDE DEF h
        <4>2. tcbs'[h].listener = tcbs[h].listener /\ tcbs'[h].state \in {"ESTABLISHED", "CLOSE_WAIT"}
          BY <1>2, <4>1, Zenon
        <4> QED
          BY <4>2, Zenon DEF h
      <3> QED
        BY <3>1, <3>2, QueueKept, ZenonT(60) DEF QueueOk
    <2>3. CASE c = l
      <3> DEFINE q == tcbs[l].acceptq
      <3>1. /\ tcbs'[c].acceptq = Append(q, k) /\ Len(Append(q, k)) = Len(q) + 1
            /\ Len(q) \in Nat
            /\ \A n \in 1..(Len(q) + 1) : Append(q, k)[n] = IF n = Len(q) + 1 THEN k ELSE q[n]
        <4>1. tcbs'[c].acceptq = Append(q, k)
          BY <1>2, <2>3, ZenonT(60)
        <4>2. q \in Seq(Tcbs)
          BY <1>1, Zenon
        <4> HIDE DEF q
        <4> QED
          BY <4>1, <4>2
      <3>2. Len(q) < tcbs[l].backlog /\ tcbs'[c].backlog = tcbs[l].backlog
        BY <1>1, <1>2, <2>3, Zenon DEF QueueRoom
      <3>3. ~died => \A n \in 1..Len(q) :
                       /\ q[n] \in Tcbs /\ q[n] # k /\ tcbs[q[n]].listener = l
                       /\ tcbs[q[n]].state \in {"ESTABLISHED", "CLOSE_WAIT"}
                       /\ \A m \in 1..Len(q) : q[m] = q[n] => m = n
        <4>1. ~died => \A n \in 1..Len(q) :
                         /\ tcbs[q[n]].listener = l
                         /\ tcbs[q[n]].state \in {"ESTABLISHED", "CLOSE_WAIT"}
                         /\ \A m \in 1..Len(q) : q[m] = q[n] => m = n
          BY QueueFacts, Zenon
        <4> QED
          BY <2>1, <4>1, ZenonT(60)
      <3>4. Len(tcbs'[c].acceptq) <= tcbs'[c].backlog
        BY <1>1, <3>1, <3>2, TableConstants, SMTT(60) DEF TcbType
      <3>5. ASSUME ~died, NEW n \in 1..(Len(q) + 1)
            PROVE  /\ tcbs'[Append(q, k)[n]].listener = c
                   /\ tcbs'[Append(q, k)[n]].state \in {"ESTABLISHED", "CLOSE_WAIT"}
                   /\ \A m \in 1..(Len(q) + 1) : Append(q, k)[m] = Append(q, k)[n] => m = n
        <4> HIDE DEF q
        <4>1. CASE n = Len(q) + 1
          BY <1>2, <2>3, <3>1, <3>3, <3>5, <4>1, SMTT(60)
        <4>2. CASE n \in 1..Len(q)
          BY <1>2, <2>3, <3>1, <3>3, <3>5, <4>2
        <4> QED
          BY <3>1, <4>1, <4>2, SMTT(60)
      <3> HIDE DEF q
      <3> QED
        BY <3>1, <3>4, <3>5
    <2> QED
      BY <2>2, <2>3, Zenon
  <1> QED
    BY <1>3, <1>4, <1>5, <1>6, <1>7, Zenon DEF IInv

-----------------------------------------------------------------------------
(* pf_accept and pf_close.                                                 *)

\* The table after pf_accept has given child, the first of l's queue, to socket
\* n.
Accepted(l, child, n) ==
    /\ tcbs' \in [Tcbs -> TcbType]
    /\ \A c \in Tcbs :
          /\ tcbs'[c].active = tcbs[c].active /\ tcbs'[c].state = tcbs[c].state
          /\ tcbs'[c].backlog = tcbs[c].backlog
          /\ tcbs'[c].sock = IF c = child THEN n ELSE tcbs[c].sock
          /\ tcbs'[c].listener = IF c = child THEN NULL ELSE tcbs[c].listener
          /\ tcbs'[c].acceptq = IF c = l THEN Tail(tcbs[l].acceptq) ELSE tcbs[c].acceptq

\* Taking the first element off a queue.
LEMMA TailShifts ==
    ASSUME NEW q \in Seq(Tcbs), q # <<>>
    PROVE  /\ Head(q) \in Tcbs /\ Head(q) = q[1] /\ Tail(q) \in Seq(Tcbs)
           /\ Shifted(Tail(q), q, 1)
  <1>1. Len(q) \in Nat /\ Len(q) >= 1
    BY SeqEmpty
  <1>2. /\ Len(Tail(q)) = Len(q) - 1
        /\ \A n \in 1..(Len(q) - 1) : Tail(q)[n] = q[n + 1]
        /\ Head(q) \in Tcbs /\ Head(q) = q[1] /\ Tail(q) \in Seq(Tcbs)
    BY <1>1, SeqTail
  <1> QED
    BY <1>1, <1>2 DEF Shifted

\* The table t with which pf_accept goes on.
Popped(l, t) ==
    /\ t \in [Tcbs -> TcbType]
    /\ \A c \in Tcbs :
          /\ t[c].active = tcbs[c].active /\ t[c].state = tcbs[c].state
          /\ t[c].backlog = tcbs[c].backlog /\ t[c].sock = tcbs[c].sock
          /\ t[c].listener = tcbs[c].listener
          /\ t[c].acceptq = IF c = l THEN Tail(tcbs[l].acceptq) ELSE tcbs[c].acceptq

\* Taking a child off a queue changes that queue only.
LEMMA PopEffect ==
    ASSUME IInv, NEW l \in Tcbs, tcbs[l].acceptq # <<>>,
           NEW t, t = [tcbs EXCEPT ![l].acceptq = Tail(@)]
    PROVE  Popped(l, t)
  <1>1. tcbs \in [Tcbs -> TcbType] /\ \A c \in Tcbs : tcbs[c] \in TcbType
    BY Zenon DEF IInv, TypeOK
  <1>2. Tail(tcbs[l].acceptq) \in Seq(Tcbs)
    BY <1>1, TailShifts, Zenon DEF TcbType
  <1> QED
    BY <1>1, <1>2, ZenonT(60) DEF TcbType, Popped

\* What pf_accept does to the table, entry by entry.
LEMMA AcceptEffect ==
    ASSUME NEW l \in Tcbs, NEW child \in Tcbs, NEW n \in Socks, NEW t, Popped(l, t),
           tcbs' = [t EXCEPT ![child].sock = n, ![child].listener = NULL]
    PROVE  Accepted(l, child, n)
  <1>1. t \in [Tcbs -> TcbType] /\ t[child] \in TcbType
    BY Zenon DEF Popped
  <1>2. /\ tcbs' = [c \in Tcbs |-> tcbs'[c]]
        /\ \A c \in Tcbs : c # child => tcbs'[c] = t[c]
        /\ tcbs'[child] = [t[child] EXCEPT !.sock = n, !.listener = NULL]
    BY <1>1, ZenonT(60)
  <1>3. /\ tcbs'[child] \in TcbType /\ tcbs'[child].sock = n /\ tcbs'[child].listener = NULL
        /\ tcbs'[child].active = t[child].active /\ tcbs'[child].state = t[child].state
        /\ tcbs'[child].backlog = t[child].backlog /\ tcbs'[child].acceptq = t[child].acceptq
    <2>1. tcbs'[child] = [active |-> t[child].active, state |-> t[child].state, sock |-> n,
                          port |-> t[child].port, peer |-> t[child].peer, listener |-> NULL,
                          backlog |-> t[child].backlog, acceptq |-> t[child].acceptq]
      BY <1>1, ZenonT(60) DEF TcbType
    <2> QED
      BY <1>1, <2>1, Zenon DEF TcbType
  <1>4. \A c \in Tcbs : tcbs'[c] \in TcbType
    BY <1>1, <1>2, <1>3, Zenon
  <1>5. tcbs' \in [Tcbs -> TcbType]
    BY <1>2, <1>4, ZenonT(60)
  <1>6. \A c \in Tcbs :
          /\ t[c].active = tcbs[c].active /\ t[c].state = tcbs[c].state
          /\ t[c].backlog = tcbs[c].backlog /\ t[c].sock = tcbs[c].sock
          /\ t[c].listener = tcbs[c].listener
          /\ t[c].acceptq = IF c = l THEN Tail(tcbs[l].acceptq) ELSE tcbs[c].acceptq
    BY Zenon DEF Popped
  <1>7. ASSUME NEW c \in Tcbs
        PROVE  /\ tcbs'[c].active = tcbs[c].active /\ tcbs'[c].state = tcbs[c].state
               /\ tcbs'[c].backlog = tcbs[c].backlog
               /\ tcbs'[c].sock = IF c = child THEN n ELSE tcbs[c].sock
               /\ tcbs'[c].listener = IF c = child THEN NULL ELSE tcbs[c].listener
               /\ tcbs'[c].acceptq = IF c = l THEN Tail(tcbs[l].acceptq) ELSE tcbs[c].acceptq
    <2>1. CASE c = child
      BY <1>3, <1>6, <2>1, Zenon
    <2>2. CASE c # child
      BY <1>2, <1>6, <2>2, ZenonT(60)
    <2> QED
      BY <2>1, <2>2, Zenon
  <1> QED
    BY <1>5, <1>7, Zenon DEF Accepted

\* pf_accept gives the first child of the queue a free socket.
LEMMA AcceptStep ==
    ASSUME IInv, NEW l \in Tcbs, tcbs[l].state = "LISTEN", tcbs[l].acceptq # <<>>,
           NEW n \in Socks, ~socks[n].used, Accepted(l, Head(tcbs[l].acceptq), n),
           NEW port \in Ports \cup {NoPort},
           socks' = [socks EXCEPT ![n] = [used |-> TRUE, port |-> port,
                                          tcb |-> Head(tcbs[l].acceptq)]],
           UNCHANGED <<connecting, died>>
    PROVE  IInv'
  <1> DEFINE q == tcbs[l].acceptq
  <1> DEFINE child == Head(q)
  <1>1. /\ \A c \in Tcbs : tcbs[c] \in TcbType
        /\ \A i \in Socks : socks[i] \in SockType
        /\ q \in Seq(Tcbs) /\ child \in Tcbs /\ child = q[1] /\ Len(q) \in Nat /\ Len(q) >= 1
        /\ Shifted(Tail(q), q, 1) /\ Tail(q) \in Seq(Tcbs)
    <2>1. \A c \in Tcbs : tcbs[c] \in TcbType
      BY Zenon DEF IInv, TypeOK
    <2>2. q \in Seq(Tcbs)
      BY <2>1, Zenon DEF TcbType
    <2> HIDE DEF q
    <2>3. q # <<>>
      BY Zenon DEF q
    <2>4. Len(q) \in Nat /\ Len(q) >= 1
      BY <2>2, <2>3, SeqEmpty, SMTT(60)
    <2> QED
      BY <2>1, <2>2, <2>3, <2>4, TailShifts, Zenon DEF IInv, TypeOK
  <1>2. \A c \in Tcbs :
          /\ tcbs'[c].active = tcbs[c].active /\ tcbs'[c].state = tcbs[c].state
          /\ tcbs'[c].backlog = tcbs[c].backlog
          /\ tcbs'[c].sock = IF c = child THEN n ELSE tcbs[c].sock
          /\ tcbs'[c].listener = IF c = child THEN NULL ELSE tcbs[c].listener
          /\ tcbs'[c].acceptq = IF c = l THEN Tail(q) ELSE tcbs[c].acceptq
    BY Zenon DEF Accepted
  <1>3. ~died => /\ tcbs[child].listener = l /\ tcbs[child].active /\ tcbs[child].sock = NULL
                 /\ \A c \in Tcbs : \A m \in 1..Len(tcbs[c].acceptq) :
                       /\ tcbs[c].acceptq[m] \in Tcbs
                       /\ tcbs[c].acceptq[m] = child => c = l /\ m = 1
    <2> SUFFICES ASSUME ~died
                 PROVE  /\ tcbs[child].listener = l /\ tcbs[child].active /\ tcbs[child].sock = NULL
                        /\ \A c \in Tcbs : \A m \in 1..Len(tcbs[c].acceptq) :
                              /\ tcbs[c].acceptq[m] \in Tcbs
                              /\ tcbs[c].acceptq[m] = child => c = l /\ m = 1
      BY Zenon
    <2>1. \A c \in Tcbs : \A m \in 1..Len(tcbs[c].acceptq) :
            /\ tcbs[c].acceptq[m] \in Tcbs /\ tcbs[tcbs[c].acceptq[m]].listener = c
            /\ tcbs[tcbs[c].acceptq[m]].state \in {"ESTABLISHED", "CLOSE_WAIT"}
            /\ \A o \in 1..Len(tcbs[c].acceptq) : tcbs[c].acceptq[o] = tcbs[c].acceptq[m] => o = m
      BY QueueFacts, Zenon
    <2>2. 1 \in 1..Len(q)
      BY <1>1, SMTT(60)
    <2>3. tcbs[child].listener = l /\ tcbs[child].state \in {"ESTABLISHED", "CLOSE_WAIT"}
      <3>1. tcbs[q[1]].listener = l /\ tcbs[q[1]].state \in {"ESTABLISHED", "CLOSE_WAIT"}
        BY <2>1, <2>2, Zenon
      <3> QED
        BY <1>1, <3>1, Zenon
    <2>4. tcbs[child].active /\ tcbs[child].sock = NULL
      BY <1>1, <2>3, ClearTypes, Zenon DEF IInv, FreeIsEmpty, ChildUnowned
    <2>5. ASSUME NEW c \in Tcbs, NEW m \in 1..Len(tcbs[c].acceptq), tcbs[c].acceptq[m] = child
          PROVE  c = l /\ m = 1
      <3>0. tcbs[tcbs[c].acceptq[m]].listener = c
        BY <2>1, Zenon
      <3>1. c = l
        BY <2>3, <2>5, <3>0, Zenon
      <3>2. m \in 1..Len(q) /\ q[m] = q[1]
        BY <1>1, <2>5, <3>1, Zenon
      <3>3. \A o \in 1..Len(q) : \A p \in 1..Len(q) : q[p] = q[o] => p = o
        BY <2>1, Zenon
      <3> HIDE DEF q
      <3> QED
        BY <2>2, <3>1, <3>2, <3>3, Zenon
    <2> HIDE DEF child
    <2>6. \A c \in Tcbs : \A m \in 1..Len(tcbs[c].acceptq) : tcbs[c].acceptq[m] \in Tcbs
      BY <2>1, Zenon
    <2> QED
      BY <2>3, <2>4, <2>5, <2>6, Zenon
  <1>4. /\ socks' \in [Socks -> SockType]
        /\ \A i \in Socks : i # n => socks'[i] = socks[i]
        /\ socks'[n].tcb = child /\ socks'[n].used
        /\ socks[n].tcb = NULL
    BY <1>1, Zenon DEF IInv, TypeOK, SockType, UsedHasTcb
  <1> HIDE DEF q, child
  <1>5. TypeOK'
    BY <1>4, Zenon DEF IInv, TypeOK, Accepted
  <1>6. FreeIsEmpty' /\ ListenersAreTop' /\ UsedHasTcb' /\ ChildUnowned'
    <2>1. FreeIsEmpty'
      BY <1>2 DEF IInv, FreeIsEmpty
    <2>2. ListenersAreTop' /\ UsedHasTcb'
      BY <1>2, <1>4 DEF IInv, ListenersAreTop, UsedHasTcb
    <2>3. ChildUnowned'
      BY <1>2 DEF IInv, ChildUnowned
    <2> QED
      BY <2>1, <2>2, <2>3, Zenon
  <1>7. ListenerLive' /\ NoOrphan'
    <2>1. \A c \in Tcbs : tcbs[c].listener # NULL => tcbs[c].listener \in Tcbs
      BY <1>1, Zenon DEF TcbType
    <2>2. ListenerLive'
      BY <1>2, <2>1, SMTT(60) DEF IInv, ListenerLive
    <2>3. NoOrphan'
      BY <1>2, ClearTypes, SMTT(60) DEF IInv, NoOrphan
    <2> QED
      BY <2>2, <2>3, Zenon
  <1>8. OwnersAgree'
    <2> SUFFICES ASSUME ~died PROVE (SocketOwnsTcb /\ \A c \in Tcbs :
                   (tcbs[c].active /\ tcbs[c].sock # NULL) => socks[tcbs[c].sock].tcb = c)'
      BY Zenon DEF OwnersAgree
    <2>1. /\ \A i \in Socks : socks[i].tcb # NULL =>
                /\ socks[i].tcb \in Tcbs
                /\ tcbs[socks[i].tcb].active /\ tcbs[socks[i].tcb].sock = i
          /\ \A c \in Tcbs : tcbs[c].active /\ tcbs[c].sock # NULL =>
                tcbs[c].sock \in Socks /\ socks[tcbs[c].sock].tcb = c
      BY <1>1, Zenon DEF IInv, OwnersAgree, SocketOwnsTcb, SockType, TcbType
    <2>2. child \in Tcbs
      BY <1>1, Zenon
    <2>3. SocketOwnsTcb'
      <3> SUFFICES ASSUME NEW i \in Socks, socks'[i].tcb # NULL
                   PROVE  tcbs'[socks'[i].tcb].active /\ tcbs'[socks'[i].tcb].sock = i
        BY Zenon DEF SocketOwnsTcb
      <3>1. CASE i = n
        BY <1>2, <1>3, <1>4, <2>2, <3>1, SMTT(60)
      <3>2. CASE i # n
        <4>1. socks'[i] = socks[i] /\ socks[i].tcb # child
          BY <1>3, <1>4, <2>1, <3>2, ClearTypes, SMTT(60)
        <4> QED
          BY <1>2, <2>1, <4>1, SMTT(60)
      <3> QED
        BY <3>1, <3>2, Zenon
    <2>4. ASSUME NEW c \in Tcbs, tcbs'[c].active, tcbs'[c].sock # NULL
          PROVE  socks'[tcbs'[c].sock].tcb = c
      <3>1. CASE c = child
        BY <1>2, <1>4, <3>1, ZenonT(60)
      <3>2. CASE c # child
        <4>1. tcbs'[c].sock = tcbs[c].sock /\ tcbs[c].active
          BY <1>2, <2>4, <3>2, Zenon
        <4>2. tcbs[c].sock # n
          BY <1>4, <2>1, <2>4, <4>1, ClearTypes, SMTT(60)
        <4> QED
          BY <1>4, <2>1, <2>4, <4>1, <4>2, SMTT(60)
      <3> QED
        BY <3>1, <3>2, Zenon
    <2> QED
      BY <2>3, <2>4, Zenon
  <1>9. QueueHoldsChildren'
    <2> SUFFICES ASSUME NEW c \in Tcbs
                 PROVE  /\ Len(tcbs'[c].acceptq) <= tcbs'[c].backlog
                        /\ ~died => \A m \in 1..Len(tcbs'[c].acceptq) :
                              /\ tcbs'[tcbs'[c].acceptq[m]].listener = c
                              /\ tcbs'[tcbs'[c].acceptq[m]].state \in {"ESTABLISHED", "CLOSE_WAIT"}
                              /\ \A o \in 1..Len(tcbs'[c].acceptq) :
                                    tcbs'[c].acceptq[o] = tcbs'[c].acceptq[m] => o = m
      BY <1>5, Zenon DEF QueueHoldsChildren
    <2>1. CASE c # l
      <3>1. tcbs'[c].acceptq = tcbs[c].acceptq /\ tcbs'[c].backlog = tcbs[c].backlog
        BY <1>2, <2>1, Zenon
      <3> QED
        <4>1. ~died => \A n0 \in 1..Len(tcbs[c].acceptq) :
                 tcbs[c].acceptq[n0] \in Tcbs /\ tcbs[c].acceptq[n0] # child
          BY <1>3, <2>1, Zenon
        <4>2. ~died => \A n0 \in 1..Len(tcbs[c].acceptq) :
                 tcbs[tcbs[c].acceptq[n0]].state \in {"ESTABLISHED", "CLOSE_WAIT"}
          BY QueueFacts, Zenon
        <4>3. ~died => \A n0 \in 1..Len(tcbs[c].acceptq) :
                 /\ tcbs'[tcbs[c].acceptq[n0]].listener = tcbs[tcbs[c].acceptq[n0]].listener
                 /\ tcbs'[tcbs[c].acceptq[n0]].state \in {"ESTABLISHED", "CLOSE_WAIT"}
          BY <1>2, <4>1, <4>2, ZenonT(60)
        <4> QED
          BY <3>1, <4>3, QueueKept, ZenonT(60) DEF QueueOk
    <2>2. CASE c = l
      <3> DEFINE r == Tail(q)
      <3>1. /\ Len(q) = Len(r) + 1 /\ \A m \in 1..Len(r) : r[m] = q[m + 1]
            /\ Len(r) \in Nat /\ Len(q) <= tcbs[l].backlog /\ tcbs[l].backlog \in Nat
        <4>1. Len(q) = Len(r) + 1 /\ \A m \in 1..Len(r) : r[m] = q[m + 1]
          BY <1>1, Zenon DEF Shifted
        <4>2. Len(q) <= tcbs[l].backlog /\ tcbs[l].backlog \in 0..TCP_ACCEPT_QLEN
          BY <1>1, QueueFacts, Zenon DEF TcbType, q
        <4>3. Len(r) \in Nat
          <5>1. r \in Seq(Tcbs)
            BY <1>1, Zenon
          <5> HIDE DEF r
          <5> QED
            BY <5>1
        <4>4. tcbs[l].backlog \in Nat
          BY <4>2, TableConstants
        <4> QED
          BY <4>1, <4>2, <4>3, <4>4, Zenon
      <3>2. tcbs'[c].acceptq = r /\ tcbs'[c].backlog = tcbs[l].backlog
        BY <1>2, <2>2, ZenonT(60)
      <3>3. ~died => \A m \in 1..Len(q) :
                       /\ q[m] \in Tcbs
                       /\ q[m] = child => m = 1
                       /\ tcbs[q[m]].listener = l
                       /\ tcbs[q[m]].state \in {"ESTABLISHED", "CLOSE_WAIT"}
                       /\ \A o \in 1..Len(q) : q[o] = q[m] => o = m
        <4>1. ~died => \A m \in 1..Len(q) :
                         /\ q[m] \in Tcbs /\ tcbs[q[m]].listener = l
                         /\ tcbs[q[m]].state \in {"ESTABLISHED", "CLOSE_WAIT"}
                         /\ \A o \in 1..Len(q) : q[o] = q[m] => o = m
          BY QueueFacts, ZenonT(60) DEF q
        <4>2. ~died => \A m \in 1..Len(q) : q[m] = child => m = 1
          BY <1>3, ZenonT(60) DEF q
        <4> QED
          BY <4>1, <4>2, ZenonT(60)
      <3> HIDE DEF r
      <3>4. ASSUME ~died, NEW m \in 1..Len(r)
            PROVE  /\ m + 1 \in 1..Len(q) /\ r[m] = q[m + 1]
                   /\ tcbs'[r[m]].listener = c
                   /\ tcbs'[r[m]].state \in {"ESTABLISHED", "CLOSE_WAIT"}
        <4>1. m + 1 \in 1..Len(q) /\ m + 1 # 1 /\ r[m] = q[m + 1]
          BY <3>1, <3>4, SMTT(60)
        <4>2. /\ r[m] \in Tcbs /\ r[m] # child /\ tcbs[r[m]].listener = l
              /\ tcbs[r[m]].state \in {"ESTABLISHED", "CLOSE_WAIT"}
          BY <1>3, <3>3, <3>4, <4>1, ZenonT(60)
        <4> QED
          BY <1>2, <2>2, <4>1, <4>2, Zenon
      <3>5. ASSUME ~died, NEW m \in 1..Len(r), NEW o \in 1..Len(r), r[o] = r[m]
            PROVE  o = m
        <4>1. /\ m + 1 \in 1..Len(q) /\ r[m] = q[m + 1]
              /\ o + 1 \in 1..Len(q) /\ r[o] = q[o + 1]
          BY <3>4, <3>5, Zenon
        <4>2. o + 1 = m + 1
          BY <3>3, <3>5, <4>1, Zenon
        <4> QED
          BY <3>1, <4>2, SMTT(60)
      <3>6. Len(r) <= tcbs[l].backlog
        BY <3>1, SMTT(60)
      <3> QED
        BY <3>2, <3>4, <3>5, <3>6, Zenon
    <2> QED
      BY <2>1, <2>2, Zenon
  <1> QED
    BY <1>5, <1>6, <1>7, <1>8, <1>9, Zenon DEF IInv

\* tcb_free by itself: what it needs is that no block goes while it is queued.
LEMMA FreeCall ==
    ASSUME IInv, NEW k \in Tcbs, tcb_free(k), connecting' \in Socks \cup {NULL},
           died' \in BOOLEAN, died => died', ~died' => tcbs[k].active /\ ~Queued(k)
    PROVE  IInv'
  <1>1. FreedTcbs(k) /\ FreedSocks(k)
    BY FreeEffect, Zenon
  <1>2. \A l \in Tcbs : tcbs'[l].acceptq = <<>> \/ tcbs'[l].acceptq = tcbs[l].acceptq
    BY Zenon DEF tcb_free, FreeTcbs, ClearTcb
  <1>3. ~died' => \A l \in Tcbs : \A n \in 1..Len(tcbs'[l].acceptq) : tcbs'[l].acceptq[n] # k
    BY <1>2 DEF Queued
  <1> QED
    BY <1>1, <1>3, FreeStep, Zenon

\* A child that waits in a queue is established and has no socket.
LEMMA QueuedChild ==
    ASSUME IInv, ~died, NEW k \in Tcbs, Queued(k)
    PROVE  tcbs[k].state \in {"ESTABLISHED", "CLOSE_WAIT"} /\ tcbs[k].sock = NULL
  <1>1. PICK l \in Tcbs : \E n \in 1..Len(tcbs[l].acceptq) : tcbs[l].acceptq[n] = k
    BY Zenon DEF Queued
  <1>2. tcbs[k].listener = l /\ tcbs[k].state \in {"ESTABLISHED", "CLOSE_WAIT"}
    BY <1>1, QueueFacts, SMTT(60)
  <1> QED
    BY <1>2, ClearTypes, Zenon DEF IInv, ChildUnowned

\* pf_accept aborts the child it took off the queue when no socket is free.
LEMMA AbortStep ==
    ASSUME IInv, NEW l \in Tcbs, tcbs[l].acceptq # <<>>, NEW t, Popped(l, t),
           tcbs' = FreeTcbs(t, Head(tcbs[l].acceptq)),
           socks' = Detached(socks, t, Head(tcbs[l].acceptq)), UNCHANGED <<connecting, died>>
    PROVE  IInv'
  <1> DEFINE q == tcbs[l].acceptq
  <1> DEFINE child == Head(q)
  <1> DEFINE D == Doomed(tcbs, child)
  <1>1. /\ \A c \in Tcbs : tcbs[c] \in TcbType /\ t[c] \in TcbType
        /\ \A i \in Socks : socks[i] \in SockType
        /\ q \in Seq(Tcbs)
    BY Zenon DEF IInv, TypeOK, Popped, TcbType
  <1>2. /\ child \in Tcbs /\ child = q[1] /\ Tail(q) \in Seq(Tcbs) /\ Shifted(Tail(q), q, 1)
        /\ Len(q) \in Nat /\ Len(q) >= 1
    <2>1. q # <<>>
      BY Zenon
    <2> HIDE DEF q
    <2>2. Len(q) \in Nat /\ Len(q) >= 1
      BY <1>1, <2>1, SeqEmpty
    <2>3. /\ Head(q) \in Tcbs /\ Head(q) = q[1] /\ Tail(q) \in Seq(Tcbs)
          /\ Shifted(Tail(q), q, 1)
      BY <1>1, <2>1, TailShifts, Zenon
    <2> QED
      BY <2>2, <2>3, Zenon
  <1>3. \A c \in Tcbs :
          /\ t[c].active = tcbs[c].active /\ t[c].state = tcbs[c].state
          /\ t[c].backlog = tcbs[c].backlog /\ t[c].sock = tcbs[c].sock
          /\ t[c].listener = tcbs[c].listener
          /\ t[c].acceptq = IF c = l THEN Tail(q) ELSE tcbs[c].acceptq
    BY Zenon DEF Popped
  <1> HIDE DEF child, q
  <1>4. Doomed(t, child) = D /\ D \subseteq Tcbs
    BY <1>2, <1>3, SMTT(60) DEF Doomed
  <1>5. tcbs' = [c \in Tcbs |-> IF c \in D THEN ClearTcb ELSE t[c]]
    BY <1>4, Zenon DEF FreeTcbs, child, q
  <1>6. socks' = [i \in Socks |-> IF Hit(child, i) THEN [socks[i] EXCEPT !.tcb = NULL]
                                 ELSE socks[i]]
    BY <1>3, <1>4, SMTT(60) DEF Detached, Hit, child, q
  <1> HIDE DEF D
  <1>7. FreedTcbs(child)
    <2>1. tcbs' \in [Tcbs -> TcbType]
      BY <1>1, <1>5, ClearTypes, Zenon
    <2>2. \A c \in Tcbs : \E d \in {0, 1} : Shifted(t[c].acceptq, tcbs[c].acceptq, d)
      <3>1. \A c \in Tcbs : tcbs[c].acceptq \in Seq(Tcbs)
        BY <1>1, Zenon DEF TcbType
      <3>2. \A c \in Tcbs : c # l => t[c].acceptq = tcbs[c].acceptq
        BY <1>3, Zenon
      <3>3. \A c \in Tcbs : c # l =>
               \E d \in {0, 1} : Shifted(t[c].acceptq, tcbs[c].acceptq, d)
        BY <3>1, <3>2, NotShifted, Zenon
      <3>4. t[l].acceptq = Tail(q) /\ tcbs[l].acceptq = q
        BY <1>3, Zenon DEF q
      <3>5. \E d \in {0, 1} : Shifted(t[l].acceptq, tcbs[l].acceptq, d)
        BY <1>2, <3>4, Zenon
      <3> QED
        BY <3>3, <3>5, Zenon
    <2> QED
      BY <1>3, <1>4, <1>5, <2>1, <2>2, ZenonT(60) DEF FreedTcbs, D
  <1>8. FreedSocks(child)
    <2>1. \A i \in Socks :
            /\ socks'[i] \in SockType
            /\ socks'[i].tcb = IF Hit(child, i) THEN NULL ELSE socks[i].tcb
            /\ socks'[i].used = socks[i].used
      BY <1>1, <1>6, ZenonT(60) DEF SockType
    <2> QED
      BY <1>6, <2>1, Zenon DEF FreedSocks, IInv, UsedHasTcb
  <1>9. ASSUME ~died'
        PROVE  /\ tcbs[child].active
               /\ \A c \in Tcbs : \A n \in 1..Len(tcbs'[c].acceptq) : tcbs'[c].acceptq[n] # child
    <2>1. /\ tcbs[child].listener = l /\ tcbs[child].state \in {"ESTABLISHED", "CLOSE_WAIT"}
          /\ \A n \in 1..Len(q) : q[n] = child => n = 1
      BY <1>2, <1>9, QueueFacts, SMTT(60) DEF q
    <2>2. \A c \in Tcbs : c # l => \A n \in 1..Len(tcbs[c].acceptq) : tcbs[c].acceptq[n] # child
      BY <1>9, <2>1, QueueFacts, SMTT(60)
    <2>3. \A n \in 1..Len(Tail(q)) : Tail(q)[n] # child
      <3>1. Len(Tail(q)) \in Nat
        BY <1>2, SMTT(60)
      <3> QED
        BY <1>2, <2>1, <3>1 DEF Shifted
    <2>4. \A c \in Tcbs : tcbs'[c].acceptq \in {<<>>, t[c].acceptq}
      BY <1>5 DEF ClearTcb
    <2> QED
      <3>1. tcbs[child].active
        BY <1>2, <2>1, Zenon DEF IInv, FreeIsEmpty
      <3>2. \A c \in Tcbs : \A n \in 1..Len(t[c].acceptq) : t[c].acceptq[n] # child
        BY <1>3, <2>2, <2>3, ZenonT(60)
      <3>3. ASSUME NEW c \in Tcbs, NEW n \in 1..Len(tcbs'[c].acceptq)
            PROVE  tcbs'[c].acceptq[n] # child
        <4>1. tcbs'[c].acceptq # <<>>
          BY SeqEmpty, EmptyRange, Zenon
        <4> QED
          BY <2>4, <3>2, <4>1, Zenon
      <3> QED
        BY <3>1, <3>3, Zenon
  <1> QED
    BY <1>2, <1>7, <1>8, <1>9, FreeStep, ZenonT(60) DEF IInv, TypeOK

\* The table after pf_close took the socket off block k and moved it to state s.
Parted(k, s) ==
    /\ tcbs' \in [Tcbs -> TcbType]
    /\ \A c \in Tcbs :
          /\ tcbs'[c].state = IF c = k THEN s ELSE tcbs[c].state
          /\ tcbs'[c].sock = IF c = k THEN NULL ELSE tcbs[c].sock
          /\ tcbs'[c].active = tcbs[c].active /\ tcbs'[c].listener = tcbs[c].listener
          /\ tcbs'[c].backlog = tcbs[c].backlog /\ tcbs'[c].acceptq = tcbs[c].acceptq

\* pf_close of a connection that goes on closing without its socket.
LEMMA PartStep ==
    ASSUME IInv, NEW i \in Socks, NEW k \in Tcbs, socks[i].tcb = k, NEW s \in Closing \cup {"CLOSED"},
           tcbs[k].state # "LISTEN", s = "CLOSED" <=> tcbs[k].state = "CLOSED",
           Parted(k, s), socks' = [socks EXCEPT ![i] = ClearSock], UNCHANGED <<connecting, died>>
    PROVE  IInv'
  <1>1. /\ \A c \in Tcbs : tcbs[c] \in TcbType
        /\ \A j \in Socks : socks[j] \in SockType
        /\ k # NULL /\ i # NULL
    BY ClearTypes, Zenon DEF IInv, TypeOK
  <1>2. /\ tcbs' \in [Tcbs -> TcbType]
        /\ \A c \in Tcbs :
             /\ tcbs'[c].state = IF c = k THEN s ELSE tcbs[c].state
             /\ tcbs'[c].sock = IF c = k THEN NULL ELSE tcbs[c].sock
             /\ tcbs'[c].active = tcbs[c].active /\ tcbs'[c].listener = tcbs[c].listener
             /\ tcbs'[c].backlog = tcbs[c].backlog /\ tcbs'[c].acceptq = tcbs[c].acceptq
    BY Zenon DEF Parted
  <1>3. /\ socks' \in [Socks -> SockType]
        /\ \A j \in Socks : socks'[j] = IF j = i THEN ClearSock ELSE socks[j]
        /\ ClearSock.tcb = NULL
    BY ClearTypes, Zenon DEF IInv, TypeOK, ClearSock
  <1>4. /\ connecting' = connecting /\ died' = died
        /\ s # "LISTEN"
    BY Zenon DEF Closing
  <1>5. TypeOK'
    BY <1>2, <1>3, <1>4, Zenon DEF IInv, TypeOK
  <1>6. FreeIsEmpty' /\ ListenersAreTop' /\ ChildUnowned'
    BY <1>2, <1>4 DEF IInv, FreeIsEmpty, ListenersAreTop, ChildUnowned
  <1>7. UsedHasTcb'
    BY <1>3, Zenon DEF IInv, UsedHasTcb
  <1>8. OwnersAgree'
    <2> SUFFICES ASSUME ~died
                 PROVE  /\ SocketOwnsTcb'
                        /\ \A c \in Tcbs : (tcbs'[c].active /\ tcbs'[c].sock # NULL) =>
                                              socks'[tcbs'[c].sock].tcb = c
      BY <1>4, SMTT(60) DEF OwnersAgree
    <2>1. /\ \A j \in Socks : socks[j].tcb # NULL =>
                /\ tcbs[socks[j].tcb].active /\ tcbs[socks[j].tcb].sock = j
                /\ socks[j].tcb \in Tcbs
          /\ \A c \in Tcbs : (tcbs[c].active /\ tcbs[c].sock # NULL) =>
                socks[tcbs[c].sock].tcb = c /\ tcbs[c].sock \in Socks
      BY <1>1, Zenon DEF IInv, OwnersAgree, SocketOwnsTcb, SockType, TcbType
    <2>2. \A j \in Socks : socks'[j].tcb # NULL =>
             tcbs'[socks'[j].tcb].active /\ tcbs'[socks'[j].tcb].sock = j
      BY <1>1, <1>2, <1>3, <2>1, SMTT(60)
    <2>3. \A c \in Tcbs : (tcbs'[c].active /\ tcbs'[c].sock # NULL) => socks'[tcbs'[c].sock].tcb = c
      BY <1>1, <1>2, <1>3, <2>1, SMTT(60)
    <2> QED
      BY <2>2, <2>3, Zenon DEF SocketOwnsTcb
  <1>9. ListenerLive' /\ NoOrphan'
    <2>1. \A c \in Tcbs : tcbs[c].listener # NULL => tcbs[c].listener \in Tcbs
      BY <1>1, Zenon DEF TcbType
    <2>2. ListenerLive'
      BY <1>2, <2>1 DEF IInv, ListenerLive
    <2>3. tcbs[k].active <=> s # "CLOSED"
      BY Zenon DEF IInv, FreeIsEmpty
    <2> QED
      BY <1>2, <2>2, <2>3, SMTT(60) DEF IInv, NoOrphan
  <1>10. QueueHoldsChildren'
    <2>1. \A c \in Tcbs : tcbs[c].acceptq \in Seq(Tcbs)
      BY <1>1, Zenon DEF TcbType
    <2>2. ~died => ~Queued(k)
      <3>1. ~died => tcbs[k].sock = i
        BY <1>1, Zenon DEF IInv, OwnersAgree, SocketOwnsTcb
      <3> QED
        BY <1>1, <3>1, QueuedChild, Zenon
    <2>3. ~died => \A c \in Tcbs : \A n \in 1..Len(tcbs[c].acceptq) :
             tcbs[c].acceptq[n] \in Tcbs /\ tcbs[c].acceptq[n] # k
      BY <2>1, <2>2, SMTT(60) DEF Queued
    <2>4. ASSUME NEW c \in Tcbs PROVE QueueOk(c)'
      <3>1. tcbs'[c].acceptq = tcbs[c].acceptq /\ tcbs'[c].backlog = tcbs[c].backlog
        BY <1>2, Zenon
      <3>2. ~died => \A n \in 1..Len(tcbs[c].acceptq) :
               tcbs[tcbs[c].acceptq[n]].state \in {"ESTABLISHED", "CLOSE_WAIT"}
        BY QueueFacts, Zenon
      <3>3. ~died => \A n \in 1..Len(tcbs[c].acceptq) :
               /\ tcbs'[tcbs[c].acceptq[n]].listener = tcbs[tcbs[c].acceptq[n]].listener
               /\ tcbs'[tcbs[c].acceptq[n]].state \in {"ESTABLISHED", "CLOSE_WAIT"}
        BY <1>2, <2>3, <3>2, ZenonT(60)
      <3> QED
        BY <1>4, <3>1, <3>3, QueueKept, Zenon
    <2> QED
      BY <1>5, <2>4, Zenon DEF QueueHoldsChildren, QueueOk
  <1> QED
    BY <1>5, <1>6, <1>7, <1>8, <1>9, <1>10, Zenon DEF IInv

\* pf_close of a listener, or of a connection not yet answered: tcb_free.
LEMMA CloseFrees ==
    ASSUME IInv, NEW i \in Socks, NEW k \in Tcbs, socks[i].tcb = k, tcbs' = FreeTcbs(tcbs, k),
           NEW t, t = Disowned(k),
           socks' = [Detached(socks, t, k) EXCEPT ![i] = ClearSock], UNCHANGED <<connecting, died>>
    PROVE  IInv'
  <1> DEFINE D == Doomed(tcbs, k)
  <1>1. /\ \A c \in Tcbs : tcbs[c] \in TcbType
        /\ \A j \in Socks : socks[j] \in SockType
        /\ k # NULL
    BY ClearTypes, Zenon DEF IInv, TypeOK
  <1>2. /\ D \subseteq Tcbs
        /\ tcbs' = [c \in Tcbs |-> IF c \in D THEN ClearTcb ELSE tcbs[c]]
    BY Zenon DEF FreeTcbs, Doomed
  <1>3. \A c \in Tcbs : /\ t[c].state = tcbs[c].state /\ t[c].active = tcbs[c].active
                        /\ t[c].listener = tcbs[c].listener
                        /\ t[c].sock = IF c = k THEN NULL ELSE tcbs[c].sock
    BY <1>1, ZenonT(60) DEF Disowned, IInv, TypeOK, TcbType
  <1>4. Doomed(t, k) = D /\ k \in D
    BY <1>3, SMTT(60) DEF Doomed
  <1> HIDE DEF D
  <1>5. FreedTcbs(k)
    <2>1. tcbs' \in [Tcbs -> TcbType]
      BY <1>1, <1>2, ClearTypes, Zenon
    <2>2. \A c \in Tcbs : \E d \in {0, 1} : Shifted(tcbs[c].acceptq, tcbs[c].acceptq, d)
      BY <1>1, NotShifted, Zenon DEF TcbType
    <2> QED
      BY <1>2, <2>1, <2>2, Zenon DEF FreedTcbs, D
  <1>6. /\ ~died => tcbs[k].active /\ tcbs[k].sock = i /\ ~Queued(k)
        /\ died' = died /\ connecting' = connecting
    <2>1. ~died => tcbs[k].active /\ tcbs[k].sock = i
      BY <1>1, Zenon DEF IInv, OwnersAgree, SocketOwnsTcb
    <2> QED
      BY <2>1, QueuedChild, ClearTypes, Zenon
  <1>7. FreedSocks(k)
    <2> DEFINE HitT(j) == \E c \in D : t[c].sock = j
    <2>1. socks' = [j \in Socks |-> IF j = i THEN ClearSock
                                   ELSE IF HitT(j) THEN [socks[j] EXCEPT !.tcb = NULL] ELSE socks[j]]
      <3>1. Detached(socks, t, k) =
               [j \in Socks |-> IF HitT(j) THEN [socks[j] EXCEPT !.tcb = NULL] ELSE socks[j]]
        BY <1>4, Zenon DEF Detached
      <3> HIDE DEF HitT
      <3> QED
        BY <3>1, Zenon
    <2>2. \A j \in Socks : j # i => (~died => (HitT(j) <=> Hit(k, j)))
      BY <1>2, <1>3, <1>4, <1>6, ClearTypes, SMTT(60) DEF Hit, D
    <2>3. ~died => Hit(k, i)
      BY <1>4, <1>6, Zenon DEF Hit, D
    <2> HIDE DEF HitT
    <2>4. \A j \in Socks :
            /\ socks'[j] \in SockType
            /\ socks'[j].tcb = IF j = i \/ HitT(j) THEN NULL ELSE socks[j].tcb
            /\ j # i => socks'[j].used = socks[j].used
      <3>1. socks'[i] = ClearSock /\ ClearSock \in SockType /\ ClearSock.tcb = NULL
        BY <2>1, ClearTypes, Zenon DEF ClearSock
      <3>2. ASSUME NEW j \in Socks, j # i
            PROVE  /\ socks'[j] \in SockType
                   /\ socks'[j].tcb = IF HitT(j) THEN NULL ELSE socks[j].tcb
                   /\ socks'[j].used = socks[j].used
        <4>1. socks'[j] = IF HitT(j) THEN [socks[j] EXCEPT !.tcb = NULL] ELSE socks[j]
          BY <2>1, <3>2, Zenon
        <4> QED
          BY <1>1, <4>1 DEF SockType
      <3> QED
        BY <3>1, <3>2
    <2>5. socks' \in [Socks -> SockType]
      BY <2>1, <2>4, ZenonT(60)
    <2>6. UsedHasTcb'
      BY <2>4, ZenonT(60) DEF IInv, UsedHasTcb
    <2> QED
      BY <1>6, <2>2, <2>3, <2>4, <2>5, <2>6 DEF FreedSocks
  <1>8. \A l \in Tcbs : tcbs'[l].acceptq = <<>> \/ tcbs'[l].acceptq = tcbs[l].acceptq
    BY <1>2, SMTT(60) DEF ClearTcb
  <1>9. ~died' => \A l \in Tcbs : \A n \in 1..Len(tcbs'[l].acceptq) : tcbs'[l].acceptq[n] # k
    BY <1>6, <1>8 DEF Queued
  <1> QED
    BY <1>5, <1>6, <1>7, <1>9, FreeStep, SMTT(60) DEF IInv, TypeOK


-----------------------------------------------------------------------------
(* The actions.                                                            *)

\* Where pf_close takes a connection that goes on.
LEMMA CloseStates ==
    ASSUME NEW s \in States \ {"LISTEN", "SYN_SENT"}, NEW n,
           n = IF s \in DOMAIN AfterClose THEN AfterClose[s] ELSE s
    PROVE  n \in Closing \cup {"CLOSED"} /\ n \in States /\ (n = "CLOSED" <=> s = "CLOSED")
  <1>1. /\ DOMAIN AfterClose = {"SYN_RCVD", "ESTABLISHED", "CLOSE_WAIT"}
        /\ AfterClose["SYN_RCVD"] = "FIN_WAIT_1" /\ AfterClose["ESTABLISHED"] = "FIN_WAIT_1"
        /\ AfterClose["CLOSE_WAIT"] = "LAST_ACK"
    BY Zenon DEF AfterClose
  <1>2. CASE s \in {"SYN_RCVD", "ESTABLISHED", "CLOSE_WAIT"}
    BY <1>1, <1>2, Zenon DEF States, Closing
  <1>3. CASE s \in Closing \cup {"CLOSED"}
    <2>1. n = s
      BY <1>1, <1>3, Zenon DEF Closing
    <2> QED
      BY <1>3, <2>1, Zenon DEF States
  <1> QED
    BY <1>2, <1>3, Zenon DEF States

\* What a segment makes of a synchronised state: only pf_close leads to a
\* closing one, and nothing leads back.
LEMMA SegmentStates ==
    ASSUME NEW s \in {"ESTABLISHED", "CLOSE_WAIT"} \cup Closing, NEW finAcked \in BOOLEAN,
           NEW fin \in BOOLEAN, NEW n, n = Moved(AfterFin, Moved(AfterFinAck, s, finAcked), fin)
    PROVE  /\ n \in States \ {"CLOSED", "LISTEN"}
           /\ s \in {"ESTABLISHED", "CLOSE_WAIT"} => n \in {"ESTABLISHED", "CLOSE_WAIT"}
           /\ s \in Closing => n \in Closing
  <1> DEFINE m == Moved(AfterFinAck, s, finAcked)
  <1>1. /\ DOMAIN AfterFinAck = {"FIN_WAIT_1", "CLOSING"}
        /\ AfterFinAck["FIN_WAIT_1"] = "FIN_WAIT_2" /\ AfterFinAck["CLOSING"] = "TIME_WAIT"
    BY Zenon DEF AfterFinAck
  <1>2. /\ DOMAIN AfterFin = {"ESTABLISHED", "FIN_WAIT_1", "FIN_WAIT_2"}
        /\ AfterFin["ESTABLISHED"] = "CLOSE_WAIT" /\ AfterFin["FIN_WAIT_1"] = "CLOSING"
        /\ AfterFin["FIN_WAIT_2"] = "TIME_WAIT"
    BY Zenon DEF AfterFin
  <1>3. m = s \/ (s \in Closing /\ m \in Closing)
    BY <1>1, Zenon DEF Moved, Closing
  <1> HIDE DEF m
  <1>4. n = m \/ (m = "ESTABLISHED" /\ n = "CLOSE_WAIT") \/ (m \in Closing /\ n \in Closing)
    BY <1>2, Zenon DEF Moved, Closing, m
  <1>5. {"ESTABLISHED", "CLOSE_WAIT"} \cup Closing \subseteq States \ {"CLOSED", "LISTEN"}
    BY Zenon DEF States, Closing
  <1>6. "ESTABLISHED" \notin Closing /\ "CLOSE_WAIT" \notin Closing
    BY Zenon DEF Closing
  <1> QED
    BY <1>3, <1>4, <1>5, <1>6, Zenon

\* pf_close keeps the tables sound, in each of the states it is called in.
LEMMA CloseAction == ASSUME IInv, NEW i \in Socks, pf_close(i) PROVE IInv'
  <1> DEFINE k == socks[i].tcb
  <1> DEFINE t == Disowned(k)
  <1>1. /\ \A c \in Tcbs : tcbs[c] \in TcbType
        /\ \A j \in Socks : socks[j] \in SockType
        /\ UNCHANGED <<connecting, died>>
    BY Zenon DEF IInv, TypeOK, pf_close
  <1>2. CASE k = NULL
    <2>1. socks' = [socks EXCEPT ![i] = ClearSock] /\ tcbs' = tcbs
      BY <1>2, Zenon DEF pf_close
    <2>2. ClearSock \in SockType /\ ClearSock.tcb = NULL
      BY ClearTypes, Zenon DEF ClearSock
    <2> QED
      BY <1>1, <1>2, <2>1, <2>2, SockStep, ZenonT(60)
  <1>3. CASE k # NULL
    <2>1. k \in Tcbs
      BY <1>1, <1>3, Zenon DEF SockType
    <2>2. \A c \in Tcbs : c # k => t[c] = tcbs[c]
      BY Zenon DEF Disowned, IInv, TypeOK
    <2>3. t[k] = [tcbs[k] EXCEPT !.sock = NULL] /\ t = [c \in Tcbs |-> t[c]]
      BY <2>1, ZenonT(60) DEF Disowned, IInv, TypeOK
    <2>4. t[k].state = tcbs[k].state
      BY <1>1, <2>1, <2>3, Zenon DEF TcbType
    <2>5. CASE tcbs[k].state \in {"LISTEN", "SYN_SENT"}
      <3>1. tcbs' = FreeTcbs(t, k) /\ socks' = [Detached(socks, t, k) EXCEPT ![i] = ClearSock]
        BY <1>3, <2>4, <2>5, Zenon DEF pf_close, AppClosed
      <3>2. FreeTcbs(t, k) = FreeTcbs(tcbs, k)
        <4>1. \A c \in Tcbs : t[c].active = tcbs[c].active /\ t[c].listener = tcbs[c].listener
          BY <1>1, <2>1, <2>2, <2>3, SMTT(60) DEF TcbType
        <4>2. Doomed(t, k) = Doomed(tcbs, k) /\ k \in Doomed(tcbs, k)
          BY <2>4, <4>1, Zenon DEF Doomed
        <4> HIDE DEF t
        <4> QED
          BY <2>2, <4>2, Zenon DEF FreeTcbs
      <3> QED
        BY <1>1, <2>1, <3>1, <3>2, CloseFrees, Zenon
    <2>6. CASE tcbs[k].state \notin {"LISTEN", "SYN_SENT"}
      <3> DEFINE s == IF tcbs[k].state \in DOMAIN AfterClose THEN AfterClose[tcbs[k].state]
                      ELSE tcbs[k].state
      <3>1. /\ s \in Closing \cup {"CLOSED"} /\ s \in States
            /\ s = "CLOSED" <=> tcbs[k].state = "CLOSED"
        <4>1. tcbs[k].state \in States \ {"LISTEN", "SYN_SENT"}
          BY <1>1, <2>1, <2>6, Zenon DEF TcbType
        <4> QED
          BY <4>1, CloseStates, SMTT(60)
      <3>2. socks' = [socks EXCEPT ![i] = ClearSock] /\ tcbs' = AppClosed(t, k)
        BY <1>3, <2>4, <2>6, Zenon DEF pf_close
      <3>3. /\ tcbs' = [c \in Tcbs |-> tcbs'[c]]
            /\ \A c \in Tcbs : c # k => tcbs'[c] = tcbs[c]
            /\ tcbs'[k] = [t[k] EXCEPT !.state = s]
        <4>1. tcbs' = IF tcbs[k].state \in DOMAIN AfterClose
                      THEN [t EXCEPT ![k].state = AfterClose[tcbs[k].state]] ELSE t
          BY <2>4, <2>6, <3>2, Zenon DEF AppClosed
        <4>2. t[k] = [t[k] EXCEPT !.state = t[k].state]
          BY <1>1, <2>1, <2>3, ZenonT(60) DEF TcbType
        <4> HIDE DEF t
        <4> QED
          BY <2>1, <2>2, <2>3, <2>4, <4>1, <4>2, ZenonT(60)
      <3> HIDE DEF s, t
      <3>4. tcbs'[k] = [active |-> tcbs[k].active, state |-> s, sock |-> NULL,
                        port |-> tcbs[k].port, peer |-> tcbs[k].peer,
                        listener |-> tcbs[k].listener, backlog |-> tcbs[k].backlog,
                        acceptq |-> tcbs[k].acceptq]
        BY <1>1, <2>1, <2>3, <3>3, SMTT(60) DEF TcbType
      <3>5. tcbs'[k] \in TcbType
        <4>1. /\ tcbs[k].active \in BOOLEAN /\ tcbs[k].port \in Ports \cup {NoPort}
              /\ tcbs[k].peer \in Peers \cup {NoPeer} /\ tcbs[k].listener \in Tcbs \cup {NULL}
              /\ tcbs[k].backlog \in 0..TCP_ACCEPT_QLEN /\ tcbs[k].acceptq \in Seq(Tcbs)
          BY <1>1, <2>1, Zenon DEF TcbType
        <4> QED
          BY <3>1, <3>4, <4>1, SMTT(60) DEF TcbType
      <3>6. Parted(k, s)
        <4>1. tcbs' \in [Tcbs -> TcbType]
          BY <1>1, <3>3, <3>5, Zenon
        <4> QED
          BY <3>3, <3>4, <4>1 DEF Parted
      <3> QED
        BY <1>1, <2>1, <2>6, <3>1, <3>2, <3>6, PartStep, ZenonT(60)
    <2> QED
      BY <2>5, <2>6, Zenon
  <1> QED
    BY <1>2, <1>3, Zenon

\* pf_accept keeps them sound, with a socket for the child or without.
LEMMA AcceptAction == ASSUME IInv, NEW i \in Socks, pf_accept(i) PROVE IInv'
  <1> DEFINE l == socks[i].tcb
  <1> DEFINE q == tcbs[l].acceptq
  <1> DEFINE child == Head(q)
  <1> DEFINE t == [tcbs EXCEPT ![l].acceptq = Tail(@)]
  <1>1. /\ l \in Tcbs /\ tcbs[l].state = "LISTEN" /\ q # <<>>
        /\ UNCHANGED <<connecting, died>>
    BY ZenonT(60) DEF pf_accept, IInv, TypeOK, SockType
  <1>2. Popped(l, t)
    BY <1>1, PopEffect, Zenon
  <1>3. child \in Tcbs /\ t[child].port \in Ports \cup {NoPort}
    <2>1. q \in Seq(Tcbs)
      BY <1>1, Zenon DEF IInv, TypeOK, TcbType
    <2>2. child \in Tcbs
      BY <1>1, <2>1, TailShifts, Zenon
    <2>3. t[child] \in TcbType
      BY <1>2, <2>2, Zenon DEF Popped
    <2> QED
      BY <2>2, <2>3, ZenonT(60) DEF TcbType
  <1>4. \/ \E n \in Socks :
             /\ ~socks[n].used
             /\ socks' = [socks EXCEPT ![n] = [used |-> TRUE, port |-> t[child].port, tcb |-> child]]
             /\ tcbs' = [t EXCEPT ![child].sock = n, ![child].listener = NULL]
        \/ tcbs' = FreeTcbs(t, child) /\ socks' = Detached(socks, t, child)
    BY ZenonT(60) DEF pf_accept, FreeSock
  <1> HIDE DEF t
  <1>5. CASE \E n \in Socks :
               /\ ~socks[n].used
               /\ socks' = [socks EXCEPT ![n] = [used |-> TRUE, port |-> t[child].port, tcb |-> child]]
               /\ tcbs' = [t EXCEPT ![child].sock = n, ![child].listener = NULL]
    <2>1. PICK n \in Socks :
               /\ ~socks[n].used
               /\ socks' = [socks EXCEPT ![n] = [used |-> TRUE, port |-> t[child].port, tcb |-> child]]
               /\ tcbs' = [t EXCEPT ![child].sock = n, ![child].listener = NULL]
      BY <1>5, ZenonT(60)
    <2>2. Accepted(l, child, n)
      BY <1>1, <1>2, <1>3, <2>1, AcceptEffect, ZenonT(60)
    <2> QED
      BY <1>1, <1>3, <2>1, <2>2, AcceptStep, ZenonT(60)
  <1>6. CASE tcbs' = FreeTcbs(t, child) /\ socks' = Detached(socks, t, child)
    BY <1>1, <1>2, <1>6, AbortStep, Zenon
  <1> QED
    BY <1>4, <1>5, <1>6, ZenonT(60)

\* pf_socket hands out a slot that has no block.
LEMMA SocketAction == ASSUME IInv, NEW i \in Socks, pf_socket(i) PROVE IInv'
  <1> DEFINE x == [ClearSock EXCEPT !.used = TRUE]
  <1>1. x \in SockType /\ x.tcb = NULL /\ x.used
    BY ClearTypes, ZenonT(60) DEF ClearSock, SockType
  <1>2. socks[i].tcb = NULL
    BY Zenon DEF pf_socket, FreeSock, IInv, UsedHasTcb
  <1>3. socks' = [socks EXCEPT ![i] = x] /\ UNCHANGED <<tcbs, connecting, died>>
    BY Zenon DEF pf_socket
  <1> HIDE DEF x
  <1> QED
    BY <1>1, <1>2, <1>3, SockStep, ZenonT(60)

\* pf_bind, and a pf_connect that finds no control block, change the port only.
LEMMA PortStep ==
    ASSUME IInv, NEW i \in Socks, NEW port \in Ports, socks[i].used,
           socks' = [socks EXCEPT ![i].port = port], UNCHANGED <<tcbs, connecting, died>>
    PROVE  IInv'
  <1> DEFINE x == [socks[i] EXCEPT !.port = port]
  <1>1. x \in SockType /\ x.tcb = socks[i].tcb /\ x.used
    BY Zenon DEF SockType, IInv, TypeOK
  <1>2. socks' = [socks EXCEPT ![i] = x]
    BY Zenon DEF IInv, TypeOK
  <1> HIDE DEF x
  <1> QED
    BY <1>1, <1>2, SockStep, ZenonT(60)

\* A block as NewTcb fills it in.
LEMMA NewTcbFields ==
    ASSUME NEW s \in States, NEW i \in Socks \cup {NULL}, NEW port \in Ports \cup {NoPort},
           NEW peer \in Peers \cup {NoPeer}, NEW b, b = NewTcb(s, i, port, peer)
    PROVE  /\ b \in TcbType /\ b.active /\ b.state = s /\ b.sock = i
           /\ b.listener = NULL /\ b.acceptq = <<>>
  <1>1. b \in TcbType
    BY ClearTypes, ZenonT(60) DEF NewTcb, TcbType
  <1>2. b.active = TRUE
    BY Zenon DEF NewTcb, ClearTcb
  <1>3. b.state = s /\ b.sock = i /\ b.listener = NULL /\ b.acceptq = <<>>
    BY Zenon DEF NewTcb, ClearTcb
  <1> QED
    BY <1>1, <1>2, <1>3, Zenon

\* pf_listen gives a socket its listening block.
LEMMA ListenAction ==
    ASSUME IInv, NEW i \in Socks, NEW backlog \in 0..(TCP_ACCEPT_QLEN + 1), pf_listen(i, backlog)
    PROVE  IInv'
  <1> DEFINE a == NewTcb("LISTEN", i, socks[i].port, NoPeer)
  <1> DEFINE b == [a EXCEPT !.backlog = Backlog(backlog)]
  <1>1. PICK k \in Tcbs : /\ ~tcbs[k].active
                          /\ tcbs' = [tcbs EXCEPT ![k] = b]
                          /\ socks' = [socks EXCEPT ![i].tcb = k]
    BY ZenonT(60) DEF pf_listen, tcb_alloc
  <1>2. /\ socks[i].used /\ socks[i].tcb = NULL /\ socks[i] \in SockType
        /\ connecting' = connecting /\ died' = died
        /\ connecting \in Socks \cup {NULL}
    BY Zenon DEF pf_listen, IInv, TypeOK
  <1>3. Backlog(backlog) \in 0..TCP_ACCEPT_QLEN
    BY TableConstants, SMTT(60) DEF Backlog
  <1>4. /\ a \in TcbType /\ a.active /\ a.state = "LISTEN" /\ a.sock = i
        /\ a.listener = NULL /\ a.acceptq = <<>>
    <2>1. /\ "LISTEN" \in States /\ socks[i].port \in Ports \cup {NoPort}
          /\ NoPeer \in Peers \cup {NoPeer} /\ i \in Socks \cup {NULL}
      BY <1>2, Zenon DEF States, SockType
    <2>2. \A p \in Ports \cup {NoPort} : LET b0 == NewTcb("LISTEN", i, p, NoPeer)
                                        IN  /\ b0 \in TcbType /\ b0.active /\ b0.state = "LISTEN"
                                            /\ b0.sock = i /\ b0.listener = NULL /\ b0.acceptq = <<>>
      BY <2>1, NewTcbFields
    <2> QED
      BY <2>1, <2>2, Zenon
  <1> HIDE DEF a
  <1>5. /\ b \in TcbType /\ b.active /\ b.state = "LISTEN" /\ b.sock = i
        /\ b.listener = NULL /\ b.acceptq = <<>>
    BY <1>3, <1>4, Zenon DEF TcbType
  <1> DEFINE x == [socks[i] EXCEPT !.tcb = k]
  <1>6. x \in SockType /\ x.used /\ x.tcb = k /\ socks' = [socks EXCEPT ![i] = x]
    BY <1>1, <1>2, Zenon DEF SockType, IInv, TypeOK
  <1> HIDE DEF b, x
  <1>7. \E j \in Socks, y \in SockType :
           /\ b.sock = j /\ socks[j].tcb = NULL /\ y.used /\ y.tcb = k
           /\ socks' = [socks EXCEPT ![j] = y]
    BY <1>2, <1>5, <1>6, ZenonT(60)
  <1> QED
    BY <1>1, <1>2, <1>5, <1>7, NewStep, ZenonT(60)

\* pf_connect gives it a block in SYN_SENT, or only a port when the table is full.
LEMMA ConnectAction ==
    ASSUME IInv, NEW i \in Socks, NEW port \in Ports, NEW peer \in Peers, pf_connect(i, port, peer)
    PROVE  IInv'
  <1> DEFINE b == NewTcb("SYN_SENT", i, port, peer)
  <1>1. socks[i].used /\ socks[i].tcb = NULL /\ socks[i] \in SockType
    BY ZenonT(60) DEF pf_connect, IInv, TypeOK
  <1>2. CASE socks' = [socks EXCEPT ![i].port = port] /\ UNCHANGED <<tcbs, connecting, died>>
    BY <1>1, <1>2, PortStep, ZenonT(60)
  <1>3. ASSUME NEW k \in Tcbs, ~tcbs[k].active,
               tcbs' = [tcbs EXCEPT ![k] = b],
               socks' = [socks EXCEPT ![i] = [@ EXCEPT !.port = port, !.tcb = k]],
               connecting' = i, died' = died
        PROVE  IInv'
    <2>1. /\ b \in TcbType /\ b.active /\ b.state = "SYN_SENT" /\ b.sock = i
          /\ b.listener = NULL /\ b.acceptq = <<>>
      <3>1. "SYN_SENT" \in States
        BY Zenon DEF States
      <3> HIDE DEF b
      <3> QED
        BY <3>1, NewTcbFields DEF b
    <2> DEFINE x == [socks[i] EXCEPT !.port = port, !.tcb = k]
    <2>2. x \in SockType /\ x.used /\ x.tcb = k /\ socks' = [socks EXCEPT ![i] = x]
      BY <1>1, <1>3, ZenonT(60) DEF SockType, IInv, TypeOK
    <2> HIDE DEF b, x
    <2>3. \E j \in Socks, y \in SockType :
             /\ b.sock = j /\ socks[j].tcb = NULL /\ y.used /\ y.tcb = k
             /\ socks' = [socks EXCEPT ![j] = y]
      BY <1>1, <2>1, <2>2, ZenonT(60)
    <2> QED
      BY <1>3, <2>1, <2>3, NewStep, ZenonT(60)
  <1> QED
    BY <1>2, <1>3, ZenonT(60) DEF pf_connect, tcb_alloc

\* A SYN gives the listener a child.
LEMMA SynAction ==
    ASSUME IInv, NEW l \in Tcbs, NEW port \in Ports, NEW peer \in Peers, input_syn(l, port, peer)
    PROVE  IInv'
  <1> DEFINE a == NewTcb("SYN_RCVD", NULL, port, peer)
  <1> DEFINE b == [a EXCEPT !.listener = l]
  <1>1. PICK k \in Tcbs : ~tcbs[k].active /\ tcbs' = [tcbs EXCEPT ![k] = b]
    BY ZenonT(60) DEF input_syn, tcb_alloc
  <1>2. /\ tcbs[l].state = "LISTEN" /\ UNCHANGED <<socks, connecting, died>>
        /\ connecting \in Socks \cup {NULL}
    BY Zenon DEF input_syn, FoundListener, Listening, IInv, TypeOK
  <1>3. /\ a \in TcbType /\ a.active /\ a.state = "SYN_RCVD" /\ a.sock = NULL
        /\ a.listener = NULL /\ a.acceptq = <<>>
    <2>1. "SYN_RCVD" \in States
      BY Zenon DEF States
    <2>2. /\ NULL \in Socks \cup {NULL} /\ port \in Ports \cup {NoPort}
          /\ peer \in Peers \cup {NoPeer} /\ a = NewTcb("SYN_RCVD", NULL, port, peer)
      BY Zenon
    <2> HIDE DEF a
    <2> QED
      BY <2>1, <2>2, NewTcbFields, SMTT(60)
  <1> HIDE DEF a
  <1>4. /\ b \in TcbType /\ b.active /\ b.state = "SYN_RCVD" /\ b.sock = NULL
        /\ b.listener = l /\ b.acceptq = <<>>
    BY <1>3, Zenon DEF TcbType
  <1> HIDE DEF b
  <1> QED
    BY <1>1, <1>2, <1>4, NewStep, ZenonT(60)

\* A step that changes no more than which pf_connect waits.
LEMMA IdleStep ==
    ASSUME IInv, UNCHANGED <<socks, tcbs, died>>, connecting' \in Socks \cup {NULL}
    PROVE  IInv'
  <1>1. socks' = socks /\ tcbs' = tcbs /\ died' = died
    BY Zenon
  <1>2. TypeOK'
    BY <1>1, Zenon DEF IInv, TypeOK
  <1>3. FreeIsEmpty' /\ UsedHasTcb' /\ ListenersAreTop' /\ ChildUnowned'
    BY <1>1, SMTT(60) DEF IInv, FreeIsEmpty, UsedHasTcb, ListenersAreTop, ChildUnowned
  <1>4. OwnersAgree'
    BY <1>1 DEF IInv, OwnersAgree, SocketOwnsTcb
  <1>5. ListenerLive' /\ NoOrphan'
    BY <1>1, Zenon DEF IInv, ListenerLive, NoOrphan
  <1>6. QueueHoldsChildren'
    BY <1>1, <1>2 DEF IInv, QueueHoldsChildren
  <1> QED
    BY <1>2, <1>3, <1>4, <1>5, <1>6, Zenon DEF IInv

\* The waiting pf_connect returns, or gives up at its deadline.
LEMMA ConnectEnds ==
    ASSUME IInv, connect_return \/ connect_timeout
    PROVE  IInv'
  <1>1. CASE connect_return
    BY <1>1, IdleStep, Zenon DEF connect_return
  <1>2. CASE connect_timeout
    <2> DEFINE k == socks[connecting].tcb
    <2>1. /\ connecting \in Socks /\ k \in Tcbs /\ k # NULL /\ tcb_free(k)
          /\ connecting' = NULL /\ died' = died /\ died \in BOOLEAN
      BY <1>2, Zenon DEF connect_timeout, IInv, TypeOK, SockType
    <2>2. ~died => tcbs[k].active /\ tcbs[k].sock = connecting
      BY <2>1, Zenon DEF IInv, OwnersAgree, SocketOwnsTcb
    <2>3. ~died => ~Queued(k)
      BY <2>1, <2>2, QueuedChild, ClearTypes, Zenon
    <2> HIDE DEF k
    <2> QED
      BY <2>1, <2>2, <2>3, FreeCall, Zenon
  <1> QED
    BY <1>1, <1>2, Zenon

\* A segment moves a connection on, queues it, or ends it.
LEMMA SegmentActions ==
    ASSUME IInv, NEW k \in Tcbs, NEW s \in States, NEW finAcked \in BOOLEAN, NEW fin \in BOOLEAN,
           input_synack(k, s) \/ input_handshake(k, fin) \/ input_segment(k, finAcked, fin)
    PROVE  IInv'
  <1>1. /\ tcbs[k] \in TcbType /\ tcbs[k].state \in States
        /\ died \in BOOLEAN /\ connecting \in Socks \cup {NULL}
    BY Zenon DEF IInv, TypeOK, TcbType
  <1>2. ~died => (Queued(k) => tcbs[k].state \in {"ESTABLISHED", "CLOSE_WAIT"})
    BY QueuedChild, Zenon
  <1>3. tcbs[k].state # "CLOSED" => tcbs[k].active
    BY Zenon DEF IInv, FreeIsEmpty
  <1>4. CASE input_synack(k, s)
    <2>1. s \in {"ESTABLISHED", "SYN_RCVD"} /\ tcbs[k].state = "SYN_SENT"
      BY <1>4, Zenon DEF input_synack
    <2> QED
      BY <1>4, <2>1, StateStep, ZenonT(60) DEF input_synack, States, Closing
  <1>5. CASE input_handshake(k, fin)
    <2> DEFINE l == tcbs[k].listener
    <2> DEFINE n == Moved(AfterFin, "ESTABLISHED", fin)
    <2>1. n \in {"ESTABLISHED", "CLOSE_WAIT"} /\ n \in States \ {"CLOSED", "LISTEN"}
      BY Zenon DEF Moved, AfterFin, States
    <2>2. tcbs[k].state = "SYN_RCVD" /\ connecting' = connecting /\ died' = died
      BY <1>5, Zenon DEF input_handshake
    <2>3. CASE tcbs' = [tcbs EXCEPT ![k].state = n] /\ UNCHANGED socks
      <3> HIDE DEF n
      <3>1. /\ tcbs[k].state \notin {"CLOSED", "LISTEN", "ESTABLISHED", "CLOSE_WAIT"}
            /\ tcbs[k].state \notin Closing
        BY <2>2, Zenon DEF Closing
      <3> QED
        BY <2>1, <2>2, <2>3, <3>1, StateStep, ZenonT(60)
    <2>4. CASE /\ l # NULL /\ QueueRoom(l) /\ UNCHANGED socks
               /\ tcbs' = [tcbs EXCEPT ![k].state = n, ![l].acceptq = Append(@, k)]
      <3>1. l \in Tcbs /\ l # k
        BY <1>1, <2>2, <2>4, Zenon DEF TcbType, IInv, ListenerLive
      <3> HIDE DEF n, l
      <3>2. Enqueued(k, l, n)
        BY <2>1, <2>4, <3>1, EnqueueEffect, ZenonT(60)
      <3> QED
        BY <2>1, <2>2, <2>4, <3>1, <3>2, QueueStep, Zenon DEF l
    <2>5. CASE tcb_free(k)
      BY <1>1, <1>2, <1>3, <2>2, <2>5, FreeCall, Zenon
    <2> QED
      BY <1>5, <2>3, <2>4, <2>5, Zenon DEF input_handshake
  <1>6. CASE input_segment(k, finAcked, fin)
    <2>1. /\ tcbs[k].state \in {"ESTABLISHED", "CLOSE_WAIT"} \cup Closing
          /\ tcbs[k].state \notin {"CLOSED", "LISTEN"}
          /\ connecting' = connecting /\ died' = died
      BY <1>6, Zenon DEF input_segment, Closing
    <2>2. CASE tcbs[k].state = "LAST_ACK" /\ tcb_free(k)
      BY <1>1, <1>2, <1>3, <2>1, <2>2, FreeCall, Zenon
    <2>3. CASE ~(tcbs[k].state = "LAST_ACK" /\ finAcked)
      <3> DEFINE n == Moved(AfterFin, Moved(AfterFinAck, tcbs[k].state, finAcked), fin)
      <3>1. tcbs' = [tcbs EXCEPT ![k].state = n] /\ UNCHANGED socks
        BY <1>6, <2>3, Zenon DEF input_segment
      <3>2. /\ n \in States \ {"CLOSED", "LISTEN"}
            /\ tcbs[k].state \in {"ESTABLISHED", "CLOSE_WAIT"} => n \in {"ESTABLISHED", "CLOSE_WAIT"}
            /\ tcbs[k].state \in Closing => n \in Closing
        <4>1. PICK s0 : s0 = tcbs[k].state
          BY Zenon
        <4>2. s0 \in {"ESTABLISHED", "CLOSE_WAIT"} \cup Closing
          BY <2>1, <4>1, Zenon
        <4>3. n = Moved(AfterFin, Moved(AfterFinAck, s0, finAcked), fin)
          BY <4>1, Zenon
        <4> HIDE DEF n
        <4>4. /\ n \in States \ {"CLOSED", "LISTEN"}
              /\ s0 \in {"ESTABLISHED", "CLOSE_WAIT"} => n \in {"ESTABLISHED", "CLOSE_WAIT"}
              /\ s0 \in Closing => n \in Closing
          BY <4>2, <4>3, SegmentStates
        <4> QED
          BY <4>1, <4>4, Zenon
      <3> HIDE DEF n
      <3> QED
        BY <2>1, <3>1, <3>2, StateStep, ZenonT(60)
    <2> QED
      BY <1>6, <2>2, <2>3, Zenon DEF input_segment
  <1> QED
    BY <1>4, <1>5, <1>6, Zenon

\* An RST or a timer ends a connection; died records it when it was queued.
LEMMA EndActions ==
    ASSUME IInv, NEW k \in Tcbs, input_rst(k) \/ tick_rto_abort(k) \/ tick_timewait(k)
    PROVE  IInv'
  <1>1. died \in BOOLEAN /\ connecting \in Socks \cup {NULL} /\ Queued(k) \in BOOLEAN
    BY Zenon DEF IInv, TypeOK, Queued
  <1>2. CASE input_rst(k) \/ tick_rto_abort(k)
    <2>1. /\ tcbs[k].active /\ tcb_free(k) /\ connecting' = connecting
          /\ died' = (died \/ Queued(k))
      BY <1>2, Zenon DEF input_rst, tick_rto_abort
    <2>2. died' \in BOOLEAN /\ (died => died') /\ (~died' => ~Queued(k))
      BY <1>1, <2>1, Zenon
    <2> QED
      BY <1>1, <2>1, <2>2, FreeCall, Zenon
  <1>3. CASE tick_timewait(k)
    <2>1. /\ tcbs[k].state = "TIME_WAIT" /\ tcb_free(k) /\ UNCHANGED <<connecting, died>>
      BY <1>3, Zenon DEF tick_timewait
    <2>2. tcbs[k].active
      BY <2>1, Zenon DEF IInv, FreeIsEmpty
    <2>3. ~died => ~Queued(k)
      BY <2>1, QueuedChild, Zenon
    <2> QED
      BY <1>1, <2>1, <2>2, <2>3, FreeCall, Zenon
  <1> QED
    BY <1>2, <1>3, Zenon

-----------------------------------------------------------------------------
(* The theorems.                                                           *)

\* The empty tables satisfy the invariant.
LEMMA InitLemma == Init => IInv
  <1> SUFFICES ASSUME Init PROVE IInv
    BY Zenon
  <1>1. /\ \A i \in Socks : socks[i] = ClearSock
        /\ \A k \in Tcbs : tcbs[k] = ClearTcb
        /\ ClearSock.tcb = NULL
        /\ ~ClearTcb.active /\ ClearTcb.state = "CLOSED" /\ ClearTcb.listener = NULL
        /\ ClearTcb.acceptq = <<>> /\ ClearTcb.backlog = 0
    BY Zenon DEF Init, ClearSock, ClearTcb
  <1>2. TypeOK
    BY ClearTypes, ZenonT(60) DEF Init, TypeOK
  <1>3. FreeIsEmpty /\ UsedHasTcb /\ ListenersAreTop /\ ChildUnowned
    BY <1>1, Zenon DEF FreeIsEmpty, UsedHasTcb, ListenersAreTop, ChildUnowned
  <1>4. OwnersAgree /\ ListenerLive /\ NoOrphan
    BY <1>1, Zenon DEF OwnersAgree, SocketOwnsTcb, ListenerLive, NoOrphan
  <1>5. QueueHoldsChildren
    BY <1>1, <1>2, SMTT(60) DEF QueueHoldsChildren
  <1> QED
    BY <1>2, <1>3, <1>4, <1>5, Zenon DEF IInv

\* Every call, segment and timer keeps it.
LEMMA NextStep == IInv /\ [Next]_vars => IInv'
  <1> SUFFICES ASSUME IInv, [Next]_vars PROVE IInv'
    BY Zenon
  <1>1. ASSUME NEW i \in Socks, pf_socket(i) PROVE IInv'
    BY <1>1, SocketAction, Zenon
  <1>2. ASSUME NEW i \in Socks, NEW port \in Ports, pf_bind(i, port) PROVE IInv'
    BY <1>2, PortStep, ZenonT(60) DEF pf_bind
  <1>3. CASE UNCHANGED vars
    BY <1>3, IdleStep, Zenon DEF vars, IInv, TypeOK
  <1>4. ASSUME NEW k \in Tcbs, NEW s \in States, input_synack(k, s) PROVE IInv'
    BY <1>4, SegmentActions, ZenonT(60)
  <1>5. ASSUME NEW k \in Tcbs, NEW fin \in BOOLEAN, input_handshake(k, fin) PROVE IInv'
    BY <1>5, SegmentActions, Zenon DEF States
  <1>6. ASSUME NEW k \in Tcbs, NEW finAcked \in BOOLEAN, NEW fin \in BOOLEAN,
               input_segment(k, finAcked, fin)
        PROVE  IInv'
    BY <1>6, SegmentActions, Zenon DEF States
  <1> QED
    BY Zenon, <1>1, <1>2, <1>3, <1>4, <1>5, <1>6, AcceptAction, CloseAction, ListenAction,
       ConnectAction, ConnectEnds, SynAction, EndActions DEF Next

\* The inductive invariant of the two tables.
THEOREM IInvariant == Spec => []IInv
  BY InitLemma, NextStep, PTL DEF Spec

\* Sockets and control blocks agree on who belongs to whom (pf_sock.tcb and
\* tcp_cb.sock_idx), as long as no connection ends in an accept queue.
THEOREM OwnersAlwaysAgree == Spec => []OwnersAgree
  <1>1. IInv => OwnersAgree
    BY Zenon DEF IInv
  <1> QED
    BY IInvariant, <1>1, PTL

\* The listener of an embryonic or unaccepted child is alive: tcb_free on a
\* listener leaves no child behind.
THEOREM ListenersLive == Spec => []ListenerLive
  <1>1. IInv => ListenerLive
    BY Zenon DEF IInv
  <1> QED
    BY IInvariant, <1>1, PTL

\* Accept queues keep to their backlog and hold each child once, and only
\* established children of their own listener.
THEOREM QueuesSound == Spec => []QueueHoldsChildren
  <1>1. IInv => QueueHoldsChildren
    BY Zenon DEF IInv
  <1> QED
    BY IInvariant, <1>1, PTL

\* Every block that is not closing belongs to a socket or to a listener, so
\* the table loses no slot to a connection nobody can close.
THEOREM NothingOrphaned == Spec => []NoOrphan
  <1>1. IInv => NoOrphan
    BY Zenon DEF IInv
  <1> QED
    BY IInvariant, <1>1, PTL

=============================================================================
