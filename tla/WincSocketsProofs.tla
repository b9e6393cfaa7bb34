------------------------- MODULE WincSocketsProofs --------------------------
(***************************************************************************)
(* Proofs about WincSockets, for every number of sockets, every range of   *)
(* the session IDs, every set of requests and any number of them under way:*)
(* type correctness, that nothing is heard of a socket that is closed, that*)
(* a receive that is pending has been asked for, and that nobody takes an  *)
(* open socket away from its user.  The last section is about the functions*)
(* of the host interface (WincHif), for every request, message and fault of*)
(* the bus.                                                                *)
(***************************************************************************)
EXTENDS WincSockets, WellFoundedInduction, SequenceTheorems, TLAPS

SessionId == 0..(SessionIds - 1)
Socket == [used : BOOLEAN, session : SessionId, size : Nat, pending : BOOLEAN]

SocketRequest == [cmd : {"BIND", "LISTEN", "CONNECT", "SEND", "SENDTO", "RECV"},
                  sock : Socks, session : SessionId]
PingRequest == [cmd : {"PING"}, id : Nat]

Insides == {NotInside, InPing}
           \cup [kind : {"DATA"}, sock : Socks, left : Int, read : Int]

Lowest(type) == IF type = "TCP" THEN 0 ELSE TCP_SOCK_MAX
Count(type) == IF type = "TCP" THEN TCP_SOCK_MAX ELSE UDP_SOCK_MAX

TypeOK ==
  /\ gastrSockets \in [Socks -> Socket]
  /\ gu16SessionID \in SessionId
  /\ next \in [{"TCP", "UDP"} -> Nat]
  /\ \A type \in {"TCP", "UDP"} : next[type] < Count(type)
  /\ gbSocketInit \in BOOLEAN /\ gpfAppSocketCb \in BOOLEAN
  /\ gu32PingId \in Nat /\ gfpPingCb \in BOOLEAN
  /\ inside \in Insides
  /\ IsABag(requests) /\ BagToSet(requests) \subseteq SocketRequest \cup PingRequest
  /\ lost \subseteq Socks
  /\ event \in {"NONE", "OPEN", "CLOSED"}

\* The session tells an open socket from one that is closed.
OpenHasSession == \A s \in Socks : Used(s) <=> gastrSockets[s].session # 0

\* What the WINC has to answer with data or with the result of a send was asked
\* of an open socket.
RequestHasSession ==
  \A r \in BagToSet(requests) : r.cmd \in {"SEND", "SENDTO", "RECV"} => r.session # 0

IInv == TypeOK /\ OpenHasSession /\ RequestHasSession
        /\ NoEventAfterClose /\ PendingHasRequest
-----------------------------------------------------------------------------
(* The sets and the operators of the model.                                *)

\* Every socket has one of two types.
LEMMA SocksOfType ==
  /\ Socks = {Lowest("TCP") + i : i \in 0..(Count("TCP") - 1)}
             \cup {Lowest("UDP") + i : i \in 0..(Count("UDP") - 1)}
  /\ 0 \in SessionId
BY SocketsAssumption DEF Socks, Tcp, Udp, Lowest, Count, SessionId

\* The session of a new socket is not the one of a closed socket.
LEMMA NextSessionType ==
  ASSUME gu16SessionID \in SessionId
  PROVE  NextSession \in SessionId /\ NextSession # 0
BY SocketsAssumption DEF NextSession, SessionId

\* A socket after memset() is a socket that is closed.
LEMMA ClearedType ==
  /\ Cleared \in Socket
  /\ ~Cleared.used /\ Cleared.session = 0 /\ ~Cleared.pending
BY SocksOfType DEF Cleared, Socket

\* A request more.
LEMMA BagAdd ==
  ASSUME NEW B, IsABag(B), NEW r
  PROVE  /\ IsABag(B (+) SetToBag({r}))
         /\ BagToSet(B (+) SetToBag({r})) = BagToSet(B) \cup {r}
BY DEF IsABag, (+), SetToBag, BagToSet

\* A request less: no other one is gone.
LEMMA BagRemove ==
  ASSUME NEW B, IsABag(B), NEW r
  PROVE  /\ IsABag(B (-) SetToBag({r}))
         /\ BagToSet(B (-) SetToBag({r})) \subseteq BagToSet(B)
         /\ BagToSet(B) \ {r} \subseteq BagToSet(B (-) SetToBag({r}))
BY DEF IsABag, (-), SetToBag, BagToSet
-----------------------------------------------------------------------------
(* socket(): the sockets of a type are looked at in turn.                  *)

Types == {"TCP", "UDP"}
KindOf(type) == IF type = "TCP" THEN Tcp ELSE Udp

\* The i-th socket that socket() looks at.
At(type, i) == Lowest(type) + ((next[type] + i) % Count(type))
Looked(type) == 0..(Count(type) - 1)

\* It looks at the sockets of the type, and at each of them.
LEMMA LooksAtAll ==
  ASSUME TypeOK, NEW type \in Types
  PROVE  /\ Count(type) \in Nat \ {0}
         /\ \A i \in Looked(type) : At(type, i) \in KindOf(type)
         /\ \A t \in KindOf(type) : \E i \in Looked(type) : At(type, i) = t
         /\ \A i \in Looked(type) : Kind(At(type, i)) = KindOf(type)
         /\ KindOf(type) \subseteq Socks
<1> DEFINE n == Count(type)
           m == next[type]
           f == Lowest(type)
<1>1. n \in Nat /\ n > 0 /\ m \in Nat /\ m < n /\ f \in Nat
  BY SocketsAssumption DEF Count, TypeOK, Types, Lowest
<1>2. KindOf(type) = f..(f + n - 1)
  BY SocketsAssumption DEF KindOf, Tcp, Udp, Count, Lowest
<1>3. \A i \in Looked(type) : At(type, i) = f + ((m + i) % n)
  BY DEF At
<1>4. Looked(type) = 0..(n - 1)
  BY DEF Looked
<1>5. KindOf(type) \subseteq Socks
  BY DEF KindOf, Socks
<1>6. \A t \in KindOf(type) : Kind(t) = KindOf(type)
  BY SocketsAssumption DEF Kind, KindOf, Tcp, Udp
<1> HIDE DEF n, m, f
<1>7. \A i \in 0..(n - 1) : (m + i) % n \in 0..(n - 1)
  BY <1>1
<1>8. \A d \in 0..(n - 1) : \E i \in 0..(n - 1) : (m + i) % n = d
  <2> TAKE d \in 0..(n - 1)
  <2>1. CASE d >= m
    <3>1. d - m \in 0..(n - 1) /\ m + (d - m) = d
      BY <1>1, <2>1
    <3>2. d % n = d
      BY <1>1
    <3> QED BY <3>1, <3>2
  <2>2. CASE d < m
    <3>1. d + n - m \in 0..(n - 1) /\ m + (d + n - m) = d + n
      BY <1>1, <2>2
    <3>2. (d + n) % n = d
      BY <1>1
    <3> QED BY <3>1, <3>2
  <2> QED BY <1>1, <2>1, <2>2
<1>9. \A i \in Looked(type) : At(type, i) \in KindOf(type)
  BY <1>1, <1>2, <1>3, <1>4, <1>7
<1>10. \A t \in KindOf(type) : \E i \in Looked(type) : At(type, i) = t
  <2> TAKE t \in KindOf(type)
  <2>1. t - f \in 0..(n - 1)
    BY <1>1, <1>2
  <2>2. PICK i \in 0..(n - 1) : (m + i) % n = t - f
    BY <1>8, <2>1
  <2>3. At(type, i) = f + (t - f)
    BY <1>3, <1>4, <2>2
  <2>4. f + (t - f) = t
    BY <1>1, <1>2
  <2> QED BY <1>4, <2>3, <2>4
<1> QED BY <1>1, <1>5, <1>6, <1>9, <1>10 DEF n

\* A set of numbers that is not empty has a lowest one.
LEMMA LowestExists ==
  ASSUME NEW S \in SUBSET Nat, S # {}
  PROVE  \E j \in S : \A k \in S : j <= k
<1> DEFINE R == OpToRel(<, Nat)
<1>1. IsWellFoundedOn(R, Nat)
  BY NatLessThanWellFounded
<1>2. \A x, y \in Nat : x < y => <<x, y>> \in R
  BY DEF OpToRel
<1> HIDE DEF R
<1>3. PICK j \in S : \A y \in S : ~ (<<y, j>> \in R)
  BY <1>1, WFMin
<1>4. \A k \in S : ~(k < j)
  BY <1>2, <1>3
<1>5. \A k \in S : j <= k
  BY <1>4
<1> QED BY <1>5

\* What socket() opens is a socket of the type, and one that is free if any is.
LEMMA SocketOpened ==
  ASSUME TypeOK, NEW type \in Types, socket(type)
  PROVE  /\ \E s \in KindOf(type) :
              /\ gastrSockets' = [gastrSockets EXCEPT ![s] = Opened]
              /\ lost' = lost \ {s}
              /\ Kind(s) = KindOf(type)
              /\ Used(s) => \A t \in Kind(s) : Used(t)
         /\ next' \in [Types -> Nat] /\ \A t \in Types : next'[t] < Count(t)
         /\ gu16SessionID' = NextSession /\ event' = "NONE"
         /\ UNCHANGED <<ping, setup, inside, requests>>
<1> DEFINE free == {i \in Looked(type) : ~Used(At(type, i))}
           i == IF free = {} THEN Count(type) - 1
                ELSE CHOOSE j \in free : \A k \in free : j <= k
<1>1. /\ next' = [next EXCEPT ![type] = (@ + i + 1) % Count(type)]
      /\ gu16SessionID' = NextSession
      /\ gastrSockets' = [gastrSockets EXCEPT ![At(type, i)] = Opened]
      /\ lost' = lost \ {At(type, i)} /\ event' = "NONE"
      /\ UNCHANGED <<ping, setup, inside, requests>>
  BY DEF socket, At, Looked, Lowest, Count
<1>2. free # {} => i \in free
  <2> SUFFICES ASSUME free # {} PROVE i \in free
    OBVIOUS
  <2>1. free \in SUBSET Nat
    BY DEF Looked
  <2>2. \E j \in free : \A k \in free : j <= k
    BY <2>1, LowestExists
  <2> QED BY <2>2
<1>3. i \in Looked(type)
  BY <1>2, LooksAtAll DEF Looked
<1>4. Used(At(type, i)) => \A t \in KindOf(type) : Used(t)
  <2> SUFFICES ASSUME Used(At(type, i)), NEW t \in KindOf(type) PROVE Used(t)
    OBVIOUS
  <2>1. free = {}
    BY <1>2
  <2>2. PICK j \in Looked(type) : At(type, j) = t
    BY LooksAtAll
  <2> QED BY <2>1, <2>2
<1> HIDE DEF free, i
<1>5. At(type, i) \in KindOf(type) /\ Kind(At(type, i)) = KindOf(type)
  BY <1>3, LooksAtAll
<1>6. next' \in [Types -> Nat] /\ \A t \in Types : next'[t] < Count(t)
  <2>1. next[type] \in Nat /\ i \in Nat /\ Count(type) \in Nat \ {0}
    BY <1>3, LooksAtAll DEF TypeOK, Types, Looked
  <2>2. (next[type] + i + 1) % Count(type) \in Nat
        /\ (next[type] + i + 1) % Count(type) < Count(type)
    BY <2>1
  <2> QED BY <1>1, <2>2 DEF TypeOK, Types
<1> QED BY <1>1, <1>4, <1>5, <1>6
-----------------------------------------------------------------------------
(* The steps.                                                              *)

\* A new socket is open, and no receive is pending on it.
LEMMA OpenedType ==
  ASSUME gu16SessionID \in SessionId
  PROVE  /\ Opened \in Socket
         /\ Opened.used /\ Opened.session = NextSession /\ ~Opened.pending
BY NextSessionType DEF Opened, Socket

\* What posting a request does to those that are under way.
LEMMA PostAdds ==
  ASSUME TypeOK, NEW r \in SocketRequest \cup PingRequest, NEW outcome \in Outcomes,
         Post(r, outcome)
  PROVE  /\ IsABag(requests')
         /\ BagToSet(requests') \subseteq SocketRequest \cup PingRequest
         /\ BagToSet(requests) \subseteq BagToSet(requests')
         /\ BagToSet(requests') \subseteq BagToSet(requests) \cup {r}
         /\ outcome # "LOST" => r \in BagToSet(requests')
<1>1. CASE outcome = "LOST"
  BY <1>1 DEF Post, TypeOK
<1>2. CASE outcome # "LOST"
  <2>1. requests' = requests (+) SetToBag({r})
    BY <1>2 DEF Post
  <2>2. IsABag(requests') /\ BagToSet(requests') = BagToSet(requests) \cup {r}
    BY <2>1, BagAdd DEF TypeOK
  <2> QED BY <2>2 DEF TypeOK
<1> QED BY <1>1, <1>2

\* What a reply does to them.
LEMMA ReplyRemoves ==
  ASSUME TypeOK, NEW r, Reply(r)
  PROVE  /\ r \in SocketRequest \cup PingRequest
         /\ r \in BagToSet(requests)
         /\ IsABag(requests')
         /\ BagToSet(requests') \subseteq BagToSet(requests)
         /\ BagToSet(requests') \subseteq SocketRequest \cup PingRequest
         /\ BagToSet(requests) \ {r} \subseteq BagToSet(requests')
<1>1. requests' = requests (-) SetToBag({r}) /\ r \in BagToSet(requests)
  BY DEF Reply, BagIn
<1> QED BY <1>1, BagRemove DEF TypeOK

\* The names of the requests tell those to a socket from a ping.
LEMMA RequestKinds ==
  ASSUME NEW r \in SocketRequest \cup PingRequest
  PROVE  /\ r.cmd = "PING" => r \in PingRequest
         /\ r.cmd # "PING" => r \in SocketRequest
BY DEF SocketRequest, PingRequest

\* A request of an open socket has its session if its reply will be told.
LEMMA RequestType ==
  ASSUME TypeOK, OpenHasSession, NEW s \in Socks, Used(s),
         NEW cmd \in Commands \cup {"RECV"}
  PROVE  /\ Request(cmd, s) \in SocketRequest
         /\ Request(cmd, s).cmd = cmd /\ Request(cmd, s).sock = s
         /\ cmd \in {"SEND", "SENDTO", "RECV"} => Request(cmd, s).session # 0
<1>1. cmd \in {"BIND", "LISTEN", "CONNECT", "SEND", "SENDTO", "RECV"}
  BY SocketsAssumption
<1>2. gastrSockets[s].session \in SessionId /\ gastrSockets[s].session # 0
  BY DEF TypeOK, Socket, OpenHasSession
<1> QED BY <1>1, <1>2, SocksOfType DEF Request, SocketRequest

\* Where a receive is pending, its answer is to come, or lost, also after a step
\* that leaves the sockets alone and takes away no request to receive.
LEMMA PendingStays ==
  ASSUME PendingHasRequest, UNCHANGED gastrSockets, lost \subseteq lost',
         \A r \in BagToSet(requests) :
           r.cmd = "RECV" => r \in BagToSet(requests') \/ r.sock \in lost'
                             \/ ~gastrSockets[r.sock].pending
  PROVE  PendingHasRequest'
BY DEF PendingHasRequest

\* What recv() and a new peer change of a socket.
LEMMA SocketChanges ==
  ASSUME NEW x \in Socket, NEW size \in Nat, NEW session \in SessionId
  PROVE  /\ [x EXCEPT !.size = size, !.pending = TRUE] \in Socket
         /\ [x EXCEPT !.size = size, !.pending = TRUE].used = x.used
         /\ [x EXCEPT !.size = size, !.pending = TRUE].session = x.session
         /\ [x EXCEPT !.used = TRUE, !.session = session] \in Socket
         /\ [x EXCEPT !.used = TRUE, !.session = session].used
         /\ [x EXCEPT !.used = TRUE, !.session = session].session = session
         /\ [x EXCEPT !.used = TRUE, !.session = session].pending = x.pending
BY DEF Socket
-----------------------------------------------------------------------------
\* Initially all sockets are closed and nothing is asked.
LEMMA InitIInv == Init => IInv
<1> SUFFICES ASSUME Init PROVE IInv
  OBVIOUS
<1>1. IsABag(requests) /\ BagToSet(requests) = {}
  BY DEF Init, EmptyBag, SetToBag, IsABag, BagToSet
<1>2. \A s \in Socks : gastrSockets[s] = Cleared
  BY DEF Init
<1>3. TypeOK
  <2>1. gastrSockets \in [Socks -> Socket]
    BY ClearedType DEF Init
  <2>2. next \in [{"TCP", "UDP"} -> Nat]
        /\ \A type \in {"TCP", "UDP"} : next[type] < Count(type)
    BY SocketsAssumption DEF Init, Count
  <2> QED BY <1>1, <2>1, <2>2, SocksOfType DEF TypeOK, Init, Insides
<1> QED
  BY <1>1, <1>2, <1>3, ClearedType
  DEF IInv, OpenHasSession, RequestHasSession, NoEventAfterClose, PendingHasRequest,
      Used, Init

\* socketInit() and socketDeinit() close all sockets.
LEMMA StepAllClosed ==
  ASSUME IInv, socketInit \/ socketDeinit
  PROVE  IInv'
<1>1. gastrSockets' = [s \in Socks |-> Cleared] /\ event' = "NONE"
      /\ UNCHANGED <<next, inside, requests, gu32PingId>> /\ lost' \subseteq lost
      /\ gu16SessionID' \in {0, gu16SessionID}
      /\ gbSocketInit' \in BOOLEAN /\ gpfAppSocketCb' \in BOOLEAN /\ gfpPingCb' \in BOOLEAN
  BY DEF socketInit, socketDeinit, ping, IInv, TypeOK
<1>2. \A s \in Socks : gastrSockets'[s] = Cleared
  BY <1>1
<1>3. gastrSockets' \in [Socks -> Socket]
  BY <1>1, ClearedType
<1>4. TypeOK'
  BY <1>1, <1>3, SocksOfType DEF IInv, TypeOK
<1>5. OpenHasSession' /\ PendingHasRequest'
  BY <1>2, ClearedType DEF OpenHasSession, PendingHasRequest, Used
<1> QED
  BY <1>1, <1>4, <1>5 DEF IInv, RequestHasSession, NoEventAfterClose

\* Steps that leave the sockets and what is asked of the WINC alone.
LEMMA StepSameSockets ==
  ASSUME IInv, UNCHANGED <<gastrSockets, requests, lost>>
  PROVE  /\ OpenHasSession' /\ RequestHasSession' /\ PendingHasRequest'
         /\ gastrSockets' \in [Socks -> Socket]
         /\ IsABag(requests') /\ BagToSet(requests') \subseteq SocketRequest \cup PingRequest
         /\ lost' \subseteq Socks
BY DEF IInv, TypeOK, OpenHasSession, RequestHasSession, PendingHasRequest, Used

\* registerSocketCallback().
LEMMA StepRegister ==
  ASSUME IInv, registerSocketCallback
  PROVE  IInv'
<1>1. UNCHANGED <<sockets, ping, inside, requests, lost, gbSocketInit>>
      /\ gpfAppSocketCb' = TRUE /\ event' = "NONE"
  BY DEF registerSocketCallback
<1>2. OpenHasSession' /\ RequestHasSession' /\ PendingHasRequest'
  BY <1>1, StepSameSockets DEF sockets
<1>3. TypeOK'
  BY <1>1 DEF IInv, TypeOK, sockets, ping
<1> QED BY <1>1, <1>2, <1>3 DEF IInv, NoEventAfterClose

\* socket().
LEMMA StepSocket ==
  ASSUME IInv, NEW type \in Types, socket(type)
  PROVE  IInv'
<1>0. TypeOK
  BY DEF IInv
<1>1. PICK s \in KindOf(type) :
        /\ gastrSockets' = [gastrSockets EXCEPT ![s] = Opened]
        /\ lost' = lost \ {s}
  BY <1>0, SocketOpened
<1>2. /\ next' \in [Types -> Nat] /\ \A t \in Types : next'[t] < Count(t)
      /\ gu16SessionID' = NextSession /\ event' = "NONE"
      /\ UNCHANGED <<ping, setup, inside, requests>>
  BY <1>0, SocketOpened
<1>3. s \in Socks
  BY <1>0, LooksAtAll
<1>4. gu16SessionID \in SessionId
  BY <1>0 DEF TypeOK
<1>5. gastrSockets' \in [Socks -> Socket]
  BY <1>0, <1>1, <1>4, OpenedType DEF TypeOK
<1>6. TypeOK'
  BY <1>0, <1>1, <1>2, <1>4, <1>5, NextSessionType DEF TypeOK, Types, ping, setup
<1>7. \A t \in Socks : gastrSockets'[t] = IF t = s THEN Opened ELSE gastrSockets[t]
  BY <1>0, <1>1 DEF TypeOK
<1>8. OpenHasSession'
  BY <1>4, <1>7, OpenedType, NextSessionType DEF IInv, OpenHasSession, Used
<1>9. PendingHasRequest'
  BY <1>1, <1>2, <1>4, <1>7, OpenedType DEF IInv, PendingHasRequest
<1> QED
  BY <1>2, <1>6, <1>8, <1>9 DEF IInv, RequestHasSession, NoEventAfterClose

\* bind(), listen(), connect(), send() and sendto().
LEMMA StepAsk ==
  ASSUME IInv, NEW s \in Socks, NEW cmd \in Commands, NEW outcome \in Outcomes,
         Ask(cmd, s, outcome)
  PROVE  IInv'
<1>0. TypeOK /\ OpenHasSession
  BY DEF IInv
<1>1. Used(s) /\ Post(Request(cmd, s), outcome) /\ event' = "NONE"
      /\ UNCHANGED <<sockets, ping, setup, inside, lost>>
  BY DEF Ask
<1>2. /\ Request(cmd, s) \in SocketRequest
      /\ Request(cmd, s).cmd \in {"SEND", "SENDTO", "RECV"} => Request(cmd, s).session # 0
  BY <1>0, <1>1, RequestType
<1>3. /\ IsABag(requests')
      /\ BagToSet(requests') \subseteq SocketRequest \cup PingRequest
      /\ BagToSet(requests) \subseteq BagToSet(requests')
      /\ BagToSet(requests') \subseteq BagToSet(requests) \cup {Request(cmd, s)}
  BY <1>0, <1>1, <1>2, PostAdds
<1>4. TypeOK'
  BY <1>0, <1>1, <1>3 DEF TypeOK, sockets, ping, setup
<1>5. OpenHasSession' /\ RequestHasSession'
  BY <1>0, <1>1, <1>2, <1>3 DEF IInv, OpenHasSession, RequestHasSession, Used, sockets
<1>6. PendingHasRequest'
  BY <1>1, <1>3, PendingStays DEF IInv, sockets
<1> QED BY <1>1, <1>4, <1>5, <1>6 DEF IInv, NoEventAfterClose

\* recv() and recvfrom().
LEMMA StepRecv ==
  ASSUME IInv, NEW s \in Socks, NEW size \in Sizes, NEW outcome \in Outcomes,
         recv(s, size, outcome)
  PROVE  IInv'
<1> DEFINE x == [gastrSockets[s] EXCEPT !.size = size, !.pending = TRUE]
           r == Request("RECV", s)
<1>0. TypeOK /\ OpenHasSession
  BY DEF IInv
<1>1. /\ Used(s)
      /\ gastrSockets' = [gastrSockets EXCEPT ![s] = x]
      /\ event' = "NONE"
      /\ UNCHANGED <<gu16SessionID, next, ping, setup, inside>>
  BY DEF recv
<1>2. gastrSockets[s] \in Socket /\ size \in Nat
  BY <1>0, SocketsAssumption DEF TypeOK
<1>3. x \in Socket /\ x.used = gastrSockets[s].used /\ x.session = gastrSockets[s].session
  BY <1>2, SocksOfType, SocketChanges
<1> HIDE DEF x
<1>4. \A t \in Socks : gastrSockets'[t] = IF t = s THEN x ELSE gastrSockets[t]
  BY <1>0, <1>1 DEF TypeOK
<1>5. r \in SocketRequest /\ r.cmd = "RECV" /\ r.sock = s /\ r.session # 0
  BY <1>0, <1>1, RequestType
<1> HIDE DEF r
<1>6. /\ IsABag(requests')
      /\ BagToSet(requests') \subseteq SocketRequest \cup PingRequest
      /\ BagToSet(requests) \subseteq BagToSet(requests')
      /\ BagToSet(requests') \subseteq BagToSet(requests) \cup {r}
      /\ lost \subseteq lost' /\ lost' \subseteq Socks
      /\ gastrSockets[s].pending \/ r \in BagToSet(requests') \/ s \in lost'
  <2>1. CASE gastrSockets[s].pending
    BY <1>0, <2>1 DEF recv, TypeOK
  <2>2. CASE ~gastrSockets[s].pending
    <3>1. Post(r, outcome) /\ lost' = IF outcome = "LOST" THEN lost \cup {s} ELSE lost
      BY <2>2 DEF recv, r
    <3> QED BY <1>0, <1>5, <2>2, <3>1, PostAdds DEF TypeOK
  <2> QED BY <2>1, <2>2
<1>7. TypeOK'
  <2>1. gastrSockets' \in [Socks -> Socket]
    BY <1>0, <1>1, <1>3 DEF TypeOK
  <2> QED BY <1>0, <1>1, <1>6, <2>1 DEF TypeOK, ping, setup
<1>8. OpenHasSession' /\ RequestHasSession'
  BY <1>0, <1>3, <1>4, <1>5, <1>6 DEF IInv, OpenHasSession, RequestHasSession, Used
<1>9. PendingHasRequest'
  BY <1>4, <1>5, <1>6 DEF IInv, PendingHasRequest
<1> QED BY <1>1, <1>7, <1>8, <1>9 DEF IInv, NoEventAfterClose

\* close().
LEMMA StepClose ==
  ASSUME IInv, NEW s \in Socks, NEW outcome \in Outcomes, close(s, outcome)
  PROVE  IInv'
<1>1. /\ gastrSockets' = [gastrSockets EXCEPT ![s] = Cleared]
      /\ lost' = lost \ {s} /\ event' = "NONE"
      /\ UNCHANGED <<gu16SessionID, next, ping, setup, inside, requests>>
  BY DEF close
<1>2. \A t \in Socks : gastrSockets'[t] = IF t = s THEN Cleared ELSE gastrSockets[t]
  BY <1>1 DEF IInv, TypeOK
<1>3. TypeOK'
  <2>1. gastrSockets' \in [Socks -> Socket]
    BY <1>1, ClearedType DEF IInv, TypeOK
  <2> QED BY <1>1, <2>1 DEF IInv, TypeOK, ping, setup
<1>4. OpenHasSession'
  BY <1>2, ClearedType DEF IInv, OpenHasSession, Used
<1>5. PendingHasRequest'
  BY <1>1, <1>2, ClearedType DEF IInv, PendingHasRequest
<1> QED BY <1>1, <1>3, <1>4, <1>5 DEF IInv, RequestHasSession, NoEventAfterClose

\* m2m_ping_req().
LEMMA StepPingReq ==
  ASSUME IInv, NEW outcome \in Outcomes, m2m_ping_req(outcome)
  PROVE  IInv'
<1> DEFINE r == [cmd |-> "PING", id |-> gu32PingId + 1]
<1>0. TypeOK
  BY DEF IInv
<1>1. /\ Post(r, outcome) /\ event' = "NONE"
      /\ gu32PingId' = gu32PingId + 1 /\ gfpPingCb' = TRUE
      /\ UNCHANGED <<sockets, setup, inside, lost>>
  BY DEF m2m_ping_req
<1>2. r \in PingRequest /\ r.cmd = "PING"
  BY <1>0 DEF TypeOK, PingRequest
<1> HIDE DEF r
<1>3. /\ IsABag(requests')
      /\ BagToSet(requests') \subseteq SocketRequest \cup PingRequest
      /\ BagToSet(requests) \subseteq BagToSet(requests')
      /\ BagToSet(requests') \subseteq BagToSet(requests) \cup {r}
  BY <1>0, <1>1, <1>2, PostAdds
<1>4. TypeOK'
  BY <1>0, <1>1, <1>3 DEF TypeOK, sockets, setup
<1>5. OpenHasSession' /\ RequestHasSession'
  BY <1>1, <1>2, <1>3 DEF IInv, OpenHasSession, RequestHasSession, Used, sockets
<1>6. PendingHasRequest'
  BY <1>1, <1>3, PendingStays DEF IInv, sockets
<1> QED BY <1>1, <1>4, <1>5, <1>6 DEF IInv, NoEventAfterClose

\* A reply leaves the sockets alone, unless it is to recv(), and takes one request.
LEMMA StepReply ==
  ASSUME IInv, NEW r, Reply(r)
  PROVE  /\ IsABag(requests') /\ BagToSet(requests') \subseteq SocketRequest \cup PingRequest
         /\ RequestHasSession'
         /\ UNCHANGED gastrSockets =>
              /\ OpenHasSession'
              /\ lost \subseteq lost' /\ (r.cmd = "RECV" => r.sock \in lost' \/ ~gastrSockets[r.sock].pending)
                   => PendingHasRequest'
<1>1. /\ IsABag(requests')
      /\ BagToSet(requests') \subseteq BagToSet(requests)
      /\ BagToSet(requests') \subseteq SocketRequest \cup PingRequest
      /\ BagToSet(requests) \ {r} \subseteq BagToSet(requests')
  BY ReplyRemoves DEF IInv
<1>2. UNCHANGED gastrSockets => OpenHasSession'
  BY DEF IInv, OpenHasSession, Used
<1>3. ASSUME UNCHANGED gastrSockets, lost \subseteq lost',
             r.cmd = "RECV" => r.sock \in lost' \/ ~gastrSockets[r.sock].pending
      PROVE  PendingHasRequest'
  BY <1>1, <1>3, PendingStays DEF IInv
<1> QED BY <1>1, <1>2, <1>3 DEF IInv, RequestHasSession

\* An answer that the bus loses.
LEMMA StepReplyLost ==
  ASSUME IInv, NEW r, ReplyLost(r)
  PROVE  IInv'
<1>1. /\ Reply(r) /\ event' = "NONE"
      /\ lost' = IF r.cmd = "RECV" /\ gastrSockets[r.sock].pending
                 THEN lost \cup {r.sock} ELSE lost
      /\ UNCHANGED <<sockets, ping, setup, inside>>
  BY DEF ReplyLost
<1>2. r \in SocketRequest \cup PingRequest
  BY <1>1, ReplyRemoves DEF IInv
<1>3. r.cmd = "RECV" => r.sock \in Socks
  BY <1>2, RequestKinds DEF SocketRequest
<1>4. lost \subseteq lost' /\ lost' \subseteq Socks
      /\ (r.cmd = "RECV" => r.sock \in lost' \/ ~gastrSockets[r.sock].pending)
  BY <1>1, <1>3 DEF IInv, TypeOK
<1>5. UNCHANGED gastrSockets
  BY <1>1 DEF sockets
<1>6. TypeOK'
  BY <1>1, <1>4, <1>5, StepReply DEF IInv, TypeOK, sockets, ping, setup
<1> QED
  BY <1>1, <1>4, <1>5, <1>6, StepReply DEF IInv, NoEventAfterClose

\* The replies that change nothing, and the ones to a ping.
LEMMA StepStateAndPingReply ==
  ASSUME IInv, NEW r, StateReply(r) \/ PingReply(r)
  PROVE  IInv'
<1>1. /\ Reply(r) /\ event' = "NONE" /\ r.cmd # "RECV"
      /\ UNCHANGED <<sockets, gu32PingId, setup, lost>>
      /\ inside' \in {inside, InPing} /\ gfpPingCb' \in {gfpPingCb, FALSE}
  BY DEF StateReply, PingReply, ping
<1>2. UNCHANGED gastrSockets
  BY <1>1 DEF sockets
<1>3. TypeOK'
  BY <1>1, <1>2, StepReply DEF IInv, TypeOK, sockets, setup, Insides
<1> QED BY <1>1, <1>2, <1>3, StepReply DEF IInv, NoEventAfterClose

\* The WINC names a socket for a new peer.
LEMMA StepAcceptReply ==
  ASSUME IInv, NEW listener \in Tcp, NEW s \in Tcp, AcceptReply(listener, s)
  PROVE  IInv'
<1> DEFINE x == [gastrSockets[s] EXCEPT !.used = TRUE, !.session = NextSession]
<1>1. /\ gu16SessionID' = NextSession
      /\ gastrSockets' = [gastrSockets EXCEPT ![s] = x]
      /\ event' = "NONE"
      /\ UNCHANGED <<next, ping, setup, inside, requests, lost>>
  BY DEF AcceptReply
<1>2. s \in Socks /\ gastrSockets[s] \in Socket /\ gu16SessionID \in SessionId
  BY DEF Socks, IInv, TypeOK
<1>3. NextSession \in SessionId /\ NextSession # 0
  BY <1>2, NextSessionType
<1>4. /\ x \in Socket /\ x.used /\ x.session = NextSession
      /\ x.pending = gastrSockets[s].pending
  BY <1>2, <1>3, SocketChanges
<1> HIDE DEF x
<1>5. \A t \in Socks : gastrSockets'[t] = IF t = s THEN x ELSE gastrSockets[t]
  BY <1>1 DEF IInv, TypeOK
<1>6. TypeOK'
  <2>1. gastrSockets' \in [Socks -> Socket]
    BY <1>1, <1>4 DEF IInv, TypeOK
  <2> QED BY <1>1, <1>3, <2>1 DEF IInv, TypeOK, ping, setup
<1>7. OpenHasSession' /\ PendingHasRequest'
  BY <1>1, <1>3, <1>4, <1>5 DEF IInv, OpenHasSession, PendingHasRequest, Used
<1> QED BY <1>1, <1>6, <1>7 DEF IInv, RequestHasSession, NoEventAfterClose

\* The session of a reply that is told of a send or a receive is one of an open
\* socket, if it is that of the socket now.
LEMMA CurrentIsOpen ==
  ASSUME IInv, NEW r \in BagToSet(requests), r.cmd \in {"SEND", "SENDTO", "RECV"}
  PROVE  /\ r.sock \in Socks /\ r.session # 0
         /\ r.session = gastrSockets[r.sock].session => Used(r.sock)
<1>1. r \in SocketRequest
  BY RequestKinds DEF IInv, TypeOK
<1> QED BY <1>1 DEF IInv, RequestHasSession, OpenHasSession, SocketRequest

\* The application hears of an open socket.
LEMMA EventOfOpen ==
  ASSUME NEW s, Used(s)
  PROVE  Event(s) \in {"NONE", "OPEN"}
BY DEF Event

\* send() and sendto() are answered.
LEMMA StepSendReply ==
  ASSUME IInv, NEW r, SendReply(r)
  PROVE  IInv'
<1>1. /\ r.cmd \in {"SEND", "SENDTO"} /\ Reply(r)
      /\ event' = IF r.session = gastrSockets[r.sock].session THEN Event(r.sock) ELSE "NONE"
      /\ UNCHANGED <<sockets, ping, setup, inside, lost>>
  BY DEF SendReply
<1>2. r \in BagToSet(requests)
  BY <1>1 DEF Reply, BagIn
<1>3. event' \in {"NONE", "OPEN"}
  BY <1>1, <1>2, CurrentIsOpen, EventOfOpen
<1>4. UNCHANGED gastrSockets
  BY <1>1 DEF sockets
<1>5. TypeOK'
  BY <1>1, <1>3, <1>4, StepReply DEF IInv, TypeOK, sockets, ping, setup
<1> QED BY <1>1, <1>3, <1>4, <1>5, StepReply DEF IInv, NoEventAfterClose

\* A chunk is handed to the application only of an open socket.
LEMMA ChunkOfOpen ==
  ASSUME TypeOK, NEW s \in Socks, Used(s), NEW left \in Int, NEW readable, Chunk(s, left, readable)
  PROVE  event' \in {"NONE", "OPEN"} /\ inside' \in Insides
<1>1. gastrSockets[s].size \in Int
  BY DEF TypeOK, Socket
<1>2. (IF left > gastrSockets[s].size THEN gastrSockets[s].size ELSE left) \in Int
  BY <1>1
<1>3. \A read \in Int : InData(s, left, read) \in Insides
  BY DEF InData, Insides
<1>4. inside' \in Insides
  BY <1>2, <1>3 DEF Chunk, Insides
<1>5. event' \in {"NONE", "OPEN"}
  BY EventOfOpen DEF Chunk
<1> QED BY <1>4, <1>5

\* recv() and recvfrom() are answered.
LEMMA StepRecvReply ==
  ASSUME IInv, NEW r, NEW status \in Statuses, NEW readable \in BOOLEAN,
         RecvReply(r, status, readable)
  PROVE  IInv'
<1> DEFINE s == r.sock
           x == [gastrSockets[s] EXCEPT !.pending = FALSE]
<1>1. /\ r.cmd = "RECV" /\ Reply(r)
      /\ gastrSockets' = [gastrSockets EXCEPT ![s] = x]
      /\ lost' = lost \ {s}
      /\ UNCHANGED <<gu16SessionID, next, ping, setup>>
  BY DEF RecvReply
<1>2. r \in BagToSet(requests) /\ TypeOK
  BY <1>1 DEF Reply, BagIn, IInv
<1>3. s \in Socks /\ (r.session = gastrSockets[s].session => Used(s))
  BY <1>1, <1>2, CurrentIsOpen
<1>4. status \in Int
  BY SocketsAssumption
<1>5. event' \in {"NONE", "OPEN"} /\ inside' \in Insides
  <2>1. CASE Used(s) /\ Chunk(s, status, readable)
    BY <1>2, <1>3, <1>4, <2>1, ChunkOfOpen
  <2>2. CASE r.session = gastrSockets[s].session /\ event' = Event(s) /\ UNCHANGED inside
    BY <1>2, <1>3, <2>2, EventOfOpen DEF TypeOK
  <2>3. CASE event' = "NONE" /\ UNCHANGED inside
    BY <1>2, <2>3 DEF TypeOK
  <2> QED BY <2>1, <2>2, <2>3 DEF RecvReply
<1>6. /\ x \in Socket /\ x.used = gastrSockets[s].used
      /\ x.session = gastrSockets[s].session /\ ~x.pending
  BY <1>2, <1>3 DEF TypeOK, Socket
<1>7. \A t \in Socks : gastrSockets'[t] = IF t = s THEN x ELSE gastrSockets[t]
  BY <1>1, <1>2 DEF TypeOK
<1> HIDE DEF x
<1>8. /\ IsABag(requests') /\ BagToSet(requests') \subseteq SocketRequest \cup PingRequest
      /\ RequestHasSession' /\ BagToSet(requests) \ {r} \subseteq BagToSet(requests')
  BY <1>1, <1>2, StepReply, ReplyRemoves
<1>9. TypeOK'
  <2>1. gastrSockets' \in [Socks -> Socket]
    BY <1>1, <1>2, <1>6 DEF TypeOK
  <2> QED BY <1>1, <1>2, <1>5, <1>8, <2>1 DEF TypeOK, ping, setup
<1>10. OpenHasSession'
  BY <1>6, <1>7 DEF IInv, OpenHasSession, Used
<1>11. PendingHasRequest'
  <2> SUFFICES ASSUME NEW t \in Socks, gastrSockets'[t].pending
               PROVE  \/ \E q \in BagToSet(requests') : q.cmd = "RECV" /\ q.sock = t
                      \/ t \in lost'
    BY DEF PendingHasRequest
  <2>1. t # s /\ gastrSockets[t].pending
    BY <1>6, <1>7
  <2>2. \/ \E q \in BagToSet(requests) : q.cmd = "RECV" /\ q.sock = t
        \/ t \in lost
    BY <2>1 DEF IInv, PendingHasRequest
  <2> QED BY <1>1, <1>8, <2>1, <2>2
<1> QED BY <1>5, <1>8, <1>9, <1>10, <1>11 DEF IInv, NoEventAfterClose

\* Callbacks return.
LEMMA StepCallbackReturns ==
  ASSUME IInv, NEW readable \in BOOLEAN, DataCallbackReturns(readable) \/ PingCallbackReturns
  PROVE  IInv'
<1>0. TypeOK
  BY DEF IInv
<1>1. CASE PingCallbackReturns
  <2>1. /\ inside' = NotInside /\ gfpPingCb' = FALSE /\ event' = "NONE"
        /\ UNCHANGED <<sockets, gu32PingId, setup, requests, lost>>
    BY <1>1 DEF PingCallbackReturns
  <2>2. TypeOK'
    BY <1>0, <2>1 DEF TypeOK, Insides, sockets, setup
  <2> QED BY <2>1, <2>2, StepSameSockets DEF IInv, NoEventAfterClose, sockets
<1>2. CASE DataCallbackReturns(readable)
  <2> DEFINE left == inside.left - inside.read
  <2>1. /\ inside.kind = "DATA"
        /\ IF left = 0 \/ ~Used(inside.sock)
            THEN event' = "NONE" /\ inside' = NotInside
            ELSE Chunk(inside.sock, left, readable)
        /\ UNCHANGED <<sockets, ping, setup, requests, lost>>
    BY <1>2 DEF DataCallbackReturns
  <2>2. inside.sock \in Socks /\ left \in Int
    BY <1>0, <2>1 DEF TypeOK, Insides, NotInside, InPing
  <2>3. event' \in {"NONE", "OPEN"} /\ inside' \in Insides
    <3>1. CASE left = 0 \/ ~Used(inside.sock)
      BY <2>1, <3>1 DEF Insides
    <3>2. CASE ~(left = 0 \/ ~Used(inside.sock))
      BY <1>0, <2>1, <2>2, <3>2, ChunkOfOpen
    <3> QED BY <3>1, <3>2
  <2>4. TypeOK'
    BY <1>0, <2>1, <2>3 DEF TypeOK, sockets, ping, setup
  <2> QED BY <2>1, <2>3, <2>4, StepSameSockets DEF IInv, NoEventAfterClose, sockets
<1> QED BY <1>1, <1>2

\* Every step preserves the invariant.
LEMMA StepIInv ==
  ASSUME IInv, [Next]_vars
  PROVE  IInv'
<1>1. CASE Calls
  BY <1>1, StepAllClosed, StepRegister, StepSocket, StepAsk, StepRecv, StepClose, StepPingReq
  DEF Calls, Types
<1>2. CASE Replies
  BY <1>2, StepReplyLost, StepStateAndPingReply, StepSendReply, StepRecvReply,
     StepAcceptReply, StepCallbackReturns DEF Replies
<1>3. CASE UNCHANGED vars
  <2>1. TypeOK' /\ NoEventAfterClose'
    BY <1>3 DEF IInv, TypeOK, NoEventAfterClose, vars, sockets, ping, setup
  <2> QED BY <1>3, <2>1, StepSameSockets DEF IInv, vars, sockets
<1> QED BY <1>1, <1>2, <1>3 DEF Next

\* The invariant holds always.
THEOREM IInvHolds == Spec => []IInv
BY InitIInv, StepIInv, PTL DEF Spec

\* The variables of the socket layer keep their types.
THEOREM SocketsTypeCorrect == Spec => []TypeOK
BY IInvHolds, PTL DEF IInv

\* The application hears neither of data nor of a send of a socket that is not open.
THEOREM ClosedIsSilent == Spec => []NoEventAfterClose
BY IInvHolds, PTL DEF IInv

\* A receive is pending only if it has been asked for.
THEOREM PendingWasAsked == Spec => []PendingHasRequest
BY IInvHolds, PTL DEF IInv
-----------------------------------------------------------------------------
(* An open socket stays with its user.                                     *)

\* What SessionKept says of a step and a socket.
KeepsSession(s) ==
  Used(s) /\ gastrSockets'[s].session # gastrSockets[s].session =>
    \/ ~gastrSockets'[s].used
    \/ \A t \in Kind(s) : Used(t)
    \/ \E l \in Tcp : AcceptReply(l, s)

\* recv() leaves the sessions alone.
LEMMA RecvKeepsSession ==
  ASSUME TypeOK, NEW s \in Socks, NEW q \in Socks, NEW size \in Sizes, NEW outcome,
         recv(q, size, outcome)
  PROVE  KeepsSession(s)
<1>1. gastrSockets' = [gastrSockets EXCEPT ![q] =
                        [gastrSockets[q] EXCEPT !.size = size, !.pending = TRUE]]
  BY DEF recv
<1>2. gastrSockets[q] \in Socket /\ size \in Nat
  BY SocketsAssumption DEF TypeOK
<1>3. [gastrSockets[q] EXCEPT !.size = size, !.pending = TRUE].session
        = gastrSockets[q].session
  BY <1>2, SocksOfType, SocketChanges
<1> QED BY <1>1, <1>3 DEF KeepsSession, TypeOK

\* The answer to it does so, too.
LEMMA RecvReplyKeepsSession ==
  ASSUME TypeOK, NEW s \in Socks, NEW r, NEW status, NEW readable,
         RecvReply(r, status, readable)
  PROVE  KeepsSession(s)
<1>1. gastrSockets' = [gastrSockets EXCEPT ![r.sock] =
                        [gastrSockets[r.sock] EXCEPT !.pending = FALSE]]
  BY DEF RecvReply
<1>2. gastrSockets[s] \in Socket
  BY DEF TypeOK
<1>3. [gastrSockets[s] EXCEPT !.pending = FALSE].session = gastrSockets[s].session
  BY <1>2 DEF Socket
<1>4. CASE s = r.sock
  BY <1>1, <1>3, <1>4 DEF KeepsSession, TypeOK
<1>5. CASE s # r.sock
  BY <1>1, <1>5 DEF KeepsSession, TypeOK
<1> QED BY <1>4, <1>5

\* Every step keeps the session of every open socket, but for the exceptions.
LEMMA StepKeepsSession ==
  ASSUME TypeOK, Next, NEW s \in Socks
  PROVE  KeepsSession(s)
<1>0. CASE registerSocketCallback
  BY <1>0 DEF KeepsSession, registerSocketCallback, sockets
<1>1. CASE socketInit \/ socketDeinit
  <2>1. gastrSockets'[s] = Cleared
    BY <1>1 DEF socketInit, socketDeinit
  <2> QED BY <2>1, ClearedType DEF KeepsSession
<1>2. ASSUME NEW q \in Socks, NEW outcome \in Outcomes, close(q, outcome)
      PROVE  KeepsSession(s)
  <2>1. gastrSockets' = [gastrSockets EXCEPT ![q] = Cleared]
    BY <1>2 DEF close
  <2>2. gastrSockets'[s] \in {Cleared, gastrSockets[s]}
    BY <2>1 DEF TypeOK
  <2> QED BY <2>2, ClearedType DEF KeepsSession
<1>3. ASSUME NEW type \in Types, socket(type)
      PROVE  KeepsSession(s)
  <2>1. PICK q \in KindOf(type) :
          /\ gastrSockets' = [gastrSockets EXCEPT ![q] = Opened]
          /\ Kind(q) = KindOf(type)
          /\ Used(q) => \A t \in Kind(q) : Used(t)
    BY <1>3, SocketOpened
  <2>2. q # s => gastrSockets'[s] = gastrSockets[s]
    BY <2>1 DEF TypeOK
  <2> QED BY <2>1, <2>2 DEF KeepsSession
<1>4. ASSUME NEW listener \in Tcp, NEW q \in Tcp, AcceptReply(listener, q)
      PROVE  KeepsSession(s)
  <2>1. gastrSockets' = [gastrSockets EXCEPT
           ![q] = [gastrSockets[q] EXCEPT !.used = TRUE, !.session = NextSession]]
    BY <1>4 DEF AcceptReply
  <2>2. q # s => gastrSockets'[s] = gastrSockets[s]
    BY <2>1 DEF TypeOK
  <2> QED BY <1>4, <2>2 DEF KeepsSession
<1>5. ASSUME NEW q \in Socks, NEW size \in Sizes, NEW outcome \in Outcomes,
             recv(q, size, outcome)
      PROVE  KeepsSession(s)
  BY <1>5, RecvKeepsSession
<1>6. ASSUME NEW r, NEW status, NEW readable, RecvReply(r, status, readable)
      PROVE  KeepsSession(s)
  BY <1>6, RecvReplyKeepsSession
<1>7. ASSUME NEW outcome \in Outcomes, NEW q \in Socks, NEW cmd, Ask(cmd, q, outcome)
      PROVE  KeepsSession(s)
  BY <1>7 DEF KeepsSession, Ask, sockets
<1>8. ASSUME NEW outcome \in Outcomes, m2m_ping_req(outcome)
      PROVE  KeepsSession(s)
  BY <1>8 DEF KeepsSession, m2m_ping_req, sockets
<1>9. ASSUME NEW r, ReplyLost(r) \/ StateReply(r) \/ SendReply(r) \/ PingReply(r)
      PROVE  KeepsSession(s)
  BY <1>9 DEF KeepsSession, ReplyLost, StateReply, SendReply, PingReply, sockets
<1>10. ASSUME NEW readable \in BOOLEAN, DataCallbackReturns(readable) \/ PingCallbackReturns
       PROVE  KeepsSession(s)
  BY <1>10 DEF KeepsSession, DataCallbackReturns, PingCallbackReturns, sockets
<1>11. CASE Calls
  BY <1>0, <1>1, <1>2, <1>3, <1>5, <1>7, <1>8, <1>11 DEF Calls, Types
<1>12. CASE Replies
  BY <1>4, <1>5, <1>6, <1>9, <1>10, <1>12 DEF Replies
<1> QED BY <1>11, <1>12 DEF Next

\* Nobody takes an open socket away from its user but for the flaw of socket() and
\* the WINC.
THEOREM SessionIsKept == Spec => SessionKept
<1>1. TypeOK /\ [Next]_vars => [\A s \in Socks : KeepsSession(s)]_vars
  BY StepKeepsSession
<1> QED BY <1>1, SocketsTypeCorrect, PTL DEF Spec, SessionKept, KeepsSession
-----------------------------------------------------------------------------
(* The host interface below the sockets (winc_hif.c).                      *)

Hif == INSTANCE WincHif

\* The states of the host interface.
Counts == 0..255

HifStates == [gu8ChipSleep : Counts, gbChipPwrSave : BOOLEAN,
              gu32RxAddr : Nat, gu16RxSize : Nat, serviceRequest : Counts,
              asleep : BOOLEAN]

\* What may happen in a call of winc_hif_send().
Buses == [wakes : BOOLEAN, polls : Nat, memory : BOOLEAN,
          error : {"NONE", "REQUEST", "POLL", "ADDRESS", "HEADER", "CTRL",
                   "DATA", "TRIGGER", "SLEEP"}]

Parts == Nat \cup {Hif!None}

HifRequests == [gid : STRING, opcode : STRING, ctrl : Parts, data : Parts,
                offset : Nat]

\* A state in which the WINC may sleep only if the next call wakes it.
Wakeable(hif) == hif.asleep => hif.gbChipPwrSave /\ hif.gu8ChipSleep = 0

\* A state with another count and another word on sleep.
Counted(hif, n, b) == [hif EXCEPT !.gu8ChipSleep = n, !.asleep = b]

\* It is a state, and power is saved as before.
LEMMA HifExcept ==
  ASSUME NEW hif \in HifStates, NEW n \in Counts, NEW b \in BOOLEAN
  PROVE  /\ Counted(hif, n, b) \in HifStates
         /\ Counted(hif, n, b).gu8ChipSleep = n
         /\ Counted(hif, n, b).asleep = b
         /\ Counted(hif, n, b).gbChipPwrSave = hif.gbChipPwrSave
<1> DEFINE new == Counted(hif, n, b)
<1>1. new \in HifStates
  BY DEF HifStates, Counted
<1>2. new.gu8ChipSleep = n
  BY DEF HifStates, Counted
<1>3. new.asleep = b
  BY DEF HifStates, Counted
<1>4. new.gbChipPwrSave = hif.gbChipPwrSave
  BY DEF HifStates, Counted
<1> QED BY <1>1, <1>2, <1>3, <1>4

\* The call at the beginning: it fails only if the WINC has to wake and does
\* not.
WakeFails(hif, wakes) ==
  hif.gu8ChipSleep = 0 /\ hif.gbChipPwrSave /\ ~wakes

\* A WINC that the call does not fail to wake is awake after it.
LEMMA Wakes ==
  ASSUME NEW hif \in HifStates, NEW wakes \in BOOLEAN, hif.gu8ChipSleep \in 0..254
  PROVE  LET woken == Hif!winc_hif_chip_wake(hif, wakes)
         IN  /\ woken.status = IF WakeFails(hif, wakes) THEN "M2M_ERR_FAIL"
                               ELSE "M2M_SUCCESS"
             /\ woken.hif \in HifStates
             /\ woken.hif.gu8ChipSleep = hif.gu8ChipSleep + 1
             /\ woken.hif.gbChipPwrSave = hif.gbChipPwrSave
             /\ ~WakeFails(hif, wakes) /\ Wakeable(hif)
                  => woken.hif.asleep = FALSE
<1> DEFINE n == hif.gu8ChipSleep
           a == hif.asleep /\ ~(n = 0 /\ hif.gbChipPwrSave /\ wakes)
           m == n + 1
           awake == Counted(hif, m, a)
           woken == Hif!winc_hif_chip_wake(hif, wakes)
<1>1. n \in 0..254 /\ (n + 1) % 256 = m /\ hif.gbChipPwrSave \in BOOLEAN
  BY DEF HifStates, Counts
<1>5. m \in Counts /\ a \in BOOLEAN
  BY DEF HifStates, Counts
<1>2. woken = [status |-> IF WakeFails(hif, wakes) THEN "M2M_ERR_FAIL"
                          ELSE "M2M_SUCCESS",
               hif |-> awake]
  BY <1>1 DEF Hif!winc_hif_chip_wake, WakeFails, Counted
<1>3. ~WakeFails(hif, wakes) /\ Wakeable(hif) => a = FALSE
  BY <1>1 DEF WakeFails, Wakeable
<1> HIDE DEF n, a, m, woken
<1>4. /\ awake \in HifStates /\ awake.gu8ChipSleep = m
      /\ awake.asleep = a /\ awake.gbChipPwrSave = hif.gbChipPwrSave
  BY <1>5, HifExcept, Zenon
<1> HIDE DEF awake
<1> QED BY <1>2, <1>3, <1>4 DEF n, m, woken

\* The call at the end.
LEMMA Sleeps ==
  ASSUME NEW hif \in HifStates, NEW sleeps \in BOOLEAN, hif.gu8ChipSleep # 0
  PROVE  LET slept == Hif!winc_hif_chip_sleep(hif, sleeps)
             last == hif.gu8ChipSleep = 1 /\ hif.gbChipPwrSave
         IN  /\ slept.status = IF last /\ ~sleeps THEN "M2M_ERR_FAIL"
                               ELSE "M2M_SUCCESS"
             /\ slept.hif \in HifStates
             /\ slept.hif.gu8ChipSleep = hif.gu8ChipSleep - 1
             /\ slept.hif.gbChipPwrSave = hif.gbChipPwrSave
             /\ ~hif.asleep => Wakeable(slept.hif)
<1> DEFINE n == hif.gu8ChipSleep - 1
           last == n = 0 /\ hif.gbChipPwrSave
           z == hif.asleep \/ (last /\ sleeps)
           asleep == Counted(hif, n, z)
           slept == Hif!winc_hif_chip_sleep(hif, sleeps)
<1>1. /\ n \in Counts /\ z \in BOOLEAN /\ hif.gbChipPwrSave \in BOOLEAN
      /\ n = 0 <=> hif.gu8ChipSleep = 1
  BY DEF HifStates, Counts
<1>2. slept = [status |-> IF last /\ ~sleeps THEN "M2M_ERR_FAIL"
                          ELSE "M2M_SUCCESS",
               hif |-> asleep]
  BY DEF Hif!winc_hif_chip_sleep, Counted
<1>3. ~hif.asleep /\ z => hif.gbChipPwrSave /\ n = 0
  OBVIOUS
<1> HIDE DEF n, z, slept
<1>4. /\ asleep \in HifStates /\ asleep.gu8ChipSleep = n
      /\ asleep.asleep = z /\ asleep.gbChipPwrSave = hif.gbChipPwrSave
  BY <1>1, HifExcept, Zenon
<1> HIDE DEF asleep
<1>5. n = hif.gu8ChipSleep - 1
  BY DEF n
<1> QED BY <1>1, <1>2, <1>3, <1>4, <1>5 DEF slept, Wakeable

\* A request is sent only after the length was checked, and after the WINC was
\* woken; whatever happens then, the call at the end is made.
LEMMA SendSteps ==
  ASSUME NEW hif \in HifStates, NEW request \in HifRequests, NEW bus \in Buses
  PROVE  LET sent == Hif!winc_hif_send(hif, request, bus)
             woken == Hif!winc_hif_chip_wake(hif, bus.wakes)
             slept == Hif!winc_hif_chip_sleep(woken.hif, bus.error = "NONE")
             long == Hif!LengthOf(request) > Hif!M2M_HIF_MAX_PACKET_SIZE
         IN  /\ sent.hif = IF long THEN hif
                           ELSE IF woken.status # "M2M_SUCCESS" THEN woken.hif
                           ELSE slept.hif
             /\ sent.told # "NO" => /\ ~long /\ woken.status = "M2M_SUCCESS"
                                    /\ bus.memory /\ ~(bus.polls > 1000)
             /\ sent.status = "M2M_SUCCESS" => sent.told = "YES"
BY DEF Hif!winc_hif_send

\* What WincSockets assumes of winc_hif_send(), for every request and every
\* fault of the bus: a success is a request that the WINC knows of, and one that
\* it may know of was sent to a WINC that is awake and has room for it.
THEOREM SuccessIsTold ==
  ASSUME NEW hif \in HifStates, hif.gu8ChipSleep \in 0..254,
         NEW request \in HifRequests, NEW bus \in Buses
  PROVE  LET sent == Hif!winc_hif_send(hif, request, bus)
         IN  /\ sent.status = "M2M_SUCCESS" => sent.told = "YES"
             /\ sent.told # "NO" /\ Wakeable(hif) =>
                  ~Hif!winc_hif_chip_wake(hif, bus.wakes).hif.asleep
             /\ sent.told # "NO" => bus.memory /\ bus.polls <= 1000
<1>1. bus.wakes \in BOOLEAN /\ bus.polls \in Nat
  BY DEF Buses
<1> DEFINE sent == Hif!winc_hif_send(hif, request, bus)
           woken == Hif!winc_hif_chip_wake(hif, bus.wakes)
<1>2. /\ sent.told # "NO" => /\ woken.status = "M2M_SUCCESS"
                             /\ bus.memory /\ ~(bus.polls > 1000)
      /\ sent.status = "M2M_SUCCESS" => sent.told = "YES"
  BY SendSteps
<1>3. /\ woken.status = IF WakeFails(hif, bus.wakes) THEN "M2M_ERR_FAIL"
                        ELSE "M2M_SUCCESS"
      /\ ~WakeFails(hif, bus.wakes) /\ Wakeable(hif) => woken.hif.asleep = FALSE
  BY <1>1, Wakes
<1> HIDE DEF sent, woken
<1>4. /\ sent.status = "M2M_SUCCESS" => sent.told = "YES"
      /\ sent.told # "NO" /\ Wakeable(hif) => ~woken.hif.asleep
      /\ sent.told # "NO" => bus.memory /\ bus.polls <= 1000
  BY <1>1, <1>2, <1>3
<1> QED BY <1>4 DEF sent, woken

\* winc_hif_send() counts its call in and out on every path but one: a WINC that
\* cannot be woken is counted only in.  From then on no request reaches one that
\* is asleep, and nothing wakes it.
THEOREM FailedWakeStays ==
  ASSUME NEW hif \in HifStates, hif.gu8ChipSleep \in 0..254,
         NEW request \in HifRequests, NEW bus \in Buses
  PROVE  LET sent == Hif!winc_hif_send(hif, request, bus)
             fails == /\ WakeFails(hif, bus.wakes)
                      /\ Hif!LengthOf(request) <= Hif!M2M_HIF_MAX_PACKET_SIZE
         IN  /\ fails =>
                  /\ sent.told = "NO" /\ sent.hif.gu8ChipSleep = 1
                  /\ hif.asleep => \A wakes \in BOOLEAN :
                       Hif!winc_hif_chip_wake(sent.hif, wakes).hif.asleep
             /\ ~fails =>
                  /\ sent.hif.gu8ChipSleep = hif.gu8ChipSleep
                  /\ Wakeable(hif) => Wakeable(sent.hif)
<1> DEFINE sent == Hif!winc_hif_send(hif, request, bus)
           woken == Hif!winc_hif_chip_wake(hif, bus.wakes)
           slept == Hif!winc_hif_chip_sleep(woken.hif, bus.error = "NONE")
           length == Hif!LengthOf(request)
           limit == Hif!M2M_HIF_MAX_PACKET_SIZE
           stuck == WakeFails(hif, bus.wakes)
<1>1. bus.wakes \in BOOLEAN /\ (bus.error = "NONE") \in BOOLEAN
  BY DEF Buses
<1>2. length \in Int /\ limit \in Int
  BY DEF Hif!LengthOf, Hif!U16, Hif!M2M_HIF_MAX_PACKET_SIZE, HifRequests,
         Hif!M2M_HIF_HDR_OFFSET, Hif!SizeOrZero, Hif!None, Parts
<1>3. /\ sent.hif = IF length > limit THEN hif
                    ELSE IF woken.status # "M2M_SUCCESS" THEN woken.hif
                    ELSE slept.hif
      /\ sent.told # "NO" => woken.status = "M2M_SUCCESS"
  BY SendSteps
<1>4. /\ woken.status = IF stuck THEN "M2M_ERR_FAIL" ELSE "M2M_SUCCESS"
      /\ woken.hif \in HifStates
      /\ woken.hif.gu8ChipSleep = hif.gu8ChipSleep + 1
      /\ ~stuck /\ Wakeable(hif) => woken.hif.asleep = FALSE
  BY <1>1, Wakes
<1>5. stuck => hif.gu8ChipSleep = 0 /\ ~bus.wakes
  BY DEF WakeFails
<1>6. stuck /\ hif.asleep => woken.hif.asleep = TRUE
  BY <1>5 DEF Hif!winc_hif_chip_wake, HifStates
<1> HIDE DEF woken
<1>7. /\ slept.hif.gu8ChipSleep = hif.gu8ChipSleep
      /\ ~stuck /\ Wakeable(hif) => Wakeable(slept.hif)
  <2> DEFINE state == woken.hif
             sleeps == bus.error = "NONE"
  <2>1. state \in HifStates /\ state.gu8ChipSleep # 0 /\ sleeps \in BOOLEAN
    BY <1>1, <1>4
  <2> HIDE DEF state, sleeps
  <2>2. LET done == Hif!winc_hif_chip_sleep(state, sleeps).hif
        IN  /\ done.gu8ChipSleep = state.gu8ChipSleep - 1
            /\ ~state.asleep => Wakeable(done)
    BY <2>1, Sleeps, Zenon
  <2>3. /\ slept.hif.gu8ChipSleep = woken.hif.gu8ChipSleep - 1
        /\ ~woken.hif.asleep => Wakeable(slept.hif)
    BY <2>2 DEF state, sleeps
  <2> HIDE DEF slept
  <2>4. hif.gu8ChipSleep + 1 - 1 = hif.gu8ChipSleep
    OBVIOUS
  <2> QED BY <1>4, <2>3, <2>4
<1> HIDE DEF sent, slept, length, limit, stuck
<1>8. ASSUME stuck, length <= limit
      PROVE  /\ sent.told = "NO" /\ sent.hif.gu8ChipSleep = 1
             /\ hif.asleep => \A wakes \in BOOLEAN :
                  Hif!winc_hif_chip_wake(sent.hif, wakes).hif.asleep
  <2>1. sent.told = "NO" /\ sent.hif = woken.hif
    BY <1>2, <1>3, <1>4, <1>8
  <2>2. sent.hif.gu8ChipSleep = 1
    BY <1>4, <1>5, <1>8, <2>1
  <2>3. ASSUME hif.asleep, NEW wakes \in BOOLEAN
        PROVE  Hif!winc_hif_chip_wake(sent.hif, wakes).hif.asleep
    <3>1. sent.hif.asleep /\ sent.hif \in HifStates /\ sent.hif.gu8ChipSleep # 0
      BY <1>4, <1>6, <1>8, <2>1, <2>2, <2>3
    <3> QED BY <3>1 DEF Hif!winc_hif_chip_wake, HifStates
  <2> QED BY <2>1, <2>2, <2>3
<1>9. ASSUME ~(stuck /\ length <= limit)
      PROVE  /\ sent.hif.gu8ChipSleep = hif.gu8ChipSleep
             /\ Wakeable(hif) => Wakeable(sent.hif)
  BY <1>2, <1>3, <1>4, <1>7, <1>9
<1> QED BY <1>8, <1>9 DEF sent, stuck, length, limit

\* Numbers that fit 16 bits.
LEMMA Sixteen == \A n \in Nat : n < 65536 => n % 65536 = n
OBVIOUS

\* One piece more.
LEMMA Longer ==
  ASSUME NEW S, NEW w \in Seq(S), NEW c \in S
  PROVE  LET u == w \o <<c>>
         IN  /\ u \in Seq(S) /\ Len(u) = Len(w) + 1 /\ u[Len(w) + 1] = c
             /\ Len(w) \in Nat /\ \A i \in 1..Len(w) : u[i] = w[i]
<1>1. Append(w, c) = w \o <<c>>
  BY AppendIsConcat
<1>2. LET u == Append(w, c)
      IN  /\ u \in Seq(S) /\ Len(u) = Len(w) + 1 /\ u[Len(w) + 1] = c
          /\ \A i \in 1..Len(w) : u[i] = w[i]
  BY AppendProperties
<1>3. Len(w) \in Nat
  OBVIOUS
<1> QED BY <1>1, <1>2, <1>3, Zenon

\* What is put together piece by piece.
LEMMA Joined ==
  ASSUME NEW a, NEW b, NEW c
  PROVE  /\ <<a>> \o <<>> \o <<>> = <<a>>
         /\ LET w == <<a>> \o <<b>> \o <<>>
            IN  Len(w) = 2 /\ w[1] = a /\ w[2] = b
         /\ LET w == <<a>> \o <<>> \o <<c>>
            IN  Len(w) = 2 /\ w[1] = a /\ w[2] = c
         /\ LET w == <<a>> \o <<b>> \o <<c>>
            IN  Len(w) = 3 /\ w[1] = a /\ w[2] = b /\ w[3] = c
<1> DEFINE S == {a, b, c}
           u == <<a>>
           v == <<b>>
           x == <<c>>
           uv == u \o v
           ux == u \o x
           all == uv \o x
<1>1. u \in Seq(S) /\ Len(u) = 1 /\ u[1] = a
  OBVIOUS
<1>2. a \in S /\ b \in S /\ c \in S
  OBVIOUS
<1> HIDE DEF S, u
<1>3. uv \in Seq(S) /\ Len(uv) = 2 /\ uv[1] = a /\ uv[2] = b
  <2>1. /\ uv \in Seq(S) /\ Len(uv) = Len(u) + 1
        /\ uv[Len(u) + 1] = b /\ \A i \in 1..Len(u) : uv[i] = u[i]
    BY <1>1, <1>2, Longer, Zenon
  <2> HIDE DEF uv
  <2> QED BY <1>1, <1>2, <2>1
<1>4. ux \in Seq(S) /\ Len(ux) = 2 /\ ux[1] = a /\ ux[2] = c
  <2>1. /\ ux \in Seq(S) /\ Len(ux) = Len(u) + 1
        /\ ux[Len(u) + 1] = c /\ \A i \in 1..Len(u) : ux[i] = u[i]
    BY <1>1, <1>2, Longer, Zenon
  <2> HIDE DEF ux
  <2> QED BY <1>1, <1>2, <2>1
<1> HIDE DEF uv, ux
<1>5. Len(all) = 3 /\ all[1] = a /\ all[2] = b /\ all[3] = c
  <2>1. /\ all \in Seq(S) /\ Len(all) = Len(uv) + 1
        /\ all[Len(uv) + 1] = c /\ \A i \in 1..Len(uv) : all[i] = uv[i]
    <3>1. uv \in Seq(S) /\ c \in S
      BY <1>2, <1>3
    <3>2. LET w == uv \o <<c>>
          IN  /\ w \in Seq(S) /\ Len(w) = Len(uv) + 1 /\ w[Len(uv) + 1] = c
              /\ \A i \in 1..Len(uv) : w[i] = uv[i]
      BY <3>1, Longer
    <3> QED BY <3>2
  <2> HIDE DEF all
  <2> QED BY <1>2, <1>3, <2>1
<1>6. u \o <<>> = u /\ uv \o <<>> = uv
  BY <1>1, <1>3, ConcatEmptySeq
<1> HIDE DEF all, v, x
<1>7. /\ u \o <<>> \o <<>> = u
      /\ u \o v \o <<>> = uv /\ u \o <<>> \o x = ux /\ u \o v \o x = all
  BY <1>6, Zenon DEF uv, ux, all
<1> QED BY <1>3, <1>4, <1>5, <1>7 DEF u, v, x

\* The parts of a request that are written, one behind the other.
LEMMA BlocksAre ==
  ASSUME NEW request
  PROVE  LET blocks == Hif!BlocksOf(request)
             header == Hif!Block(0, 8)
             ctrl == Hif!Block(8, request.ctrl)
             data == Hif!Block(8 + request.offset, request.data)
         IN  /\ request.ctrl = Hif!None /\ request.data = Hif!None
                  => Len(blocks) = 1 /\ blocks[1] = header
             /\ request.ctrl # Hif!None /\ request.data = Hif!None
                  => Len(blocks) = 2 /\ blocks[1] = header /\ blocks[2] = ctrl
             /\ request.ctrl = Hif!None /\ request.data # Hif!None
                  => Len(blocks) = 2 /\ blocks[1] = header /\ blocks[2] = data
             /\ request.ctrl # Hif!None /\ request.data # Hif!None
                  => /\ Len(blocks) = 3 /\ blocks[1] = header
                     /\ blocks[2] = ctrl /\ blocks[3] = data
<1> DEFINE header == Hif!Block(0, 8)
           ctrl == Hif!Block(8, request.ctrl)
           data == Hif!Block(8 + request.offset, request.data)
           blocks == Hif!BlocksOf(request)
<1>1. blocks = <<header>>
         \o (IF request.ctrl = Hif!None THEN <<>> ELSE <<ctrl>>)
         \o (IF request.data = Hif!None THEN <<>> ELSE <<data>>)
  BY DEF Hif!BlocksOf, Hif!M2M_HIF_HDR_OFFSET
<1>2. Len(<<header>>) = 1 /\ <<header>>[1] = header
  OBVIOUS
<1> HIDE DEF header, ctrl, data, blocks
<1>3. request.ctrl = Hif!None /\ request.data = Hif!None
        => Len(blocks) = 1 /\ blocks[1] = header
  BY <1>1, <1>2, Joined, Zenon
<1>4. ASSUME request.ctrl # Hif!None /\ request.data = Hif!None
      PROVE  Len(blocks) = 2 /\ blocks[1] = header /\ blocks[2] = ctrl
  <2>1. blocks = <<header>> \o <<ctrl>> \o <<>>
    BY <1>1, <1>4
  <2>2. LET w == <<header>> \o <<ctrl>> \o <<>>
        IN  Len(w) = 2 /\ w[1] = header /\ w[2] = ctrl
    BY Joined
  <2> QED BY <2>1, <2>2
<1>5. ASSUME request.ctrl = Hif!None /\ request.data # Hif!None
      PROVE  Len(blocks) = 2 /\ blocks[1] = header /\ blocks[2] = data
  <2>1. blocks = <<header>> \o <<>> \o <<data>>
    BY <1>1, <1>5
  <2>2. LET w == <<header>> \o <<>> \o <<data>>
        IN  Len(w) = 2 /\ w[1] = header /\ w[2] = data
    BY Joined
  <2> QED BY <2>1, <2>2
<1>6. ASSUME request.ctrl # Hif!None /\ request.data # Hif!None
      PROVE  /\ Len(blocks) = 3 /\ blocks[1] = header
             /\ blocks[2] = ctrl /\ blocks[3] = data
  <2>1. blocks = <<header>> \o <<ctrl>> \o <<data>>
    BY <1>1, <1>6
  <2>2. LET w == <<header>> \o <<ctrl>> \o <<data>>
        IN  Len(w) = 3 /\ w[1] = header /\ w[2] = ctrl /\ w[3] = data
    BY Joined
  <2> QED BY <2>1, <2>2
<1> QED BY <1>3, <1>4, <1>5, <1>6 DEF header, ctrl, data, blocks

\* What is written for a request lies behind each other, and it ends where its
\* header says, if the control part ends before the data and the length does not
\* need more than 16 bits.  A request that is not refused as too long therefore
\* stays within the packet that the WINC has room for.
THEOREM BlocksFit ==
  ASSUME NEW request \in HifRequests,
         request.ctrl # Hif!None /\ request.data # Hif!None
           => request.ctrl <= request.offset,
         Hif!M2M_HIF_HDR_OFFSET + Hif!SizeOrZero(request.ctrl) < 65536,
         Hif!M2M_HIF_HDR_OFFSET + request.offset + Hif!SizeOrZero(request.data)
           < 65536
  PROVE  LET blocks == Hif!BlocksOf(request)
             end(n) == blocks[n].at + blocks[n].size
         IN  /\ Len(blocks) \in 1..3
             /\ \A n \in 1..(Len(blocks) - 1) : end(n) <= blocks[n + 1].at
             /\ end(Len(blocks)) = Hif!LengthOf(request)
<1> DEFINE header == Hif!Block(0, 8)
           ctrl == Hif!Block(8, request.ctrl)
           data == Hif!Block(8 + request.offset, request.data)
           blocks == Hif!BlocksOf(request)
           end(n) == blocks[n].at + blocks[n].size
           length == Hif!LengthOf(request)
<1>1. /\ request.ctrl \in Nat \/ request.ctrl = Hif!None
      /\ request.data \in Nat \/ request.data = Hif!None
      /\ request.offset \in Nat
      /\ Hif!None \notin Nat
  BY DEF HifRequests, Parts, Hif!None
<1>2. /\ header.at = 0 /\ header.size = 8
      /\ ctrl.at = 8 /\ ctrl.size = request.ctrl
      /\ data.at = 8 + request.offset /\ data.size = request.data
  BY DEF Hif!Block
<1>3. /\ request.ctrl = Hif!None /\ request.data = Hif!None
           => Len(blocks) = 1 /\ blocks[1] = header
      /\ request.ctrl # Hif!None /\ request.data = Hif!None
           => Len(blocks) = 2 /\ blocks[1] = header /\ blocks[2] = ctrl
      /\ request.ctrl = Hif!None /\ request.data # Hif!None
           => Len(blocks) = 2 /\ blocks[1] = header /\ blocks[2] = data
      /\ request.ctrl # Hif!None /\ request.data # Hif!None
           => /\ Len(blocks) = 3 /\ blocks[1] = header
              /\ blocks[2] = ctrl /\ blocks[3] = data
  BY BlocksAre
<1>4. length = (8 + IF request.data # Hif!None
                    THEN request.offset + request.data
                    ELSE Hif!SizeOrZero(request.ctrl)) % 65536
  BY DEF Hif!LengthOf, Hif!U16, Hif!M2M_HIF_HDR_OFFSET
<1>5. \A n \in Nat : n < 65536 => n % 65536 = n
  BY Sixteen
<1> HIDE DEF header, ctrl, data, blocks, length
<1>6. CASE request.ctrl = Hif!None /\ request.data = Hif!None
  <2>1. Len(blocks) = 1 /\ blocks[1] = header
    BY <1>3, <1>6
  <2>2. length = 8
    BY <1>4, <1>6 DEF Hif!SizeOrZero
  <2> QED BY <1>2, <2>1, <2>2 DEF blocks, length
<1>7. CASE request.ctrl # Hif!None /\ request.data = Hif!None
  <2>1. Len(blocks) = 2 /\ blocks[1] = header /\ blocks[2] = ctrl
    BY <1>3, <1>7
  <2>2. length = 8 + request.ctrl
    BY <1>1, <1>4, <1>5, <1>7 DEF Hif!SizeOrZero, Hif!M2M_HIF_HDR_OFFSET
  <2> QED BY <1>1, <1>2, <1>7, <2>1, <2>2 DEF blocks, length
<1>8. CASE request.ctrl = Hif!None /\ request.data # Hif!None
  <2>1. Len(blocks) = 2 /\ blocks[1] = header /\ blocks[2] = data
    BY <1>3, <1>8
  <2>2. length = 8 + request.offset + request.data
    BY <1>1, <1>4, <1>5, <1>8 DEF Hif!SizeOrZero, Hif!M2M_HIF_HDR_OFFSET
  <2> QED BY <1>1, <1>2, <1>8, <2>1, <2>2 DEF blocks, length
<1>9. CASE request.ctrl # Hif!None /\ request.data # Hif!None
  <2>1. Len(blocks) = 3 /\ blocks[1] = header
        /\ blocks[2] = ctrl /\ blocks[3] = data
    BY <1>3, <1>9
  <2>2. length = 8 + request.offset + request.data
    BY <1>1, <1>4, <1>5, <1>9 DEF Hif!SizeOrZero, Hif!M2M_HIF_HDR_OFFSET
  <2>3. 8 + request.ctrl <= 8 + request.offset
    BY <1>1, <1>9
  <2> QED BY <1>1, <1>2, <1>9, <2>1, <2>2, <2>3 DEF blocks, length
<1> QED BY <1>6, <1>7, <1>8, <1>9

\* The three ways in which winc_hif_handle_isr() changes the state.
Sized(hif, n) == [hif EXCEPT !.gu16RxSize = n]
Placed(hif, a) == [hif EXCEPT !.gu32RxAddr = a]
Served(hif) == [hif EXCEPT !.serviceRequest = @ - 1]

\* A new size.
LEMMA SizedFields ==
  ASSUME NEW hif \in HifStates, NEW n \in Nat
  PROVE  /\ Sized(hif, n) \in HifStates
         /\ Sized(hif, n).gu16RxSize = n
         /\ Sized(hif, n).gu32RxAddr = hif.gu32RxAddr
         /\ Sized(hif, n).serviceRequest = hif.serviceRequest
<1>1. Sized(hif, n) \in HifStates
  BY DEF Sized, HifStates
<1>2. Sized(hif, n).gu16RxSize = n
  BY DEF Sized, HifStates
<1>3. Sized(hif, n).gu32RxAddr = hif.gu32RxAddr
  BY DEF Sized, HifStates
<1>4. Sized(hif, n).serviceRequest = hif.serviceRequest
  BY DEF Sized, HifStates
<1> QED BY <1>1, <1>2, <1>3, <1>4

\* A new address.
LEMMA PlacedFields ==
  ASSUME NEW hif \in HifStates, NEW a \in Nat
  PROVE  /\ Placed(hif, a) \in HifStates
         /\ Placed(hif, a).gu32RxAddr = a
         /\ Placed(hif, a).gu16RxSize = hif.gu16RxSize
         /\ Placed(hif, a).serviceRequest = hif.serviceRequest
<1>1. Placed(hif, a) \in HifStates
  BY DEF Placed, HifStates
<1>2. Placed(hif, a).gu32RxAddr = a
  BY DEF Placed, HifStates
<1>3. Placed(hif, a).gu16RxSize = hif.gu16RxSize
  BY DEF Placed, HifStates
<1>4. Placed(hif, a).serviceRequest = hif.serviceRequest
  BY DEF Placed, HifStates
<1> QED BY <1>1, <1>2, <1>3, <1>4

\* An interrupt less.
LEMMA ServedFields ==
  ASSUME NEW hif \in HifStates
  PROVE  /\ Served(hif).serviceRequest = hif.serviceRequest - 1
         /\ Served(hif).gu16RxSize = hif.gu16RxSize
         /\ Served(hif).gu32RxAddr = hif.gu32RxAddr
<1>1. Served(hif).serviceRequest = hif.serviceRequest - 1
  BY DEF Served, HifStates
<1>2. Served(hif).gu16RxSize = hif.gu16RxSize
  BY DEF Served, HifStates
<1>3. Served(hif).gu32RxAddr = hif.gu32RxAddr
  BY DEF Served, HifStates
<1> QED BY <1>1, <1>2, <1>3

\* A message of the WINC: what its interrupt register and its header say.
Words == 0..65535

HifMessages == [raised : BOOLEAN, size : Words, length : Words,
                gid : Nat, opcode : STRING, address : Nat]

\* winc_hif_handle_isr(): a message goes to a callback just if its interrupt is
\* taken; and while the callback runs it can read all of its message, and nothing
\* outside of it.
THEOREM InterruptsAndMessages ==
  ASSUME NEW hif \in HifStates, NEW message \in HifMessages, NEW exchanges \in 0..5
  PROVE  LET handled == Hif!winc_hif_handle_isr(hif, message, exchanges)
             taken == handled.called # {}
         IN  /\ handled.hif.serviceRequest =
                  hif.serviceRequest - (IF taken THEN 1 ELSE 0)
             /\ handled.status = "M2M_SUCCESS" =>
                  hif.serviceRequest = 0 \/ (taken /\ handled.done)
             /\ \A address, size \in Nat :
                  Hif!winc_hif_receive(handled.hif, address, size, TRUE)
                      = "M2M_SUCCESS" =>
                    /\ address >= handled.hif.gu32RxAddr
                    /\ address + size
                         <= handled.hif.gu32RxAddr + handled.hif.gu16RxSize
             /\ \A call \in handled.called :
                  message.length \in 8..message.size =>
                    Hif!winc_hif_receive(handled.hif, call.address, call.size, TRUE)
                      = "M2M_SUCCESS"
<1> DEFINE sized == Sized(hif, message.size)
           placed == IF exchanges >= 3
                     THEN Placed(sized, message.address) ELSE sized
           served == Served(placed)
           handled == Hif!winc_hif_handle_isr(hif, message, exchanges)
<1>1. /\ hif.serviceRequest \in Counts /\ hif.gu32RxAddr \in Nat
      /\ hif.gu16RxSize \in Nat
      /\ message.size \in Words /\ message.length \in Words
      /\ message.address \in Nat
  BY DEF HifStates, HifMessages
<1>0. /\ hif.serviceRequest \in 0..255
      /\ message.size \in Nat /\ message.length \in Nat
      /\ message.size < 65536 /\ message.length < 65536
  <2>1. \A n \in Counts : n \in 0..255
    BY DEF Counts
  <2>2. \A n \in Words : n \in Nat /\ n < 65536
    BY DEF Words
  <2> QED BY <1>1, <2>1, <2>2
<1>2. sized \in HifStates /\ sized.serviceRequest = hif.serviceRequest
      /\ sized.gu16RxSize = message.size /\ sized.gu32RxAddr = hif.gu32RxAddr
  BY <1>0, SizedFields
<1> HIDE DEF sized
<1>3. /\ placed \in HifStates /\ placed.serviceRequest = hif.serviceRequest
      /\ placed.gu16RxSize = message.size /\ placed.gu32RxAddr \in Nat
      /\ exchanges >= 3 => placed.gu32RxAddr = message.address
  BY <1>1, <1>2, PlacedFields
<1> HIDE DEF placed
<1>4. /\ served.serviceRequest = hif.serviceRequest - 1
      /\ served.gu16RxSize = message.size
      /\ served.gu32RxAddr = placed.gu32RxAddr
  BY <1>3, ServedFields
<1> HIDE DEF served
<1>5. \/ /\ handled.called = {} /\ handled.hif \in {hif, sized, placed}
         /\ handled.status = "M2M_SUCCESS" => hif.serviceRequest = 0
      \/ /\ hif.serviceRequest # 0 /\ exchanges >= 4
         /\ handled.hif = served
         /\ handled.status = "M2M_SUCCESS" => handled.done
         /\ \E call \in [gid : Nat, opcode : STRING, size : Nat, address : Nat] :
              /\ handled.called = {call}
              /\ call.address = message.address + 8
              /\ call.size = (message.length - 8) % 65536
  <2> DEFINE pending == hif.serviceRequest # 0
             odd == Hif!U16(message.size - message.length) > 4
             known == message.gid \in 1..Hif!WINC_HIF_CB_HIGHEST_GID
             stop(status, state) ==
               [status |-> status, hif |-> state, called |-> {}, done |-> FALSE]
             result == [status |-> IF exchanges < 5 THEN "M2M_ERR_FAIL"
                                   ELSE "M2M_SUCCESS",
                        hif |-> Hif!winc_adapter_interrupt_serviced(placed, TRUE),
                        called |-> {[gid |-> message.gid, opcode |-> message.opcode,
                          size |-> Hif!U16(message.length - Hif!M2M_HIF_HDR_OFFSET),
                          address |-> message.address + Hif!M2M_HIF_HDR_OFFSET]},
                        done |-> exchanges >= 5]
  <2>0. handled =
          IF ~pending THEN stop("M2M_SUCCESS", hif)
          ELSE IF exchanges < 1 \/ ~message.raised \/ exchanges < 2
            THEN stop("M2M_ERR_FAIL", hif)
          ELSE IF message.size = 0 THEN stop("M2M_ERR_RCV", sized)
          ELSE IF exchanges < 4 THEN stop("M2M_ERR_FAIL", placed)
          ELSE IF odd THEN stop("M2M_ERR_BUS_FAIL", placed)
          ELSE IF ~known THEN stop("M2M_ERR_FAIL", placed)
          ELSE result
    BY Zenon DEF Hif!winc_hif_handle_isr, sized, placed, Sized, Placed,
                 Hif!winc_adapter_interrupt_request_pending
  <2> HIDE DEF result, odd, known, handled
  <2>1. CASE ~(/\ pending /\ exchanges >= 4 /\ message.raised
               /\ message.size # 0 /\ ~odd /\ known)
    <3>1. \/ ~pending /\ handled = stop("M2M_SUCCESS", hif)
          \/ \E state \in {hif, sized, placed},
                status \in {"M2M_ERR_FAIL", "M2M_ERR_RCV", "M2M_ERR_BUS_FAIL"} :
               handled = stop(status, state)
      BY <2>0, <2>1
    <3> QED BY <3>1
  <2>2. CASE /\ pending /\ exchanges >= 4 /\ message.raised
             /\ message.size # 0 /\ ~odd /\ known
    <3> DEFINE call == [gid |-> message.gid, opcode |-> message.opcode,
                        size |-> Hif!U16(message.length - Hif!M2M_HIF_HDR_OFFSET),
                        address |-> message.address + Hif!M2M_HIF_HDR_OFFSET]
    <3>1. /\ call \in [gid : Nat, opcode : STRING, size : Nat, address : Nat]
          /\ call.address = message.address + 8
          /\ call.size = (message.length - 8) % 65536
      BY <1>0, <1>1 DEF Hif!U16, Hif!M2M_HIF_HDR_OFFSET, HifMessages
    <3>2. handled = [status |-> IF exchanges < 5 THEN "M2M_ERR_FAIL"
                                ELSE "M2M_SUCCESS",
                     hif |-> Hif!winc_adapter_interrupt_serviced(placed, TRUE),
                     called |-> {call}, done |-> exchanges >= 5]
      BY <2>0, <2>2 DEF result
    <3>3. Hif!winc_adapter_interrupt_serviced(placed, TRUE) = served
      BY <1>3, <2>2 DEF Hif!winc_adapter_interrupt_serviced, served, Served
    <3>4. /\ handled.hif = served /\ handled.called = {call}
          /\ handled.status = IF exchanges < 5 THEN "M2M_ERR_FAIL"
                              ELSE "M2M_SUCCESS"
      BY <3>2, <3>3
    <3>5. handled.done <=> exchanges >= 5
      BY <3>2, Zenon
    <3> HIDE DEF call
    <3>6. handled.status = "M2M_SUCCESS" => handled.done
      BY <3>4, <3>5
    <3> QED BY <2>2, <3>1, <3>4, <3>6
  <2> QED BY <2>1, <2>2
<1> HIDE DEF handled
<1>6. /\ handled.hif.gu32RxAddr \in Nat /\ handled.hif.gu16RxSize \in Nat
      /\ handled.hif.serviceRequest =
           hif.serviceRequest - (IF handled.called # {} THEN 1 ELSE 0)
  BY <1>0, <1>1, <1>2, <1>3, <1>4, <1>5
<1>7. handled.status = "M2M_SUCCESS" =>
        hif.serviceRequest = 0 \/ (handled.called # {} /\ handled.done)
  BY <1>5
<1>8. \A address, size \in Nat :
        Hif!winc_hif_receive(handled.hif, address, size, TRUE) = "M2M_SUCCESS" =>
          /\ address >= handled.hif.gu32RxAddr
          /\ address + size <= handled.hif.gu32RxAddr + handled.hif.gu16RxSize
  BY <1>6 DEF Hif!winc_hif_receive
<1>9. ASSUME NEW call \in handled.called, message.length \in 8..message.size
      PROVE  Hif!winc_hif_receive(handled.hif, call.address, call.size, TRUE) = "M2M_SUCCESS"
  <2>1. /\ handled.hif.gu32RxAddr = message.address
        /\ handled.hif.gu16RxSize = message.size
        /\ call.address = message.address + 8
        /\ call.size = (message.length - 8) % 65536
    BY <1>3, <1>4, <1>5, <1>9
  <2>2. call.size = message.length - 8
    <3>1. message.length - 8 \in Nat /\ message.length - 8 < 65536
      BY <1>0, <1>1, <1>9
    <3> QED BY <2>1, <3>1, Sixteen
  <2> QED BY <1>0, <1>0, <1>1, <1>9, <2>1, <2>2 DEF Hif!winc_hif_receive
<1> QED BY <1>6, <1>7, <1>8, <1>9 DEF handled
=============================================================================
