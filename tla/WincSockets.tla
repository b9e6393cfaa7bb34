---------------------------- MODULE WincSockets -----------------------------
(***************************************************************************)
(* winc/socket/socket.c: the socket layer of the WINC, its table of sockets *)
(* and the replies that the WINC sends, at any later time, to the requests. *)
(*                                                                         *)
(* The application calls it from its main loop and, while data or the answer*)
(* to a ping is handed to it, from its callback; `inside' says which of the *)
(* two is running.  Any other callback is the last thing its handler does.  *)
(* Left out: addresses and names, the flags of TLS, and where in the memory *)
(* of the WINC the data are.                                               *)
(***************************************************************************)
EXTENDS Integers, Bags, FiniteSets

CONSTANTS
  TCP_SOCK_MAX, UDP_SOCK_MAX,
  SessionIds,   \* the number of values of gu16SessionID, 2^16
  Sizes,        \* of the buffers that the application gives
  Statuses,     \* what the WINC reports of a receive: bytes, 0 or an error
  Commands,     \* the requests that the application makes of a socket
  Receivers,    \* the sockets it receives on
  MaxRequests,  \* bound on the requests without an answer
  MaxPings      \* bound on gu32PingId

Tcp == 0..(TCP_SOCK_MAX - 1)
Udp == TCP_SOCK_MAX..(TCP_SOCK_MAX + UDP_SOCK_MAX - 1)
Socks == Tcp \cup Udp

ASSUME SocketsAssumption ==
  /\ TCP_SOCK_MAX \in Nat \ {0} /\ UDP_SOCK_MAX \in Nat \ {0}
  /\ SessionIds \in Nat /\ SessionIds > 2
  /\ Commands \subseteq {"BIND", "LISTEN", "CONNECT", "SEND", "SENDTO"}
  /\ Sizes \subseteq Nat \ {0} /\ Statuses \subseteq Int
  /\ Receivers \subseteq Socks

VARIABLES
  gastrSockets,
  gu16SessionID,
  next,            \* u8NextTcpSock and u8NextUdpSock
  gbSocketInit,
  gpfAppSocketCb,  \* whether the application has registered its callback
  gu32PingId, gfpPingCb,
  inside,          \* the callback that runs
  requests,        \* external: a bag of what the WINC has still to answer
  lost,            \* history: the sockets whose last receive the bus has lost
  event            \* history: the last step told the application of data, or
                   \* of a send, of a socket that is open or one that is not

sockets == <<gastrSockets, gu16SessionID, next>>
setup == <<gbSocketInit, gpfAppSocketCb>>
ping == <<gu32PingId, gfpPingCb>>
vars == <<sockets, setup, ping, inside, requests, lost, event>>

\* A socket after memset(); no buffer is a buffer of size 0.
Cleared == [used |-> FALSE, session |-> 0, size |-> 0, pending |-> FALSE]
Used(s) == gastrSockets[s].used

NotInside == [kind |-> "NONE"]
InData(s, left, read) == [kind |-> "DATA", sock |-> s, left |-> left, read |-> read]
InPing == [kind |-> "PING"]

Event(s) == IF ~gpfAppSocketCb THEN "NONE" ELSE IF Used(s) THEN "OPEN" ELSE "CLOSED"

Init == /\ gastrSockets = [s \in Socks |-> Cleared]
        /\ gu16SessionID = 0
        /\ next = [TCP |-> 0, UDP |-> 0]
        /\ gbSocketInit = FALSE /\ gpfAppSocketCb = FALSE
        /\ gu32PingId = 0 /\ gfpPingCb = FALSE
        /\ inside = NotInside
        /\ requests = EmptyBag
        /\ lost = {}
        /\ event = "NONE"
-----------------------------------------------------------------------------
(* Calls.  socketInit() comes first, as socket.h demands, and then the      *)
(* registration of the callback.                                           *)

\* winc_hif_send(): the request goes to the WINC or not, and an error of the
\* bus after its last word makes one that went look as if it had not.
Outcomes == {"SENT", "LOST", "SENT_WITH_ERROR"}

Post(request, outcome) ==
  /\ BagCardinality(requests) < MaxRequests
  /\ requests' = IF outcome = "LOST" THEN requests
                 ELSE requests (+) SetToBag({request})

socketInit ==
  /\ ~gbSocketInit
  /\ gastrSockets' = [s \in Socks |-> Cleared]
  /\ gbSocketInit' = TRUE
  /\ gu16SessionID' = 0
  /\ event' = "NONE"
  /\ UNCHANGED <<next, gpfAppSocketCb, ping, inside, requests, lost>>

socketDeinit ==
  /\ gbSocketInit
  /\ gastrSockets' = [s \in Socks |-> Cleared]
  /\ gpfAppSocketCb' = FALSE /\ gfpPingCb' = FALSE
  /\ gbSocketInit' = FALSE
  /\ lost' = {} /\ event' = "NONE"
  /\ UNCHANGED <<gu16SessionID, next, gu32PingId, inside, requests>>

registerSocketCallback ==
  /\ gbSocketInit
  /\ gpfAppSocketCb' = TRUE
  /\ event' = "NONE"
  /\ UNCHANGED <<sockets, gbSocketInit, ping, inside, requests, lost>>

\* Mutant: zero is not skipped.
NextSessionWithZero == (gu16SessionID + 1) % SessionIds

\* Zero is skipped: it is the session of a closed socket.
NextSession == IF gu16SessionID + 1 = SessionIds THEN 1 ELSE gu16SessionID + 1

\* A socket that socket() has just opened.
Opened == [used |-> TRUE, session |-> NextSession, size |-> 0, pending |-> FALSE]

\* Mutant: the socket that is looked at first is taken, free or not.
socketUnlooked(type) ==
  LET first == IF type = "TCP" THEN 0 ELSE TCP_SOCK_MAX
      count == IF type = "TCP" THEN TCP_SOCK_MAX ELSE UDP_SOCK_MAX
      s == first + next[type]
  IN  /\ gpfAppSocketCb
      /\ next' = [next EXCEPT ![type] = (@ + 1) % count]
      /\ gu16SessionID' = NextSession
      /\ gastrSockets' = [gastrSockets EXCEPT ![s] = Opened]
      /\ lost' = lost \ {s} /\ event' = "NONE"
      /\ UNCHANGED <<ping, setup, inside, requests>>

\* The sockets of a type are looked at in turn, from the one after the last.
\* When none is free the caller gets -1, and yet the one that was looked at
\* last is opened anew, whoever has it.
socket(type) ==
  LET first == IF type = "TCP" THEN 0 ELSE TCP_SOCK_MAX
      count == IF type = "TCP" THEN TCP_SOCK_MAX ELSE UDP_SOCK_MAX
      At(i) == first + ((next[type] + i) % count)
      free == {i \in 0..(count - 1) : ~Used(At(i))}
      i == IF free = {} THEN count - 1
           ELSE CHOOSE j \in free : \A k \in free : j <= k
  IN  /\ gpfAppSocketCb
      /\ next' = [next EXCEPT ![type] = (@ + i + 1) % count]
      /\ gu16SessionID' = NextSession
      /\ gastrSockets' = [gastrSockets EXCEPT ![At(i)] = Opened]
      /\ lost' = lost \ {At(i)} /\ event' = "NONE"
      /\ UNCHANGED <<ping, setup, inside, requests>>

\* bind(), listen(), connect(), send() and sendto().  The replies to the first
\* three do not say which session they are for.
Request(cmd, s) ==
  [cmd |-> cmd, sock |-> s,
   session |-> IF cmd \in {"BIND", "LISTEN", "CONNECT"} THEN 0
               ELSE gastrSockets[s].session]
Ask(cmd, s, outcome) ==
  /\ Used(s)
  /\ Post(Request(cmd, s), outcome)
  /\ event' = "NONE"
  /\ UNCHANGED <<sockets, ping, setup, inside, lost>>

\* recv() and recvfrom(): a new buffer is taken even if a receive is pending,
\* and the receive is pending even if the request was not sent.
recv(s, size, outcome) ==
  /\ Used(s) /\ s \in Receivers
  /\ gastrSockets' = [gastrSockets EXCEPT ![s].size = size, ![s].pending = TRUE]
  /\ IF gastrSockets[s].pending
       THEN outcome = "SENT" /\ UNCHANGED <<requests, lost>>
       ELSE /\ Post(Request("RECV", s), outcome)
            /\ lost' = IF outcome = "LOST" THEN lost \cup {s} ELSE lost
  /\ event' = "NONE"
  /\ UNCHANGED <<gu16SessionID, next, ping, setup, inside>>

\* A socket stays open if the WINC could not be told.
close(s, outcome) ==
  /\ Used(s)
  /\ outcome = "SENT"
  /\ gastrSockets' = [gastrSockets EXCEPT ![s] = Cleared]
  /\ lost' = lost \ {s}
  /\ event' = "NONE"
  /\ UNCHANGED <<gu16SessionID, next, ping, setup, inside, requests>>

m2m_ping_req(outcome) ==
  /\ gbSocketInit /\ gu32PingId < MaxPings
  /\ gu32PingId' = gu32PingId + 1
  /\ gfpPingCb' = TRUE
  /\ Post([cmd |-> "PING", id |-> gu32PingId + 1], outcome)
  /\ event' = "NONE"
  /\ UNCHANGED <<sockets, setup, inside, lost>>
-----------------------------------------------------------------------------
(* m2m_ip_cb(): replies, each read over the bus.  None is handled while a   *)
(* callback runs.                                                          *)

Reply(r) == /\ inside = NotInside
            /\ BagIn(r, requests)
            /\ requests' = requests (-) SetToBag({r})

\* The bus fails, or the WINC drops what a closed socket was waiting for.
ReplyLost(r) ==
  /\ Reply(r)
  /\ lost' = IF r.cmd = "RECV" /\ gastrSockets[r.sock].pending
             THEN lost \cup {r.sock} ELSE lost
  /\ event' = "NONE"
  /\ UNCHANGED <<sockets, ping, setup, inside>>

\* To bind(), listen() and connect(), whatever has become of the socket.
StateReply(r) ==
  /\ r.cmd \in {"BIND", "LISTEN", "CONNECT"}
  /\ Reply(r)
  /\ event' = "NONE"
  /\ UNCHANGED <<sockets, ping, setup, inside, lost>>

\* The WINC names the socket for a new peer; the buffer and the receive of an
\* earlier session of it would stay.
AcceptReply(listener, s) ==
  /\ inside = NotInside /\ gpfAppSocketCb
  /\ listener # s
  /\ gu16SessionID' = NextSession
  /\ gastrSockets' = [gastrSockets EXCEPT ![s].used = TRUE, ![s].session = NextSession]
  /\ event' = "NONE"
  /\ UNCHANGED <<next, ping, setup, inside, requests, lost>>

SendReply(r) ==
  /\ r.cmd \in {"SEND", "SENDTO"}
  /\ Reply(r)
  /\ event' = IF r.session = gastrSockets[r.sock].session THEN Event(r.sock) ELSE "NONE"
  /\ UNCHANGED <<sockets, ping, setup, inside, lost>>

\* A chunk of what is left is handed to the application, or cannot be read.
Chunk(s, left, readable) ==
  LET size == gastrSockets[s].size
      read == IF left > size THEN size ELSE left
  IN  /\ event' = IF readable THEN Event(s) ELSE "NONE"
      /\ inside' = IF readable THEN InData(s, left, read) ELSE NotInside

\* Mutant: after an error the receive stays pending.
RecvReplyErrorPends(r, status, readable) ==
  LET s == r.sock
      current == r.session = gastrSockets[s].session
      deliver == gastrSockets[s].size > 0 /\ Used(s)
  IN  /\ r.cmd = "RECV"
      /\ Reply(r)
      /\ gastrSockets' = [gastrSockets EXCEPT ![s].pending = @ /\ status <= 0]
      /\ lost' = lost \ {s}
      /\ \/ /\ current /\ status > 0 /\ deliver
            /\ Chunk(s, status, readable)
         \/ /\ current /\ status <= 0
            /\ event' = Event(s) /\ UNCHANGED inside
         \/ /\ ~current \/ (status > 0 /\ ~deliver)
            /\ event' = "NONE" /\ UNCHANGED inside
      /\ UNCHANGED <<gu16SessionID, next, ping, setup>>

\* To recv() and recvfrom(): no receive is pending any more, even if the reply
\* is to an earlier session of the socket and goes no further.
RecvReply(r, status, readable) ==
  LET s == r.sock
      current == r.session = gastrSockets[s].session
      deliver == gastrSockets[s].size > 0 /\ Used(s)
  IN  /\ r.cmd = "RECV"
      /\ Reply(r)
      /\ gastrSockets' = [gastrSockets EXCEPT ![s].pending = FALSE]
      /\ lost' = lost \ {s}
      /\ \/ /\ current /\ status > 0 /\ deliver
            /\ Chunk(s, status, readable)
         \/ /\ current /\ status <= 0
            /\ event' = Event(s) /\ UNCHANGED inside
         \/ /\ ~current \/ (status > 0 /\ ~deliver)
            /\ event' = "NONE" /\ UNCHANGED inside
      /\ UNCHANGED <<gu16SessionID, next, ping, setup>>

\* The callback returns to Socket_ReadSocketData(), which goes on with what is
\* left unless the socket is closed.
DataCallbackReturns(readable) ==
  LET left == inside.left - inside.read
  IN  /\ inside.kind = "DATA"
      /\ IF left = 0 \/ ~Used(inside.sock)
           THEN event' = "NONE" /\ inside' = NotInside
           ELSE Chunk(inside.sock, left, readable)
      /\ UNCHANGED <<sockets, ping, setup, requests, lost>>

PingReply(r) ==
  /\ r.cmd = "PING"
  /\ Reply(r)
  /\ IF r.id = gu32PingId /\ gfpPingCb
       THEN inside' = InPing /\ UNCHANGED gfpPingCb
       ELSE gfpPingCb' = FALSE /\ UNCHANGED inside
  /\ event' = "NONE"
  /\ UNCHANGED <<sockets, setup, gu32PingId, lost>>

\* A callback that has been registered meanwhile is forgotten too.
PingCallbackReturns ==
  /\ inside = InPing
  /\ inside' = NotInside
  /\ gfpPingCb' = FALSE
  /\ event' = "NONE"
  /\ UNCHANGED <<sockets, gu32PingId, setup, requests, lost>>
-----------------------------------------------------------------------------
Calls ==
  \/ socketInit \/ socketDeinit \/ registerSocketCallback
  \/ \E type \in {"TCP", "UDP"} : socket(type)
  \/ \E outcome \in Outcomes :
       \/ \E s \in Socks : \/ \E cmd \in Commands : Ask(cmd, s, outcome)
                           \/ \E size \in Sizes : recv(s, size, outcome)
                           \/ close(s, outcome)
       \/ m2m_ping_req(outcome)

Replies ==
  \/ \E r \in BagToSet(requests) :
       \/ ReplyLost(r) \/ StateReply(r) \/ SendReply(r) \/ PingReply(r)
       \/ \E status \in Statuses, readable \in BOOLEAN : RecvReply(r, status, readable)
  \/ \E listener, s \in Tcp : AcceptReply(listener, s)
  \/ \E readable \in BOOLEAN : DataCallbackReturns(readable)
  \/ PingCallbackReturns

Next == Calls \/ Replies

Spec == Init /\ [][Next]_vars
-----------------------------------------------------------------------------
\* The application hears neither of data nor of the result of a send on a socket
\* that is not open, although it may call close() before the reply comes or from
\* within the callback.  This says nothing of a reply that finds its socket open
\* again: it is dropped unless the session ID has wrapped around to its own.
NoEventAfterClose == event # "CLOSED"

\* A receive is pending only while its answer is still to come or the bus has
\* lost it: if recv() says that it need not ask, somebody has asked.
PendingHasRequest ==
  \A s \in Socks : gastrSockets[s].pending =>
    \/ \E r \in BagToSet(requests) : r.cmd = "RECV" /\ r.sock = s
    \/ s \in lost

Kind(s) == IF s \in Tcp THEN Tcp ELSE Udp

\* Nobody takes an open socket away from its user: its session changes only by
\* close() and socketDeinit(), by the WINC naming it for a new peer, or, the
\* one flaw of socket(), when no socket of its type is free.
SessionKept ==
  [][\A s \in Socks :
       Used(s) /\ gastrSockets'[s].session # gastrSockets[s].session =>
         \/ ~gastrSockets'[s].used
         \/ \A t \in Kind(s) : Used(t)
         \/ \E l \in Tcp : AcceptReply(l, s)]_vars
=============================================================================
