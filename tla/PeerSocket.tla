----------------------------- MODULE PeerSocket -----------------------------
(***************************************************************************)
(* PeerClientSocket with its base TCPClientSocket: packets with a length   *)
(* before them over a TCP connection, a connect with a timeout, a queue of *)
(* packets to send, and a socket that may be closed and created again.     *)
(*                                                                         *)
(* All handlers run on the thread of the io_service.  The listener's calls *)
(* come last in each, so that what the owner does inside one is a step of  *)
(* its own that follows.  An operation of boost completes at any time with *)
(* a result; its handler runs at any time after that, in any order.        *)
(*                                                                         *)
(* A packet and its length are a unit each on the wire, in both            *)
(* directions.  Packets sent are known by their number.                    *)
(***************************************************************************)
EXTENDS Integers, Sequences

CONSTANTS
  Packet,      \* the packets a peer may send
  TooBig,      \* those longer than max_peer_recv_length
  Streams,     \* what a peer may send over a connection
  MaxSends,    \* bound: packets sent
  MaxSockets,  \* bound: calls of Create
  MaxExpired   \* bound: expirations of the connect timer that wait for their handler

ASSUME SocketAssumption ==
  /\ TooBig \subseteq Packet /\ Streams \subseteq Seq(Packet)
  /\ MaxSends \in Nat /\ MaxSockets \in Nat /\ MaxExpired \in Nat

VARIABLES
  alive,      \* not destroyed: ~m_closed of the TCPSocketImpl
  open,       \* the socket in it is open
  sockets,    \* how many were created
  link,       \* its connection: "none", "up" or "broken"
  timer,      \* m_ConnectTimer
  connect,    \* the async_connect not handled yet, or "none"
  posted,     \* the packets posted to HandleAsyncSend
  sendQueue,  \* m_SendQueue
  writes,     \* the async_writes not handled yet
  wire,       \* the units this connection has transmitted
  sends,      \* how many packets were sent
  receiving,  \* m_receiving
  reads,      \* the async_reads not handled yet
  stream,     \* what the peer sends over this connection
  taken,      \* how many units of it were read
  delivered,  \* history: the units passed to OnSocketReceive since Create
  failed,     \* history: OnSocketReceiveFailed was called since Create
  dialling,   \* history: Connect was called, and no result has been since
  first       \* history: sends at Create

socketVars == <<alive, open, sockets, link, first>>
connectVars == <<timer, connect, dialling>>
sendVars == <<posted, sendQueue, writes, wire, sends>>
receiveVars == <<receiving, reads, stream, taken, delivered>>
vars == <<socketVars, connectVars, sendVars, receiveVars, failed>>

Result == {"pending", "ok", "failed", "aborted"}
Writing == [packet : 1 .. MaxSends, units : 0 .. 2, res : Result]
NoUnit == <<>>
Unit == Packet \X {1, 2}
Reading == [what : {"length", "data"}, unit : Unit \cup {NoUnit}, res : Result]

Init ==
  /\ alive = TRUE /\ open = FALSE /\ sockets = 0 /\ link = "none"
  /\ timer = [armed |-> FALSE, waiting |-> FALSE, expired |-> 0] /\ connect = "none"
  /\ posted = <<>> /\ sendQueue = <<>> /\ writes = {} /\ wire = <<>> /\ sends = 0
  /\ receiving = FALSE /\ reads = {} /\ stream = <<>> /\ taken = 0 /\ delivered = <<>>
  /\ failed = FALSE /\ dialling = FALSE /\ first = 0

-----------------------------------------------------------------------------
(***************************************************************************)
(* Close, Create, destruction                                              *)
(***************************************************************************)

AbortedRes(r) == IF r = "pending" THEN "aborted" ELSE r
Aborted(ops) == {[o EXCEPT !.res = AbortedRes(@)] : o \in ops}

\* PeerClientSocket::Close but for is_open, while the operations rs are the reads not handled.
\* Operations that have completed keep their results.
Abandon(rs) ==
  /\ link' = "none" /\ sendQueue' = <<>> /\ receiving' = FALSE
  /\ connect' = AbortedRes(connect) /\ writes' = Aborted(writes) /\ reads' = Aborted(rs)

Close ==
  /\ alive
  /\ open' = FALSE /\ Abandon(reads)
  /\ UNCHANGED <<alive, sockets, first, timer, dialling, posted, wire, sends,
                 stream, taken, delivered, failed>>

Drained == posted = <<>> /\ connect = "none" /\ writes = {} /\ reads = {}

\* Not over sends and operations of the socket before, whose handlers would take the new
\* one for theirs.  A Create that fails is a Close.
Create ==
  /\ alive /\ sockets < MaxSockets /\ Drained
  /\ open' = TRUE /\ Abandon(reads)
  /\ sockets' = sockets + 1 /\ first' = sends
  /\ wire' = <<>> /\ stream' \in Streams /\ taken' = 0 /\ delivered' = <<>> /\ failed' = FALSE
  /\ UNCHANGED <<alive, timer, dialling, posted, sends>>

\* Not while a send is posted, which holds a bare pointer to the socket.
Destroy ==
  /\ alive /\ posted = <<>>
  /\ alive' = FALSE /\ open' = FALSE /\ Abandon(reads)
  /\ timer' = [timer EXCEPT !.armed = FALSE, !.waiting = FALSE] /\ dialling' = FALSE
  /\ UNCHANGED <<sockets, first, posted, wire, sends, stream, taken, delivered, failed>>

\* A connection breaks.
Break ==
  /\ link = "up" /\ link' = "broken"
  /\ UNCHANGED <<alive, open, sockets, first, connectVars, sendVars, receiveVars, failed>>

-----------------------------------------------------------------------------
(***************************************************************************)
(* Connecting                                                              *)
(***************************************************************************)

Dial ==
  /\ alive /\ open /\ link = "none" /\ connect = "none" /\ timer.expired < MaxExpired
  /\ connect' = "pending"
  /\ dialling' = TRUE
  /\ UNCHANGED <<socketVars, sendVars, receiveVars, failed>>

\* Mutant: the system's own timeout is left to end the attempt.
ConnectUntimed == Dial /\ UNCHANGED timer

Connect == Dial /\ timer' = [timer EXCEPT !.armed = TRUE, !.waiting = TRUE]

ConnectEnds ==
  /\ connect = "pending"
  /\ \/ connect' = "ok" /\ link' = "up"
     \/ connect' = "failed" /\ UNCHANGED link
  /\ UNCHANGED <<alive, open, sockets, first, timer, dialling, sendVars, receiveVars, failed>>

\* OnConnect: stops the timer and tells the listener.
OnConnect ==
  /\ timer' = [timer EXCEPT !.armed = FALSE, !.waiting = @ /\ ~timer.armed]
  /\ dialling' = FALSE

HandleConnect ==
  /\ connect \notin {"none", "pending"}
  /\ connect' = "none"
  /\ IF alive THEN OnConnect ELSE UNCHANGED <<timer, dialling>>
  /\ UNCHANGED <<socketVars, sendVars, receiveVars, failed>>

Expire ==
  /\ timer.waiting
  /\ timer' = [timer EXCEPT !.waiting = FALSE, !.expired = @ + 1]
  /\ UNCHANGED <<socketVars, connect, dialling, sendVars, receiveVars, failed>>

\* The attempt itself goes on.
OnConnectTimeout ==
  /\ timer.expired > 0
  /\ timer' = [timer EXCEPT !.expired = @ - 1, !.armed = FALSE]
  /\ dialling' = (dialling /\ ~timer.armed)
  /\ UNCHANGED <<socketVars, connect, sendVars, receiveVars, failed>>

-----------------------------------------------------------------------------
(***************************************************************************)
(* Sending                                                                 *)
(***************************************************************************)

\* DoSend and AsyncSend
Send ==
  /\ alive /\ sends < MaxSends
  /\ sends' = sends + 1 /\ posted' = Append(posted, sends + 1)
  /\ UNCHANGED <<socketVars, connectVars, sendQueue, writes, wire, receiveVars, failed>>

\* Reads and writes without a connection fail.
Started == IF link = "up" THEN "pending" ELSE "failed"

\* DoAsyncSend
Write(p) == [packet |-> p, units |-> 0, res |-> Started]

\* Mutant: a packet is written without waiting for the one before.
WriteAtOnce ==
  /\ alive /\ posted # <<>>
  /\ posted' = Tail(posted) /\ sendQueue' = Append(sendQueue, Head(posted))
  /\ writes' = writes \cup {Write(Head(posted))}
  /\ UNCHANGED <<socketVars, connectVars, wire, sends, receiveVars, failed>>

HandleAsyncSend ==
  /\ alive /\ posted # <<>>
  /\ posted' = Tail(posted) /\ sendQueue' = Append(sendQueue, Head(posted))
  /\ writes' = IF sendQueue = <<>> THEN writes \cup {Write(Head(posted))} ELSE writes
  /\ UNCHANGED <<socketVars, connectVars, wire, sends, receiveVars, failed>>

Transmit ==
  \E w \in writes :
    /\ w.res = "pending" /\ link = "up"
    /\ wire' = Append(wire, <<w.packet, w.units + 1>>)
    /\ writes' = (writes \ {w})
         \cup {[w EXCEPT !.units = @ + 1, !.res = IF w.units = 1 THEN "ok" ELSE "pending"]}
    /\ UNCHANGED <<socketVars, connectVars, posted, sendQueue, sends, receiveVars, failed>>

WriteFails ==
  \E w \in writes :
    /\ w.res = "pending" /\ link = "broken"
    /\ writes' = (writes \ {w}) \cup {[w EXCEPT !.res = "failed"]}
    /\ UNCHANGED <<socketVars, connectVars, posted, sendQueue, wire, sends, receiveVars, failed>>

\* Mutant: the next packet waits for a Send.
HandleTcpSendOnce ==
  \E w \in writes :
    /\ w.res # "pending"
    /\ writes' = writes \ {w}
    /\ IF alive /\ sendQueue # <<>>
       THEN sendQueue' = Tail(sendQueue) /\ failed' = (failed \/ w.res # "ok")
       ELSE UNCHANGED <<sendQueue, failed>>
    /\ UNCHANGED <<socketVars, connectVars, posted, wire, sends, receiveVars>>

\* After a failure the rest of the queue stays where it is.
HandleTcpSend ==
  \E w \in writes :
    /\ w.res # "pending"
    /\ IF alive /\ sendQueue # <<>>
       THEN /\ sendQueue' = Tail(sendQueue) /\ failed' = (failed \/ w.res # "ok")
            /\ writes' = (writes \ {w}) \cup
                 IF w.res = "ok" /\ Len(sendQueue) > 1 THEN {Write(sendQueue[2])} ELSE {}
       ELSE writes' = writes \ {w} /\ UNCHANGED <<sendQueue, failed>>
    /\ UNCHANGED <<socketVars, connectVars, posted, wire, sends, receiveVars>>

-----------------------------------------------------------------------------
(***************************************************************************)
(* Receiving                                                               *)
(***************************************************************************)

Read(w) == [what |-> w, unit |-> NoUnit, res |-> Started]

\* Mutant: a second Receive is let through.
ReceiveAgain ==
  /\ alive /\ open
  /\ receiving' = TRUE /\ reads' = reads \cup {Read("length")}
  /\ UNCHANGED <<socketVars, connectVars, sendVars, stream, taken, delivered, failed>>

Receive ==
  /\ alive /\ open /\ ~receiving
  /\ receiving' = TRUE /\ reads' = reads \cup {Read("length")}
  /\ UNCHANGED <<socketVars, connectVars, sendVars, stream, taken, delivered, failed>>

\* The lengths are the odd units of what the peer sends, the packets the even ones.
UnitAt(n) == <<stream[(n + 1) \div 2], 2 - (n % 2)>>

ReadEnds ==
  \E r \in reads :
    /\ r.res = "pending" /\ link = "up" /\ taken < 2 * Len(stream)
    /\ taken' = taken + 1
    /\ reads' = (reads \ {r}) \cup {[r EXCEPT !.unit = UnitAt(taken + 1), !.res = "ok"]}
    /\ UNCHANGED <<socketVars, connectVars, sendVars, receiving, stream, delivered, failed>>

ReadFails ==
  \E r \in reads :
    /\ r.res = "pending"
    /\ reads' = (reads \ {r}) \cup {[r EXCEPT !.res = "failed"]}
    /\ UNCHANGED <<socketVars, connectVars, sendVars, receiving, stream, taken, delivered, failed>>

Unheeded == ~alive \/ ~receiving \/ ~open

\* The socket is closed and the listener is told why.
ReceiveFailed(rs) ==
  /\ open' = FALSE /\ Abandon(rs) /\ failed' = TRUE
  /\ UNCHANGED <<alive, sockets, first, timer, dialling, posted, wire, sends,
                 stream, taken, delivered>>

HandleTcpRecvLengthBuffer ==
  \E r \in reads :
    /\ r.what = "length" /\ r.res # "pending"
    /\ \/ Unheeded /\ reads' = reads \ {r} /\ UNCHANGED <<socketVars, connectVars, sendVars,
                                                receiving, stream, taken, delivered, failed>>
       \/ /\ ~Unheeded /\ r.res = "ok" /\ r.unit[1] \notin TooBig
          /\ reads' = (reads \ {r}) \cup {Read("data")}
          /\ UNCHANGED <<socketVars, connectVars, sendVars, receiving, stream, taken,
                         delivered, failed>>
       \/ ~Unheeded /\ (r.res = "ok" => r.unit[1] \in TooBig) /\ ReceiveFailed(reads \ {r})

HandleTcpRecvDataBuffer ==
  \E r \in reads :
    /\ r.what = "data" /\ r.res # "pending"
    /\ \/ Unheeded /\ reads' = reads \ {r} /\ UNCHANGED <<socketVars, connectVars, sendVars,
                                                receiving, stream, taken, delivered, failed>>
       \/ /\ ~Unheeded /\ r.res = "ok"
          /\ receiving' = FALSE /\ reads' = reads \ {r} /\ delivered' = Append(delivered, r.unit)
          /\ UNCHANGED <<socketVars, connectVars, sendVars, stream, taken, failed>>
       \/ ~Unheeded /\ r.res # "ok" /\ ReceiveFailed(reads \ {r})

-----------------------------------------------------------------------------

Owner == Create \/ Connect \/ Send \/ Receive \/ Close \/ Destroy
Network == Break \/ ConnectEnds \/ Transmit \/ WriteFails \/ ReadEnds \/ ReadFails
Handler ==
  \/ HandleConnect \/ OnConnectTimeout \/ HandleAsyncSend \/ HandleTcpSend
  \/ HandleTcpRecvLengthBuffer \/ HandleTcpRecvDataBuffer

Next == Owner \/ Network \/ Expire \/ Handler

Spec == Init /\ [][Next]_vars
FairSpec == Spec /\ WF_vars(HandleConnect) /\ WF_vars(OnConnectTimeout) /\ WF_vars(Expire)

-----------------------------------------------------------------------------
(***************************************************************************)
(* Properties                                                              *)
(***************************************************************************)

\* Types, and how much can be under way: one write and one read on an open socket.
TypeOK ==
  /\ alive \in BOOLEAN /\ open \in BOOLEAN /\ sockets \in 0 .. MaxSockets
  /\ link \in {"none", "up", "broken"}
  /\ timer \in [armed : BOOLEAN, waiting : BOOLEAN, expired : Nat]
  /\ connect \in {"none"} \cup Result
  /\ posted \in Seq(1 .. MaxSends) /\ sendQueue \in Seq(1 .. MaxSends)
  /\ writes \subseteq Writing /\ wire \in Seq((1 .. MaxSends) \X {1, 2})
  /\ sends \in 0 .. MaxSends
  /\ receiving \in BOOLEAN /\ reads \subseteq Reading /\ stream \in Seq(Packet)
  /\ taken \in 0 .. 2 * Len(stream) /\ delivered \in Seq(Unit)
  /\ failed \in BOOLEAN /\ dialling \in BOOLEAN /\ first \in 0 .. sends
  /\ open => (\A v, w \in writes : v = w) /\ (\A q, r \in reads : q = r)

\* What goes over a connection are whole packets in the order they were sent, from the first
\* one after Create; after a failure was reported packets may be missing, but none is cut
\* or out of order.
SentInOrder ==
  \A i \in DOMAIN wire :
    IF i % 2 = 1
    THEN /\ wire[i][2] = 1
         /\ IF failed THEN \A j \in 1 .. i - 1 : wire[j][1] < wire[i][1]
            ELSE wire[i][1] = first + (i + 1) \div 2
    ELSE wire[i] = <<wire[i - 1][1], 2>>

\* What the listener receives are the packets of the peer in their order, none of them
\* longer than allowed.
ReceivedInOrder ==
  \A i \in DOMAIN delivered : delivered[i] = <<stream[i], 2>> /\ stream[i] \notin TooBig

\* Both directions keep packets and their order, whatever completes, fails, is aborted or
\* closed meanwhile.
PacketsInOrder == SentInOrder /\ ReceivedInOrder

\* On an open socket a write under way is that of the first packet in the queue (socket.cpp:210
\* asserts that it never finds the queue empty), and a queue that is not empty has one, or
\* the listener knows that sending failed.
QueueMoves ==
  open =>
    /\ \A w \in writes : sendQueue # <<>> /\ w.packet = Head(sendQueue)
    /\ sendQueue # <<>> => failed \/ writes # {}

\* Every Connect has an answer, however long the attempt hangs: success, failure or timeout.
ConnectAnswered == dialling ~> ~dialling

=============================================================================
