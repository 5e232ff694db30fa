---------------------------- MODULE HttpGateway ----------------------------
(***************************************************************************)
(* The HTTP gateway in front of the task server (xdll/xdllhttpserver).     *)
(* A client posts its request over HTTP; the gateway replaces the request's *)
(* sequence id by the number of the connection, sends it to the server by  *)
(* UDP, and answers the connection that the number in the UDP answer names *)
(* after putting the sequence id back.  A timer closes the connections     *)
(* that have waited too long.                                              *)
(*                                                                         *)
(* All handlers run on one thread and are atomic, but for handle_receive_  *)
(* from: the system writes arriving packets into the one buffer that all   *)
(* outstanding receives share, whatever the handlers do.  A second of the  *)
(* clock is one tick here; when a read, write or accept completes cannot   *)
(* be seen before its handler runs, so handler and completion are one.     *)
(***************************************************************************)
EXTENDS Integers, Sequences, FiniteSets

CONSTANTS
  NumReceives,   \* receives outstanding on the UDP socket
  Seqs,          \* sequence ids of the clients' requests
  Clear,         \* g_clear_second
  FirstElapse,   \* g_elsped_second, the first wait of the timer
  TickWidth,     \* GetTickCount is modulo TickWidth
  StartTicks,    \* the ticks the gateway may be started at
  MaxConns, MaxTick, MaxLag, MaxPackets,  \* bounds of the model
  MaxTotal       \* the bound of ticks and packets together

ASSUME GatewayAssumption ==
  /\ NumReceives \in Nat \ {0} /\ Seqs \subseteq Nat
  /\ Clear \in Nat \ {0} /\ FirstElapse \in Nat \ {0} /\ TickWidth \in Nat
  /\ TickWidth > Clear
  /\ StartTicks \subseteq Nat
  /\ MaxConns \in Nat /\ MaxTick \in Nat /\ MaxLag \in Nat /\ MaxPackets \in Nat
  /\ MaxTotal \in Nat

VARIABLES
  acceptor,      \* "open" or "closed"
  accept,        \* "pending"; "doomed": begun on the closed acceptor; "none"
  order,         \* order, the number of connections so far
  connections,   \* connections_: the numbers of those the manager holds
  conn,          \* the connections by order_
  posted,        \* receives outstanding
  done,          \* receives completed and not handled: "packet", or "failed" if short
  data,          \* data_
  answering,     \* the connection handle_receive_from has found, or 0
  timer, expiry, \* "on", "cancelled" or "off"; when the wait ends
  tick,          \* the clock, not wrapped
  packets        \* completions so far

acceptVars == <<acceptor, accept>>
udpVars == <<posted, done, data, answering, packets>>
timerVars == <<timer, expiry>>
vars == <<acceptVars, order, connections, conn, udpVars, timerVars, tick>>

\* seq: the number at offset 3.  no: which of the server's packets it is, two answers to
\* one request being different.  History: from, the connection whose request it answers;
\* alone, it was written over no packet that had not been dealt with, nor was it written
\* over itself.
Packet == [seq : Nat, from : Nat, no : Nat, alone : BOOLEAN]
NoPacket == [seq |-> 0, from |-> 0, no |-> 0, alone |-> FALSE]

\* asked: history, the tick of do_request; -1 before.  body: of reply_, NoPacket for a
\* reply of the gateway's own.
Conn ==
  [open : BOOLEAN, reading : BOOLEAN, writes : Nat, seq : Nat, old_sequence_id : Nat,
   send_udp_tick : Nat, body : Packet, start : Nat, asked : Int]

NewConn(s) ==
  [open |-> TRUE, reading |-> TRUE, writes |-> 0, seq |-> s, old_sequence_id |-> 0,
   send_udp_tick |-> 0, body |-> NoPacket, start |-> tick, asked |-> -1]

GetTickCount == tick % TickWidth

\* server::start.
Init ==
  /\ acceptor = "open" /\ accept = "pending"
  /\ order = 0 /\ connections = {} /\ conn = <<>>
  /\ posted = NumReceives /\ done = <<>> /\ data = NoPacket
  /\ answering = 0 /\ packets = 0
  /\ tick \in StartTicks
  /\ timer = "on" /\ expiry = tick + FirstElapse

-----------------------------------------------------------------------------
(***************************************************************************)
(* Accepting and stopping                                                  *)
(***************************************************************************)

Idle == answering = 0

\* handle_accept, connection_manager::start and connection::start.
HandleAccept ==
  /\ Idle /\ accept = "pending" /\ order < MaxConns
  /\ order' = order + 1
  /\ connections' = connections \cup {order'}
  /\ \E s \in Seqs : conn' = Append(conn, NewConn(s))
  /\ accept' = IF acceptor = "open" THEN "pending" ELSE "doomed"
  /\ UNCHANGED <<acceptor, udpVars, timerVars, tick>>

\* An accept that failed is not repeated.
AcceptFailed ==
  /\ Idle /\ accept # "none"
  /\ accept' = "none"
  /\ UNCHANGED <<acceptor, order, connections, conn, udpVars, timerVars, tick>>

\* handle_stop and stop_all.  A timer whose wait has ended may be past cancelling.  A
\* second stop, which would only cancel the receives again, is left out.
HandleStop ==
  /\ Idle /\ acceptor = "open"
  /\ acceptor' = "closed"
  /\ conn' = [c \in DOMAIN conn |->
                IF c \in connections THEN [conn[c] EXCEPT !.open = FALSE] ELSE conn[c]]
  /\ connections' = {}
  /\ \/ timer' = IF timer = "on" THEN "cancelled" ELSE timer
     \/ timer = "on" /\ tick >= expiry /\ timer' = "on"
  /\ posted' = 0
  /\ done' = done \o [i \in 1 .. posted |-> "failed"]
  /\ UNCHANGED <<accept, order, data, answering, packets, expiry, tick>>

-----------------------------------------------------------------------------
(***************************************************************************)
(* One connection                                                          *)
(***************************************************************************)

Set(c, r) == conn' = [conn EXCEPT ![c] = r]

\* connection_manager::stop; r is the connection before.
StopConn(c, r) ==
  /\ connections' = connections \ {c}
  /\ Set(c, [r EXCEPT !.open = FALSE])

\* Mutant: the sequence id is saved after it was replaced.
DoRequestSavesLate(c) ==
  Set(c, [conn[c] EXCEPT !.reading = FALSE, !.old_sequence_id = c,
                         !.send_udp_tick = GetTickCount, !.asked = tick])

\* do_request; the packet with the number c is on its way.
DoRequest(c) ==
  Set(c, [conn[c] EXCEPT !.reading = FALSE, !.old_sequence_id = conn[c].seq,
                         !.send_udp_tick = GetTickCount, !.asked = tick])

\* handle_read with data: a complete request; one that is too short, for which reply_ is sent
\* as it is, or cannot be parsed and is answered with an error; or one that is not complete.
ReadData(c) ==
  /\ \/ DoRequest(c)
     \/ \E b \in {conn[c].body, NoPacket} :
          Set(c, [conn[c] EXCEPT !.reading = FALSE, !.writes = @ + 1, !.body = b])
     \/ UNCHANGED conn
  /\ UNCHANGED connections

\* Mutant: the connection is closed, and kept.
ReadFailedKeeps(c) ==
  /\ Set(c, [conn[c] EXCEPT !.reading = FALSE, !.open = FALSE])
  /\ UNCHANGED connections

ReadFailed(c) == StopConn(c, [conn[c] EXCEPT !.reading = FALSE])

\* The error is operation_aborted: the connection has been closed.
ReadAborted(c) ==
  /\ ~conn[c].open
  /\ Set(c, [conn[c] EXCEPT !.reading = FALSE])
  /\ UNCHANGED connections

HandleRead(c) ==
  /\ Idle /\ conn[c].reading
  /\ ReadData(c) \/ ReadFailed(c) \/ ReadAborted(c)
  /\ UNCHANGED <<acceptVars, order, udpVars, timerVars, tick>>

\* handle_write closes the connection after the first reply.
WriteDone(c) == StopConn(c, [conn[c] EXCEPT !.writes = @ - 1])

WriteAborted(c) ==
  /\ ~conn[c].open
  /\ Set(c, [conn[c] EXCEPT !.writes = @ - 1])
  /\ UNCHANGED connections

HandleWrite(c) ==
  /\ Idle /\ conn[c].writes > 0
  /\ WriteDone(c) \/ WriteAborted(c)
  /\ UNCHANGED <<acceptVars, order, udpVars, timerVars, tick>>

-----------------------------------------------------------------------------
(***************************************************************************)
(* UDP                                                                     *)
(***************************************************************************)

Complete(result) ==
  /\ packets < MaxPackets /\ tick + packets < MaxTotal /\ packets' = packets + 1
  /\ posted > 0
  /\ posted' = posted - 1 /\ done' = Append(done, result)
  /\ UNCHANGED <<acceptVars, order, connections, conn, answering, timerVars, tick>>

\* The buffer holds a packet that has not been dealt with.
InUse == ~Idle \/ \E i \in DOMAIN done : done[i] = "packet"

\* An answer of the server to the request of c, which may come late and more than
\* once, completes a receive and fills the buffer.
Arrive(c) ==
  /\ Complete("packet") /\ conn[c].asked >= 0
  /\ data' = [seq |-> c, from |-> c, no |-> packets', alone |-> ~InUse]

\* So does a packet of less than eight bytes, as far as it goes: of the packet in the
\* buffer it leaves any number.
ArriveShort ==
  /\ Complete("failed") /\ InUse
  /\ \E n \in {data.seq} \cup 0 .. MaxConns :
       data' = [data EXCEPT !.seq = n, !.alone = FALSE]

\* A receive fails, as when the server's port was not open, or gets no byte, or gets a few
\* when the buffer is not in use: nobody reads them before the next packet replaces them.
ReceiveFails == Complete("failed") /\ UNCHANGED data

\* Mutant: a packet nobody waits for ends the receiving.
DropPacketForGood ==
  /\ Head(done) = "failed" \/ data.seq \notin connections
  /\ posted' = IF Head(done) = "failed" THEN posted + 1 ELSE posted
  /\ UNCHANGED answering

\* Nothing to answer: the receive is posted again.
DropPacket ==
  /\ Head(done) = "failed" \/ data.seq \notin connections
  /\ posted' = posted + 1
  /\ UNCHANGED answering

\* Mutant: connections_ is not asked.
FindAnyConn ==
  /\ Head(done) = "packet"
  /\ answering' = data.seq
  /\ UNCHANGED posted

\* The number in the buffer names a connection.
FindConn ==
  /\ Head(done) = "packet" /\ data.seq \in connections
  /\ answering' = data.seq
  /\ UNCHANGED posted

\* handle_receive_from up to the look at connections_.
HandleReceive ==
  /\ Idle /\ done # <<>> /\ done' = Tail(done)
  /\ DropPacket \/ FindConn
  /\ UNCHANGED <<acceptVars, order, connections, conn, data, packets, timerVars,
                 tick>>

\* The rest of it: set_body, do_response, and the next receive.  A packet that arrives
\* between the two halves is the one that is copied.
Answer ==
  /\ ~Idle
  /\ data' = [data EXCEPT !.seq = conn[answering].old_sequence_id]
  /\ Set(answering, [conn[answering] EXCEPT !.body = data', !.writes = @ + 1])
  /\ posted' = posted + 1
  /\ answering' = 0
  /\ UNCHANGED <<acceptVars, order, connections, done, packets, timerVars, tick>>

-----------------------------------------------------------------------------
(***************************************************************************)
(* The clearing timer                                                      *)
(***************************************************************************)

\* Mutant: connections are cleared when they reach the time.
TimedOutAt(c) == (conn[c].send_udp_tick + Clear) % TickWidth <= GetTickCount

\* Mutant: only connections that have sent their request are cleared.
TimedOutAsked(c) ==
  conn[c].send_udp_tick # 0 /\ (conn[c].send_udp_tick + Clear) % TickWidth < GetTickCount

TimedOut(c) == (conn[c].send_udp_tick + Clear) % TickWidth < GetTickCount

HandleElapsed ==
  /\ Idle /\ timer = "on" /\ tick >= expiry
  /\ LET out == {c \in connections : TimedOut(c)}
     IN /\ connections' = connections \ out
        /\ conn' = [c \in DOMAIN conn |->
                      IF c \in out THEN [conn[c] EXCEPT !.open = FALSE] ELSE conn[c]]
  /\ expiry' = tick + 1
  /\ UNCHANGED <<acceptVars, order, udpVars, timer, tick>>

\* handle_elapsed with an error ends the timer.
ElapsedAborted ==
  /\ Idle /\ timer = "cancelled"
  /\ timer' = "off"
  /\ UNCHANGED <<acceptVars, order, connections, conn, udpVars, expiry, tick>>

\* A second passes; the handler of the timer is at most MaxLag seconds late.
ClockTick ==
  /\ tick < MaxTick /\ tick + packets < MaxTotal
  /\ timer = "on" => tick < expiry + MaxLag
  /\ tick' = tick + 1
  /\ UNCHANGED <<acceptVars, order, connections, conn, udpVars, timerVars>>

-----------------------------------------------------------------------------
IoStep ==
  \/ AcceptFailed \/ HandleReceive \/ Answer \/ HandleElapsed \/ ElapsedAborted
  \/ \E c \in DOMAIN conn : HandleRead(c) \/ HandleWrite(c)

Next ==
  \/ IoStep
  \/ HandleAccept \/ HandleStop
  \/ \E c \in DOMAIN conn : Arrive(c)
  \/ ArriveShort \/ ReceiveFails \/ ClockTick

Spec == Init /\ [][Next]_vars

\* The io_service runs what it has.
FairSpec == Spec /\ WF_vars(IoStep) /\ WF_vars(ClockTick)

-----------------------------------------------------------------------------
(***************************************************************************)
(* Properties                                                              *)
(***************************************************************************)

\* Types of all variables.
TypeOK ==
  /\ acceptor \in {"open", "closed"} /\ accept \in {"pending", "doomed", "none"}
  /\ order \in 0 .. MaxConns
  /\ connections \subseteq 1 .. order
  /\ conn \in Seq(Conn) /\ Len(conn) = order
  /\ posted \in Nat /\ done \in Seq({"packet", "failed"})
  /\ data \in Packet /\ answering \in 0 .. order
  /\ timer \in {"on", "cancelled", "off"} /\ expiry \in Nat /\ tick \in Nat
  /\ packets \in 0 .. MaxPackets

\* No connection leaks: the manager holds exactly the connections whose socket is open,
\* through timeouts, errors, several replies and a stop (connection_manager).
ManagedIsOpen == connections = {c \in DOMAIN conn : conn[c].open}

\* The gateway never goes deaf: however receives end, as many are outstanding or about
\* to be posted again as server::start has posted, also after the stop.
ReceivesKept ==
  posted + Len(done) + (IF answering = 0 THEN 0 ELSE 1) = NumReceives

\* The harm of the shared buffer stays with the packets that met in it: a client that got
\* a packet which met no other there, not even a short one, got the answer to its own
\* request, whole and under its own sequence id, however late or often answers arrive and
\* whatever was mixed up before (handle_receive_from; the receives share data_).
RightAnswer ==
  \A c \in DOMAIN conn :
    LET b == conn[c].body IN b.alone => b.seq = conn[c].seq /\ b.from = c

Epoch(t) == t \div TickWidth

\* When a connection is to be cleared; before its request counts as one sent when
\* GetTickCount was zero.
Deadline(c) ==
  Clear + IF conn[c].asked < 0 THEN TickWidth * Epoch(tick) ELSE conn[c].asked

\* While the timer runs no connection stays longer than its time and one period of the
\* timer, unless GetTickCount wraps between its deadline and now (handle_elapsed).
ClearedInTime ==
  timer = "on" => \A c \in connections :
    Epoch(Deadline(c)) = Epoch(tick) =>
      \/ tick <= Deadline(c) + FirstElapse + MaxLag
      \/ tick <= conn[c].start + FirstElapse + MaxLag

\* A client that waits for an answer gets its time: only an error, a reply or the stop
\* closes its connection before, unless GetTickCount wraps between request and deadline.
NotClearedEarly ==
  [][ \A c \in connections \ connections' :
        (expiry' # expiry /\ conn[c].asked >= 0 /\ Epoch(conn[c].asked) = Epoch(Deadline(c)))
          => tick > Deadline(c) ]_vars

\* reply.hpp:57 says that a reply must not be changed until the write operation has
\* completed.
ReplyUnchanged ==
  [][ \A c \in DOMAIN conn : conn[c].writes > 0 => conn'[c].body = conn[c].body ]_vars

\* server.cpp:71 says that once all operations have finished after a stop,
\* io_service::run exits: that the operations do finish.
NoWork ==
  /\ posted = 0 /\ done = <<>> /\ Idle /\ timer = "off" /\ accept = "none"
  /\ \A c \in DOMAIN conn : ~conn[c].reading /\ conn[c].writes = 0
RunExits == acceptor = "closed" ~> NoWork
=============================================================================
