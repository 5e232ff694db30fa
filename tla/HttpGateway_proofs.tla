------------------------ MODULE HttpGateway_proofs ------------------------
(***************************************************************************)
(* The gateway keeps its books, keeps listening and answers the right      *)
(* client with every packet that met no other in the buffer, for any       *)
(* number of connections, receives and packets and any arithmetic of the   *)
(* clock.                                                                  *)
(***************************************************************************)
EXTENDS HttpGateway, TLAPS

-----------------------------------------------------------------------------
(***************************************************************************)
(* The inductive invariant                                                 *)
(***************************************************************************)

Asked(c) == c \in DOMAIN conn /\ conn[c].asked >= 0

\* do_request has kept the client's own sequence id.
SeqKept == \A c \in DOMAIN conn : conn[c].asked >= 0 => conn[c].old_sequence_id = conn[c].seq

\* The buffer holds an answer to connection c as it arrived.
DataIntact(c) == data.seq = c /\ data.from = c /\ Asked(c)

\* As long as the packet in the buffer is alone, at most one completion is a packet, and
\* the buffer holds it until it has been handled.
BufferHolds ==
  data.alone =>
    /\ \A i, j \in DOMAIN done : done[i] = "packet" /\ done[j] = "packet" => i = j
    /\ \A i \in DOMAIN done :
         done[i] = "packet" => answering = 0 /\ \E c \in 1 .. order : DataIntact(c)
    /\ answering # 0 => DataIntact(answering)

GatewayInv ==
  TypeOK /\ ManagedIsOpen /\ ReceivesKept /\ SeqKept /\ BufferHolds /\ RightAnswer

-----------------------------------------------------------------------------
(***************************************************************************)
(* Steps of the connections                                                *)
(***************************************************************************)

\* What Set does to the sequence of connections.
LEMMA SetConn ==
  ASSUME TypeOK, NEW c \in DOMAIN conn, NEW r \in Conn, Set(c, r)
  PROVE  /\ conn' \in Seq(Conn) /\ Len(conn') = Len(conn) /\ DOMAIN conn' = DOMAIN conn
         /\ conn'[c] = r
         /\ \A d \in DOMAIN conn : d # c => conn'[d] = conn[d]
BY DEF TypeOK, Set

\* The numbers of the connections.
LEMMA Numbers == ASSUME TypeOK PROVE DOMAIN conn = 1 .. order /\ order \in Nat
BY GatewayAssumption DEF TypeOK

\* What a step of connection c alone may do to it.
Touched(c, r) ==
  /\ r \in Conn /\ Set(c, r)
  /\ r.seq = conn[c].seq /\ (r.body = conn[c].body \/ r.body = NoPacket)
  /\ \/ r.asked = conn[c].asked /\ r.old_sequence_id = conn[c].old_sequence_id
     \/ r.asked = tick /\ r.old_sequence_id = conn[c].seq
  /\ \/ r.open = conn[c].open /\ connections' = connections
     \/ r.open = FALSE /\ connections' = connections \ {c}

\* The tick count is a number.
LEMMA TickCount == ASSUME TypeOK PROVE GetTickCount \in Nat
BY GatewayAssumption DEF TypeOK, GetTickCount

\* A connection of the sequence, and the types of its fields.
LEMMA ConnType == ASSUME TypeOK, NEW c \in DOMAIN conn PROVE conn[c] \in Conn
BY DEF TypeOK

\* When the connections of a sequence asked.
LEMMA AskedInt == ASSUME NEW s \in Seq(Conn) PROVE \A c \in DOMAIN s : s[c].asked \in Int
<1> TAKE c \in DOMAIN s
<1>1. s[c] \in Conn
  OBVIOUS
<1> QED
  BY <1>1 DEF Conn

\* The fields a step on a socket leaves alone.
Same(k, r) ==
  r.seq = k.seq /\ r.body = k.body /\ r.asked = k.asked /\ r.old_sequence_id = k.old_sequence_id

\* A connection whose flags or writes are set.
LEMMA SetField ==
  ASSUME NEW k \in Conn
  PROVE  /\ \A b \in BOOLEAN : LET r == [k EXCEPT !.reading = b]
                              IN r \in Conn /\ Same(k, r) /\ r.open = k.open /\ r.writes = k.writes
         /\ \A b \in BOOLEAN : LET r == [k EXCEPT !.open = b]
                              IN r \in Conn /\ Same(k, r) /\ r.open = b
         /\ \A n \in Nat : LET r == [k EXCEPT !.writes = n]
                          IN r \in Conn /\ Same(k, r) /\ r.open = k.open
         /\ k.writes \in Nat /\ k.open \in BOOLEAN
BY DEF Conn, Same

\* A connection after its request was sent.
Requested(k, t, a) ==
  [k EXCEPT !.reading = FALSE, !.old_sequence_id = k.seq, !.send_udp_tick = t, !.asked = a]

\* What sending the request changes.
LEMMA SetRequest ==
  ASSUME NEW k \in Conn, NEW t \in Nat, NEW a \in Nat
  PROVE  /\ Requested(k, t, a) \in Conn /\ Requested(k, t, a).seq = k.seq
         /\ Requested(k, t, a).body = k.body /\ Requested(k, t, a).open = k.open
         /\ Requested(k, t, a).asked = a /\ Requested(k, t, a).old_sequence_id = k.seq
<1> DEFINE n == k.seq
           r1 == [k EXCEPT !.reading = FALSE]
           r2 == [r1 EXCEPT !.old_sequence_id = n]
           r3 == [r2 EXCEPT !.send_udp_tick = t]
           r4 == [r3 EXCEPT !.asked = a]
<1>1. n \in Nat /\ r1 \in Conn /\ r1.seq = n /\ r1.body = k.body /\ r1.open = k.open
  BY DEF Conn
<1>5. Requested(k, t, a) = r4
  BY DEF Requested
<1> HIDE DEF n, r1
<1>2. /\ r2 \in Conn /\ r2.seq = n /\ r2.body = k.body /\ r2.open = k.open
      /\ r2.old_sequence_id = n
  BY <1>1 DEF Conn
<1> HIDE DEF r2
<1>3. /\ r3 \in Conn /\ r3.seq = n /\ r3.body = k.body /\ r3.open = k.open
      /\ r3.old_sequence_id = n
  BY <1>2 DEF Conn
<1> HIDE DEF r3
<1>4. /\ r4 \in Conn /\ r4.seq = n /\ r4.body = k.body /\ r4.open = k.open
      /\ r4.old_sequence_id = n /\ r4.asked = a
  BY <1>3 DEF Conn
<1> HIDE DEF r4
<1> QED
  BY <1>4, <1>5 DEF n

\* A connection after a reply b of the gateway's own was begun.
Refused(k, b) == [k EXCEPT !.reading = FALSE, !.writes = @ + 1, !.body = b]

\* What refusing a request changes.
LEMMA SetRefused ==
  ASSUME NEW k \in Conn, NEW b \in Packet
  PROVE  /\ Refused(k, b) \in Conn /\ Refused(k, b).seq = k.seq /\ Refused(k, b).body = b
         /\ Refused(k, b).open = k.open /\ Refused(k, b).asked = k.asked
         /\ Refused(k, b).old_sequence_id = k.old_sequence_id
<1> DEFINE n == k.writes + 1
           r1 == [k EXCEPT !.reading = FALSE]
           r2 == [r1 EXCEPT !.writes = n]
           r3 == [r2 EXCEPT !.body = b]
<1>1. n \in Nat
  BY DEF Conn
<1>2. /\ r1 \in Conn /\ r1.seq = k.seq /\ r1.open = k.open /\ r1.asked = k.asked
      /\ r1.old_sequence_id = k.old_sequence_id
  BY DEF Conn
<1>5. Refused(k, b) = r3
  BY DEF Refused, Conn
<1> HIDE DEF n, r1
<1>3. /\ r2 \in Conn /\ r2.seq = k.seq /\ r2.open = k.open /\ r2.asked = k.asked
      /\ r2.old_sequence_id = k.old_sequence_id
  BY <1>1, <1>2 DEF Conn
<1> HIDE DEF r2
<1>4. /\ r3 \in Conn /\ r3.seq = k.seq /\ r3.open = k.open /\ r3.asked = k.asked
      /\ r3.old_sequence_id = k.old_sequence_id /\ r3.body = b
  BY <1>1, <1>3 DEF Conn
<1> HIDE DEF r3
<1> QED
  BY <1>4, <1>5

\* A step on the socket of c touches c only.
LEMMA SameTouches ==
  ASSUME NEW c \in DOMAIN conn, NEW r \in Conn, Same(conn[c], r), Set(c, r),
         \/ r.open = conn[c].open /\ UNCHANGED connections
         \/ r.open = FALSE /\ connections' = connections \ {c}
  PROVE  Touched(c, r)
BY DEF Same, Touched

\* A read touches its connection only.
LEMMA ReadTouches ==
  ASSUME GatewayInv, NEW c \in DOMAIN conn, HandleRead(c)
  PROVE  \E r \in Conn : Touched(c, r)
<1>0. conn[c] \in Conn
  BY ConnType DEF GatewayInv
<1>1. tick \in Nat /\ GetTickCount \in Nat
  BY TickCount DEF GatewayInv, TypeOK
<1> DEFINE q == [conn[c] EXCEPT !.reading = FALSE]
<1>2. q \in Conn /\ Same(conn[c], q) /\ q.open = conn[c].open /\ q.writes = conn[c].writes
  BY <1>0, SetField
<1>3. CASE DoRequest(c) /\ UNCHANGED connections
  <2> DEFINE r == Requested(conn[c], GetTickCount, tick)
  <2>1. r \in Conn /\ r.seq = conn[c].seq /\ r.body = conn[c].body /\ r.asked = tick
        /\ r.old_sequence_id = conn[c].seq /\ r.open = conn[c].open
    BY <1>0, <1>1, SetRequest
  <2>2. Set(c, r)
    BY <1>3 DEF DoRequest, Requested
  <2> HIDE DEF r
  <2> QED
    BY <1>3, <2>1, <2>2 DEF Touched
<1>4. ASSUME NEW b \in {conn[c].body, NoPacket},
             Set(c, Refused(conn[c], b)), UNCHANGED connections
      PROVE  \E r \in Conn : Touched(c, r)
  <2> DEFINE r == Refused(conn[c], b)
  <2>0. b \in Packet
    <3>1. conn[c].body \in Packet
      BY <1>0 DEF Conn
    <3>2. NoPacket \in Packet
      BY DEF NoPacket, Packet
    <3> QED BY <3>1, <3>2
  <2>1. /\ r \in Conn /\ r.seq = conn[c].seq /\ r.body = b /\ r.asked = conn[c].asked
        /\ r.old_sequence_id = conn[c].old_sequence_id /\ r.open = conn[c].open
    BY <1>0, <2>0, SetRefused
  <2>2. Set(c, r)
    BY <1>4
  <2> HIDE DEF r
  <2> QED
    BY <1>4, <2>1, <2>2 DEF Touched
<1>5. CASE UNCHANGED <<conn, connections>>
  <2>1. Set(c, conn[c])
    BY <1>5 DEF Set, GatewayInv, TypeOK
  <2>2. Same(conn[c], conn[c])
    BY DEF Same
  <2> QED
    BY <1>0, <1>5, <2>1, <2>2, SameTouches
<1>6. CASE ReadFailed(c)
  <2> DEFINE r == [q EXCEPT !.open = FALSE]
  <2>1. r \in Conn /\ Same(q, r) /\ r.open = FALSE
    BY <1>2, SetField
  <2>2. Set(c, r) /\ connections' = connections \ {c}
    BY <1>6 DEF ReadFailed, StopConn
  <2>3. Same(conn[c], r)
    BY <1>2, <2>1 DEF Same
  <2> HIDE DEF r
  <2> QED
    BY <2>1, <2>2, <2>3, SameTouches
<1>7. CASE ReadAborted(c)
  BY <1>2, <1>7, SameTouches DEF ReadAborted
<1> QED
  BY <1>3, <1>4, <1>5, <1>6, <1>7 DEF HandleRead, ReadData, Refused

\* A write touches its connection only.
LEMMA WriteTouches ==
  ASSUME GatewayInv, NEW c \in DOMAIN conn, HandleWrite(c)
  PROVE  \E r \in Conn : Touched(c, r)
<1>0. conn[c] \in Conn
  BY ConnType DEF GatewayInv
<1> DEFINE q == [conn[c] EXCEPT !.writes = @ - 1]
<1>1. q \in Conn /\ Same(conn[c], q) /\ q.open = conn[c].open
  <2>1. conn[c].writes - 1 \in Nat
    BY <1>0, SetField DEF HandleWrite
  <2> QED
    BY <1>0, <2>1, SetField
<1>2. CASE WriteDone(c)
  <2> DEFINE r == [q EXCEPT !.open = FALSE]
  <2>1. r \in Conn /\ Same(q, r) /\ r.open = FALSE
    BY <1>1, SetField
  <2>2. Set(c, r) /\ connections' = connections \ {c}
    BY <1>2 DEF WriteDone, StopConn
  <2>3. Same(conn[c], r)
    BY <1>1, <2>1 DEF Same
  <2> HIDE DEF r
  <2> QED
    BY <2>1, <2>2, <2>3, SameTouches
<1>3. CASE WriteAborted(c)
  BY <1>1, <1>3, SameTouches DEF WriteAborted
<1> QED
  BY <1>2, <1>3 DEF HandleWrite

\* A step that touches one connection preserves the invariant.
LEMMA TouchPreserves ==
  ASSUME GatewayInv, NEW c \in DOMAIN conn, NEW r \in Conn, Touched(c, r),
         UNCHANGED <<acceptVars, order, udpVars, timerVars, tick>>
  PROVE  GatewayInv'
<1> USE DEF acceptVars, udpVars, timerVars
<1>1. /\ conn' \in Seq(Conn) /\ Len(conn') = Len(conn) /\ DOMAIN conn' = DOMAIN conn
      /\ conn'[c] = r
      /\ \A d \in DOMAIN conn : d # c => conn'[d] = conn[d]
  BY SetConn DEF GatewayInv, Touched
<1>2. connections' \subseteq connections
  BY DEF Touched
<1>3. TypeOK'
  BY <1>1, <1>2 DEF GatewayInv, TypeOK
<1>4. ManagedIsOpen'
  BY <1>1 DEF GatewayInv, ManagedIsOpen, Touched
<1>5. ReceivesKept'
  BY DEF GatewayInv, ReceivesKept
<1>6. SeqKept'
  BY <1>1 DEF GatewayInv, SeqKept, Touched
<1>7. \A d \in DOMAIN conn : Asked(d) => Asked(d)'
  BY <1>1 DEF GatewayInv, TypeOK, Asked, Touched
<1>8. \A d \in DOMAIN conn : DataIntact(d) => DataIntact(d)'
  BY <1>7 DEF DataIntact
<1>9. BufferHolds'
  BY <1>8, Numbers DEF GatewayInv, TypeOK, BufferHolds
<1>10. \A d \in DOMAIN conn : /\ conn'[d].body = conn[d].body \/ conn'[d].body = NoPacket
                             /\ conn'[d].seq = conn[d].seq
  BY <1>1 DEF Touched
<1>11. RightAnswer'
  BY <1>1, <1>10 DEF GatewayInv, RightAnswer, NoPacket
<1> QED
  BY <1>3, <1>4, <1>5, <1>6, <1>9, <1>11 DEF GatewayInv

-----------------------------------------------------------------------------
(***************************************************************************)
(* Steps of the manager                                                    *)
(***************************************************************************)

\* What closing the connections of out does to the sequence of connections.
LEMMA CloseConns ==
  ASSUME TypeOK, NEW out,
         conn' = [c \in DOMAIN conn |->
                    IF c \in out THEN [conn[c] EXCEPT !.open = FALSE] ELSE conn[c]]
  PROVE  /\ conn' \in Seq(Conn) /\ Len(conn') = Len(conn) /\ DOMAIN conn' = DOMAIN conn
         /\ \A c \in DOMAIN conn :
              /\ Same(conn[c], conn'[c])
              /\ conn'[c].open = IF c \in out THEN FALSE ELSE conn[c].open
<1>1. \A c \in DOMAIN conn : /\ conn'[c] \in Conn /\ Same(conn[c], conn'[c])
                            /\ conn'[c].open = IF c \in out THEN FALSE ELSE conn[c].open
  <2> TAKE c \in DOMAIN conn
  <2>1. conn[c] \in Conn
    BY ConnType
  <2>2. CASE c \in out
    BY <2>1, <2>2, SetField
  <2>3. CASE c \notin out
    BY <2>1, <2>3 DEF Same
  <2> QED
    BY <2>2, <2>3
<1>2. DOMAIN conn = 1 .. Len(conn) /\ Len(conn) \in Nat
  BY DEF TypeOK
<1>3. conn' \in [1 .. Len(conn) -> Conn]
  BY <1>1, <1>2
<1>4. conn' \in Seq(Conn) /\ Len(conn') = Len(conn) /\ DOMAIN conn' = DOMAIN conn
  BY <1>2, <1>3
<1> QED
  BY <1>1, <1>4

\* The parts of the invariant that are about requests and answers survive when every
\* connection keeps its answer, and neither the buffer nor a completion changes.
LEMMA QuietAnswers ==
  ASSUME GatewayInv, DOMAIN conn \subseteq DOMAIN conn', order <= order', order' \in Nat,
         \A c \in DOMAIN conn : Same(conn[c], conn'[c]),
         \A c \in DOMAIN conn' \ DOMAIN conn : conn'[c].asked < 0 /\ conn'[c].body = NoPacket,
         \A c \in DOMAIN conn' : conn'[c].asked \in Int,
         UNCHANGED <<data, answering>>,
         \A i \in DOMAIN done' : (i \in DOMAIN done /\ done'[i] = done[i]) \/ done'[i] = "failed"
  PROVE  SeqKept' /\ BufferHolds' /\ RightAnswer'
<1>1. SeqKept'
  BY DEF GatewayInv, SeqKept, Same
<1>2. \A c : DataIntact(c) => DataIntact(c)'
  BY DEF DataIntact, Asked, Same
<1>3. RightAnswer'
  BY DEF GatewayInv, RightAnswer, Same, NoPacket
<1>4. BufferHolds'
  <2> SUFFICES ASSUME data.alone
               PROVE  /\ \A i, j \in DOMAIN done' :
                           done'[i] = "packet" /\ done'[j] = "packet" => i = j
                      /\ \A i \in DOMAIN done' :
                           done'[i] = "packet" =>
                             answering = 0 /\ \E c \in 1 .. order' : DataIntact(c)'
                      /\ answering # 0 => DataIntact(answering)'
    BY DEF BufferHolds
  <2>1. \A i \in DOMAIN done' : done'[i] = "packet" => i \in DOMAIN done /\ done[i] = "packet"
    OBVIOUS
  <2>2. \A i, j \in DOMAIN done' : done'[i] = "packet" /\ done'[j] = "packet" => i = j
    BY <2>1 DEF GatewayInv, BufferHolds
  <2>3. ASSUME NEW i \in DOMAIN done', done'[i] = "packet"
        PROVE  answering = 0 /\ \E c \in 1 .. order' : DataIntact(c)'
    <3>1. answering = 0 /\ \E c \in 1 .. order : DataIntact(c)
      BY <2>1, <2>3 DEF GatewayInv, BufferHolds
    <3>2. order \in Nat
      BY Numbers DEF GatewayInv
    <3> QED
      BY <1>2, <3>1, <3>2
  <2>4. answering # 0 => DataIntact(answering)'
    BY <1>2 DEF GatewayInv, BufferHolds
  <2> QED
    BY <2>2, <2>3, <2>4
<1> QED
  BY <1>1, <1>3, <1>4

\* The completions, when they are left alone.
LEMMA SameDone ==
  ASSUME TypeOK, done' = done
  PROVE  \A i \in DOMAIN done' : (i \in DOMAIN done /\ done'[i] = done[i]) \/ done'[i] = "failed"
BY DEF TypeOK

\* A step that leaves the connections, the buffer and the completions alone.
LEMMA AsidePreserves ==
  ASSUME GatewayInv, TypeOK',
         UNCHANGED <<order, connections, conn, posted, done, data, answering>>
  PROVE  GatewayInv'
<1>1. ManagedIsOpen' /\ ReceivesKept'
  BY DEF GatewayInv, ManagedIsOpen, ReceivesKept
<1>2. SeqKept' /\ RightAnswer'
  BY DEF GatewayInv, SeqKept, RightAnswer
<1>3. \A c : DataIntact(c) => DataIntact(c)'
  BY DEF DataIntact, Asked
<1>4. BufferHolds'
  BY <1>3 DEF GatewayInv, BufferHolds
<1> QED
  BY <1>1, <1>2, <1>4 DEF GatewayInv

\* The invariant holds when server::start is done.
LEMMA InitGateway == Init => GatewayInv
<1> SUFFICES ASSUME Init PROVE GatewayInv
  OBVIOUS
<1>1. TypeOK
  <2>1. NoPacket \in Packet
    BY DEF NoPacket, Packet
  <2>2. conn \in Seq(Conn) /\ Len(conn) = order /\ done \in Seq({"packet", "failed"})
    BY DEF Init
  <2>3. order \in 0 .. MaxConns /\ packets \in 0 .. MaxPackets /\ posted \in Nat
    BY GatewayAssumption DEF Init
  <2>4. tick \in Nat /\ expiry \in Nat
    BY GatewayAssumption DEF Init
  <2>5. answering \in 0 .. order /\ connections \subseteq 1 .. order
    BY DEF Init
  <2> QED
    BY <2>1, <2>2, <2>3, <2>4, <2>5 DEF Init, TypeOK
<1>2. ManagedIsOpen /\ SeqKept /\ RightAnswer
  BY DEF NoPacket, Init, ManagedIsOpen, SeqKept, RightAnswer
<1>3. ReceivesKept
  BY GatewayAssumption DEF Init, ReceivesKept
<1>4. BufferHolds
  BY DEF Init, BufferHolds, NoPacket
<1> QED
  BY <1>1, <1>2, <1>3, <1>4 DEF GatewayInv

\* A new connection has asked for nothing.
LEMMA AcceptPreserves == ASSUME GatewayInv, HandleAccept PROVE GatewayInv'
<1> USE DEF udpVars, timerVars
<1>1. PICK s \in Seqs : conn' = Append(conn, NewConn(s))
  BY DEF HandleAccept
<1>2. NewConn(s) \in Conn /\ NewConn(s).open /\ NewConn(s).asked = -1 /\ NewConn(s).body = NoPacket
  BY GatewayAssumption DEF NewConn, Conn, GatewayInv, TypeOK, Packet, NoPacket
<1>3. /\ conn' \in Seq(Conn) /\ Len(conn') = order + 1 /\ conn'[order + 1] = NewConn(s)
      /\ \A c \in DOMAIN conn : conn'[c] = conn[c]
      /\ DOMAIN conn' = 1 .. order + 1 /\ DOMAIN conn = 1 .. order /\ order \in Nat
  <2> HIDE DEF NewConn, Conn
  <2> QED
    BY <1>1, <1>2, Numbers DEF GatewayInv, TypeOK
<1>4. TypeOK'
  <2> HIDE DEF NewConn, Conn
  <2>1. order' \in 0 .. MaxConns /\ connections' \subseteq 1 .. order'
    BY <1>3, GatewayAssumption DEF HandleAccept, GatewayInv, TypeOK
  <2>2. acceptor' \in {"open", "closed"} /\ accept' \in {"pending", "doomed", "none"}
    BY DEF HandleAccept, GatewayInv, TypeOK
  <2>3. answering' \in 0 .. order'
    BY <1>3 DEF HandleAccept, GatewayInv, TypeOK
  <2> QED
    BY <1>3, <2>1, <2>2, <2>3 DEF HandleAccept, GatewayInv, TypeOK
<1>5. ManagedIsOpen'
  BY <1>2, <1>3 DEF HandleAccept, GatewayInv, ManagedIsOpen
<1>6. ReceivesKept'
  BY DEF HandleAccept, GatewayInv, ReceivesKept
<1>7. SeqKept' /\ BufferHolds' /\ RightAnswer'
  <2>1. \A c \in DOMAIN conn : Same(conn[c], conn'[c])
    BY <1>3 DEF Same
  <2>2. \A c \in DOMAIN conn' \ DOMAIN conn : conn'[c].asked < 0 /\ conn'[c].body = NoPacket
    BY <1>2, <1>3
  <2>3. \A c \in DOMAIN conn' : conn'[c].asked \in Int
    BY <1>3, AskedInt
  <2>4. UNCHANGED <<data, answering, done>>
    BY DEF HandleAccept
  <2>5. DOMAIN conn \subseteq DOMAIN conn' /\ order <= order' /\ order' \in Nat
    BY <1>3 DEF HandleAccept
  <2> QED
    BY <2>1, <2>2, <2>3, <2>4, <2>5, QuietAnswers, SameDone DEF GatewayInv
<1> QED
  BY <1>4, <1>5, <1>6, <1>7 DEF GatewayInv

\* The stop closes what the manager holds and fails all receives.
LEMMA StopPreserves == ASSUME GatewayInv, HandleStop PROVE GatewayInv'
<1>1. /\ conn' \in Seq(Conn) /\ Len(conn') = Len(conn) /\ DOMAIN conn' = DOMAIN conn
      /\ \A c \in DOMAIN conn :
           /\ Same(conn[c], conn'[c])
           /\ conn'[c].open = IF c \in connections THEN FALSE ELSE conn[c].open
  BY CloseConns DEF HandleStop, GatewayInv
<1>2. posted \in Nat /\ Len(done) \in Nat /\ order \in Nat
  BY Numbers DEF GatewayInv, TypeOK
<1> DEFINE failed == [i \in 1 .. posted |-> "failed"]
<1>3. failed \in Seq({"packet", "failed"}) /\ Len(failed) = posted
  BY <1>2
<1>4. \A i \in 1 .. posted : failed[i] = "failed"
  OBVIOUS
<1>5. done' = done \o failed /\ posted' = 0
  BY DEF HandleStop
<1>6. done \in Seq({"packet", "failed"})
  BY DEF GatewayInv, TypeOK
<1> HIDE DEF failed
<1>7. /\ done' \in Seq({"packet", "failed"}) /\ Len(done') = Len(done) + posted
      /\ \A i \in DOMAIN done' : (i \in DOMAIN done /\ done'[i] = done[i]) \/ done'[i] = "failed"
  <2>1. done' \in Seq({"packet", "failed"}) /\ Len(done') = Len(done) + posted
    BY <1>3, <1>5, <1>6
  <2>2. DOMAIN done' = 1 .. Len(done) + posted /\ DOMAIN done = 1 .. Len(done)
    BY <1>6, <2>1
  <2>3. ASSUME NEW i \in DOMAIN done', i \notin DOMAIN done PROVE done'[i] = "failed"
    <3>1. i \in Int /\ i - Len(done) \in 1 .. posted /\ i > Len(done)
      BY <1>2, <2>2, <2>3
    <3>2. done'[i] = failed[i - Len(done)]
      BY <1>2, <1>3, <1>5, <1>6, <2>2, <3>1
    <3> QED
      BY <1>4, <3>1, <3>2
  <2>4. ASSUME NEW i \in DOMAIN done', i \in DOMAIN done PROVE done'[i] = done[i]
    BY <1>2, <1>3, <1>5, <1>6, <2>2, <2>4
  <2> QED
    BY <2>1, <2>3, <2>4
<1>8. TypeOK'
  BY <1>1, <1>2, <1>7 DEF HandleStop, GatewayInv, TypeOK
<1>9. ManagedIsOpen'
  BY <1>1 DEF HandleStop, GatewayInv, ManagedIsOpen
<1>10. ReceivesKept'
  BY <1>2, <1>5, <1>7 DEF HandleStop, GatewayInv, ReceivesKept
<1>11. \A c \in DOMAIN conn' : conn'[c].asked \in Int
  BY <1>1, AskedInt
<1>12. UNCHANGED <<data, answering>> /\ order' = order
  BY DEF HandleStop
<1>13. SeqKept' /\ BufferHolds' /\ RightAnswer'
  <2>1. DOMAIN conn \subseteq DOMAIN conn' /\ DOMAIN conn' \ DOMAIN conn = {}
    BY <1>1
  <2>2. \A c \in DOMAIN conn : Same(conn[c], conn'[c])
    BY <1>1
  <2>3. order <= order' /\ order' \in Nat
    BY <1>2, <1>12
  <2> QED
    BY <2>1, <2>2, <2>3, <1>7, <1>11, <1>12, QuietAnswers
<1> QED
  BY <1>8, <1>9, <1>10, <1>13 DEF GatewayInv

\* The timer closes some connections.
LEMMA ElapsedPreserves == ASSUME GatewayInv, HandleElapsed PROVE GatewayInv'
<1> USE DEF acceptVars, udpVars
<1> DEFINE out == {c \in connections : TimedOut(c)}
<1>1. /\ connections' = connections \ out
      /\ conn' = [c \in DOMAIN conn |->
                    IF c \in out THEN [conn[c] EXCEPT !.open = FALSE] ELSE conn[c]]
  BY DEF HandleElapsed
<1> HIDE DEF out
<1>2. /\ conn' \in Seq(Conn) /\ Len(conn') = Len(conn) /\ DOMAIN conn' = DOMAIN conn
      /\ \A c \in DOMAIN conn :
           /\ Same(conn[c], conn'[c])
           /\ conn'[c].open = IF c \in out THEN FALSE ELSE conn[c].open
  BY <1>1, CloseConns DEF GatewayInv
<1>3. UNCHANGED <<acceptor, accept, order, posted, done, data, answering, packets, timer, tick>> /\ expiry' = tick + 1
  BY DEF HandleElapsed
<1>4. order \in Nat /\ DOMAIN conn = 1 .. order
  BY Numbers DEF GatewayInv
<1>5. TypeOK'
  BY <1>1, <1>2, <1>3, <1>4 DEF GatewayInv, TypeOK
<1>6. ManagedIsOpen'
  BY <1>1, <1>2 DEF GatewayInv, ManagedIsOpen
<1>7. ReceivesKept'
  BY <1>3 DEF GatewayInv, ReceivesKept
<1>8. \A c \in DOMAIN conn' : conn'[c].asked \in Int
  BY <1>2, AskedInt
<1>9. SeqKept' /\ BufferHolds' /\ RightAnswer'
  <2>1. DOMAIN conn \subseteq DOMAIN conn' /\ DOMAIN conn' \ DOMAIN conn = {}
    BY <1>2
  <2>2. \A c \in DOMAIN conn : Same(conn[c], conn'[c])
    BY <1>2
  <2>3. order <= order' /\ order' \in Nat
    BY <1>3, <1>4
  <2>4. \A i \in DOMAIN done' : (i \in DOMAIN done /\ done'[i] = done[i]) \/ done'[i] = "failed"
    BY <1>3, SameDone DEF GatewayInv
  <2> QED
    BY <2>1, <2>2, <2>3, <2>4, <1>3, <1>8, QuietAnswers
<1> QED
  BY <1>5, <1>6, <1>7, <1>9 DEF GatewayInv

-----------------------------------------------------------------------------
(***************************************************************************)
(* Packets                                                                 *)
(***************************************************************************)

\* A packet that arrives fills the buffer.
LEMMA ArrivePreserves ==
  ASSUME GatewayInv, NEW c \in DOMAIN conn, Arrive(c) PROVE GatewayInv'
<1> USE DEF acceptVars, timerVars
<1>1. c \in 1 .. order /\ order \in Nat /\ packets \in Nat
  BY Numbers, GatewayAssumption DEF GatewayInv, TypeOK
<1>2. UNCHANGED <<acceptor, accept, order, connections, conn, answering, timer, expiry, tick>>
  BY DEF Arrive, Complete
<1>3. /\ done' = Append(done, "packet") /\ posted' = posted - 1 /\ packets' = packets + 1
      /\ data' = [seq |-> c, from |-> c, no |-> packets', alone |-> ~InUse]
  BY DEF Arrive, Complete
<1>4. data'.seq = c /\ data'.from = c /\ (data'.alone <=> ~InUse)
  BY <1>3, Zenon
<1>5. done \in Seq({"packet", "failed"})
  BY DEF GatewayInv, TypeOK
<1>6. TypeOK'
  <2>1. packets' \in 0 .. MaxPackets /\ posted' \in Nat
    BY GatewayAssumption DEF Arrive, Complete, GatewayInv, TypeOK
  <2>2. done' \in Seq({"packet", "failed"})
    BY <1>3, <1>5
  <2>3. data' \in Packet
    <3>1. c \in Nat /\ packets' \in Nat
      BY <1>1, <1>3
    <3> QED
      BY <1>3, <3>1, Zenon DEF Packet
  <2> QED
    BY <1>2, <2>1, <2>2, <2>3 DEF GatewayInv, TypeOK
<1>7. ManagedIsOpen' /\ SeqKept' /\ RightAnswer'
  BY <1>2 DEF GatewayInv, ManagedIsOpen, SeqKept, RightAnswer
<1>8. ReceivesKept'
  BY <1>2, <1>3, <1>5 DEF GatewayInv, TypeOK, ReceivesKept
<1>9. BufferHolds'
  <2> SUFFICES ASSUME data'.alone PROVE BufferHolds'
    BY DEF BufferHolds
  <2>1. answering = 0 /\ \A i \in DOMAIN done : done[i] # "packet"
    BY <1>4 DEF InUse, Idle
  <2>2. /\ DOMAIN done' = 1 .. Len(done) + 1 /\ Len(done) \in Nat
        /\ \A i \in 1 .. Len(done) : done'[i] = done[i] /\ i \in DOMAIN done
    BY <1>3, <1>5
  <2>3. \A i \in DOMAIN done' : done'[i] = "packet" => i = Len(done) + 1
    BY <2>1, <2>2
  <2>4. DataIntact(c)'
    BY <1>2, <1>4 DEF Arrive, DataIntact, Asked
  <2> QED
    BY <1>1, <1>2, <2>1, <2>3, <2>4 DEF BufferHolds
<1> QED
  BY <1>6, <1>7, <1>8, <1>9 DEF GatewayInv

\* A few bytes spoil the packet in the buffer.
LEMMA ShortPreserves == ASSUME GatewayInv, ArriveShort PROVE GatewayInv'
<1> USE DEF acceptVars, timerVars
<1>1. UNCHANGED <<acceptor, accept, order, connections, conn, answering, timer, expiry, tick>>
  BY DEF ArriveShort, Complete
<1>2. /\ done' = Append(done, "failed") /\ posted' = posted - 1 /\ posted > 0
      /\ packets' = packets + 1 /\ packets < MaxPackets
  BY DEF ArriveShort, Complete
<1>3. done \in Seq({"packet", "failed"}) /\ data \in Packet
  BY DEF GatewayInv, TypeOK
<1>4. PICK n \in {data.seq} \cup 0 .. MaxConns : data' = [data EXCEPT !.seq = n, !.alone = FALSE]
  BY DEF ArriveShort
<1>5. n \in Nat
  BY <1>3, GatewayAssumption DEF Packet
<1>6. data' \in Packet /\ data'.alone = FALSE
  BY <1>3, <1>4, <1>5 DEF Packet
<1>7. TypeOK'
  <2>1. packets' \in 0 .. MaxPackets /\ posted' \in Nat
    BY <1>2, GatewayAssumption DEF GatewayInv, TypeOK
  <2>2. done' \in Seq({"packet", "failed"})
    BY <1>2, <1>3
  <2> QED
    BY <1>1, <1>6, <2>1, <2>2 DEF GatewayInv, TypeOK
<1>8. ManagedIsOpen' /\ SeqKept' /\ RightAnswer'
  BY <1>1 DEF GatewayInv, ManagedIsOpen, SeqKept, RightAnswer
<1>9. ReceivesKept'
  BY <1>1, <1>2, <1>3 DEF GatewayInv, TypeOK, ReceivesKept
<1>10. BufferHolds'
  BY <1>6 DEF BufferHolds
<1> QED
  BY <1>7, <1>8, <1>9, <1>10 DEF GatewayInv

\* A receive that fails leaves the buffer alone.
LEMMA FailPreserves == ASSUME GatewayInv, ReceiveFails PROVE GatewayInv'
<1> USE DEF acceptVars, timerVars
<1>1. UNCHANGED <<acceptor, accept, order, connections, conn, data, answering, timer, expiry,
                  tick>>
  BY DEF ReceiveFails, Complete
<1>2. done' = Append(done, "failed") /\ posted' = posted - 1
  BY DEF ReceiveFails, Complete
<1>3. done \in Seq({"packet", "failed"}) /\ order \in Nat /\ conn \in Seq(Conn)
  BY Numbers DEF GatewayInv, TypeOK
<1>4. TypeOK'
  <2>1. packets' \in 0 .. MaxPackets /\ posted' \in Nat
    BY GatewayAssumption DEF ReceiveFails, Complete, GatewayInv, TypeOK
  <2>2. done' \in Seq({"packet", "failed"})
    BY <1>2, <1>3
  <2> QED
    BY <1>1, <2>1, <2>2 DEF GatewayInv, TypeOK
<1>5. ManagedIsOpen'
  BY <1>1 DEF GatewayInv, ManagedIsOpen
<1>6. ReceivesKept'
  BY <1>1, <1>2 DEF GatewayInv, TypeOK, ReceivesKept
<1>7. SeqKept' /\ BufferHolds' /\ RightAnswer'
  <2>1. \A i \in DOMAIN done' : (i \in DOMAIN done /\ done'[i] = done[i]) \/ done'[i] = "failed"
    BY <1>2, <1>3
  <2>3. \A c \in DOMAIN conn : Same(conn[c], conn'[c])
    BY <1>1 DEF Same
  <2>4. \A c \in DOMAIN conn' : conn'[c].asked \in Int
    BY <1>1, <1>3, AskedInt
  <2>5. DOMAIN conn \subseteq DOMAIN conn' /\ DOMAIN conn' \ DOMAIN conn = {}
    BY <1>1
  <2>6. order <= order' /\ order' \in Nat
    BY <1>1, <1>3
  <2> QED
    BY <1>1, <2>1, <2>3, <2>4, <2>5, <2>6, QuietAnswers
<1> QED
  BY <1>4, <1>5, <1>6, <1>7 DEF GatewayInv

\* The handler finds the connection the buffer names, or posts the receive again.
LEMMA ReceivePreserves == ASSUME GatewayInv, HandleReceive PROVE GatewayInv'
<1> USE DEF acceptVars, timerVars
<1>1. UNCHANGED <<acceptor, accept, order, connections, conn, data, packets, timer, expiry,
                  tick>>
  BY DEF HandleReceive
<1>2. answering = 0 /\ done # <<>> /\ done' = Tail(done)
  BY DEF HandleReceive, Idle
<1>3. done \in Seq({"packet", "failed"}) /\ order \in Nat /\ posted \in Nat
  BY Numbers DEF GatewayInv, TypeOK
<1>4. /\ done' \in Seq({"packet", "failed"}) /\ Len(done') = Len(done) - 1 /\ Len(done) \in Nat
      /\ \A i \in DOMAIN done' : i + 1 \in DOMAIN done /\ i + 1 # 1 /\ done'[i] = done[i + 1]
      /\ Head(done) = done[1]
  BY <1>2, <1>3
<1>5. \/ posted' = posted + 1 /\ answering' = 0
      \/ /\ posted' = posted /\ answering' = data.seq /\ data.seq \in connections
         /\ done[1] = "packet"
  BY <1>2, <1>4 DEF HandleReceive, DropPacket, FindConn
<1>6. answering' \in 0 .. order /\ (answering' # 0 => posted' = posted)
      /\ (answering' = 0 => posted' = posted + 1)
  <2>1. ASSUME NEW n \in connections PROVE n \in 0 .. order /\ n # 0
    <3>1. n \in 1 .. order
      BY DEF GatewayInv, TypeOK
    <3> QED
      BY <1>3, <3>1
  <2> QED
    BY <1>3, <1>5, <2>1
<1>7. TypeOK'
  <2>1. posted' \in Nat
    BY <1>3, <1>5
  <2> QED
    BY <1>1, <1>4, <1>6, <2>1 DEF GatewayInv, TypeOK
<1>8. ManagedIsOpen' /\ SeqKept' /\ RightAnswer'
  BY <1>1 DEF GatewayInv, ManagedIsOpen, SeqKept, RightAnswer
<1>9. ReceivesKept'
  BY <1>1, <1>2, <1>3, <1>4, <1>6 DEF GatewayInv, ReceivesKept
<1>10. BufferHolds'
  <2> SUFFICES ASSUME data.alone PROVE BufferHolds'
    BY <1>1 DEF BufferHolds
  <2>1. \A i, j \in DOMAIN done' : done'[i] = "packet" /\ done'[j] = "packet" => i = j
    <3> SUFFICES ASSUME NEW i \in DOMAIN done', NEW j \in DOMAIN done',
                        done'[i] = "packet", done'[j] = "packet"
                 PROVE  i = j
      OBVIOUS
    <3>1. i + 1 = j + 1
      BY <1>4 DEF GatewayInv, BufferHolds
    <3>2. i \in Int /\ j \in Int
      BY <1>4
    <3> QED
      BY <3>1, <3>2
  <2>2. \A c : DataIntact(c) => DataIntact(c)'
    BY <1>1 DEF DataIntact, Asked
  <2>3. CASE answering' = 0
    <3>1. ASSUME NEW i \in DOMAIN done', done'[i] = "packet"
          PROVE  \E c \in 1 .. order : DataIntact(c)
      BY <1>4, <3>1 DEF GatewayInv, BufferHolds
    <3> QED
      BY <1>1, <2>1, <2>2, <2>3, <3>1 DEF BufferHolds
  <2>4. CASE answering' = data.seq /\ done[1] = "packet"
    <3>1. 1 \in DOMAIN done
      BY <1>2, <1>3
    <3>2. \E c \in 1 .. order : DataIntact(c)
      BY <2>4, <3>1 DEF GatewayInv, BufferHolds
    <3>3. DataIntact(answering')
      BY <2>4, <3>2 DEF DataIntact
    <3>4. \A i \in DOMAIN done' : done'[i] # "packet"
      <4> SUFFICES ASSUME NEW i \in DOMAIN done', done'[i] = "packet" PROVE FALSE
        OBVIOUS
      <4>1. i + 1 \in DOMAIN done /\ done[i + 1] = "packet" /\ i + 1 # 1
        BY <1>4
      <4> QED
        BY <2>4, <3>1, <4>1 DEF GatewayInv, BufferHolds
    <3>5. DataIntact(answering)'
      BY <1>1, <3>3 DEF DataIntact, Asked
    <3> QED
      BY <3>4, <3>5 DEF BufferHolds
  <2> QED
    BY <1>5, <2>3, <2>4
<1> QED
  BY <1>7, <1>8, <1>9, <1>10 DEF GatewayInv

\* The client is answered with the packet of the buffer, under its own sequence id.
LEMMA AnswerPreserves == ASSUME GatewayInv, Answer PROVE GatewayInv'
<1> USE DEF acceptVars, timerVars
<1> DEFINE c == answering
           k == conn[c]
           q == [k EXCEPT !.body = data']
           r == [q EXCEPT !.writes = q.writes + 1]
<1>1. UNCHANGED <<acceptor, accept, order, connections, done, packets, timer, expiry, tick>>
  BY DEF Answer
<1>2. c # 0 /\ answering' = 0 /\ posted' = posted + 1
  BY DEF Answer, Idle
<1>3. c \in DOMAIN conn /\ order \in Nat /\ DOMAIN conn = 1 .. order
  BY <1>2, Numbers DEF GatewayInv, TypeOK
<1>4. k \in Conn
  BY <1>3, ConnType DEF GatewayInv
<1>5. data \in Packet /\ data' = [data EXCEPT !.seq = k.old_sequence_id]
  BY DEF Answer, GatewayInv, TypeOK
<1>6. /\ data' \in Packet /\ data'.seq = k.old_sequence_id /\ data'.from = data.from
      /\ data'.alone = data.alone
  <2>1. k.old_sequence_id \in Nat
    BY <1>4 DEF Conn
  <2> HIDE DEF k
  <2> QED
    BY <1>5, <2>1 DEF Packet
<1>7. /\ q \in Conn /\ q.body = data' /\ q.seq = k.seq /\ q.asked = k.asked
      /\ q.old_sequence_id = k.old_sequence_id /\ q.open = k.open /\ q.writes = k.writes
  <2> HIDE DEF k
  <2> QED
    BY <1>4, <1>6 DEF Conn
<1>8. Set(c, r)
  <2>1. [k EXCEPT !.body = data', !.writes = @ + 1] = r
    <3> HIDE DEF k
    <3> QED
      BY <1>4 DEF Conn
  <2> QED
    BY <2>1 DEF Answer
<1> HIDE DEF q
<1>9. r \in Conn /\ Same(q, r) /\ r.open = q.open
  <2>1. q.writes + 1 \in Nat
    BY <1>7, SetField
  <2> QED
    BY <1>7, <2>1, SetField
<1> HIDE DEF r, k
<1>10. /\ conn' \in Seq(Conn) /\ Len(conn') = Len(conn) /\ DOMAIN conn' = DOMAIN conn
       /\ conn'[c] = r
       /\ \A d \in DOMAIN conn : d # c => conn'[d] = conn[d]
  BY <1>3, <1>8, <1>9, SetConn DEF GatewayInv
<1>11. /\ r.body = data' /\ r.seq = k.seq /\ r.asked = k.asked
       /\ r.old_sequence_id = k.old_sequence_id /\ r.open = k.open
  BY <1>7, <1>9 DEF Same
<1>12. k = conn[c]
  BY DEF k
<1>13. TypeOK'
  <2>1. posted' \in Nat /\ answering' \in 0 .. order
    BY <1>2, <1>3 DEF GatewayInv, TypeOK
  <2> QED
    BY <1>1, <1>6, <1>10, <2>1 DEF GatewayInv, TypeOK
<1>14. ManagedIsOpen'
  BY <1>1, <1>10, <1>11, <1>12 DEF GatewayInv, ManagedIsOpen
<1>15. ReceivesKept'
  BY <1>1, <1>2 DEF GatewayInv, TypeOK, ReceivesKept
<1>16. SeqKept'
  BY <1>10, <1>11, <1>12 DEF GatewayInv, SeqKept
<1>17. data'.alone => data'.seq = k.seq /\ data'.from = c
  <2> SUFFICES ASSUME data.alone PROVE k.old_sequence_id = k.seq /\ data.from = c
    BY <1>6
  <2>1. data.from = c /\ k.asked >= 0
    BY <1>2, <1>12 DEF GatewayInv, BufferHolds, DataIntact, Asked
  <2>2. k.old_sequence_id = k.seq
    BY <1>3, <1>12, <2>1 DEF GatewayInv, SeqKept
  <2> QED
    BY <2>1, <2>2
<1>18. RightAnswer'
  BY <1>1, <1>10, <1>11, <1>12, <1>17 DEF GatewayInv, RightAnswer
<1>19. BufferHolds'
  <2>1. data.alone => \A i \in DOMAIN done : done[i] # "packet"
    BY <1>2 DEF GatewayInv, BufferHolds
  <2> QED
    BY <1>1, <1>2, <1>6, <2>1 DEF BufferHolds
<1> QED
  BY <1>13, <1>14, <1>15, <1>16, <1>18, <1>19 DEF GatewayInv

-----------------------------------------------------------------------------
(***************************************************************************)
(* The theorems                                                            *)
(***************************************************************************)

\* Every step preserves the invariant.
LEMMA StepGateway == GatewayInv /\ [Next]_vars => GatewayInv'
<1> SUFFICES ASSUME GatewayInv, [Next]_vars PROVE GatewayInv'
  OBVIOUS
<1> USE DEF acceptVars, udpVars, timerVars
<1>1. CASE UNCHANGED vars
  <2>1. TypeOK'
    BY <1>1 DEF vars, GatewayInv, TypeOK
  <2> QED
    BY <1>1, <2>1, AsidePreserves DEF vars
<1>2. CASE AcceptFailed
  <2>1. TypeOK'
    BY <1>2 DEF AcceptFailed, GatewayInv, TypeOK
  <2> QED
    BY <1>2, <2>1, AsidePreserves DEF AcceptFailed
<1>3. CASE ElapsedAborted
  <2>1. TypeOK'
    BY <1>3 DEF ElapsedAborted, GatewayInv, TypeOK
  <2> QED
    BY <1>3, <2>1, AsidePreserves DEF ElapsedAborted
<1>4. CASE ClockTick
  <2>1. TypeOK'
    BY <1>4 DEF ClockTick, GatewayInv, TypeOK
  <2> QED
    BY <1>4, <2>1, AsidePreserves DEF ClockTick
<1>5. ASSUME NEW c \in DOMAIN conn, HandleRead(c) \/ HandleWrite(c) PROVE GatewayInv'
  <2>1. \E r \in Conn : Touched(c, r)
    BY <1>5, ReadTouches, WriteTouches
  <2>2. UNCHANGED <<acceptVars, order, udpVars, timerVars, tick>>
    BY <1>5 DEF HandleRead, HandleWrite
  <2> QED
    BY <2>1, <2>2, TouchPreserves
<1>6. CASE HandleElapsed
  BY <1>6, ElapsedPreserves
<1>7. CASE HandleReceive
  BY <1>7, ReceivePreserves
<1>8. CASE Answer
  BY <1>8, AnswerPreserves
<1>9. CASE HandleAccept
  BY <1>9, AcceptPreserves
<1>10. CASE HandleStop
  BY <1>10, StopPreserves
<1>11. CASE \E c \in DOMAIN conn : Arrive(c)
  BY <1>11, ArrivePreserves
<1>12. CASE ReceiveFails
  BY <1>12, FailPreserves
<1>13. CASE ArriveShort
  BY <1>13, ShortPreserves
<1> QED
  BY <1>1, <1>2, <1>3, <1>4, <1>5, <1>6, <1>7, <1>8, <1>9, <1>10, <1>11, <1>12, <1>13
  DEF Next, IoStep

\* The inductive invariant holds of every run of the gateway.
THEOREM GatewayInvariant == Spec => []GatewayInv
BY InitGateway, StepGateway, PTL DEF Spec

\* All variables have their types (the handlers of xdllhttpserver).
THEOREM GatewayTypes == Spec => []TypeOK
<1>1. GatewayInv => TypeOK
  BY DEF GatewayInv
<1> QED
  BY <1>1, GatewayInvariant, PTL

\* The manager holds exactly the open connections (connection_manager).
THEOREM NothingLeaks == Spec => []ManagedIsOpen
<1>1. GatewayInv => ManagedIsOpen
  BY DEF GatewayInv
<1> QED
  BY <1>1, GatewayInvariant, PTL

\* No receive of the UDP socket is ever lost (handle_receive_from).
THEOREM NeverDeaf == Spec => []ReceivesKept
<1>1. GatewayInv => ReceivesKept
  BY DEF GatewayInv
<1> QED
  BY <1>1, GatewayInvariant, PTL

\* The client that gets a packet which met no other in the shared buffer, short ones
\* included, gets the answer to its own request under its own sequence id, also after
\* others have met there (handle_receive_from, do_request).
THEOREM RightClient == Spec => []RightAnswer
<1>1. GatewayInv => RightAnswer
  BY DEF GatewayInv
<1> QED
  BY <1>1, GatewayInvariant, PTL

-----------------------------------------------------------------------------
(***************************************************************************)
(* The clearing of connections                                             *)
(***************************************************************************)

\* What the timer sees by tick t of a connection whose request was sent at tick k.asked,
\* or not yet.
Timed(k, t) ==
  /\ k.start <= t /\ k.asked <= t
  /\ \/ k.asked < 0 /\ k.send_udp_tick = 0
     \/ k.asked >= 0 /\ k.send_udp_tick = k.asked % TickWidth

\* Connection k began or asked at tick l or later, or was not too old at tick l.
PassedAt(k, l) ==
  \/ l <= k.start \/ l <= k.asked
  \/ l % TickWidth <= (k.send_udp_tick + Clear) % TickWidth

\* While the timer runs, l being when it looked last: all connections have passed then,
\* and it looks again soon.
LookedAt(l) ==
  /\ l <= tick /\ expiry <= l + FirstElapse
  /\ \A c \in connections : PassedAt(conn[c], l)

ClockInv ==
  /\ \A c \in DOMAIN conn : Timed(conn[c], tick)
  /\ timer = "on" => tick <= expiry + MaxLag /\ \E l \in Nat : LookedAt(l)

\* What a step does to the times of a connection: nothing, or its request is sent.
SameTimes(k, r) ==
  r.start = k.start /\ r.asked = k.asked /\ r.send_udp_tick = k.send_udp_tick

SentNow(k, r) ==
  r.start = k.start /\ r.asked = tick /\ r.send_udp_tick = tick % TickWidth

\* Fields that are not times.
LEMMA KeepTimes ==
  ASSUME NEW k \in Conn
  PROVE  /\ SameTimes(k, k)
         /\ \A v : /\ SameTimes(k, [k EXCEPT !.open = v]) /\ SameTimes(k, [k EXCEPT !.reading = v])
                   /\ SameTimes(k, [k EXCEPT !.writes = v])
                   /\ SameTimes(k, [k EXCEPT !.reading = FALSE, !.open = v])
                   /\ SameTimes(k, [k EXCEPT !.reading = FALSE, !.writes = v])
                   /\ SameTimes(k, [k EXCEPT !.writes = v, !.open = FALSE])
         /\ \A v, w : SameTimes(k, [k EXCEPT !.body = v, !.writes = w])
         /\ \A v : SameTimes(k, Refused(k, v))
BY DEF Conn, SameTimes, Refused

\* The connections after a step: the times of those before, and new ones.
TimesGo ==
  /\ \A c \in DOMAIN conn :
       c \in DOMAIN conn' /\ (SameTimes(conn[c], conn'[c]) \/ SentNow(conn[c], conn'[c]))
  /\ \A c \in DOMAIN conn' \ DOMAIN conn :
       conn'[c].start = tick /\ conn'[c].asked = -1 /\ conn'[c].send_udp_tick = 0
  /\ connections' \subseteq connections \cup (DOMAIN conn' \ DOMAIN conn)

\* One connection set to a record with proper times.
LEMMA SetTimes ==
  ASSUME TypeOK, NEW c \in DOMAIN conn, NEW r \in Conn, Set(c, r),
         SameTimes(conn[c], r) \/ SentNow(conn[c], r), connections' \subseteq connections
  PROVE  TimesGo
<1>1. /\ DOMAIN conn' = DOMAIN conn /\ conn'[c] = r
      /\ \A d \in DOMAIN conn : d # c => conn'[d] = conn[d]
  BY SetConn
<1> QED
  BY <1>1 DEF TimesGo, SameTimes

\* Steps that leave the connections alone.
LEMMA QuietTimes == ASSUME UNCHANGED <<conn, connections>> PROVE TimesGo
BY DEF TimesGo, SameTimes

\* Every step of the gateway does no more than that to the times.
LEMMA StepTimes == ASSUME GatewayInv, GatewayInv', [Next]_vars PROVE TimesGo
<1> USE DEF acceptVars, udpVars, timerVars
<1>t. TypeOK /\ conn \in Seq(Conn) /\ conn' \in Seq(Conn)
  BY DEF GatewayInv, TypeOK
<1>k. \A c \in DOMAIN conn : conn[c] \in Conn
  BY <1>t
<1>n. \A c \in DOMAIN conn' : conn'[c] \in Conn
  BY <1>t
<1>s. \A c \in DOMAIN conn : \A r : Set(c, r) =>
        DOMAIN conn' = DOMAIN conn /\ conn'[c] = r /\ \A d \in DOMAIN conn : d # c => conn'[d] = conn[d]
  BY <1>t DEF Set
<1>1. CASE UNCHANGED <<conn, connections>>
  BY <1>1, QuietTimes
<1>2. ASSUME NEW c \in DOMAIN conn, NEW r, Set(c, r), connections' \subseteq connections,
             SameTimes(conn[c], r) \/ SentNow(conn[c], r)
      PROVE  TimesGo
  <2>1. r \in Conn
    BY <1>n, <1>s, <1>2
  <2> QED
    BY <1>t, <1>2, <2>1, SetTimes
<1>3. ASSUME NEW c \in DOMAIN conn, HandleRead(c) PROVE TimesGo
  <2>1. conn[c] \in Conn
    BY <1>k, <1>3
  <2>2. CASE DoRequest(c) /\ UNCHANGED connections
    <3> DEFINE r == Requested(conn[c], GetTickCount, tick)
    <3>1. r.start = conn[c].start /\ r.asked = tick /\ r.send_udp_tick = GetTickCount
      BY <2>1 DEF Requested, Conn
    <3>2. Set(c, r)
      BY <2>2 DEF DoRequest, Requested
    <3>3. SentNow(conn[c], r)
      BY <3>1 DEF SentNow, GetTickCount
    <3> HIDE DEF r
    <3> QED
      BY <1>2, <2>2, <3>2, <3>3
  <2>3. ASSUME NEW b \in {conn[c].body, NoPacket},
               Set(c, Refused(conn[c], b)), UNCHANGED connections
        PROVE  TimesGo
    <3> DEFINE r == Refused(conn[c], b)
    <3>1. SameTimes(conn[c], r)
      BY <2>1, KeepTimes
    <3>2. Set(c, r)
      BY <2>3
    <3> HIDE DEF r
    <3> QED
      BY <1>2, <2>3, <3>1, <3>2
  <2>4. CASE UNCHANGED conn /\ UNCHANGED connections
    BY <2>4, QuietTimes
  <2>5. CASE ReadFailed(c)
    <3> DEFINE r == [conn[c] EXCEPT !.reading = FALSE, !.open = FALSE]
    <3>1. SameTimes(conn[c], r)
      BY <2>1, KeepTimes
    <3>2. Set(c, r) /\ connections' \subseteq connections
      BY <2>1, <2>5 DEF ReadFailed, StopConn, Conn
    <3> HIDE DEF r
    <3> QED
      BY <1>2, <3>1, <3>2
  <2>6. CASE ReadAborted(c)
    <3> DEFINE r == [conn[c] EXCEPT !.reading = FALSE]
    <3>1. SameTimes(conn[c], r)
      BY <2>1, KeepTimes
    <3>2. Set(c, r) /\ UNCHANGED connections
      BY <2>6 DEF ReadAborted
    <3> HIDE DEF r
    <3> QED
      BY <1>2, <3>1, <3>2
  <2> QED
    BY <1>3, <2>2, <2>3, <2>4, <2>5, <2>6 DEF HandleRead, ReadData, Refused
<1>4. ASSUME NEW c \in DOMAIN conn, HandleWrite(c) PROVE TimesGo
  <2>1. conn[c] \in Conn
    BY <1>k, <1>4
  <2>2. CASE WriteDone(c)
    <3> DEFINE r == [conn[c] EXCEPT !.writes = conn[c].writes - 1, !.open = FALSE]
    <3>1. SameTimes(conn[c], r)
      BY <2>1, KeepTimes
    <3>2. Set(c, r) /\ connections' \subseteq connections
      BY <2>1, <2>2 DEF WriteDone, StopConn, Conn
    <3> HIDE DEF r
    <3> QED
      BY <1>2, <3>1, <3>2
  <2>3. CASE WriteAborted(c)
    <3> DEFINE r == [conn[c] EXCEPT !.writes = conn[c].writes - 1]
    <3>1. SameTimes(conn[c], r)
      BY <2>1, KeepTimes
    <3>2. Set(c, r) /\ UNCHANGED connections
      BY <2>3 DEF WriteAborted
    <3> HIDE DEF r
    <3> QED
      BY <1>2, <3>1, <3>2
  <2> QED
    BY <1>4, <2>2, <2>3 DEF HandleWrite
<1>5. CASE HandleElapsed
  <2> DEFINE out == {c \in connections : TimedOut(c)}
  <2>1. /\ connections' = connections \ out
        /\ conn' = [c \in DOMAIN conn |->
                      IF c \in out THEN [conn[c] EXCEPT !.open = FALSE] ELSE conn[c]]
    BY <1>5 DEF HandleElapsed
  <2> HIDE DEF out
  <2>2. \A c \in DOMAIN conn : SameTimes(conn[c], conn'[c])
    BY <1>k, <2>1, KeepTimes
  <2> QED
    BY <2>1, <2>2 DEF TimesGo
<1>6. CASE HandleStop
  <2>1. /\ connections' = {}
        /\ conn' = [c \in DOMAIN conn |->
                      IF c \in connections THEN [conn[c] EXCEPT !.open = FALSE] ELSE conn[c]]
    BY <1>6 DEF HandleStop
  <2>2. \A c \in DOMAIN conn : SameTimes(conn[c], conn'[c])
    BY <1>k, <2>1, KeepTimes
  <2> QED
    BY <2>1, <2>2 DEF TimesGo
<1>7. CASE Answer
  <2>1. answering \in DOMAIN conn
    BY <1>7, Numbers DEF Answer, Idle, GatewayInv, TypeOK
  <2> DEFINE r == [conn[answering] EXCEPT !.body = data', !.writes = conn[answering].writes + 1]
  <2>2. conn[answering] \in Conn
    BY <1>k, <2>1
  <2>3. SameTimes(conn[answering], r)
    BY <2>2, KeepTimes
  <2>4. Set(answering, r) /\ UNCHANGED connections
    BY <1>7, <2>2 DEF Answer, Conn
  <2> HIDE DEF r
  <2> QED
    BY <1>2, <2>1, <2>3, <2>4
<1>8. CASE HandleAccept
  <2>1. PICK q \in Seqs : conn' = Append(conn, NewConn(q))
    BY <1>8 DEF HandleAccept
  <2>2. /\ DOMAIN conn = 1 .. order /\ DOMAIN conn' = 1 .. order + 1 /\ order \in Nat
        /\ conn'[order + 1] = NewConn(q) /\ \A c \in DOMAIN conn : conn'[c] = conn[c]
    <3> DEFINE k == NewConn(q)
    <3>1. k \in Conn
      BY GatewayAssumption DEF NewConn, Conn, GatewayInv, TypeOK, Packet, NoPacket
    <3>2. conn' = Append(conn, k)
      BY <2>1
    <3> HIDE DEF k
    <3>3. DOMAIN conn = 1 .. order /\ order \in Nat /\ Len(conn) = order
      BY Numbers DEF GatewayInv, TypeOK
    <3> USE DEF k
    <3> HIDE DEF NewConn, Conn
    <3> QED
      BY <1>t, <3>1, <3>2, <3>3
  <2>3. connections' = connections \cup {order + 1}
    BY <1>8 DEF HandleAccept
  <2> QED
    BY <2>2, <2>3 DEF TimesGo, SameTimes, NewConn
<1> QED
  BY <1>1, <1>3, <1>4, <1>5, <1>6, <1>7, <1>8
  DEF Next, IoStep, AcceptFailed, HandleReceive, ElapsedAborted, Arrive, ArriveShort, ReceiveFails, Complete, ClockTick, vars

\* The invariant about times holds at the start: the timer looks for the first time.
LEMMA InitClock == Init => ClockInv
<1> SUFFICES ASSUME Init PROVE ClockInv
  OBVIOUS
<1>1. tick \in Nat /\ connections = {} /\ DOMAIN conn = {} /\ expiry = tick + FirstElapse
  BY GatewayAssumption DEF Init
<1>2. LookedAt(tick)
  BY <1>1, GatewayAssumption DEF LookedAt
<1>3. tick <= expiry + MaxLag
  BY <1>1, GatewayAssumption
<1> QED
  BY <1>1, <1>2, <1>3 DEF ClockInv

\* The times of a connection.
LEMMA TimesTypes ==
  ASSUME NEW k \in Conn
  PROVE  k.start \in Nat /\ k.asked \in Int /\ k.send_udp_tick \in Nat
BY DEF Conn

\* Every step preserves it.
LEMMA StepClock ==
  ASSUME GatewayInv, GatewayInv', ClockInv, [Next]_vars PROVE ClockInv'
<1> USE DEF acceptVars, udpVars, timerVars
<1>1. TimesGo
  BY StepTimes
<1>2. /\ tick \in Nat /\ tick' \in Nat /\ expiry \in Nat /\ expiry' \in Nat
      /\ connections \subseteq DOMAIN conn /\ connections' \subseteq DOMAIN conn'
      /\ \A c \in DOMAIN conn : conn[c] \in Conn
      /\ \A c \in DOMAIN conn' : conn'[c] \in Conn
  BY DEF GatewayInv, TypeOK
<1>3. /\ tick' = tick \/ tick' = tick + 1
      /\ timer' = "on" => timer = "on"
      /\ (timer' = "on" /\ tick' # tick) => tick < expiry + MaxLag
      /\ (expiry' = expiry) \/ HandleElapsed
  BY DEF Next, IoStep, AcceptFailed, HandleReceive, Answer, HandleElapsed, ElapsedAborted, HandleRead,
         HandleWrite, HandleAccept, HandleStop, Arrive, ArriveShort, ReceiveFails, Complete, ClockTick, vars
<1>4. \A c \in DOMAIN conn' : Timed(conn[c], tick) /\ c \in DOMAIN conn => Timed(conn'[c], tick')
  <2> SUFFICES ASSUME NEW c \in DOMAIN conn', Timed(conn[c], tick), c \in DOMAIN conn
               PROVE  Timed(conn'[c], tick')
    OBVIOUS
  <2>1. conn[c].start \in Nat /\ conn[c].asked \in Int
    BY <1>2, TimesTypes
  <2>2. CASE SameTimes(conn[c], conn'[c])
    BY <1>2, <1>3, <2>1, <2>2 DEF Timed, SameTimes
  <2>3. CASE SentNow(conn[c], conn'[c])
    BY <1>2, <1>3, <2>1, <2>3 DEF Timed, SentNow
  <2> QED
    BY <1>1, <2>2, <2>3 DEF TimesGo
<1>5. \A c \in DOMAIN conn' \ DOMAIN conn : Timed(conn'[c], tick')
  BY <1>1, <1>2, <1>3 DEF TimesGo, Timed
<1>6. \A c \in DOMAIN conn' : Timed(conn'[c], tick')
  BY <1>4, <1>5 DEF ClockInv
<1>7. ASSUME timer' = "on" PROVE tick' <= expiry' + MaxLag /\ \E l \in Nat : LookedAt(l)'
  <2>1. CASE HandleElapsed
    <3>1. tick' = tick /\ expiry' = tick + 1
      BY <2>1 DEF HandleElapsed
    <3>2. connections' = connections \ {c \in connections : TimedOut(c)}
      BY <2>1 DEF HandleElapsed
    <3>3. ASSUME NEW c \in connections' PROVE PassedAt(conn'[c], tick)
      <4>1. c \in DOMAIN conn /\ ~TimedOut(c)
        BY <1>2, <3>2, <3>3
      <4>2. conn[c].send_udp_tick \in Nat
        BY <1>2, <4>1, TimesTypes
      <4>3. tick % TickWidth <= (conn[c].send_udp_tick + Clear) % TickWidth
        <5> DEFINE a == conn[c].send_udp_tick + Clear
        <5>1. a \in Nat
          BY <4>2, GatewayAssumption
        <5>2. ~(a % TickWidth < tick % TickWidth)
          BY <4>1 DEF TimedOut, GetTickCount
        <5> HIDE DEF a
        <5>3. a % TickWidth \in Nat /\ tick % TickWidth \in Nat
          BY <1>2, <5>1, GatewayAssumption
        <5>4. tick % TickWidth <= a % TickWidth
          BY <5>2, <5>3
        <5> QED
          BY <5>4 DEF a
      <4>4. CASE SameTimes(conn[c], conn'[c])
        BY <4>3, <4>4 DEF SameTimes, PassedAt
      <4>5. CASE SentNow(conn[c], conn'[c])
        BY <1>2, <4>5 DEF SentNow, PassedAt
      <4> QED
        BY <1>1, <4>1, <4>4, <4>5 DEF TimesGo
    <3>4. tick <= tick' /\ expiry' <= tick + FirstElapse /\ tick' <= expiry' + MaxLag
      BY <1>2, <3>1, GatewayAssumption
    <3> QED
      BY <1>2, <3>3, <3>4 DEF LookedAt
  <2>2. CASE expiry' = expiry
    <3>1. tick <= expiry + MaxLag /\ \E l \in Nat : LookedAt(l)
      BY <1>3, <1>7 DEF ClockInv
    <3>2. PICK l \in Nat : LookedAt(l)
      BY <3>1
    <3>3. ASSUME NEW c \in connections' PROVE PassedAt(conn'[c], l)
      <4>1. l <= tick
        BY <3>2 DEF LookedAt
      <4>2. CASE c \in connections
        <5>1. PassedAt(conn[c], l) /\ c \in DOMAIN conn
          BY <1>2, <3>2, <4>2 DEF LookedAt
        <5>2. CASE SameTimes(conn[c], conn'[c])
          BY <5>1, <5>2 DEF SameTimes, PassedAt
        <5>3. CASE SentNow(conn[c], conn'[c])
          BY <4>1, <5>3 DEF SentNow, PassedAt
        <5> QED
          BY <1>1, <5>1, <5>2, <5>3 DEF TimesGo
      <4>3. CASE c \notin connections
        BY <1>1, <3>3, <4>1, <4>3 DEF TimesGo, PassedAt
      <4> QED
        BY <4>2, <4>3
    <3>4. l <= tick' /\ expiry' <= l + FirstElapse
      BY <1>2, <1>3, <2>2, <3>2 DEF LookedAt
    <3>5. tick' <= expiry' + MaxLag
      BY <1>2, <1>3, <1>7, <2>2, <3>1, GatewayAssumption
    <3> QED
      BY <3>3, <3>4, <3>5 DEF LookedAt
  <2> QED
    BY <1>3, <2>1, <2>2
<1> QED
  BY <1>6, <1>7 DEF ClockInv

\* The times of all connections are as the timer left them, in every run of the gateway.
THEOREM ClockInvariant == Spec => []ClockInv
BY InitClock, StepClock, GatewayInvariant, PTL DEF Spec

-----------------------------------------------------------------------------
(***************************************************************************)
(* Arithmetic modulo TickWidth                                             *)
(***************************************************************************)

\* Quotient and remainder.
LEMMA EpochParts ==
  ASSUME NEW n \in Nat
  PROVE  /\ TickWidth \in Nat /\ TickWidth >= 1 /\ Clear \in Nat /\ Clear < TickWidth
         /\ Epoch(n) \in Nat /\ n % TickWidth \in 0 .. TickWidth - 1
         /\ n = TickWidth * Epoch(n) + (n % TickWidth)
BY GatewayAssumption DEF Epoch

\* They are unique.
LEMMA EpochUnique ==
  ASSUME NEW n \in Nat, NEW q \in Nat, NEW r \in 0 .. TickWidth - 1, n = TickWidth * q + r
  PROVE  Epoch(n) = q /\ n % TickWidth = r
<1> DEFINE p == Epoch(n)
           m == n % TickWidth
<1>1. /\ TickWidth \in Nat /\ TickWidth >= 1 /\ p \in Nat /\ m \in 0 .. TickWidth - 1
      /\ n = TickWidth * p + m
  BY EpochParts
<1> HIDE DEF p, m
<1>2. ASSUME p >= q + 1 PROVE FALSE
  <2>1. TickWidth * p >= TickWidth * (q + 1) /\ TickWidth * (q + 1) = TickWidth * q + TickWidth
    BY <1>1, <1>2
  <2> QED
    BY <1>1, <2>1
<1>3. ASSUME q >= p + 1 PROVE FALSE
  <2>1. TickWidth * q >= TickWidth * (p + 1) /\ TickWidth * (p + 1) = TickWidth * p + TickWidth
    BY <1>1, <1>3
  <2> QED
    BY <1>1, <2>1
<1>4. p = q
  BY <1>1, <1>2, <1>3
<1>5. m = r
  BY <1>1, <1>4
<1> QED
  BY <1>4, <1>5 DEF p, m

\* Earlier times are not in later epochs.
LEMMA EpochOrder ==
  ASSUME NEW a \in Nat, NEW b \in Nat, Epoch(a) < Epoch(b)
  PROVE  a < b
<1> DEFINE p == Epoch(a)
           q == Epoch(b)
           m == a % TickWidth
           n == b % TickWidth
<1>1. /\ TickWidth \in Nat /\ TickWidth >= 1 /\ p \in Nat /\ m \in 0 .. TickWidth - 1
      /\ a = TickWidth * p + m
      /\ q \in Nat /\ n \in 0 .. TickWidth - 1 /\ b = TickWidth * q + n
  BY EpochParts
<1>2. p + 1 <= q
  BY <1>1
<1> HIDE DEF p, q, m, n
<1>3. TickWidth * (p + 1) <= TickWidth * q /\ TickWidth * (p + 1) = TickWidth * p + TickWidth
  BY <1>1, <1>2
<1> QED
  BY <1>1, <1>3

\* Within an epoch times are ordered as their tick counts.
LEMMA EpochSame ==
  ASSUME NEW a \in Nat, NEW b \in Nat, Epoch(a) = Epoch(b)
  PROVE  /\ a % TickWidth <= b % TickWidth <=> a <= b
         /\ a % TickWidth < b % TickWidth <=> a < b
<1> DEFINE p == Epoch(a)
           m == a % TickWidth
           n == b % TickWidth
           w == TickWidth * p
<1>1. /\ TickWidth \in Nat /\ p \in Nat /\ m \in Nat /\ n \in Nat /\ w \in Nat
      /\ a = w + m /\ b = w + n
  <2>1. TickWidth \in Nat /\ p \in Nat /\ m \in Nat /\ a = w + m
    BY EpochParts
  <2>2. n \in Nat /\ b = w + n
    BY EpochParts
  <2>3. w \in Nat
    <3> HIDE DEF p
    <3> QED
      BY <2>1
  <2> QED
    BY <2>1, <2>2, <2>3
<1> HIDE DEF p, m, n, w
<1>2. (m <= n <=> a <= b) /\ (m < n <=> a < b)
  BY <1>1
<1> QED
  BY <1>2 DEF m, n

\* The tick count of a request plus the time it has is the tick count of the deadline.
LEMMA DeadlineCount ==
  ASSUME NEW a \in Nat
  PROVE  ((a % TickWidth) + Clear) % TickWidth = (a + Clear) % TickWidth
<1> DEFINE p == Epoch(a)
           m == a % TickWidth
           x == m + Clear
           q == Epoch(x)
           r == x % TickWidth
<1>1. /\ TickWidth \in Nat /\ TickWidth >= 1 /\ p \in Nat /\ m \in Nat /\ a = TickWidth * p + m
      /\ Clear \in Nat
  BY EpochParts
<1> HIDE DEF p, m
<1>2. x \in Nat
  BY <1>1
<1> HIDE DEF x
<1>3. q \in Nat /\ r \in 0 .. TickWidth - 1 /\ x = TickWidth * q + r
  BY <1>2, EpochParts
<1> HIDE DEF q, r
<1>4. a + Clear = TickWidth * p + (TickWidth * q + r)
  BY <1>1, <1>3 DEF x
<1>5. TickWidth * (p + q) = TickWidth * p + TickWidth * q
  BY <1>1, <1>3
<1>6. TickWidth * p \in Int /\ TickWidth * q \in Int /\ r \in Int
  BY <1>1, <1>3
<1>7. a + Clear = TickWidth * (p + q) + r
  BY <1>4, <1>5, <1>6
<1>8. a + Clear \in Nat /\ p + q \in Nat
  BY <1>1, <1>3
<1>9. (a + Clear) % TickWidth = r
  BY <1>3, <1>7, <1>8, EpochUnique
<1> QED
  BY <1>9 DEF r, x, m

-----------------------------------------------------------------------------
(***************************************************************************)
(* When connections are cleared                                            *)
(***************************************************************************)

\* A connection that was not too old when the timer looked was not past its deadline,
\* if that is in the epoch of now.
LEMMA PassedInTime ==
  ASSUME TypeOK, NEW c \in DOMAIN conn, Timed(conn[c], tick), NEW l \in Nat, l <= tick,
         PassedAt(conn[c], l), Epoch(Deadline(c)) = Epoch(tick)
  PROVE  l <= conn[c].start \/ l <= Deadline(c)
<1>1. /\ conn[c].start \in Nat /\ conn[c].asked \in Int /\ conn[c].send_udp_tick \in Nat
      /\ tick \in Nat
  BY TimesTypes DEF TypeOK
<1>2. Epoch(tick) \in Nat /\ TickWidth \in Nat /\ TickWidth >= 1 /\ Clear \in Nat /\ Clear < TickWidth
  BY <1>1, EpochParts
<1>3. Deadline(c) \in Nat
  BY <1>1, <1>2 DEF Deadline
<1>4. CASE l <= conn[c].asked
  BY <1>1, <1>2, <1>4 DEF Deadline
<1>5. CASE l % TickWidth <= (conn[c].send_udp_tick + Clear) % TickWidth
  <2>1. (conn[c].send_udp_tick + Clear) % TickWidth = Deadline(c) % TickWidth
    <3>1. CASE conn[c].asked < 0
      <4> DEFINE e == Epoch(tick)
      <4>1. Clear % TickWidth = Clear
        <5>1. TickWidth * 0 = 0
          BY <1>2
        <5>2. Clear = TickWidth * 0 + Clear /\ Clear \in 0 .. TickWidth - 1
          BY <1>2, <5>1
        <5> QED
          BY <1>2, <5>2, EpochUnique
      <4>2. conn[c].send_udp_tick + Clear = Clear
        BY <1>2, <3>1, <1>1 DEF Timed
      <4> HIDE DEF e
      <4>3. Deadline(c) = Clear + TickWidth * e
        BY <3>1 DEF Deadline, e
      <4>4. e \in Nat
        BY <1>2 DEF e
      <4>5. TickWidth * e \in Nat
        BY <1>2, <4>4
      <4>6. Deadline(c) = TickWidth * e + Clear /\ Clear \in 0 .. TickWidth - 1
        BY <1>2, <4>3, <4>5
      <4>7. Deadline(c) % TickWidth = Clear
        BY <1>3, <4>4, <4>6, EpochUnique
      <4> QED
        BY <4>1, <4>2, <4>7
    <3>2. CASE conn[c].asked >= 0
      <4>1. conn[c].send_udp_tick = conn[c].asked % TickWidth /\ conn[c].asked \in Nat
        BY <1>1, <3>2 DEF Timed
      <4>2. Deadline(c) = conn[c].asked + Clear
        BY <1>1, <1>2, <3>2 DEF Deadline
      <4> QED
        BY <4>1, <4>2, DeadlineCount
    <3> QED
      BY <1>1, <3>1, <3>2
  <2>2. Epoch(l) \in Nat /\ ~(Epoch(tick) < Epoch(l))
    BY <1>1, EpochParts, EpochOrder
  <2>3. CASE Epoch(l) = Epoch(tick)
    BY <1>3, <1>5, <2>1, <2>3, EpochSame
  <2>4. CASE Epoch(l) < Epoch(tick)
    BY <1>3, <2>4, EpochOrder
  <2> QED
    BY <1>2, <2>2, <2>3, <2>4
<1> QED
  BY <1>4, <1>5 DEF PassedAt

\* While the timer runs no connection stays longer than its time and one period of the
\* timer, unless GetTickCount wraps between its deadline and now (handle_elapsed).
THEOREM SilenceEnds == Spec => []ClearedInTime
<1>1. GatewayInv /\ ClockInv => ClearedInTime
  <2> SUFFICES ASSUME GatewayInv, ClockInv, timer = "on", NEW c \in connections,
                      Epoch(Deadline(c)) = Epoch(tick)
               PROVE  \/ tick <= Deadline(c) + FirstElapse + MaxLag
                      \/ tick <= conn[c].start + FirstElapse + MaxLag
    BY DEF ClearedInTime
  <2>1. PICK l \in Nat : LookedAt(l)
    BY DEF ClockInv
  <2>2. TypeOK /\ c \in DOMAIN conn /\ conn[c] \in Conn /\ tick \in Nat /\ expiry \in Nat
    BY DEF GatewayInv, TypeOK
  <2>3. Timed(conn[c], tick) /\ PassedAt(conn[c], l) /\ l <= tick
    BY <2>1, <2>2 DEF ClockInv, LookedAt
  <2>4. l <= conn[c].start \/ l <= Deadline(c)
    BY <2>2, <2>3, PassedInTime
  <2>5. tick <= l + FirstElapse + MaxLag
    BY <2>1, <2>2, GatewayAssumption DEF ClockInv, LookedAt
  <2>6. conn[c].start \in Nat /\ Deadline(c) \in Int /\ FirstElapse \in Nat /\ MaxLag \in Nat
    <3>1. Epoch(tick) \in Nat /\ Clear \in Nat /\ TickWidth \in Nat
      BY <2>2, EpochParts
    <3> QED
      BY <2>2, <3>1, TimesTypes, GatewayAssumption DEF Deadline
  <2> QED
    BY <2>2, <2>4, <2>5, <2>6
<1> QED
  BY <1>1, GatewayInvariant, ClockInvariant, PTL

\* A client that waits for an answer gets its time, unless GetTickCount wraps between
\* request and deadline (handle_elapsed).
THEOREM ClientsGetTheirTime == Spec => NotClearedEarly
<1> DEFINE Patient ==
      \A c \in connections \ connections' :
        (expiry' # expiry /\ conn[c].asked >= 0 /\ Epoch(conn[c].asked) = Epoch(Deadline(c)))
          => tick > Deadline(c)
<1>1. ASSUME GatewayInv, ClockInv, [Next]_vars PROVE [Patient]_vars
  <2> SUFFICES ASSUME NEW c \in connections, c \notin connections', expiry' # expiry,
                      conn[c].asked >= 0, Epoch(conn[c].asked) = Epoch(Deadline(c))
               PROVE  tick > Deadline(c)
    BY DEF Patient
  <2>1. HandleElapsed
    BY <1>1 DEF Next, IoStep, AcceptFailed, HandleReceive, Answer, ElapsedAborted, HandleRead,
       HandleWrite, HandleAccept, HandleStop, Arrive, ArriveShort, ReceiveFails, Complete, ClockTick, vars,
       acceptVars, udpVars, timerVars
  <2>2. TimedOut(c)
    BY <2>1 DEF HandleElapsed
  <2>3. TypeOK /\ c \in DOMAIN conn /\ conn[c] \in Conn /\ tick \in Nat
    BY <1>1 DEF GatewayInv, TypeOK
  <2>4. Timed(conn[c], tick)
    BY <1>1, <2>3 DEF ClockInv
  <2>5. /\ conn[c].asked \in Nat /\ conn[c].asked <= tick
        /\ conn[c].send_udp_tick = conn[c].asked % TickWidth
    BY <2>3, <2>4, TimesTypes DEF Timed
  <2>6. Deadline(c) = conn[c].asked + Clear /\ Deadline(c) \in Nat
    BY <2>5, GatewayAssumption DEF Deadline
  <2>7. Deadline(c) % TickWidth < tick % TickWidth
    BY <2>2, <2>5, <2>6, DeadlineCount DEF TimedOut, GetTickCount
  <2>8. ~(Epoch(tick) < Epoch(conn[c].asked)) /\ Epoch(tick) \in Nat /\ Epoch(conn[c].asked) \in Nat
    BY <2>3, <2>5, EpochOrder, EpochParts
  <2>9. CASE Epoch(Deadline(c)) = Epoch(tick)
    BY <2>3, <2>6, <2>7, <2>9, EpochSame
  <2>10. CASE Epoch(Deadline(c)) < Epoch(tick)
    <3>1. Deadline(c) < tick
      BY <2>3, <2>6, <2>10, EpochOrder
    <3> QED
      BY <2>3, <2>6, <3>1
  <2> QED
    BY <2>8, <2>9, <2>10
<1> QED
  BY <1>1, GatewayInvariant, ClockInvariant, PTL DEF Spec, NotClearedEarly
=============================================================================
