------------------------- MODULE PeerSocket_proofs -------------------------
(***************************************************************************)
(* Theorems about PeerSocket, for any packets, peers and numbers of sends  *)
(* and sockets.  SocketInv is inductive; its parts speak of the connection,*)
(* the sends that wait, what is on the wire, and the receives.             *)
(***************************************************************************)
EXTENDS PeerSocket, TLAPS

\* TypeOK but for its last conjunct.
Types ==
  /\ alive \in BOOLEAN /\ open \in BOOLEAN /\ sockets \in 0 .. MaxSockets
  /\ link \in {"none", "up", "broken"}
  /\ timer \in [armed : BOOLEAN, waiting : BOOLEAN, expired : Nat]
  /\ connect \in {"none"} \cup Result
  /\ posted \in Seq(1 .. MaxSends) /\ sendQueue \in Seq(1 .. MaxSends)
  /\ writes \subseteq Writing /\ wire \in Seq((1 .. MaxSends) \X {1, 2})
  /\ sends \in 0 .. MaxSends
  /\ receiving \in BOOLEAN /\ reads \subseteq Reading /\ stream \in Seq(Packet)
  /\ taken \in 0 .. 2 * Len(stream) /\ delivered \in Seq(Unit)
  /\ failed \in BOOLEAN /\ dialling \in BOOLEAN /\ first \in 0 .. sends

LinkInv ==
  /\ link # "none" => open
  /\ connect = "pending" => open /\ link = "none"
  /\ open => alive

\* How many packets have left the queue.
Before == sends - Len(posted) - Len(sendQueue)

\* Queue and posted sends hold the last packets sent, in their order.
QueueOrder ==
  /\ Before \in Nat
  /\ \A i \in DOMAIN posted : posted[i] = Before + Len(sendQueue) + i
  /\ \A i \in DOMAIN sendQueue : sendQueue[i] = Before + i

\* The write under way, if any, is that of the queue's head.
WriteInv ==
  /\ \A w \in writes : w.res = "pending" => link # "none"
  /\ open =>
       /\ \A v, w \in writes : v = w
       /\ \A w \in writes : sendQueue # <<>> /\ w.packet = Before + 1
       /\ sendQueue # <<>> => failed \/ writes # {}
       /\ first <= Before

WireOrder ==
  /\ \A i \in DOMAIN wire : i % 2 = 1 => wire[i][2] = 1 /\ \A j \in 1 .. i - 1 : wire[j][1] < wire[i][1]
  /\ \A i \in DOMAIN wire : i % 2 = 0 => wire[i] = <<wire[i - 1][1], 2>>
  /\ ~failed => \A i \in DOMAIN wire : wire[i][1] = first + (i + 1) \div 2

\* How far the write under way has come.
Progress(w) ==
  /\ w.res = "ok" => w.units = 2
  /\ w.res = "pending" => w.units < 2
  /\ w.res # "pending" /\ link = "up" => w.units # 1
  /\ w.units = 1 => Len(wire) > 0 /\ wire[Len(wire)] = <<w.packet, 1>>
  /\ link = "up" => Len(wire) % 2 = w.units % 2
  /\ ~failed => Len(wire) = 2 * (Before - first) + w.units

\* What is on the wire has left the queue, or is of the write under way.
OnWire ==
  /\ link = "none" => wire = <<>>
  /\ \A i \in DOMAIN wire :
       wire[i][1] <= Before \/ (wire[i][1] = Before + 1 /\ \E w \in writes : w.units > 0)
  /\ \A w \in writes : Progress(w)
  /\ writes = {} /\ link = "up" => Len(wire) % 2 = 0
  /\ writes = {} /\ ~failed => Len(wire) = 2 * (Before - first)

WireInv == open => OnWire

\* What the read under way has read, with n packets delivered.
ReadAt(r, n) ==
  /\ r.what = "length" /\ r.res = "pending" => taken = 2 * n
  /\ r.what = "length" /\ r.res = "ok" => taken = 2 * n + 1 /\ r.unit = <<stream[n + 1], 1>>
  /\ r.what = "data" => stream[n + 1] \notin TooBig
  /\ r.what = "data" /\ r.res = "pending" => taken = 2 * n + 1
  /\ r.what = "data" /\ r.res = "ok" => taken = 2 * n + 2 /\ r.unit = <<stream[n + 1], 2>>

ReadInv ==
  /\ ReceivedInOrder
  /\ \A r \in reads : r.res = "pending" => link # "none"
  /\ open =>
       /\ \A q, r \in reads : q = r
       /\ reads # {} => receiving
       /\ reads = {} => taken = 2 * Len(delivered)
       /\ \A r \in reads : ReadAt(r, Len(delivered))

SendInv == QueueOrder /\ WriteInv /\ WireOrder /\ WireInv
SocketInv == Types /\ LinkInv /\ SendInv /\ ReadInv

-----------------------------------------------------------------------------
(***************************************************************************)
(* Steps that leave a part alone, and the end of a socket                  *)
(***************************************************************************)

LEMMA SameSends ==
  ASSUME SendInv, UNCHANGED <<open, link, posted, sendQueue, writes, wire, sends, failed, first>>
  PROVE  SendInv'
BY DEF SendInv, QueueOrder, WriteInv, WireOrder, WireInv, OnWire, Before, Progress

LEMMA SameReads ==
  ASSUME ReadInv, UNCHANGED <<open, link, receiving, reads, stream, taken, delivered>>
  PROVE  ReadInv'
BY DEF ReadInv, ReceivedInOrder, ReadAt

LEMMA AbortedWrites ==
  ASSUME NEW ws \in SUBSET Writing
  PROVE  Aborted(ws) \subseteq Writing /\ \A w \in Aborted(ws) : w.res # "pending"
<1> SUFFICES ASSUME NEW w \in ws
             PROVE  /\ [w EXCEPT !.res = AbortedRes(@)] \in Writing
                    /\ [w EXCEPT !.res = AbortedRes(@)].res # "pending"
  BY DEF Aborted
<1>1. w \in Writing
  OBVIOUS
<1> QED BY <1>1 DEF Writing, AbortedRes, Result

LEMMA AbortedReads ==
  ASSUME NEW rs \in SUBSET Reading
  PROVE  Aborted(rs) \subseteq Reading /\ \A r \in Aborted(rs) : r.res # "pending"
<1> SUFFICES ASSUME NEW r \in rs
             PROVE  /\ [r EXCEPT !.res = AbortedRes(@)] \in Reading
                    /\ [r EXCEPT !.res = AbortedRes(@)].res # "pending"
  BY DEF Aborted
<1>1. r \in Reading
  OBVIOUS
<1> QED BY <1>1 DEF Reading, AbortedRes, Result

\* The socket is closed while the reads rs are not handled.
LEMMA CloseStep ==
  ASSUME SocketInv, NEW rs \in SUBSET reads, open' = FALSE, Abandon(rs),
         UNCHANGED <<sockets, first, posted, wire, sends, stream, taken, delivered>>,
         alive' \in BOOLEAN, failed' = failed \/ failed' = TRUE,
         timer' \in [armed : BOOLEAN, waiting : BOOLEAN, expired : Nat], dialling' \in BOOLEAN
  PROVE  SocketInv'
<1> USE DEF SocketInv
<1>1. rs \in SUBSET Reading /\ writes \in SUBSET Writing /\ connect \in {"none"} \cup Result
  BY DEF Types
<1>2. /\ writes' \subseteq Writing /\ \A w \in writes' : w.res # "pending"
      /\ reads' \subseteq Reading /\ \A r \in reads' : r.res # "pending"
      /\ connect' \in {"none"} \cup Result /\ connect' # "pending"
      /\ link' = "none" /\ sendQueue' = <<>> /\ receiving' = FALSE
  BY <1>1, AbortedWrites, AbortedReads DEF Abandon, AbortedRes, Result
<1>3. Types'
  <2>1. sockets' \in 0 .. MaxSockets
    BY DEF Types
  <2>4. open' \in BOOLEAN /\ receiving' \in BOOLEAN
    BY <1>2, Zenon
  <2>5. link' \in {"none", "up", "broken"} /\ sendQueue' \in Seq(1 .. MaxSends)
    BY <1>2
  <2>3. failed' \in BOOLEAN
    BY Zenon DEF Types
  <2>2. /\ posted' \in Seq(1 .. MaxSends) /\ wire' \in Seq((1 .. MaxSends) \X {1, 2})
        /\ sends' \in 0 .. MaxSends /\ first' \in 0 .. sends'
        /\ stream' \in Seq(Packet) /\ taken' \in 0 .. 2 * Len(stream') /\ delivered' \in Seq(Unit)
    BY DEF Types
  <2> QED BY <1>2, <2>1, <2>2, <2>3, <2>4, <2>5 DEF Types
<1>4. LinkInv'
  BY <1>2 DEF LinkInv
<1>5. QueueOrder'
  <2>1. /\ sends \in Nat /\ posted \in Seq(1 .. MaxSends) /\ sendQueue \in Seq(1 .. MaxSends)
        /\ Len(posted) \in Nat /\ Len(sendQueue) \in Nat /\ Len(sendQueue') = 0
    BY <1>2, SocketAssumption DEF Types
  <2>2. Before' = Before + Len(sendQueue)
    BY <2>1, <1>2 DEF Before
  <2> QED BY <1>2, <2>1, <2>2 DEF SendInv, QueueOrder, Before
<1>6. WriteInv' /\ WireInv'
  BY <1>2 DEF WriteInv, WireInv
<1>7. WireOrder'
  BY DEF SendInv, WireOrder
<1>8. ReadInv'
  BY <1>2 DEF ReadInv, ReceivedInOrder
<1> QED BY <1>3, <1>4, <1>5, <1>6, <1>7, <1>8 DEF SendInv

LEMMA CloseSteps ==
  ASSUME SocketInv, Close \/ Destroy
  PROVE  SocketInv'
<1>1. /\ timer' \in [armed : BOOLEAN, waiting : BOOLEAN, expired : Nat] /\ dialling' \in BOOLEAN
      /\ alive' \in BOOLEAN
  BY DEF SocketInv, Types, Close, Destroy
<1>2. /\ open' = FALSE /\ Abandon(reads) /\ failed' = failed
      /\ UNCHANGED <<sockets, first, posted, wire, sends, stream, taken, delivered>>
  BY DEF Close, Destroy
<1> QED BY <1>1, <1>2, CloseStep

LEMMA ReceiveFailedStep ==
  ASSUME SocketInv, NEW rs \in SUBSET reads, ReceiveFailed(rs)
  PROVE  SocketInv'
<1>1. /\ timer' \in [armed : BOOLEAN, waiting : BOOLEAN, expired : Nat] /\ dialling' \in BOOLEAN
      /\ alive' \in BOOLEAN
  BY DEF SocketInv, Types, ReceiveFailed
<1>2. /\ open' = FALSE /\ Abandon(rs) /\ failed' = TRUE
      /\ UNCHANGED <<sockets, first, posted, wire, sends, stream, taken, delivered>>
  BY DEF ReceiveFailed
<1> QED BY <1>1, <1>2, CloseStep

LEMMA CreateStep ==
  ASSUME SocketInv, Create
  PROVE  SocketInv'
<1> USE DEF SocketInv, Create
<1>1. writes' = {} /\ reads' = {} /\ connect' = "none"
  BY DEF Drained, Abandon, Aborted, AbortedRes
<1>2. link' = "none" /\ sendQueue' = <<>> /\ receiving' = FALSE /\ posted' = <<>>
  BY DEF Abandon, Drained
<1>3. /\ sends' = sends /\ sends \in 0 .. MaxSends /\ sends \in Nat /\ sockets \in Nat
      /\ MaxSockets \in Nat
  BY SocketAssumption DEF Types
<1>4. stream' \in Seq(Packet)
  BY SocketAssumption
<1>5. Types'
  <2>1. taken' = 0 /\ Len(stream') \in Nat
    BY <1>4
  <2>2. sockets' \in 0 .. MaxSockets
    BY <1>3 DEF Types
  <2>3. /\ wire' = <<>> /\ delivered' = <<>>
        /\ wire' \in Seq((1 .. MaxSends) \X {1, 2}) /\ delivered' \in Seq(Unit)
        /\ posted' \in Seq(1 .. MaxSends) /\ sendQueue' \in Seq(1 .. MaxSends)
    BY <1>2
  <2>4. first' \in 0 .. sends'
    BY <1>3
  <2>5. alive' \in BOOLEAN /\ open' \in BOOLEAN /\ failed' \in BOOLEAN /\ dialling' \in BOOLEAN
        /\ timer' \in [armed : BOOLEAN, waiting : BOOLEAN, expired : Nat]
    BY DEF Types
  <2>6. taken' \in 0 .. 2 * Len(stream')
    BY <2>1
  <2> QED BY <1>1, <1>2, <1>3, <1>4, <2>2, <2>3, <2>4, <2>5, <2>6 DEF Types
<1>6. LinkInv'
  BY <1>1, <1>2 DEF LinkInv
<1>7. Before' = sends
  BY <1>2, <1>3 DEF Before
<1>8. SendInv'
  BY <1>1, <1>2, <1>3, <1>7 DEF SendInv, QueueOrder, WriteInv, WireOrder, WireInv, OnWire
<1>9. ReadInv'
  BY <1>1, <1>2 DEF ReadInv, ReceivedInOrder
<1> QED BY <1>5, <1>6, <1>8, <1>9

-----------------------------------------------------------------------------
(***************************************************************************)
(* Connecting                                                              *)
(***************************************************************************)

LEMMA ConnectSteps ==
  ASSUME SocketInv, Connect \/ HandleConnect \/ Expire \/ OnConnectTimeout
  PROVE  SocketInv'
<1> USE DEF SocketInv
<1>1. /\ UNCHANGED <<socketVars, sendVars, receiveVars, failed>>
      /\ connect' \in {"none"} \cup Result /\ dialling' \in BOOLEAN
      /\ connect' = connect \/ connect' = "none" \/ (connect' = "pending" /\ open /\ link = "none")
      /\ timer' \in [armed : BOOLEAN, waiting : BOOLEAN, expired : Nat]
  <2>1. CASE Connect
    BY <2>1 DEF Connect, Dial, Types, Result
  <2>2. CASE HandleConnect
    BY <2>2 DEF HandleConnect, OnConnect, connectVars, Types
  <2>3. CASE Expire
    <3>1. timer.expired + 1 \in Nat /\ timer \in [armed : BOOLEAN, waiting : BOOLEAN, expired : Nat]
      BY DEF Types
    <3>2. timer' \in [armed : BOOLEAN, waiting : BOOLEAN, expired : Nat]
      BY <2>3, <3>1 DEF Expire
    <3> QED BY <2>3, <3>2 DEF Expire, Types
  <2>4. CASE OnConnectTimeout
    <3>1. /\ timer.expired - 1 \in Nat /\ timer.armed \in BOOLEAN
          /\ timer \in [armed : BOOLEAN, waiting : BOOLEAN, expired : Nat]
      BY <2>4 DEF OnConnectTimeout, Types
    <3>2. timer' \in [armed : BOOLEAN, waiting : BOOLEAN, expired : Nat]
      BY <2>4, <3>1 DEF OnConnectTimeout
    <3> QED BY <2>4, <3>1, <3>2 DEF OnConnectTimeout, Types
  <2> QED BY <2>1, <2>2, <2>3, <2>4
<1>2. Types' /\ LinkInv'
  BY <1>1 DEF Types, LinkInv, socketVars, sendVars, receiveVars
<1>3. SendInv' /\ ReadInv'
  BY <1>1, SameSends, SameReads DEF socketVars, sendVars, receiveVars
<1> QED BY <1>2, <1>3

LEMMA LinkSteps ==
  ASSUME SocketInv, Break \/ ConnectEnds
  PROVE  SocketInv'
<1> USE DEF SocketInv
<1>1. /\ UNCHANGED <<alive, open, sockets, first, timer, dialling, sendVars, receiveVars, failed>>
      /\ connect' \in {"none"} \cup Result /\ link' \in {"none", "up", "broken"}
      /\ connect' = "pending" => connect = "pending" /\ link = "none" /\ link' = "none"
      /\ open /\ link' = "none" => link = "none"
      /\ link' # link => (link = "up" /\ link' = "broken") \/ (link = "none" /\ link' = "up")
      /\ link' # link => open
  <2>1. CASE Break
    BY <2>1 DEF Break, connectVars, Types, LinkInv
  <2>2. CASE ConnectEnds
    BY <2>2 DEF ConnectEnds, Types, LinkInv, Result
  <2> QED BY <2>1, <2>2
<1>2. Types'
  BY <1>1 DEF Types, sendVars, receiveVars
<1>3. LinkInv'
  BY <1>1 DEF LinkInv
<1>4. QueueOrder' /\ WireOrder' /\ Before' = Before
  BY <1>1 DEF SendInv, QueueOrder, WireOrder, Before, sendVars
<1>5. WriteInv'
  BY <1>1, <1>4 DEF SendInv, WriteInv, sendVars
<1>6. WireInv'
  <2> SUFFICES ASSUME open PROVE OnWire'
    BY <1>1 DEF WireInv
  <2>1. CASE link' = link
    BY <1>1, <1>4, <2>1 DEF SendInv, WireInv, OnWire, Progress, sendVars
  <2>2. CASE link = "up" /\ link' = "broken"
    BY <1>1, <1>4, <2>2 DEF SendInv, WireInv, OnWire, Progress, sendVars
  <2>3. CASE link = "none" /\ link' = "up"
    <3>1. wire' = <<>> /\ wire = <<>> /\ Len(wire) = 0
      BY <1>1, <2>3 DEF SendInv, WireInv, OnWire, sendVars
    <3>2. \A w \in writes : w.res # "pending" /\ w \in Writing
      BY <2>3 DEF SendInv, WriteInv, Types
    <3>3. \A w \in writes : w.units = 0 \/ w.units = 2
      BY <3>1, <3>2 DEF SendInv, WireInv, OnWire, Progress, Writing
    <3>4. \A w \in writes : Progress(w)'
      BY <1>1, <1>4, <2>3, <3>1, <3>2, <3>3 DEF SendInv, WireInv, OnWire, Progress, sendVars
    <3> QED BY <1>1, <1>4, <2>3, <3>1, <3>4 DEF SendInv, WireInv, OnWire, sendVars
  <2> QED BY <1>1, <2>1, <2>2, <2>3
<1>7. ReadInv'
  BY <1>1 DEF ReadInv, ReceivedInOrder, ReadAt, receiveVars
<1> QED BY <1>2, <1>3, <1>4, <1>5, <1>6, <1>7 DEF SendInv

-----------------------------------------------------------------------------
(***************************************************************************)
(* Sending                                                                 *)
(***************************************************************************)

LEMMA SendNumbers ==
  ASSUME SocketInv
  PROVE  /\ sends \in Nat /\ first \in Nat /\ MaxSends \in Nat /\ sends <= MaxSends /\ first <= sends
         /\ posted \in Seq(1 .. MaxSends) /\ sendQueue \in Seq(1 .. MaxSends)
         /\ Len(posted) \in Nat /\ Len(sendQueue) \in Nat /\ Before \in Nat
         /\ sends = Before + Len(sendQueue) + Len(posted)
<1>1. /\ sends \in Nat /\ first \in Nat /\ MaxSends \in Nat /\ sends <= MaxSends /\ first <= sends
      /\ posted \in Seq(1 .. MaxSends) /\ sendQueue \in Seq(1 .. MaxSends)
  BY SocketAssumption DEF SocketInv, Types
<1>2. Len(posted) \in Nat /\ Len(sendQueue) \in Nat /\ Before \in Nat
  BY <1>1 DEF SocketInv, SendInv, QueueOrder
<1> QED BY <1>1, <1>2 DEF Before

LEMMA SendStep ==
  ASSUME SocketInv, Send
  PROVE  SocketInv'
<1> USE DEF Send
<1>0. Types /\ LinkInv /\ QueueOrder /\ WriteInv /\ WireOrder /\ WireInv /\ ReadInv
  BY DEF SocketInv, SendInv
<1>1. /\ UNCHANGED <<socketVars, connectVars, sendQueue, writes, wire, receiveVars, failed>>
      /\ sends' = sends + 1 /\ posted' = Append(posted, sends + 1) /\ sends < MaxSends
  OBVIOUS
<1>2. /\ posted' \in Seq(1 .. MaxSends) /\ Len(posted') = Len(posted) + 1
      /\ \A i \in DOMAIN posted' : posted'[i] = IF i = Len(posted) + 1 THEN sends + 1 ELSE posted[i]
      /\ DOMAIN posted' = 1 .. Len(posted) + 1 /\ DOMAIN posted = 1 .. Len(posted)
  BY <1>1, SendNumbers
<1>3. Before' = Before /\ sends' \in 0 .. MaxSends /\ first' \in 0 .. sends'
  BY <1>1, <1>2, SendNumbers, SMTT(30) DEF Before, socketVars
<1>4. Types'
  BY <1>0, <1>1, <1>2, <1>3 DEF Types, socketVars, connectVars, receiveVars
<1>5. LinkInv'
  BY <1>0, <1>1 DEF LinkInv, socketVars, connectVars
<1>6. QueueOrder'
  <2>1. \A i \in DOMAIN posted' : posted'[i] = Before + Len(sendQueue) + i
    <3> SUFFICES ASSUME NEW i \in DOMAIN posted' PROVE posted'[i] = Before + Len(sendQueue) + i
      OBVIOUS
    <3>1. /\ sends = Before + Len(sendQueue) + Len(posted) /\ Before \in Nat
          /\ Len(sendQueue) \in Nat /\ Len(posted) \in Nat
      BY SendNumbers
    <3>2. i = Len(posted) + 1 \/ i \in DOMAIN posted
      BY <1>2, <3>1
    <3> QED BY <1>0, <1>2, <3>1, <3>2 DEF QueueOrder
  <2>2. Before \in Nat /\ \A i \in DOMAIN sendQueue : sendQueue[i] = Before + i
    BY <1>0 DEF QueueOrder
  <2> QED BY <1>0, <1>1, <1>3, <2>1, <2>2 DEF QueueOrder
<1>7. WriteInv' /\ WireOrder' /\ WireInv'
  BY <1>0, <1>1, <1>3 DEF WriteInv, WireOrder, WireInv, OnWire, Progress, socketVars
<1>8. ReadInv'
  BY <1>0, <1>1, SameReads DEF socketVars, receiveVars
<1> QED BY <1>4, <1>5, <1>6, <1>7, <1>8 DEF SocketInv, SendInv

LEMMA HandleAsyncSendStep ==
  ASSUME SocketInv, HandleAsyncSend
  PROVE  SocketInv'
<1>0. Types /\ LinkInv /\ QueueOrder /\ WriteInv /\ WireOrder /\ WireInv /\ ReadInv
  BY DEF SocketInv, SendInv
<1>1. /\ UNCHANGED <<socketVars, connectVars, wire, sends, receiveVars, failed>>
      /\ posted # <<>> /\ posted' = Tail(posted) /\ sendQueue' = Append(sendQueue, Head(posted))
  BY DEF HandleAsyncSend
<1>2. /\ posted' \in Seq(1 .. MaxSends) /\ Len(posted') = Len(posted) - 1 /\ Head(posted) = posted[1]
      /\ Head(posted) \in 1 .. MaxSends /\ Len(posted) > 0
      /\ DOMAIN posted' = 1 .. Len(posted) - 1 /\ DOMAIN posted = 1 .. Len(posted)
      /\ \A i \in DOMAIN posted' : posted'[i] = posted[i + 1]
  BY <1>1, SendNumbers
<1>3. /\ sendQueue' \in Seq(1 .. MaxSends) /\ Len(sendQueue') = Len(sendQueue) + 1
      /\ DOMAIN sendQueue' = 1 .. Len(sendQueue) + 1 /\ DOMAIN sendQueue = 1 .. Len(sendQueue)
      /\ \A i \in DOMAIN sendQueue' :
           sendQueue'[i] = IF i = Len(sendQueue) + 1 THEN Head(posted) ELSE sendQueue[i]
  BY <1>1, <1>2, SendNumbers
<1>4. Before' = Before
  BY <1>0, <1>1, <1>2, <1>3, SendNumbers, SMTT(30) DEF Before
<1>5. Head(posted) = Before + Len(sendQueue) + 1
  <2>1. 1 \in DOMAIN posted
    BY <1>2, SendNumbers
  <2> QED BY <1>0, <1>2, <2>1 DEF QueueOrder
<1>6. QueueOrder'
  <2>1. \A i \in DOMAIN posted' : posted'[i] = Before + Len(sendQueue') + i
    <3> SUFFICES ASSUME NEW i \in DOMAIN posted' PROVE posted'[i] = Before + Len(sendQueue') + i
      OBVIOUS
    <3>0. Len(posted) \in Nat /\ Len(sendQueue) \in Nat /\ Before \in Nat
      BY SendNumbers
    <3>1. i \in Nat /\ i + 1 \in DOMAIN posted /\ posted'[i] = posted[i + 1]
      BY <1>2, <3>0
    <3>2. posted[i + 1] = Before + Len(sendQueue) + (i + 1)
      BY <1>0, <3>1 DEF QueueOrder
    <3> QED BY <3>0, <3>1, <3>2, <1>3
  <2>2. \A i \in DOMAIN sendQueue' : sendQueue'[i] = Before + i
    <3> SUFFICES ASSUME NEW i \in DOMAIN sendQueue' PROVE sendQueue'[i] = Before + i
      OBVIOUS
    <3>1. Len(sendQueue) \in Nat /\ Before \in Nat
      BY SendNumbers
    <3>2. i = Len(sendQueue) + 1 \/ i \in DOMAIN sendQueue
      BY <1>3, <3>1
    <3> QED BY <1>0, <1>3, <1>5, <3>1, <3>2 DEF QueueOrder
  <2> QED BY <1>4, <2>1, <2>2, SendNumbers DEF QueueOrder
<1>7. CASE sendQueue # <<>>
  <2>1. writes' = writes /\ sendQueue' # <<>>
    <3>1. writes' = writes
      BY <1>7 DEF HandleAsyncSend
    <3>2. Len(sendQueue) \in Nat
      BY SendNumbers
    <3>3. Len(sendQueue') # 0
      BY <1>3, <3>2
    <3> QED BY <3>1, <3>3
  <2>2. Types' /\ LinkInv'
    BY <1>0, <1>1, <1>2, <1>3, <2>1 DEF Types, LinkInv, socketVars, connectVars, receiveVars
  <2>3. WriteInv' /\ WireOrder' /\ WireInv'
    BY <1>0, <1>1, <1>4, <1>7, <2>1 DEF WriteInv, WireOrder, WireInv, OnWire, Progress, socketVars
  <2>4. ReadInv'
    BY <1>0, <1>1, SameReads DEF socketVars, receiveVars
  <2> QED BY <1>6, <2>2, <2>3, <2>4 DEF SocketInv, SendInv
<1>8. CASE sendQueue = <<>>
  <2> PICK w0 : w0 = Write(Head(posted))
    OBVIOUS
  <2>1. writes' = writes \cup {w0} /\ sendQueue' # <<>> /\ Len(sendQueue) = 0
    BY <1>3, <1>8, SendNumbers DEF HandleAsyncSend
  <2>2. /\ w0 \in Writing /\ w0.packet = Before + 1 /\ w0.units = 0 /\ w0.res = Started
        /\ Started \in {"pending", "failed"} /\ (Started = "pending" <=> link = "up")
    BY <1>2, <1>5, <2>1, SendNumbers DEF Write, Writing, Started, Result
  <2>3. Types'
    BY <1>0, <1>1, <1>2, <1>3, <2>1, <2>2 DEF Types, socketVars, connectVars, receiveVars
  <2>4. LinkInv'
    BY <1>0, <1>1 DEF LinkInv, socketVars, connectVars
  <2>5. open => writes = {}
    BY <1>0, <1>8 DEF WriteInv
  <2>6. WriteInv'
    BY <1>0, <1>1, <1>4, <2>1, <2>2, <2>5 DEF WriteInv, socketVars
  <2>7. WireOrder'
    BY <1>0, <1>1 DEF WireOrder, socketVars
  <2>8. WireInv'
    <3> SUFFICES ASSUME open PROVE OnWire'
      BY <1>0, <1>1 DEF WireInv, socketVars
    <3>1. OnWire /\ writes = {} /\ writes' = {w0}
      BY <1>0, <2>1, <2>5 DEF WireInv
    <3>2. link' = link /\ wire' = wire /\ failed' = failed /\ first' = first
      BY <1>0, <1>1 DEF socketVars
    <3>3. Len(wire) \in Nat /\ (link = "up" => Len(wire) % 2 = 0)
      BY <1>0, <3>1 DEF OnWire, Types
    <3>4. ~failed => Len(wire) = 2 * (Before - first)
      BY <3>1 DEF OnWire
    <3>5. Progress(w0)'
      BY <1>4, <2>2, <3>2, <3>3, <3>4, SendNumbers, SMTT(30) DEF Progress
    <3> QED BY <1>4, <3>1, <3>2, <3>5 DEF OnWire
  <2>9. ReadInv'
    BY <1>0, <1>1, SameReads DEF socketVars, receiveVars
  <2> QED BY <1>6, <2>3, <2>4, <2>6, <2>7, <2>8, <2>9 DEF SocketInv, SendInv
<1> QED BY <1>7, <1>8

\* A write goes on; nothing of the queue or the rest changes.
LEMMA WriteGoesOn ==
  ASSUME SocketInv, NEW w \in writes, NEW v \in Writing, open,
         UNCHANGED <<socketVars, connectVars, posted, sendQueue, sends, receiveVars, failed>>,
         writes' = (writes \ {w}) \cup {v}, v.packet = w.packet, wire' \in Seq((1 .. MaxSends) \X {1, 2}),
         v.res = "pending" => link # "none", WireOrder', OnWire'
  PROVE  SocketInv'
<1>0. Types /\ LinkInv /\ QueueOrder /\ WriteInv /\ ReadInv
  BY DEF SocketInv, SendInv
<1>1. Before' = Before
  BY DEF Before
<1>2. writes' \subseteq Writing
  BY <1>0 DEF Types
<1>3. Types' /\ LinkInv'
  BY <1>0, <1>2 DEF Types, LinkInv, socketVars, connectVars, receiveVars
<1>4. QueueOrder'
  BY <1>0, <1>1 DEF QueueOrder
<1>5. writes = {w} /\ writes' = {v}
  BY <1>0 DEF WriteInv
<1>6. WriteInv'
  BY <1>0, <1>1, <1>5 DEF WriteInv, socketVars
<1>7. ReadInv'
  BY <1>0, SameReads DEF socketVars, receiveVars
<1> QED BY <1>3, <1>4, <1>6, <1>7 DEF SocketInv, SendInv, WireInv

LEMMA TransmitStep ==
  ASSUME SocketInv, Transmit
  PROVE  SocketInv'
<1>0. Types /\ LinkInv /\ WriteInv /\ WireOrder /\ WireInv
  BY DEF SocketInv, SendInv
<1>1. PICK w \in writes :
        /\ w.res = "pending" /\ link = "up"
        /\ wire' = Append(wire, <<w.packet, w.units + 1>>)
        /\ writes' = (writes \ {w})
             \cup {[w EXCEPT !.units = @ + 1, !.res = IF w.units = 1 THEN "ok" ELSE "pending"]}
        /\ UNCHANGED <<socketVars, connectVars, posted, sendQueue, sends, receiveVars, failed>>
  BY DEF Transmit
<1>2. PICK v : v = [w EXCEPT !.units = @ + 1, !.res = IF w.units = 1 THEN "ok" ELSE "pending"]
  OBVIOUS
<1>3. open /\ OnWire
  BY <1>0, <1>1 DEF LinkInv, WireInv
<1>4. writes = {w} /\ writes' = {v} /\ w \in Writing /\ w.packet = Before + 1
  BY <1>0, <1>1, <1>2, <1>3 DEF WriteInv, Types
<1>5. w.units \in {0, 1} /\ w.packet \in 1 .. MaxSends
  BY <1>1, <1>3, <1>4 DEF OnWire, Progress, Writing
<1>6. /\ v \in Writing /\ v.packet = w.packet /\ v.units = w.units + 1
      /\ v.res = IF w.units = 1 THEN "ok" ELSE "pending"
  <2>1. v.packet = w.packet /\ v.units = w.units + 1 /\ v.res = IF w.units = 1 THEN "ok" ELSE "pending"
    BY <1>2, <1>4 DEF Writing
  <2>2. w.units + 1 \in 0 .. 2 /\ (IF w.units = 1 THEN "ok" ELSE "pending") \in Result
    BY <1>5 DEF Result
  <2>3. v \in Writing
    BY <1>2, <1>4, <2>2 DEF Writing
  <2> QED BY <2>1, <2>3
<1>7. PICK n \in Nat :
        /\ Len(wire) = n /\ wire' \in Seq((1 .. MaxSends) \X {1, 2}) /\ Len(wire') = n + 1
        /\ DOMAIN wire = 1 .. n /\ DOMAIN wire' = 1 .. n + 1
        /\ \A i \in 1 .. n : wire'[i] = wire[i]
        /\ wire'[n + 1] = <<w.packet, w.units + 1>>
  <2>1. wire \in Seq((1 .. MaxSends) \X {1, 2}) /\ <<w.packet, w.units + 1>> \in (1 .. MaxSends) \X {1, 2}
    BY <1>0, <1>5 DEF Types
  <2>2. /\ Len(wire) \in Nat /\ wire' \in Seq((1 .. MaxSends) \X {1, 2}) /\ Len(wire') = Len(wire) + 1
        /\ DOMAIN wire = 1 .. Len(wire) /\ DOMAIN wire' = 1 .. Len(wire) + 1
        /\ \A i \in 1 .. Len(wire) : wire'[i] = wire[i]
        /\ wire'[Len(wire) + 1] = <<w.packet, w.units + 1>>
    BY <1>1, <2>1
  <2> QED BY <2>2
<1>8. /\ Before \in Nat /\ first \in Nat /\ Before' = Before /\ first' = first /\ first <= Before
      /\ failed' = failed /\ link' = link
  BY <1>0, <1>1, <1>3, SendNumbers DEF Before, socketVars, WriteInv
<1>9. /\ w.units = 1 => n > 0 /\ wire[n] = <<w.packet, 1>>
      /\ n % 2 = w.units
      /\ ~failed => n = 2 * (Before - first) + w.units
  <2>1. /\ w.units = 1 => n > 0 /\ wire[n] = <<w.packet, 1>>
        /\ n % 2 = w.units % 2
        /\ ~failed => n = 2 * (Before - first) + w.units
    BY <1>1, <1>3, <1>4, <1>7 DEF OnWire, Progress
  <2> QED BY <1>5, <2>1
<1>10. \A i \in 1 .. n :
         wire[i][1] \in Nat /\ (wire[i][1] <= Before \/ (wire[i][1] = Before + 1 /\ w.units > 0))
  BY <1>3, <1>4, <1>7, SMTT(30) DEF OnWire
<1>11. WireOrder'
  <2>1. ASSUME NEW i \in 1 .. n + 1, i % 2 = 1
        PROVE  wire'[i][2] = 1 /\ \A j \in 1 .. i - 1 : wire'[j][1] < wire'[i][1]
    <3>1. CASE i \in 1 .. n
      <4>1. i \in DOMAIN wire /\ \A j \in 1 .. i - 1 : j \in 1 .. n
        BY <1>7, <3>1
      <4>2. wire[i][2] = 1 /\ \A j \in 1 .. i - 1 : wire[j][1] < wire[i][1]
        BY <1>0, <2>1, <4>1 DEF WireOrder
      <4> QED BY <1>7, <3>1, <4>1, <4>2
    <3>2. CASE i = n + 1
      <4>1. w.units = 0
        BY <1>5, <1>9, <2>1, <3>2
      <4>2. \A j \in 1 .. i - 1 : wire'[j] = wire[j] /\ wire[j][1] < Before + 1
        <5> SUFFICES ASSUME NEW j \in 1 .. i - 1 PROVE wire'[j] = wire[j] /\ wire[j][1] < Before + 1
          OBVIOUS
        <5>1. j \in 1 .. n
          BY <3>2
        <5>2. wire[j][1] \in Nat /\ wire[j][1] <= Before
          BY <1>10, <4>1, <5>1
        <5> QED BY <1>7, <1>8, <5>1, <5>2
      <4>3. wire'[i] = <<Before + 1, 1>>
        BY <1>4, <1>7, <3>2, <4>1
      <4> QED BY <4>2, <4>3
    <3> QED BY <3>1, <3>2
  <2>2. ASSUME NEW i \in 1 .. n + 1, i % 2 = 0
        PROVE  wire'[i] = <<wire'[i - 1][1], 2>>
    <3>1. CASE i \in 1 .. n
      <4>0. i - 1 \in 1 .. n /\ i \in DOMAIN wire
        BY <1>7, <2>2, <3>1
      <4>1. wire'[i] = wire[i] /\ wire'[i - 1] = wire[i - 1]
        BY <1>7, <3>1, <4>0
      <4> QED BY <1>0, <2>2, <4>0, <4>1 DEF WireOrder
    <3>2. CASE i = n + 1
      <4>1. w.units = 1
        BY <1>5, <1>9, <2>2, <3>2
      <4>2. i - 1 \in 1 .. n /\ wire'[i - 1] = <<w.packet, 1>>
        <5>1. n \in 1 .. n /\ i - 1 = n
          BY <1>9, <3>2, <4>1
        <5> QED BY <1>7, <1>9, <4>1, <5>1
      <4> QED BY <1>7, <3>2, <4>1, <4>2
    <3> QED BY <3>1, <3>2
  <2>3. ASSUME ~failed, NEW i \in 1 .. n + 1
        PROVE  wire'[i][1] = first + (i + 1) \div 2
    <3>1. CASE i \in 1 .. n
      BY <1>0, <1>7, <2>3, <3>1 DEF WireOrder
    <3>2. CASE i = n + 1
      <4>1. i = 2 * (Before - first) + w.units + 1 /\ wire'[i][1] = Before + 1
        BY <1>4, <1>7, <1>9, <2>3, <3>2
      <4>2. (i + 1) \div 2 = Before - first + 1
        BY <1>5, <1>8, <4>1
      <4> QED BY <1>8, <4>1, <4>2
    <3> QED BY <3>1, <3>2
  <2> QED BY <1>7, <1>8, <2>1, <2>2, <2>3 DEF WireOrder
<1>12. OnWire'
  <2>1. Progress(v)'
    <3>1. v.units = 1 => Len(wire') > 0 /\ wire'[Len(wire')] = <<v.packet, 1>>
      BY <1>5, <1>6, <1>7
    <3>2. (n + 1) % 2 = (w.units + 1) % 2
      BY <1>5, <1>9
    <3>4. Len(wire') % 2 = v.units % 2
      BY <1>6, <1>7, <3>2
    <3>5. ~failed => n + 1 = 2 * (Before - first) + (w.units + 1)
      BY <1>5, <1>8, <1>9
    <3>3. ~failed => Len(wire') = 2 * (Before - first) + v.units
      BY <1>6, <1>7, <3>5
    <3> QED BY <1>5, <1>6, <1>8, <3>1, <3>3, <3>4 DEF Progress
  <2>2. \A i \in 1 .. n + 1 :
          wire'[i][1] <= Before \/ (wire'[i][1] = Before + 1 /\ v.units > 0)
    <3> SUFFICES ASSUME NEW i \in 1 .. n + 1
                 PROVE  wire'[i][1] <= Before \/ (wire'[i][1] = Before + 1 /\ v.units > 0)
      OBVIOUS
    <3>1. CASE i \in 1 .. n
      BY <1>5, <1>6, <1>7, <1>10, <3>1
    <3>2. CASE i = n + 1
      BY <1>4, <1>5, <1>6, <1>7, <3>2
    <3> QED BY <3>1, <3>2
  <2> QED BY <1>1, <1>4, <1>7, <1>8, <2>1, <2>2 DEF OnWire
<1> QED BY <1>1, <1>2, <1>3, <1>6, <1>7, <1>11, <1>12, WriteGoesOn

LEMMA WriteFailsStep ==
  ASSUME SocketInv, WriteFails
  PROVE  SocketInv'
<1>0. Types /\ LinkInv /\ WriteInv /\ WireOrder /\ WireInv
  BY DEF SocketInv, SendInv
<1>1. PICK w \in writes :
        /\ w.res = "pending" /\ link = "broken"
        /\ writes' = (writes \ {w}) \cup {[w EXCEPT !.res = "failed"]}
        /\ UNCHANGED <<socketVars, connectVars, posted, sendQueue, wire, sends, receiveVars, failed>>
  BY DEF WriteFails
<1>2. PICK v : v = [w EXCEPT !.res = "failed"]
  OBVIOUS
<1>3. open /\ OnWire
  BY <1>0, <1>1 DEF LinkInv, WireInv
<1>4. writes = {w} /\ writes' = {v} /\ w \in Writing
  BY <1>0, <1>1, <1>2, <1>3 DEF WriteInv, Types
<1>5. v \in Writing /\ v.packet = w.packet /\ v.units = w.units /\ v.res = "failed"
  BY <1>2, <1>4 DEF Writing, Result
<1>6. Before' = Before /\ first' = first /\ failed' = failed /\ link' = link /\ wire' = wire
  BY <1>1 DEF Before, socketVars
<1>7. WireOrder'
  BY <1>0, <1>6 DEF WireOrder
<1>8. OnWire'
  <2>1. Progress(w)
    BY <1>3 DEF OnWire
  <2>2. Progress(v)'
    BY <1>1, <1>5, <1>6, <2>1 DEF Progress
  <2> QED BY <1>1, <1>3, <1>4, <1>5, <1>6, <2>2 DEF OnWire
<1>9. wire' \in Seq((1 .. MaxSends) \X {1, 2})
  BY <1>0, <1>6 DEF Types
<1> QED BY <1>1, <1>2, <1>3, <1>5, <1>7, <1>8, <1>9, WriteGoesOn

LEMMA HandleTcpSendStep ==
  ASSUME SocketInv, HandleTcpSend
  PROVE  SocketInv'
<1>0. Types /\ LinkInv /\ QueueOrder /\ WriteInv /\ WireOrder /\ WireInv /\ ReadInv
  BY DEF SocketInv, SendInv
<1>1. PICK w \in writes :
        /\ w.res # "pending"
        /\ IF alive /\ sendQueue # <<>>
           THEN /\ sendQueue' = Tail(sendQueue) /\ failed' = (failed \/ w.res # "ok")
                /\ writes' = (writes \ {w}) \cup
                     IF w.res = "ok" /\ Len(sendQueue) > 1 THEN {Write(sendQueue[2])} ELSE {}
           ELSE writes' = writes \ {w} /\ UNCHANGED <<sendQueue, failed>>
        /\ UNCHANGED <<socketVars, connectVars, posted, wire, sends, receiveVars>>
  BY DEF HandleTcpSend
<1>2. UNCHANGED <<alive, open, link, first, connect, posted, wire, sends>> /\ w \in Writing
  BY <1>0, <1>1 DEF socketVars, connectVars, Types
<1>3. ReadInv'
  BY <1>0, <1>1, SameReads DEF socketVars, receiveVars
<1>4. LinkInv'
  BY <1>0, <1>2 DEF LinkInv
<1>5. CASE ~(alive /\ sendQueue # <<>>)
  <2>1. ~open /\ ~open'
    BY <1>0, <1>2, <1>5 DEF WriteInv, LinkInv
  <2>2. writes' = writes \ {w} /\ sendQueue' = sendQueue /\ failed' = failed
    BY <1>1, <1>5
  <2>3. Types'
    BY <1>0, <1>1, <2>2 DEF Types, socketVars, connectVars, receiveVars
  <2>4. QueueOrder' /\ WireOrder' /\ WriteInv' /\ WireInv'
    BY <1>0, <1>2, <2>1, <2>2 DEF QueueOrder, WireOrder, WriteInv, WireInv, Before
  <2> QED BY <1>3, <1>4, <2>3, <2>4 DEF SocketInv, SendInv
<1>6. CASE alive /\ sendQueue # <<>>
  <2>1. /\ sendQueue' = Tail(sendQueue) /\ (failed' <=> failed \/ w.res # "ok")
        /\ writes' = (writes \ {w}) \cup
             IF w.res = "ok" /\ Len(sendQueue) > 1 THEN {Write(sendQueue[2])} ELSE {}
    BY <1>1, <1>6
  <2>2. failed' \in BOOLEAN
    BY <1>1, <1>6 DEF Types
  <2>3. PICK n \in Nat :
          /\ Len(sendQueue) = n + 1 /\ sendQueue' \in Seq(1 .. MaxSends) /\ Len(sendQueue') = n
          /\ DOMAIN sendQueue = 1 .. n + 1 /\ DOMAIN sendQueue' = 1 .. n
          /\ \A i \in 1 .. n : sendQueue'[i] = sendQueue[i + 1]
    <3>1. /\ Len(sendQueue) - 1 \in Nat /\ sendQueue' \in Seq(1 .. MaxSends)
          /\ Len(sendQueue') = Len(sendQueue) - 1
          /\ DOMAIN sendQueue = 1 .. Len(sendQueue) /\ DOMAIN sendQueue' = 1 .. Len(sendQueue) - 1
          /\ \A i \in 1 .. Len(sendQueue) - 1 : sendQueue'[i] = sendQueue[i + 1]
      BY <1>6, <2>1, SendNumbers
    <3>2. PICK n \in Nat : n = Len(sendQueue) - 1
      BY <3>1
    <3>3. Len(sendQueue) = n + 1 /\ 1 .. Len(sendQueue) = 1 .. n + 1
      BY <3>2, SendNumbers
    <3> QED BY <3>1, <3>2, <3>3
  <2>4. Before \in Nat /\ Before' = Before + 1 /\ first \in Nat
    BY <1>2, <2>3, SendNumbers DEF Before
  <2>5. QueueOrder'
    <3>1. \A i \in DOMAIN posted' : posted'[i] = Before' + Len(sendQueue') + i
      <4> SUFFICES ASSUME NEW i \in DOMAIN posted PROVE posted[i] = Before' + Len(sendQueue') + i
        BY <1>2
      <4>1. posted[i] = Before + Len(sendQueue) + i /\ i \in Nat
        BY <1>0, SendNumbers DEF QueueOrder
      <4> QED BY <2>3, <2>4, <4>1
    <3>2. \A i \in DOMAIN sendQueue' : sendQueue'[i] = Before' + i
      <4> SUFFICES ASSUME NEW i \in 1 .. n PROVE sendQueue'[i] = Before' + i
        BY <2>3
      <4>1. i + 1 \in DOMAIN sendQueue
        BY <2>3
      <4>2. sendQueue[i + 1] = Before + (i + 1)
        BY <1>0, <4>1 DEF QueueOrder
      <4> QED BY <2>3, <2>4, <4>2
    <3> QED BY <2>4, <3>1, <3>2 DEF QueueOrder
  <2>6. WireOrder'
    BY <1>0, <1>2, <2>1 DEF WireOrder
  <2>7. ASSUME n > 0, w.res = "ok"
        PROVE  \E v \in Writing :
                 /\ writes' = (writes \ {w}) \cup {v}
                 /\ v.packet = Before + 2 /\ v.units = 0
                 /\ v.res \in {"pending", "failed"} /\ (v.res = "pending" <=> link = "up")
    <3>1. 2 \in DOMAIN sendQueue /\ Len(sendQueue) > 1
      BY <2>3, <2>7
    <3>2. sendQueue[2] \in 1 .. MaxSends /\ sendQueue[2] = Before + 2
      BY <1>0, <3>1, SendNumbers DEF QueueOrder
    <3>3. /\ Write(sendQueue[2]) \in Writing /\ Write(sendQueue[2]).packet = Before + 2
          /\ Write(sendQueue[2]).units = 0 /\ Write(sendQueue[2]).res = Started
          /\ Started \in {"pending", "failed"} /\ (Started = "pending" <=> link = "up")
      BY <3>2 DEF Write, Writing, Started, Result
    <3> QED BY <2>1, <2>7, <3>1, <3>3
  <2>8. n = 0 \/ w.res # "ok" => writes' = writes \ {w}
    BY <2>1, <2>3
  <2>9. writes' \subseteq Writing
    <3>1. CASE n > 0 /\ w.res = "ok"
      BY <1>0, <2>7, <3>1 DEF Types
    <3>2. CASE n = 0 \/ w.res # "ok"
      BY <1>0, <2>8, <3>2 DEF Types
    <3> QED BY <3>1, <3>2
  <2>10. Types'
    BY <1>0, <1>1, <2>2, <2>3, <2>9 DEF Types, socketVars, connectVars, receiveVars
  <2>11. \A v \in writes' : v.res = "pending" => link' # "none"
    <3>1. CASE n > 0 /\ w.res = "ok"
      BY <1>0, <1>2, <2>7, <3>1 DEF WriteInv
    <3>2. CASE n = 0 \/ w.res # "ok"
      BY <1>0, <1>2, <2>8, <3>2 DEF WriteInv
    <3> QED BY <3>1, <3>2
  <2>12. ASSUME open PROVE WriteInv' /\ OnWire'
    <3>1. writes = {w} /\ first <= Before /\ OnWire
      BY <1>0, <2>12 DEF WriteInv, WireInv
    <3>2. Progress(w) /\ w.units \in 0 .. 2 /\ w.res \in Result /\ Len(wire) \in Nat
      BY <1>0, <1>2, <3>1 DEF OnWire, Writing, Types
    <3>3. link = "up" => Len(wire) % 2 = 0
      BY <1>1, <3>2 DEF Progress
    <3>4. ~failed' => w.res = "ok" /\ ~failed /\ Len(wire) = 2 * (Before' - first)
      <4>1. ~failed' => w.res = "ok" /\ ~failed
        BY <2>1, Zenon
      <4>2. w.res = "ok" /\ ~failed => Len(wire) = 2 * (Before - first) + 2
        BY <3>2 DEF Progress
      <4>3. 2 * (Before - first) + 2 = 2 * (Before' - first)
        BY <2>4
      <4> QED BY <4>1, <4>2, <4>3
    <3>5. \A i \in DOMAIN wire : wire[i][1] <= Before'
      <4> SUFFICES ASSUME NEW i \in DOMAIN wire PROVE wire[i][1] <= Before'
        OBVIOUS
      <4>1. wire[i][1] \in Nat
        BY <1>0, SendNumbers, SMTT(30) DEF Types
      <4> QED BY <2>4, <3>1, <4>1 DEF OnWire
    <3>6. link = "none" => wire = <<>>
      BY <3>1 DEF OnWire
    <3>7. first' <= Before'
      BY <1>2, <2>4, <3>1
    <3>8. CASE n > 0 /\ w.res = "ok"
      <4>1. PICK v \in Writing :
              /\ writes' = {v} /\ v.packet = Before' + 1 /\ v.units = 0
              /\ v.res \in {"pending", "failed"} /\ (v.res = "pending" <=> link = "up")
        BY <2>4, <2>7, <3>1, <3>8
      <4>2. sendQueue' # <<>>
        BY <2>3, <3>8
      <4>3. WriteInv'
        BY <2>11, <3>7, <4>1, <4>2 DEF WriteInv
      <4>4. Progress(v)'
        <5>1. ~failed' => Len(wire) = 2 * (Before' - first) + 0
          BY <2>4, <3>1, <3>4
        <5> QED BY <1>2, <3>3, <4>1, <5>1 DEF Progress
      <4> QED BY <1>2, <3>5, <3>6, <4>1, <4>3, <4>4 DEF OnWire
    <3>9. CASE n = 0 \/ w.res # "ok"
      <4>1. writes' = {}
        BY <2>8, <3>1, <3>9
      <4>2. sendQueue' # <<>> => failed'
        BY <2>1, <2>3, <3>9
      <4> QED BY <1>2, <2>11, <3>3, <3>4, <3>5, <3>6, <3>7, <4>1, <4>2 DEF WriteInv, OnWire
    <3> QED BY <3>8, <3>9
  <2>13. WriteInv' /\ WireInv'
    BY <1>2, <2>11, <2>12 DEF WriteInv, WireInv
  <2> QED BY <1>3, <1>4, <2>5, <2>6, <2>10, <2>13 DEF SocketInv, SendInv
<1> QED BY <1>5, <1>6

-----------------------------------------------------------------------------
(***************************************************************************)
(* Receiving                                                               *)
(***************************************************************************)

LEMMA ReadStep ==
  ASSUME SocketInv, UNCHANGED <<socketVars, connectVars, sendVars, stream, failed>>,
         receiving' \in BOOLEAN, reads' \subseteq Reading, taken' \in 0 .. 2 * Len(stream),
         delivered' \in Seq(Unit), ReadInv'
  PROVE  SocketInv'
<1>1. Types' /\ LinkInv'
  BY DEF SocketInv, Types, LinkInv, socketVars, connectVars, sendVars
<1>2. SendInv'
  BY SameSends DEF SocketInv, socketVars, sendVars
<1> QED BY <1>1, <1>2 DEF SocketInv

LEMMA ReadNumbers ==
  ASSUME SocketInv
  PROVE  /\ Len(delivered) \in Nat /\ Len(stream) \in Nat /\ taken \in 0 .. 2 * Len(stream)
         /\ delivered \in Seq(Unit) /\ stream \in Seq(Packet) /\ receiving \in BOOLEAN
         /\ reads \subseteq Reading
BY DEF SocketInv, Types

\* A read that has just started.
LEMMA FreshRead ==
  ASSUME NEW what \in {"length", "data"}
  PROVE  /\ Read(what) \in Reading /\ Read(what).what = what
         /\ Read(what).res \in {"pending", "failed"}
         /\ Read(what).res = "pending" <=> link = "up"
BY DEF Read, Reading, Started, Result

LEMMA ReceiveStep ==
  ASSUME SocketInv, Receive
  PROVE  SocketInv'
<1>0. ReadInv
  BY DEF SocketInv
<1>1. PICK r : r = Read("length")
  OBVIOUS
<1>2. /\ open /\ receiving' = TRUE
      /\ UNCHANGED <<socketVars, connectVars, sendVars, stream, taken, delivered, failed>>
  BY DEF Receive
<1>3. reads = {} /\ reads' = {r}
  BY <1>0, <1>1 DEF ReadInv, Receive
<1>4. r \in Reading /\ r.what = "length" /\ r.res \in {"pending", "failed"} /\ (r.res = "pending" <=> link = "up")
  BY <1>1, FreshRead
<1>5. taken = 2 * Len(delivered)
  BY <1>0, <1>2, <1>3 DEF ReadInv
<1>6. ReadAt(r, Len(delivered))'
  BY <1>2, <1>4, <1>5 DEF ReadAt
<1>7. ReadInv'
  BY <1>0, <1>2, <1>3, <1>4, <1>6 DEF ReadInv, ReceivedInOrder, socketVars
<1>8. /\ receiving' \in BOOLEAN /\ reads' \subseteq Reading /\ taken' \in 0 .. 2 * Len(stream)
      /\ delivered' \in Seq(Unit)
  BY <1>2, <1>3, <1>4, ReadNumbers
<1> QED BY <1>2, <1>7, <1>8, ReadStep

LEMMA ReadEndsStep ==
  ASSUME SocketInv, ReadEnds
  PROVE  SocketInv'
<1>0. Types /\ LinkInv /\ ReadInv
  BY DEF SocketInv
<1>1. PICK r \in reads :
        /\ r.res = "pending" /\ link = "up" /\ taken < 2 * Len(stream)
        /\ taken' = taken + 1
        /\ reads' = (reads \ {r}) \cup {[r EXCEPT !.unit = UnitAt(taken + 1), !.res = "ok"]}
        /\ UNCHANGED <<socketVars, connectVars, sendVars, receiving, stream, delivered, failed>>
  BY DEF ReadEnds
<1>2. PICK q : q = [r EXCEPT !.unit = UnitAt(taken + 1), !.res = "ok"]
  OBVIOUS
<1>3. open /\ reads = {r} /\ reads' = {q} /\ r \in Reading
  BY <1>0, <1>1, <1>2, ReadNumbers DEF LinkInv, ReadInv
<1>4. PICK n \in Nat : n = Len(delivered)
  BY ReadNumbers
<1>5. ReadAt(r, n) /\ r.what \in {"length", "data"} /\ receiving
  BY <1>0, <1>3, <1>4 DEF ReadInv, Reading
<1>6. taken = IF r.what = "length" THEN 2 * n ELSE 2 * n + 1
  BY <1>1, <1>5 DEF ReadAt
<1>7. (taken + 2) \div 2 = n + 1 /\ 2 - ((taken + 1) % 2) = IF r.what = "length" THEN 1 ELSE 2
  BY <1>5, <1>6
<1>8. n + 1 \in 1 .. Len(stream)
  BY <1>1, <1>5, <1>6, ReadNumbers
<1>9. UnitAt(taken + 1) = <<stream[n + 1], IF r.what = "length" THEN 1 ELSE 2>>
  <2>1. (taken + 1) + 1 = taken + 2
    BY ReadNumbers
  <2> QED BY <1>7, <2>1 DEF UnitAt
<1>10. UnitAt(taken + 1) \in Unit
  <2>1. stream[n + 1] \in Packet
    BY <1>8, ReadNumbers
  <2> QED BY <1>9, <2>1 DEF Unit
<1>11. /\ q.what = r.what /\ q.res = "ok"
       /\ q.unit = <<stream[n + 1], IF r.what = "length" THEN 1 ELSE 2>>
  BY <1>2, <1>3, <1>9 DEF Reading
<1>12. q \in Reading
  BY <1>2, <1>3, <1>10 DEF Reading, Result
<1>13. ReadAt(q, n)'
  <2>1. taken' = IF r.what = "length" THEN 2 * n + 1 ELSE 2 * n + 2
    BY <1>1, <1>5, <1>6
  <2>2. r.what = "data" => stream[n + 1] \notin TooBig
    BY <1>5 DEF ReadAt
  <2> QED BY <1>1, <1>5, <1>11, <2>1, <2>2 DEF ReadAt
<1>14. ReadInv'
  BY <1>0, <1>1, <1>3, <1>4, <1>5, <1>11, <1>13 DEF ReadInv, ReceivedInOrder, socketVars
<1>15. /\ receiving' \in BOOLEAN /\ reads' \subseteq Reading /\ taken' \in 0 .. 2 * Len(stream)
       /\ delivered' \in Seq(Unit)
  <2>1. taken' \in 0 .. 2 * Len(stream)
    BY <1>1, ReadNumbers
  <2> QED BY <1>1, <1>3, <1>12, <2>1, ReadNumbers
<1> QED BY <1>1, <1>14, <1>15, ReadStep

LEMMA ReadFailsStep ==
  ASSUME SocketInv, ReadFails
  PROVE  SocketInv'
<1>0. Types /\ LinkInv /\ ReadInv
  BY DEF SocketInv
<1>1. PICK r \in reads :
        /\ r.res = "pending"
        /\ reads' = (reads \ {r}) \cup {[r EXCEPT !.res = "failed"]}
        /\ UNCHANGED <<socketVars, connectVars, sendVars, receiving, stream, taken, delivered, failed>>
  BY DEF ReadFails
<1>2. PICK q : q = [r EXCEPT !.res = "failed"]
  OBVIOUS
<1>3. open /\ reads = {r} /\ reads' = {q} /\ r \in Reading
  BY <1>0, <1>1, <1>2, ReadNumbers DEF LinkInv, ReadInv
<1>4. q \in Reading /\ q.what = r.what /\ q.res = "failed"
  BY <1>2, <1>3 DEF Reading, Result
<1>5. ReadAt(r, Len(delivered)) /\ receiving
  BY <1>0, <1>3 DEF ReadInv
<1>6. ReadAt(q, Len(delivered))'
  BY <1>1, <1>4, <1>5 DEF ReadAt
<1>7. ReadInv'
  BY <1>0, <1>1, <1>3, <1>4, <1>5, <1>6 DEF ReadInv, ReceivedInOrder, socketVars
<1>8. /\ receiving' \in BOOLEAN /\ reads' \subseteq Reading /\ taken' \in 0 .. 2 * Len(stream)
      /\ delivered' \in Seq(Unit)
  BY <1>1, <1>3, <1>4, ReadNumbers
<1> QED BY <1>1, <1>7, <1>8, ReadStep

\* The handler of a read that nobody waits for.
LEMMA UnheededStep ==
  ASSUME SocketInv, NEW r \in reads, Unheeded, reads' = reads \ {r},
         UNCHANGED <<socketVars, connectVars, sendVars, receiving, stream, taken, delivered, failed>>
  PROVE  SocketInv'
<1>1. ~open
  BY DEF SocketInv, LinkInv, ReadInv, Unheeded
<1>2. ReadInv'
  BY <1>1 DEF SocketInv, ReadInv, ReceivedInOrder, socketVars
<1>3. /\ receiving' \in BOOLEAN /\ reads' \subseteq Reading /\ taken' \in 0 .. 2 * Len(stream)
      /\ delivered' \in Seq(Unit)
  BY ReadNumbers
<1> QED BY <1>2, <1>3, ReadStep

LEMMA LengthStep ==
  ASSUME SocketInv, HandleTcpRecvLengthBuffer
  PROVE  SocketInv'
<1>0. ReadInv
  BY DEF SocketInv
<1>1. PICK r \in reads :
        /\ r.what = "length" /\ r.res # "pending"
        /\ \/ Unheeded /\ reads' = reads \ {r} /\ UNCHANGED <<socketVars, connectVars, sendVars,
                                                    receiving, stream, taken, delivered, failed>>
           \/ /\ ~Unheeded /\ r.res = "ok" /\ r.unit[1] \notin TooBig
              /\ reads' = (reads \ {r}) \cup {Read("data")}
              /\ UNCHANGED <<socketVars, connectVars, sendVars, receiving, stream, taken,
                             delivered, failed>>
           \/ ~Unheeded /\ (r.res = "ok" => r.unit[1] \in TooBig) /\ ReceiveFailed(reads \ {r})
  BY DEF HandleTcpRecvLengthBuffer
<1>2. CASE Unheeded /\ reads' = reads \ {r} /\ UNCHANGED <<socketVars, connectVars, sendVars,
                                                    receiving, stream, taken, delivered, failed>>
  BY <1>2, UnheededStep
<1>3. CASE ReceiveFailed(reads \ {r})
  BY <1>3, ReceiveFailedStep
<1>4. CASE /\ ~Unheeded /\ r.res = "ok" /\ r.unit[1] \notin TooBig
           /\ reads' = (reads \ {r}) \cup {Read("data")}
           /\ UNCHANGED <<socketVars, connectVars, sendVars, receiving, stream, taken,
                          delivered, failed>>
  <2>1. PICK q : q = Read("data")
    OBVIOUS
  <2>2. q \in Reading /\ q.what = "data" /\ q.res \in {"pending", "failed"} /\ (q.res = "pending" <=> link = "up")
    BY <2>1, FreshRead
  <2>3. open /\ receiving
    BY <1>4 DEF Unheeded
  <2>4. reads = {r} /\ reads' = {q}
    BY <1>0, <1>4, <2>1, <2>3 DEF ReadInv
  <2>5. PICK n \in Nat : n = Len(delivered)
    BY ReadNumbers
  <2>6. ReadAt(r, n)
    BY <1>0, <2>3, <2>5 DEF ReadInv
  <2>7. taken = 2 * n + 1 /\ stream[n + 1] \notin TooBig
    BY <1>1, <1>4, <2>6 DEF ReadAt
  <2>8. ReadAt(q, n)'
    BY <1>4, <2>2, <2>7 DEF ReadAt
  <2>9. ReadInv'
    BY <1>0, <1>4, <2>2, <2>3, <2>4, <2>5, <2>8 DEF ReadInv, ReceivedInOrder, socketVars
  <2>10. /\ receiving' \in BOOLEAN /\ reads' \subseteq Reading /\ taken' \in 0 .. 2 * Len(stream)
         /\ delivered' \in Seq(Unit)
    BY <1>4, <2>2, <2>4, ReadNumbers
  <2> QED BY <1>4, <2>9, <2>10, ReadStep
<1> QED BY <1>1, <1>2, <1>3, <1>4

LEMMA DataStep ==
  ASSUME SocketInv, HandleTcpRecvDataBuffer
  PROVE  SocketInv'
<1>0. ReadInv
  BY DEF SocketInv
<1>1. PICK r \in reads :
        /\ r.what = "data" /\ r.res # "pending"
        /\ \/ Unheeded /\ reads' = reads \ {r} /\ UNCHANGED <<socketVars, connectVars, sendVars,
                                                    receiving, stream, taken, delivered, failed>>
           \/ /\ ~Unheeded /\ r.res = "ok"
              /\ receiving' = FALSE /\ reads' = reads \ {r} /\ delivered' = Append(delivered, r.unit)
              /\ UNCHANGED <<socketVars, connectVars, sendVars, stream, taken, failed>>
           \/ ~Unheeded /\ r.res # "ok" /\ ReceiveFailed(reads \ {r})
  BY DEF HandleTcpRecvDataBuffer
<1>2. CASE Unheeded /\ reads' = reads \ {r} /\ UNCHANGED <<socketVars, connectVars, sendVars,
                                                    receiving, stream, taken, delivered, failed>>
  BY <1>2, UnheededStep
<1>3. CASE ReceiveFailed(reads \ {r})
  BY <1>3, ReceiveFailedStep
<1>4. CASE /\ ~Unheeded /\ r.res = "ok"
           /\ receiving' = FALSE /\ reads' = reads \ {r} /\ delivered' = Append(delivered, r.unit)
           /\ UNCHANGED <<socketVars, connectVars, sendVars, stream, taken, failed>>
  <2>1. open /\ reads = {r} /\ reads' = {}
    BY <1>0, <1>4 DEF ReadInv, Unheeded
  <2>2. PICK n \in Nat : n = Len(delivered)
    BY ReadNumbers
  <2>3. ReadAt(r, n)
    BY <1>0, <2>1, <2>2 DEF ReadInv
  <2>4. taken = 2 * n + 2 /\ r.unit = <<stream[n + 1], 2>> /\ stream[n + 1] \notin TooBig
    BY <1>1, <1>4, <2>3 DEF ReadAt
  <2>5. r.unit \in Unit
    <3>1. n + 1 \in 1 .. Len(stream)
      BY <2>4, ReadNumbers
    <3> QED BY <2>4, <3>1, ReadNumbers DEF Unit
  <2>6. /\ delivered' \in Seq(Unit) /\ Len(delivered') = n + 1
        /\ DOMAIN delivered' = 1 .. n + 1 /\ DOMAIN delivered = 1 .. n
        /\ \A i \in 1 .. n : delivered'[i] = delivered[i]
        /\ delivered'[n + 1] = r.unit
    BY <1>4, <2>2, <2>5, ReadNumbers
  <2>7. ReceivedInOrder'
    <3> SUFFICES ASSUME NEW i \in 1 .. n + 1
                 PROVE  delivered'[i] = <<stream[i], 2>> /\ stream[i] \notin TooBig
      BY <1>4, <2>6 DEF ReceivedInOrder
    <3>1. CASE i \in 1 .. n
      BY <1>0, <2>6, <3>1 DEF ReadInv, ReceivedInOrder
    <3>2. CASE i = n + 1
      BY <2>4, <2>6, <3>2
    <3> QED BY <3>1, <3>2
  <2>8. taken' = 2 * Len(delivered')
    <3>1. taken' = 2 * n + 2
      BY <1>4, <2>4
    <3> QED BY <2>6, <3>1
  <2>9. ReadInv'
    BY <1>0, <2>1, <2>7, <2>8 DEF ReadInv
  <2>10. /\ receiving' \in BOOLEAN /\ reads' \subseteq Reading /\ taken' \in 0 .. 2 * Len(stream)
         /\ delivered' \in Seq(Unit)
    BY <1>4, <2>1, <2>6, ReadNumbers
  <2> QED BY <1>4, <2>9, <2>10, ReadStep
<1> QED BY <1>1, <1>2, <1>3, <1>4

-----------------------------------------------------------------------------
(***************************************************************************)
(* The theorems                                                            *)
(***************************************************************************)

\* The invariant of the socket.
THEOREM SocketInvariant == Spec => []SocketInv
<1>1. Init => SocketInv
  <2> SUFFICES ASSUME Init PROVE SocketInv
    OBVIOUS
  <2> USE DEF Init
  <2>1. Types
    <3>1. 0 \in 0 .. MaxSockets /\ 0 \in 0 .. MaxSends /\ 0 \in 0 .. 0
      BY SocketAssumption
    <3>2. timer \in [armed : BOOLEAN, waiting : BOOLEAN, expired : Nat] /\ Len(stream) = 0
      OBVIOUS
    <3>3. /\ sockets \in 0 .. MaxSockets /\ sends \in 0 .. MaxSends /\ first \in 0 .. sends
          /\ taken \in 0 .. 2 * Len(stream)
      BY <3>1, <3>2
    <3>4. /\ posted \in Seq(1 .. MaxSends) /\ sendQueue \in Seq(1 .. MaxSends)
          /\ wire \in Seq((1 .. MaxSends) \X {1, 2}) /\ stream \in Seq(Packet)
          /\ delivered \in Seq(Unit)
      OBVIOUS
    <3>5. alive \in BOOLEAN /\ open \in BOOLEAN /\ receiving \in BOOLEAN /\ failed \in BOOLEAN /\ dialling \in BOOLEAN
      BY Zenon
    <3> QED BY <3>2, <3>3, <3>4, <3>5 DEF Types
  <2>2. Before = 0
    <3>1. Len(posted) = 0 /\ Len(sendQueue) = 0 /\ sends = 0
      OBVIOUS
    <3> HIDE DEF Init
    <3> QED BY <3>1 DEF Before
  <2>3. LinkInv /\ SendInv /\ ReadInv
    BY <2>2 DEF LinkInv, SendInv, QueueOrder, WriteInv, WireOrder, WireInv, ReadInv, ReceivedInOrder
  <2> QED BY <2>1, <2>3 DEF SocketInv
<1>2. SocketInv /\ [Next]_vars => SocketInv'
  <2> SUFFICES ASSUME SocketInv, [Next]_vars PROVE SocketInv'
    OBVIOUS
  <2>1. CASE UNCHANGED vars
    <3>1. Types' /\ LinkInv'
      BY <2>1 DEF SocketInv, Types, LinkInv, vars, socketVars, connectVars, sendVars, receiveVars
    <3>2. SendInv' /\ ReadInv'
      BY <2>1, SameSends, SameReads
        DEF SocketInv, vars, socketVars, connectVars, sendVars, receiveVars
    <3> QED BY <3>1, <3>2 DEF SocketInv
  <2>2. CASE Owner
    BY <2>2, CreateStep, ConnectSteps, SendStep, ReceiveStep, CloseSteps DEF Owner
  <2>3. CASE Network
    BY <2>3, LinkSteps, TransmitStep, WriteFailsStep, ReadEndsStep, ReadFailsStep DEF Network
  <2>4. CASE Expire
    BY <2>4, ConnectSteps
  <2>5. CASE Handler
    BY <2>5, ConnectSteps, HandleAsyncSendStep, HandleTcpSendStep, LengthStep, DataStep DEF Handler
  <2> QED BY <2>1, <2>2, <2>3, <2>4, <2>5 DEF Next
<1> QED BY <1>1, <1>2, PTL DEF Spec

\* At most one write and one read are under way on an open socket, whatever its owner calls.
THEOREM OneOfEach == Spec => []TypeOK
<1>1. SocketInv => TypeOK
  BY DEF SocketInv, SendInv, Types, WriteInv, ReadInv, TypeOK
<1> QED BY <1>1, SocketInvariant, PTL

\* Both directions keep packets and their order.
THEOREM OrderKept == Spec => []PacketsInOrder
<1>1. SocketInv => PacketsInOrder
  <2> SUFFICES ASSUME SocketInv PROVE PacketsInOrder
    OBVIOUS
  <2>1. WireOrder /\ ReceivedInOrder /\ wire \in Seq((1 .. MaxSends) \X {1, 2})
    BY DEF SocketInv, Types, SendInv, ReadInv
  <2>2. SentInOrder
    <3> SUFFICES ASSUME NEW i \in DOMAIN wire
                 PROVE  IF i % 2 = 1
                        THEN /\ wire[i][2] = 1
                             /\ IF failed THEN \A j \in 1 .. i - 1 : wire[j][1] < wire[i][1]
                                ELSE wire[i][1] = first + (i + 1) \div 2
                        ELSE wire[i] = <<wire[i - 1][1], 2>>
      BY DEF SentInOrder
    <3>1. i % 2 = 0 \/ i % 2 = 1
      BY <2>1
    <3> QED BY <2>1, <3>1 DEF WireOrder
  <2> QED BY <2>1, <2>2 DEF PacketsInOrder
<1> QED BY <1>1, SocketInvariant, PTL

\* The queue of an open socket never stops without a word, and no write finds it empty.
THEOREM QueueNeverStuck == Spec => []QueueMoves
<1>1. SocketInv => QueueMoves
  <2> SUFFICES ASSUME SocketInv, open PROVE QueueMoves
    BY DEF QueueMoves
  <2>1. WriteInv /\ QueueOrder /\ sendQueue \in Seq(1 .. MaxSends)
    BY DEF SocketInv, SendInv, Types
  <2>2. sendQueue # <<>> => Head(sendQueue) = Before + 1
    <3>1. sendQueue # <<>> => 1 \in DOMAIN sendQueue /\ Head(sendQueue) = sendQueue[1]
      BY <2>1
    <3> QED BY <2>1, <3>1 DEF QueueOrder
  <2> QED BY <2>1, <2>2 DEF WriteInv, QueueMoves
<1> QED BY <1>1, SocketInvariant, PTL

=============================================================================
