--------------------------- MODULE ChannelSafety ---------------------------
(***************************************************************************)
(* The receive window of a disciplined use of a channel is exact.  The     *)
(* argument follows three ledgers: the peer's stream of bytes and ours of  *)
(* credit, each message of which is stamped with its sender's total        *)
(* (DataStamps, CreditStamps), and the queue of packets, each stamped with *)
(* its place in its stream (QueueStamps); and it follows what is half sent *)
(* to the call that will finish it (AdjustHeld, PendingHeld).  The second  *)
(* part is about the end of a channel and of its streams, the third about  *)
(* the count of the bytes in the queue.                                    *)
(***************************************************************************)
EXTENDS ChannelProofs, SequenceTheorems, WellFoundedInduction, NaturalsInduction

\* Where a call may be waiting for the socket.
Sending == {"widen", "expand", "adjust", "wsend", "eof", "close", "close_send"}

\* On a lost connection transport_send() fails and changes nothing.
LEMMA SendDown ==
    ASSUME ~link, NEW m, NEW rc, TransportSend(m, rc)
    PROVE  UNCHANGED netVars /\ rc # "ok"
  BY DEF TransportSend

\* While the connection is up and no other kind of packet is half sent, a send
\* completes the packet or keeps it.
LEMMA SendUp ==
    ASSUME Disciplined, NetType, link, NEW m \in Packet, odata.kind \in {"none", m.kind},
           m.kind # "failure", NEW rc, TransportSend(m, rc)
    PROVE  \E x \in Packet :
             /\ x = IF odata.kind = "none" THEN m ELSE odata
             /\ \/ rc = "ok" /\ Carry(x)
                \/ /\ rc = "EAGAIN" /\ odata' \in {odata, x}
                   /\ UNCHANGED <<toPeer, granted, written, onWire>>
<1> DEFINE x == IF odata.kind = "none" THEN m ELSE odata
<1>1. odata.kind = "none" <=> odata = NoPacket
  BY DEF NetType, NoPacket, SendKinds
<1>2. x \in Packet
  BY <1>1 DEF NetType, Packet
<1>3. Blocking /\ ~MayTimeout
  BY DEF Disciplined
<1> QED
  BY <1>1, <1>2, <1>3 DEF TransportSend, StackPackets, NoPacket, netVars

\* On a lost connection receive_window_adjust() leaves the window as it was.
LEMMA AdjustDown ==
    ASSUME ~link, NEW w, NEW adj, NEW force, NEW rc, ReceiveWindowAdjust(w, adj, force, rc)
    PROVE  remote_window_size' = w /\ UNCHANGED netVars
<1>1. CASE QueueAdjust(w, adj, force, rc)
  BY <1>1 DEF QueueAdjust
<1>2. CASE SendAdjust(w, adj, force, rc)
  <2>1. \E m, s : /\ TransportSend(m, s)
                  /\ s = "ok" \/ remote_window_size' = w
    BY <1>2 DEF SendAdjust
  <2> QED
    BY <2>1, SendDown
<1> QED
  BY <1>1, <1>2 DEF ReceiveWindowAdjust

\* While the connection is up an adjustment that was interrupted is finished by the
\* call that asked for it: the window grows by what the packet grants.
LEMMA AdjustUp ==
    ASSUME Disciplined, NetType, AdjustType, link, NEW w \in Int, NEW adj \in Nat \ {0},
           NEW force \in BOOLEAN, NEW rc, ReceiveWindowAdjust(w, adj, force, rc),
           w >= 0, w + adj < Modulus, adjust_queue = 0,
           force \/ adj >= MinAdjust,
           adjust_state = "created" => adjust_adjust = adj,
           odata.kind \in {"none", "adjust"},
           odata.kind = "adjust" => adjust_state = "created" /\ odata.n = adjust_adjust
    PROVE  /\ adjust_queue' = 0
           /\ \/ /\ rc = "ok" /\ adjust_state' = "idle" /\ remote_window_size' = w + adj
                 /\ Carry([kind |-> "adjust", n |-> adj])
              \/ /\ rc = "EAGAIN" /\ adjust_state' = "created" /\ adjust_adjust' = adj
                 /\ remote_window_size' = w
                 /\ odata' \in {odata, [kind |-> "adjust", n |-> adj]}
                 /\ UNCHANGED <<toPeer, granted, written, onWire>>
<1> DEFINE m == [kind |-> "adjust", n |-> adj]
<1>0. Modulus \in Nat /\ MinAdjust \in Nat \ {0}
  BY ConstantFacts
<1>1. U32(adj + adjust_queue) = adj /\ U32(w + adj) = w + adj
  BY <1>0 DEF U32
<1>2. ~QueueAdjust(w, adj, force, rc)
  BY <1>0, <1>1 DEF QueueAdjust
<1>3. PICK s \in SendResults :
        /\ TransportSend(m, s)
        /\ \/ /\ s = "ok" /\ rc = "ok" /\ remote_window_size' = w + adj
              /\ adjust_state' = "idle" /\ adjust_queue' = 0
           \/ /\ s = "EAGAIN" /\ rc = "EAGAIN" /\ remote_window_size' = w
              /\ adjust_state' = "created" /\ adjust_adjust' = adj /\ adjust_queue' = 0
           \/ s \in {"BAD_USE", "SOCKET_SEND"}
  <2>1. SendAdjust(w, adj, force, rc)
    BY <1>2 DEF ReceiveWindowAdjust
  <2>2. CASE adjust_state = "idle"
    BY <2>1, <2>2, <1>1 DEF SendAdjust
  <2>3. CASE adjust_state = "created"
    BY <2>1, <2>3, <1>1 DEF SendAdjust
  <2> QED
    BY <2>2, <2>3 DEF AdjustType
<1>4. m \in Packet
  BY DEF Packet, SendKinds
<1>5. odata.kind = "adjust" => odata = m
  BY DEF NetType, NoPacket
<1>6. \/ s = "ok" /\ Carry(m)
      \/ /\ s = "EAGAIN" /\ odata' \in {odata, m}
         /\ UNCHANGED <<toPeer, granted, written, onWire>>
  <2>1. m.kind = "adjust"
    OBVIOUS
  <2> HIDE DEF m
  <2> QED
    BY <1>3, <1>4, <1>5, <2>1, SendUp
<1> QED
  BY <1>3, <1>6

\* What read() may return is queued, and what is queued fits in the window.
LEMMA Bounds ==
    ASSUME TypeOK, RecvInv, ~freed
    PROVE  /\ bytes_read <= read_avail /\ read_avail <= remote_window_size
           /\ received <= granted /\ remote_window_size >= 0
           /\ remote_window_size - read_avail = granted - received
<1>1. /\ read_avail \in Int /\ remote_window_size \in Int /\ bytes_read \in Nat
      /\ granted \in Int /\ received \in Int /\ peerSent \in Int /\ peerAllowed \in Int
  BY DEF TypeOK, RecvType, AdjustType, CallType, NetType, PeerType
<1>2. /\ arrived[0] \in Int /\ arrived[1] \in Int /\ taken[0] \in Int /\ taken[1] \in Int
  BY DEF TypeOK, RecvType, Streams
<1>3. /\ taken[0] <= arrived[0] /\ taken[1] <= arrived[1]
      /\ read_avail - bytes_read = (arrived[0] - taken[0]) + (arrived[1] - taken[1])
  BY DEF RecvInv, QueueStamps, Streams
<1>4. received <= peerSent /\ peerSent <= peerAllowed /\ peerAllowed <= granted
  BY DEF RecvInv, DataStamps, CreditStamps
<1>5. remote_window_size - read_avail = granted - received
  BY DEF RecvInv, WindowAgreement
<1>6. bytes_read <= read_avail
  BY <1>1, <1>2, <1>3
<1>7. received <= granted
  BY <1>1, <1>4
<1> QED
  BY <1>1, <1>5, <1>6, <1>7

\* A packet of ours is stamped with the credit granted so far,
LEMMA CreditCarried ==
    ASSUME TypeOK, CreditStamps, NEW x \in Packet, Carry(x), Credit(x) >= 0,
           UNCHANGED <<peerSent, peerAllowed>>
    PROVE  CreditStamps' /\ granted' = granted + Credit(x)
<1> DEFINE m == [kind |-> x.kind, n |-> x.n, granted |-> granted + Credit(x)]
<1>0. /\ peerSent \in Int /\ peerAllowed \in Int /\ granted \in Int
      /\ toPeer \in Seq(Outbound)
  BY DEF TypeOK, PeerType, NetType
<1>1. Credit(x) \in Int
  BY DEF Credit, Packet
<1>2. granted' = granted + Credit(x) /\ toPeer' = Append(toPeer, m)
  BY DEF Carry, Credit
<1>3. Credit(m) = Credit(x) /\ m.granted = granted + Credit(x)
  BY DEF Credit
<1>4. \A i \in DOMAIN toPeer : toPeer[i].granted \in Int /\ Credit(toPeer[i]) \in Int
  <2>1. \A i \in DOMAIN toPeer : toPeer[i] \in Outbound
    BY <1>0
  <2> QED
    BY <2>1 DEF Outbound, Credit
<1>5. \A i \in DOMAIN toPeer' : \/ i \in DOMAIN toPeer /\ toPeer'[i] = toPeer[i]
                                \/ i = Len(toPeer) + 1 /\ toPeer'[i] = m
  BY <1>0, <1>2
<1>6. (\A i \in DOMAIN toPeer : i < Len(toPeer) + 1 /\ i \in Int) /\ Len(toPeer) \in Nat
  BY <1>0
<1> HIDE DEF m
<1>7. peerSent' <= peerAllowed' /\ peerAllowed' <= granted'
  BY <1>0, <1>1, <1>2 DEF CreditStamps
<1>8. ASSUME NEW i \in DOMAIN toPeer'
      PROVE  /\ Credit(toPeer'[i]) >= 0 /\ toPeer'[i].granted <= granted'
             /\ peerAllowed' + Credit(toPeer'[i]) <= toPeer'[i].granted
  <2>1. CASE i \in DOMAIN toPeer /\ toPeer'[i] = toPeer[i]
    BY <2>1, <1>0, <1>1, <1>2, <1>4 DEF CreditStamps
  <2>2. CASE toPeer'[i] = m
    BY <2>2, <1>0, <1>1, <1>2, <1>3 DEF CreditStamps
  <2> QED
    BY <2>1, <2>2, <1>5
<1>9. ASSUME NEW i \in DOMAIN toPeer', NEW j \in DOMAIN toPeer', i < j
      PROVE  toPeer'[i].granted + Credit(toPeer'[j]) <= toPeer'[j].granted
  <2>1. CASE /\ i \in DOMAIN toPeer /\ toPeer'[i] = toPeer[i]
             /\ j \in DOMAIN toPeer /\ toPeer'[j] = toPeer[j]
    BY <2>1, <1>9 DEF CreditStamps
  <2>2. CASE /\ i \in DOMAIN toPeer /\ toPeer'[i] = toPeer[i] /\ toPeer'[j] = m
    BY <2>2, <1>0, <1>1, <1>3, <1>4 DEF CreditStamps
  <2>3. CASE i = Len(toPeer) + 1
    BY <2>3, <1>9, <1>5, <1>6
  <2> QED
    BY <2>1, <2>2, <2>3, <1>5
<1> QED
  BY <1>2, <1>7, <1>8, <1>9 DEF CreditStamps, Credit

\* and the peer that takes it adds the credit it carries.
LEMMA CreditReceived ==
    ASSUME TypeOK, CreditStamps, toPeer # <<>>, toPeer' = Tail(toPeer),
           peerAllowed' = peerAllowed + Credit(Head(toPeer)),
           UNCHANGED <<peerSent, granted>>
    PROVE  CreditStamps'
<1>0. /\ peerSent \in Int /\ peerAllowed \in Int /\ granted \in Int
      /\ toPeer \in Seq(Outbound)
  BY DEF TypeOK, PeerType, NetType
<1>1. \A i \in DOMAIN toPeer : toPeer[i].granted \in Int /\ Credit(toPeer[i]) \in Int
  <2>1. \A i \in DOMAIN toPeer : toPeer[i] \in Outbound
    BY <1>0
  <2> QED
    BY <2>1 DEF Outbound, Credit
<1>2. Head(toPeer) = toPeer[1] /\ 1 \in DOMAIN toPeer
  BY <1>0
<1>3. \A i \in DOMAIN toPeer' : /\ i + 1 \in DOMAIN toPeer /\ i + 1 > 1 /\ i \in Int
                                /\ toPeer'[i] = toPeer[i + 1]
  BY <1>0
<1> DEFINE c == Credit(toPeer[1])
           g == toPeer[1].granted
<1>4. /\ c \in Int /\ c >= 0 /\ g \in Int /\ peerAllowed' = peerAllowed + c
      /\ peerAllowed + c <= g /\ g <= granted
  BY <1>1, <1>2 DEF CreditStamps
<1>5. \A i \in DOMAIN toPeer' : g + Credit(toPeer[i + 1]) <= toPeer[i + 1].granted
  BY <1>2, <1>3 DEF CreditStamps
<1> HIDE DEF c, g
<1>6. peerSent' <= peerAllowed' /\ peerAllowed' <= granted'
  BY <1>0, <1>4 DEF CreditStamps
<1>7. ASSUME NEW i \in DOMAIN toPeer'
      PROVE  /\ Credit(toPeer'[i]) >= 0 /\ toPeer'[i].granted <= granted'
             /\ peerAllowed' + Credit(toPeer'[i]) <= toPeer'[i].granted
  <2>1. /\ Credit(toPeer[i + 1]) >= 0 /\ toPeer[i + 1].granted <= granted
    BY <1>3 DEF CreditStamps
  <2>2. peerAllowed' + Credit(toPeer[i + 1]) <= toPeer[i + 1].granted
    BY <1>0, <1>1, <1>3, <1>4, <1>5
  <2> QED
    BY <2>1, <2>2, <1>3
<1>8. ASSUME NEW i \in DOMAIN toPeer', NEW j \in DOMAIN toPeer', i < j
      PROVE  toPeer'[i].granted + Credit(toPeer'[j]) <= toPeer'[j].granted
  <2>1. i + 1 < j + 1
    BY <1>3, <1>8
  <2> QED
    BY <1>3, <2>1 DEF CreditStamps
<1> QED
  BY <1>6, <1>7, <1>8 DEF CreditStamps, Credit

\* A packet of the peer is stamped with the bytes it has sent so far,
LEMMA DataSaid ==
    ASSUME TypeOK, DataStamps, NEW kind \in {"data", "eof", "close", "adjust", "kexinit"},
           NEW s, NEW n \in Nat,
           kind = "data" => n <= PacketSize,
           PeerSays(kind, s, n),
           peerSent' = peerSent + (IF kind = "data" THEN n ELSE 0)
    PROVE  DataStamps'
<1> DEFINE m == [kind |-> kind, stream |-> s, n |-> n, sent |-> peerSent',
                 granted |-> peerGranted']
<1>0. /\ peerSent \in Int /\ received \in Int /\ toClient \in Seq(Inbound)
      /\ PacketSize \in Nat
  BY ConstantFacts DEF TypeOK, PeerType, RecvType
<1>1. toClient' = Append(toClient, m) /\ received' = received
  BY DEF PeerSays, clientVars
<1>2. /\ m.sent = peerSent' /\ Bytes(m) = peerSent' - peerSent /\ m.kind # "request"
      /\ peerSent' >= peerSent /\ peerSent' \in Int /\ Bytes(m) <= PacketSize
  BY <1>0 DEF Bytes
<1>4. \A i \in DOMAIN toClient : toClient[i].sent \in Int /\ Bytes(toClient[i]) \in Int
  <2>1. \A i \in DOMAIN toClient : toClient[i] \in Inbound
    BY <1>0
  <2> QED
    BY <2>1 DEF Inbound, Bytes
<1>5. \A i \in DOMAIN toClient' : \/ i \in DOMAIN toClient /\ toClient'[i] = toClient[i]
                                  \/ i = Len(toClient) + 1 /\ toClient'[i] = m
  BY <1>0, <1>1
<1>6. (\A i \in DOMAIN toClient : i < Len(toClient) + 1 /\ i \in Int) /\ Len(toClient) \in Nat
  BY <1>0
<1> HIDE DEF m
<1>7. received' <= peerSent'
  BY <1>0, <1>1, <1>2 DEF DataStamps
<1>8. ASSUME NEW i \in DOMAIN toClient'
      PROVE  /\ toClient'[i].sent <= peerSent'
             /\ received' + Bytes(toClient'[i]) <= toClient'[i].sent
             /\ Bytes(toClient'[i]) <= PacketSize /\ toClient'[i].kind # "request"
  <2>1. CASE i \in DOMAIN toClient /\ toClient'[i] = toClient[i]
    BY <2>1, <1>0, <1>1, <1>2, <1>4 DEF DataStamps
  <2>2. CASE toClient'[i] = m
    BY <2>2, <1>0, <1>1, <1>2 DEF DataStamps
  <2> QED
    BY <2>1, <2>2, <1>5
<1>9. ASSUME NEW i \in DOMAIN toClient', NEW j \in DOMAIN toClient', i < j
      PROVE  toClient'[i].sent + Bytes(toClient'[j]) <= toClient'[j].sent
  <2>1. CASE /\ i \in DOMAIN toClient /\ toClient'[i] = toClient[i]
             /\ j \in DOMAIN toClient /\ toClient'[j] = toClient[j]
    BY <2>1, <1>9 DEF DataStamps
  <2>2. CASE /\ i \in DOMAIN toClient /\ toClient'[i] = toClient[i] /\ toClient'[j] = m
    BY <2>2, <1>0, <1>2, <1>4 DEF DataStamps
  <2>3. CASE i = Len(toClient) + 1
    BY <2>3, <1>9, <1>5, <1>6
  <2> QED
    BY <2>1, <2>2, <2>3, <1>5
<1> QED
  BY <1>7, <1>8, <1>9 DEF DataStamps, Bytes

\* and transport_read() takes the packet that was sent first.
LEMMA DataReceived ==
    ASSUME TypeOK, DataStamps, toClient # <<>>, toClient' = Tail(toClient),
           received' = received + Bytes(Head(toClient)), UNCHANGED peerSent
    PROVE  DataStamps'
<1>0. /\ peerSent \in Int /\ received \in Int /\ toClient \in Seq(Inbound)
  BY DEF TypeOK, PeerType, RecvType
<1>1. \A i \in DOMAIN toClient : toClient[i].sent \in Int /\ Bytes(toClient[i]) \in Nat
  <2>1. \A i \in DOMAIN toClient : toClient[i] \in Inbound
    BY <1>0
  <2> QED
    BY <2>1 DEF Inbound, Bytes
<1>2. Head(toClient) = toClient[1] /\ 1 \in DOMAIN toClient
  BY <1>0
<1>3. \A i \in DOMAIN toClient' : /\ i + 1 \in DOMAIN toClient /\ i + 1 > 1 /\ i \in Int
                                  /\ toClient'[i] = toClient[i + 1]
  BY <1>0
<1> DEFINE c == Bytes(toClient[1])
           g == toClient[1].sent
<1>4. /\ c \in Nat /\ g \in Int /\ received' = received + c
      /\ received + c <= g /\ g <= peerSent
  BY <1>1, <1>2 DEF DataStamps
<1>5. \A i \in DOMAIN toClient' : g + Bytes(toClient[i + 1]) <= toClient[i + 1].sent
  BY <1>2, <1>3 DEF DataStamps
<1> HIDE DEF c, g
<1>6. received' <= peerSent'
  BY <1>0, <1>4
<1>7. ASSUME NEW i \in DOMAIN toClient'
      PROVE  /\ toClient'[i].sent <= peerSent'
             /\ received' + Bytes(toClient'[i]) <= toClient'[i].sent
             /\ Bytes(toClient'[i]) <= PacketSize /\ toClient'[i].kind # "request"
  <2>1. /\ toClient[i + 1].sent <= peerSent /\ Bytes(toClient[i + 1]) <= PacketSize
        /\ toClient[i + 1].kind # "request"
    BY <1>3 DEF DataStamps
  <2>2. received' + Bytes(toClient[i + 1]) <= toClient[i + 1].sent
    <3> DEFINE b == Bytes(toClient[i + 1])
               h == toClient[i + 1].sent
    <3>1. b \in Int /\ h \in Int /\ received \in Int
      BY <1>0, <1>1, <1>3
    <3>2. g + b <= h
      BY <1>5
    <3> HIDE DEF b, h
    <3>3. received' + b <= h
      BY <1>4, <3>1, <3>2
    <3> QED
      BY <3>3 DEF b, h
  <2> QED
    BY <2>1, <2>2, <1>3
<1>8. ASSUME NEW i \in DOMAIN toClient', NEW j \in DOMAIN toClient', i < j
      PROVE  toClient'[i].sent + Bytes(toClient'[j]) <= toClient'[j].sent
  <2>1. i + 1 < j + 1
    BY <1>3, <1>8
  <2> QED
    BY <1>3, <2>1 DEF DataStamps
<1> QED
  BY <1>6, <1>7, <1>8 DEF DataStamps, Bytes

\* Removing packet i leaves those before it in place and moves the others down.
LEMMA WithoutElements ==
    ASSUME RecvType, NEW i \in DOMAIN packets
    PROVE  \A k \in DOMAIN Without(i) :
              \/ k < i /\ k \in DOMAIN packets /\ Without(i)[k] = packets[k]
              \/ k >= i /\ k + 1 \in DOMAIN packets /\ Without(i)[k] = packets[k + 1]
<1> DEFINE n == Len(packets)
           a == SubSeq(packets, 1, i - 1)
           b == SubSeq(packets, i + 1, n)
<1>1. packets \in Seq(Queued) /\ i \in 1..n /\ n \in Nat /\ DOMAIN packets = 1..n
  BY DEF RecvType
<1>2. /\ a \in Seq(Queued) /\ Len(a) = i - 1
      /\ \A k \in 1..(i - 1) : a[k] = packets[k]
  BY <1>1
<1>3. /\ b \in Seq(Queued) /\ Len(b) = n - i
      /\ \A k \in 1..(n - i) : b[k] = packets[k + i]
  BY <1>1
<1>4. Without(i) = a \o b
  BY DEF Without
<1> HIDE DEF n, a, b
<1>5. /\ a \o b \in Seq(Queued) /\ Len(a \o b) = n - 1
      /\ \A k \in 1..(n - 1) : (a \o b)[k] = IF k <= i - 1 THEN a[k] ELSE b[k - (i - 1)]
  <2>1. /\ a \o b \in Seq(Queued) /\ Len(a \o b) = Len(a) + Len(b)
        /\ \A k \in 1 .. Len(a) + Len(b) :
              (a \o b)[k] = IF k <= Len(a) THEN a[k] ELSE b[k - Len(a)]
    BY <1>2, <1>3, ConcatProperties
  <2>2. Len(a) + Len(b) = n - 1
    BY <1>1, <1>2, <1>3
  <2> QED
    BY <2>1, <2>2, <1>2
<1>6. ASSUME NEW k \in 1..(n - 1)
      PROVE  \/ k < i /\ k \in 1..n /\ (a \o b)[k] = packets[k]
             \/ k >= i /\ k + 1 \in 1..n /\ (a \o b)[k] = packets[k + 1]
  <2>1. CASE k < i
    BY <2>1, <1>1, <1>2, <1>5
  <2>2. CASE k >= i
    <3>1. k - (i - 1) \in 1..(n - i) /\ (k - (i - 1)) + i = k + 1
      BY <2>2, <1>1
    <3>2. b[k - (i - 1)] = packets[k + 1]
      BY <3>1, <1>3
    <3> QED
      BY <2>2, <3>2, <1>1, <1>5
  <2>3. k < i \/ k >= i
    BY <1>1
  <2> QED
    BY <2>1, <2>2, <2>3
<1>7. DOMAIN (a \o b) = 1..(n - 1)
  BY <1>5
<1> QED
  BY <1>1, <1>4, <1>6, <1>7

\* The balance of the queue: a byte that arrives adds one to read_avail, a byte that
\* is copied adds one to bytes_read.
LEMMA Balance ==
    ASSUME NEW r \in Int, NEW k \in Int, NEW c \in Int, NEW d \in Int, NEW t \in Int,
           NEW u \in Int, NEW v \in Int, r - k = (c - t) + (d - u)
    PROVE  /\ (r + v) - k = ((c + v) - t) + (d - u)
           /\ (r + v) - k = (c - t) + ((d + v) - u)
           /\ r - (k + v) = (c - (t + v)) + (d - u)
           /\ r - (k + v) = (c - t) + (d - (u + v))
  OBVIOUS

\* packet_add() appends a DATA packet to the queue.
LEMMA QueueAdded ==
    ASSUME TypeOK, QueueStamps, ~freed, NEW s \in Streams, NEW len \in Nat,
           packets' = Append(packets, [stream |-> s, size |-> len, left |-> len,
                                       upto |-> arrived[s] + len]),
           arrived' = [arrived EXCEPT ![s] = @ + len],
           read_avail' = read_avail + len,
           UNCHANGED <<taken, freed, bytes_read>>
    PROVE  QueueStamps'
<1> DEFINE m == [stream |-> s, size |-> len, left |-> len, upto |-> arrived[s] + len]
<1>0. /\ arrived \in [Streams -> Int] /\ taken \in [Streams -> Int]
      /\ packets \in Seq(Queued) /\ read_avail \in Int /\ bytes_read \in Int
  BY DEF TypeOK, RecvType, CallType
<1>1. \A t \in Streams : /\ arrived'[t] \in Int /\ arrived[t] \in Int /\ taken[t] \in Int
                         /\ arrived[t] <= arrived'[t]
                         /\ taken[t] <= arrived[t]
  <2>1. \A t \in Streams : arrived[t] \in Int /\ taken[t] \in Int
    BY <1>0
  <2>2. \A t \in Streams : arrived'[t] = IF t = s THEN arrived[t] + len ELSE arrived[t]
    BY <1>0
  <2>3. \A t \in Streams : taken[t] <= arrived[t]
    BY DEF QueueStamps
  <2> QED
    BY <2>1, <2>2, <2>3
<1>2. arrived'[s] = arrived[s] + len
  BY <1>0
<1>3. \A i \in DOMAIN packets : /\ packets[i].upto \in Int /\ packets[i].left \in Int
                                /\ packets[i].stream \in Streams
  <2>1. \A i \in DOMAIN packets : packets[i] \in Queued
    BY <1>0
  <2> QED
    BY <2>1 DEF Queued
<1>4. m.stream = s /\ m.left = len /\ m.upto = arrived[s] + len
  OBVIOUS
<1>5. \A i \in DOMAIN packets' : \/ i \in DOMAIN packets /\ packets'[i] = packets[i]
                                 \/ i = Len(packets) + 1 /\ packets'[i] = m
  BY <1>0
<1>6. (\A i \in DOMAIN packets : i < Len(packets) + 1 /\ i \in Int) /\ Len(packets) \in Nat
  BY <1>0
<1> HIDE DEF m
<1>7. \A t \in Streams : taken'[t] <= arrived'[t]
  BY <1>1
<1>8. ASSUME NEW i \in DOMAIN packets'
      PROVE  /\ packets'[i].upto <= arrived'[packets'[i].stream]
             /\ taken'[packets'[i].stream] + packets'[i].left <= packets'[i].upto
  <2>1. CASE i \in DOMAIN packets /\ packets'[i] = packets[i]
    <3>1. /\ packets[i].upto <= arrived[packets[i].stream]
          /\ taken[packets[i].stream] + packets[i].left <= packets[i].upto
      BY <2>1 DEF QueueStamps
    <3>2. /\ arrived[packets[i].stream] <= arrived'[packets[i].stream]
          /\ arrived[packets[i].stream] \in Int /\ arrived'[packets[i].stream] \in Int
          /\ packets[i].upto \in Int
      BY <2>1, <1>1, <1>3
    <3>3. packets[i].upto <= arrived'[packets[i].stream]
      BY <3>1, <3>2
    <3> QED
      BY <2>1, <3>1, <3>3
  <2>2. CASE packets'[i] = m
    <3>1. taken[s] <= arrived[s] /\ taken[s] \in Int /\ arrived[s] \in Int
      BY <1>1
    <3>2. taken'[s] + len <= arrived[s] + len
      BY <3>1
    <3> QED
      BY <2>2, <1>2, <1>4, <3>1, <3>2
  <2> QED
    BY <2>1, <2>2, <1>5
<1>9. ASSUME NEW i \in DOMAIN packets', NEW j \in DOMAIN packets', i < j,
             packets'[i].stream = packets'[j].stream
      PROVE  packets'[i].upto + packets'[j].left <= packets'[j].upto
  <2>1. CASE /\ i \in DOMAIN packets /\ packets'[i] = packets[i]
             /\ j \in DOMAIN packets /\ packets'[j] = packets[j]
    BY <2>1, <1>9 DEF QueueStamps
  <2>2. CASE /\ i \in DOMAIN packets /\ packets'[i] = packets[i] /\ packets'[j] = m
    <3>1. packets[i].upto <= arrived[s] /\ packets[i].upto \in Int /\ arrived[s] \in Int
      BY <2>2, <1>9, <1>1, <1>3, <1>4 DEF QueueStamps
    <3> QED
      BY <2>2, <3>1, <1>4
  <2>3. CASE i = Len(packets) + 1
    BY <2>3, <1>9, <1>5, <1>6
  <2> QED
    BY <2>1, <2>2, <2>3, <1>5
<1>10. read_avail' - bytes_read' = (arrived'[0] - taken'[0]) + (arrived'[1] - taken'[1])
  <2>1. /\ read_avail - bytes_read = (arrived[0] - taken[0]) + (arrived[1] - taken[1])
        /\ arrived[0] \in Int /\ arrived[1] \in Int /\ taken[0] \in Int /\ taken[1] \in Int
    BY <1>1 DEF QueueStamps, Streams
  <2>2. \/ arrived'[0] = arrived[0] + len /\ arrived'[1] = arrived[1]
        \/ arrived'[1] = arrived[1] + len /\ arrived'[0] = arrived[0]
    BY <1>0 DEF Streams
  <2> DEFINE c == arrived[0]
             d == arrived[1]
             t == taken[0]
             u == taken[1]
  <2>3. /\ read_avail - bytes_read = (c - t) + (d - u)
        /\ c \in Int /\ d \in Int /\ t \in Int /\ u \in Int
        /\ read_avail \in Int /\ bytes_read \in Int /\ len \in Int
    BY <1>0, <2>1
  <2> HIDE DEF c, d, t, u
  <2>4. /\ (read_avail + len) - bytes_read = ((c + len) - t) + (d - u)
        /\ (read_avail + len) - bytes_read = (c - t) + ((d + len) - u)
    BY ONLY <2>3, Balance
  <2> QED
    BY <2>2, <2>4 DEF c, d, t, u
<1> QED
  BY <1>7, <1>8, <1>9, <1>10 DEF QueueStamps

\* One turn of read()'s copy loop takes bytes from the first packet of a stream.
LEMMA QueueCopied ==
    ASSUME TypeOK, QueueStamps, ~freed, NEW i \in DOMAIN packets, CopyFrom(i),
           First(i, Readable(call.stream)), bytes_read < call.n,
           UNCHANGED <<arrived, freed, read_avail>>
    PROVE  QueueStamps'
<1> DEFINE s == packets[i].stream
           want == Min2(call.n - bytes_read, packets[i].left)
<1>0. /\ arrived \in [Streams -> Int] /\ taken \in [Streams -> Int]
      /\ packets \in Seq(Queued) /\ read_avail \in Int /\ bytes_read \in Nat
      /\ call.n \in Nat /\ RecvType
  BY DEF TypeOK, RecvType, CallType, ControlType
<1>1. \A k \in DOMAIN packets : /\ packets[k].upto \in Int /\ packets[k].left \in Nat
                                /\ packets[k].stream \in Streams /\ k \in Int
  <2>1. \A k \in DOMAIN packets : packets[k] \in Queued /\ k \in Int
    BY <1>0
  <2> QED
    BY <2>1 DEF Queued
<1>2. want \in Nat /\ want <= packets[i].left /\ s \in Streams
  BY <1>0, <1>1 DEF Min2
<1>3. /\ bytes_read' = bytes_read + want
      /\ taken' = [taken EXCEPT ![s] = @ + want]
      /\ \/ packets' = Without(i)
         \/ packets' = [packets EXCEPT ![i].left = @ - want]
  BY DEF CopyFrom
<1>4. \A k \in DOMAIN packets : k < i => packets[k].stream # s
  BY <1>1 DEF First, Readable
<1> HIDE DEF want
<1>5. \A t \in Streams : /\ taken'[t] = IF t = s THEN taken[t] + want ELSE taken[t]
                         /\ taken[t] \in Int /\ arrived[t] \in Int
  BY <1>0, <1>3
<1> DEFINE From(k, l) == /\ l \in DOMAIN packets /\ packets'[k].stream = packets[l].stream
                         /\ packets'[k].upto = packets[l].upto
                         /\ \/ l # i /\ packets'[k].left = packets[l].left
                            \/ l = i /\ packets'[k].left = packets[l].left - want
\* every packet of the new queue is one of the old queue, in the same order
<1>6. /\ \A k \in DOMAIN packets' : \E l \in DOMAIN packets : From(k, l)
      /\ \A k, h \in DOMAIN packets' : k < h =>
            \E l, e \in DOMAIN packets : From(k, l) /\ From(h, e) /\ l < e
  <2>1. CASE packets' = Without(i)
    <3>1. \A k \in DOMAIN packets' :
             /\ k < i => From(k, k)
             /\ k >= i => From(k, k + 1)
             /\ k \in Int
      <4>1. \A k \in DOMAIN packets' :
              \/ k < i /\ k \in DOMAIN packets /\ packets'[k] = packets[k]
              \/ k >= i /\ k + 1 \in DOMAIN packets /\ packets'[k] = packets[k + 1]
        BY <2>1, <1>0, WithoutElements
      <4>2. \A k \in DOMAIN packets' : k \in Int
        <5>1. packets' \in Seq(Queued)
          BY <2>1, <1>0, WithoutTyped
        <5> QED
          BY <5>1
      <4> QED
        BY <4>1, <4>2, <1>1
    <3>2. i \in Int
      BY <1>1
    <3> HIDE DEF From
    <3>3. \A k \in DOMAIN packets' : k < i \/ k >= i
      BY <3>1, <3>2
    <3>4. \A k, l : From(k, l) => l \in DOMAIN packets
      BY DEF From
    <3>5. \A k, h \in DOMAIN packets' : k < h =>
            \E l, e \in DOMAIN packets : From(k, l) /\ From(h, e) /\ l < e
      <4> SUFFICES ASSUME NEW k \in DOMAIN packets', NEW h \in DOMAIN packets', k < h
                   PROVE  \E l, e \in DOMAIN packets : From(k, l) /\ From(h, e) /\ l < e
        OBVIOUS
      <4>0. k \in Int /\ h \in Int
        BY <3>1
      <4>1. CASE h < i
        BY <4>0, <4>1, <3>1, <3>2, <3>4
      <4>2. CASE k < i /\ h >= i
        BY <4>0, <4>2, <3>1, <3>2, <3>4
      <4>3. CASE k >= i
        BY <4>0, <4>3, <3>1, <3>2, <3>4
      <4> QED
        BY <4>0, <4>1, <4>2, <4>3, <3>2
    <3>6. \A k \in DOMAIN packets' : \E l \in DOMAIN packets : From(k, l)
      BY <3>1, <3>3, <3>4
    <3> QED
      BY <3>5, <3>6
  <2>2. CASE packets' = [packets EXCEPT ![i].left = @ - want]
    <3> DEFINE p == [packets[i] EXCEPT !.left = @ - want]
    <3>0. /\ p.stream = packets[i].stream /\ p.upto = packets[i].upto
          /\ p.left = packets[i].left - want
      <4>1. packets[i] \in Queued
        BY <1>0
      <4> QED
        BY <4>1 DEF Queued
    <3>1. DOMAIN packets' = DOMAIN packets /\ packets' = [packets EXCEPT ![i] = p]
      BY <2>2, <1>0
    <3> HIDE DEF p
    <3>3. \A k \in DOMAIN packets : From(k, k)
      BY <3>0, <3>1, <1>0
    <3> QED
      BY <3>1, <3>3
  <2> QED
    BY <2>1, <2>2, <1>3
<1>7. /\ taken[s] + packets[i].left <= packets[i].upto
      /\ packets[i].upto <= arrived[s]
  BY DEF QueueStamps
<1>8. \A t \in Streams : taken'[t] <= arrived'[t]
  BY <1>1, <1>2, <1>5, <1>7 DEF QueueStamps
<1>9. ASSUME NEW k \in DOMAIN packets'
      PROVE  /\ packets'[k].upto <= arrived'[packets'[k].stream]
             /\ taken'[packets'[k].stream] + packets'[k].left <= packets'[k].upto
  <2>1. PICK l \in DOMAIN packets : From(k, l)
    BY <1>6
  <2>2. /\ packets[l].upto <= arrived[packets[l].stream]
        /\ taken[packets[l].stream] + packets[l].left <= packets[l].upto
    BY DEF QueueStamps
  <2>3. CASE l = i
    BY <2>1, <2>2, <2>3, <1>1, <1>2, <1>5
  <2>4. CASE l # i /\ packets[l].stream # s
    BY <2>1, <2>2, <2>4, <1>1, <1>2, <1>5
  <2>5. CASE l # i /\ packets[l].stream = s
    <3>1. i < l
      BY <2>5, <1>1, <1>4
    <3>2. packets[i].upto + packets[l].left <= packets[l].upto
      BY <3>1, <2>5 DEF QueueStamps
    <3> QED
      BY <2>1, <2>2, <2>5, <3>2, <1>1, <1>2, <1>5, <1>7
  <2> QED
    BY <2>3, <2>4, <2>5
<1>10. ASSUME NEW k \in DOMAIN packets', NEW h \in DOMAIN packets', k < h,
              packets'[k].stream = packets'[h].stream
       PROVE  packets'[k].upto + packets'[h].left <= packets'[h].upto
  <2>1. PICK l \in DOMAIN packets, e \in DOMAIN packets :
           From(k, l) /\ From(h, e) /\ l < e
    BY <1>6, <1>10
  <2>2. packets[l].upto + packets[e].left <= packets[e].upto
    BY <2>1, <1>10 DEF QueueStamps
  <2>3. packets'[h].left <= packets[e].left /\ packets'[h].left \in Int
    BY <2>1, <1>1, <1>2
  <2> QED
    BY <2>1, <2>2, <2>3, <1>1
<1>11. read_avail' - bytes_read' = (arrived'[0] - taken'[0]) + (arrived'[1] - taken'[1])
  <2>1. /\ read_avail - bytes_read = (arrived[0] - taken[0]) + (arrived[1] - taken[1])
        /\ arrived[0] \in Int /\ arrived[1] \in Int /\ taken[0] \in Int /\ taken[1] \in Int
    BY <1>0 DEF QueueStamps, Streams
  <2>2. \/ taken'[0] = taken[0] + want /\ taken'[1] = taken[1]
        \/ taken'[1] = taken[1] + want /\ taken'[0] = taken[0]
    BY <1>2, <1>5 DEF Streams
  <2> DEFINE c == arrived[0]
             d == arrived[1]
             t == taken[0]
             u == taken[1]
  <2>3. /\ read_avail - bytes_read = (c - t) + (d - u)
        /\ c \in Int /\ d \in Int /\ t \in Int /\ u \in Int
        /\ read_avail \in Int /\ bytes_read \in Int /\ want \in Int
    BY <1>0, <1>2, <2>1
  <2> HIDE DEF c, d, t, u
  <2>4. /\ read_avail - (bytes_read + want) = (c - (t + want)) + (d - u)
        /\ read_avail - (bytes_read + want) = (c - t) + (d - (u + want))
    BY ONLY <2>3, Balance
  <2> QED
    BY <1>3, <2>2, <2>4 DEF c, d, t, u
<1> QED
  BY <1>8, <1>9, <1>10, <1>11 DEF QueueStamps

\* A DATA packet of a peer that keeps to its window fits in ours, so that neither
\* "data ignored" nor "truncating" is reached.
LEMMA DataFits ==
    ASSUME TypeOK, RecvInv, ~freed, toClient # <<>>, Head(toClient).kind = "data"
    PROVE  /\ Head(toClient).n \in Nat
           /\ Head(toClient).n <= remote_window_size - read_avail
           /\ Head(toClient).n <= PacketSize
<1> DEFINE m == Head(toClient)
<1>0. /\ toClient \in Seq(Inbound) /\ m = toClient[1] /\ 1 \in DOMAIN toClient
  BY DEF TypeOK, RecvType
<1>1. m \in Inbound
  BY <1>0
<1>2. m.n \in Nat /\ m.sent \in Int /\ Bytes(m) = m.n
  BY <1>1 DEF Inbound, Bytes
<1>3. /\ m.sent <= peerSent /\ received + m.n <= m.sent /\ m.n <= PacketSize
  BY <1>0, <1>2 DEF RecvInv, DataStamps
<1>4. peerSent <= peerAllowed /\ peerAllowed <= granted
  BY DEF RecvInv, CreditStamps
<1>5. /\ peerSent \in Int /\ peerAllowed \in Int /\ granted \in Int /\ received \in Int
      /\ remote_window_size \in Int /\ read_avail \in Int
  BY DEF TypeOK, PeerType, NetType, RecvType, AdjustType
<1>6. remote_window_size - read_avail = granted - received
  BY DEF RecvInv, WindowAgreement
<1> DEFINE n == m.n
           e == m.sent
<1>7. /\ n \in Nat /\ e \in Int /\ e <= peerSent /\ received + n <= e
  BY <1>2, <1>3
<1> HIDE DEF n, e
<1>8. n <= remote_window_size - read_avail
  BY ONLY <1>4, <1>5, <1>6, <1>7
<1> QED
  BY <1>2, <1>3, <1>8 DEF n

\* packet_add() on DATA keeps the two ends in agreement.
LEMMA DataExact ==
    ASSUME TypeOK, RecvInv, toClient # <<>>, AddData(Head(toClient)),
           UNCHANGED <<freed, bytes_read>>
    PROVE  WindowAgreement' /\ Undropped' /\ QueueStamps'
<1> DEFINE m == Head(toClient)
           n == m.n
           room == remote_window_size - read_avail
           len == Min2(Min2(m.n, PacketSize), room)
<1>1. ~freed /\ m.kind = "data"
  BY DEF AddData
<1>2. n \in Nat /\ n <= room /\ n <= PacketSize
  BY <1>1, DataFits
<1>3. /\ remote_window_size \in Int /\ read_avail \in Int /\ PacketSize \in Nat
      /\ granted \in Int /\ received \in Int /\ dropped \in Int /\ room \in Int
  BY ConstantFacts DEF TypeOK, RecvType, AdjustType, NetType
<1>4. len = n
  BY <1>2, <1>3 DEF Min2
<1>5. m.stream \in Streams
  <2>1. m \in Inbound
    BY DEF TypeOK, RecvType
  <2> QED
    BY <2>1 DEF Inbound
<1>6. /\ received' = received + n /\ granted' = granted
      /\ remote_window_size' = remote_window_size
      /\ \/ /\ room <= 0 /\ dropped' = dropped + n
            /\ UNCHANGED <<read_avail, packets, arrived>>
         \/ /\ room > 0 /\ read_avail' = read_avail + len
            /\ dropped' = dropped + (n - len)
            /\ packets' = Append(packets, [stream |-> m.stream, size |-> len,
                                           left |-> len, upto |-> arrived[m.stream] + len])
            /\ arrived' = [arrived EXCEPT ![m.stream] = @ + len]
      /\ UNCHANGED taken
  BY DEF AddData, netVars
<1>7. /\ remote_window_size - read_avail = granted - received /\ dropped = 0
  BY <1>1 DEF RecvInv, WindowAgreement, Undropped
<1>8. /\ read_avail' = read_avail + n /\ dropped' = 0
  <2> HIDE DEF n, len
  <2>1. CASE room <= 0
    <3>1. n = 0
      BY <1>2, <1>3, <2>1
    <3> QED
      BY <1>3, <1>6, <1>7, <2>1, <3>1
  <2>2. CASE room > 0
    BY <1>2, <1>3, <1>4, <1>6, <1>7, <2>2
  <2> QED
    BY <1>3, <2>1, <2>2
<1>9. WindowAgreement' /\ Undropped'
  <2> HIDE DEF n, len
  <2>1. remote_window_size' - read_avail' = granted' - received'
    <3>1. remote_window_size - (read_avail + n) = granted - (received + n)
      BY ONLY <1>2, <1>3, <1>7
    <3> QED
      BY <3>1, <1>6, <1>8
  <2> QED
    BY <2>1, <1>8 DEF WindowAgreement, Undropped
<1>10. QueueStamps'
  <2> HIDE DEF n, len, m
  <2>1. CASE room <= 0
    BY <1>2, <1>3, <1>6, <2>1 DEF RecvInv, QueueStamps
  <2>2. CASE room > 0
    BY <1>1, <1>2, <1>3, <1>4, <1>5, <1>6, <2>2, QueueAdded DEF RecvInv
  <2> QED
    BY <1>3, <2>1, <2>2
<1> QED
  BY <1>9, <1>10

\* transport_read() keeps the ledgers and leaves the send side alone.
LEMMA ReadExact ==
    ASSUME Disciplined, TypeOK, RecvInv, NEW rc, TransportRead(rc)
    PROVE  /\ WindowAgreement' /\ Undropped' /\ DataStamps' /\ CreditStamps'
           /\ QueueStamps'
           /\ UNCHANGED <<remote_window_size, adjVars, netVars, packAdd, ignore_mode,
                          read_state, bytes_read, writeVars, flagVars, peerVars>>
<1>0. /\ packAdd.point = "idle" /\ ignore_mode # "IGNORE"
  BY DEF RecvInv, Running
<1>1. UNCHANGED <<ignore_mode, read_state, bytes_read, writeVars, flagVars, peerVars>>
  BY DEF TransportRead
<1>2. /\ DataStamps' \/ toClient' # toClient \/ received' # received
      /\ UNCHANGED netVars => CreditStamps'
  <2>1. peerSent' = peerSent /\ peerAllowed' = peerAllowed
    BY <1>1 DEF peerVars
  <2>2. UNCHANGED <<toClient, received>> => DataStamps'
    BY <2>1 DEF RecvInv, DataStamps, Bytes
  <2>3. UNCHANGED netVars => CreditStamps'
    BY <2>1 DEF RecvInv, CreditStamps, Credit, netVars
  <2> QED
    BY <2>2, <2>3
<1>3. CASE UNCHANGED <<remote_window_size, read_avail, packets, packAdd, toClient, received,
                       dropped, arrived, taken, adjVars, netVars>>
  <2>1. WindowAgreement' /\ Undropped'
    BY <1>1, <1>3 DEF RecvInv, WindowAgreement, Undropped, netVars, flagVars
  <2>2. QueueStamps'
    BY <1>1, <1>3 DEF RecvInv, QueueStamps, flagVars
  <2> QED
    BY <1>1, <1>2, <1>3, <2>1, <2>2
<1>4. CASE toClient # <<>> /\ PacketAdd(Head(toClient), rc) /\ toClient' = Tail(toClient)
  <2> DEFINE m == Head(toClient)
  <2>0. /\ toClient \in Seq(Inbound) /\ m = toClient[1] /\ 1 \in DOMAIN toClient
    BY <1>4 DEF TypeOK, RecvType
  <2>1. m.kind # "request"
    BY <2>0 DEF RecvInv, DataStamps
  <2>2. AddData(m) \/ AddFlag(m) \/ AddUnknown(m) \/ AddKexinit(m)
    BY <1>0, <1>4, <2>1 DEF PacketAdd, AddIgnored
  <2>3. UNCHANGED <<remote_window_size, packAdd, adjVars, netVars>>
    BY <2>2 DEF AddData, AddFlag, AddEof, AddClose, AddWindowAdjust, AddUnknown, AddKexinit
  <2>4. received' = received + Bytes(m)
    <3>1. received \in Int
      BY DEF TypeOK, RecvType
    <3> QED
      BY <2>2, <3>1 DEF AddData, AddFlag, AddEof, AddClose, AddWindowAdjust, AddUnknown, AddKexinit, Bytes
  <2>5. DataStamps'
    BY <1>1, <1>4, <2>4, DataReceived DEF RecvInv, peerVars
  <2>6. WindowAgreement' /\ Undropped' /\ QueueStamps'
    <3>1. CASE AddData(m)
      BY <1>1, <1>4, <3>1, DataExact DEF flagVars
    <3>2. CASE ~AddData(m)
      <4>1. /\ UNCHANGED <<read_avail, packets, dropped, arrived, taken>>
            /\ ~freed => UNCHANGED received
        BY <2>2, <3>2 DEF AddFlag, AddEof, AddClose, AddWindowAdjust, AddUnknown, AddKexinit
      <4>2. WindowAgreement' /\ Undropped'
        BY <1>1, <2>3, <4>1 DEF RecvInv, WindowAgreement, Undropped, netVars, flagVars
      <4>3. QueueStamps'
        BY <1>1, <4>1 DEF RecvInv, QueueStamps, flagVars
      <4> QED
        BY <4>2, <4>3
    <3> QED
      BY <3>1, <3>2
  <2> QED
    BY <1>1, <1>2, <2>3, <2>5, <2>6
<1>5. \/ UNCHANGED <<remote_window_size, read_avail, packets, packAdd, toClient, received,
                     dropped, arrived, taken, adjVars, netVars>>
      \/ toClient # <<>> /\ PacketAdd(Head(toClient), rc) /\ toClient' = Tail(toClient)
  BY <1>0 DEF TransportRead, recvVars
<1> QED
  BY <1>3, <1>4, <1>5

Ledgers == WindowAgreement /\ Undropped /\ DataStamps /\ CreditStamps /\ QueueStamps

\* The ledgers do not change with a step that leaves their state alone.
LEMMA LedgersKept ==
    ASSUME RecvInv,
           UNCHANGED <<remote_window_size, read_avail, freed, granted, received, dropped,
                       peerSent, peerAllowed, toClient, toPeer, packets, arrived, taken,
                       bytes_read>>
    PROVE  Ledgers'
<1>1. WindowAgreement' /\ Undropped'
  BY DEF RecvInv, WindowAgreement, Undropped
<1>2. DataStamps' /\ CreditStamps'
  BY DEF RecvInv, DataStamps, CreditStamps, Bytes, Credit
<1>3. QueueStamps'
  BY DEF RecvInv, QueueStamps
<1> QED
  BY <1>1, <1>2, <1>3 DEF Ledgers

\* A packet of ours that grants nothing keeps the ledgers.
LEMMA CarriedExact ==
    ASSUME TypeOK, RecvInv, NEW x \in Packet, Carry(x), x.kind # "adjust",
           UNCHANGED <<remote_window_size, read_avail, freed, received, dropped, peerSent,
                       peerAllowed, toClient, packets, arrived, taken, bytes_read>>
    PROVE  Ledgers'
<1>1. Credit(x) = 0 /\ granted \in Int
  BY DEF Credit, TypeOK, NetType
<1>2. CreditStamps' /\ granted' = granted
  BY <1>1, CreditCarried DEF RecvInv
<1>3. WindowAgreement' /\ Undropped'
  BY <1>2 DEF RecvInv, WindowAgreement, Undropped
<1>4. DataStamps' /\ QueueStamps'
  BY DEF RecvInv, DataStamps, QueueStamps, Bytes
<1> QED
  BY <1>2, <1>3, <1>4 DEF Ledgers

\* Where no call waits for the socket nothing is half sent, and nothing becomes so.
LEMMA QuietHeld ==
    ASSUME TypeOK, AdjustHeld, PendingHeld, pc \notin Sending,
           pc' \notin {"widen", "adjust", "close_send"},
           UNCHANGED <<adjust_state, adjust_queue, adjust_adjust, odata, read_state>>,
           link' => link
    PROVE  AdjustHeld' /\ PendingHeld'
<1>1. link => read_state # "jump1" /\ adjust_state # "created" /\ adjust_queue = 0
  BY DEF AdjustHeld, Sending
<1>2. link => odata.kind \notin SendKinds
  BY <1>1 DEF PendingHeld, Sending, SendKinds
<1>3. AdjustHeld'
  BY <1>1 DEF AdjustHeld
<1>4. PendingHeld'
  BY <1>2 DEF PendingHeld, SendKinds
<1> QED
  BY <1>3, <1>4

\* A step that reads from the transport keeps RecvInv.
LEMMA ReadStepExact ==
    ASSUME Disciplined, TypeOK, RecvInv, NEW rc, TransportRead(rc), pc \notin Sending,
           pc' \notin {"widen", "adjust", "close_send"}, Running'
    PROVE  RecvInv'
<1>1. /\ WindowAgreement' /\ Undropped' /\ DataStamps' /\ CreditStamps'
      /\ QueueStamps'
      /\ UNCHANGED <<adjust_state, adjust_queue, adjust_adjust, odata, read_state>>
      /\ link' => link
  BY ReadExact DEF adjVars, netVars, peerVars
<1>2. AdjustHeld' /\ PendingHeld'
  BY <1>1, QuietHeld DEF RecvInv
<1> QED
  BY <1>1, <1>2 DEF RecvInv

\* What a window adjustment leaves behind while the connection is up.
AdjustLeft(adj, rc) ==
    /\ adjust_queue' = 0
    /\ \/ rc = "ok" /\ adjust_state' = "idle" /\ odata'.kind = "none"
       \/ /\ rc = "EAGAIN" /\ adjust_state' = "created" /\ adjust_adjust' = adj
          /\ UNCHANGED remote_window_size
          /\ odata'.kind \in {"none", "adjust"}
          /\ odata'.kind = "adjust" => odata'.n = adj

\* receive_window_adjust() as a step of a call keeps the ledgers.
LEMMA AdjustExact ==
    ASSUME Disciplined, TypeOK, RecvInv, NEW adj \in Int, NEW force \in BOOLEAN, NEW rc,
           ReceiveWindowAdjust(remote_window_size, adj, force, rc), ~freed,
           link => /\ adj > 0 /\ remote_window_size + adj < Modulus
                   /\ force \/ adj >= MinAdjust
                   /\ adjust_state = "created" => adjust_adjust = adj,
           pc \in {"widen", "expand", "adjust"},
           UNCHANGED <<bytes_read, recvVars, flagVars, peerVars>>
    PROVE  /\ Ledgers'
           /\ link => AdjustLeft(adj, rc)
           /\ ~link => UNCHANGED remote_window_size
<1>0. /\ UNCHANGED <<read_avail, freed, received, dropped, peerSent, peerAllowed, toClient,
                     packets, arrived, taken, bytes_read>>
  BY DEF recvVars, flagVars, peerVars
<1>1. CASE ~link
  <2>1. UNCHANGED <<remote_window_size, granted, toPeer>>
    BY <1>1, AdjustDown DEF netVars
  <2> QED
    BY <1>0, <1>1, <2>1, LedgersKept
<1>2. CASE link
  <2>0. /\ remote_window_size \in Int /\ remote_window_size >= 0 /\ granted \in Int
        /\ read_avail \in Int /\ received \in Int /\ NetType /\ AdjustType
        /\ remote_window_size - read_avail = granted - received
    BY Bounds DEF TypeOK, AdjustType, NetType, RecvType
  <2>1. /\ adjust_queue = 0 /\ odata.kind \in {"none", "adjust"}
        /\ odata.kind = "adjust" => adjust_state = "created" /\ odata.n = adjust_adjust
    BY <1>2, <2>0 DEF RecvInv, AdjustHeld, PendingHeld, NetType, NoPacket, SendKinds
  <2> DEFINE x == [kind |-> "adjust", n |-> adj]
  <2>2. /\ adjust_queue' = 0
        /\ \/ /\ rc = "ok" /\ adjust_state' = "idle"
              /\ remote_window_size' = remote_window_size + adj /\ Carry(x)
           \/ /\ rc = "EAGAIN" /\ adjust_state' = "created" /\ adjust_adjust' = adj
              /\ remote_window_size' = remote_window_size
              /\ odata' \in {odata, x}
              /\ UNCHANGED <<toPeer, granted, written, onWire>>
    <3>1. adj \in Nat \ {0}
      BY <1>2
    <3> QED
      BY <1>2, <2>0, <2>1, <3>1, AdjustUp
  <2>3. x \in Packet /\ Credit(x) = adj /\ adj > 0 /\ x.kind = "adjust" /\ x.n = adj
    BY <1>2 DEF Packet, SendKinds, Credit
  <2> HIDE DEF x
  <2>4. CASE rc = "ok"
    <3>1. /\ adjust_state' = "idle" /\ adjust_queue' = 0
          /\ remote_window_size' = remote_window_size + adj /\ Carry(x)
      BY <2>2, <2>4
    <3>2. odata'.kind = "none"
      BY <3>1 DEF Carry, NoPacket
    <3>3. CreditStamps' /\ granted' = granted + adj
      BY <1>0, <2>3, <3>1, CreditCarried DEF RecvInv
    <3>4. remote_window_size' - read_avail' = granted' - received'
      <4>1. (remote_window_size + adj) - read_avail = (granted + adj) - received
        BY ONLY <2>0, adj \in Int
      <4> QED
        BY <1>0, <3>1, <3>3, <4>1
    <3>5. WindowAgreement' /\ Undropped'
      BY <1>0, <3>4 DEF RecvInv, WindowAgreement, Undropped
    <3>6. DataStamps' /\ QueueStamps'
      BY <1>0 DEF RecvInv, DataStamps, QueueStamps, Bytes
    <3> QED
      BY <1>2, <2>4, <3>1, <3>2, <3>3, <3>5, <3>6 DEF Ledgers, AdjustLeft
  <2>5. CASE rc = "EAGAIN"
    <3>1. /\ adjust_state' = "created" /\ adjust_adjust' = adj /\ adjust_queue' = 0
          /\ remote_window_size' = remote_window_size
          /\ odata' \in {odata, x} /\ UNCHANGED <<toPeer, granted>>
      BY <2>2, <2>5
    <3>2. Ledgers'
      BY <1>0, <3>1, LedgersKept
    <3>3. /\ odata'.kind \in {"none", "adjust"}
          /\ odata'.kind = "adjust" => odata'.n = adj
      BY <1>2, <2>1, <2>3, <3>1
    <3> QED
      BY <1>2, <2>5, <3>1, <3>2, <3>3 DEF AdjustLeft
  <2> QED
    BY <2>2, <2>4, <2>5
<1> QED
  BY <1>1, <1>2

\* What read() asks for when the window is too narrow: at least MINADJUST, and the
\* window still fits in 32 bits.
LEMMA Expansion ==
    ASSUME Disciplined, NEW w \in Int, NEW n \in ReadSizes, w >= 0,
           w < (Initial \div 4) * 3 + n
    PROVE  LET e == Max2(U32(Initial + n - w), MinAdjust)
           IN  e \in Int /\ e > 0 /\ e >= MinAdjust /\ w + e < Modulus
<1>0. /\ Initial \in Nat /\ n \in Nat /\ MinAdjust \in Nat \ {0} /\ Modulus \in Nat
      /\ Initial + n + MinAdjust < Modulus
  BY ConstantFacts DEF Disciplined
<1>1. (Initial \div 4) * 3 <= Initial /\ (Initial \div 4) * 3 \in Nat
  BY <1>0
<1>2. Initial + n - w > 0 /\ Initial + n - w < Modulus /\ w < Initial + n
  BY <1>0, <1>1
<1>3. U32(Initial + n - w) = Initial + n - w
  BY <1>0, <1>2 DEF U32
<1> QED
  BY <1>0, <1>2, <1>3 DEF Max2

\* The steps that adjust the receive window keep RecvInv.
LEMMA WindowStepsExact ==
    ASSUME Disciplined, TypeOK, RecvInv, ReadWiden \/ ReadExpand \/ AdjustStep
    PROVE  RecvInv'
<1>0. /\ remote_window_size \in Int /\ call.n \in Nat /\ Modulus \in Nat /\ MinAdjust \in Nat
      /\ Initial \in Nat /\ Blocking /\ ~MayTimeout
  BY ConstantFacts DEF TypeOK, AdjustType, ControlType, Disciplined
<1>f. pc # "app" => ~freed /\ remote_window_size >= 0
  BY Bounds DEF RecvInv, Running
<1>r. /\ packAdd.point = "idle" /\ ignore_mode # "IGNORE" /\ requests = 0
  BY DEF RecvInv, Running
<1>1. CASE ReadWiden
  <2>1. /\ pc = "widen" /\ call.n \in ReadSizes /\ remote_window_size < call.n
        /\ UNCHANGED <<bytes_read, recvVars, flagVars, peerVars, read_state, ignore_mode>>
    BY <1>1 DEF ReadWiden, RecvInv, Running, AdjustHeld
  <2>2. PICK rc \in {"ok", "EAGAIN", "error"} :
          /\ ReceiveWindowAdjust(remote_window_size, call.n, TRUE, rc)
          /\ Goto(IF rc = "EAGAIN" THEN "widen" ELSE "expand")
    BY <1>0, <1>1 DEF ReadWiden
  <2>3. /\ call.n \in Int
        /\ link => /\ call.n > 0 /\ remote_window_size + call.n < Modulus
                   /\ adjust_state = "created" => adjust_adjust = call.n
    <3>1. 2 * call.n < Modulus
      BY <2>1 DEF Disciplined
    <3>2. link => (adjust_state = "created" => adjust_adjust = call.n)
      BY <2>1 DEF RecvInv, AdjustHeld
    <3> QED
      BY <1>0, <1>f, <2>1, <3>1, <3>2
  <2>4. /\ Ledgers'
        /\ link => AdjustLeft(call.n, rc)
        /\ ~link => UNCHANGED remote_window_size
    BY <1>f, <2>1, <2>2, <2>3, AdjustExact
  <2>5. call' = call /\ pc' \in {"widen", "expand"} /\ (pc' = "widen" => rc = "EAGAIN")
        /\ (rc = "EAGAIN" => pc' = "widen") /\ link' = link
    BY <1>0, <2>1, <2>2 DEF Goto, peerVars
  <2>6. Running'
    BY <1>f, <1>r, <2>1, <2>5 DEF Running, recvVars, flagVars, peerVars
  <2>7. link => read_state # "jump1"
    BY <2>1 DEF RecvInv, AdjustHeld
  <2>8. AdjustHeld'
    BY <2>1, <2>4, <2>5, <2>7 DEF AdjustHeld, AdjustLeft
  <2>9. PendingHeld'
    BY <2>4, <2>5 DEF PendingHeld, AdjustLeft
  <2> QED
    BY <2>4, <2>6, <2>8, <2>9 DEF RecvInv, Ledgers
<1>2. CASE ReadExpand
  <2>1. /\ pc = "expand" /\ call.n \in ReadSizes /\ ~freed /\ remote_window_size >= 0
        /\ UNCHANGED <<bytes_read, recvVars, flagVars, peerVars, ignore_mode>>
    BY <1>2, <1>f DEF ReadExpand, RecvInv, Running
  <2>u. /\ link' = link /\ freed' = freed /\ packAdd' = packAdd /\ requests' = requests
        /\ ignore_mode' = ignore_mode
    BY <2>1 DEF peerVars, flagVars, recvVars
  <2>2. CASE ~TooNarrow
    <3>1. /\ UNCHANGED <<remote_window_size, read_state, adjVars, netVars>>
          /\ pc' = "drain" /\ call' = call
      BY <1>2, <2>2 DEF ReadExpand, Goto
    <3>2. Ledgers'
      BY <2>1, <3>1, LedgersKept DEF recvVars, flagVars, peerVars, netVars
    <3>3. Running'
      BY <1>r, <2>1, <2>u, <3>1 DEF Running
    <3>4. link => read_state # "jump1" /\ adjust_state # "created" /\ adjust_queue = 0
      BY <2>1, <2>2 DEF RecvInv, AdjustHeld, TooNarrow
    <3>5. link => odata.kind \notin SendKinds
      BY <2>1, <3>4 DEF RecvInv, PendingHeld, SendKinds
    <3>6. AdjustHeld'
      BY <2>u, <3>1, <3>4 DEF AdjustHeld, adjVars
    <3>7. PendingHeld'
      BY <2>u, <3>1, <3>5 DEF PendingHeld, SendKinds, netVars
    <3> QED
      BY <3>2, <3>3, <3>6, <3>7 DEF RecvInv, Ledgers
  <2>3. CASE TooNarrow
    <3>1. PICK rc \in {"ok", "EAGAIN", "error"} :
            /\ ReceiveWindowAdjust(remote_window_size, ExpandBy, FALSE, rc)
            /\ read_state' = IF rc = "ok" THEN "idle" ELSE "jump1"
            /\ \/ rc = "ok" /\ Goto("drain")
               \/ rc = "EAGAIN" /\ Again("expand")
               \/ rc = "error" /\ Return("error", 0)
      BY <1>2, <2>3 DEF ReadExpand
    <3>2. link => remote_window_size < (Initial \div 4) * 3 + call.n
      BY <2>3 DEF RecvInv, AdjustHeld, TooNarrow
    <3>3. ExpandBy \in Int
      <4>1. Initial + call.n - remote_window_size \in Int
        BY <1>0
      <4> QED
        BY <1>0, <4>1, U32Int DEF ExpandBy, Max2, U32Type
    <3>4. link => /\ ExpandBy > 0 /\ remote_window_size + ExpandBy < Modulus
                  /\ ExpandBy >= MinAdjust
                  /\ adjust_state = "created" => adjust_adjust = ExpandBy
      <4>1. link => /\ ExpandBy > 0 /\ remote_window_size + ExpandBy < Modulus
                    /\ ExpandBy >= MinAdjust
        BY <1>0, <2>1, <3>2, Expansion DEF ExpandBy
      <4>2. link => (adjust_state = "created" => adjust_adjust = ExpandBy)
        BY <2>1 DEF RecvInv, AdjustHeld
      <4> QED
        BY <4>1, <4>2
    <3>5. /\ Ledgers'
          /\ link => AdjustLeft(ExpandBy, rc)
          /\ ~link => UNCHANGED remote_window_size
      BY <2>1, <3>1, <3>3, <3>4, AdjustExact
    <3>6. /\ pc' \in {"drain", "expand", "app"}
          /\ rc = "ok" => pc' = "drain"
          /\ rc = "EAGAIN" => pc' = "expand"
          /\ pc' # "app" => call' = call
      BY <1>0, <3>1 DEF Goto, Again, Return
    <3>7. Running'
      BY <1>r, <2>1, <2>u, <3>6 DEF Running
    <3>8. AdjustHeld'
      <4>1. CASE ~link
        BY <4>1, <2>u, <3>6 DEF AdjustHeld
      <4>2. CASE link /\ rc = "ok"
        BY <4>2, <2>u, <3>1, <3>5, <3>6 DEF AdjustHeld, AdjustLeft
      <4>3. CASE link /\ rc = "EAGAIN"
        <5>1. /\ pc' = "expand" /\ call' = call /\ remote_window_size' = remote_window_size
              /\ adjust_queue' = 0 /\ adjust_adjust' = ExpandBy /\ adjust_state' = "created"
              /\ read_state' = "jump1"
          BY <4>3, <3>1, <3>5, <3>6 DEF AdjustLeft
        <5>2. ExpandBy' = ExpandBy
          BY <5>1 DEF ExpandBy
        <5> QED
          BY <4>3, <5>1, <5>2, <3>2 DEF AdjustHeld
      <4> QED
        BY <3>5, <4>1, <4>2, <4>3 DEF AdjustLeft
    <3>9. PendingHeld'
      BY <2>u, <3>5, <3>6 DEF PendingHeld, AdjustLeft
    <3> QED
      BY <3>5, <3>7, <3>8, <3>9 DEF RecvInv, Ledgers
  <2> QED
    BY <2>2, <2>3
<1>3. CASE AdjustStep
  <2>1. /\ pc = "adjust" /\ call.op = "adjust" /\ call.n \in AdjustSizes /\ ~freed /\ remote_window_size >= 0
        /\ UNCHANGED <<bytes_read, recvVars, flagVars, peerVars, ignore_mode, read_state>>
    BY <1>3, <1>f DEF AdjustStep, RecvInv, Running
  <2>u. /\ link' = link /\ freed' = freed /\ packAdd' = packAdd /\ requests' = requests
        /\ ignore_mode' = ignore_mode
    BY <2>1 DEF peerVars, flagVars, recvVars
  <2>2. PICK rc \in {"ok", "EAGAIN", "error"} :
          /\ ReceiveWindowAdjust(remote_window_size, call.n, TRUE, rc)
          /\ \/ rc = "ok" /\ Return("ok", remote_window_size)
             \/ rc = "EAGAIN" /\ Again("adjust")
             \/ rc = "error" /\ Return("error", 0)
    BY <1>3, <2>1 DEF AdjustStep
  <2>3. /\ call.n \in Int
        /\ link => /\ call.n > 0 /\ remote_window_size + call.n < Modulus
                   /\ adjust_state = "created" => adjust_adjust = call.n
    BY <1>0, <2>1, ConstantFacts DEF RecvInv, AdjustHeld
  <2>4. /\ Ledgers'
        /\ link => AdjustLeft(call.n, rc)
        /\ ~link => UNCHANGED remote_window_size
    BY <2>1, <2>2, <2>3, AdjustExact
  <2>5. /\ pc' \in {"adjust", "app"}
        /\ rc = "EAGAIN" => pc' = "adjust" /\ call' = call
        /\ rc = "ok" => pc' = "app"
        /\ pc' # "app" => call' = call /\ rc = "EAGAIN"
    BY <1>0, <2>2 DEF Again, Goto, Return
  <2>6. Running'
    BY <1>r, <2>1, <2>u, <2>5 DEF Running
  <2>7. link => read_state # "jump1"
    BY <2>1 DEF RecvInv, AdjustHeld
  <2>8. AdjustHeld'
    BY <2>1, <2>u, <2>3, <2>4, <2>5, <2>7 DEF AdjustHeld, AdjustLeft
  <2>9. PendingHeld'
    BY <2>u, <2>4, <2>5 DEF PendingHeld, AdjustLeft
  <2> QED
    BY <2>4, <2>6, <2>8, <2>9 DEF RecvInv, Ledgers
<1> QED
  BY <1>1, <1>2, <1>3

\* The steps that send DATA, EOF or CLOSE keep RecvInv.
LEMMA SendStepsExact ==
    ASSUME Disciplined, TypeOK, RecvInv, WriteSend \/ EofStep \/ CloseEnter \/ CloseSend
    PROVE  RecvInv'
<1>0. Blocking /\ ~MayTimeout /\ NetType /\ local_eof \in BOOLEAN
  BY DEF Disciplined, TypeOK, FlagType
<1>f. pc # "app" => ~freed
  BY DEF RecvInv, Running
<1>r. /\ packAdd.point = "idle" /\ ignore_mode # "IGNORE" /\ requests = 0
  BY DEF RecvInv, Running
<1>1. /\ pc \in {"wsend", "eof", "close", "close_send"}
      /\ UNCHANGED <<remote_window_size, ignore_mode, read_state, bytes_read, adjVars,
                     peerVars, freed, read_avail, packAdd, toClient, received, dropped,
                     packets, arrived, taken>>
  BY DEF WriteSend, EofStep, CloseEnter, CloseSend, EndFrame, recvVars, flagVars
<1>2. pc' \in {"wsend", "eof", "close", "close_send", "close_wait", "close_fail", "app"}
  BY DEF WriteSend, EofStep, CloseEnter, CloseSend, Again, Return, Goto
<1>3. Running'
  BY <1>1, <1>2, <1>f, <1>r DEF Running, peerVars
<1>4. link => read_state # "jump1" /\ adjust_state # "created" /\ adjust_queue = 0
  BY <1>1 DEF RecvInv, AdjustHeld
<1>5. AdjustHeld'
  BY <1>1, <1>2, <1>4 DEF AdjustHeld, adjVars, peerVars
<1>u. /\ UNCHANGED <<peerSent, peerAllowed, link>>
  BY <1>1 DEF peerVars
\* what is left of a packet m that is sent with result rc
<1>s. ASSUME NEW m \in Packet, m.kind \notin {"adjust", "failure"}, NEW rc, TransportSend(m, rc),
             link => odata.kind \in {"none", m.kind}
      PROVE  /\ Ledgers'
             /\ link => \/ rc = "ok" /\ odata'.kind = "none"
                        \/ rc = "EAGAIN" /\ odata'.kind \in {"none", m.kind}
  <2>1. CASE ~link
    <3>1. UNCHANGED <<granted, toPeer>>
      BY <2>1, <1>s, SendDown DEF netVars
    <3> QED
      BY <2>1, <3>1, <1>1, <1>u, LedgersKept
  <2>2. CASE link
    <3>1. PICK x \in Packet :
             /\ x = IF odata.kind = "none" THEN m ELSE odata
             /\ \/ rc = "ok" /\ Carry(x)
                \/ /\ rc = "EAGAIN" /\ odata' \in {odata, x}
                   /\ UNCHANGED <<toPeer, granted, written, onWire>>
      BY <1>0, <1>s, <2>2, SendUp
    <3>2. x.kind = m.kind
      BY <1>s, <2>2, <3>1
    <3>3. CASE rc = "ok" /\ Carry(x)
      <4>1. Ledgers'
        BY <1>1, <1>s, <1>u, <3>2, <3>3, CarriedExact
      <4>2. odata'.kind = "none"
        BY <3>3 DEF Carry, NoPacket
      <4> QED
        BY <2>2, <3>3, <4>1, <4>2
    <3>4. CASE /\ rc = "EAGAIN" /\ odata' \in {odata, x}
               /\ UNCHANGED <<toPeer, granted, written, onWire>>
      <4>1. Ledgers'
        BY <1>1, <1>u, <3>4, LedgersKept
      <4> QED
        BY <1>s, <2>2, <3>2, <3>4, <4>1
    <3> QED
      BY <3>1, <3>3, <3>4
  <2> QED
    BY <2>1, <2>2
<1>k. link => odata.kind \in {"none", "data", "eof", "close"}
  BY <1>0, <1>4 DEF RecvInv, PendingHeld, NetType, NoPacket, SendKinds
<1>6. CASE WriteSend
  <2> DEFINE m == [kind |-> "data", n |-> write_bufwrite]
  <2>1. m \in Packet /\ m.kind = "data"
    BY DEF TypeOK, CallType, Packet, SendKinds
  <2>2. link => odata.kind \in {"none", m.kind}
    BY <1>6, <1>k DEF WriteSend, RecvInv, PendingHeld
  <2>3. PICK s \in SendResults :
          /\ TransportSend(m, s)
          /\ pc' \in {"wsend", "app"}
          /\ (s = "EAGAIN" => pc' = "wsend")
    BY <1>0, <1>6 DEF WriteSend, Again, Goto, Return
  <2> HIDE DEF m
  <2>4. /\ Ledgers'
        /\ link => \/ s = "ok" /\ odata'.kind = "none"
                   \/ s = "EAGAIN" /\ odata'.kind \in {"none", "data"}
    BY <1>s, <2>1, <2>2, <2>3
  <2>5. PendingHeld'
    BY <1>u, <2>3, <2>4 DEF PendingHeld
  <2> QED
    BY <1>3, <1>5, <2>4, <2>5 DEF RecvInv, Ledgers
<1>e. ASSUME NEW rc, SendEof(rc), pc = "eof" \/ (pc = "close" /\ ~local_eof)
      PROVE  /\ Ledgers'
             /\ link => \/ rc = "ok" /\ odata'.kind = "none"
                        \/ /\ rc = "EAGAIN" /\ odata'.kind \in {"none", "eof"}
                           /\ local_eof' = local_eof
  <2> DEFINE m == [kind |-> "eof", n |-> 0]
  <2>1. m \in Packet /\ m.kind = "eof"
    BY DEF Packet, SendKinds
  <2>2. link => odata.kind \in {"none", m.kind}
    BY <1>e, <1>k DEF RecvInv, PendingHeld
  <2>3. PICK s \in SendResults :
          /\ TransportSend(m, s)
          /\ local_eof' = (local_eof \/ s = "ok")
          /\ rc = IF s \in {"ok", "EAGAIN"} THEN s ELSE "error"
    BY <1>e DEF SendEof
  <2>4. s = "EAGAIN" => local_eof' = local_eof /\ rc = "EAGAIN"
    BY <1>0, <2>3
  <2>5. s = "ok" => rc = "ok"
    BY <2>3
  <2> HIDE DEF m
  <2>6. /\ Ledgers'
        /\ link => \/ s = "ok" /\ odata'.kind = "none"
                   \/ s = "EAGAIN" /\ odata'.kind \in {"none", "eof"}
    BY <1>s, <2>1, <2>2, <2>3
  <2> QED
    BY <2>4, <2>5, <2>6
<1>7. CASE EofStep
  <2>1. PICK rc \in {"ok", "EAGAIN", "error"} :
          /\ SendEof(rc) /\ pc = "eof" /\ pc' \in {"eof", "app"}
          /\ rc = "EAGAIN" => pc' = "eof"
    BY <1>0, <1>7 DEF EofStep, Again, Goto, Return
  <2>2. PendingHeld'
    BY <1>e, <1>u, <2>1 DEF PendingHeld
  <2>3. Ledgers'
    BY <1>e, <2>1
  <2> QED
    BY <1>3, <1>5, <2>2, <2>3 DEF RecvInv, Ledgers
<1>8. CASE CloseEnter
  <2>0. pc = "close"
    BY <1>8 DEF CloseEnter
  <2>1. CASE local_close
    <3>1. UNCHANGED <<local_eof, local_close, netVars>> /\ pc' = "app"
      BY <1>8, <2>1 DEF CloseEnter, Return
    <3>2. Ledgers'
      BY <1>1, <1>u, <3>1, LedgersKept DEF netVars
    <3>3. link => odata.kind = "none"
      BY <1>k, <2>0, <2>1 DEF RecvInv, PendingHeld
    <3>4. PendingHeld'
      BY <1>u, <3>1, <3>3 DEF PendingHeld, netVars
    <3> QED
      BY <1>3, <1>5, <3>2, <3>4 DEF RecvInv, Ledgers
  <2>2. CASE ~local_close /\ local_eof
    <3>1. UNCHANGED <<local_eof, local_close, close_state, netVars>> /\ pc' = "close_send"
      BY <1>8, <2>2 DEF CloseEnter, Goto
    <3>2. Ledgers'
      BY <1>1, <1>u, <3>1, LedgersKept DEF netVars
    <3>3. link => \/ odata.kind = "none"
                  \/ odata.kind = "close" /\ close_state # "sent"
      BY <1>k, <2>0, <2>2 DEF RecvInv, PendingHeld
    <3>4. PendingHeld'
      BY <1>u, <2>2, <3>1, <3>3 DEF PendingHeld, netVars
    <3> QED
      BY <1>3, <1>5, <3>2, <3>4 DEF RecvInv, Ledgers
  <2>3. CASE ~local_close /\ ~local_eof
    <3>1. PICK rc \in {"ok", "EAGAIN", "error"} :
            /\ SendEof(rc)
            /\ rc = "EAGAIN" => pc' = "close"
            /\ rc = "ok" => pc' = "close_send"
            /\ UNCHANGED local_close
      BY <1>0, <1>8, <2>3 DEF CloseEnter, Again, Goto
    <3>2. rc = "ok" => local_eof'
      BY <3>1 DEF SendEof
    <3>3. /\ Ledgers'
          /\ link => \/ rc = "ok" /\ odata'.kind = "none"
                     \/ /\ rc = "EAGAIN" /\ odata'.kind \in {"none", "eof"}
                        /\ local_eof' = local_eof
      BY <1>e, <2>0, <2>3, <3>1
    <3>4. PendingHeld'
      BY <1>u, <2>3, <3>1, <3>2, <3>3 DEF PendingHeld
    <3> QED
      BY <1>3, <1>5, <3>3, <3>4 DEF RecvInv, Ledgers
  <2> QED
    BY <2>1, <2>2, <2>3
<1>9. CASE CloseSend
  <2>0. pc = "close_send" /\ UNCHANGED <<local_eof, local_close>>
    BY <1>9 DEF CloseSend
  <2>a. link => local_eof /\ ~local_close /\ odata.kind \in {"none", "close"}
    BY <1>k, <2>0 DEF RecvInv, PendingHeld
  <2>1. CASE close_state = "sent"
    <3>1. UNCHANGED <<close_state, netVars>> /\ pc' = "close_wait"
      BY <1>9, <2>1 DEF CloseSend, Goto
    <3>2. Ledgers'
      BY <1>1, <1>u, <3>1, LedgersKept DEF netVars
    <3>3. link => odata.kind = "none"
      BY <2>1, <2>a DEF RecvInv, PendingHeld
    <3>4. PendingHeld'
      BY <1>u, <3>1, <3>3 DEF PendingHeld, netVars
    <3> QED
      BY <1>3, <1>5, <3>2, <3>4 DEF RecvInv, Ledgers
  <2>2. CASE close_state # "sent"
    <3> DEFINE m == [kind |-> "close", n |-> 0]
    <3>1. m \in Packet /\ m.kind = "close"
      BY DEF Packet, SendKinds
    <3>2. PICK s \in SendResults :
            /\ TransportSend(m, s)
            /\ close_state' = IF s = "ok" THEN "sent" ELSE "created"
            /\ s = "ok" => pc' = "close_wait"
            /\ s = "EAGAIN" => pc' = "close"
            /\ pc' # "close_send"
      BY <1>0, <1>9, <2>2 DEF CloseSend, Goto, Again
    <3> HIDE DEF m
    <3>3. /\ Ledgers'
          /\ link => \/ s = "ok" /\ odata'.kind = "none"
                     \/ s = "EAGAIN" /\ odata'.kind \in {"none", "close"}
      BY <1>s, <2>a, <3>1, <3>2
    <3>4. PendingHeld'
      BY <1>u, <2>0, <2>a, <3>2, <3>3 DEF PendingHeld
    <3> QED
      BY <1>3, <1>5, <3>3, <3>4 DEF RecvInv, Ledgers
  <2> QED
    BY <2>1, <2>2
<1> QED
  BY <1>6, <1>7, <1>8, <1>9

\* Every step of a running call keeps RecvInv.
LEMMA StepExact ==
    ASSUME Disciplined, TypeOK, RecvInv, Steps
    PROVE  RecvInv'
<1>0. /\ AdjustHeld /\ PendingHeld /\ Running /\ Blocking /\ ~MayTimeout
      /\ bytes_read \in Nat /\ read_avail \in Int /\ remote_window_size \in Int
      /\ granted \in Int /\ received \in Int
  BY DEF RecvInv, Disciplined, TypeOK, CallType, RecvType, AdjustType, NetType
<1>q. ASSUME UNCHANGED <<remote_window_size, read_avail, freed, received, dropped, netVars,
                         peerVars, toClient, packets, arrived, taken, bytes_read, adjVars,
                         read_state>>,
             pc \notin Sending, pc' \notin {"widen", "adjust", "close_send"}, Running'
      PROVE  RecvInv'
  <2>1. Ledgers'
    BY <1>q, LedgersKept DEF netVars, peerVars
  <2>2. AdjustHeld' /\ PendingHeld'
    BY <1>0, <1>q, QuietHeld DEF adjVars, netVars, peerVars
  <2> QED
    BY <1>q, <2>1, <2>2 DEF RecvInv, Ledgers
<1>e. EndFrame => UNCHANGED <<remote_window_size, read_avail, received, dropped, peerVars,
                              toClient, packets, arrived, taken, bytes_read, adjVars,
                              read_state, packAdd, ignore_mode>>
  BY DEF EndFrame, recvVars
<1>1. CASE ReadWiden \/ ReadExpand \/ AdjustStep
  BY <1>1, WindowStepsExact
<1>2. CASE WriteSend \/ EofStep \/ CloseEnter \/ CloseSend
  BY <1>2, SendStepsExact
\* a step that reads the transport, at a place where nothing waits to be sent
<1>t. ASSUME \E rc \in ReadResults : TransportRead(rc), pc \notin Sending, pc # "app",
             pc' \notin {"widen", "adjust", "close_send", "expand", "fscan", "frefund"},
             pc' \in {"drain", "copy"} => pc \in {"drain", "copy"} /\ call' = call
      PROVE  RecvInv'
  <2>1. UNCHANGED <<freed, packAdd, ignore_mode, requests>>
    BY <1>t, ReadExact DEF flagVars, peerVars
  <2>2. Running'
    BY <1>0, <1>t, <2>1 DEF Running
  <2> QED
    BY <1>t, <2>2, ReadStepExact
<1>3. CASE ReadDrain
  BY <1>3, <1>t DEF ReadDrain, Goto, Return, Sending
<1>4. CASE WriteDrain
  BY <1>4, <1>t DEF WriteDrain, Goto, Return, Sending
<1>5. CASE ReadCopy
  <2>1. PICK i \in DOMAIN packets : First(i, Readable(call.stream)) /\ CopyFrom(i)
    BY <1>5 DEF ReadCopy
  <2>2. /\ pc = "copy" /\ bytes_read < call.n /\ ~freed
        /\ UNCHANGED <<remote_window_size, ignore_mode, read_state, pc, call, adjVars,
                       flagVars, netVars, peerVars, read_avail, packAdd, toClient,
                       received, dropped, arrived>>
    BY <1>0, <1>5 DEF ReadCopy, Running
  <2>3. freed' = freed /\ granted' = granted /\ link' = link /\ requests' = requests
        /\ peerSent' = peerSent /\ peerAllowed' = peerAllowed /\ toPeer' = toPeer
    BY <2>2 DEF flagVars, netVars, peerVars
  <2>4. QueueStamps'
    BY <2>1, <2>2, <2>3, QueueCopied DEF RecvInv
  <2>5. WindowAgreement' /\ Undropped'
    BY <2>2, <2>3 DEF RecvInv, WindowAgreement, Undropped
  <2>6. DataStamps' /\ CreditStamps'
    BY <2>2, <2>3 DEF RecvInv, DataStamps, CreditStamps, Bytes, Credit
  <2>7. Running'
    BY <1>0, <2>2, <2>3 DEF Running
  <2>8. AdjustHeld' /\ PendingHeld'
    BY <1>0, <2>2, QuietHeld DEF Sending, adjVars, netVars, peerVars
  <2> QED
    BY <2>4, <2>5, <2>6, <2>7, <2>8 DEF RecvInv
<1>6. CASE ReadReturn
  <2>0. /\ pc = "copy" /\ ~freed /\ call.n \in ReadSizes
        /\ bytes_read' = 0 /\ read_avail' = Sub32(read_avail, bytes_read)
        /\ remote_window_size' = Sub32(remote_window_size, bytes_read)
        /\ UNCHANGED <<ignore_mode, read_state, adjVars, flagVars, netVars, peerVars,
                       packets, packAdd, toClient, received, dropped, arrived, taken>>
    BY <1>0, <1>6 DEF ReadReturn, Running
  <2>1. /\ pc = "copy" /\ ~freed /\ call.n \in ReadSizes
        /\ bytes_read' = 0 /\ read_avail' = read_avail - bytes_read
        /\ remote_window_size' = remote_window_size - bytes_read
        /\ UNCHANGED <<ignore_mode, read_state, adjVars, flagVars, netVars, peerVars,
                       packets, packAdd, toClient, received, dropped, arrived, taken>>
    <3>1. bytes_read <= read_avail /\ bytes_read <= remote_window_size
      BY <1>0, <2>0, Bounds
    <3>2. /\ Sub32(read_avail, bytes_read) = read_avail - bytes_read
          /\ Sub32(remote_window_size, bytes_read) = remote_window_size - bytes_read
      BY <3>1 DEF Sub32
    <3> QED
      BY <2>0, <3>2
  <2>2. /\ pc' \in {"app", "expand"} /\ (pc' = "expand" => call' = call)
    BY <1>0, <1>6 DEF ReadReturn, Return, Again, Goto
  <2>3. freed' = freed /\ granted' = granted /\ link' = link /\ requests' = requests
        /\ peerSent' = peerSent /\ peerAllowed' = peerAllowed /\ toPeer' = toPeer
    BY <2>1 DEF flagVars, netVars, peerVars
  <2>4. QueueStamps'
    <3>1. read_avail' - bytes_read' = read_avail - bytes_read
      <4>1. (read_avail - bytes_read) - 0 = read_avail - bytes_read
        BY ONLY <1>0
      <4> QED
        BY <2>1, <4>1
    <3> QED
      BY <2>1, <2>3, <3>1 DEF RecvInv, QueueStamps
  <2>5. WindowAgreement' /\ Undropped'
    <3>0. remote_window_size - read_avail = granted - received
      BY <2>1 DEF RecvInv, WindowAgreement
    <3>1. (remote_window_size - bytes_read) - (read_avail - bytes_read) = granted - received
      BY ONLY <1>0, <3>0
    <3> QED
      BY <2>1, <2>3, <3>1 DEF RecvInv, WindowAgreement, Undropped
  <2>6. DataStamps' /\ CreditStamps'
    BY <2>1, <2>3 DEF RecvInv, DataStamps, CreditStamps, Bytes, Credit
  <2>7. Running'
    BY <1>0, <2>1, <2>2, <2>3 DEF Running
  <2>8. AdjustHeld' /\ PendingHeld'
    BY <1>0, <2>1, <2>2, QuietHeld DEF Sending, adjVars, netVars, peerVars
  <2> QED
    BY <2>4, <2>5, <2>6, <2>7, <2>8 DEF RecvInv
<1>7. CASE WriteFit
  <2>1. /\ pc = "wfit" /\ ~freed /\ pc' \in {"wdrain", "wsend"}
        /\ UNCHANGED <<remote_window_size, read_avail, freed, received, dropped, netVars,
                       peerVars, toClient, packets, arrived, taken, bytes_read, adjVars,
                       read_state, packAdd, ignore_mode, requests>>
    BY <1>0, <1>7 DEF WriteFit, Again, Goto, Running, recvVars, flagVars, peerVars
  <2>2. Running'
    BY <1>0, <2>1 DEF Running
  <2> QED
    BY <1>q, <2>1, <2>2 DEF Sending
<1>8. CASE FlushScan \/ FlushRefund
  BY <1>0, <1>8 DEF FlushScan, FlushRefund, Running
<1>9. CASE CloseWait
  <2>1. pc = "close_wait" /\ pc' \in {"close_done", "close_fail", "close"}
    BY <1>0, <1>9 DEF CloseWait, Goto, Again
  <2>2. CASE \E rc \in ReadResults : TransportRead(rc)
    BY <2>1, <2>2, <1>t DEF Sending
  <2>3. CASE EndFrame /\ UNCHANGED <<flagVars, netVars>>
    <3>1. freed' = freed /\ requests' = requests
      BY <2>3, <1>e DEF flagVars, peerVars
    <3>2. Running'
      BY <1>0, <1>e, <2>1, <2>3, <3>1 DEF Running
    <3> QED
      BY <1>q, <1>e, <2>1, <2>3, <3>1, <3>2 DEF Sending
  <2> QED
    BY <1>9, <2>2, <2>3 DEF CloseWait
<1>10. CASE CloseDone
  <2>1. /\ pc \in {"close_done", "close_fail"} /\ pc' \in {"free", "app"}
        /\ EndFrame /\ UNCHANGED <<freed, netVars>>
    BY <1>10 DEF CloseDone, Goto, Return
  <2>2. requests' = requests
    BY <2>1, <1>e DEF peerVars
  <2>3. Running'
    BY <1>0, <1>e, <2>1, <2>2 DEF Running
  <2> QED
    BY <1>q, <1>e, <2>1, <2>3 DEF Sending
<1>11. CASE FreeStep
  <2>1. /\ pc = "free" /\ pc' = "app" /\ freed' = TRUE /\ packets' = <<>>
        /\ UNCHANGED <<remote_window_size, ignore_mode, read_state, bytes_read, adjVars,
                       netVars, peerVars, read_avail, packAdd, toClient, received,
                       dropped, arrived, taken>>
    BY <1>11 DEF FreeStep, Return
  <2>2. granted' = granted /\ link' = link /\ requests' = requests
        /\ peerSent' = peerSent /\ peerAllowed' = peerAllowed /\ toPeer' = toPeer
    BY <2>1 DEF netVars, peerVars
  <2>3. WindowAgreement' /\ Undropped'
    BY <2>1 DEF RecvInv, WindowAgreement, Undropped
  <2>4. DataStamps' /\ CreditStamps'
    BY <2>1, <2>2 DEF RecvInv, DataStamps, CreditStamps, Bytes, Credit
  <2>5. QueueStamps'
    BY <2>1 DEF RecvInv, QueueStamps
  <2>6. Running'
    BY <1>0, <2>1, <2>2 DEF Running
  <2>7. AdjustHeld' /\ PendingHeld'
    BY <1>0, <2>1, QuietHeld DEF Sending, adjVars, netVars, peerVars
  <2> QED
    BY <2>3, <2>4, <2>5, <2>6, <2>7 DEF RecvInv
<1>12. CASE WaitEof \/ WaitClosed
  <2>1. /\ pc \in {"wait_eof", "wait_closed"} /\ pc' \in {"wait_eof", "wait_closed", "app"}
    BY <1>0, <1>12 DEF WaitEof, WaitClosed, Goto, Again, Return
  <2>2. CASE \E rc \in ReadResults : TransportRead(rc)
    BY <2>1, <2>2, <1>t DEF Sending
  <2>3. CASE EndFrame /\ UNCHANGED <<flagVars, netVars>>
    <3>1. freed' = freed /\ requests' = requests
      BY <2>3, <1>e DEF flagVars, peerVars
    <3>2. Running'
      BY <1>0, <1>e, <2>1, <2>3, <3>1 DEF Running
    <3> QED
      BY <1>q, <1>e, <2>1, <2>3, <3>1, <3>2 DEF Sending
  <2> QED
    BY <1>12, <2>2, <2>3 DEF WaitEof, WaitClosed
<1> QED
  BY <1>1, <1>2, <1>3, <1>4, <1>5, <1>6, <1>7, <1>8, <1>9, <1>10, <1>11, <1>12 DEF Steps

\* Every call of the application keeps RecvInv: flush and queued adjustments are
\* excluded by Disciplined.
LEMMA CallExact ==
    ASSUME Disciplined, TypeOK, RecvInv, Calls
    PROVE  RecvInv'
<1>0. /\ AdjustHeld /\ PendingHeld /\ Running /\ remote_window_size \in Int
      /\ MaxWindow < Modulus /\ MaxWindow \in Nat /\ Modulus \in Nat
  BY ConstantsAssumption DEF RecvInv, Disciplined, TypeOK, AdjustType
<1>1. /\ UNCHANGED <<remote_window_size, read_avail, freed, received, dropped, netVars,
                     peerVars, toClient, packets, arrived, taken, bytes_read, adjVars,
                     read_state, packAdd, writeVars>>
      /\ pc = "app" /\ ~freed
  BY DEF Calls, CallRead, CallWrite, CallFlush, CallAdjust, CallMode, CallWindowRead,
         CallSendEof, CallClose, CallFree, CallWaitEof, CallWaitClosed, Simple, Calling,
         recvVars, flagVars
<1>2. Ledgers'
  BY <1>1, LedgersKept DEF netVars, peerVars
<1>u. link' = link /\ requests' = requests /\ odata' = odata
  BY <1>1 DEF peerVars, netVars
<1>3. link => /\ read_state # "jump1" /\ adjust_state # "created" /\ adjust_queue = 0
              /\ odata.kind \notin SendKinds
  BY <1>0, <1>1 DEF AdjustHeld, PendingHeld, SendKinds
<1>4. ASSUME NEW n \in AdjustSizes, NEW op \in {"adjust", "adjust_queued"}, CallAdjust(n, op)
      PROVE  RecvInv'
  <2>1. /\ pc' = "adjust" /\ op \in Ops /\ call'.op = op /\ call'.n = n
        /\ ignore_mode' = ignore_mode
        /\ remote_window_size + adjust_queue + n <= MaxWindow
    BY <1>4 DEF CallAdjust, Calling, Start
  <2>2. op = "adjust" /\ n \in Nat
    BY <2>1, ConstantFacts DEF Disciplined
  <2>3. Running'
    BY <1>0, <1>1, <1>u, <2>1, <2>2 DEF Running
  <2>4. link => remote_window_size + n < Modulus
    BY <1>0, <1>3, <2>1, <2>2
  <2>5. AdjustHeld'
    BY <1>1, <1>u, <1>3, <2>1, <2>4 DEF AdjustHeld, adjVars
  <2>6. PendingHeld'
    BY <1>u, <1>3, <2>1 DEF PendingHeld, SendKinds
  <2> QED
    BY <1>2, <2>3, <2>5, <2>6 DEF RecvInv, Ledgers
<1>5. ASSUME NEW s \in ReadStreams, NEW n \in ReadSizes, CallRead(s, n)
      PROVE  RecvInv'
  <2>1. /\ pc' = (IF n > remote_window_size THEN "widen" ELSE "expand") /\ call'.n = n
        /\ ignore_mode' = ignore_mode
    BY <1>5 DEF CallRead, Start
  <2>2. n \in Nat
    BY ConstantFacts
  <2>3. Running'
    BY <1>0, <1>1, <1>u, <2>1 DEF Running
  <2>5. AdjustHeld'
    BY <1>0, <1>1, <1>u, <1>3, <2>1, <2>2 DEF AdjustHeld, adjVars
  <2>6. PendingHeld'
    BY <1>u, <1>3, <2>1 DEF PendingHeld, SendKinds
  <2> QED
    BY <1>2, <2>3, <2>5, <2>6 DEF RecvInv, Ledgers
<1>6. ASSUME pc' \in {"app", "wdrain", "wsend", "eof", "close", "free", "wait_eof",
                      "wait_closed"}, ignore_mode' # "IGNORE"
      PROVE  RecvInv'
  <2>1. Running'
    BY <1>0, <1>1, <1>u, <1>6 DEF Running
  <2>2. AdjustHeld'
    BY <1>1, <1>u, <1>3, <1>6 DEF AdjustHeld, adjVars
  <2>3. PendingHeld'
    BY <1>u, <1>3, <1>6 DEF PendingHeld, SendKinds
  <2> QED
    BY <1>2, <2>1, <2>2, <2>3 DEF RecvInv, Ledgers
<1>7. ASSUME NEW s, CallFlush(s)
      PROVE  FALSE
  BY <1>7 DEF CallFlush, Calling, Disciplined
<1>8. ASSUME NEW m \in Modes, CallMode(m)
      PROVE  RecvInv'
  BY <1>1, <1>6, <1>8 DEF CallMode, Quick, Disciplined
<1>9. ASSUME NEW n, CallWrite(n)
      PROVE  RecvInv'
  BY <1>0, <1>1, <1>6, <1>9 DEF CallWrite, Quick, Start, Running
<1>10. CASE CallWindowRead \/ CallSendEof \/ CallClose \/ CallFree \/ CallWaitEof
            \/ CallWaitClosed
  <2>1. ignore_mode' = ignore_mode
    BY <1>10 DEF CallWindowRead, CallSendEof, CallClose, CallFree, CallWaitEof,
                 CallWaitClosed, Simple
  <2>2. pc' \in {"app", "eof", "close", "free", "wait_eof", "wait_closed"}
    BY <1>1, <1>10 DEF CallWindowRead, CallSendEof, CallClose, CallFree, CallWaitEof,
                 CallWaitClosed, Simple, Quick, Start
  <2> QED
    BY <1>0, <1>6, <2>1, <2>2 DEF Running
<1> QED
  BY <1>4, <1>5, <1>7, <1>8, <1>9, <1>10 DEF Calls

\* What the peer, the key exchange and the connection leave alone.
LEMMA PeerHeld ==
    ASSUME RecvInv, UNCHANGED clientVars, UNCHANGED <<odata, requests>>, link' => link
    PROVE  AdjustHeld' /\ PendingHeld' /\ Running'
<1>1. UNCHANGED <<pc, call, remote_window_size, read_state, adjust_state, adjust_queue,
                  adjust_adjust, ignore_mode, packAdd, freed, local_eof, local_close,
                  close_state>>
  BY DEF clientVars, adjVars, flagVars
<1>2. ExpandBy' = ExpandBy
  BY <1>1 DEF ExpandBy, U32, Max2
<1>3. AdjustHeld'
  BY <1>1, <1>2 DEF RecvInv, AdjustHeld
<1>4. PendingHeld'
  BY <1>1 DEF RecvInv, PendingHeld
<1>5. Running'
  BY <1>1 DEF RecvInv, Running
<1> QED
  BY <1>3, <1>4, <1>5

\* A packet of the peer other than a request for a reply keeps the invariant.
LEMMA SaysExact ==
    ASSUME TypeOK, RecvInv, NEW kind \in {"data", "eof", "close", "adjust", "kexinit"},
           NEW s, NEW n \in Nat,
           PeerSays(kind, s, n), requests' = requests,
           \/ /\ kind = "data" /\ peerSent' = peerSent + n
              /\ n <= PacketSize /\ n <= peerAllowed - peerSent
           \/ kind # "data" /\ peerSent' = peerSent
    PROVE  RecvInv'
<1>0. peerSent \in Int /\ peerAllowed \in Int
  BY DEF TypeOK, PeerType
<1>d. /\ kind = "data" => n <= PacketSize
      /\ peerSent' = peerSent + (IF kind = "data" THEN n ELSE 0)
  BY <1>0
<1>1. /\ UNCHANGED clientVars /\ UNCHANGED netVars /\ UNCHANGED <<link, peerAllowed>>
  BY DEF PeerSays
<1>2. DataStamps'
  BY <1>d, DataSaid DEF RecvInv
<1>3. peerSent' <= peerAllowed'
  BY <1>0, <1>1 DEF RecvInv, CreditStamps
<1>4. UNCHANGED <<granted, toPeer, odata>>
  BY <1>1 DEF netVars
<1>5. CreditStamps'
  BY <1>1, <1>3, <1>4 DEF RecvInv, CreditStamps, Credit
<1>6. UNCHANGED <<remote_window_size, read_avail, freed, received, dropped, packets, arrived,
                  taken, bytes_read>>
  BY <1>1 DEF clientVars, flagVars
<1>7. WindowAgreement' /\ Undropped' /\ QueueStamps'
  BY <1>4, <1>6 DEF RecvInv, WindowAgreement, Undropped, QueueStamps
<1>8. AdjustHeld' /\ PendingHeld' /\ Running'
  BY <1>1, <1>4, PeerHeld
<1> QED
  BY <1>2, <1>5, <1>7, <1>8 DEF RecvInv

\* The peer, the key exchange and the loss of the connection keep RecvInv.
LEMMA PeerExact ==
    ASSUME Disciplined, TypeOK, RecvInv, Peer \/ LoseLink
    PROVE  RecvInv'
<1>0. peerSent \in Int /\ requests = 0 /\ MaxRequests = 0
  BY DEF TypeOK, PeerType, RecvInv, Running, Disciplined
<1>1. ASSUME NEW s \in PeerStreams, NEW n \in DataSizes, PeerData(s, n)
      PROVE  RecvInv'
  <2>1. n \in Nat
    BY ConstantFacts
  <2>2. /\ PeerSays("data", s, n) /\ requests' = requests /\ peerSent' = peerSent + n
        /\ n <= PacketSize /\ n <= peerAllowed - peerSent
    BY <1>1 DEF PeerData
  <2> QED
    BY <2>1, <2>2, SaysExact
<1>2. ASSUME NEW kind \in {"eof", "close"}, PeerEnds(kind)
      PROVE  RecvInv'
  <2>1. PeerSays(kind, 0, 0) /\ requests' = requests /\ peerSent' = peerSent
    BY <1>0, <1>2 DEF PeerEnds
  <2> QED
    BY <2>1, SaysExact
<1>3. ASSUME NEW n \in GrantSizes, PeerGrant(n)
      PROVE  RecvInv'
  <2>1. n \in Nat
    BY ConstantFacts
  <2>2. PeerSays("adjust", 0, n) /\ requests' = requests /\ peerSent' = peerSent
    BY <1>0, <1>3 DEF PeerGrant
  <2> QED
    BY <2>1, <2>2, SaysExact
<1>4. ~PeerRequest
  BY <1>0 DEF PeerRequest
<1>5. CASE PeerRekey
  <2>1. PeerSays("kexinit", 0, 0) /\ requests' = requests /\ peerSent' = peerSent
    BY <1>0, <1>5 DEF PeerRekey
  <2> QED
    BY <2>1, SaysExact
<1>6. CASE PeerReceive
  <2>1. /\ UNCHANGED clientVars
        /\ UNCHANGED <<toClient, odata, granted, link, peerSent, requests>>
        /\ toPeer # <<>> /\ toPeer' = Tail(toPeer)
        /\ peerAllowed' = peerAllowed + Credit(Head(toPeer))
    BY <1>6 DEF PeerReceive, Credit
  <2>2. CreditStamps'
    BY <2>1, CreditReceived DEF RecvInv
  <2>3. UNCHANGED <<remote_window_size, read_avail, freed, received, dropped, packets,
                    arrived, taken, bytes_read>>
    BY <2>1 DEF clientVars, flagVars
  <2>4. WindowAgreement' /\ Undropped' /\ QueueStamps' /\ DataStamps'
    BY <2>1, <2>3 DEF RecvInv, WindowAgreement, Undropped, QueueStamps, DataStamps, Bytes
  <2> QED
    BY <2>1, <2>2, <2>4, PeerHeld DEF RecvInv
<1>7. CASE KexDone \/ LoseLink
  <2>1. /\ UNCHANGED clientVars
        /\ UNCHANGED <<toClient, toPeer, odata, granted, peerSent, peerAllowed, requests>>
        /\ link' => link
    BY <1>7 DEF KexDone, LoseLink, netVars, peerVars
  <2>2. UNCHANGED <<remote_window_size, read_avail, freed, received, dropped, packets,
                    arrived, taken, bytes_read>>
    BY <2>1 DEF clientVars, flagVars
  <2>3. Ledgers'
    BY <2>1, <2>2, LedgersKept
  <2> QED
    BY <2>1, <2>3, PeerHeld DEF RecvInv, Ledgers
<1> QED
  BY <1>1, <1>2, <1>3, <1>4, <1>5, <1>6, <1>7 DEF Peer, PeerSend

\* Every step of the system keeps RecvInv.
LEMMA NextExact ==
    ASSUME Disciplined, TypeOK, RecvInv, [Next]_vars
    PROVE  RecvInv'
<1>1. CASE Pump
  <2>1. PICK rc \in ReadResults : TransportRead(rc)
    BY <1>1 DEF Pump
  <2>2. pc' = pc /\ call' = call /\ pc = "app"
    BY <1>1 DEF Pump
  <2>3. UNCHANGED <<packAdd, ignore_mode, freed, requests>>
    BY <2>1, ReadExact DEF flagVars, peerVars
  <2>4. Running'
    BY <2>2, <2>3 DEF RecvInv, Running
  <2> QED
    BY <2>1, <2>2, <2>4, ReadStepExact DEF Sending
<1>2. CASE UNCHANGED vars
  <2>1. /\ UNCHANGED clientVars
        /\ UNCHANGED <<toClient, toPeer, odata, granted, link, peerSent, peerAllowed, requests>>
    BY <1>2 DEF vars, clientVars, recvVars, netVars, peerVars
  <2>2. UNCHANGED <<remote_window_size, read_avail, freed, received, dropped, packets,
                    arrived, taken, bytes_read>>
    BY <2>1 DEF clientVars, flagVars
  <2>3. Ledgers'
    BY <2>1, <2>2, LedgersKept
  <2> QED
    BY <2>1, <2>3, PeerHeld DEF RecvInv, Ledgers
<1> QED
  BY <1>1, <1>2, StepExact, CallExact, PeerExact DEF Next

\* A channel that was just opened satisfies RecvInv.
LEMMA InitExact ==
    ASSUME Disciplined, Init
    PROVE  RecvInv
<1>0. Initial \in Nat
  BY ConstantFacts
<1>1. WindowAgreement /\ Undropped /\ DataStamps /\ CreditStamps
  BY <1>0 DEF Init, WindowAgreement, Undropped, DataStamps, CreditStamps
<1>2. QueueStamps
  BY DEF Init, QueueStamps, Streams
<1>3. Running /\ AdjustHeld /\ PendingHeld
  BY DEF Init, Running, AdjustHeld, PendingHeld, NoPacket
<1> QED
  BY <1>1, <1>2, <1>3 DEF RecvInv

\* RecvInv is an invariant of a disciplined use of the channel.
LEMMA RecvInvariant == Disciplined => (Spec => []RecvInv)
<1> SUFFICES ASSUME Disciplined PROVE Spec => []RecvInv
  OBVIOUS
<1>1. Init => RecvInv
  BY InitExact
<1>2. TypeOK /\ RecvInv /\ [Next]_vars => RecvInv'
  BY NextExact
<1> QED
  BY <1>1, <1>2, TypeCorrect, PTL DEF Spec

\* In blocking mode, without flush, queued adjustments, ignored stderr and requests
\* that want a reply, remote.window_size is exactly what the peer may still send plus
\* what is queued, and packet_add() never throws away a byte of a peer that keeps to
\* its window, whatever the socket does and for every value of the constants.
THEOREM ReceiveWindowExact == Disciplined => (Spec => [](WindowAgreement /\ Undropped))
<1>1. RecvInv => WindowAgreement /\ Undropped
  BY DEF RecvInv
<1> QED
  BY <1>1, RecvInvariant, PTL

\* In particular no byte of a peer that keeps to its window is thrown away by
\* packet_add()'s "data ignored" and "truncating" branches: without flush() no
\* refund wraps either, so the exception that NoDataDropped makes is not used.
THEOREM NothingDropped == Disciplined => (Spec => []NoDataDropped)
<1>1. RecvInv => NoDataDropped
  BY DEF RecvInv, NoDataDropped
<1> QED
  BY <1>1, RecvInvariant, PTL

-----------------------------------------------------------------------------
\* How a channel ends, and what its reader is told.  The theorems about our EOF
\* and CLOSE rest on RecvInv (a half-sent packet belongs to the call that is
\* running) and on CloseInv.  The order of the streams and the meaning of a read
\* of 0 bytes need no discipline of the caller: they rest on the type invariant
\* and on ZeroInv.

\* What every step but a write does to the wire.
Spared == UNCHANGED <<onWire, written>>

\* A packet goes to the wire as the packet it was when it was half sent, so that
\* transport_send() adds to the wire what its caller asked for, or nothing.
LEMMA SentAsAsked ==
    ASSUME Disciplined, TypeOK, NEW m \in Packet, link => odata.kind \in {"none", m.kind},
           m.kind # "failure", NEW rc, TransportSend(m, rc)
    PROVE  \/ /\ rc = "ok" /\ link
              /\ onWire' = onWire \cup ({m.kind} \cap {"eof", "close"})
              /\ m.kind # "data" => written' = written
           \/ /\ rc # "ok" /\ Spared
              /\ link => rc = "EAGAIN"
<1>1. CASE ~link
  <2>1. UNCHANGED netVars /\ rc # "ok"
    BY <1>1, SendDown
  <2> QED
    BY <1>1, <2>1 DEF netVars, Spared
<1>2. CASE link
  <2>0. NetType
    BY DEF TypeOK
  <2>1. PICK x \in Packet :
          /\ x = IF odata.kind = "none" THEN m ELSE odata
          /\ \/ rc = "ok" /\ Carry(x)
             \/ /\ rc = "EAGAIN" /\ odata' \in {odata, x}
                /\ UNCHANGED <<toPeer, granted, written, onWire>>
    BY <1>2, <2>0, SendUp
  <2>2. x.kind = m.kind
    BY <1>2, <2>1
  <2>3. Carry(x) => /\ onWire' = onWire \cup ({m.kind} \cap {"eof", "close"})
                    /\ m.kind # "data" => written' = written
    BY <2>0, <2>2 DEF Carry, NetType
  <2> QED
    BY <1>2, <2>1, <2>3 DEF Spared
<1> QED
  BY <1>1, <1>2

\* Which packet can be half sent, by where the running call is.
LEMMA HalfSent ==
    ASSUME TypeOK, RecvInv, link
    PROVE  /\ odata.kind \in {"none", "adjust", "data", "eof", "close"}
           /\ odata.kind = "adjust" => pc \in {"widen", "expand", "adjust"}
           /\ odata.kind = "data" => pc = "wsend"
           /\ odata.kind = "eof" => pc \in {"eof", "close"} /\ (pc = "close" => ~local_eof)
           /\ odata.kind = "close" => pc \in {"close", "close_send"} /\ local_eof
<1>1. odata.kind \in SendKinds \cup {"none"}
  BY DEF TypeOK, NetType, NoPacket
<1>2. PendingHeld /\ AdjustHeld
  BY DEF RecvInv
<1> QED
  BY <1>1, <1>2 DEF PendingHeld, AdjustHeld, SendKinds

\* An adjustment of the receive window puts neither data nor an end on the wire.
LEMMA AdjustSpares ==
    ASSUME Disciplined, TypeOK, link => odata.kind \in {"none", "adjust"},
           NEW w \in Int, NEW adj \in Int, NEW force, NEW rc,
           ReceiveWindowAdjust(w, adj, force, rc)
    PROVE  Spared
<1>1. CASE QueueAdjust(w, adj, force, rc)
  BY <1>1 DEF QueueAdjust, netVars, Spared
<1>2. CASE SendAdjust(w, adj, force, rc)
  <2>0. adjust_queue \in Int /\ adjust_adjust \in Int
    BY DEF TypeOK, AdjustType
  <2>1. U32(adj + adjust_queue) \in Int
    BY <2>0, U32Int DEF U32Type
  <2>2. PICK n \in Int, s \in SendResults : TransportSend([kind |-> "adjust", n |-> n], s)
    BY <1>2, <2>0, <2>1 DEF SendAdjust
  <2> DEFINE m == [kind |-> "adjust", n |-> n]
  <2>3. m \in Packet /\ m.kind = "adjust"
    BY DEF Packet, SendKinds
  <2>4. TransportSend(m, s)
    BY <2>2
  <2> HIDE DEF m
  <2>5. \/ onWire' = onWire \cup ({m.kind} \cap {"eof", "close"}) /\ written' = written
        \/ Spared
    BY <2>3, <2>4, SentAsAsked
  <2> QED
    BY <2>3, <2>5 DEF Spared
<1> QED
  BY <1>1, <1>2 DEF ReceiveWindowAdjust

Writing == {"wdrain", "wfit", "wsend"}
Ending == {"close_wait", "close_done", "close_fail"}

\* A step that spares the wire and the flags keeps CloseInv, if it leads neither
\* into a write nor to the end of a close.
LEMMA QuietEnd ==
    ASSUME CloseInv, Spared, link' => link,
           UNCHANGED <<local_close, local_eof, close_state, write_state>>,
           pc' \in Writing => pc \in Writing, pc' \in Ending => pc \in Ending,
           pc = "wsend" => pc' = "wsend"
    PROVE  CloseInv'
  BY DEF CloseInv, Spared, Writing, Ending

\* The steps that send EOF or CLOSE, or that set the flags.
LEMMA EndStepsKept ==
    ASSUME Disciplined, TypeOK, RecvInv, CloseInv,
           EofStep \/ CloseEnter \/ CloseSend \/ CloseDone
    PROVE  CloseInv' /\ written' = written
<1>0. /\ Blocking /\ ~MayTimeout /\ NoCall.op = "none"
      /\ onWire \subseteq {"eof", "close"}
      /\ (pc = "close_send" /\ link => local_eof)
  BY DEF Disciplined, NoCall, TypeOK, NetType, RecvInv, PendingHeld
<1>1. UNCHANGED <<write_state, link>>
  BY DEF EofStep, CloseEnter, CloseSend, CloseDone, EndFrame, writeVars, peerVars
<1>2. link => (write_state # "created" \/ pc = "wsend")
  BY DEF CloseInv
<1>3. ASSUME NEW rc, SendEof(rc), pc = "eof" \/ (pc = "close" /\ ~local_eof)
      PROVE  /\ written' = written
             /\ \/ local_eof' /\ onWire' = onWire \cup {"eof"}
                \/ local_eof' = local_eof /\ onWire' = onWire
  <2> DEFINE m == [kind |-> "eof", n |-> 0]
  <2>1. m \in Packet /\ m.kind = "eof"
    BY DEF Packet, SendKinds
  <2>2. link => odata.kind \in {"none", m.kind}
    BY <1>3, HalfSent
  <2>3. PICK s \in SendResults : TransportSend(m, s) /\ local_eof' = (local_eof \/ s = "ok")
    BY <1>3 DEF SendEof
  <2> HIDE DEF m
  <2>4. \/ /\ s = "ok" /\ written' = written
           /\ onWire' = onWire \cup ({m.kind} \cap {"eof", "close"})
        \/ s # "ok" /\ Spared
    BY <2>1, <2>2, <2>3, SentAsAsked
  <2>5. local_eof \in BOOLEAN
    BY DEF TypeOK, FlagType
  <2> QED
    BY <2>1, <2>3, <2>4, <2>5 DEF Spared
<1>4. CASE EofStep
  <2>1. PICK rc \in {"ok", "EAGAIN", "error"} : SendEof(rc)
    BY <1>4 DEF EofStep
  <2>2. /\ pc = "eof" /\ pc' \in {"eof", "app"} /\ UNCHANGED <<local_close, close_state>>
    BY <1>0, <1>4 DEF EofStep, Again, Goto, Return
  <2>3. /\ written' = written
        /\ \/ local_eof' /\ onWire' = onWire \cup {"eof"}
           \/ local_eof' = local_eof /\ onWire' = onWire
    BY <1>3, <2>1, <2>2
  <2> QED
    BY <1>1, <1>2, <2>2, <2>3 DEF CloseInv
<1>5. CASE CloseEnter
  <2>1. /\ pc = "close" /\ pc' \in {"app", "close_send", "close", "close_fail"}
        /\ pc' = "close_fail" => close_state = "sent"
        /\ local_close' = local_close /\ close_state' \in {"idle", close_state}
    BY <1>0, <1>5 DEF CloseEnter, Again, Return, Goto
  <2>2. \/ Spared /\ local_eof' = local_eof
        \/ \E rc : SendEof(rc) /\ ~local_eof
    BY <1>5 DEF CloseEnter, netVars, Spared
  <2>3. /\ written' = written
        /\ \/ local_eof' /\ onWire' = onWire \cup {"eof"}
           \/ local_eof' = local_eof /\ onWire' = onWire
    BY <1>3, <2>1, <2>2 DEF Spared
  <2> QED
    BY <1>1, <1>2, <2>1, <2>3 DEF CloseInv
<1>6. CASE CloseSend
  <2>1. pc = "close_send" /\ UNCHANGED <<local_eof, local_close>>
    BY <1>6 DEF CloseSend
  <2>2. CASE close_state = "sent"
    <3>1. pc' = "close_wait" /\ close_state' = "sent" /\ Spared
      BY <1>6, <2>2 DEF CloseSend, Goto, netVars, Spared
    <3> QED
      BY <1>1, <1>2, <2>1, <2>2, <3>1 DEF CloseInv, Spared
  <2>3. CASE close_state # "sent"
    <3> DEFINE m == [kind |-> "close", n |-> 0]
    <3>1. m \in Packet /\ m.kind = "close"
      BY DEF Packet, SendKinds
    <3>2. link => odata.kind \in {"none", m.kind}
      BY <2>1, HalfSent
    <3>3. PICK s \in SendResults :
            /\ TransportSend(m, s)
            /\ close_state' = (IF s = "ok" THEN "sent" ELSE "created")
            /\ pc' = CASE s = "ok" -> "close_wait" [] s = "EAGAIN" -> "close"
                       [] OTHER -> "close_fail"
      BY <1>0, <1>6, <2>3 DEF CloseSend, Again, Goto
    <3> HIDE DEF m
    <3>4. \/ /\ s = "ok" /\ written' = written
             /\ onWire' = onWire \cup ({m.kind} \cap {"eof", "close"})
          \/ s # "ok" /\ Spared /\ (link => s = "EAGAIN")
      BY <3>1, <3>2, <3>3, SentAsAsked
    <3>5. \/ /\ pc' = "close_wait" /\ written' = written /\ onWire' = onWire \cup {"close"}
          \/ /\ close_state' = "created" /\ Spared /\ (link => pc' = "close")
      BY <3>1, <3>3, <3>4
    <3> QED
      BY <1>0, <1>1, <1>2, <2>1, <3>5 DEF CloseInv, Spared
  <2> QED
    BY <2>2, <2>3
<1>7. CASE CloseDone
  <2>1. /\ pc \in {"close_done", "close_fail"} /\ close_state' = "idle"
        /\ pc' \in {"free", "app"} /\ local_eof' = local_eof /\ Spared
    BY <1>7 DEF CloseDone, Goto, Return, netVars, Spared
  <2> QED
    BY <1>1, <1>2, <2>1 DEF CloseInv, Spared
<1> QED
  BY <1>4, <1>5, <1>6, <1>7

\* The steps of a write.
LEMMA WriteStepsKept ==
    ASSUME Disciplined, TypeOK, RecvInv, CloseInv, WriteDrain \/ WriteFit \/ WriteSend
    PROVE  CloseInv' /\ (link /\ written' # written => onWire = {}) /\ (~link => Spared)
<1>0. Blocking /\ ~MayTimeout
  BY DEF Disciplined
<1>1. CASE WriteDrain
  <2>1. PICK rc \in ReadResults : TransportRead(rc)
    BY <1>1 DEF WriteDrain
  <2>2. /\ Spared /\ link' = link
        /\ UNCHANGED <<local_close, local_eof, close_state, write_state>>
    BY <2>1, ReadExact DEF netVars, flagVars, writeVars, peerVars, Spared
  <2>3. pc = "wdrain" /\ pc' \in {"wdrain", "wfit", "app"}
    BY <1>1 DEF WriteDrain, Goto, Return
  <2>4. CloseInv'
    BY <2>2, <2>3, QuietEnd DEF Writing, Ending
  <2> QED
    BY <2>2, <2>4 DEF Spared
<1>2. CASE WriteFit
  <2>1. /\ Spared /\ UNCHANGED <<link, local_close, local_eof, close_state>>
        /\ pc = "wfit"
        /\ \/ pc' = "wdrain" /\ write_state' = write_state
           \/ pc' = "wsend" /\ write_state' = "created"
    BY <1>0, <1>2 DEF WriteFit, Again, Goto, netVars, flagVars, peerVars, writeVars, Spared
  <2> QED
    BY <2>1 DEF CloseInv, Spared
<1>3. CASE WriteSend
  <2> DEFINE m == [kind |-> "data", n |-> write_bufwrite]
  <2>1. m \in Packet /\ m.kind = "data"
    BY DEF TypeOK, CallType, Packet, SendKinds
  <2>2. pc = "wsend" /\ UNCHANGED <<link, local_close, local_eof, close_state>>
    BY <1>3 DEF WriteSend, flagVars, peerVars
  <2>3. link => odata.kind \in {"none", m.kind}
    BY <2>2, HalfSent
  <2>4. PICK s \in SendResults :
          /\ TransportSend(m, s)
          /\ \/ pc' = "app" /\ write_state' = "idle"
             \/ pc' = "wsend" /\ write_state' = write_state
    BY <1>0, <1>3 DEF WriteSend, Again, Goto, Return, writeVars
  <2> HIDE DEF m
  <2>5. \/ link /\ onWire' = onWire \cup ({m.kind} \cap {"eof", "close"})
        \/ Spared
    BY <2>1, <2>3, <2>4, SentAsAsked
  <2>6. onWire' = onWire /\ (~link => Spared)
    BY <2>1, <2>5 DEF Spared
  <2> QED
    BY <2>2, <2>4, <2>6 DEF CloseInv, Spared
<1> QED
  BY <1>1, <1>2, <1>3

\* The steps that read packets from the transport.
LEMMA ReadStepKept ==
    ASSUME Disciplined, TypeOK, RecvInv, CloseInv, NEW rc, TransportRead(rc),
           pc' \in Writing => pc \in Writing, pc' \in Ending => pc \in Ending,
           pc = "wsend" => pc' = "wsend"
    PROVE  CloseInv' /\ Spared
<1>1. /\ Spared /\ link' = link
      /\ UNCHANGED <<local_close, local_eof, close_state, write_state>>
  BY ReadExact DEF netVars, flagVars, writeVars, peerVars, Spared
<1> QED
  BY <1>1, QuietEnd

\* The steps that adjust the receive window.
LEMMA WindowStepsKept ==
    ASSUME Disciplined, TypeOK, RecvInv, CloseInv, ReadWiden \/ ReadExpand \/ AdjustStep
    PROVE  CloseInv' /\ Spared
<1>0. /\ Blocking /\ ~MayTimeout /\ remote_window_size \in Int /\ call.n \in Int
      /\ Initial \in Int /\ MinAdjust \in Int
  BY ConstantFacts DEF Disciplined, TypeOK, AdjustType, ControlType
<1>1. ExpandBy \in Int
  BY <1>0, U32Int DEF ExpandBy, Max2, U32Type
<1>2. /\ UNCHANGED <<link, local_close, local_eof, close_state, write_state>>
      /\ pc \in {"widen", "expand", "adjust"}
      /\ pc' \in {"widen", "expand", "adjust", "drain", "app"}
  BY <1>0 DEF ReadWiden, ReadExpand, AdjustStep, Again, Goto, Return, peerVars, flagVars,
              writeVars
<1>3. link => odata.kind \in {"none", "adjust"}
  BY <1>2, HalfSent
<1>4. \/ Spared
      \/ \E adj \in Int : \E force, rc : ReceiveWindowAdjust(remote_window_size, adj, force, rc)
  BY <1>0, <1>1 DEF ReadWiden, ReadExpand, AdjustStep, netVars, Spared
<1>5. Spared
  BY <1>0, <1>3, <1>4, AdjustSpares
<1> QED
  BY <1>2, <1>5, QuietEnd DEF Writing, Ending

\* Every step of a running call keeps CloseInv, and only a write of a channel that
\* has ended nothing writes data.
LEMMA StepKeepsEnd ==
    ASSUME Disciplined, TypeOK, RecvInv, CloseInv, Steps
    PROVE  CloseInv' /\ (written' # written => onWire = {})
<1>0. Blocking /\ ~MayTimeout /\ pc \notin {"fscan", "frefund"}
  BY DEF Disciplined, RecvInv, Running
<1>1. CASE ReadWiden \/ ReadExpand \/ AdjustStep
  BY <1>1, WindowStepsKept DEF Spared
<1>2. CASE ReadDrain
  <2>1. PICK rc \in ReadResults : TransportRead(rc)
    BY <1>2 DEF ReadDrain
  <2>2. pc = "drain" /\ pc' \in {"drain", "copy", "app"}
    BY <1>2 DEF ReadDrain, Goto, Return
  <2> QED
    BY <2>1, <2>2, ReadStepKept DEF Writing, Ending, Spared
<1>3. CASE CloseWait
  <2>1. pc = "close_wait" /\ pc' \in {"close_done", "close_fail", "close"}
    BY <1>0, <1>3 DEF CloseWait, Goto, Again
  <2>2. CASE EndFrame /\ UNCHANGED <<flagVars, netVars>>
    <3>1. /\ Spared /\ link' = link
          /\ UNCHANGED <<local_close, local_eof, close_state, write_state>>
      BY <2>2 DEF EndFrame, flagVars, netVars, peerVars, writeVars, Spared
    <3> QED
      BY <2>1, <3>1, QuietEnd DEF Writing, Ending, Spared
  <2>3. CASE \E rc \in ReadResults : TransportRead(rc)
    BY <2>1, <2>3, ReadStepKept DEF Writing, Ending, Spared
  <2> QED
    BY <1>3, <2>2, <2>3 DEF CloseWait
<1>4. CASE WaitEof \/ WaitClosed
  <2>1. /\ pc \in {"wait_eof", "wait_closed"}
        /\ pc' \in {"wait_eof", "wait_closed", "app"}
    BY <1>0, <1>4 DEF WaitEof, WaitClosed, Goto, Again, Return
  <2>2. CASE EndFrame /\ UNCHANGED <<flagVars, netVars>>
    <3>1. /\ Spared /\ link' = link
          /\ UNCHANGED <<local_close, local_eof, close_state, write_state>>
      BY <2>2 DEF EndFrame, flagVars, netVars, peerVars, writeVars, Spared
    <3> QED
      BY <2>1, <3>1, QuietEnd DEF Writing, Ending, Spared
  <2>3. CASE \E rc \in ReadResults : TransportRead(rc)
    BY <2>1, <2>3, ReadStepKept DEF Writing, Ending, Spared
  <2> QED
    BY <1>4, <2>2, <2>3 DEF WaitEof, WaitClosed
<1>5. CASE ReadCopy \/ ReadReturn \/ FreeStep
  <2>1. /\ Spared /\ link' = link
        /\ UNCHANGED <<local_close, local_eof, close_state, write_state>>
    BY <1>5 DEF ReadCopy, ReadReturn, FreeStep, flagVars, netVars, peerVars, writeVars, Spared
  <2>2. pc \in {"copy", "free"} /\ pc' \in {"copy", "app", "expand"}
    BY <1>0, <1>5 DEF ReadCopy, ReadReturn, FreeStep, Again, Goto, Return
  <2> QED
    BY <2>1, <2>2, QuietEnd DEF Writing, Ending, Spared
<1>6. CASE WriteDrain \/ WriteFit \/ WriteSend
  BY <1>6, WriteStepsKept DEF Spared
<1>7. CASE EofStep \/ CloseEnter \/ CloseSend \/ CloseDone
  BY <1>7, EndStepsKept
<1>8. ~FlushScan /\ ~FlushRefund
  BY <1>0 DEF FlushScan, FlushRefund
<1> QED
  BY <1>1, <1>2, <1>3, <1>4, <1>5, <1>6, <1>7, <1>8 DEF Steps

\* The same of every step of the system.
LEMMA NextKeepsEnd ==
    ASSUME Disciplined, TypeOK, RecvInv, CloseInv, [Next]_vars
    PROVE  CloseInv' /\ (written' # written => onWire = {})
<1>1. CASE Calls
  <2>1. /\ Spared /\ link' = link /\ pc = "app"
        /\ UNCHANGED <<local_close, local_eof, close_state, write_state>>
    BY <1>1 DEF Calls, CallRead, CallWrite, CallFlush, CallAdjust, CallMode, CallWindowRead,
                CallSendEof, CallClose, CallFree, CallWaitEof, CallWaitClosed, Simple,
                Calling, flagVars, netVars, peerVars, writeVars, Spared
  <2>2. /\ pc' \notin Ending \cup {"wfit"}
        /\ pc' = "wdrain" => ~local_eof
        /\ pc' = "wsend" => write_state = "created"
    BY <1>1, <2>1 DEF Calls, CallRead, CallWrite, CallFlush, CallAdjust, CallMode,
                CallWindowRead, CallSendEof, CallClose, CallFree, CallWaitEof,
                CallWaitClosed, Simple, Start, Quick, Ending
  <2> QED
    BY <2>1, <2>2 DEF CloseInv, Spared, Ending
<1>2. CASE Pump
  <2>1. pc' = pc /\ \E rc \in ReadResults : TransportRead(rc)
    BY <1>2 DEF Pump
  <2> QED
    BY <2>1, ReadStepKept DEF Spared
<1>3. CASE Peer \/ LoseLink \/ UNCHANGED vars
  <2>1. UNCHANGED clientVars /\ Spared /\ (link' => link)
    <3>0. ASSUME NEW k, NEW s, NEW n, PeerSays(k, s, n)
          PROVE  UNCHANGED clientVars /\ Spared /\ (link' => link)
      BY <3>0 DEF PeerSays, netVars, Spared
    <3>1. CASE PeerReceive \/ KexDone \/ LoseLink
      BY <3>1 DEF PeerReceive, KexDone, LoseLink, netVars, peerVars, Spared
    <3>2. CASE UNCHANGED vars
      BY <3>2 DEF vars, clientVars, recvVars, netVars, peerVars, Spared
    <3>3. CASE PeerSend
      BY <3>0, <3>3 DEF PeerSend, PeerData, PeerEnds
    <3>4. ASSUME \/ \E n \in GrantSizes : PeerGrant(n)
                 \/ PeerRequest \/ PeerRekey
          PROVE  UNCHANGED clientVars /\ Spared /\ (link' => link)
      BY <3>0, <3>4 DEF PeerGrant, PeerRequest, PeerRekey
    <3> QED
      BY <1>3, <3>1, <3>2, <3>3, <3>4 DEF Peer
  <2>2. UNCHANGED <<local_close, local_eof, close_state, write_state, pc>>
    BY <2>1 DEF clientVars, flagVars, writeVars
  <2> QED
    BY <2>1, <2>2, QuietEnd DEF Spared
<1> QED
  BY <1>1, <1>2, <1>3, StepKeepsEnd DEF Next

\* CloseInv is an invariant of a disciplined use of the channel.
LEMMA CloseInvariant == Disciplined => (Spec => []CloseInv)
<1> SUFFICES ASSUME Disciplined PROVE Spec => []CloseInv
  OBVIOUS
<1>1. Init => CloseInv
  BY DEF Init, CloseInv
<1>2. TypeOK /\ RecvInv /\ CloseInv /\ [Next]_vars => CloseInv'
  BY NextKeepsEnd
<1>3. Spec => []RecvInv
  BY RecvInvariant
<1> QED
  BY <1>1, <1>2, <1>3, TypeCorrect, PTL DEF Spec

\* A channel with local.close set has sent its CLOSE, as long as there is a
\* connection to send it on: _libssh2_channel_close() never takes its "close anyway"
\* branch because of a packet that was half sent.
THEOREM ClosedChannelSaidSo == Disciplined => (Spec => []ClosedIsSent)
<1>1. CloseInv => ClosedIsSent
  BY DEF CloseInv, ClosedIsSent
<1> QED
  BY <1>1, CloseInvariant, PTL

\* After channel_send_eof() or channel_close() put EOF or CLOSE on the wire no call
\* of _libssh2_channel_write() adds data to it.
THEOREM EofIsLast == Disciplined => (Spec => NoDataAfterEof)
<1> SUFFICES ASSUME Disciplined PROVE Spec => NoDataAfterEof
  OBVIOUS
<1>1. TypeOK /\ RecvInv /\ CloseInv /\ [Next]_vars =>
        [written' # written => onWire = {}]_vars
  BY NextKeepsEnd
<1>2. Spec => []RecvInv /\ []CloseInv
  BY RecvInvariant, CloseInvariant
<1> QED
  BY <1>1, <1>2, TypeCorrect, PTL DEF Spec, NoDataAfterEof

----------------------------------------------------------------------------
(* The order of the bytes of a stream. *)

\* A packet that arrives goes behind the last one of its stream.
LEMMA OrderAdded ==
    ASSUME TypeOK, StreamInOrder, ~freed, NEW s \in Streams, NEW len \in Nat,
           packets' = Append(packets, [stream |-> s, size |-> len, left |-> len,
                                       upto |-> arrived[s] + len]),
           arrived' = [arrived EXCEPT ![s] = @ + len], UNCHANGED <<taken, freed>>
    PROVE  StreamInOrder'
<1> DEFINE n == Len(packets)
<1>1. /\ packets \in Seq(Queued) /\ n \in Nat /\ DOMAIN packets = 1..n
      /\ arrived \in [Streams -> Int] /\ taken \in [Streams -> Int]
      /\ \A i \in 1..n : packets[i] \in Queued
  BY DEF TypeOK, RecvType
<1>2. /\ DOMAIN packets' = 1..(n + 1)
      /\ \A i \in 1..n : packets'[i] = packets[i]
      /\ packets'[n + 1].stream = s /\ packets'[n + 1].left = len
      /\ packets'[n + 1].upto = arrived[s] + len
  BY <1>1
<1>2a. /\ n + 1 \in DOMAIN packets'
       /\ \A i \in 1..n : i \in DOMAIN packets' /\ i < n + 1
  BY <1>1, <1>2
<1>3. /\ arrived'[s] = arrived[s] + len
      /\ \A t \in Streams : t # s => arrived'[t] = arrived[t]
  BY <1>1
<1>4. \A i \in 1..n : /\ packets[i].stream \in Streams /\ packets[i].left \in Nat
                      /\ packets[i].upto \in Int
  BY <1>1 DEF Queued
<1> HIDE DEF n
<1>5. ASSUME NEW i \in DOMAIN packets', Leads(i)'
      PROVE  taken'[packets'[i].stream] + packets'[i].left = packets'[i].upto
  <2>1. CASE i \in 1..n
    <3>1. Leads(i)
      BY <1>1, <1>2, <1>5, <2>1 DEF Leads
    <3> QED
      BY <1>1, <1>2, <2>1, <3>1 DEF StreamInOrder
  <2>2. CASE i = n + 1
    <3>1. \A j \in DOMAIN packets : packets[j].stream # s
      BY <1>1, <1>2, <1>2a, <1>5, <2>2 DEF Leads
    <3>2. taken[s] = arrived[s]
      BY <3>1 DEF StreamInOrder
    <3> QED
      BY <1>1, <1>2, <2>2, <3>2
  <2> QED
    BY <1>1, <1>2, <2>1, <2>2
<1>6. ASSUME NEW i \in DOMAIN packets', NEW j \in DOMAIN packets', Follows(i, j)'
      PROVE  packets'[j].upto + packets'[i].left = packets'[i].upto
  <2>1. CASE i \in 1..n
    <3>1. j \in 1..n /\ Follows(i, j)
      BY <1>1, <1>2, <1>6, <2>1 DEF Follows
    <3> QED
      BY <1>1, <1>2, <2>1, <3>1 DEF StreamInOrder
  <2>2. CASE i = n + 1
    <3>0. /\ j < i /\ packets'[j].stream = packets'[i].stream
          /\ \A k \in DOMAIN packets' :
               j < k /\ k < i => packets'[k].stream # packets'[i].stream
      BY <1>6 DEF Follows
    <3>1a. j \in 1..n /\ packets[j].stream = s
      BY <1>1, <1>2, <2>2, <3>0
    <3>1b. \A k \in 1..n : j < k => packets[k].stream # s
      BY <1>2, <1>2a, <2>2, <3>0
    <3>1. j \in 1..n /\ packets[j].stream = s /\ Trails(j)
      BY <1>1, <3>1a, <3>1b DEF Trails
    <3>2. packets[j].upto = arrived[s]
      BY <1>1, <3>1 DEF StreamInOrder
    <3> QED
      BY <1>1, <1>2, <2>2, <3>1, <3>2
  <2> QED
    BY <1>1, <1>2, <2>1, <2>2
<1>7. ASSUME NEW i \in DOMAIN packets', Trails(i)'
      PROVE  packets'[i].upto = arrived'[packets'[i].stream]
  <2>1. CASE i \in 1..n
    <3>1. Trails(i) /\ packets[i].stream # s
      BY <1>1, <1>2, <1>2a, <1>7, <2>1 DEF Trails
    <3> QED
      BY <1>1, <1>2, <1>3, <1>4, <2>1, <3>1 DEF StreamInOrder
  <2>2. CASE i = n + 1
    BY <1>2, <1>3, <2>2
  <2> QED
    BY <1>1, <1>2, <2>1, <2>2
<1>8. ASSUME NEW t \in Streams, \A i \in DOMAIN packets' : packets'[i].stream # t
      PROVE  taken'[t] = arrived'[t]
  <2>1. t # s /\ \A i \in DOMAIN packets : packets[i].stream # t
    BY <1>1, <1>2, <1>2a, <1>8
  <2> QED
    BY <1>3, <2>1 DEF StreamInOrder
<1> QED
  BY <1>5, <1>6, <1>7, <1>8 DEF StreamInOrder

\* A packet fewer.
LEMMA WithoutCount ==
    ASSUME packets \in Seq(Queued), NEW i \in 1..Len(packets)
    PROVE  DOMAIN Without(i) = 1..(Len(packets) - 1)
<1> DEFINE n == Len(packets)
           a == SubSeq(packets, 1, i - 1)
           b == SubSeq(packets, i + 1, n)
<1>1. n \in Nat /\ i \in 1..n
  OBVIOUS
<1>2. a \in Seq(Queued) /\ Len(a) = i - 1
  BY <1>1
<1>3. b \in Seq(Queued) /\ Len(b) = n - i
  BY <1>1
<1>4. Without(i) = a \o b
  BY DEF Without
<1> HIDE DEF n, a, b
<1>5. a \o b \in Seq(Queued) /\ Len(a \o b) = Len(a) + Len(b)
  BY <1>2, <1>3, ConcatProperties
<1>6. Len(a \o b) = n - 1
  BY <1>1, <1>2, <1>3, <1>5
<1> QED
  BY <1>4, <1>5, <1>6 DEF n

\* A packet that is used up is the first of its stream, and its bytes are the
\* next ones of it.
LEMMA OrderTaken ==
    ASSUME TypeOK, StreamInOrder, NEW i \in DOMAIN packets, Leads(i), packets' = Without(i),
           taken' = [taken EXCEPT ![packets[i].stream] = @ + packets[i].left],
           UNCHANGED <<arrived, freed>>
    PROVE  StreamInOrder'
<1> DEFINE n == Len(packets)
           s == packets[i].stream
           h == [k \in 1..(n - 1) |-> IF k < i THEN k ELSE k + 1]
<1>1. /\ packets \in Seq(Queued) /\ n \in Nat /\ DOMAIN packets = 1..n /\ i \in 1..n
      /\ taken \in [Streams -> Int]
      /\ \A j \in 1..n : packets[j] \in Queued
  BY DEF TypeOK, RecvType
<1>2. \A j \in 1..n : /\ packets[j].stream \in Streams /\ packets[j].left \in Nat
                      /\ packets[j].upto \in Int
  BY <1>1 DEF Queued
<1>3. /\ taken'[s] = taken[s] + packets[i].left
      /\ \A t \in Streams : t # s => taken'[t] = taken[t]
  BY <1>1, <1>2
<1>4. /\ DOMAIN packets' = 1..(n - 1)
      /\ \A k \in 1..(n - 1) : packets'[k] = packets[h[k]]
  <2>1. RecvType
    BY DEF TypeOK
  <2>2. DOMAIN Without(i) = 1..(n - 1)
    BY <1>1, WithoutCount
  <2>3. \A k \in DOMAIN Without(i) :
              \/ k < i /\ k \in DOMAIN packets /\ Without(i)[k] = packets[k]
              \/ k >= i /\ k + 1 \in DOMAIN packets /\ Without(i)[k] = packets[k + 1]
    BY <2>1, WithoutElements
  <2> QED
    BY <1>1, <2>2, <2>3
<1>5. /\ \A k \in 1..(n - 1) : h[k] \in 1..n /\ h[k] # i
      /\ \A j, k \in 1..(n - 1) : j < k <=> h[j] < h[k]
  BY <1>1
<1>6. \A j \in 1..n : j # i => \E k \in 1..(n - 1) : h[k] = j
  <2> SUFFICES ASSUME NEW j \in 1..n, j # i PROVE \E k \in 1..(n - 1) : h[k] = j
    OBVIOUS
  <2>1. CASE j < i
    <3>1. j \in 1..(n - 1) /\ h[j] = j
      BY <1>1, <2>1
    <3> QED
      BY <3>1
  <2>2. CASE j > i
    <3>1. j - 1 \in 1..(n - 1) /\ h[j - 1] = j
      BY <1>1, <2>2
    <3> QED
      BY <3>1
  <2> QED
    BY <1>1, <2>1, <2>2
<1> HIDE DEF n, h
<1>7. \A j \in 1..n : j < i => packets[j].stream # s
  BY <1>1 DEF Leads
<1>8. ASSUME NEW k \in 1..(n - 1), Leads(k)'
      PROVE  taken'[packets'[k].stream] + packets'[k].left = packets'[k].upto
  <2> DEFINE j == h[k]
  <2>0. j \in 1..n /\ j # i /\ packets'[k] = packets[j]
    BY <1>4, <1>5
  <2>1. \A m \in 1..n : m < j /\ m # i => packets[m].stream # packets[j].stream
    BY <1>4, <1>5, <1>6, <1>8 DEF Leads
  <2> HIDE DEF j
  <2>2. CASE packets[j].stream # s
    <3>1. Leads(j)
      BY <1>1, <2>1, <2>2 DEF Leads
    <3>2. taken[packets[j].stream] + packets[j].left = packets[j].upto
      BY <1>1, <2>0, <3>1 DEF StreamInOrder
    <3>3. taken'[packets[j].stream] = taken[packets[j].stream]
      BY <1>2, <1>3, <2>0, <2>2
    <3> QED
      BY <2>0, <3>2, <3>3
  <2>3. CASE packets[j].stream = s
    <3>1. i < j
      BY <1>1, <1>7, <2>0, <2>3
    <3>2. Follows(j, i)
      BY <1>1, <2>1, <2>3, <3>1 DEF Follows
    <3>3. packets[i].upto + packets[j].left = packets[j].upto
      BY <1>1, <2>0, <3>2 DEF StreamInOrder
    <3>4. taken[s] + packets[i].left = packets[i].upto
      BY DEF StreamInOrder
    <3> QED
      BY <1>1, <1>2, <1>3, <2>0, <2>3, <3>3, <3>4
  <2> QED
    BY <2>2, <2>3
<1>9. ASSUME NEW k \in 1..(n - 1), NEW l \in 1..(n - 1), Follows(k, l)'
      PROVE  packets'[l].upto + packets'[k].left = packets'[k].upto
  <2>1. h[l] < h[k] /\ packets[h[l]].stream = packets[h[k]].stream
    BY <1>4, <1>5, <1>9 DEF Follows
  <2>2. \A m \in 1..n : h[l] < m /\ m < h[k] /\ m # i => packets[m].stream # packets[h[k]].stream
    BY <1>4, <1>5, <1>6, <1>9 DEF Follows
  <2>3. h[l] < i => packets[h[k]].stream # s
    BY <1>5, <1>7, <2>1
  <2>4. Follows(h[k], h[l])
    BY <1>1, <2>1, <2>2, <2>3 DEF Follows
  <2>5. h[k] \in DOMAIN packets /\ h[l] \in DOMAIN packets
    BY <1>1, <1>5
  <2>6. packets[h[l]].upto + packets[h[k]].left = packets[h[k]].upto
    BY <2>4, <2>5 DEF StreamInOrder
  <2> QED
    BY <1>4, <2>6
<1>10. ASSUME NEW k \in 1..(n - 1), Trails(k)'
       PROVE  packets'[k].upto = arrived'[packets'[k].stream]
  <2>1. \A m \in 1..n : h[k] < m /\ m # i => packets[m].stream # packets[h[k]].stream
    BY <1>4, <1>5, <1>6, <1>10 DEF Trails
  <2>2. h[k] < i => packets[h[k]].stream # s
    BY <1>5, <1>7
  <2>3. Trails(h[k])
    BY <1>1, <2>1, <2>2 DEF Trails
  <2>4. h[k] \in DOMAIN packets
    BY <1>1, <1>5
  <2>5. packets[h[k]].upto = arrived[packets[h[k]].stream]
    BY <2>3, <2>4 DEF StreamInOrder
  <2> QED
    BY <1>4, <2>5
<1>11. ASSUME NEW t \in Streams, ~freed, \A k \in 1..(n - 1) : packets'[k].stream # t
       PROVE  taken'[t] = arrived'[t]
  <2>1. \A m \in 1..n : m # i => packets[m].stream # t
    BY <1>4, <1>5, <1>6, <1>11
  <2>2. CASE t # s
    <3>1. \A m \in DOMAIN packets : packets[m].stream # t
      BY <1>1, <2>1, <2>2
    <3> QED
      BY <1>3, <1>11, <2>2, <3>1 DEF StreamInOrder
  <2>3. CASE t = s
    <3>1. Trails(i)
      BY <1>1, <2>1, <2>3 DEF Trails
    <3>2. packets[i].upto = arrived[s] /\ taken[s] + packets[i].left = packets[i].upto
      BY <3>1 DEF StreamInOrder
    <3> QED
      BY <1>3, <2>3, <3>2
  <2> QED
    BY <2>2, <2>3
<1> QED
  BY <1>4, <1>8, <1>9, <1>10, <1>11 DEF StreamInOrder

\* What is left of a packet that was read in part is next.
LEMMA OrderCut ==
    ASSUME TypeOK, StreamInOrder, NEW i \in DOMAIN packets, Leads(i),
           NEW want \in Nat, want < packets[i].left,
           packets' = [packets EXCEPT ![i].left = @ - want],
           taken' = [taken EXCEPT ![packets[i].stream] = @ + want],
           UNCHANGED <<arrived, freed>>
    PROVE  StreamInOrder'
<1> DEFINE n == Len(packets)
           s == packets[i].stream
<1>1. /\ packets \in Seq(Queued) /\ n \in Nat /\ DOMAIN packets = 1..n /\ i \in 1..n
      /\ taken \in [Streams -> Int]
      /\ \A j \in 1..n : packets[j] \in Queued
  BY DEF TypeOK, RecvType
<1>2. \A j \in 1..n : /\ packets[j].stream \in Streams /\ packets[j].left \in Nat
                      /\ packets[j].upto \in Int
  BY <1>1 DEF Queued
<1>3. /\ taken'[s] = taken[s] + want
      /\ \A t \in Streams : t # s => taken'[t] = taken[t]
  BY <1>1, <1>2
<1>4. /\ DOMAIN packets' = 1..n
      /\ \A k \in 1..n : k # i => packets'[k] = packets[k]
      /\ packets'[i].stream = s /\ packets'[i].upto = packets[i].upto
      /\ packets'[i].left = packets[i].left - want
  BY <1>1 DEF Queued
<1>5. \A k \in 1..n : packets'[k].stream = packets[k].stream /\ packets'[k].upto = packets[k].upto
  BY <1>4
<1>6. \A j, k \in 1..n : /\ Leads(k)' <=> Leads(k)
                         /\ Follows(k, j)' <=> Follows(k, j)
                         /\ Trails(k)' <=> Trails(k)
  BY <1>1, <1>4, <1>5 DEF Leads, Follows, Trails
<1> HIDE DEF n
<1>7. ASSUME NEW k \in 1..n, Leads(k)
      PROVE  taken'[packets'[k].stream] + packets'[k].left = packets'[k].upto
  <2>1. taken[packets[k].stream] + packets[k].left = packets[k].upto
    BY <1>1, <1>7 DEF StreamInOrder
  <2>2. CASE k = i
    <3>1. taken[s] + packets[i].left = packets[i].upto
      BY <2>1, <2>2
    <3>2. taken[s] \in Int /\ packets[i].left \in Nat /\ s \in Streams
      BY <1>1, <1>2
    <3>3. (taken[s] + want) + (packets[i].left - want) = packets[i].upto
      BY <3>1, <3>2
    <3>4. /\ packets'[k].stream = s /\ packets'[k].upto = packets[i].upto
          /\ packets'[k].left = packets[i].left - want
      BY <1>4, <2>2
    <3> QED
      BY <1>3, <3>3, <3>4
  <2>3. CASE k # i
    <3>1. packets[k].stream # s
      <4>1. k < i => packets[k].stream # s
        BY <1>1 DEF Leads
      <4>2. i < k => s # packets[k].stream
        BY <1>1, <1>7 DEF Leads
      <4> QED
        BY <1>1, <2>3, <4>1, <4>2
    <3>2. packets'[k] = packets[k] /\ taken'[packets[k].stream] = taken[packets[k].stream]
      BY <1>2, <1>3, <1>4, <2>3, <3>1
    <3> QED
      BY <2>1, <3>2
  <2> QED
    BY <2>2, <2>3
<1>8. ASSUME NEW k \in 1..n, NEW j \in 1..n, Follows(k, j)
      PROVE  packets'[j].upto + packets'[k].left = packets'[k].upto
  <2>1. packets[j].upto + packets[k].left = packets[k].upto
    BY <1>1, <1>8 DEF StreamInOrder
  <2>2. k # i
    BY <1>1, <1>8 DEF Leads, Follows
  <2> QED
    BY <1>4, <1>5, <2>1, <2>2
<1>9. ASSUME NEW k \in 1..n, Trails(k)
      PROVE  packets'[k].upto = arrived'[packets'[k].stream]
  BY <1>1, <1>5, <1>9 DEF StreamInOrder
<1>10. ASSUME NEW t \in Streams, ~freed, \A k \in 1..n : packets'[k].stream # t
       PROVE  taken'[t] = arrived'[t]
  <2>1. \A k \in DOMAIN packets : packets[k].stream # t
    BY <1>1, <1>5, <1>10
  <2>2. t # s
    BY <1>1, <2>1
  <2> QED
    BY <1>3, <1>10, <2>1, <2>2 DEF StreamInOrder
<1> QED
  BY <1>4, <1>6, <1>7, <1>8, <1>9, <1>10 DEF StreamInOrder

\* A step that leaves the queue alone.
LEMMA OrderKept ==
    ASSUME StreamInOrder, UNCHANGED <<packets, taken, arrived>>, freed' = freed
    PROVE  StreamInOrder'
  BY DEF StreamInOrder, Leads, Follows, Trails

\* transport_read() adds packets only in packet_add(), behind the others.
LEMMA ReadKeepsOrder ==
    ASSUME TypeOK, StreamInOrder, NEW rc, TransportRead(rc)
    PROVE  StreamInOrder'
<1>0. freed' = freed
  BY DEF TransportRead, flagVars
<1>1. CASE UNCHANGED <<packets, taken, arrived>>
  BY <1>0, <1>1, OrderKept
<1>2. CASE toClient # <<>> /\ AddData(Head(toClient))
  <2> DEFINE m == Head(toClient)
             room == remote_window_size - read_avail
             len == Min2(Min2(m.n, PacketSize), room)
  <2>1. m \in Inbound /\ m.n \in Nat /\ m.stream \in Streams
    <3>1. m \in Inbound
      BY <1>2 DEF TypeOK, RecvType
    <3> QED
      BY <3>1 DEF Inbound
  <2>2. room \in Int /\ PacketSize \in Nat
    BY ConstantFacts DEF TypeOK, RecvType, AdjustType
  <2> HIDE DEF m, room
  <2>3. room > 0 => len \in Nat
    BY <2>1, <2>2 DEF Min2
  <2> USE DEF m, room
  <2>4. CASE room <= 0
    BY <1>1, <1>2, <2>2, <2>4 DEF AddData
  <2>5. CASE room > 0
    <3>1. /\ packets' = Append(packets, [stream |-> m.stream, size |-> len, left |-> len,
                                        upto |-> arrived[m.stream] + len])
          /\ arrived' = [arrived EXCEPT ![m.stream] = @ + len]
          /\ ~freed /\ taken' = taken
      BY <1>2, <2>2, <2>5 DEF AddData
    <3> HIDE DEF len, m
    <3> QED
      BY <1>0, <2>1, <2>3, <2>5, <3>1, OrderAdded
  <2> QED
    BY <2>2, <2>4, <2>5
<1>3. \/ UNCHANGED <<packets, taken, arrived>>
      \/ toClient # <<>> /\ AddData(Head(toClient))
  <2>1. ASSUME NEW r, Reply(r) PROVE UNCHANGED <<packets, taken, arrived>>
    BY <2>1 DEF Reply
  <2>2. ASSUME PacketAddResume(rc) PROVE UNCHANGED <<packets, taken, arrived>>
    BY <2>1, <2>2 DEF PacketAddResume
  <2>3. ASSUME NEW m, PacketAdd(m, rc), ~AddData(m) PROVE UNCHANGED <<packets, taken, arrived>>
    BY <2>1, <2>3 DEF PacketAdd, AddIgnored, AddFlag, AddUnknown, AddKexinit
  <2> QED
    BY <2>2, <2>3 DEF TransportRead, recvVars
<1> QED
  BY <1>1, <1>2, <1>3

\* The first packet that a read or a flush may take is the first of its stream.
LEMMA FirstLeads ==
    ASSUME NEW i \in DOMAIN packets, NEW s,
           First(i, Readable(s)) \/ First(i, Flushable(s)), packets \in Seq(Queued)
    PROVE  Leads(i)
<1> SUFFICES ASSUME NEW j \in DOMAIN packets, j < i, packets[j].stream = packets[i].stream
             PROVE  FALSE
  BY DEF Leads
<1>1. i \in Int /\ j \in Int
  OBVIOUS
<1>2. CASE First(i, Readable(s))
  <2>1. j \in Readable(s)
    BY <1>2 DEF First, Readable
  <2> QED
    BY <1>1, <1>2, <2>1 DEF First
<1>3. CASE First(i, Flushable(s))
  <2>1. j \in Flushable(s)
    BY <1>3 DEF First, Flushable
  <2> QED
    BY <1>1, <1>3, <2>1 DEF First
<1> QED
  BY <1>2, <1>3

\* Every step keeps the order: one step of the proof for each way to touch the queue.
LEMMA NextKeepsOrder ==
    ASSUME TypeOK, StreamInOrder, [Next]_vars
    PROVE  StreamInOrder'
<1>0. /\ packets \in Seq(Queued) /\ bytes_read \in Nat /\ call.n \in Nat
      /\ \A i \in DOMAIN packets : packets[i].left \in Nat
  <2>1. packets \in Seq(Queued) /\ bytes_read \in Nat
    BY DEF TypeOK, RecvType, CallType
  <2>2. \A i \in DOMAIN packets : packets[i] \in Queued
    BY <2>1
  <2>3. call.n \in Nat
    BY DEF TypeOK, ControlType
  <2> QED
    BY <2>1, <2>2, <2>3 DEF Queued
<1>1. CASE UNCHANGED <<packets, taken, arrived, freed>>
  BY <1>1, OrderKept
<1>2. ASSUME NEW rc, TransportRead(rc) PROVE StreamInOrder'
  BY <1>2, ReadKeepsOrder
<1>3. CASE ReadCopy
  <2>1. PICK i \in DOMAIN packets : First(i, Readable(call.stream)) /\ CopyFrom(i)
    BY <1>3 DEF ReadCopy
  <2>2. UNCHANGED <<arrived, freed>> /\ Leads(i) /\ bytes_read < call.n
    BY <1>0, <1>3, <2>1, FirstLeads DEF ReadCopy, flagVars
  <2> DEFINE want == Min2(call.n - bytes_read, packets[i].left)
  <2>3. want \in Nat /\ want <= packets[i].left
    BY <1>0, <2>2 DEF Min2
  <2>4. /\ taken' = [taken EXCEPT ![packets[i].stream] = @ + want]
        /\ packets' = IF want = packets[i].left THEN Without(i)
                      ELSE [packets EXCEPT ![i].left = @ - want]
    BY <2>1 DEF CopyFrom
  <2> HIDE DEF want
  <2>5. CASE want = packets[i].left
    BY <2>2, <2>4, <2>5, OrderTaken
  <2>6. CASE want # packets[i].left
    <3>1. want < packets[i].left
      BY <1>0, <2>3, <2>6
    <3> QED
      BY <2>2, <2>3, <2>4, <2>6, <3>1, OrderCut
  <2> QED
    BY <2>5, <2>6
<1>4. CASE FlushScan
  <2>1. UNCHANGED <<arrived, freed>>
    BY <1>4 DEF FlushScan, flagVars
  <2>2. CASE UNCHANGED <<packets, taken>>
    BY <1>1, <2>1, <2>2
  <2>3. ASSUME NEW i \in DOMAIN packets, First(i, Flushable(call.stream)), packets' = Without(i),
               taken' = [taken EXCEPT ![packets[i].stream] = @ + packets[i].left]
        PROVE  StreamInOrder'
    BY <1>0, <2>1, <2>3, FirstLeads, OrderTaken
  <2> QED
    BY <1>4, <2>2, <2>3 DEF FlushScan
<1>5. CASE FreeStep
  <2>1. packets' = <<>> /\ freed' = TRUE
    BY <1>5 DEF FreeStep
  <2>2. DOMAIN packets' = {}
    BY <2>1
  <2> QED
    BY <2>1, <2>2 DEF StreamInOrder
<1>6. CASE Steps
  <2>1. CASE ReadWiden \/ ReadExpand \/ ReadReturn \/ FlushRefund \/ AdjustStep
    BY <1>1, <2>1 DEF ReadWiden, ReadExpand, ReadReturn, FlushRefund, AdjustStep, recvVars, flagVars
  <2>2. CASE WriteFit \/ WriteSend
    BY <1>1, <2>2 DEF WriteFit, WriteSend, recvVars, flagVars
  <2>3. CASE EofStep \/ CloseEnter \/ CloseSend \/ CloseDone
    BY <1>1, <2>3 DEF EofStep, CloseEnter, CloseSend, CloseDone, EndFrame, recvVars, flagVars
  <2>4. CASE ReadDrain \/ WriteDrain
    BY <1>2, <2>4 DEF ReadDrain, WriteDrain
  <2>5. CASE CloseWait \/ WaitEof \/ WaitClosed
    BY <1>1, <1>2, <2>5 DEF CloseWait, WaitEof, WaitClosed, EndFrame, recvVars, flagVars
  <2> QED
    BY <1>3, <1>4, <1>5, <1>6, <2>1, <2>2, <2>3, <2>4, <2>5 DEF Steps
<1>7. CASE Calls
  BY <1>1, <1>7 DEF Calls, CallRead, CallWrite, CallFlush, CallAdjust, CallMode, CallWindowRead,
     CallSendEof, CallClose, CallFree, CallWaitEof, CallWaitClosed, Simple, recvVars, flagVars, EndFrame
<1>8. CASE Pump
  BY <1>2, <1>8 DEF Pump
<1>9. CASE Peer \/ LoseLink
  <2>1. ASSUME NEW k, NEW s, NEW n, PeerSays(k, s, n) PROVE UNCHANGED clientVars
    BY <2>1 DEF PeerSays
  <2>2. UNCHANGED clientVars
    BY <1>9, <2>1 DEF Peer, PeerSend, PeerData, PeerEnds, PeerReceive, KexDone, PeerGrant,
       PeerRequest, PeerRekey, LoseLink
  <2> QED
    BY <1>1, <2>2 DEF clientVars, flagVars
<1>10. CASE UNCHANGED vars
  BY <1>1, <1>10 DEF vars, recvVars, flagVars
<1> QED
  BY <1>6, <1>7, <1>8, <1>9, <1>10 DEF Next

\* The bytes of each stream are handed out in the order in which they came, each
\* once and none left out, in every mode of the channel and the session: partial and
\* merged reads, flushes, and calls given up in the middle included.
THEOREM StreamsInOrder == Spec => []StreamInOrder
<1>1. Init => StreamInOrder
  BY DEF Init, StreamInOrder
<1>2. TypeOK /\ StreamInOrder /\ [Next]_vars => StreamInOrder'
  BY NextKeepsOrder
<1> QED
  BY <1>1, <1>2, TypeCorrect, PTL DEF Spec

----------------------------------------------------------------------------
(* A read of 0 bytes. *)

\* transport_read() brings no data once the end is known, and the end only behind
\* all of the data.
LEMMA ReadKeepsEnd ==
    ASSUME TypeOK, EndIsLast, NEW rc, TransportRead(rc)
    PROVE  EndIsLast' /\ (Ended => Ended' /\ packets' = packets)
<1>0. peerDone' = peerDone
  BY DEF TransportRead, peerVars
<1>1. CASE UNCHANGED <<toClient, remote_eof, remote_close, packets>>
  BY <1>0, <1>1 DEF EndIsLast, Ended
<1>2. CASE toClient # <<>> /\ toClient' = Tail(toClient) /\ PacketAdd(Head(toClient), rc)
  <2> DEFINE m == Head(toClient)
  <2>0. toClient \in Seq(Inbound) /\ remote_eof \in BOOLEAN /\ remote_close \in BOOLEAN
    BY DEF TypeOK, RecvType
  <2>1. /\ 1 \in DOMAIN toClient /\ toClient[1] = m
        /\ \A i \in DOMAIN toClient' :
             i \in Nat /\ i + 1 \in DOMAIN toClient /\ toClient'[i] = toClient[i + 1]
        /\ \A i, j \in DOMAIN toClient' : i < j => i + 1 < j + 1
        /\ \A i \in DOMAIN toClient' : 1 < i + 1
    BY <1>2, <2>0
  <2>2. \/ UNCHANGED <<remote_eof, remote_close, packets>>
        \/ m.kind = "data" /\ remote_eof' = FALSE /\ remote_close' = remote_close
        \/ /\ m.kind \in Ends /\ remote_eof' = TRUE /\ packets' = packets
           /\ remote_close' \in {remote_close, TRUE}
    <3>1. ASSUME Reply(rc) PROVE UNCHANGED <<remote_eof, remote_close, packets>>
      BY <3>1 DEF Reply
    <3>2. CASE AddData(m)
      BY <3>2 DEF AddData
    <3>3. CASE AddIgnored(m, rc)
      BY <3>3 DEF AddIgnored
    <3>4. CASE AddFlag(m)
      BY <3>4 DEF AddFlag, AddEof, AddClose, AddWindowAdjust, Ends
    <3>5. CASE AddUnknown(m)
      BY <3>5 DEF AddUnknown
    <3>6. CASE AddKexinit(m)
      BY <3>6 DEF AddKexinit
    <3> QED
      BY <1>2, <3>1, <3>2, <3>3, <3>4, <3>5, <3>6 DEF PacketAdd
  <2> HIDE DEF m
  <2>3. /\ \A i \in DOMAIN toClient' : toClient'[i].kind \in Ends => peerDone' # {}
        /\ \A i, j \in DOMAIN toClient' :
             i < j /\ toClient'[i].kind \in Ends => toClient'[j].kind # "data"
    <3>1. ASSUME NEW i \in DOMAIN toClient', toClient'[i].kind \in Ends PROVE peerDone' # {}
      BY <1>0, <2>1, <3>1 DEF EndIsLast
    <3>2. ASSUME NEW i \in DOMAIN toClient', NEW j \in DOMAIN toClient', i < j,
                 toClient'[i].kind \in Ends
          PROVE  toClient'[j].kind # "data"
      <4>1. /\ i + 1 \in DOMAIN toClient /\ j + 1 \in DOMAIN toClient /\ i + 1 < j + 1
            /\ toClient'[i] = toClient[i + 1] /\ toClient'[j] = toClient[j + 1]
        BY <2>1, <3>2
      <4> QED
        BY <3>2, <4>1 DEF EndIsLast
    <3> QED
      BY <3>1, <3>2
  <2>4. CASE UNCHANGED <<remote_eof, remote_close, packets>>
    <3>1. \A i \in DOMAIN toClient' : toClient'[i].kind = "data" => ~Ended
      BY <2>1 DEF EndIsLast
    <3>2. (Ended <=> Ended') /\ (Ended => peerDone # {})
      BY <2>4 DEF Ended, EndIsLast
    <3> QED
      BY <1>0, <2>3, <2>4, <3>1, <3>2 DEF EndIsLast
  <2>5. CASE m.kind = "data" /\ remote_eof' = FALSE /\ remote_close' = remote_close
    <3>1. ~Ended
      BY <2>1, <2>5 DEF EndIsLast
    <3>2. ~Ended'
      BY <2>5, <3>1 DEF Ended
    <3> QED
      BY <2>3, <3>1, <3>2 DEF EndIsLast
  <2>6. CASE /\ m.kind \in Ends /\ remote_eof' = TRUE /\ packets' = packets
             /\ remote_close' \in {remote_close, TRUE}
    <3>1. peerDone # {}
      BY <2>1, <2>6 DEF EndIsLast
    <3>2. \A i \in DOMAIN toClient' : toClient'[i].kind # "data"
      BY <2>1, <2>6 DEF EndIsLast
    <3>3. Ended'
      BY <2>6 DEF Ended
    <3> QED
      BY <1>0, <2>3, <2>6, <3>1, <3>2, <3>3 DEF EndIsLast
  <2> QED
    BY <2>2, <2>4, <2>5, <2>6
<1>3. \/ UNCHANGED <<toClient, remote_eof, remote_close, packets>>
      \/ toClient # <<>> /\ toClient' = Tail(toClient) /\ PacketAdd(Head(toClient), rc)
  <2>1. ASSUME PacketAddResume(rc) PROVE UNCHANGED <<remote_eof, remote_close, packets>>
    BY <2>1 DEF PacketAddResume, Reply
  <2> QED
    BY <2>1 DEF TransportRead, recvVars
<1> QED
  BY <1>1, <1>2, <1>3

\* Where a step may leave the running call and the last result, the end of a read at
\* the end of its stream aside.
Mild ==
    \/ call' = call /\ ret' = ret /\ (call.op = "read" => pc' \in Reading)
    \/ ~SaidZero' /\ (call'.op = "read" => pc' \in Reading /\ call'.n > 0)

\* Packets that are only taken out of the queue.
Fewer == \A i \in DOMAIN packets' : \E j \in DOMAIN packets :
             packets'[i].stream = packets[j].stream

\* A step that is mild keeps ZeroInv, if the queue does not grow at the end.
LEMMA MildKept ==
    ASSUME ZeroInv, Mild, EndIsLast', Ended => Ended' /\ Fewer
    PROVE  ZeroInv'
<1>1. CASE call' = call /\ ret' = ret /\ (call.op = "read" => pc' \in Reading)
  <2>1. SaidZero' <=> SaidZero
    BY <1>1 DEF SaidZero
  <2>2. ASSUME SaidZero PROVE Ended' /\ \A i \in DOMAIN packets' : packets'[i].stream # ret'.stream
    BY <1>1, <2>2 DEF ZeroInv, Fewer
  <2> QED
    BY <1>1, <2>1, <2>2 DEF ZeroInv
<1>2. CASE ~SaidZero' /\ (call'.op = "read" => pc' \in Reading /\ call'.n > 0)
  BY <1>2 DEF ZeroInv
<1> QED
  BY <1>1, <1>2 DEF Mild

\* No call but a read can say what a read says.
LEMMA OthersMild ==
    ASSUME ZeroInv, pc \notin Reading,
           \/ \E at : Goto(at)
           \/ \E rc, val : Return(rc, val)
           \/ \E at : Again(at)
    PROVE  Mild
<1>1. call.op # "read"
  BY DEF ZeroInv
<1>2. ASSUME NEW at, Goto(at) PROVE Mild
  BY <1>1, <1>2 DEF Goto, Mild
<1>3. ASSUME NEW rc, NEW val, Return(rc, val) PROVE Mild
  BY <1>1, <1>3 DEF Return, Mild, SaidZero, NoCall
<1> QED
  BY <1>2, <1>3 DEF Again

\* A step of a read is mild unless it returns 0 with "ok".
LEMMA ReadMild ==
    ASSUME ZeroInv,
           \/ \E at \in Reading : Goto(at)
           \/ \E rc, val : (rc # "ok" \/ val # 0) /\ Return(rc, val)
           \/ \E at \in Reading : Again(at)
    PROVE  Mild
<1>1. ASSUME NEW at \in Reading, Goto(at) PROVE Mild
  BY <1>1 DEF Goto, Mild
<1>2. ASSUME NEW rc, NEW val, rc # "ok" \/ val # 0, Return(rc, val) PROVE Mild
  BY <1>2 DEF Return, Mild, SaidZero, NoCall
<1> QED
  BY <1>1, <1>2 DEF Again

\* What the queue, the end and the wire look like to a step that leaves them alone.
LEMMA EndKept ==
    ASSUME EndIsLast, UNCHANGED <<toClient, remote_eof, remote_close, packets, peerDone>>
    PROVE  EndIsLast' /\ (Ended => Ended' /\ Fewer)
  BY DEF EndIsLast, Ended, Fewer

\* The packets that stay when one is taken out were there before.
LEMMA WithoutFewer ==
    ASSUME RecvType, NEW i \in DOMAIN packets,
           packets' = Without(i) \/ \E n : packets' = [packets EXCEPT ![i].left = n]
    PROVE  Fewer
<1>1. CASE packets' = Without(i)
  BY <1>1, WithoutElements DEF Fewer
<1>2. ASSUME NEW n, packets' = [packets EXCEPT ![i].left = n] PROVE Fewer
  <2>1. DOMAIN packets' = DOMAIN packets
    BY <1>2
  <2>2. \A k \in DOMAIN packets : packets[k] \in Queued
    BY DEF RecvType
  <2>3. \A k \in DOMAIN packets : packets'[k].stream = packets[k].stream
    BY <1>2, <2>2 DEF Queued
  <2> QED
    BY <2>1, <2>3 DEF Fewer
<1> QED
  BY <1>1, <1>2

\* The steps of a read.
LEMMA ReadKeepsZero ==
    ASSUME TypeOK, ZeroInv, ReadWiden \/ ReadExpand \/ ReadDrain \/ ReadCopy \/ ReadReturn
    PROVE  ZeroInv'
<1>0. EndIsLast /\ RecvType /\ {"widen", "expand", "drain", "copy"} = Reading
  BY DEF ZeroInv, TypeOK, Reading
<1>1. CASE ReadWiden \/ ReadExpand
  <2>1. UNCHANGED <<toClient, remote_eof, remote_close, packets, peerDone>>
    BY <1>1 DEF ReadWiden, ReadExpand, recvVars, peerVars
  <2>2. Mild
    BY <1>0, <1>1, ReadMild DEF ReadWiden, ReadExpand
  <2> QED
    BY <1>0, <2>1, <2>2, EndKept, MildKept
<1>2. CASE ReadDrain
  <2>1. PICK rc \in ReadResults :
          /\ TransportRead(rc)
          /\ \/ rc = "packet" /\ Goto("drain")
             \/ rc = "EAGAIN" /\ Goto("copy")
             \/ rc = "error" /\ Return("error", 0)
    BY <1>2 DEF ReadDrain
  <2>2. Mild
    BY <1>0, <2>1, ReadMild
  <2>3. EndIsLast' /\ (Ended => Ended' /\ packets' = packets)
    BY <1>0, <2>1, ReadKeepsEnd
  <2> QED
    BY <2>2, <2>3, MildKept DEF Fewer
<1>3. CASE ReadCopy
  <2>1. PICK i \in DOMAIN packets : CopyFrom(i)
    BY <1>3 DEF ReadCopy
  <2>2. Fewer
    BY <1>0, <2>1, WithoutFewer DEF CopyFrom
  <2>3. UNCHANGED <<toClient, remote_eof, remote_close, peerDone, pc, call, ret>>
    BY <1>3 DEF ReadCopy, peerVars
  <2>4. EndIsLast' /\ (Ended => Ended')
    BY <1>0, <2>3 DEF EndIsLast, Ended
  <2>5. Mild
    BY <2>3 DEF Mild, ZeroInv
  <2> QED
    BY <2>2, <2>4, <2>5, MildKept
<1>4. CASE ReadReturn
  <2>1. UNCHANGED <<toClient, remote_eof, remote_close, packets, peerDone>>
    BY <1>4 DEF ReadReturn, peerVars
  <2>2. EndIsLast' /\ (Ended => Ended' /\ Fewer)
    BY <1>0, <2>1, EndKept
  <2>3. CASE bytes_read > 0 /\ Return("ok", bytes_read)
    <3>1. bytes_read # 0
      BY <2>3 DEF TypeOK, CallType
    <3> QED
      BY <2>2, <2>3, <3>1, ReadMild, MildKept
  <2>4. CASE bytes_read = 0 /\ AtEnd /\ Return("ok", 0)
    <3>1. /\ call' = NoCall /\ NoCall.op = "none"
          /\ ret' = [op |-> call.op, stream |-> call.stream, rc |-> "ok", val |-> 0]
      BY <2>4 DEF Return, NoCall
    <3>2. CASE call.op # "read"
      BY <2>2, <3>1, <3>2 DEF ZeroInv, SaidZero
    <3>3. CASE call.op = "read"
      <4>1. call.n > 0 /\ call.n \in Nat
        BY <3>3 DEF ZeroInv, TypeOK, ControlType
      <4>2. Readable(call.stream) = {}
        BY <1>4, <2>4, <4>1 DEF ReadReturn
      <4>3. \A i \in DOMAIN packets : packets[i].stream # call.stream
        BY <4>2 DEF Readable
      <4>4. Ended' /\ ret'.stream = call.stream
        BY <2>1, <2>4, <3>1 DEF AtEnd, Ended
      <4> QED
        BY <2>1, <2>2, <3>1, <4>3, <4>4 DEF ZeroInv
    <3> QED
      BY <3>2, <3>3
  <2>5. CASE Again("expand")
    BY <1>0, <2>2, <2>5, ReadMild, MildKept
  <2> QED
    BY <1>4, <2>3, <2>4, <2>5 DEF ReadReturn
<1> QED
  BY <1>1, <1>2, <1>3, <1>4

\* The steps of every other call.
LEMMA OthersKeepZero ==
    ASSUME TypeOK, ZeroInv, Steps,
           ~(ReadWiden \/ ReadExpand \/ ReadDrain \/ ReadCopy \/ ReadReturn)
    PROVE  ZeroInv'
<1>0. EndIsLast /\ RecvType
  BY DEF ZeroInv, TypeOK
<1>1. ASSUME Mild, UNCHANGED <<toClient, remote_eof, remote_close, packets, peerDone>>
      PROVE  ZeroInv'
  BY <1>0, <1>1, EndKept, MildKept
<1>2. ASSUME Mild, NEW rc, TransportRead(rc) PROVE ZeroInv'
  <2>1. EndIsLast' /\ (Ended => Ended' /\ packets' = packets)
    BY <1>0, <1>2, ReadKeepsEnd
  <2> QED
    BY <1>2, <2>1, MildKept DEF Fewer
<1>3. CASE WriteFit \/ WriteSend \/ FlushRefund \/ AdjustStep
  <2>1. Mild
    BY <1>3, OthersMild DEF WriteFit, WriteSend, FlushRefund, AdjustStep, Reading
  <2>2. UNCHANGED <<toClient, remote_eof, remote_close, packets, peerDone>>
    BY <1>3 DEF WriteFit, WriteSend, FlushRefund, AdjustStep, recvVars, peerVars
  <2> QED
    BY <1>1, <2>1, <2>2
<1>4. CASE EofStep \/ CloseEnter \/ CloseSend \/ CloseDone
  <2>1. Mild
    BY <1>4, OthersMild DEF EofStep, CloseEnter, CloseSend, CloseDone, Reading
  <2>2. UNCHANGED <<toClient, remote_eof, remote_close, packets, peerDone>>
    BY <1>4 DEF EofStep, CloseEnter, CloseSend, CloseDone, EndFrame, recvVars, peerVars
  <2> QED
    BY <1>1, <2>1, <2>2
<1>5. CASE WriteDrain \/ CloseWait \/ WaitEof \/ WaitClosed
  <2>1. Mild
    BY <1>5, OthersMild DEF WriteDrain, CloseWait, WaitEof, WaitClosed, Reading
  <2>2. \/ \E rc : TransportRead(rc)
        \/ UNCHANGED <<toClient, remote_eof, remote_close, packets, peerDone>>
    BY <1>5 DEF WriteDrain, CloseWait, WaitEof, WaitClosed, EndFrame, recvVars, peerVars
  <2> QED
    BY <1>1, <1>2, <2>1, <2>2
<1>6. CASE FlushScan
  <2>1. Mild
    <3>1. call.op # "read" /\ UNCHANGED <<call, ret>>
      BY <1>6 DEF FlushScan, ZeroInv, Reading
    <3> QED
      BY <3>1 DEF Mild
  <2>2. Fewer
    BY <1>0, <1>6, WithoutFewer DEF FlushScan, Fewer
  <2>3. UNCHANGED <<toClient, remote_eof, remote_close, peerDone>>
    BY <1>6 DEF FlushScan, peerVars
  <2>4. EndIsLast' /\ (Ended => Ended')
    BY <1>0, <2>3 DEF EndIsLast, Ended
  <2> QED
    BY <2>1, <2>2, <2>4, MildKept
<1>7. CASE FreeStep
  <2>1. Mild
    BY <1>7, OthersMild DEF FreeStep, Reading
  <2>2. packets' = <<>> /\ UNCHANGED <<toClient, remote_eof, remote_close, peerDone>>
    BY <1>7 DEF FreeStep, peerVars
  <2>3. Fewer
    BY <2>2 DEF Fewer
  <2>4. EndIsLast' /\ (Ended => Ended')
    BY <1>0, <2>2 DEF EndIsLast, Ended
  <2> QED
    BY <2>1, <2>3, <2>4, MildKept
<1> QED
  BY <1>3, <1>4, <1>5, <1>6, <1>7 DEF Steps

\* A call that begins, or does nothing but return, forgets the result of the last.
LEMMA CallKeepsZero ==
    ASSUME TypeOK, ZeroInv, Calls
    PROVE  ZeroInv'
<1>0. EndIsLast
  BY DEF ZeroInv
<1>1. UNCHANGED <<toClient, remote_eof, remote_close, packets, peerDone>>
  BY DEF Calls, CallRead, CallWrite, CallFlush, CallAdjust, CallMode, CallWindowRead,
     CallSendEof, CallClose, CallFree, CallWaitEof, CallWaitClosed, Simple, recvVars, peerVars
<1>2. ASSUME NEW op, op # "read", NEW s, NEW n, NEW at, Start(op, s, n, at) PROVE Mild
  BY <1>2 DEF Start, Mild, SaidZero, NoResult
<1>3. ASSUME NEW op, op # "read", NEW s, NEW rc, NEW val, Quick(op, s, rc, val), pc = "app"
      PROVE  Mild
  BY <1>3 DEF Quick, Mild, SaidZero, ZeroInv, Reading
<1>4. ASSUME NEW s, NEW n \in ReadSizes, CallRead(s, n) PROVE Mild
  <2>1. n \in Nat /\ n > 0
    BY ConstantsAssumption
  <2>2. pc' \in Reading /\ call'.n = n /\ ret' = NoResult
    BY <1>4 DEF CallRead, Start, Reading
  <2> QED
    BY <2>1, <2>2 DEF Mild, SaidZero, NoResult
<1>5. ASSUME NEW n, CallWrite(n) PROVE Mild
  BY <1>2, <1>3, <1>5 DEF CallWrite, Calling
<1>6. ASSUME NEW s, CallFlush(s) PROVE Mild
  BY <1>2, <1>6 DEF CallFlush
<1>7. ASSUME NEW n, NEW op \in {"adjust", "adjust_queued"}, CallAdjust(n, op) PROVE Mild
  BY <1>2, <1>7 DEF CallAdjust
<1>8. ASSUME NEW m, CallMode(m) PROVE Mild
  BY <1>3, <1>8 DEF CallMode, Calling
<1>9. ASSUME CallWindowRead PROVE Mild
  BY <1>3, <1>9 DEF CallWindowRead, Calling
<1>10. ASSUME CallSendEof \/ CallClose \/ CallFree \/ CallWaitEof PROVE Mild
  BY <1>2, <1>10 DEF CallSendEof, CallClose, CallFree, CallWaitEof, Simple
<1>11. ASSUME CallWaitClosed PROVE Mild
  BY <1>2, <1>3, <1>11 DEF CallWaitClosed, Simple, Calling
<1>12. Mild => ZeroInv'
  BY <1>0, <1>1, EndKept, MildKept
<1> QED
  BY <1>4, <1>5, <1>6, <1>7, <1>8, <1>9, <1>10, <1>11, <1>12 DEF Calls

\* The peer: data only while it has ended nothing.
LEMMA PeerKeepsZero ==
    ASSUME TypeOK, ZeroInv, Peer \/ LoseLink
    PROVE  ZeroInv'
<1>0. /\ EndIsLast /\ toClient \in Seq(Inbound) /\ peerDone \subseteq {"eof", "close"}
  BY DEF ZeroInv, TypeOK, RecvType, PeerType
<1>1. UNCHANGED clientVars
  <2>1. ASSUME NEW k, NEW s, NEW n, PeerSays(k, s, n) PROVE UNCHANGED clientVars
    BY <2>1 DEF PeerSays
  <2> QED
    BY <2>1 DEF Peer, PeerSend, PeerData, PeerEnds, PeerReceive, KexDone, PeerGrant,
       PeerRequest, PeerRekey, LoseLink
<1>2. UNCHANGED <<remote_eof, remote_close, packets, pc, call, ret>>
  BY <1>1 DEF clientVars
<1>3. EndIsLast' => ZeroInv'
  <2>1. Mild /\ (Ended => Ended' /\ Fewer)
    BY <1>2 DEF Mild, ZeroInv, Ended, Fewer
  <2> QED
    BY <2>1, MildKept
<1>4. CASE UNCHANGED <<toClient, peerDone>>
  BY <1>0, <1>2, <1>3, <1>4, EndKept
<1>5. ASSUME NEW k, NEW s, NEW n, PeerSays(k, s, n),
             k = "data" => peerDone = {}, k \in Ends => peerDone' # {},
             peerDone # {} => peerDone' # {}
      PROVE  EndIsLast'
  <2> DEFINE m == [kind |-> k, stream |-> s, n |-> n, sent |-> peerSent',
                   granted |-> peerGranted']
             h == Len(toClient) + 1
  <2>1. toClient' = Append(toClient, m) /\ m.kind = k
    BY <1>5 DEF PeerSays
  <2> HIDE DEF m
  <2>2. /\ h \in Nat /\ DOMAIN toClient' = 1..h /\ toClient'[h] = m
        /\ \A i \in 1..h : i # h => i \in DOMAIN toClient /\ toClient'[i] = toClient[i]
        /\ \A i, j \in 1..h : i < j => i # h
    BY <1>0, <2>1
  <2> HIDE DEF h
  <2>3. Ended' <=> Ended
    BY <1>2 DEF Ended
  <2>4. ASSUME NEW i \in 1..h
        PROVE  /\ toClient'[i].kind \in Ends => peerDone' # {}
               /\ toClient'[i].kind = "data" => ~Ended'
    <3>1. CASE i = h
      BY <1>0, <1>5, <2>1, <2>2, <2>3, <3>1 DEF EndIsLast
    <3>2. CASE i # h
      BY <1>0, <1>5, <2>2, <2>3, <3>2 DEF EndIsLast
    <3> QED
      BY <3>1, <3>2
  <2>5. ASSUME NEW i \in 1..h, NEW j \in 1..h, i < j, toClient'[i].kind \in Ends
        PROVE  toClient'[j].kind # "data"
    <3>0. i \in DOMAIN toClient /\ toClient'[i] = toClient[i]
      BY <2>2, <2>5
    <3>1. CASE j = h
      BY <1>0, <1>5, <2>1, <2>2, <2>5, <3>0, <3>1 DEF EndIsLast
    <3>2. CASE j # h
      BY <1>0, <2>2, <2>5, <3>0, <3>2 DEF EndIsLast
    <3> QED
      BY <3>1, <3>2
  <2> QED
    BY <1>0, <1>5, <2>2, <2>3, <2>4, <2>5 DEF EndIsLast
<1>6. ASSUME NEW s, NEW n, PeerData(s, n) PROVE ZeroInv'
  <2>1. PeerSays("data", s, n) /\ peerDone' = peerDone
    BY <1>6 DEF PeerData
  <2>2. peerDone = {}
    BY <1>0, <1>6, <2>1 DEF PeerData, PeerSays
  <2> QED
    BY <1>3, <1>5, <2>1, <2>2 DEF Ends
<1>7. ASSUME NEW k, PeerEnds(k), k \in Ends PROVE ZeroInv'
  BY <1>3, <1>5, <1>7 DEF PeerEnds, Ends
<1>8. ASSUME NEW n, PeerGrant(n) PROVE ZeroInv'
  BY <1>3, <1>5, <1>8 DEF PeerGrant, Ends
<1>9. CASE PeerRequest \/ PeerRekey
  BY <1>3, <1>5, <1>9 DEF PeerRequest, PeerRekey, Ends
<1>10. CASE PeerReceive \/ KexDone \/ LoseLink
  BY <1>4, <1>10 DEF PeerReceive, KexDone, LoseLink, peerVars
<1> QED
  BY <1>6, <1>7, <1>8, <1>9, <1>10 DEF Peer, PeerSend, Ends

\* ZeroInv is inductive with the type invariant.
LEMMA ZeroInvariant == Spec => []ZeroInv
<1>1. Init => ZeroInv
  BY DEF Init, ZeroInv, EndIsLast, Ended, SaidZero, NoCall, NoResult
<1>2. TypeOK /\ ZeroInv /\ [Next]_vars => ZeroInv'
  <2> SUFFICES ASSUME TypeOK, ZeroInv, [Next]_vars PROVE ZeroInv'
    OBVIOUS
  <2>1. CASE Steps
    BY <2>1, ReadKeepsZero, OthersKeepZero
  <2>2. CASE Calls
    BY <2>2, CallKeepsZero
  <2>3. CASE Pump
    <3>1. PICK rc : TransportRead(rc)
      BY <2>3 DEF Pump
    <3>2. EndIsLast' /\ (Ended => Ended' /\ packets' = packets)
      BY <3>1, ReadKeepsEnd DEF ZeroInv
    <3>3. Mild
      BY <2>3 DEF Pump, Mild, ZeroInv
    <3> QED
      BY <3>2, <3>3, MildKept DEF Fewer
  <2>4. CASE Peer \/ LoseLink
    BY <2>4, PeerKeepsZero
  <2>5. CASE UNCHANGED vars
    <3>1. UNCHANGED <<toClient, remote_eof, remote_close, packets, peerDone, pc, call, ret>>
      BY <2>5 DEF vars, recvVars, peerVars
    <3>2. EndIsLast' /\ (Ended => Ended' /\ Fewer)
      BY <3>1, EndKept DEF ZeroInv
    <3>3. Mild
      BY <3>1 DEF Mild, ZeroInv
    <3> QED
      BY <3>2, <3>3, MildKept
  <2> QED
    BY <2>1, <2>2, <2>3, <2>4, <2>5 DEF Next
<1> QED
  BY <1>1, <1>2, TypeCorrect, PTL DEF Spec

\* A read() that returns 0 means the end of its stream, in every mode of the channel
\* and the session: the peer has sent EOF or CLOSE and nothing of the stream is in
\* the queue or under way, when it returns and until the next call.
THEOREM ZeroMeansEnd == Spec => []ZeroReadIsEnd
<1>1. TypeOK /\ ZeroInv => ZeroReadIsEnd
  BY DEF ZeroInv, EndIsLast, SaidZero, ZeroReadIsEnd
<1> QED
  BY <1>1, ZeroInvariant, TypeCorrect, PTL

----------------------------------------------------------------------------
(* The bytes in the queue. *)

\* A set of numbers has a least one.
LEMMA HasLeast ==
    ASSUME NEW S, S \subseteq Nat, S # {}
    PROVE  \E x \in S : \A y \in S : x <= y
<1> DEFINE R == {ss \in Nat \X Nat : ss[1] < ss[2]}
<1>1. IsWellFoundedOn(R, Nat)
  BY NatLessThanWellFounded, Zenon DEF OpToRel
<1>2. \E x \in S : \A y \in S : <<y, x>> \notin R
  <2> HIDE DEF R
  <2> QED
    BY <1>1, WFMin, Zenon
<1>3. PICK x \in S : \A y \in S : <<y, x>> \notin R
  BY <1>2
<1>4. ASSUME NEW y \in S PROVE x <= y
  <2>1. x \in Nat /\ y \in Nat
    OBVIOUS
  <2>2. y < x => <<y, x>> \in R
    BY <2>1
  <2> QED
    BY <1>3, <2>1, <2>2
<1> QED
  BY <1>3, <1>4

\* What holds of 0, and of a number when it holds of the one before, holds up to n.
LEMMA UpTo ==
    ASSUME NEW n \in Nat, NEW S, 0 \in S, \A i \in 1..n : i - 1 \in S => i \in S
    PROVE  \A i \in 0..n : i \in S
<1> DEFINE B == {i \in 0..n : i \notin S}
<1>1. CASE B # {}
  <2>1. PICK m \in B : \A y \in B : m <= y
    <3>1. B \subseteq Nat
      OBVIOUS
    <3> HIDE DEF B
    <3> QED
      BY <1>1, <3>1, HasLeast
  <2>2. m \in 1..n /\ m - 1 \in 0..n
    BY <2>1
  <2>3. m - 1 \notin B
    BY <2>1, <2>2
  <2> QED
    BY <2>1, <2>2, <2>3
<1> QED
  BY <1>1

LEMMA LeftTyped ==
    ASSUME NEW l \in Seq(Queued)
    PROVE  Len(l) \in Nat /\ DOMAIN l = 1..Len(l) /\ \A i \in 1..Len(l) : l[i].left \in Nat
<1>1. Len(l) \in Nat /\ DOMAIN l = 1..Len(l) /\ \A i \in 1..Len(l) : l[i] \in Queued
  OBVIOUS
<1>2. \A p \in Queued : p.left \in Nat
  BY DEF Queued
<1> QED
  BY <1>1, <1>2

\* g counts the bytes of the first i packets, for each i.
Sums(l, g) ==
    /\ g \in [0..Len(l) -> Int] /\ g[0] = 0
    /\ \A i \in 1..Len(l) : g[i] = g[i - 1] + l[i].left

LEMMA SumsExist ==
    ASSUME NEW l \in Seq(Queued)
    PROVE  \E g \in [0..Len(l) -> Nat] : Sums(l, g)
<1> DEFINE Part(n, g) == g[0] = 0 /\ \A i \in 1..n : g[i] = g[i - 1] + l[i].left
           S == {n \in 0..Len(l) : \E g \in [0..n -> Nat] : Part(n, g)}
<1>1. 0 \in S
  <2> DEFINE g == [i \in 0..0 |-> 0]
  <2>1. g \in [0..0 -> Nat] /\ Part(0, g)
    OBVIOUS
  <2>2. 0 \in 0..Len(l)
    BY LeftTyped
  <2> HIDE DEF Part, g
  <2> QED
    BY <2>1, <2>2
<1>2. ASSUME NEW n \in 1..Len(l), n - 1 \in S PROVE n \in S
  <2>1. PICK g \in [0..(n - 1) -> Nat] : Part(n - 1, g)
    BY <1>2
  <2> DEFINE d == l[n].left
             h == [i \in 0..n |-> IF i = n THEN g[n - 1] + d ELSE g[i]]
  <2>2. d \in Nat /\ n \in Nat /\ n >= 1 /\ n \in 0..Len(l)
    BY LeftTyped
  <2>3. h \in [0..n -> Nat]
    <3> HIDE DEF d
    <3> QED
      BY <2>1, <2>2
  <2>4. h[0] = 0
    BY <2>1, <2>2
  <2>5. ASSUME NEW i \in 1..n PROVE h[i] = h[i - 1] + l[i].left
    <3>1. CASE i = n
      BY <2>2, <3>1
    <3>2. CASE i # n
      BY <2>1, <2>2, <3>2
    <3> QED
      BY <3>1, <3>2
  <2>6. Part(n, h)
    BY <2>4, <2>5
  <2> HIDE DEF Part, h
  <2> QED
    BY <2>2, <2>3, <2>6
<1>3. Len(l) \in S
  <2>1. Len(l) \in Nat /\ Len(l) \in 0..Len(l)
    BY LeftTyped
  <2> HIDE DEF S
  <2>2. \A i \in 0..Len(l) : i \in S
    BY <1>1, <1>2, <2>1, UpTo
  <2> QED
    BY <2>1, <2>2
<1>4. PICK g \in [0..Len(l) -> Nat] : Part(Len(l), g)
  BY <1>3
<1>5. g \in [0..Len(l) -> Int]
  OBVIOUS
<1> QED
  BY <1>4, <1>5 DEF Sums

LEMMA QueuedIs ==
    ASSUME NEW l \in Seq(Queued), NEW g, Sums(l, g)
    PROVE  QueuedBytes(l) = g[Len(l)]
<1> DEFINE Fits(h) == h = [i \in 0..Len(l) |-> IF i = 0 THEN 0 ELSE h[i - 1] + l[i].left]
           sum == CHOOSE h : Fits(h)
           S == {i \in 0..Len(l) : g[i] = sum[i]}
<1>1. QueuedBytes(l) = sum[Len(l)]
  BY Zenon DEF QueuedBytes
<1>2. Fits(g)
  <2>1. ASSUME NEW i \in 0..Len(l) PROVE g[i] = IF i = 0 THEN 0 ELSE g[i - 1] + l[i].left
    BY LeftTyped DEF Sums
  <2> QED
    BY <2>1 DEF Sums
<1>3. Fits(sum)
  BY <1>2, Zenon
<1>4. sum[0] = 0 /\ \A i \in 1..Len(l) : sum[i] = sum[i - 1] + l[i].left
  <2> HIDE DEF sum
  <2>1. ASSUME NEW i \in 0..Len(l) PROVE sum[i] = IF i = 0 THEN 0 ELSE sum[i - 1] + l[i].left
    BY <1>3, Zenon
  <2> QED
    BY <2>1, LeftTyped
<1> HIDE DEF sum
<1>5. 0 \in S
  BY <1>4, LeftTyped DEF Sums
<1>6. ASSUME NEW i \in 1..Len(l), i - 1 \in S PROVE i \in S
  BY <1>4, <1>6 DEF Sums
<1> HIDE DEF S
<1>7. Len(l) \in S
  <2>1. Len(l) \in Nat /\ Len(l) \in 0..Len(l)
    BY LeftTyped
  <2>2. \A i \in 0..Len(l) : i \in S
    BY <1>5, <1>6, <2>1, UpTo
  <2> QED
    BY <2>1, <2>2
<1> QED
  BY <1>1, <1>7 DEF S

LEMMA QueuedNat ==
    ASSUME NEW l \in Seq(Queued)
    PROVE  QueuedBytes(l) \in Nat /\ (l = <<>> => QueuedBytes(l) = 0)
<1>1. PICK g \in [0..Len(l) -> Nat] : Sums(l, g)
  BY SumsExist
<1>2. QueuedBytes(l) = g[Len(l)]
  BY <1>1, QueuedIs
<1>3. Len(l) \in Nat /\ g[0] = 0
  BY <1>1, LeftTyped DEF Sums
<1> QED
  BY <1>1, <1>2, <1>3

\* A packet that arrives adds its bytes,
LEMMA QueuedAppend ==
    ASSUME NEW l \in Seq(Queued), NEW p \in Queued
    PROVE  QueuedBytes(Append(l, p)) = QueuedBytes(l) + p.left
<1>1. PICK g \in [0..Len(l) -> Nat] : Sums(l, g)
  BY SumsExist
<1> DEFINE n == Len(l)
           m == Append(l, p)
           d == p.left
           h == [i \in 0..(n + 1) |-> IF i = n + 1 THEN g[n] + d ELSE g[i]]
<1>2. n \in Nat /\ d \in Nat /\ g \in [0..n -> Nat] /\ g[0] = 0
  BY <1>1, LeftTyped DEF Sums, Queued
<1>3. m \in Seq(Queued) /\ Len(m) = n + 1 /\ m[n + 1] = p /\ \A i \in 1..n : m[i] = l[i]
  OBVIOUS
<1>4. \A i \in 1..n : g[i] = g[i - 1] + l[i].left
  BY <1>1 DEF Sums
<1> HIDE DEF n, m
<1>5. Sums(m, h)
  <2>1. h[0] = 0 /\ h \in [0..(n + 1) -> Int]
    <3> HIDE DEF d
    <3> QED
      BY <1>2
  <2>2. ASSUME NEW i \in 1..(n + 1) PROVE h[i] = h[i - 1] + m[i].left
    <3>1. CASE i = n + 1
      <4>1. h[i] = g[n] + d /\ h[i - 1] = g[n]
        BY <1>2, <3>1
      <4> QED
        BY <1>3, <3>1, <4>1
    <3>2. CASE i # n + 1
      <4>1. i \in 1..n /\ h[i] = g[i] /\ h[i - 1] = g[i - 1]
        BY <1>2, <3>2
      <4> QED
        BY <1>3, <1>4, <4>1
    <3> QED
      BY <3>1, <3>2
  <2> QED
    BY <1>3, <2>1, <2>2 DEF Sums
<1>6. QueuedBytes(m) = h[n + 1] /\ QueuedBytes(l) = g[n]
  BY <1>1, <1>3, <1>5, QueuedIs DEF n
<1> QED
  BY <1>2, <1>6 DEF m

\* a packet that leaves takes them along,
LEMMA QueuedLess ==
    ASSUME NEW l \in Seq(Queued), NEW m \in Seq(Queued), NEW i \in 1..Len(l), Len(m) = Len(l) - 1,
           \A k \in 1..Len(m) : m[k] = IF k < i THEN l[k] ELSE l[k + 1]
    PROVE  QueuedBytes(l) = QueuedBytes(m) + l[i].left
<1>1. PICK g \in [0..Len(l) -> Nat] : Sums(l, g)
  BY SumsExist
<1> DEFINE n == Len(l)
           d == l[i].left
           h == [k \in 0..Len(m) |-> IF k < i THEN g[k] ELSE g[k + 1] - d]
<1>2. /\ n \in Nat /\ n >= 1 /\ i \in 1..n /\ Len(m) = n - 1 /\ d \in Nat
      /\ g \in [0..n -> Nat] /\ g[0] = 0 /\ i \in Nat /\ i >= 1 /\ i <= n
  BY <1>1, LeftTyped DEF Sums
<1>3. \A k \in 1..n : g[k] = g[k - 1] + l[k].left /\ l[k].left \in Nat
  BY <1>1, LeftTyped DEF Sums
<1>4. g[i] = g[i - 1] + d
  BY <1>2, <1>3
<1> HIDE DEF n, d
<1>5. Sums(m, h)
  <2>1. h[0] = 0 /\ h \in [0..(n - 1) -> Int]
    <3>1. \A k \in 0..(n - 1) : g[k] \in Int /\ g[k + 1] - d \in Int
      BY <1>2
    <3> QED
      BY <1>2, <3>1
  <2>2. ASSUME NEW k \in 1..(n - 1) PROVE h[k] = h[k - 1] + m[k].left
    <3>0. k \in Nat /\ k >= 1 /\ k <= n - 1 /\ k \in 1..n /\ k + 1 \in 1..n /\ k - 1 \in 0..(n - 1)
      BY <1>2
    <3>1. CASE k < i
      <4>1. h[k] = g[k] /\ h[k - 1] = g[k - 1] /\ m[k] = l[k]
        BY <1>2, <3>0, <3>1, SMTT(40)
      <4> QED
        BY <1>3, <3>0, <4>1
    <3>2. CASE k >= i
      <4>1. h[k] = g[k + 1] - d /\ m[k] = l[k + 1]
        BY <1>2, <3>0, <3>2, SMTT(90)
      <4>2. g[k + 1] = g[k] + l[k + 1].left /\ g[k] \in Nat /\ l[k + 1].left \in Nat
        <5> DEFINE j == k + 1
        <5>1. j \in 1..n /\ j - 1 = k /\ k \in 0..n
          BY <1>2, <3>0
        <5> HIDE DEF j, h
        <5>2. g[j] = g[j - 1] + l[j].left /\ l[j].left \in Nat /\ g[k] \in Nat
          BY <1>2, <1>3, <5>1
        <5> QED
          BY <5>1, <5>2 DEF j
      <4>3. h[k - 1] = g[k] - d
        <5>1. CASE k = i
          <6>1. h[k - 1] = g[i - 1]
            BY <1>2, <3>0, <5>1
          <6> QED
            BY <1>2, <1>4, <4>2, <5>1, <6>1, SMTT(40)
        <5>2. CASE k # i
          <6>1. ~(k - 1 < i) /\ k - 1 \in 0..Len(m) /\ k - 1 + 1 = k
            BY <1>2, <3>0, <3>2, <5>2
          <6>2. \A j \in 0..Len(m) : ~(j < i) => h[j] = g[j + 1] - d
            OBVIOUS
          <6> QED
            BY <6>1, <6>2
        <5> QED
          BY <5>1, <5>2
      <4> HIDE DEF h
      <4>4. m[k].left = l[k + 1].left
        BY <4>1
      <4> QED
        BY <1>2, <4>1, <4>2, <4>3, <4>4, SMTT(40)
    <3> QED
      BY <1>2, <3>0, <3>1, <3>2
  <2> QED
    BY <1>2, <2>1, <2>2 DEF Sums
<1>6. QueuedBytes(m) = h[n - 1] /\ QueuedBytes(l) = g[n]
  BY <1>1, <1>2, <1>5, QueuedIs DEF n
<1>7. h[n - 1] = g[n] - d
  <2>1. CASE i = n
    BY <1>2, <1>4, <2>1
  <2>2. CASE i # n
    <3>1. ~(n - 1 < i) /\ n - 1 \in 0..Len(m) /\ n - 1 + 1 = n
      BY <1>2, <2>2
    <3>2. \A j \in 0..Len(m) : ~(j < i) => h[j] = g[j + 1] - d
      OBVIOUS
    <3> QED
      BY <3>1, <3>2
  <2> QED
    BY <2>1, <2>2
<1> QED
  BY <1>2, <1>6, <1>7 DEF d

\* and so does a part of one.
LEMMA QueuedCut ==
    ASSUME NEW l \in Seq(Queued), NEW m \in Seq(Queued), NEW i \in 1..Len(l), NEW w \in Nat,
           Len(m) = Len(l), m[i].left = l[i].left - w,
           \A k \in 1..Len(l) : k # i => m[k] = l[k]
    PROVE  QueuedBytes(l) = QueuedBytes(m) + w
<1>1. PICK g \in [0..Len(l) -> Nat] : Sums(l, g)
  BY SumsExist
<1> DEFINE n == Len(l)
           h == [k \in 0..n |-> IF k < i THEN g[k] ELSE g[k] - w]
<1>2. /\ n \in Nat /\ i \in 1..n /\ Len(m) = n /\ g \in [0..n -> Nat] /\ g[0] = 0
      /\ i \in Nat /\ i >= 1 /\ i <= n
  BY <1>1, LeftTyped DEF Sums
<1>3. \A k \in 1..n : g[k] = g[k - 1] + l[k].left /\ l[k].left \in Nat /\ m[k].left \in Nat
  BY <1>1, <1>2, LeftTyped DEF Sums
<1> HIDE DEF n
<1>5. Sums(m, h)
  <2>1. h[0] = 0 /\ h \in [0..n -> Int]
    <3>1. \A k \in 0..n : g[k] \in Int /\ g[k] - w \in Int
      BY <1>2
    <3> QED
      BY <1>2, <3>1, SMTT(40)
  <2>2. ASSUME NEW k \in 1..n PROVE h[k] = h[k - 1] + m[k].left
    <3>0. /\ k \in Nat /\ k >= 1 /\ k <= n /\ k - 1 \in 0..n
          /\ g[k] = g[k - 1] + l[k].left /\ l[k].left \in Nat /\ g[k - 1] \in Nat
      BY <1>2, <1>3, SMTT(40)
    <3>1. CASE k < i
      <4>1. h[k] = g[k] /\ h[k - 1] = g[k - 1] /\ m[k] = l[k]
        BY <1>2, <3>0, <3>1, SMTT(40) DEF n
      <4> QED
        BY <3>0, <4>1
    <3>2. CASE k = i
      <4>1. h[k] = g[k] - w /\ h[k - 1] = g[k - 1]
        BY <1>2, <3>0, <3>2
      <4> QED
        BY <3>0, <3>2, <4>1
    <3>3. CASE k > i
      <4>1. m[k] = l[k]
        BY <3>3, <1>2 DEF n
      <4>2. ~(k < i) /\ ~(k - 1 < i) /\ k \in 0..n /\ k - 1 \in 0..n
        BY <1>2, <3>0, <3>3
      <4>3. \A j \in 0..n : ~(j < i) => h[j] = g[j] - w
        OBVIOUS
      <4> HIDE DEF h
      <4>4. h[k] = g[k] - w /\ h[k - 1] = g[k - 1] - w
        BY <4>2, <4>3
      <4> QED
        BY <3>0, <4>1, <4>4
    <3> QED
      BY <1>2, <3>0, <3>1, <3>2, <3>3
  <2> QED
    BY <1>2, <2>1, <2>2 DEF Sums
<1>6. QueuedBytes(m) = h[n] /\ QueuedBytes(l) = g[n]
  BY <1>1, <1>2, <1>5, QueuedIs DEF n
<1>7. h[n] = g[n] - w /\ g[n] \in Nat
  BY <1>2
<1> QED
  BY <1>6, <1>7

\* uint32_t arithmetic stays in 32 bits.
LEMMA Wraps ==
    ASSUME NEW x \in Int
    PROVE  /\ U32(x) \in Int
           /\ -Modulus <= x /\ x < 2 * Modulus => Within(U32(x))
           /\ -(2 * Modulus) < x /\ x < 2 * Modulus => -Modulus < U32(x) /\ U32(x) < Modulus
           /\ Within(x) => U32(x) = x
  BY ConstantFacts DEF U32, Within

LEMMA FlushFacts ==
    ASSUME FlushesAtOnce, "flush" \in Ops
    PROVE  /\ ~MayBlock /\ MaxRekeys = 0
           /\ Initial \in Nat /\ MinAdjust \in Nat /\ HeadSlack \in Nat /\ Modulus \in Nat /\ Modulus > 0
           /\ Initial < Modulus /\ MinAdjust < Modulus /\ HeadSlack < Modulus
           /\ \A n \in ReadSizes : n \in Nat /\ n > 0 /\ Initial + n < Modulus
           /\ \A n \in AdjustSizes : n \in Nat /\ n > 0 /\ n < Modulus
  BY ConstantFacts DEF FlushesAtOnce

\* With nothing held, a packet is sent whole or not at all.
LEMMA SentAtOnce ==
    ASSUME ~MayBlock, odata = NoPacket, kex = "no", NEW m, NEW rc, TransportSend(m, rc)
    PROVE  odata' = NoPacket /\ rc # "EAGAIN"
  BY DEF TransportSend, Carry, netVars

\* receive_window_adjust() does not wait, and keeps the widths.
LEMMA AdjustAtOnce ==
    ASSUME AdjustType, FlushesAtOnce, "flush" \in Ops, odata = NoPacket, kex = "no",
           -Modulus < adjust_queue, adjust_queue < Modulus,
           NEW w \in Int, NEW adj \in Int, NEW force, NEW rc, Within(w), -Modulus < adj, adj < Modulus,
           ReceiveWindowAdjust(w, adj, force, rc)
    PROVE  /\ odata' = NoPacket /\ rc # "EAGAIN"
           /\ Within(remote_window_size') /\ -Modulus < adjust_queue' /\ adjust_queue' < Modulus
<1>0. ~MayBlock /\ Modulus \in Nat /\ Modulus > 0 /\ adjust_queue \in Int
  BY FlushFacts DEF AdjustType
<1>1. CASE QueueAdjust(w, adj, force, rc)
  <2>1. -Modulus < U32(adjust_queue + adj) /\ U32(adjust_queue + adj) < Modulus
    BY <1>0, Wraps
  <2> QED
    BY <1>1, <2>1 DEF QueueAdjust, netVars
<1>2. CASE SendAdjust(w, adj, force, rc)
  <2> DEFINE fresh == adjust_state = "idle"
             total == IF fresh THEN U32(adj + adjust_queue) ELSE adj
             packet == IF fresh THEN total ELSE adjust_adjust
             queue == IF fresh THEN 0 ELSE adjust_queue
  <2>1. /\ total \in Int /\ -Modulus < total /\ total < Modulus
        /\ queue \in Int /\ -Modulus < queue /\ queue < Modulus
    <3>1. /\ U32(adj + adjust_queue) \in Int /\ -Modulus < U32(adj + adjust_queue)
          /\ U32(adj + adjust_queue) < Modulus
      BY <1>0, Wraps
    <3> QED
      BY <1>0, <3>1
  <2>2. \E s \in SendResults :
             /\ TransportSend([kind |-> "adjust", n |-> packet], s)
             /\ \/ /\ s = "ok"
                   /\ rc = "ok"
                   /\ remote_window_size' = U32(w + total)
                   /\ adjust_queue' = queue
                \/ s = "EAGAIN"
                \/ /\ rc = "error"
                   /\ remote_window_size' = w
                   /\ adjust_queue' = total
    BY <1>2 DEF SendAdjust
  <2> HIDE DEF total, packet, queue, fresh
  <2>3. PICK s \in SendResults :
             /\ TransportSend([kind |-> "adjust", n |-> packet], s)
             /\ \/ /\ s = "ok"
                   /\ rc = "ok"
                   /\ remote_window_size' = U32(w + total)
                   /\ adjust_queue' = queue
                \/ s = "EAGAIN"
                \/ /\ rc = "error"
                   /\ remote_window_size' = w
                   /\ adjust_queue' = total
    BY <2>2
  <2>4. odata' = NoPacket /\ s # "EAGAIN"
    BY <1>0, <2>3, SentAtOnce
  <2>5. Within(U32(w + total))
    <3>1. w + total \in Int /\ -Modulus <= w + total /\ w + total < 2 * Modulus
      BY <1>0, <2>1 DEF Within
    <3> QED
      BY <3>1, Wraps
  <2> QED
    BY <2>1, <2>3, <2>4, <2>5
<1> QED
  BY <1>1, <1>2 DEF ReceiveWindowAdjust

\* Nothing that the widths are about has changed.
LEMMA WidthsKept ==
    ASSUME Widths, UNCHANGED <<remote_window_size, flush_refund_bytes, read_avail, adjust_queue,
                               packets, freed>>
    PROVE  Widths'
  BY DEF Widths, Within

LEMMA HeldKept ==
    ASSUME NothingHeld, UNCHANGED <<odata, kex, packAdd, toClient>>
    PROVE  NothingHeld'
  BY DEF NothingHeld

LEMMA HeldTail ==
    ASSUME NothingHeld, toClient \in Seq(Inbound), toClient # <<>>, toClient' = Tail(toClient),
           odata' = NoPacket, kex' = "no", packAdd'.point = "idle"
    PROVE  NothingHeld'
<1>1. \A i \in DOMAIN toClient' : i + 1 \in DOMAIN toClient /\ toClient'[i] = toClient[i + 1]
  OBVIOUS
<1> QED
  BY <1>1 DEF NothingHeld

\* A packet that arrives is counted.
LEMMA DataCounted ==
    ASSUME TypeOK, NEW m \in Inbound, AddData(m)
    PROVE  /\ read_avail' = read_avail + (QueuedBytes(packets') - QueuedBytes(packets))
           /\ Widths => Widths' \/ flush_refund_bytes' # flush_refund_bytes \/ freed' # freed
<1> DEFINE room == remote_window_size - read_avail
           len == Min2(Min2(m.n, PacketSize), room)
           p == [stream |-> m.stream, size |-> len, left |-> len, upto |-> arrived[m.stream] + len]
<1>1. /\ m.n \in Nat /\ m.stream \in Streams /\ PacketSize \in Nat /\ room \in Int
      /\ remote_window_size \in Int /\ read_avail \in Int /\ packets \in Seq(Queued)
      /\ arrived[m.stream] \in Int /\ adjust_queue \in Int /\ Modulus \in Nat
  BY ConstantFacts DEF Inbound, TypeOK, RecvType, AdjustType
<1>2. QueuedBytes(packets) \in Nat
  BY <1>1, QueuedNat
<1>u. UNCHANGED <<remote_window_size, adjust_queue>> /\ ~freed
  BY DEF AddData, adjVars
<1>3. CASE room <= 0
  <2>1. UNCHANGED <<read_avail, packets>>
    BY <1>1, <1>3 DEF AddData
  <2> QED
    BY <1>1, <1>2, <1>u, <2>1, WidthsKept
<1>4. CASE room > 0
  <2>1. len \in Nat /\ len <= room
    <3> HIDE DEF room
    <3> QED
      BY <1>1, <1>4 DEF Min2
  <2>2. read_avail' = read_avail + len /\ packets' = Append(packets, p)
    BY <1>1, <1>4 DEF AddData
  <2> HIDE DEF len
  <2>3. p \in Queued /\ p.left = len /\ p.size = len
    BY <1>1, <2>1 DEF Queued
  <2>4. QueuedBytes(packets') = QueuedBytes(packets) + len
    BY <1>1, <2>2, <2>3, QueuedAppend
  <2>5. ASSUME Widths, UNCHANGED <<flush_refund_bytes, freed>> PROVE Widths'
    <3>1. Within(read_avail) /\ Within(remote_window_size)
      BY <1>u, <2>5 DEF Widths
    <3>2. Within(read_avail')
      BY <1>1, <2>1, <2>2, <3>1 DEF Within
    <3>3. len < Modulus
      BY <1>1, <2>1, <3>1 DEF Within
    <3>4. \A i \in DOMAIN packets' : packets'[i].size < Modulus
      <4> HIDE DEF p
      <4>1. ASSUME NEW i \in DOMAIN packets' PROVE packets'[i].size < Modulus
        <5>1. packets'[i] = p \/ (i \in DOMAIN packets /\ packets'[i] = packets[i])
          BY <1>1, <2>2, <2>3
        <5> QED
          BY <2>3, <2>5, <3>3, <5>1 DEF Widths
      <4> QED
        BY <4>1
    <3>5. Within(flush_refund_bytes') /\ -Modulus < adjust_queue' /\ adjust_queue' < Modulus
      BY <1>u, <2>5 DEF Widths, Within
    <3> QED
      BY <1>u, <3>1, <3>2, <3>4, <3>5 DEF Widths, Within
  <2> QED
    BY <1>1, <1>2, <2>1, <2>2, <2>4, <2>5
<1> QED
  BY <1>1, <1>3, <1>4

\* transport_read() counts what it queues, and waits for nothing.
LEMMA ReadCounts ==
    ASSUME TypeOK, NEW rc, TransportRead(rc)
    PROVE  read_avail' = read_avail + (QueuedBytes(packets') - QueuedBytes(packets))
<1>0. read_avail \in Int /\ packets \in Seq(Queued) /\ QueuedBytes(packets) \in Nat
  BY QueuedNat DEF TypeOK, RecvType
<1>1. CASE UNCHANGED <<read_avail, packets>>
  BY <1>0, <1>1
<1>2. CASE toClient # <<>> /\ AddData(Head(toClient))
  <2>1. Head(toClient) \in Inbound
    BY <1>2 DEF TypeOK, RecvType
  <2> QED
    BY <1>2, <2>1, DataCounted
<1>3. UNCHANGED <<read_avail, packets>> \/ (toClient # <<>> /\ AddData(Head(toClient)))
  <2>1. ASSUME NEW r, Reply(r) PROVE UNCHANGED <<read_avail, packets>>
    BY <2>1 DEF Reply
  <2>2. ASSUME PacketAddResume(rc) PROVE UNCHANGED <<read_avail, packets>>
    BY <2>1, <2>2 DEF PacketAddResume
  <2>3. ASSUME NEW m, PacketAdd(m, rc), ~AddData(m) PROVE UNCHANGED <<read_avail, packets>>
    BY <2>1, <2>3 DEF PacketAdd, AddIgnored, AddFlag, AddUnknown, AddKexinit
  <2> QED
    BY <2>2, <2>3 DEF TransportRead, recvVars
<1> QED
  BY <1>1, <1>2, <1>3

LEMMA ReadAtOnce ==
    ASSUME TypeOK, FlushesAtOnce, "flush" \in Ops, NothingHeld, Widths, NEW rc, TransportRead(rc)
    PROVE  NothingHeld' /\ Widths'
<1>0. /\ odata = NoPacket /\ kex = "no" /\ packAdd.point = "idle" /\ ~MayBlock
      /\ UNCHANGED <<flush_refund_bytes, freed>>
  BY FlushFacts DEF NothingHeld, TransportRead, flushVars, flagVars
<1>1. CASE UNCHANGED <<odata, kex, packAdd, toClient, remote_window_size, read_avail, adjust_queue, packets>>
  BY <1>0, <1>1, HeldKept, WidthsKept
<1>2. CASE /\ toClient # <<>> /\ PacketAdd(Head(toClient), rc) /\ toClient' = Tail(toClient)
  <2> DEFINE m == Head(toClient)
  <2>1. m \in Inbound /\ m.kind # "kexinit" /\ toClient \in Seq(Inbound) /\ PacketAdd(m, rc) /\ m.n \in Nat
    <3>1. toClient \in Seq(Inbound) /\ 1 \in DOMAIN toClient /\ m = toClient[1] /\ m \in Inbound
      BY <1>2 DEF TypeOK, RecvType
    <3> QED
      BY <1>2, <3>1 DEF NothingHeld, Inbound
  <2> HIDE DEF m
  <2>h. ASSUME odata' = NoPacket, kex' = kex, packAdd'.point = "idle" PROVE NothingHeld'
    BY <1>0, <1>2, <2>1, <2>h, HeldTail
  <2>2. CASE AddData(m)
    <3>1. odata' = NoPacket /\ kex' = kex /\ packAdd' = packAdd
      BY <1>0, <2>2 DEF AddData, netVars
    <3> QED
      BY <1>0, <2>1, <2>2, <2>h, <3>1, DataCounted
  <2>3. CASE AddIgnored(m, rc)
    <3> DEFINE len == IF read_avail + m.n >= remote_window_size
                      THEN remote_window_size - read_avail ELSE m.n
    <3>1. PICK r \in {"ok", "EAGAIN", "error"} :
             /\ ReceiveWindowAdjust(U32(remote_window_size - len), len, TRUE, r)
             /\ packAdd' = IF r = "EAGAIN" THEN [point |-> "jump1", n |-> m.n]
                           ELSE [point |-> "idle", n |-> 0]
      BY <2>3 DEF AddIgnored
    <3>2. /\ UNCHANGED <<read_avail, packets, kex>> /\ ~freed
          /\ read_avail \in Int /\ remote_window_size \in Int /\ adjust_queue \in Int
          /\ Within(read_avail) /\ Within(remote_window_size) /\ AdjustType
          /\ -Modulus < adjust_queue /\ adjust_queue < Modulus /\ Modulus \in Nat
      BY <2>3, FlushFacts DEF AddIgnored, Widths, TypeOK, RecvType, AdjustType
    <3>3. /\ len \in Int /\ -Modulus < len /\ len < Modulus
          /\ remote_window_size - len \in Int /\ Within(remote_window_size - len)
      BY <2>1, <3>2 DEF Within
    <3> HIDE DEF len
    <3>4. U32(remote_window_size - len) \in Int /\ Within(U32(remote_window_size - len))
      BY <3>3, Wraps
    <3>5. /\ odata' = NoPacket /\ r # "EAGAIN" /\ Within(remote_window_size')
          /\ -Modulus < adjust_queue' /\ adjust_queue' < Modulus
      BY <1>0, <3>1, <3>2, <3>3, <3>4, AdjustAtOnce
    <3>6. Widths'
      BY <1>0, <3>2, <3>5 DEF Widths, Within
    <3> QED
      BY <2>h, <3>1, <3>2, <3>5, <3>6
  <2>4. CASE AddFlag(m) \/ AddUnknown(m)
    <3>1. UNCHANGED <<odata, kex, packAdd, remote_window_size, read_avail, adjust_queue, packets>>
      BY <2>4 DEF AddFlag, AddUnknown, netVars, adjVars
    <3> QED
      BY <1>0, <2>h, <3>1, WidthsKept
  <2>5. CASE Reply(rc)
    <3>1. PICK s \in SendResults :
             /\ TransportSend([kind |-> "failure", n |-> 0], s)
             /\ packAdd' = IF s = "EAGAIN" THEN [point |-> "jump4", n |-> 0]
                           ELSE [point |-> "idle", n |-> 0]
      BY <2>5 DEF Reply
    <3>2. odata' = NoPacket /\ s # "EAGAIN"
      BY <1>0, <3>1, SentAtOnce
    <3>3. UNCHANGED <<kex, remote_window_size, read_avail, adjust_queue, packets>>
      BY <2>5 DEF Reply, adjVars
    <3> QED
      BY <1>0, <2>h, <3>1, <3>2, <3>3, WidthsKept
  <2> QED
    BY <2>1, <2>2, <2>3, <2>4, <2>5 DEF PacketAdd, AddKexinit
<1> QED
  BY <1>0, <1>1, <1>2 DEF TransportRead, recvVars, netVars, adjVars

\* A step of a call goes on with the call it belongs to or ends it.
StaysIn ==
    /\ pc \notin Flushing /\ pc' \notin Flushing
    /\ pc' \in Reading => pc \in Reading /\ call' = call
    /\ pc' = "adjust" => pc = "adjust" /\ call' = call
    /\ UNCHANGED flushVars

LEMMA AgainStays ==
    ASSUME NEW at, Again(at)
    PROVE  (pc' = at /\ call' = call) \/ pc' = "app"
  BY DEF Again, Goto, Return

LEMMA StepStays ==
    ASSUME Steps, ~FlushScan, ~FlushRefund
    PROVE  StaysIn /\ pc # "app"
<1> USE DEF StaysIn, Flushing, Reading
<1>1. CASE ReadWiden
  BY <1>1 DEF ReadWiden, Goto
<1>2. CASE ReadExpand
  BY <1>2, AgainStays DEF ReadExpand, Goto, Return
<1>3. CASE ReadDrain
  BY <1>3 DEF ReadDrain, TransportRead, Goto, Return
<1>4. CASE ReadCopy
  BY <1>4 DEF ReadCopy
<1>5. CASE ReadReturn
  BY <1>5, AgainStays DEF ReadReturn, Return
<1>6. CASE WriteDrain
  BY <1>6 DEF WriteDrain, TransportRead, Goto, Return
<1>7. CASE WriteFit
  BY <1>7, AgainStays DEF WriteFit, Goto
<1>8. CASE WriteSend
  BY <1>8, AgainStays DEF WriteSend, Return
<1>9. CASE AdjustStep
  BY <1>9, AgainStays DEF AdjustStep, Return
<1>10. CASE EofStep
  BY <1>10, AgainStays DEF EofStep, Return, EndFrame
<1>11. CASE CloseEnter
  BY <1>11, AgainStays DEF CloseEnter, Return, Goto, EndFrame
<1>12. CASE CloseSend
  BY <1>12, AgainStays DEF CloseSend, Goto, EndFrame
<1>13. CASE CloseWait
  BY <1>13, AgainStays DEF CloseWait, Goto, EndFrame, TransportRead
<1>14. CASE CloseDone
  BY <1>14 DEF CloseDone, Goto, Return, EndFrame
<1>15. CASE FreeStep
  BY <1>15 DEF FreeStep, Return
<1>16. CASE WaitEof
  BY <1>16, AgainStays DEF WaitEof, Goto, Return, EndFrame, TransportRead
<1>17. CASE WaitClosed
  BY <1>17, AgainStays DEF WaitClosed, Goto, Return, EndFrame, TransportRead
<1> QED
  BY <1>1, <1>2, <1>3, <1>4, <1>5, <1>6, <1>7, <1>8, <1>9, <1>10, <1>11, <1>12, <1>13, <1>14,
     <1>15, <1>16, <1>17 DEF Steps

\* What a step that stays in its call has to keep.
LEMMA CountStays ==
    ASSUME TypeOK, CountInv, StaysIn,
           read_avail' \in Int, packets' \in Seq(Queued), bytes_read' \in Nat,
           freed' => freed \/ pc' = "app", freed => pc' = "app",
           ~freed' => ~freed /\ read_avail' =
               read_avail + (QueuedBytes(packets') - QueuedBytes(packets)) + (bytes_read' - bytes_read),
           "flush" \in Ops => NothingHeld' /\ Widths'
    PROVE  CountInv'
<1>1. /\ read_avail \in Int /\ QueuedBytes(packets) \in Nat /\ QueuedBytes(packets') \in Nat
      /\ bytes_read \in Nat
  BY QueuedNat DEF TypeOK, RecvType, CallType
<1>2. Counted'
  <2>1. ASSUME ~freed' PROVE read_avail' = QueuedBytes(packets') + bytes_read'
    <3>1. read_avail = QueuedBytes(packets) + bytes_read
      BY <1>1, <2>1 DEF CountInv, Counted, StaysIn
    <3> QED
      BY <1>1, <2>1, <3>1
  <2> QED
    BY <1>1, <2>1 DEF Counted, StaysIn
<1>3. "flush" \in Ops => CallsWhole'
  BY DEF CountInv, CallsWhole, StaysIn, Flushing, Reading, flushVars
<1> QED
  BY <1>2, <1>3 DEF CountInv, StaysIn

LEMMA ReadCounted ==
    ASSUME TypeOK, CountInv, FlushesAtOnce, StaysIn, NEW rc, TransportRead(rc), freed => pc' = "app"
    PROVE  CountInv'
<1>1. /\ freed' = freed /\ bytes_read' = bytes_read
      /\ read_avail \in Int /\ packets \in Seq(Queued) /\ bytes_read \in Nat
  BY DEF TransportRead, flagVars, TypeOK, RecvType, CallType
<1>2. read_avail' \in Int /\ packets' \in Seq(Queued)
  BY ReadTyped DEF RecvType
<1>3. read_avail' = read_avail + (QueuedBytes(packets') - QueuedBytes(packets))
  BY ReadCounts
<1>4. "flush" \in Ops => NothingHeld' /\ Widths'
  BY ReadAtOnce DEF CountInv
<1>5. QueuedBytes(packets) \in Nat /\ QueuedBytes(packets') \in Nat
  BY <1>1, <1>2, QueuedNat
<1>6. read_avail' = read_avail + (QueuedBytes(packets') - QueuedBytes(packets)) + (bytes_read' - bytes_read)
  BY <1>1, <1>3, <1>5
<1> QED
  BY <1>1, <1>2, <1>4, <1>6, CountStays

\* A step that touches neither the queue nor its counter.
LEMMA UntouchedCounted ==
    ASSUME TypeOK, CountInv, StaysIn, UNCHANGED <<read_avail, packets, bytes_read, freed>>,
           freed => pc' = "app", "flush" \in Ops => NothingHeld' /\ Widths'
    PROVE  CountInv'
<1>1. read_avail \in Int /\ packets \in Seq(Queued) /\ bytes_read \in Nat
  BY DEF TypeOK, RecvType, CallType
<1>2. QueuedBytes(packets) \in Nat
  BY <1>1, QueuedNat
<1>3. read_avail' = read_avail + (QueuedBytes(packets') - QueuedBytes(packets)) + (bytes_read' - bytes_read)
  BY <1>1, <1>2
<1> QED
  BY <1>1, <1>3, CountStays

\* A step that sends, or does not.
LEMMA SendCounted ==
    ASSUME TypeOK, CountInv, FlushesAtOnce, StaysIn,
           UNCHANGED <<read_avail, packets, bytes_read, freed, remote_window_size, adjust_queue>>,
           UNCHANGED <<kex, packAdd, toClient>>, freed => pc' = "app",
           odata' = odata \/ \E m, s : TransportSend(m, s)
    PROVE  CountInv'
<1>1. ASSUME "flush" \in Ops PROVE NothingHeld' /\ Widths'
  <2>1. odata' = NoPacket /\ NothingHeld /\ Widths
    BY <1>1, FlushFacts, SentAtOnce DEF CountInv, NothingHeld
  <2> QED
    BY <2>1, HeldKept, WidthsKept DEF NothingHeld, StaysIn, flushVars
<1> QED
  BY <1>1, UntouchedCounted

\* A step that adjusts the window by call.n or by what it lacks.
LEMMA AdjustCounted ==
    ASSUME TypeOK, CountInv, FlushesAtOnce, StaysIn,
           UNCHANGED <<read_avail, packets, bytes_read, freed, kex, packAdd, toClient>>,
           freed => pc' = "app", NEW adj \in Int, NEW force, NEW rc,
           "flush" \in Ops => -Modulus < adj /\ adj < Modulus,
           ReceiveWindowAdjust(remote_window_size, adj, force, rc)
    PROVE  CountInv'
<1>1. ASSUME "flush" \in Ops PROVE NothingHeld' /\ Widths'
  <2>1. NothingHeld /\ Widths /\ AdjustType /\ remote_window_size \in Int
    BY <1>1 DEF CountInv, TypeOK, AdjustType
  <2>2. /\ odata' = NoPacket /\ Within(remote_window_size')
        /\ -Modulus < adjust_queue' /\ adjust_queue' < Modulus
    BY <1>1, <2>1, AdjustAtOnce DEF NothingHeld, Widths
  <2>3. NothingHeld'
    BY <2>1, <2>2, HeldKept DEF NothingHeld
  <2>4. Widths'
    BY <2>1, <2>2 DEF Widths, Within, StaysIn, flushVars
  <2> QED
    BY <2>3, <2>4
<1> QED
  BY <1>1, UntouchedCounted

LEMMA SameQueue ==
    ASSUME UNCHANGED recvVars
    PROVE  UNCHANGED <<read_avail, packets, kex, packAdd, toClient>>
  BY DEF recvVars

\* The queue loses packet i.
LEMMA QueuedWithout ==
    ASSUME TypeOK, NEW i \in DOMAIN packets
    PROVE  /\ Without(i) \in Seq(Queued)
           /\ QueuedBytes(packets) = QueuedBytes(Without(i)) + packets[i].left
           /\ \A k \in DOMAIN Without(i) : \E j \in DOMAIN packets : Without(i)[k] = packets[j]
<1>1. RecvType /\ packets \in Seq(Queued) /\ Len(packets) \in Nat /\ DOMAIN packets = 1..Len(packets)
  BY DEF TypeOK, RecvType
<1> DEFINE m == Without(i)
<1>2. m \in Seq(Queued)
  BY <1>1, WithoutTyped
<1>3. DOMAIN m = 1..(Len(packets) - 1)
  BY <1>1, WithoutCount
<1>4. \A k \in DOMAIN m :
              \/ k < i /\ k \in DOMAIN packets /\ m[k] = packets[k]
              \/ k >= i /\ k + 1 \in DOMAIN packets /\ m[k] = packets[k + 1]
  BY <1>1, WithoutElements
<1> HIDE DEF m
<1>5. Len(m) \in Nat /\ DOMAIN m = 1..Len(m)
  BY <1>2, LeftTyped
<1>6. Len(m) = Len(packets) - 1
  <2> DEFINE n == Len(packets) - 1
             l == Len(m)
  <2>0. n \in Nat
    BY <1>1
  <2>1. n \in Nat /\ l \in Nat /\ 1..n = 1..l
    BY <1>3, <1>5, <2>0
  <2> HIDE DEF n, l
  <2>2. (n \in 1..n <=> n \in 1..l) /\ (l \in 1..l <=> l \in 1..n)
    BY <2>1
  <2>3. n = l
    BY <2>1, <2>2
  <2> QED
    BY <2>3 DEF n, l
<1>7. \A k \in 1..Len(m) : m[k] = IF k < i THEN packets[k] ELSE packets[k + 1]
  BY <1>1, <1>4, <1>5
<1>8. QueuedBytes(packets) = QueuedBytes(m) + packets[i].left
  BY <1>1, <1>2, <1>6, <1>7, QueuedLess
<1>9. \A k \in DOMAIN m : \E j \in DOMAIN packets : m[k] = packets[j]
  BY <1>4
<1> QED
  BY <1>2, <1>8, <1>9 DEF m

LEMMA SizesKept ==
    ASSUME Widths, UNCHANGED <<remote_window_size, flush_refund_bytes, read_avail, adjust_queue, freed>>,
           \A k \in DOMAIN packets' : \E j \in DOMAIN packets : packets'[k].size = packets[j].size
    PROVE  Widths'
  BY DEF Widths, Within

LEMMA CopyCounted ==
    ASSUME TypeOK, CountInv, FlushesAtOnce, ReadCopy
    PROVE  CountInv'
<1>0. StaysIn /\ pc # "app"
  <2>1. Steps /\ ~FlushScan /\ ~FlushRefund
    BY DEF Steps, ReadCopy, FlushScan, FlushRefund
  <2> QED
    BY <2>1, StepStays
<1>1. /\ read_avail \in Int /\ packets \in Seq(Queued) /\ bytes_read \in Nat /\ call.n \in Nat
      /\ bytes_read < call.n /\ ~freed
      /\ UNCHANGED <<read_avail, freed, kex, packAdd, toClient, odata, remote_window_size, adjust_queue,
                     flush_refund_bytes>>
  BY <1>0 DEF ReadCopy, TypeOK, RecvType, CallType, ControlType, CountInv, flagVars, netVars, adjVars, flushVars
<1>2. PICK i \in DOMAIN packets : CopyFrom(i)
  BY DEF ReadCopy
<1> DEFINE want == Min2(call.n - bytes_read, packets[i].left)
<1>3. packets[i].left \in Nat /\ i \in 1..Len(packets) /\ Len(packets) \in Nat /\ packets[i] \in Queued
  BY <1>1, LeftTyped
<1>4. want \in Nat /\ want <= packets[i].left
  BY <1>1, <1>3 DEF Min2
<1>5. /\ bytes_read' = bytes_read + want
      /\ packets' = IF want = packets[i].left THEN Without(i) ELSE [packets EXCEPT ![i].left = @ - want]
  BY <1>2 DEF CopyFrom
<1> HIDE DEF want
<1>6. /\ packets' \in Seq(Queued) /\ QueuedBytes(packets) = QueuedBytes(packets') + want
      /\ \A k \in DOMAIN packets' : \E j \in DOMAIN packets : packets'[k].size = packets[j].size
  <2>1. CASE want = packets[i].left
    BY <1>5, <2>1, QueuedWithout
  <2>2. CASE want # packets[i].left
    <3> DEFINE m == [packets EXCEPT ![i].left = @ - want]
               p == [packets[i] EXCEPT !.left = @ - want]
    <3>1. p \in Queued /\ p.left = packets[i].left - want /\ p.size = packets[i].size
      BY <1>3, <1>4 DEF Queued
    <3>2. m = [packets EXCEPT ![i] = p]
      BY <1>1, <1>3
    <3> HIDE DEF m, p
    <3>3. /\ m \in Seq(Queued) /\ Len(m) = Len(packets) /\ m[i] = p /\ DOMAIN m = DOMAIN packets
          /\ \A k \in 1..Len(packets) : k # i => m[k] = packets[k]
      BY <1>1, <1>3, <3>1, <3>2
    <3>4. m[i].left = packets[i].left - want
      BY <3>1, <3>3
    <3>5. QueuedBytes(packets) = QueuedBytes(m) + want
      BY <1>1, <1>3, <1>4, <3>3, <3>4, QueuedCut
    <3>6. \A k \in DOMAIN m : m[k].size = packets[k].size
      BY <1>1, <1>3, <3>1, <3>3
    <3>7. packets' = m
      BY <1>5, <2>2 DEF m
    <3> QED
      BY <3>3, <3>5, <3>6, <3>7
  <2> QED
    BY <2>1, <2>2
<1>7. QueuedBytes(packets) \in Nat /\ QueuedBytes(packets') \in Nat
  BY <1>1, <1>6, QueuedNat
<1>8. read_avail' = read_avail + (QueuedBytes(packets') - QueuedBytes(packets)) + (bytes_read' - bytes_read)
  BY <1>1, <1>4, <1>5, <1>6, <1>7
<1>9. "flush" \in Ops => NothingHeld' /\ Widths'
  <2>1. ASSUME "flush" \in Ops PROVE NothingHeld' /\ Widths'
    <3>1. NothingHeld /\ Widths
      BY <2>1 DEF CountInv
    <3> QED
      BY <1>1, <1>6, <3>1, HeldKept, SizesKept
  <2> QED
    BY <2>1
<1>10. bytes_read' \in Nat /\ read_avail' \in Int
  BY <1>1, <1>4, <1>5
<1> QED
  BY <1>0, <1>1, <1>6, <1>8, <1>9, <1>10, CountStays

LEMMA ReturnCounted ==
    ASSUME TypeOK, CountInv, FlushesAtOnce, ReadReturn
    PROVE  CountInv'
<1>0. StaysIn /\ pc # "app" /\ pc \notin Flushing
  <2>1. Steps /\ ~FlushScan /\ ~FlushRefund
    BY DEF Steps, ReadReturn, FlushScan, FlushRefund
  <2> QED
    BY <2>1, StepStays DEF StaysIn
<1>1. /\ read_avail \in Int /\ packets \in Seq(Queued) /\ bytes_read \in Nat
      /\ remote_window_size \in Int /\ ~freed
      /\ bytes_read' = 0 /\ read_avail' = Sub32(read_avail, bytes_read)
      /\ remote_window_size' = Sub32(remote_window_size, bytes_read)
      /\ UNCHANGED <<packets, freed, kex, packAdd, toClient, odata, adjust_queue, flush_refund_bytes>>
  BY <1>0 DEF ReadReturn, TypeOK, RecvType, CallType, AdjustType, CountInv, flagVars, netVars, adjVars, flushVars
<1>2. QueuedBytes(packets) \in Nat
  BY <1>1, QueuedNat
<1>3. read_avail = QueuedBytes(packets) + bytes_read
  BY <1>0, <1>1, <1>2 DEF CountInv, Counted
<1>4. read_avail' = read_avail - bytes_read /\ read_avail' \in Int
  BY <1>1, <1>2, <1>3 DEF Sub32
<1>5. read_avail' = read_avail + (QueuedBytes(packets') - QueuedBytes(packets)) + (bytes_read' - bytes_read)
  BY <1>1, <1>2, <1>4
<1>6. "flush" \in Ops => NothingHeld' /\ Widths'
  <2>1. ASSUME "flush" \in Ops PROVE NothingHeld' /\ Widths'
    <3>1. NothingHeld /\ Widths /\ Within(read_avail) /\ Within(remote_window_size) /\ Modulus \in Nat
      BY <1>1, <2>1, FlushFacts DEF CountInv, Widths
    <3>2. Within(read_avail')
      BY <1>1, <1>2, <1>3, <1>4, <3>1 DEF Within
    <3>3. Within(remote_window_size')
      BY <1>1, <1>2, <1>3, <3>1 DEF Within, Sub32
    <3> QED
      BY <1>1, <3>1, <3>2, <3>3, HeldKept DEF Widths, Within
  <2> QED
    BY <2>1
<1> QED
  BY <1>0, <1>1, <1>4, <1>5, <1>6, CountStays

\* A flush takes packets off the queue and keeps count of them,
LEMMA ScanCounted ==
    ASSUME TypeOK, CountInv, FlushesAtOnce, FlushScan
    PROVE  CountInv'
<1>0. /\ pc = "fscan" /\ "flush" \in Ops /\ ~freed /\ NothingHeld /\ Widths /\ CallsWhole
      /\ read_avail = QueuedBytes(packets) + bytes_read + flush_flush_bytes
  BY DEF FlushScan, CountInv, Counted, Flushing
<1>1. /\ read_avail \in Int /\ packets \in Seq(Queued) /\ bytes_read \in Nat /\ flush_flush_bytes \in Nat
      /\ flush_refund_bytes \in Int /\ QueuedBytes(packets) \in Nat
  BY QueuedNat DEF TypeOK, RecvType, CallType
<1>2. UNCHANGED <<read_avail, bytes_read, freed, kex, packAdd, toClient, odata, remote_window_size,
                  adjust_queue, call>>
  BY DEF FlushScan, flagVars, netVars, adjVars
<1>3. NothingHeld'
  BY <1>0, <1>2, HeldKept
<1>4. ASSUME NEW i \in DOMAIN packets,
             flush_refund_bytes' = U32(flush_refund_bytes + RefundOf(packets[i])),
             flush_flush_bytes' = flush_flush_bytes + packets[i].left,
             packets' = Without(i), UNCHANGED <<flush_state, pc>>
      PROVE  CountInv'
  <2>1. /\ packets' \in Seq(Queued) /\ QueuedBytes(packets) = QueuedBytes(packets') + packets[i].left
        /\ \A k \in DOMAIN packets' : \E j \in DOMAIN packets : packets'[k] = packets[j]
    BY <1>4, QueuedWithout
  <2>2. packets[i].left \in Nat /\ packets[i].size \in Nat /\ QueuedBytes(packets') \in Nat
    <3>1. packets[i] \in Queued
      BY <1>1
    <3> QED
      BY <2>1, <3>1, QueuedNat DEF Queued
  <2>3. read_avail' = QueuedBytes(packets') + bytes_read' + flush_flush_bytes'
    <3> DEFINE a == packets[i].left
               q == QueuedBytes(packets')
    <3>1. a \in Nat /\ q \in Nat /\ QueuedBytes(packets) = q + a /\ flush_flush_bytes' = flush_flush_bytes + a
      BY <1>4, <2>1, <2>2
    <3> HIDE DEF a, q
    <3>2. read_avail = q + bytes_read + (flush_flush_bytes + a)
      BY <1>0, <1>1, <3>1
    <3> QED
      BY <1>2, <3>1, <3>2 DEF q
  <2>4. Within(flush_refund_bytes')
    <3>1. packets[i].size < Modulus /\ Within(flush_refund_bytes)
      BY <1>0 DEF Widths
    <3>2. Modulus \in Nat /\ HeadSlack \in Nat /\ HeadSlack < Modulus
      BY <1>0, FlushFacts
    <3> DEFINE x == flush_refund_bytes + RefundOf(packets[i])
    <3>3. x \in Int /\ -Modulus <= x /\ x < 2 * Modulus
      BY <1>1, <2>2, <3>1, <3>2, SMTT(40) DEF RefundOf, Within
    <3> HIDE DEF x
    <3>4. Within(U32(x))
      BY <3>3, Wraps
    <3> QED
      BY <1>4, <3>4 DEF x
  <2>5. Widths'
    BY <1>0, <1>2, <2>1, <2>4 DEF Widths, Within
  <2>6. CallsWhole'
    BY <1>0, <1>2, <1>4 DEF CallsWhole
  <2>7. Counted'
    BY <1>0, <1>4, <2>3 DEF Counted, Flushing
  <2> QED
    BY <1>0, <1>2, <1>3, <1>4, <2>5, <2>6, <2>7 DEF CountInv
<1>5. ASSUME flush_state' = "created", pc' = "frefund",
             UNCHANGED <<flush_refund_bytes, flush_flush_bytes, packets>>
      PROVE  CountInv'
  <2>1. Widths'
    BY <1>0, <1>2, <1>5, WidthsKept
  <2>2. CallsWhole'
    BY <1>5 DEF CallsWhole
  <2>3. Counted'
    BY <1>0, <1>2, <1>5 DEF Counted, Flushing
  <2> QED
    BY <1>0, <1>2, <1>3, <1>5, <2>1, <2>2, <2>3 DEF CountInv
<1> QED
  BY <1>4, <1>5 DEF FlushScan

\* and takes them off read_avail at its end.
LEMMA RefundCounted ==
    ASSUME TypeOK, CountInv, FlushesAtOnce, FlushRefund
    PROVE  CountInv'
<1>0. /\ pc = "frefund" /\ "flush" \in Ops /\ ~freed /\ NothingHeld /\ Widths /\ CallsWhole
      /\ read_avail = QueuedBytes(packets) + bytes_read + flush_flush_bytes
  BY DEF FlushRefund, CountInv, Counted, Flushing
<1>1. /\ read_avail \in Int /\ packets \in Seq(Queued) /\ bytes_read \in Nat /\ flush_flush_bytes \in Nat
      /\ flush_refund_bytes \in Int /\ QueuedBytes(packets) \in Nat /\ remote_window_size \in Int
      /\ AdjustType
  BY QueuedNat DEF TypeOK, RecvType, CallType, AdjustType
<1>2. /\ UNCHANGED <<bytes_read, freed, packets, kex, packAdd, toClient, flush_refund_bytes, flush_flush_bytes>>
      /\ read_avail' = U32(read_avail - flush_flush_bytes)
  BY DEF FlushRefund, flagVars
<1>3. Within(read_avail) /\ Within(remote_window_size) /\ Modulus \in Nat /\ Within(flush_refund_bytes)
  BY <1>0, FlushFacts DEF Widths
<1>4. read_avail' = QueuedBytes(packets) + bytes_read /\ Within(read_avail')
  <2>1. /\ read_avail - flush_flush_bytes = QueuedBytes(packets) + bytes_read
        /\ read_avail - flush_flush_bytes \in Int /\ Within(read_avail - flush_flush_bytes)
    BY <1>0, <1>1, <1>3 DEF Within
  <2> QED
    BY <1>2, <2>1, Wraps
<1> DEFINE window == U32(remote_window_size - flush_flush_bytes)
<1>5. window \in Int /\ Within(window)
  <2>1. /\ remote_window_size - flush_flush_bytes \in Int
        /\ -Modulus <= remote_window_size - flush_flush_bytes
        /\ remote_window_size - flush_flush_bytes < 2 * Modulus
    BY <1>0, <1>1, <1>3 DEF Within
  <2> QED
    BY <2>1, Wraps
<1> HIDE DEF window
<1>6. /\ odata' = NoPacket /\ Within(remote_window_size') /\ -Modulus < adjust_queue' /\ adjust_queue' < Modulus
      /\ flush_state' = "idle" /\ pc' = "app"
  <2>0. -Modulus < adjust_queue /\ adjust_queue < Modulus /\ odata = NoPacket /\ kex = "no"
    BY <1>0 DEF Widths, NothingHeld
  <2>1. CASE flush_refund_bytes = 0
    BY <1>5, <2>0, <2>1 DEF FlushRefund, Return, netVars, adjVars, window
  <2>2. CASE flush_refund_bytes # 0
    <3>1. PICK rc \in {"ok", "EAGAIN", "error"} :
                   /\ ReceiveWindowAdjust(window, flush_refund_bytes, TRUE, rc)
                   /\ \/ rc = "EAGAIN"
                      \/ /\ rc # "EAGAIN"
                         /\ flush_state' = "idle"
                         /\ pc' = "app"
      BY <2>2 DEF FlushRefund, Return, window
    <3>2. -Modulus < flush_refund_bytes /\ flush_refund_bytes < Modulus
      BY <1>1, <1>3 DEF Within
    <3>3. /\ odata' = NoPacket /\ rc # "EAGAIN" /\ Within(remote_window_size')
          /\ -Modulus < adjust_queue' /\ adjust_queue' < Modulus
      BY <1>0, <1>1, <1>5, <2>0, <3>1, <3>2, AdjustAtOnce
    <3> QED
      BY <3>1, <3>3
  <2> QED
    BY <2>1, <2>2
<1>7. NothingHeld'
  BY <1>0, <1>2, <1>6, HeldKept DEF NothingHeld
<1>8. Widths'
  BY <1>0, <1>2, <1>4, <1>6 DEF Widths, Within
<1>9. CallsWhole'
  BY <1>6 DEF CallsWhole
<1>10. Counted'
  BY <1>0, <1>1, <1>2, <1>4, <1>6 DEF Counted, Flushing
<1> QED
  BY <1>0, <1>2, <1>6, <1>7, <1>8, <1>9, <1>10 DEF CountInv, Flushing

LEMMA StepCounted ==
    ASSUME TypeOK, CountInv, FlushesAtOnce, Steps
    PROVE  CountInv'
<1>0. CASE FlushScan \/ FlushRefund
  BY <1>0, ScanCounted, RefundCounted
<1> SUFFICES ASSUME ~FlushScan, ~FlushRefund PROVE CountInv'
  BY <1>0
<1>1. StaysIn /\ ~freed /\ call.n \in Nat /\ remote_window_size \in Int
  BY StepStays DEF CountInv, TypeOK, ControlType, AdjustType
<1>2. CASE ReadWiden
  <2>1. UNCHANGED <<read_avail, packets, bytes_read, freed, kex, packAdd, toClient>> /\ pc = "widen"
    BY <1>2 DEF ReadWiden, recvVars, flagVars
  <2>2. "flush" \in Ops => -Modulus < call.n /\ call.n < Modulus
    BY <1>1, <2>1, FlushFacts DEF CountInv, CallsWhole
  <2>3. PICK rc : ReceiveWindowAdjust(remote_window_size, call.n, TRUE, rc)
    BY <1>2 DEF ReadWiden
  <2>4. call.n \in Int
    BY <1>1
  <2> QED
    BY <1>1, <2>1, <2>2, <2>3, <2>4, AdjustCounted
<1>3. CASE ReadExpand
  <2>1. UNCHANGED <<read_avail, packets, bytes_read, freed, kex, packAdd, toClient>> /\ pc = "expand"
    BY <1>3 DEF ReadExpand, recvVars, flagVars
  <2>2. CASE UNCHANGED <<remote_window_size, adjVars, netVars>>
    BY <1>1, <2>1, <2>2, SendCounted DEF adjVars, netVars
  <2>3. ASSUME NEW rc, ReceiveWindowAdjust(remote_window_size, ExpandBy, FALSE, rc) PROVE CountInv'
    <3>1. Initial + call.n - remote_window_size \in Int /\ MinAdjust \in Nat
      BY <1>1, ConstantFacts
    <3>2. ExpandBy \in Int
      BY <3>1, Wraps DEF ExpandBy, Max2
    <3>3. ASSUME "flush" \in Ops PROVE -Modulus < ExpandBy /\ ExpandBy < Modulus
      <4>1. /\ call.n \in ReadSizes /\ Within(remote_window_size) /\ Modulus \in Nat /\ Initial \in Nat
            /\ Initial + call.n < Modulus /\ MinAdjust < Modulus /\ Modulus > 0
        BY <2>1, <3>3, FlushFacts DEF CountInv, CallsWhole, Widths
      <4>2. Within(U32(Initial + call.n - remote_window_size))
        <5>1. /\ -Modulus <= Initial + call.n - remote_window_size
              /\ Initial + call.n - remote_window_size < 2 * Modulus
          BY <1>1, <4>1 DEF Within
        <5> QED
          BY <3>1, <5>1, Wraps
      <4>3. U32(Initial + call.n - remote_window_size) \in Int
        BY <3>1, Wraps
      <4> QED
        BY <3>1, <4>1, <4>2, <4>3 DEF ExpandBy, Max2, Within
    <3> QED
      BY <1>1, <2>1, <2>3, <3>2, <3>3, AdjustCounted
  <2> QED
    BY <1>3, <2>2, <2>3 DEF ReadExpand
<1>4. CASE AdjustStep
  <2>1. UNCHANGED <<read_avail, packets, bytes_read, freed, kex, packAdd, toClient>> /\ pc = "adjust"
    BY <1>4 DEF AdjustStep, recvVars, flagVars
  <2>2. "flush" \in Ops => -Modulus < call.n /\ call.n < Modulus
    BY <1>1, <2>1, FlushFacts DEF CountInv, CallsWhole
  <2>3. PICK rc : ReceiveWindowAdjust(remote_window_size, call.n, call.op = "adjust", rc)
    BY <1>4 DEF AdjustStep
  <2> QED
    BY <1>1, <2>1, <2>2, <2>3, AdjustCounted
<1>5. CASE ReadCopy \/ ReadReturn
  BY <1>5, CopyCounted, ReturnCounted
<1>6. CASE ReadDrain \/ WriteDrain
  BY <1>1, <1>6, ReadCounted DEF ReadDrain, WriteDrain
<1>7. CASE WriteFit \/ CloseDone
  <2>1. UNCHANGED <<read_avail, packets, bytes_read, freed, remote_window_size, adjust_queue,
                    kex, packAdd, toClient, odata>>
    BY <1>7 DEF WriteFit, CloseDone, EndFrame, recvVars, flagVars, adjVars, netVars
  <2> QED
    BY <1>1, <2>1, SendCounted
<1>8. CASE WriteSend
  <2>1. /\ UNCHANGED <<read_avail, packets, bytes_read, freed, remote_window_size, adjust_queue,
                       kex, packAdd, toClient>>
        /\ \E m, s : TransportSend(m, s)
    BY <1>8 DEF WriteSend, flagVars, adjVars
  <2> QED
    BY <1>1, <2>1, SendCounted
<1>9. CASE EofStep \/ CloseEnter \/ CloseSend
  <2>1. /\ UNCHANGED <<read_avail, packets, bytes_read, freed, remote_window_size, adjust_queue,
                       kex, packAdd, toClient>>
    BY <1>9 DEF EofStep, CloseEnter, CloseSend, EndFrame, recvVars, flagVars, adjVars
  <2>2. odata' = odata \/ \E m, s : TransportSend(m, s)
    <3>1. ASSUME NEW rc, SendEof(rc) PROVE \E m, s : TransportSend(m, s)
      BY <3>1 DEF SendEof
    <3> QED
      BY <1>9, <3>1 DEF EofStep, CloseEnter, CloseSend, netVars
  <2> QED
    BY <1>1, <2>1, <2>2, SendCounted
<1>10. CASE CloseWait \/ WaitEof \/ WaitClosed
  <2>1. ASSUME NEW rc, TransportRead(rc) PROVE CountInv'
    BY <1>1, <2>1, ReadCounted
  <2>2. ASSUME EndFrame, UNCHANGED <<flagVars, netVars>> PROVE CountInv'
    <3>1. UNCHANGED <<read_avail, packets, bytes_read, freed, remote_window_size, adjust_queue,
                      kex, packAdd, toClient, odata>>
      BY <2>2 DEF EndFrame, recvVars, flagVars, adjVars, netVars
    <3> QED
      BY <1>1, <3>1, SendCounted
  <2> QED
    BY <1>10, <2>1, <2>2 DEF CloseWait, WaitEof, WaitClosed
<1>11. CASE FreeStep
  <2>1. /\ freed' = TRUE /\ pc' = "app" /\ packets' = <<>>
        /\ UNCHANGED <<odata, kex, packAdd, toClient, remote_window_size, flush_refund_bytes,
                       adjust_queue, flush_state>>
    BY <1>11 DEF FreeStep, Return, netVars, adjVars, flushVars
  <2>2. ASSUME "flush" \in Ops PROVE NothingHeld' /\ Widths' /\ CallsWhole'
    <3>1. NothingHeld /\ Widths /\ CallsWhole /\ DOMAIN packets' = {}
      BY <2>1, <2>2 DEF CountInv
    <3>2. NothingHeld' /\ Widths'
      BY <2>1, <3>1, HeldKept DEF Widths, Within
    <3>3. CallsWhole'
      BY <1>1, <2>1, <3>1 DEF CallsWhole, StaysIn, Flushing
    <3> QED
      BY <3>2, <3>3
  <2> QED
    BY <2>1, <2>2 DEF CountInv, Counted, Flushing
<1> QED
  BY <1>2, <1>3, <1>4, <1>5, <1>6, <1>7, <1>8, <1>9, <1>10, <1>11 DEF Steps

\* A call begins with nothing under way.
LEMMA CallCounted ==
    ASSUME TypeOK, CountInv, FlushesAtOnce, Calls
    PROVE  CountInv'
<1>1. pc = "app" /\ ~freed /\ pc \notin Flushing
  BY DEF Calls, CallRead, CallWrite, CallFlush, CallAdjust, CallMode, CallWindowRead, CallSendEof,
         CallClose, CallFree, CallWaitEof, CallWaitClosed, Simple, Calling, Flushing
<1>2. UNCHANGED <<read_avail, packets, bytes_read, freed, odata, kex, packAdd, toClient,
                  remote_window_size, adjust_queue>>
  BY DEF Calls, CallRead, CallWrite, CallFlush, CallAdjust, CallMode, CallWindowRead, CallSendEof,
         CallClose, CallFree, CallWaitEof, CallWaitClosed, Simple, recvVars, flagVars, adjVars, netVars
<1>3. /\ read_avail \in Int /\ QueuedBytes(packets) \in Nat /\ bytes_read \in Nat
      /\ read_avail = QueuedBytes(packets) + bytes_read
  <2>1. read_avail \in Int /\ QueuedBytes(packets) \in Nat /\ bytes_read \in Nat
    BY QueuedNat DEF TypeOK, RecvType, CallType
  <2> QED
    BY <1>1, <2>1 DEF CountInv, Counted
<1>4. ASSUME NEW s, CallFlush(s) PROVE CountInv'
  <2>1. "flush" \in Ops /\ NothingHeld /\ Widths /\ CallsWhole /\ flush_state = "idle"
    BY <1>1, <1>4 DEF CallFlush, Calling, CountInv, CallsWhole, TypeOK, CallType, Flushing
  <2>2. /\ flush_refund_bytes' = 0 /\ flush_flush_bytes' = 0 /\ flush_state' = "idle" /\ pc' = "fscan"
    BY <1>4, <2>1 DEF CallFlush, Start
  <2>3. NothingHeld'
    BY <1>2, <2>1, HeldKept
  <2>4. Widths'
    <3>1. Modulus \in Nat /\ Modulus > 0
      BY <2>1, FlushFacts
    <3> QED
      BY <1>2, <2>1, <2>2, <3>1 DEF Widths, Within
  <2>5. CallsWhole'
    BY <2>2 DEF CallsWhole
  <2>6. Counted'
    BY <1>2, <1>3, <2>2 DEF Counted
  <2> QED
    BY <1>1, <1>2, <2>1, <2>2, <2>3, <2>4, <2>5, <2>6 DEF CountInv, Flushing
<1>5. ASSUME UNCHANGED flushVars, pc' \notin Flushing, pc' \in Reading => call'.n \in ReadSizes,
             pc' = "adjust" => call'.n \in AdjustSizes
      PROVE  CountInv'
  <2>1. Counted'
    BY <1>2, <1>3, <1>5 DEF Counted
  <2>2. ASSUME "flush" \in Ops PROVE NothingHeld' /\ Widths' /\ CallsWhole'
    <3>1. NothingHeld /\ Widths /\ CallsWhole
      BY <2>2 DEF CountInv
    <3>2. NothingHeld' /\ Widths'
      BY <1>2, <1>5, <3>1, HeldKept, WidthsKept DEF flushVars
    <3>3. CallsWhole'
      BY <1>1, <1>5, <3>1 DEF CallsWhole, flushVars, Flushing, Reading
    <3> QED
      BY <3>2, <3>3
  <2> QED
    BY <1>1, <1>2, <1>5, <2>1, <2>2 DEF CountInv
<1>6. ASSUME NEW s \in ReadStreams, NEW n \in ReadSizes, CallRead(s, n) PROVE CountInv'
  BY <1>5, <1>6 DEF CallRead, Start, Reading, Flushing
<1>7. ASSUME NEW n \in AdjustSizes, NEW op, CallAdjust(n, op) PROVE CountInv'
  BY <1>5, <1>7 DEF CallAdjust, Start, Reading, Flushing
<1>8. ASSUME NEW n, CallWrite(n) PROVE CountInv'
  BY <1>1, <1>5, <1>8 DEF CallWrite, Start, Quick, Reading, Flushing
<1>9. ASSUME NEW op, NEW at, Simple(op, at), at \in {"eof", "close", "free", "wait_eof", "wait_closed"}
      PROVE  CountInv'
  BY <1>5, <1>9 DEF Simple, Start, Reading, Flushing
<1>10. CASE CallSendEof \/ CallClose \/ CallFree \/ CallWaitEof
  BY <1>9, <1>10 DEF CallSendEof, CallClose, CallFree, CallWaitEof
<1>11. CASE CallWaitClosed \/ CallWindowRead \/ \E m \in Modes : CallMode(m)
  BY <1>1, <1>5, <1>9, <1>11 DEF CallWaitClosed, CallWindowRead, CallMode, Quick, Reading, Flushing
<1> QED
  BY <1>4, <1>6, <1>7, <1>8, <1>10, <1>11 DEF Calls

\* The peer adds to the wire, and starts no key exchange where there is none.
LEMMA PeerCounted ==
    ASSUME TypeOK, CountInv, FlushesAtOnce, Peer \/ LoseLink
    PROVE  CountInv'
<1>1. ASSUME NEW k, NEW s, NEW n, PeerSays(k, s, n) PROVE UNCHANGED clientVars /\ UNCHANGED netVars
  BY <1>1 DEF PeerSays
<1>2. UNCHANGED clientVars
  BY <1>1 DEF Peer, PeerSend, PeerData, PeerEnds, PeerReceive, KexDone, PeerGrant,
     PeerRequest, PeerRekey, LoseLink
<1>3. odata' = odata
  BY <1>1 DEF Peer, PeerSend, PeerData, PeerEnds, PeerReceive, KexDone, PeerGrant,
     PeerRequest, PeerRekey, LoseLink, netVars
<1>4. UNCHANGED <<read_avail, packets, bytes_read, freed, packAdd, remote_window_size, adjust_queue, pc,
                  call, flush_state, flush_refund_bytes, flush_flush_bytes>>
  BY <1>2 DEF clientVars, flushVars, flagVars, adjVars
<1>5. ASSUME "flush" \in Ops PROVE NothingHeld'
  <2>0. NothingHeld /\ toClient \in Seq(Inbound)
    BY <1>5 DEF CountInv, TypeOK, RecvType
  <2>1. ~PeerRekey /\ ~KexDone
    BY <1>5, <2>0, FlushFacts DEF PeerRekey, KexDone, NothingHeld, TypeOK, PeerType
  <2>2. CASE UNCHANGED <<toClient, kex>>
    BY <1>3, <1>4, <2>0, <2>2, HeldKept
  <2>3. ASSUME NEW k, NEW s, NEW n, PeerSays(k, s, n), k # "kexinit", kex' = kex PROVE NothingHeld'
    <3> DEFINE m == [kind |-> k, stream |-> s, n |-> n, sent |-> peerSent', granted |-> peerGranted']
    <3>1. toClient' = Append(toClient, m) /\ m.kind # "kexinit"
      BY <2>3 DEF PeerSays
    <3> HIDE DEF m
    <3>2. \A i \in DOMAIN toClient' : toClient'[i] = m \/ (i \in DOMAIN toClient /\ toClient'[i] = toClient[i])
      BY <2>0, <3>1
    <3> QED
      BY <1>3, <1>4, <2>0, <2>3, <3>1, <3>2 DEF NothingHeld
  <2>4. CASE PeerReceive \/ LoseLink
    BY <2>2, <2>4 DEF PeerReceive, LoseLink
  <2>5. CASE PeerSend \/ PeerRequest \/ \E n \in GrantSizes : PeerGrant(n)
    BY <2>3, <2>5 DEF PeerSend, PeerData, PeerEnds, PeerRequest, PeerGrant
  <2> QED
    BY <2>1, <2>4, <2>5 DEF Peer
<1>6. "flush" \in Ops => Widths' /\ CallsWhole'
  BY <1>4, WidthsKept DEF CountInv, CallsWhole
<1>7. Counted'
  BY <1>4 DEF CountInv, Counted
<1> QED
  BY <1>4, <1>5, <1>6, <1>7 DEF CountInv

LEMMA NextCounted ==
    ASSUME TypeOK, CountInv, FlushesAtOnce, [Next]_vars
    PROVE  CountInv'
<1>1. CASE Pump
  <2>1. StaysIn /\ (freed => pc' = "app")
    BY <1>1 DEF Pump, StaysIn, Flushing, Reading, TransportRead
  <2> QED
    BY <1>1, <2>1, ReadCounted DEF Pump
<1>2. CASE UNCHANGED vars
  BY <1>2 DEF vars, recvVars, netVars, flushVars, flagVars, adjVars, CountInv, Counted, NothingHeld,
     Widths, Within, CallsWhole
<1> QED
  BY <1>1, <1>2, StepCounted, CallCounted, PeerCounted DEF Next

\* Where no flush is interrupted, read_avail is the number of bytes that the queue
\* holds, in every mode of the channel: partial and merged reads, flushes of one stream
\* and of both, ignored data and a lost connection included.
THEOREM AvailIsQueued == FlushesAtOnce => (Spec => []ReadAvailIsQueued)
<1> SUFFICES ASSUME FlushesAtOnce PROVE Spec => []ReadAvailIsQueued
  OBVIOUS
<1>1. Init => CountInv
  <2> SUFFICES ASSUME Init PROVE CountInv
    OBVIOUS
  <2>1. packets = <<>> /\ packets \in Seq(Queued) /\ toClient = <<>> /\ DOMAIN packets = {} /\ DOMAIN toClient = {}
    BY DEF Init
  <2>2. QueuedBytes(packets) = 0
    BY <2>1, QueuedNat
  <2>3. Counted /\ ~freed /\ pc = "app"
    BY <2>2 DEF Init, Counted, Flushing
  <2>4. "flush" \in Ops => NothingHeld /\ Widths /\ CallsWhole
    BY <2>1, FlushFacts DEF Init, NothingHeld, Widths, Within, CallsWhole
  <2> QED
    BY <2>3, <2>4 DEF CountInv, Flushing
<1>2. TypeOK /\ CountInv /\ [Next]_vars => CountInv'
  BY NextCounted
<1>3. TypeOK /\ CountInv => ReadAvailIsQueued
  <2> SUFFICES ASSUME TypeOK, CountInv PROVE ReadAvailIsQueued
    OBVIOUS
  <2>1. QueuedBytes(packets) \in Nat /\ bytes_read \in Nat
    BY QueuedNat DEF TypeOK, RecvType, CallType
  <2> QED
    BY <2>1 DEF CountInv, Counted, ReadAvailIsQueued, Flushing
<1> QED
  BY <1>1, <1>2, <1>3, TypeCorrect, PTL DEF Spec
=============================================================================
