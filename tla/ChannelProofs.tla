--------------------------- MODULE ChannelProofs ---------------------------
(***************************************************************************)
(* Theorems about every use of a channel: type correctness, and that we    *)
(* never write more than the peer granted.                                 *)
(***************************************************************************)
EXTENDS ChannelInv, TLAPS

Packet == [kind : SendKinds, n : Int]

\* The assumptions on the constants, one by one.
LEMMA ConstantFacts ==
    /\ Initial \in Nat /\ PeerInitial \in Nat /\ PacketSize \in Nat \ {0}
    /\ MinAdjust \in Nat \ {0} /\ HeadSlack \in Nat \ {0} /\ Modulus \in Nat \ {0}
    /\ ReadSizes \subseteq Nat \ {0} /\ WriteSizes \subseteq Nat \ {0}
    /\ AdjustSizes \subseteq Nat \ {0} /\ DataSizes \subseteq Nat \ {0}
    /\ GrantSizes \subseteq Nat \ {0}
    /\ Modes \subseteq AllModes /\ ReadStreams \subseteq Streams
    /\ PeerStreams \subseteq Streams /\ Ops \subseteq AllOps
  BY ConstantsAssumption

\* transport_send() leaves the wire alone, puts one packet on it, or keeps one half
\* sent.  The packet is the one that was half sent before, if there was one.
LEMMA SendCases ==
    ASSUME NetType, NEW m \in Packet, NEW rc, TransportSend(m, rc)
    PROVE  \/ UNCHANGED netVars
           \/ \E x \in Packet : /\ x = IF odata = NoPacket THEN m ELSE odata
                                /\ Carry(x) /\ rc = "ok" /\ link
           \/ \E x \in Packet : /\ x = IF odata = NoPacket THEN m ELSE odata
                                /\ odata' = x /\ rc = "EAGAIN"
                                /\ UNCHANGED <<toPeer, granted, written, onWire>>
<1> DEFINE x == IF odata = NoPacket THEN m ELSE odata
<1>1. odata.kind \in {"none", m.kind} => x \in Packet
  BY DEF NetType, NoPacket, Packet, SendKinds
<1> QED
  BY <1>1 DEF TransportSend

\* transport_send() keeps the types of the wire.
LEMMA SendType ==
    ASSUME NetType, NEW m \in Packet, NEW rc, TransportSend(m, rc)
    PROVE  NetType'
<1>1. CASE UNCHANGED netVars
  BY <1>1 DEF NetType, netVars
<1>2. ASSUME NEW x \in Packet, Carry(x)
      PROVE  NetType'
  BY <1>2 DEF NetType, Carry, NoPacket, SendKinds, Packet, Outbound
<1>3. ASSUME NEW x \in Packet, odata' = x,
             UNCHANGED <<toPeer, granted, written, onWire>>
      PROVE  NetType'
  BY <1>3 DEF NetType, Packet
<1> QED
  BY <1>1, <1>2, <1>3, SendCases

U32Type == \A x \in Int : U32(x) \in Int

\* The 32-bit wrap of an integer is an integer.
LEMMA U32Int == U32Type
  BY ConstantsAssumption DEF U32, U32Type

\* receive_window_adjust() keeps the types of the window and of the wire.
LEMMA AdjustTyped ==
    ASSUME NetType, AdjustType, NEW w \in Int, NEW adj \in Int, NEW force, NEW rc,
           ReceiveWindowAdjust(w, adj, force, rc)
    PROVE  NetType' /\ AdjustType'
<1>1. CASE QueueAdjust(w, adj, force, rc)
  BY <1>1, U32Int DEF QueueAdjust, NetType, AdjustType, netVars, U32Type
<1>2. CASE SendAdjust(w, adj, force, rc)
  <2> DEFINE fresh == adjust_state = "idle"
             total == IF fresh THEN U32(adj + adjust_queue) ELSE adj
             packet == IF fresh THEN total ELSE adjust_adjust
  <2>1. total \in Int /\ packet \in Int /\ U32(w + total) \in Int
    BY U32Int DEF AdjustType, U32Type
  <2>2. [kind |-> "adjust", n |-> packet] \in Packet
    BY <2>1 DEF Packet, SendKinds
  <2>3. NetType'
    <3>1. PICK s \in SendResults : TransportSend([kind |-> "adjust", n |-> packet], s)
      BY <1>2 DEF SendAdjust
    <3> QED
      BY <2>2, <3>1, SendType
  <2>4. AdjustType'
    BY <1>2, <2>1 DEF SendAdjust, AdjustType
  <2> QED
    BY <2>3, <2>4
<1> QED
  BY <1>1, <1>2 DEF ReceiveWindowAdjust

\* The reply to a channel request keeps the types.
LEMMA ReplyTyped ==
    ASSUME TypeOK, NEW rc, Reply(rc)
    PROVE  /\ NetType' /\ AdjustType'
           /\ packAdd' \in [point : {"idle", "jump1", "jump4"}, n : Nat]
<1>1. [kind |-> "failure", n |-> 0] \in Packet
  BY DEF Packet, SendKinds
<1>2. NetType'
  BY <1>1, SendType DEF Reply, TypeOK
<1>3. AdjustType'
  BY DEF Reply, TypeOK, AdjustType, adjVars
<1>4. packAdd' \in [point : {"idle", "jump1", "jump4"}, n : Nat]
  BY DEF Reply
<1> QED
  BY <1>2, <1>3, <1>4

\* packet_add() on the next packet of the peer keeps the types.
LEMMA PacketAddTyped ==
    ASSUME TypeOK, toClient # <<>>, NEW rc, PacketAdd(Head(toClient), rc),
           toClient' = Tail(toClient), UNCHANGED disconnected
    PROVE  NetType' /\ AdjustType' /\ RecvType'
<1> DEFINE m == Head(toClient)
<1>m. /\ m \in Inbound
      /\ m.n \in Nat /\ m.stream \in Streams
      /\ toClient' \in Seq(Inbound)
  <2>1. toClient \in Seq(Inbound)
    BY DEF TypeOK, RecvType
  <2>2. m \in Inbound /\ toClient' \in Seq(Inbound)
    BY <2>1
  <2> QED
    BY <2>2 DEF Inbound
<1>1. CASE AddData(m)
  <2>1. NetType' /\ AdjustType'
    BY <1>1 DEF AddData, TypeOK, NetType, AdjustType, netVars, adjVars
  <2> DEFINE room == remote_window_size - read_avail
             len == Min2(Min2(m.n, PacketSize), room)
             p == [stream |-> m.stream, size |-> len, left |-> len,
                   upto |-> arrived[m.stream] + len]
  <2>a. room \in Int /\ m.n \in Nat /\ PacketSize \in Nat
    BY <1>m, ConstantFacts DEF TypeOK, RecvType, AdjustType
  <2>2. room > 0 => len \in Nat
    BY <2>a DEF Min2
  <2>3. len \in Int /\ m.n - len \in Int
    BY <2>a DEF Min2
  <2>4. packets' \in Seq(Queued)
    <3>1. packets \in Seq(Queued)
      BY DEF TypeOK, RecvType
    <3>0. arrived[m.stream] + len \in Int
      BY <2>3, <1>m DEF TypeOK, RecvType
    <3>2. room > 0 => p \in Queued
      BY <2>2, <3>0, <1>m DEF Queued
    <3>3. packets' = packets \/ (room > 0 /\ packets' = Append(packets, p))
      BY <1>1 DEF AddData
    <3>4. CASE packets' = packets
      BY ONLY <3>1, <3>4
    <3>5. CASE room > 0 /\ packets' = Append(packets, p)
      <4>1. p \in Queued
        BY <3>2, <3>5
      <4> HIDE DEF p
      <4> QED
        BY ONLY <3>1, <3>5, <4>1
    <3> QED
      BY ONLY <3>3, <3>4, <3>5
  <2>5. dropped' \in Int /\ received' \in Int
    <3>1. dropped' = dropped \/ dropped' = dropped + m.n \/ dropped' = dropped + (m.n - len)
      BY <1>1 DEF AddData
    <3>2. received' = received + m.n
      BY <1>1 DEF AddData
    <3>3. dropped \in Int /\ received \in Int
      BY DEF TypeOK, RecvType
    <3> HIDE DEF len, room, m
    <3> QED
      BY <3>1, <3>2, <3>3, <2>3, <2>a
  <2>6. read_avail' \in Int
    BY <1>1, <2>3 DEF AddData, TypeOK, RecvType
  <2>8. arrived' \in [Streams -> Int] /\ taken' \in [Streams -> Int]
    <3>1. arrived' = arrived \/ arrived' = [arrived EXCEPT ![m.stream] = @ + len]
      BY <1>1 DEF AddData
    <3>2. arrived \in [Streams -> Int] /\ taken \in [Streams -> Int] /\ taken' = taken
      BY <1>1 DEF AddData, TypeOK, RecvType
    <3> HIDE DEF len, m
    <3> QED
      BY <3>1, <3>2, <2>3, <1>m
  <2>7. RecvType'
    BY <1>1, <1>m, <2>4, <2>5, <2>6, <2>8 DEF AddData, TypeOK, RecvType
  <2> QED
    BY <2>1, <2>7
<1>2. CASE AddIgnored(m, rc)
  <2> DEFINE len == IF read_avail + m.n >= remote_window_size
                    THEN remote_window_size - read_avail ELSE m.n
  <2>a. len \in Int /\ remote_window_size - len \in Int
    BY <1>m DEF TypeOK, RecvType, AdjustType
  <2>1. len \in Int /\ U32(remote_window_size - len) \in Int
    BY <2>a, U32Int DEF U32Type
  <2>2. PICK r \in {"ok", "EAGAIN", "error"} :
           /\ ReceiveWindowAdjust(U32(remote_window_size - len), len, TRUE, r)
           /\ packAdd' = IF r = "EAGAIN" THEN [point |-> "jump1", n |-> m.n]
                         ELSE [point |-> "idle", n |-> 0]
    BY <1>2 DEF AddIgnored
  <2>3. NetType' /\ AdjustType'
    BY <2>1, <2>2, AdjustTyped DEF TypeOK
  <2>4. RecvType'
    BY <1>2, <2>2, <1>m DEF AddIgnored, TypeOK, RecvType
  <2> QED
    BY <2>3, <2>4
<1>3. CASE AddFlag(m)
  <2>1. remote_eof' \in BOOLEAN /\ remote_close' \in BOOLEAN
    <3>1. /\ remote_eof' = TRUE \/ remote_eof' = remote_eof
          /\ remote_close' = TRUE \/ remote_close' = remote_close
      BY <1>3, Zenon DEF AddFlag, AddEof, AddClose, AddWindowAdjust
    <3> QED
      BY <3>1 DEF TypeOK, RecvType
  <2>2. local_window_size' \in Int
    <3>1. \/ local_window_size' = local_window_size
          \/ local_window_size' = local_window_size + m.n
      BY <1>3, Zenon DEF AddFlag, AddEof, AddClose, AddWindowAdjust
    <3> QED
      BY <1>m, <3>1 DEF TypeOK, RecvType
  <2> QED
    BY <1>3, <1>m, <2>1, <2>2 DEF AddFlag, TypeOK, NetType, AdjustType, RecvType, netVars, adjVars
<1>4. CASE AddUnknown(m)
  BY <1>4, <1>m DEF AddUnknown, TypeOK, NetType, AdjustType, RecvType, netVars, adjVars
<1>5. CASE Reply(rc)
  <2>1. RecvType'
    BY <1>5, <1>m, ReplyTyped DEF Reply, TypeOK, RecvType
  <2> QED
    BY <1>5, <2>1, ReplyTyped
<1>6. CASE AddKexinit(m)
  BY <1>6, <1>m DEF AddKexinit, TypeOK, NetType, AdjustType, RecvType, netVars, adjVars
<1> QED
  BY <1>1, <1>2, <1>3, <1>4, <1>5, <1>6 DEF PacketAdd

\* packet_add() resumed at a jump point keeps the types.
LEMMA ResumeTyped ==
    ASSUME TypeOK, NEW rc, PacketAddResume(rc), UNCHANGED <<toClient, disconnected>>
    PROVE  NetType' /\ AdjustType' /\ RecvType'
<1>1. CASE packAdd.point = "jump1"
  <2>1. PICK r \in {"ok", "EAGAIN", "error"} :
           /\ ReceiveWindowAdjust(remote_window_size, packAdd.n, TRUE, r)
           /\ packAdd' = IF r = "EAGAIN" THEN packAdd ELSE [point |-> "idle", n |-> 0]
    BY <1>1 DEF PacketAddResume
  <2>a. packAdd.n \in Int /\ remote_window_size \in Int
    BY DEF TypeOK, RecvType, AdjustType
  <2>2. NetType' /\ AdjustType'
    BY <2>1, <2>a, AdjustTyped DEF TypeOK
  <2>3. RecvType'
    BY <1>1, <2>1 DEF PacketAddResume, TypeOK, RecvType
  <2> QED
    BY <2>2, <2>3
<1>2. CASE packAdd.point = "jump4"
  <2>1. Reply(rc)
    BY <1>2 DEF PacketAddResume
  <2>2. RecvType'
    BY <2>1, ReplyTyped DEF Reply, TypeOK, RecvType
  <2> QED
    BY <2>1, <2>2, ReplyTyped
<1> QED
  BY <1>1, <1>2 DEF PacketAddResume

\* transport_read() keeps the types and leaves the call's own state alone.
LEMMA ReadTyped ==
    ASSUME TypeOK, NEW rc, TransportRead(rc)
    PROVE  /\ NetType' /\ AdjustType' /\ RecvType' /\ FlagType' /\ PeerType'
           /\ UNCHANGED <<ignore_mode, read_state, bytes_read, flushVars, writeVars>>
<1>1. /\ FlagType' /\ PeerType'
      /\ UNCHANGED <<ignore_mode, read_state, bytes_read, flushVars, writeVars>>
  BY DEF TransportRead, TypeOK, FlagType, PeerType, flagVars, peerVars
<1>2. NetType' /\ AdjustType' /\ RecvType'
  <2>1. CASE UNCHANGED <<recvVars, remote_window_size, adjVars, netVars>>
    BY <2>1 DEF TypeOK, NetType, AdjustType, RecvType, netVars, adjVars, recvVars
  <2>2. CASE PacketAddResume(rc) /\ UNCHANGED <<toClient, disconnected>>
    BY <2>2, ResumeTyped
  <2>3. CASE /\ toClient # <<>> /\ PacketAdd(Head(toClient), rc)
             /\ toClient' = Tail(toClient) /\ UNCHANGED disconnected
    BY <2>3, PacketAddTyped
  <2>4. CASE /\ disconnected' \in {disconnected, TRUE}
             /\ UNCHANGED <<read_avail, remote_eof, remote_close, local_window_size,
                            packets, packAdd, kex, toClient, received, dropped, arrived, taken,
                            remote_window_size, adjVars, netVars>>
    BY <2>4 DEF TypeOK, NetType, AdjustType, RecvType, netVars, adjVars
  <2> QED
    BY <2>1, <2>2, <2>3, <2>4 DEF TransportRead
<1> QED
  BY <1>1, <1>2

\* Going to another place of a call keeps the control state well formed.
LEMMA GotoTyped ==
    ASSUME ControlType, NEW at \in Pcs, Goto(at)
    PROVE  ControlType'
  BY DEF ControlType, Goto

\* So does returning to the application,
LEMMA ReturnTyped ==
    ASSUME ControlType, NEW rc, NEW val, Return(rc, val)
    PROVE  ControlType'
  BY DEF ControlType, Return, NoCall, Pcs, AllOps, Streams

\* and so does BLOCK_ADJUST on EAGAIN.
LEMMA AgainTyped ==
    ASSUME ControlType, NEW at \in Pcs, Again(at)
    PROVE  ControlType'
  BY ReturnTyped DEF ControlType, Again, Goto

\* receive_window_adjust() as read() and the adjust calls use it.
LEMMA AdjustCallTyped ==
    ASSUME TypeOK, NEW adj \in Int, NEW force,
           \E rc \in {"ok", "EAGAIN", "error"} :
               ReceiveWindowAdjust(remote_window_size, adj, force, rc)
    PROVE  NetType' /\ AdjustType'
<1>1. NetType /\ AdjustType /\ remote_window_size \in Int
  BY DEF TypeOK, AdjustType
<1> QED
  BY <1>1, AdjustTyped

\* The queue of packets without one of them is a queue of packets.
LEMMA WithoutTyped ==
    ASSUME RecvType, NEW i \in DOMAIN packets
    PROVE  Without(i) \in Seq(Queued)
<1>1. packets \in Seq(Queued) /\ i \in 1..Len(packets)
  BY DEF RecvType
<1>2. SubSeq(packets, 1, i - 1) \in Seq(Queued)
  BY <1>1
<1>3. SubSeq(packets, i + 1, Len(packets)) \in Seq(Queued)
  BY <1>1
<1> QED
  BY <1>2, <1>3 DEF Without

\* Every step of a running call keeps TypeOK, one case per step.
LEMMA StepTyped ==
    ASSUME TypeOK, Steps
    PROVE  TypeOK'
<1>0. call.n \in Nat /\ call.n \in Int /\ ControlType
  BY DEF TypeOK, ControlType
<1>1. CASE ReadWiden
  <2>1. NetType' /\ AdjustType'
    BY <1>0, <1>1, AdjustCallTyped DEF ReadWiden
  <2>2. RecvType' /\ FlagType' /\ PeerType' /\ CallType'
    BY <1>1 DEF ReadWiden, TypeOK, RecvType, FlagType, PeerType, CallType, recvVars,
                flagVars, peerVars, flushVars, writeVars
  <2>3. ControlType'
    BY <1>0, <1>1, GotoTyped DEF ReadWiden, Pcs
  <2> QED
    BY <2>1, <2>2, <2>3 DEF TypeOK
<1>2. CASE ReadExpand
  <2>1. ExpandBy \in Int
    <3>1. Initial + call.n - remote_window_size \in Int
      BY <1>0, ConstantFacts DEF TypeOK, AdjustType
    <3> QED
      BY <3>1, ConstantFacts, U32Int DEF ExpandBy, Max2, U32Type
  <2>2. NetType' /\ AdjustType'
    <3>1. CASE UNCHANGED <<remote_window_size, read_state, adjVars, netVars>>
      BY <3>1 DEF TypeOK, NetType, AdjustType, adjVars, netVars
    <3>2. CASE \E rc \in {"ok", "EAGAIN", "error"} :
                  ReceiveWindowAdjust(remote_window_size, ExpandBy, FALSE, rc)
      BY <3>2, <2>1, AdjustCallTyped
    <3> QED
      BY <1>2, <3>1, <3>2 DEF ReadExpand
  <2>3. RecvType' /\ FlagType' /\ PeerType'
    BY <1>2 DEF ReadExpand, TypeOK, RecvType, FlagType, PeerType, recvVars,
                flagVars, peerVars
  <2>5. CallType'
    <3>1. read_state' \in {"idle", "jump1"}
      BY <1>2 DEF ReadExpand, TypeOK, CallType
    <3> QED
      BY <1>2, <3>1 DEF ReadExpand, TypeOK, CallType, flushVars, writeVars
  <2>4. ControlType'
    BY <1>0, <1>2, GotoTyped, AgainTyped, ReturnTyped DEF ReadExpand, Pcs
  <2> QED
    BY <2>2, <2>3, <2>4, <2>5 DEF TypeOK
<1>3. CASE ReadDrain
  <2>1. /\ NetType' /\ AdjustType' /\ RecvType' /\ FlagType' /\ PeerType'
        /\ UNCHANGED <<ignore_mode, read_state, bytes_read, flushVars, writeVars>>
    BY <1>3, ReadTyped DEF ReadDrain
  <2>2. CallType'
    BY <2>1 DEF TypeOK, CallType, flushVars, writeVars
  <2>3. ControlType'
    BY <1>0, <1>3, GotoTyped, ReturnTyped DEF ReadDrain, Pcs
  <2> QED
    BY <2>1, <2>2, <2>3 DEF TypeOK
<1>4. CASE ReadCopy
  <2>1. NetType' /\ AdjustType' /\ FlagType' /\ PeerType' /\ ControlType'
    BY <1>4 DEF ReadCopy, TypeOK, NetType, AdjustType, FlagType, PeerType, ControlType,
                netVars, adjVars, flagVars, peerVars
  <2>2. PICK i \in DOMAIN packets : CopyFrom(i)
    BY <1>4 DEF ReadCopy
  <2> DEFINE want == Min2(call.n - bytes_read, packets[i].left)
  <2>3. packets[i] \in Queued /\ packets \in Seq(Queued)
    BY <2>2 DEF TypeOK, RecvType
  <2>a. want \in Nat /\ packets[i].left - want \in Nat
    <3>1. packets[i].left \in Nat
      BY <2>3 DEF Queued
    <3>2. call.n - bytes_read \in Nat
      BY <1>0, <1>4 DEF ReadCopy, TypeOK, CallType
    <3> QED
      BY <3>1, <3>2 DEF Min2
  <2>4. packets' \in Seq(Queued)
    <3>1. CASE packets' = Without(i)
      BY <3>1, <2>2, WithoutTyped DEF TypeOK
    <3>2. CASE packets' = [packets EXCEPT ![i].left = @ - want]
      <4> DEFINE p == [packets[i] EXCEPT !.left = @ - want]
      <4>1. p \in Queued
        BY <2>3, <2>a DEF Queued
      <4>2. packets' = [packets EXCEPT ![i] = p]
        BY <3>2
      <4> HIDE DEF p
      <4> QED
        BY <4>1, <4>2, <2>3
    <3> QED
      BY <2>2, <3>1, <3>2 DEF CopyFrom
  <2>b. taken' \in [Streams -> Int]
    <3>1. /\ taken' = [taken EXCEPT ![packets[i].stream] = @ + want]
          /\ taken \in [Streams -> Int] /\ packets[i].stream \in Streams
      BY <2>2, <2>3 DEF CopyFrom, TypeOK, RecvType, Queued
    <3> HIDE DEF want
    <3> QED
      BY <3>1, <2>a
  <2>5. RecvType'
    BY <1>4, <2>4, <2>b DEF ReadCopy, TypeOK, RecvType
  <2>6. CallType'
    BY <1>4, <2>2, <2>a DEF ReadCopy, CopyFrom, TypeOK, CallType, flushVars, writeVars
  <2> QED
    BY <2>1, <2>5, <2>6 DEF TypeOK
<1>5. CASE ReadReturn
  <2>1. NetType' /\ FlagType' /\ PeerType' /\ CallType'
    BY <1>5 DEF ReadReturn, TypeOK, NetType, FlagType, PeerType, CallType,
                netVars, flagVars, peerVars, flushVars, writeVars
  <2>2. remote_window_size' \in Int /\ read_avail' \in Int
    BY <1>5, ConstantFacts DEF ReadReturn, TypeOK, AdjustType, RecvType, CallType, Sub32
  <2>4. AdjustType' /\ RecvType'
    BY <1>5, <2>2 DEF ReadReturn, TypeOK, AdjustType, RecvType, CallType, adjVars
  <2>3. ControlType'
    BY <1>0, <1>5, AgainTyped, ReturnTyped DEF ReadReturn, Pcs
  <2> QED
    BY <2>1, <2>4, <2>3 DEF TypeOK
<1>6. CASE WriteDrain
  <2>1. /\ NetType' /\ AdjustType' /\ RecvType' /\ FlagType' /\ PeerType'
        /\ UNCHANGED <<ignore_mode, read_state, bytes_read, flushVars, writeVars>>
    BY <1>6, ReadTyped DEF WriteDrain
  <2>2. CallType'
    BY <2>1 DEF TypeOK, CallType, flushVars, writeVars
  <2>3. ControlType'
    BY <1>0, <1>6, GotoTyped, ReturnTyped DEF WriteDrain, Pcs
  <2> QED
    BY <2>1, <2>2, <2>3 DEF TypeOK
<1>7. CASE WriteFit
  <2>1. NetType' /\ AdjustType' /\ RecvType' /\ FlagType' /\ PeerType'
    BY <1>7 DEF WriteFit, TypeOK, NetType, AdjustType, RecvType, FlagType, PeerType,
                netVars, adjVars, recvVars, flagVars, peerVars
  <2>2. write_state' \in {"idle", "created"} /\ write_bufwrite' \in Nat
    <3>1. local_window_size > 0 =>
             Min2(Min2(call.n, local_window_size), PacketSize) \in Nat
      BY <1>0, ConstantFacts DEF TypeOK, RecvType, Min2
    <3> QED
      BY <1>7, <3>1 DEF WriteFit, TypeOK, CallType, writeVars
  <2>3. CallType'
    BY <1>7, <2>2 DEF WriteFit, TypeOK, CallType, flushVars
  <2>4. ControlType'
    BY <1>0, <1>7, GotoTyped, AgainTyped DEF WriteFit, Pcs
  <2> QED
    BY <2>1, <2>3, <2>4 DEF TypeOK
<1>8. CASE WriteSend
  <2>1. NetType'
    <3>1. [kind |-> "data", n |-> write_bufwrite] \in Packet
      BY DEF TypeOK, CallType, Packet, SendKinds
    <3> QED
      BY <1>8, <3>1, SendType DEF WriteSend, TypeOK
  <2>2. AdjustType' /\ FlagType' /\ PeerType'
    BY <1>8 DEF WriteSend, TypeOK, AdjustType, FlagType, PeerType, adjVars, flagVars, peerVars
  <2>3. RecvType'
    <3>1. local_window_size' \in Int
      BY <1>8 DEF WriteSend, TypeOK, RecvType, CallType
    <3> QED
      BY <1>8, <3>1 DEF WriteSend, TypeOK, RecvType
  <2>4. CallType'
    <3>1. write_state' \in {"idle", "created"} /\ write_bufwrite' \in Nat
      BY <1>8 DEF WriteSend, TypeOK, CallType, writeVars
    <3> QED
      BY <1>8, <3>1 DEF WriteSend, TypeOK, CallType, flushVars
  <2>5. ControlType'
    BY <1>0, <1>8, AgainTyped, ReturnTyped DEF WriteSend, Pcs
  <2> QED
    BY <2>1, <2>2, <2>3, <2>4, <2>5 DEF TypeOK
<1>9. CASE FlushScan
  <2>1. NetType' /\ AdjustType' /\ FlagType' /\ PeerType'
    BY <1>9 DEF FlushScan, TypeOK, NetType, AdjustType, FlagType, PeerType,
                netVars, adjVars, flagVars, peerVars
  <2>2. ControlType'
    BY <1>9 DEF FlushScan, TypeOK, ControlType, Pcs
  <2>3. ASSUME NEW i \in DOMAIN packets
        PROVE  /\ Without(i) \in Seq(Queued) /\ packets[i].left \in Nat
               /\ U32(flush_refund_bytes + RefundOf(packets[i])) \in Int
    <3>1. packets[i] \in Queued
      BY DEF TypeOK, RecvType
    <3>2. flush_refund_bytes + RefundOf(packets[i]) \in Int
      BY <3>1, ConstantFacts DEF RefundOf, Queued, TypeOK, CallType
    <3> QED
      BY <3>1, <3>2, WithoutTyped, U32Int DEF Queued, U32Type, TypeOK
  <2>4. RecvType'
    <3>1. packets' \in Seq(Queued)
      BY <1>9, <2>3 DEF FlushScan, TypeOK, RecvType
    <3>2. taken' \in [Streams -> Int]
      BY <1>9, <2>3 DEF FlushScan, TypeOK, RecvType
    <3> QED
      BY <1>9, <3>1, <3>2 DEF FlushScan, TypeOK, RecvType
  <2>5. CallType'
    <3>1. /\ flush_state' \in {"idle", "created"}
          /\ flush_refund_bytes' \in Int /\ flush_flush_bytes' \in Nat
      BY <1>9, <2>3 DEF FlushScan, TypeOK, CallType
    <3> QED
      BY <1>9, <3>1 DEF FlushScan, TypeOK, CallType, writeVars
  <2> QED
    BY <2>1, <2>2, <2>4, <2>5 DEF TypeOK
<1>10. CASE FlushRefund
  <2>1. /\ U32(remote_window_size - flush_flush_bytes) \in Int
        /\ U32(read_avail - flush_flush_bytes) \in Int
        /\ flush_refund_bytes \in Int
    <3>1. remote_window_size - flush_flush_bytes \in Int
          /\ read_avail - flush_flush_bytes \in Int
      BY DEF TypeOK, AdjustType, RecvType, CallType
    <3> QED
      BY <3>1, U32Int DEF U32Type, TypeOK, CallType
  <2>2. NetType' /\ AdjustType'
    <3>1. CASE /\ remote_window_size' = U32(remote_window_size - flush_flush_bytes)
               /\ UNCHANGED <<adjVars, netVars>>
      BY <3>1, <2>1 DEF TypeOK, NetType, AdjustType, adjVars, netVars
    <3>2. CASE \E rc \in {"ok", "EAGAIN", "error"} :
                 ReceiveWindowAdjust(U32(remote_window_size - flush_flush_bytes),
                                     flush_refund_bytes, TRUE, rc)
      BY <3>2, <2>1, AdjustTyped DEF TypeOK
    <3> QED
      BY <1>10, <3>1, <3>2 DEF FlushRefund
  <2>3. RecvType'
    BY <1>10, <2>1 DEF FlushRefund, TypeOK, RecvType
  <2>4. FlagType' /\ PeerType'
    BY <1>10 DEF FlushRefund, TypeOK, FlagType, PeerType, flagVars, peerVars
  <2>5. CallType'
    <3>1. flush_state' \in {"idle", "created"}
      BY <1>10 DEF FlushRefund, TypeOK, CallType
    <3> QED
      BY <1>10, <3>1 DEF FlushRefund, TypeOK, CallType, writeVars
  <2>6. ControlType'
    BY <1>0, <1>10, AgainTyped, ReturnTyped DEF FlushRefund, Pcs
  <2> QED
    BY <2>2, <2>3, <2>4, <2>5, <2>6 DEF TypeOK
<1>11. CASE AdjustStep
  <2>1. NetType' /\ AdjustType'
    BY <1>0, <1>11, AdjustCallTyped DEF AdjustStep
  <2>2. RecvType' /\ FlagType' /\ PeerType' /\ CallType'
    BY <1>11 DEF AdjustStep, TypeOK, RecvType, FlagType, PeerType, CallType, recvVars,
                flagVars, peerVars, flushVars, writeVars
  <2>3. ControlType'
    BY <1>0, <1>11, AgainTyped, ReturnTyped DEF AdjustStep, Pcs
  <2> QED
    BY <2>1, <2>2, <2>3 DEF TypeOK
<1>e. ASSUME NEW rc, SendEof(rc)
      PROVE  NetType' /\ local_eof' \in BOOLEAN
  <2>1. [kind |-> "eof", n |-> 0] \in Packet
    BY DEF Packet, SendKinds
  <2>2. NetType'
    BY <1>e, <2>1, SendType DEF SendEof, TypeOK
  <2>3. local_eof' \in BOOLEAN
    BY <1>e DEF SendEof
  <2> QED
    BY <2>2, <2>3
<1>f. ASSUME EndFrame
      PROVE  AdjustType' /\ RecvType' /\ PeerType' /\ CallType'
  BY <1>f DEF EndFrame, TypeOK, AdjustType, RecvType, PeerType, CallType, adjVars,
              recvVars, peerVars, flushVars, writeVars
<1>12. CASE EofStep
  <2>1. AdjustType' /\ RecvType' /\ PeerType' /\ CallType'
    BY <1>12, <1>f DEF EofStep
  <2>2. NetType' /\ local_eof' \in BOOLEAN
    BY <1>12, <1>e DEF EofStep
  <2>3. FlagType'
    BY <1>12, <2>2 DEF EofStep, TypeOK, FlagType
  <2>4. ControlType'
    BY <1>0, <1>12, AgainTyped, ReturnTyped DEF EofStep, Pcs
  <2> QED
    BY <2>1, <2>2, <2>3, <2>4 DEF TypeOK
<1>13. CASE CloseEnter
  <2>1. AdjustType' /\ RecvType' /\ PeerType' /\ CallType'
    BY <1>13, <1>f DEF CloseEnter
  <2>2. NetType' /\ local_eof' \in BOOLEAN
    <3>1. CASE UNCHANGED <<local_eof, netVars>>
      BY <3>1 DEF TypeOK, NetType, FlagType, netVars
    <3>2. CASE \E rc \in {"ok", "EAGAIN", "error"} : SendEof(rc)
      BY <3>2, <1>e
    <3> QED
      BY <1>13, <3>1, <3>2 DEF CloseEnter
  <2>3. FlagType'
    BY <1>13, <2>2 DEF CloseEnter, TypeOK, FlagType
  <2>4. ControlType'
    BY <1>0, <1>13, GotoTyped, AgainTyped, ReturnTyped DEF CloseEnter, Pcs
  <2> QED
    BY <2>1, <2>2, <2>3, <2>4 DEF TypeOK
<1>14. CASE CloseSend
  <2>1. AdjustType' /\ RecvType' /\ PeerType' /\ CallType'
    BY <1>14, <1>f DEF CloseSend
  <2>2. NetType'
    <3>1. CASE UNCHANGED netVars
      BY <3>1 DEF TypeOK, NetType, netVars
    <3>2. CASE \E s \in SendResults : TransportSend([kind |-> "close", n |-> 0], s)
      <4>1. [kind |-> "close", n |-> 0] \in Packet
        BY DEF Packet, SendKinds
      <4> QED
        BY <3>2, <4>1, SendType DEF TypeOK
    <3> QED
      BY <1>14, <3>1, <3>2 DEF CloseSend
  <2>3. FlagType'
    BY <1>14 DEF CloseSend, TypeOK, FlagType
  <2>4. ControlType'
    BY <1>0, <1>14, GotoTyped, AgainTyped DEF CloseSend, Pcs
  <2> QED
    BY <2>1, <2>2, <2>3, <2>4 DEF TypeOK
<1>r. ASSUME \E rc \in ReadResults : TransportRead(rc)
      PROVE  NetType' /\ AdjustType' /\ RecvType' /\ FlagType' /\ PeerType' /\ CallType'
  <2>1. /\ NetType' /\ AdjustType' /\ RecvType' /\ FlagType' /\ PeerType'
        /\ UNCHANGED <<ignore_mode, read_state, bytes_read, flushVars, writeVars>>
    BY <1>r, ReadTyped
  <2> QED
    BY <2>1 DEF TypeOK, CallType, flushVars, writeVars
<1>q. ASSUME EndFrame, UNCHANGED <<flagVars, netVars>>
      PROVE  NetType' /\ AdjustType' /\ RecvType' /\ FlagType' /\ PeerType' /\ CallType'
  BY <1>q, <1>f DEF TypeOK, NetType, FlagType, flagVars, netVars
<1>15. CASE CloseWait
  <2>1. NetType' /\ AdjustType' /\ RecvType' /\ FlagType' /\ PeerType' /\ CallType'
    BY <1>15, <1>r, <1>q DEF CloseWait
  <2>2. ControlType'
    BY <1>0, <1>15, GotoTyped, AgainTyped DEF CloseWait, Pcs
  <2> QED
    BY <2>1, <2>2 DEF TypeOK
<1>16. CASE CloseDone
  <2>1. AdjustType' /\ RecvType' /\ PeerType' /\ CallType'
    BY <1>16, <1>f DEF CloseDone
  <2>2. NetType' /\ FlagType'
    BY <1>16 DEF CloseDone, TypeOK, NetType, FlagType, netVars
  <2>3. ControlType'
    BY <1>0, <1>16, GotoTyped, ReturnTyped DEF CloseDone, Pcs
  <2> QED
    BY <2>1, <2>2, <2>3 DEF TypeOK
<1>17. CASE FreeStep
  <2>1. NetType' /\ AdjustType' /\ FlagType' /\ PeerType' /\ CallType'
    BY <1>17 DEF FreeStep, TypeOK, NetType, AdjustType, FlagType, PeerType, CallType,
                 netVars, adjVars, peerVars, flushVars, writeVars
  <2>2. RecvType'
    BY <1>17 DEF FreeStep, TypeOK, RecvType
  <2>3. ControlType'
    BY <1>0, <1>17, ReturnTyped DEF FreeStep
  <2> QED
    BY <2>1, <2>2, <2>3 DEF TypeOK
<1>18. CASE WaitEof
  <2>1. NetType' /\ AdjustType' /\ RecvType' /\ FlagType' /\ PeerType' /\ CallType'
    BY <1>18, <1>r, <1>q DEF WaitEof
  <2>2. ControlType'
    BY <1>0, <1>18, GotoTyped, AgainTyped, ReturnTyped DEF WaitEof, Pcs
  <2> QED
    BY <2>1, <2>2 DEF TypeOK
<1>19. CASE WaitClosed
  <2>1. NetType' /\ AdjustType' /\ RecvType' /\ FlagType' /\ PeerType' /\ CallType'
    BY <1>19, <1>r, <1>q DEF WaitClosed
  <2>2. ControlType'
    BY <1>0, <1>19, GotoTyped, AgainTyped, ReturnTyped DEF WaitClosed, Pcs
  <2> QED
    BY <2>1, <2>2 DEF TypeOK
<1> QED
  BY <1>1, <1>2, <1>3, <1>4, <1>5, <1>6, <1>7, <1>8, <1>9, <1>10, <1>11, <1>12, <1>13,
     <1>14, <1>15, <1>16, <1>17, <1>18, <1>19 DEF Steps

\* A call that returns at once keeps the control state well formed,
LEMMA QuickTyped ==
    ASSUME ControlType, NEW op, NEW s, NEW rc, NEW val, Quick(op, s, rc, val)
    PROVE  ControlType'
  BY DEF ControlType, Quick

\* and so does a call that begins.
LEMMA StartTyped ==
    ASSUME NEW op \in AllOps, NEW s \in Streams \cup {2}, NEW n \in Nat, NEW at \in Pcs,
           Start(op, s, n, at)
    PROVE  ControlType'
  BY DEF ControlType, Start

ClientTyped == NetType /\ AdjustType /\ RecvType /\ CallType /\ FlagType /\ PeerType

\* Every call of the application keeps TypeOK.
LEMMA CallTyped ==
    ASSUME TypeOK, Calls
    PROVE  TypeOK'
<1>0. ControlType
  BY DEF TypeOK
<1>f. ASSUME UNCHANGED <<remote_window_size, ignore_mode, read_state, bytes_read, adjVars,
                         flushVars, writeVars, flagVars, recvVars, netVars, peerVars>>
      PROVE  ClientTyped'
  <2>1. NetType' /\ AdjustType' /\ RecvType'
    BY <1>f DEF TypeOK, NetType, AdjustType, RecvType, netVars, adjVars, recvVars
  <2>2. CallType' /\ FlagType' /\ PeerType'
    BY <1>f DEF TypeOK, CallType, FlagType, PeerType, flagVars, flushVars, writeVars,
                peerVars
  <2> QED
    BY <2>1, <2>2 DEF ClientTyped
<1>s. ASSUME NEW op \in AllOps, NEW at \in Pcs, Simple(op, at)
      PROVE  TypeOK'
  <2>1. ClientTyped'
    BY <1>s, <1>f DEF Simple
  <2>2. ControlType'
    BY <1>s, StartTyped DEF Simple, Streams
  <2> QED
    BY <2>1, <2>2 DEF TypeOK, ClientTyped
<1>1. ASSUME NEW s \in ReadStreams, NEW n \in ReadSizes, CallRead(s, n)
      PROVE  TypeOK'
  <2>1. ClientTyped'
    BY <1>1, <1>f DEF CallRead
  <2>2. n \in Nat /\ s \in Streams \cup {2}
    BY ConstantFacts
  <2>3. ControlType'
    BY <1>1, <2>2, StartTyped DEF CallRead, AllOps, Pcs
  <2> QED
    BY <2>1, <2>3 DEF TypeOK, ClientTyped
<1>2. ASSUME NEW n \in WriteSizes, CallWrite(n)
      PROVE  TypeOK'
  <2>1. ClientTyped'
    BY <1>2, <1>f DEF CallWrite
  <2>2. n \in Nat /\ 0 \in Streams \cup {2}
    BY ConstantFacts DEF Streams
  <2>3. ControlType'
    BY <1>0, <1>2, <2>2, StartTyped, QuickTyped DEF CallWrite, AllOps, Pcs
  <2> QED
    BY <2>1, <2>3 DEF TypeOK, ClientTyped
<1>3. ASSUME NEW s \in Streams \cup {2}, CallFlush(s)
      PROVE  TypeOK'
  <2>1. NetType' /\ AdjustType' /\ RecvType' /\ FlagType' /\ PeerType'
    BY <1>3 DEF CallFlush, TypeOK, NetType, AdjustType, RecvType, FlagType, PeerType,
                netVars, adjVars, recvVars, flagVars, peerVars
  <2>2. CallType'
    BY <1>3 DEF CallFlush, TypeOK, CallType, flushVars, writeVars
  <2>3. ControlType'
    BY <1>3, StartTyped DEF CallFlush, AllOps, Pcs
  <2> QED
    BY <2>1, <2>2, <2>3 DEF TypeOK
<1>4. ASSUME NEW n \in AdjustSizes, NEW op \in {"adjust", "adjust_queued"},
             CallAdjust(n, op)
      PROVE  TypeOK'
  <2>1. ClientTyped'
    BY <1>4, <1>f DEF CallAdjust
  <2>2. n \in Nat /\ 0 \in Streams \cup {2} /\ op \in AllOps
    BY ConstantFacts DEF Streams, AllOps
  <2>3. ControlType'
    BY <1>4, <2>2, StartTyped DEF CallAdjust, Pcs
  <2> QED
    BY <2>1, <2>3 DEF TypeOK, ClientTyped
<1>5. ASSUME NEW m \in Modes, CallMode(m)
      PROVE  TypeOK'
  <2>1. NetType' /\ AdjustType' /\ RecvType' /\ FlagType' /\ PeerType'
    BY <1>5 DEF CallMode, TypeOK, NetType, AdjustType, RecvType, FlagType, PeerType,
                netVars, adjVars, recvVars, flagVars, peerVars
  <2>2. CallType'
    BY <1>5, ConstantFacts DEF CallMode, TypeOK, CallType, flushVars, writeVars
  <2>3. ControlType'
    BY <1>0, <1>5, QuickTyped DEF CallMode
  <2> QED
    BY <2>1, <2>2, <2>3 DEF TypeOK
<1>6. CASE CallWindowRead
  <2>1. ClientTyped'
    BY <1>6, <1>f DEF CallWindowRead
  <2>2. ControlType'
    BY <1>0, <1>6, QuickTyped DEF CallWindowRead
  <2> QED
    BY <2>1, <2>2 DEF TypeOK, ClientTyped
<1>7. CASE CallSendEof
  BY <1>7, <1>s DEF CallSendEof, AllOps, Pcs
<1>8. CASE CallClose
  BY <1>8, <1>s DEF CallClose, AllOps, Pcs
<1>9. CASE CallFree
  BY <1>9, <1>s DEF CallFree, AllOps, Pcs
<1>10. CASE CallWaitEof
  BY <1>10, <1>s DEF CallWaitEof, AllOps, Pcs
<1>11. CASE CallWaitClosed
  <2>1. CASE Simple("wait_closed", "wait_closed")
    BY <2>1, <1>s DEF AllOps, Pcs
  <2>2. CASE ~Simple("wait_closed", "wait_closed")
    <3>1. ClientTyped'
      BY <1>11, <2>2, <1>f DEF CallWaitClosed
    <3>2. ControlType'
      BY <1>0, <1>11, <2>2, QuickTyped DEF CallWaitClosed
    <3> QED
      BY <3>1, <3>2 DEF TypeOK, ClientTyped
  <2> QED
    BY <2>1, <2>2
<1> QED
  BY <1>1, <1>2, <1>3, <1>4, <1>5, <1>6, <1>7, <1>8, <1>9, <1>10, <1>11 DEF Calls

\* Delivery by a call on another channel keeps TypeOK.
LEMMA PumpTyped ==
    ASSUME TypeOK, Pump
    PROVE  TypeOK'
<1>1. /\ NetType' /\ AdjustType' /\ RecvType' /\ FlagType' /\ PeerType'
      /\ UNCHANGED <<ignore_mode, read_state, bytes_read, flushVars, writeVars>>
  BY ReadTyped DEF Pump
<1>2. CallType'
  BY <1>1 DEF TypeOK, CallType, flushVars, writeVars
<1>3. ControlType'
  BY DEF Pump, TypeOK, ControlType
<1> QED
  BY <1>1, <1>2, <1>3 DEF TypeOK

\* What the peer does not touch keeps its types.
LEMMA PeerFrame ==
    ASSUME TypeOK, UNCHANGED clientVars
    PROVE  /\ AdjustType' /\ ControlType' /\ CallType' /\ FlagType'
           /\ read_avail' \in Int /\ local_window_size' \in Int
           /\ remote_eof' \in BOOLEAN /\ remote_close' \in BOOLEAN
           /\ disconnected' \in BOOLEAN
           /\ packets' \in Seq(Queued)
           /\ packAdd' \in [point : {"idle", "jump1", "jump4"}, n : Nat]
           /\ received' \in Int /\ dropped' \in Int
           /\ arrived' \in [Streams -> Int] /\ taken' \in [Streams -> Int]
<1>1. AdjustType' /\ ControlType' /\ CallType' /\ FlagType'
  BY DEF clientVars, TypeOK, AdjustType, ControlType, CallType, FlagType, adjVars,
         flushVars, writeVars, flagVars
<1> QED
  BY <1>1 DEF clientVars, TypeOK, RecvType

\* A packet of the peer keeps TypeOK.
LEMMA SaysTyped ==
    ASSUME TypeOK, NEW kind \in {"data", "eof", "close", "adjust", "request", "kexinit"},
           NEW s \in Streams, NEW n \in Nat, PeerSays(kind, s, n),
           peerSent' \in Int, peerGranted' \in Int, kex' \in {"no", "sent", "active"},
           peerDone' \subseteq {"eof", "close"}, requests' \in Nat, rekeys' \in Nat
    PROVE  TypeOK'
<1>1. /\ UNCHANGED clientVars /\ UNCHANGED netVars
      /\ UNCHANGED <<link, peerAllowed>>
  BY DEF PeerSays
<1>2. toClient' \in Seq(Inbound)
  <2> DEFINE m == [kind |-> kind, stream |-> s, n |-> n, sent |-> peerSent',
                   granted |-> peerGranted']
  <2>1. m \in Inbound
    BY DEF Inbound
  <2>2. toClient \in Seq(Inbound) /\ toClient' = Append(toClient, m)
    BY DEF TypeOK, RecvType, PeerSays
  <2> HIDE DEF m
  <2> QED
    BY <2>1, <2>2
<1>3. NetType'
  BY <1>1 DEF TypeOK, NetType, netVars
<1>4. PeerType'
  BY <1>1 DEF TypeOK, PeerType
<1>5. RecvType'
  BY <1>1, <1>2, PeerFrame DEF RecvType
<1> QED
  BY <1>1, <1>3, <1>4, <1>5, PeerFrame DEF TypeOK

\* The peer, the key exchange and the loss of the connection keep TypeOK.
LEMMA PeerTyped ==
    ASSUME TypeOK, Peer \/ LoseLink
    PROVE  TypeOK'
<1>0. PeerType /\ kex \in {"no", "sent", "active"}
  BY DEF TypeOK, RecvType
<1>1. ASSUME NEW s \in PeerStreams, NEW n \in DataSizes, PeerData(s, n)
      PROVE  TypeOK'
  <2>1. n \in Nat /\ s \in Streams
    BY ConstantFacts
  <2>2. /\ peerSent' \in Int /\ peerGranted' \in Int /\ kex' \in {"no", "sent", "active"}
        /\ peerDone' \subseteq {"eof", "close"} /\ requests' \in Nat /\ rekeys' \in Nat
    BY <1>0, <1>1, <2>1 DEF PeerData, PeerType
  <2> QED
    BY <1>1, <2>1, <2>2, SaysTyped DEF PeerData
<1>2. ASSUME NEW kind \in {"eof", "close"}, PeerEnds(kind)
      PROVE  TypeOK'
  <2>1. /\ peerSent' \in Int /\ peerGranted' \in Int /\ kex' \in {"no", "sent", "active"}
        /\ peerDone' \subseteq {"eof", "close"} /\ requests' \in Nat /\ rekeys' \in Nat
    BY <1>0, <1>2 DEF PeerEnds, PeerType
  <2> QED
    BY <1>2, <2>1, SaysTyped DEF PeerEnds, Streams
<1>3. CASE PeerReceive
  <2>1. /\ UNCHANGED clientVars
        /\ UNCHANGED <<kex, toClient, odata, granted, written, onWire, link,
                       peerSent, peerGranted, peerDone, requests, rekeys>>
        /\ toPeer # <<>> /\ toPeer' = Tail(toPeer)
        /\ peerAllowed' = peerAllowed +
              (IF Head(toPeer).kind = "adjust" THEN Head(toPeer).n ELSE 0)
    BY <1>3 DEF PeerReceive
  <2>2. toPeer \in Seq(Outbound)
    BY DEF TypeOK, NetType
  <2>3. toPeer' \in Seq(Outbound) /\ Head(toPeer) \in Outbound
    BY <2>1, <2>2
  <2>4. Head(toPeer).n \in Int
    BY <2>3 DEF Outbound
  <2>5. NetType'
    BY <2>1, <2>3 DEF TypeOK, NetType
  <2>6. PeerType'
    BY <1>0, <2>1, <2>4 DEF PeerType
  <2>7. RecvType'
    BY <2>1, PeerFrame DEF TypeOK, RecvType
  <2> QED
    BY <2>1, <2>5, <2>6, <2>7, PeerFrame DEF TypeOK
<1>4. CASE KexDone
  <2>1. UNCHANGED clientVars
    BY <1>4 DEF KexDone
  <2>2. NetType' /\ PeerType'
    BY <1>4 DEF KexDone, TypeOK, NetType, PeerType, netVars, peerVars
  <2>3. RecvType'
    BY <1>4, <2>1, PeerFrame DEF KexDone, TypeOK, RecvType
  <2> QED
    BY <2>1, <2>2, <2>3, PeerFrame DEF TypeOK
<1>5. ASSUME NEW n \in GrantSizes, PeerGrant(n)
      PROVE  TypeOK'
  <2>1. n \in Nat
    BY ConstantFacts
  <2>2. /\ peerSent' \in Int /\ peerGranted' \in Int /\ kex' \in {"no", "sent", "active"}
        /\ peerDone' \subseteq {"eof", "close"} /\ requests' \in Nat /\ rekeys' \in Nat
    BY <1>0, <1>5, <2>1 DEF PeerGrant, PeerType
  <2> QED
    BY <1>5, <2>1, <2>2, SaysTyped DEF PeerGrant, Streams
<1>6. CASE PeerRequest
  <2>1. /\ peerSent' \in Int /\ peerGranted' \in Int /\ kex' \in {"no", "sent", "active"}
        /\ peerDone' \subseteq {"eof", "close"} /\ requests' \in Nat /\ rekeys' \in Nat
    BY <1>0, <1>6 DEF PeerRequest, PeerType
  <2> QED
    BY <1>6, <2>1, SaysTyped DEF PeerRequest, Streams
<1>7. CASE PeerRekey
  <2>1. /\ peerSent' \in Int /\ peerGranted' \in Int /\ kex' \in {"no", "sent", "active"}
        /\ peerDone' \subseteq {"eof", "close"} /\ requests' \in Nat /\ rekeys' \in Nat
    BY <1>0, <1>7 DEF PeerRekey, PeerType
  <2> QED
    BY <1>7, <2>1, SaysTyped DEF PeerRekey, Streams
<1>8. CASE LoseLink
  <2>1. UNCHANGED clientVars
    BY <1>8 DEF LoseLink
  <2>2. NetType' /\ PeerType'
    BY <1>8 DEF LoseLink, TypeOK, NetType, PeerType, netVars
  <2>3. RecvType'
    BY <1>8, <2>1, PeerFrame DEF LoseLink, TypeOK, RecvType
  <2> QED
    BY <2>1, <2>2, <2>3, PeerFrame DEF TypeOK
<1> QED
  BY <1>1, <1>2, <1>3, <1>4, <1>5, <1>6, <1>7, <1>8 DEF Peer, PeerSend

\* Type correctness of the channel code for every value of the constants: every
\* counter stays a number, every queued or half-sent packet keeps the fields that
\* read(), write(), flush() and transport_send() take from it.
THEOREM TypeCorrect == Spec => []TypeOK
<1>1. Init => TypeOK
  <2>0. Init => toPeer \in Seq(Outbound) /\ toClient \in Seq(Inbound) /\ packets \in Seq(Queued)
    BY DEF Init
  <2>1. Init => NetType
    BY <2>0, ConstantFacts DEF Init, NetType
  <2>4. Init => AdjustType
    BY ConstantFacts DEF Init, AdjustType
  <2>5. Init => RecvType
    <3>1. [point |-> "idle", n |-> 0] \in [point : {"idle", "jump1", "jump4"}, n : Nat]
      OBVIOUS
    <3>2. Init => /\ read_avail \in Int /\ local_window_size \in Int
                  /\ received \in Int /\ dropped \in Int
                  /\ arrived \in [Streams -> Int] /\ taken \in [Streams -> Int]
      BY ConstantFacts DEF Init
    <3>3. Init => /\ remote_eof \in BOOLEAN /\ remote_close \in BOOLEAN
                  /\ disconnected \in BOOLEAN /\ kex \in {"no", "sent", "active"}
                  /\ packAdd = [point |-> "idle", n |-> 0]
      BY DEF Init
    <3> QED
      BY <2>0, <3>1, <3>2, <3>3 DEF RecvType
  <2>2. Init => ControlType
    BY DEF Init, ControlType, NoCall, Pcs, Streams
  <2>3. Init => CallType
    BY DEF Init, CallType, AllModes
  <2>6. Init => FlagType
    BY DEF Init, FlagType
  <2>7. Init => PeerType
    BY ConstantFacts DEF Init, PeerType
  <2> QED
    BY <2>1, <2>2, <2>3, <2>4, <2>5, <2>6, <2>7 DEF TypeOK
<1>2. TypeOK /\ [Next]_vars => TypeOK'
  <2> SUFFICES ASSUME TypeOK, [Next]_vars
               PROVE  TypeOK'
    OBVIOUS
  <2>1. CASE UNCHANGED vars
    <3>1. NetType' /\ AdjustType' /\ RecvType'
      BY <2>1 DEF vars, TypeOK, NetType, AdjustType, RecvType, netVars, adjVars, recvVars
    <3>2. ControlType' /\ CallType' /\ FlagType' /\ PeerType'
      BY <2>1 DEF vars, TypeOK, ControlType, CallType, FlagType, PeerType, flagVars,
                  flushVars, writeVars, peerVars
    <3> QED
      BY <3>1, <3>2 DEF TypeOK
  <2> QED
    BY <2>1, StepTyped, CallTyped, PumpTyped, PeerTyped DEF Next
<1> QED
  BY <1>1, <1>2, PTL DEF Spec

\* A packet other than DATA adds nothing to what is written, and no DATA packet
\* becomes half sent by it.
LEMMA OtherSend ==
    ASSUME NetType, NEW m \in Packet, m.kind # "data", NEW rc, TransportSend(m, rc)
    PROVE  written' = written /\ (odata'.kind = "data" => odata' = odata)
<1>1. CASE UNCHANGED netVars
  BY <1>1 DEF netVars
<1>2. CASE ~UNCHANGED netVars
  <2> DEFINE x == IF odata = NoPacket THEN m ELSE odata
  <2>1. odata.kind \in {"none", m.kind} /\ (Carry(x) \/ (odata' = x /\ written' = written))
    BY <1>2 DEF TransportSend
  <2>2. x.kind # "data"
    BY <2>1 DEF NetType, NoPacket, SendKinds
  <2>3. written \in Int
    BY DEF NetType
  <2> QED
    BY <2>1, <2>2, <2>3 DEF Carry, NoPacket
<1> QED
  BY <1>1, <1>2

\* The same of a window adjustment,
LEMMA AdjustSend ==
    ASSUME NetType, AdjustType, NEW w \in Int, NEW adj \in Int, NEW force, NEW rc,
           ReceiveWindowAdjust(w, adj, force, rc)
    PROVE  written' = written /\ (odata'.kind = "data" => odata' = odata)
<1>1. CASE QueueAdjust(w, adj, force, rc)
  BY <1>1 DEF QueueAdjust, netVars
<1>2. CASE SendAdjust(w, adj, force, rc)
  <2> DEFINE fresh == adjust_state = "idle"
             total == IF fresh THEN U32(adj + adjust_queue) ELSE adj
             packet == IF fresh THEN total ELSE adjust_adjust
             m == [kind |-> "adjust", n |-> packet]
  <2>1. packet \in Int
    BY U32Int DEF AdjustType, U32Type
  <2>2. m \in Packet /\ m.kind # "data"
    BY <2>1 DEF Packet, SendKinds
  <2>3. \E s \in SendResults : TransportSend(m, s)
    BY <1>2 DEF SendAdjust
  <2> HIDE DEF m
  <2> QED
    BY <2>2, <2>3, OtherSend
<1> QED
  BY <1>1, <1>2 DEF ReceiveWindowAdjust

\* and of the reply to a channel request.
LEMMA ReplySend ==
    ASSUME TypeOK, NEW rc, Reply(rc)
    PROVE  written' = written /\ (odata'.kind = "data" => odata' = odata)
<1>1. [kind |-> "failure", n |-> 0] \in Packet
  BY DEF Packet, SendKinds
<1> QED
  BY <1>1, OtherSend DEF Reply, TypeOK

\* transport_read() writes no data, and the only packet that changes the window of
\* the peer is the WINDOW_ADJUST it takes from the wire.
LEMMA ReadSend ==
    ASSUME TypeOK, NEW rc, TransportRead(rc)
    PROVE  /\ written' = written /\ (odata'.kind = "data" => odata' = odata)
           /\ UNCHANGED <<write_state, write_bufwrite, link, peerGranted>>
           /\ \/ UNCHANGED <<toClient, local_window_size>>
              \/ /\ toClient # <<>> /\ toClient' = Tail(toClient)
                 /\ local_window_size' \in {local_window_size,
                                            local_window_size + Credit(Head(toClient))}
<1>1. UNCHANGED <<write_state, write_bufwrite, link, peerGranted>>
  BY DEF TransportRead, writeVars, peerVars
<1>2. CASE UNCHANGED <<recvVars, netVars>>
  BY <1>1, <1>2 DEF recvVars, netVars
<1>3. CASE PacketAddResume(rc) /\ UNCHANGED <<toClient, disconnected>>
  <2>1. UNCHANGED local_window_size
    BY <1>3 DEF PacketAddResume, Reply
  <2>2. written' = written /\ (odata'.kind = "data" => odata' = odata)
    <3>1. CASE Reply(rc)
      BY <3>1, ReplySend
    <3>2. CASE \E r \in {"ok", "EAGAIN", "error"} :
                 ReceiveWindowAdjust(remote_window_size, packAdd.n, TRUE, r)
      <4>1. remote_window_size \in Int /\ packAdd.n \in Int
        BY DEF TypeOK, RecvType, AdjustType
      <4> QED
        BY <3>2, <4>1, AdjustSend DEF TypeOK
    <3> QED
      BY <1>3, <3>1, <3>2 DEF PacketAddResume
  <2> QED
    BY <1>1, <1>3, <2>1, <2>2
<1>4. CASE /\ toClient # <<>> /\ PacketAdd(Head(toClient), rc)
           /\ toClient' = Tail(toClient) /\ UNCHANGED disconnected
  <2> DEFINE m == Head(toClient)
  <2>1. /\ m.n \in Nat
    <3>1. m \in Inbound
      BY <1>4 DEF TypeOK, RecvType
    <3> QED
      BY <3>1 DEF Inbound
  <2>2. local_window_size' \in {local_window_size, local_window_size + Credit(m)}
    BY <1>4 DEF PacketAdd, AddData, AddIgnored, AddFlag, AddEof, AddClose, AddWindowAdjust, AddUnknown, Reply, AddKexinit, Credit
  <2>3. written' = written /\ (odata'.kind = "data" => odata' = odata)
    <3>1. CASE Reply(rc)
      BY <3>1, ReplySend
    <3>2. CASE AddIgnored(m, rc)
      <4> DEFINE len == IF read_avail + m.n >= remote_window_size
                        THEN remote_window_size - read_avail ELSE m.n
      <4>1. len \in Int /\ remote_window_size - len \in Int
        BY <2>1 DEF TypeOK, RecvType, AdjustType
      <4>2. U32(remote_window_size - len) \in Int
        BY <4>1, U32Int DEF U32Type
      <4>3. \E r \in {"ok", "EAGAIN", "error"} :
               ReceiveWindowAdjust(U32(remote_window_size - len), len, TRUE, r)
        BY <3>2 DEF AddIgnored
      <4> QED
        BY <4>1, <4>2, <4>3, AdjustSend DEF TypeOK
    <3>3. CASE AddData(m) \/ AddFlag(m) \/ AddUnknown(m) \/ AddKexinit(m)
      BY <3>3 DEF AddData, AddFlag, AddEof, AddClose, AddWindowAdjust, AddUnknown, AddKexinit, netVars
    <3> QED
      BY <1>4, <3>1, <3>2, <3>3 DEF PacketAdd
  <2> QED
    BY <1>1, <1>4, <2>2, <2>3
<1>5. CASE UNCHANGED <<local_window_size, toClient, netVars>>
  BY <1>1, <1>5 DEF netVars
<1> QED
  BY <1>2, <1>3, <1>4, <1>5 DEF TransportRead

\* A step that leaves the send side alone keeps SendInv.
LEMMA SendKept ==
    ASSUME SendInv, UNCHANGED <<local_window_size, written, write_state, write_bufwrite,
                                toClient, peerGranted>>,
           odata'.kind = "data" => odata' = odata,
           link' => link,
           pc' = "wsend" => write_state = "created",
           pc' \in {"wdrain", "wfit"} => write_state = "idle"
    PROVE  SendInv'
<1>1. GrantStamps'
  BY DEF SendInv, GrantStamps, Credit
<1>2. WriteHeld'
  BY DEF SendInv, WriteHeld
<1> QED
  BY <1>1, <1>2 DEF SendInv

\* transport_read() keeps SendInv: the credit of the packet it takes was in the
\* stamps of the queue.
LEMMA ReadKept ==
    ASSUME TypeOK, SendInv, NEW rc, TransportRead(rc), pc' # "wsend",
           pc' \in {"wdrain", "wfit"} => write_state = "idle"
    PROVE  SendInv'
<1>1. /\ written' = written /\ (odata'.kind = "data" => odata' = odata)
      /\ UNCHANGED <<write_state, write_bufwrite, link, peerGranted>>
  BY ReadSend
<1>2. CASE UNCHANGED <<toClient, local_window_size>>
  BY <1>1, <1>2, SendKept
<1>3. CASE /\ toClient # <<>> /\ toClient' = Tail(toClient)
           /\ local_window_size' \in {local_window_size,
                                      local_window_size + Credit(Head(toClient))}
  <2>1. toClient \in Seq(Inbound) /\ Head(toClient) = toClient[1] /\ 1 \in DOMAIN toClient
    BY <1>3 DEF TypeOK, RecvType
  <2>2. \A i \in DOMAIN toClient : /\ Credit(toClient[i]) \in Nat
                                   /\ toClient[i].granted \in Int
    <3>1. \A i \in DOMAIN toClient : toClient[i] \in Inbound
      BY <2>1
    <3> QED
      BY <3>1 DEF Credit, Inbound
  <2>3. \A i \in DOMAIN toClient' : /\ i + 1 \in DOMAIN toClient /\ i + 1 > 1
                                    /\ toClient'[i] = toClient[i + 1]
    BY <1>3, <2>1
  <2>4. written \in Int /\ local_window_size \in Int /\ peerGranted \in Int
    BY DEF TypeOK, NetType, RecvType, PeerType
  <2>5. /\ local_window_size' >= local_window_size
        /\ local_window_size' <= local_window_size + Credit(toClient[1])
        /\ local_window_size' \in Int
    BY <1>3, <2>1, <2>2, <2>4
  <2>6. GrantStamps'
    <3>1. /\ written' + local_window_size' <= toClient[1].granted
          /\ toClient[1].granted <= peerGranted
      BY <1>1, <2>1, <2>2, <2>4, <2>5 DEF SendInv, GrantStamps
    <3>2. written' + local_window_size' <= peerGranted'
      <4> DEFINE g == toClient[1].granted
                 w == written'
                 l == local_window_size'
      <4>1. w + l <= g /\ g <= peerGranted
        BY <3>1
      <4>2. w \in Int /\ l \in Int /\ g \in Int /\ peerGranted \in Int
        BY <1>1, <2>1, <2>2, <2>4, <2>5
      <4> HIDE DEF g, w, l
      <4>3. w + l <= peerGranted
        BY <4>1, <4>2
      <4> QED
        BY <4>3, <1>1 DEF w, l
    <3>3. ASSUME NEW i \in DOMAIN toClient'
          PROVE  /\ toClient'[i].granted <= peerGranted'
                 /\ written' + local_window_size' + Credit(toClient'[i])
                      <= toClient'[i].granted
      <4>1. /\ toClient[i + 1].granted <= peerGranted
            /\ toClient[1].granted + Credit(toClient[i + 1]) <= toClient[i + 1].granted
        BY <2>1, <2>3 DEF SendInv, GrantStamps
      <4> DEFINE g == toClient[1].granted
                 h == toClient[i + 1].granted
                 c == Credit(toClient[i + 1])
                 w == written'
                 l == local_window_size'
      <4>2. i + 1 \in DOMAIN toClient /\ toClient'[i] = toClient[i + 1]
        BY <2>3
      <4>3. w \in Int /\ l \in Int /\ g \in Int /\ h \in Int /\ c \in Int
        BY <1>1, <2>1, <2>2, <2>4, <2>5, <4>2
      <4>4. w + l <= g /\ g + c <= h
        BY <3>1, <4>1
      <4> HIDE DEF g, h, c, w, l
      <4>5. w + l + c <= h
        BY <4>3, <4>4
      <4> QED
        BY <1>1, <4>1, <4>2, <4>5 DEF h, c, w, l
    <3>4. ASSUME NEW i \in DOMAIN toClient', NEW j \in DOMAIN toClient', i < j
          PROVE  toClient'[i].granted + Credit(toClient'[j]) <= toClient'[j].granted
      <4>0. i \in Int /\ j \in Int /\ i + 1 < j + 1
        BY <1>3, <2>1, <3>4
      <4> QED
        BY <2>3, <4>0 DEF SendInv, GrantStamps
    <3> QED
      BY <3>2, <3>3, <3>4 DEF GrantStamps, Credit
  <2>7. WriteHeld'
    BY <1>1, <2>4, <2>5 DEF SendInv, WriteHeld, TypeOK, CallType
  <2> QED
    BY <2>6, <2>7 DEF SendInv
<1> QED
  BY <1>2, <1>3, ReadSend

\* The steps that adjust the receive window keep SendInv.
LEMMA WindowCallKept ==
    ASSUME TypeOK, SendInv, NEW w \in Int, NEW adj \in Int, NEW force,
           \E rc \in {"ok", "EAGAIN", "error"} : ReceiveWindowAdjust(w, adj, force, rc),
           UNCHANGED <<local_window_size, writeVars, toClient, peerVars>>, pc' \notin {"wdrain", "wfit", "wsend"}
    PROVE  SendInv'
<1>1. written' = written /\ (odata'.kind = "data" => odata' = odata)
  BY AdjustSend DEF TypeOK
<1>2. /\ UNCHANGED <<local_window_size, write_state, write_bufwrite, toClient, peerGranted>>
      /\ link' => link
  BY DEF writeVars, peerVars
<1> QED
  BY <1>1, <1>2, SendKept

\* The send of a write keeps SendInv: local.window_size goes down by as much as the
\* half-sent packet has, whoever completes it.
LEMMA WriteSendKept ==
    ASSUME TypeOK, SendInv, WriteSend
    PROVE  SendInv'
<1>0. /\ toClient' = toClient /\ peerGranted' = peerGranted /\ link' = link
      /\ write_state = "created" /\ write_bufwrite <= local_window_size
      /\ write_bufwrite \in Nat /\ local_window_size \in Int /\ written \in Int
  BY DEF WriteSend, peerVars, SendInv, WriteHeld, TypeOK, CallType, RecvType, NetType
<1> DEFINE m == [kind |-> "data", n |-> write_bufwrite]
<1>1. m \in Packet
  BY <1>0 DEF Packet, SendKinds
<1>2. PICK s \in SendResults :
        /\ TransportSend(m, s)
        /\ \/ /\ s = "ok"
              /\ local_window_size' = local_window_size - write_bufwrite
              /\ write_state' = "idle" /\ pc' = "app"
           \/ /\ s = "EAGAIN" /\ pc' \in {"wsend", "app"}
              /\ UNCHANGED <<local_window_size, write_state, write_bufwrite>>
           \/ /\ s \in {"BAD_USE", "SOCKET_SEND"}
              /\ write_state' = "idle" /\ pc' = "app"
              /\ UNCHANGED local_window_size
  BY DEF WriteSend, Return, Again, Goto, writeVars
<1>3. CASE s = "ok"
  <2>1. /\ Carry(m) /\ link
    <3> DEFINE x == IF odata = NoPacket THEN m ELSE odata
    <3>1. link /\ Carry(x) /\ odata.kind \in {"none", m.kind}
      BY <1>2, <1>3 DEF TransportSend
    <3>2. x = m
      BY <3>1, <1>0 DEF SendInv, WriteHeld, TypeOK, NetType, NoPacket, SendKinds
    <3> QED
      BY <3>1, <3>2
  <2>2. /\ written' = written + write_bufwrite
        /\ odata'.kind = "none"
    BY <2>1 DEF Carry, NoPacket
  <2>3. /\ local_window_size' = local_window_size - write_bufwrite
        /\ write_state' = "idle" /\ pc' = "app"
    BY <1>2, <1>3
  <2>4. written' + local_window_size' = written + local_window_size
    BY <1>0, <2>2, <2>3
  <2>5. GrantStamps'
    BY <1>0, <2>4 DEF SendInv, GrantStamps, Credit
  <2>6. WriteHeld'
    BY <1>0, <2>2, <2>3 DEF WriteHeld
  <2> QED
    BY <2>5, <2>6 DEF SendInv
<1>4. CASE s = "EAGAIN"
  <2>1. /\ written' = written
        /\ odata' = odata \/ odata' = (IF odata = NoPacket THEN m ELSE odata)
    BY <1>2, <1>4 DEF TransportSend, netVars
  <2>2. /\ UNCHANGED <<local_window_size, write_state, write_bufwrite>>
        /\ pc' \in {"wsend", "app"}
    BY <1>2, <1>4
  <2>3. GrantStamps'
    BY <1>0, <2>1, <2>2 DEF SendInv, GrantStamps, Credit
  <2>4. WriteHeld'
    BY <1>0, <2>1, <2>2 DEF SendInv, WriteHeld
  <2> QED
    BY <2>3, <2>4 DEF SendInv
<1>5. CASE s \in {"BAD_USE", "SOCKET_SEND"}
  <2>1. /\ UNCHANGED netVars
        /\ s = "BAD_USE" => odata.kind # "data"
        /\ s = "SOCKET_SEND" => ~link
    BY <1>2, <1>5 DEF TransportSend, StackPackets
  <2>2. written' = written /\ odata' = odata /\ local_window_size' = local_window_size
        /\ write_state' = "idle" /\ pc' = "app"
    BY <1>2, <1>5, <2>1 DEF netVars
  <2>3. GrantStamps'
    BY <1>0, <2>2 DEF SendInv, GrantStamps, Credit
  <2>4. WriteHeld'
    BY <1>0, <1>5, <2>1, <2>2 DEF SendInv, WriteHeld
  <2> QED
    BY <2>3, <2>4 DEF SendInv
<1> QED
  BY <1>2, <1>3, <1>4, <1>5

\* Every step of a running call keeps SendInv.
LEMMA StepKeepsSend ==
    ASSUME TypeOK, SendInv, Steps
    PROVE  SendInv'
<1>0. /\ call.n \in Int /\ remote_window_size \in Int /\ flush_refund_bytes \in Int
      /\ local_window_size \in Int /\ written \in Int /\ peerGranted \in Int
  BY DEF TypeOK, ControlType, AdjustType, CallType, RecvType, NetType, PeerType
<1>f. ASSUME UNCHANGED <<local_window_size, writeVars, toClient, netVars, peerVars>>,
             pc' \notin {"wdrain", "wfit", "wsend"}
      PROVE  SendInv'
  <2>1. /\ UNCHANGED <<local_window_size, written, write_state, write_bufwrite,
                       toClient, peerGranted, odata>>
        /\ link' => link
    BY <1>f DEF writeVars, netVars, peerVars
  <2> QED
    BY <1>f, <2>1, SendKept
<1>m. ASSUME NEW m \in Packet, m.kind # "data", NEW rc, TransportSend(m, rc), EndFrame,
             pc' \notin {"wdrain", "wfit", "wsend"}
      PROVE  SendInv'
  <2>1. written' = written /\ (odata'.kind = "data" => odata' = odata)
    BY <1>m, OtherSend DEF TypeOK
  <2>2. /\ UNCHANGED <<local_window_size, write_state, write_bufwrite, toClient,
                       peerGranted>>
        /\ link' => link
    BY <1>m DEF EndFrame, recvVars, writeVars, peerVars
  <2> QED
    BY <1>m, <2>1, <2>2, SendKept
<1>e. ASSUME NEW rc, SendEof(rc), EndFrame, pc' \notin {"wdrain", "wfit", "wsend"}
      PROVE  SendInv'
  <2>1. [kind |-> "eof", n |-> 0] \in Packet
    BY DEF Packet, SendKinds
  <2> QED
    BY <1>e, <2>1, <1>m DEF SendEof
<1>g. EndFrame => UNCHANGED <<local_window_size, writeVars, toClient, peerVars>>
  BY DEF EndFrame, recvVars, writeVars, peerVars
<1>1. CASE ReadWiden
  <2>1. pc' \notin {"wdrain", "wfit", "wsend"}
    BY <1>1 DEF ReadWiden, Goto
  <2> QED
    BY <1>0, <1>1, <2>1, WindowCallKept DEF ReadWiden, recvVars
<1>2. CASE ReadExpand
  <2>1. pc' \notin {"wdrain", "wfit", "wsend"}
    BY <1>2 DEF ReadExpand, Goto, Again, Return
  <2>2. ExpandBy \in Int
    <3>1. Initial + call.n - remote_window_size \in Int
      BY <1>0, ConstantFacts
    <3> QED
      BY <3>1, ConstantFacts, U32Int DEF ExpandBy, Max2, U32Type
  <2>3. UNCHANGED <<local_window_size, writeVars, toClient, peerVars>>
    BY <1>2 DEF ReadExpand, recvVars
  <2>4. \/ UNCHANGED netVars
        \/ \E rc \in {"ok", "EAGAIN", "error"} :
              ReceiveWindowAdjust(remote_window_size, ExpandBy, FALSE, rc)
    BY <1>2 DEF ReadExpand
  <2> QED
    BY <1>0, <2>1, <2>2, <2>3, <2>4, WindowCallKept, <1>f
<1>3. CASE ReadDrain
  BY <1>3, ReadKept DEF ReadDrain, Goto, Return
<1>4. CASE ReadCopy
  <2>1. pc = "copy" /\ pc' = pc
    BY <1>4 DEF ReadCopy
  <2> QED
    BY <1>4, <2>1, <1>f DEF ReadCopy
<1>5. CASE ReadReturn
  <2>1. pc' \notin {"wdrain", "wfit", "wsend"}
    BY <1>5 DEF ReadReturn, Again, Goto, Return
  <2> QED
    BY <1>5, <2>1, <1>f DEF ReadReturn
<1>6. CASE WriteDrain
  <2>1. pc' # "wsend" /\ write_state = "idle"
    BY <1>6 DEF WriteDrain, Goto, Return, SendInv, WriteHeld
  <2> QED
    BY <1>6, <2>1, ReadKept DEF WriteDrain
<1>7. CASE WriteFit
  <2>0. UNCHANGED <<local_window_size, toClient, netVars, peerVars>>
    BY <1>7 DEF WriteFit, recvVars
  <2>1. CASE local_window_size <= 0
    <3>1. /\ UNCHANGED <<local_window_size, written, write_state, write_bufwrite,
                          toClient, peerGranted, odata, link>>
          /\ pc' # "wsend" /\ write_state = "idle"
      BY <1>0, <1>7, <2>0, <2>1
         DEF WriteFit, Again, Goto, Return, SendInv, WriteHeld, writeVars, netVars, peerVars
    <3> QED
      BY <3>1, SendKept
  <2>2. CASE local_window_size > 0
    <3>1. /\ write_bufwrite' = Min2(Min2(call.n, local_window_size), PacketSize)
          /\ write_state' = "created" /\ pc = "wfit" /\ pc' = "wsend"
          /\ write_state = "idle"
      BY <1>0, <1>7, <2>2 DEF WriteFit, Goto, SendInv, WriteHeld
    <3>2. write_bufwrite' <= local_window_size
      BY <1>0, <3>1, ConstantFacts DEF Min2
    <3>3. /\ local_window_size' = local_window_size /\ toClient' = toClient
          /\ odata' = odata /\ written' = written /\ link' = link
          /\ peerGranted' = peerGranted
      BY <2>0 DEF netVars, peerVars
    <3>4. GrantStamps'
      BY <3>3 DEF SendInv, GrantStamps, Credit
    <3> QED
      BY <3>1, <3>2, <3>3, <3>4 DEF SendInv, WriteHeld
  <2> QED
    BY <1>0, <2>1, <2>2
<1>8. CASE WriteSend
  BY <1>8, WriteSendKept
<1>9. CASE FlushScan
  <2>1. pc' \notin {"wdrain", "wfit", "wsend"}
    BY <1>9 DEF FlushScan
  <2> QED
    BY <1>9, <2>1, <1>f DEF FlushScan
<1>10. CASE FlushRefund
  <2>1. pc' \notin {"wdrain", "wfit", "wsend"}
    BY <1>10 DEF FlushRefund, Again, Goto, Return
  <2>2. U32(remote_window_size - flush_flush_bytes) \in Int
    <3>1. remote_window_size - flush_flush_bytes \in Int
      BY <1>0 DEF TypeOK, CallType
    <3> QED
      BY <3>1, U32Int DEF U32Type
  <2>3. UNCHANGED <<local_window_size, writeVars, toClient, peerVars>>
    BY <1>10 DEF FlushRefund
  <2>4. \/ UNCHANGED netVars
        \/ \E rc \in {"ok", "EAGAIN", "error"} :
              ReceiveWindowAdjust(U32(remote_window_size - flush_flush_bytes),
                                  flush_refund_bytes, TRUE, rc)
    BY <1>10 DEF FlushRefund
  <2> QED
    BY <1>0, <2>1, <2>2, <2>3, <2>4, WindowCallKept, <1>f
<1>11. CASE AdjustStep
  <2>1. pc' \notin {"wdrain", "wfit", "wsend"}
    BY <1>11 DEF AdjustStep, Again, Goto, Return
  <2> QED
    BY <1>0, <1>11, <2>1, WindowCallKept DEF AdjustStep, recvVars
<1>12. CASE EofStep
  BY <1>12, <1>e DEF EofStep, Again, Goto, Return
<1>13. CASE CloseEnter
  <2>1. pc' \notin {"wdrain", "wfit", "wsend"} /\ EndFrame
    BY <1>13 DEF CloseEnter, Again, Return, Goto
  <2>2. UNCHANGED netVars \/ \E rc \in {"ok", "EAGAIN", "error"} : SendEof(rc)
    BY <1>13 DEF CloseEnter
  <2> QED
    BY <2>1, <2>2, <1>e, <1>f, <1>g
<1>14. CASE CloseSend
  <2>1. pc' \notin {"wdrain", "wfit", "wsend"} /\ EndFrame
    BY <1>14 DEF CloseSend, Again, Return, Goto
  <2>2. [kind |-> "close", n |-> 0] \in Packet
    BY DEF Packet, SendKinds
  <2>3. \/ UNCHANGED netVars
        \/ \E s \in SendResults : TransportSend([kind |-> "close", n |-> 0], s)
    BY <1>14 DEF CloseSend
  <2> QED
    BY <2>1, <2>2, <2>3, <1>m, <1>f, <1>g
<1>r. ASSUME \/ EndFrame /\ UNCHANGED netVars
             \/ \E rc \in ReadResults : TransportRead(rc),
             pc' \notin {"wdrain", "wfit", "wsend"}
      PROVE  SendInv'
  BY <1>r, <1>f, <1>g, ReadKept
<1>15. CASE CloseWait
  <2>1. pc' \notin {"wdrain", "wfit", "wsend"}
    BY <1>15 DEF CloseWait, Again, Return, Goto
  <2> QED
    BY <1>15, <2>1, <1>r DEF CloseWait
<1>16. CASE CloseDone
  <2>1. pc' \notin {"wdrain", "wfit", "wsend"}
    BY <1>16 DEF CloseDone, Return, Goto
  <2> QED
    BY <1>16, <2>1, <1>r DEF CloseDone
<1>17. CASE FreeStep
  <2>1. pc' \notin {"wdrain", "wfit", "wsend"}
    BY <1>17 DEF FreeStep, Return
  <2> QED
    BY <1>17, <2>1, <1>f DEF FreeStep
<1>18. CASE WaitEof
  <2>1. pc' \notin {"wdrain", "wfit", "wsend"}
    BY <1>18 DEF WaitEof, Again, Return, Goto
  <2> QED
    BY <1>18, <2>1, <1>r DEF WaitEof
<1>19. CASE WaitClosed
  <2>1. pc' \notin {"wdrain", "wfit", "wsend"}
    BY <1>19 DEF WaitClosed, Again, Return, Goto
  <2> QED
    BY <1>19, <2>1, <1>r DEF WaitClosed
<1> QED
  BY <1>1, <1>2, <1>3, <1>4, <1>5, <1>6, <1>7, <1>8, <1>9, <1>10, <1>11, <1>12, <1>13,
     <1>14, <1>15, <1>16, <1>17, <1>18, <1>19 DEF Steps

\* A packet of the peer keeps SendInv: a WINDOW_ADJUST is stamped with the total
\* that was granted with it.
LEMMA SaysKeepsSend ==
    ASSUME TypeOK, SendInv, NEW kind, NEW s, NEW n \in Nat, PeerSays(kind, s, n),
           peerGranted' = peerGranted + (IF kind = "adjust" THEN n ELSE 0)
    PROVE  SendInv'
<1> DEFINE m == [kind |-> kind, stream |-> s, n |-> n, sent |-> peerSent',
                 granted |-> peerGranted']
<1>1. /\ toClient' = Append(toClient, m) /\ toClient \in Seq(Inbound)
      /\ UNCHANGED <<local_window_size, write_state, write_bufwrite, pc, odata, written, link>>
  BY DEF PeerSays, clientVars, netVars, writeVars, TypeOK, RecvType
<1>2. written \in Int /\ local_window_size \in Int /\ peerGranted \in Int
  BY DEF TypeOK, NetType, RecvType, PeerType
<1>3. /\ m.granted = peerGranted' /\ Credit(m) = peerGranted' - peerGranted
      /\ peerGranted' >= peerGranted /\ peerGranted' \in Int
  BY <1>2 DEF Credit
<1>4. \A i \in DOMAIN toClient : /\ Credit(toClient[i]) \in Nat
                                 /\ toClient[i].granted \in Int
  <2>1. \A i \in DOMAIN toClient : toClient[i] \in Inbound
    BY <1>1
  <2> QED
    BY <2>1 DEF Credit, Inbound
<1>5. \A i \in DOMAIN toClient' : \/ i \in DOMAIN toClient /\ toClient'[i] = toClient[i]
                                  \/ i = Len(toClient) + 1 /\ toClient'[i] = m
  BY <1>1
<1>n. \A i \in DOMAIN toClient : i < Len(toClient) + 1 /\ i \in Int
  BY <1>1
<1>l. Len(toClient) \in Nat
  BY <1>1
<1> HIDE DEF m
<1>6. GrantStamps'
  <2>1. written' + local_window_size' <= peerGranted'
    BY <1>1, <1>2, <1>3 DEF SendInv, GrantStamps
  <2>2. ASSUME NEW i \in DOMAIN toClient'
        PROVE  /\ toClient'[i].granted <= peerGranted'
               /\ written' + local_window_size' + Credit(toClient'[i]) <= toClient'[i].granted
    <3>1. CASE i \in DOMAIN toClient /\ toClient'[i] = toClient[i]
      BY <3>1, <1>1, <1>2, <1>3, <1>4 DEF SendInv, GrantStamps
    <3>2. CASE toClient'[i] = m
      BY <3>2, <1>1, <1>2, <1>3 DEF SendInv, GrantStamps
    <3> QED
      BY <3>1, <3>2, <1>5
  <2>3. ASSUME NEW i \in DOMAIN toClient', NEW j \in DOMAIN toClient', i < j
        PROVE  toClient'[i].granted + Credit(toClient'[j]) <= toClient'[j].granted
    <3>1. CASE /\ i \in DOMAIN toClient /\ toClient'[i] = toClient[i]
               /\ j \in DOMAIN toClient /\ toClient'[j] = toClient[j]
      BY <3>1, <2>3 DEF SendInv, GrantStamps
    <3>2. CASE /\ i \in DOMAIN toClient /\ toClient'[i] = toClient[i]
               /\ toClient'[j] = m
      BY <3>2, <1>2, <1>3, <1>4 DEF SendInv, GrantStamps
    <3>3. CASE i = Len(toClient) + 1
      BY <3>3, <2>3, <1>5, <1>n, <1>l
    <3> QED
      BY <3>1, <3>2, <3>3, <1>5
  <2> QED
    BY <2>1, <2>2, <2>3 DEF GrantStamps, Credit
<1>7. WriteHeld'
  BY <1>1 DEF SendInv, WriteHeld
<1> QED
  BY <1>6, <1>7 DEF SendInv

\* Every step of the system keeps SendInv.
LEMMA NextKeepsSend ==
    ASSUME TypeOK, SendInv, [Next]_vars
    PROVE  SendInv'
<1>f. ASSUME UNCHANGED <<local_window_size, writeVars, toClient, odata, written, peerGranted>>,
             link' => link, pc' = pc
      PROVE  SendInv'
  BY <1>f, SendKept DEF writeVars, SendInv, WriteHeld
<1>1. CASE Steps
  BY <1>1, StepKeepsSend
<1>2. CASE Calls
  <2>1. UNCHANGED <<local_window_size, writeVars, toClient, odata, written, peerGranted, link>>
    BY <1>2 DEF Calls, CallRead, CallWrite, CallFlush, CallAdjust, CallMode, CallWindowRead,
                CallSendEof, CallClose, CallFree, CallWaitEof, CallWaitClosed, Simple,
                recvVars, netVars, peerVars
  <2>2. /\ pc' = "wsend" => write_state = "created"
        /\ pc' \in {"wdrain", "wfit"} => write_state = "idle"
    BY <1>2 DEF Calls, CallRead, CallWrite, CallFlush, CallAdjust, CallMode, CallWindowRead,
                CallSendEof, CallClose, CallFree, CallWaitEof, CallWaitClosed, Simple,
                Calling, Start, Quick
  <2> QED
    BY <2>1, <2>2, SendKept DEF writeVars
<1>3. CASE Pump
  BY <1>3, ReadKept DEF Pump
<1>4. CASE Peer \/ LoseLink
  <2>0. peerGranted \in Int
    BY DEF TypeOK, PeerType
  <2>1. ASSUME NEW s \in PeerStreams, NEW n \in DataSizes, PeerData(s, n)
        PROVE  SendInv'
    <3>1. n \in Nat /\ peerGranted' = peerGranted + 0
      BY <2>0, <2>1, ConstantFacts DEF PeerData
    <3> QED
      BY <2>1, <3>1, SaysKeepsSend DEF PeerData
  <2>2. ASSUME NEW kind \in {"eof", "close"}, PeerEnds(kind)
        PROVE  SendInv'
    <3>1. peerGranted' = peerGranted + 0
      BY <2>0, <2>2 DEF PeerEnds
    <3> QED
      BY <2>2, <3>1, SaysKeepsSend DEF PeerEnds
  <2>3. CASE PeerReceive
    BY <2>3, <1>f DEF PeerReceive, clientVars
  <2>4. CASE KexDone
    BY <2>4, <1>f DEF KexDone, clientVars, netVars, peerVars
  <2>5. ASSUME NEW n \in GrantSizes, PeerGrant(n)
        PROVE  SendInv'
    <3>1. n \in Nat /\ peerGranted' = peerGranted + n
      BY <2>5, ConstantFacts DEF PeerGrant
    <3> QED
      BY <2>5, <3>1, SaysKeepsSend DEF PeerGrant
  <2>6. CASE PeerRequest
    <3>1. peerGranted' = peerGranted + 0
      BY <2>0, <2>6 DEF PeerRequest
    <3> QED
      BY <2>6, <3>1, SaysKeepsSend DEF PeerRequest
  <2>7. CASE PeerRekey
    <3>1. peerGranted' = peerGranted + 0
      BY <2>0, <2>7 DEF PeerRekey
    <3> QED
      BY <2>7, <3>1, SaysKeepsSend DEF PeerRekey
  <2>8. CASE LoseLink
    BY <2>8, <1>f DEF LoseLink, clientVars, netVars
  <2> QED
    BY <1>4, <2>1, <2>2, <2>3, <2>4, <2>5, <2>6, <2>7, <2>8 DEF Peer, PeerSend
<1>5. CASE UNCHANGED vars
  BY <1>5, <1>f DEF vars, recvVars, netVars, peerVars
<1> QED
  BY <1>1, <1>2, <1>3, <1>4, <1>5 DEF Next

\* _libssh2_channel_write() never puts more bytes on the wire than the peer's
\* window allows, in blocking and nonblocking mode, with partial sends, EAGAIN
\* retries with other lengths, lost connections, window adjustments under way and
\* key re-exchanges, for every value of the constants.
THEOREM WritesWithinWindow == Spec => []WriteWithinWindow
<1>1. Init => SendInv
  <2>1. Init => GrantStamps
    BY ConstantFacts DEF Init, GrantStamps
  <2>2. Init => WriteHeld
    BY ConstantFacts DEF Init, WriteHeld, NoPacket
  <2> QED
    BY <2>1, <2>2 DEF SendInv
<1>2. TypeOK /\ SendInv /\ [Next]_vars => SendInv'
  BY NextKeepsSend
<1>3. TypeOK /\ SendInv => WriteWithinWindow
  BY DEF TypeOK, NetType, RecvType, PeerType, SendInv, GrantStamps, WriteHeld,
         WriteWithinWindow
<1> QED
  BY <1>1, <1>2, <1>3, TypeCorrect, PTL DEF Spec
=============================================================================
