------------------------------ MODULE Channel ------------------------------
(***************************************************************************)
(* One open channel of libssh2 (channel.c), the part of packet_add() that  *)
(* delivers its packets (packet.c), and the peer at the other end.         *)
(*                                                                         *)
(* The library is single threaded: pc is where the client's one thread     *)
(* stands, "app" when no call is running.  A call is a few steps, between  *)
(* which only the peer moves; a step that gets EAGAIN either runs again    *)
(* (Blocking: the BLOCK_ADJUST loop) or returns to the application, which  *)
(* is then free to make any other call.  The transport layer is seen       *)
(* through transport_send() and transport_read(): two FIFO wires, and      *)
(* odata, the packet that is only half sent.                               *)
(*                                                                         *)
(* A payload is its length.  Every message carries its sender's running    *)
(* totals (sent, granted); they place the message in the sender's stream   *)
(* and no action of the client reads them.                                 *)
(***************************************************************************)
EXTENDS Integers, Sequences

CONSTANTS
    Initial,      \* remote.window_size_initial: the receive window we opened with
    PeerInitial,  \* the window the peer opened with
    PacketSize,   \* packet_size of both directions
    MinAdjust,    \* LIBSSH2_CHANNEL_MINADJUST
    HeadSlack,    \* 13 - 9: what flush() takes for the header of a DATA packet
                  \* beyond the header it has
    Modulus,      \* 2^32, the width of the window counters
    ReadSizes, WriteSizes, AdjustSizes, DataSizes, GrantSizes, Modes,
    ReadStreams, PeerStreams,
                  \* the arguments the application and the peer choose from (a
                  \* write size is what is left after the cap of 32700 bytes)
    Ops,          \* the calls the application makes
    Blocking,     \* session->api_block_mode
    MayTimeout,   \* session->api_timeout is set: a blocking call may give up
    MayBlock,     \* the socket's send buffer may be full
    MayDrop,      \* the connection may be lost
    MaxWire, MaxSent, MaxWindow, MaxPeerGranted, MaxRequests, MaxRekeys
                  \* bounds: packets under way in a direction, bytes the peer
                  \* sends, the window the application asks for, bytes the peer
                  \* grants, channel requests and key re-exchanges it starts

AllOps == {"read", "write", "flush", "adjust", "adjust_queued", "mode", "eof",
           "close", "free", "wait_eof", "wait_closed", "window_read", "pump"}
AllModes == {"NORMAL", "MERGE", "IGNORE"}
Streams == {0, 1}                    \* SSH_MSG_CHANNEL_DATA, stderr

ASSUME ConstantsAssumption ==
    /\ {Initial, PeerInitial} \subseteq Nat
    /\ {PacketSize, MinAdjust, HeadSlack, Modulus} \subseteq Nat \ {0}
    /\ {MaxWire, MaxSent, MaxWindow, MaxPeerGranted, MaxRequests, MaxRekeys} \subseteq Nat
    /\ ReadSizes \cup WriteSizes \cup AdjustSizes \cup DataSizes \cup GrantSizes
         \subseteq Nat \ {0}
    /\ Modes \subseteq AllModes
    /\ ReadStreams \cup PeerStreams \subseteq Streams
    /\ Ops \subseteq AllOps
    /\ {Blocking, MayTimeout, MayBlock, MayDrop} \subseteq BOOLEAN

\* Key re-exchange while a packet is half sent is the subject of the transport
\* and key exchange components, not of this one.
ASSUME RekeyAssumption == MaxRekeys > 0 => ~MayBlock

VARIABLES
    \* the LIBSSH2_CHANNEL
    remote_window_size, read_avail, remote_eof, remote_close, ignore_mode,
    local_window_size, local_eof, local_close,
    adjust_state, adjust_queue, adjust_adjust, read_state,
    flush_state, flush_refund_bytes, flush_flush_bytes,
    write_state, write_bufwrite, close_state, freed,
    \* the LIBSSH2_SESSION: queued packets, the packet packet_add() is to resume,
    \* the half-sent packet, key exchange and socket state
    packets, packAdd, odata, kex, disconnected,
    \* the running call and its local variables, the last result
    pc, call, bytes_read, ret,
    \* the connection and the peer
    toPeer, toClient, link, peerAllowed, peerSent, peerGranted, peerDone,
    requests, rekeys,
    \* history: bytes granted to the peer and written to the wire, bytes taken
    \* from it and bytes of these thrown away, the bytes of each stream that have
    \* entered and left the queue of packets, final messages sent
    granted, written, received, dropped, arrived, taken, onWire

adjVars  == <<adjust_state, adjust_queue, adjust_adjust>>
flushVars == <<flush_state, flush_refund_bytes, flush_flush_bytes>>
writeVars == <<write_state, write_bufwrite>>
flagVars == <<local_eof, local_close, close_state, freed>>
recvVars == <<read_avail, remote_eof, remote_close, local_window_size, packets,
              packAdd, kex, disconnected, toClient, received, dropped, arrived, taken>>
netVars  == <<odata, toPeer, granted, written, onWire>>
peerVars == <<link, peerAllowed, peerSent, peerGranted, peerDone, requests, rekeys>>
vars == <<remote_window_size, ignore_mode, read_state, bytes_read, pc, call, ret,
          adjVars, flushVars, writeVars, flagVars, recvVars, netVars, peerVars>>

Min2(a, b) == IF a < b THEN a ELSE b
Max2(a, b) == IF a < b THEN b ELSE a

\* uint32_t: exact for the sum or difference of two 32-bit values.
U32(x) == IF x < 0 THEN x + Modulus ELSE IF x >= Modulus THEN x - Modulus ELSE x

Sub32(a, b) == IF b <= a THEN a - b ELSE (a - b) + Modulus

NoPacket == [kind |-> "none", n |-> 0]
NoCall == [op |-> "none", stream |-> 0, n |-> 0]
NoResult == [op |-> "none", stream |-> 0, rc |-> "ok", val |-> 0]

----------------------------------------------------------------------------
(* The transport layer as the channel code sees it. *)

\* x is completely in the socket.
Carry(x) ==
    LET credit == IF x.kind = "adjust" THEN x.n ELSE 0
    IN  /\ toPeer' = Append(toPeer, [kind |-> x.kind, n |-> x.n,
                                     granted |-> granted + credit])
        /\ granted' = granted + credit
        /\ written' = written + (IF x.kind = "data" THEN x.n ELSE 0)
        /\ onWire' = onWire \cup ({x.kind} \cap {"eof", "close"})
        /\ odata' = NoPacket

\* send_existing() tells packets apart by the address of their buffer.  CHANNEL_FAILURE
\* and EOF are built on the stack: another call may find them at another address.
\* (An EOF is left to another call only where a call can give up.)
StackPackets == {"failure"} \cup (IF Blocking /\ ~MayTimeout THEN {} ELSE {"eof"})

TransportSend(m, rc) ==
    \/ /\ kex = "active"
       /\ rc = "EAGAIN"
       /\ UNCHANGED netVars
    \/ /\ kex # "active"
       /\ odata # NoPacket
       /\ odata.kind # m.kind \/ m.kind \in StackPackets
       /\ rc = "BAD_USE"
       /\ UNCHANGED netVars
    \/ /\ kex # "active"
       /\ odata.kind \in {"none", m.kind}
       /\ LET x == IF odata = NoPacket THEN m ELSE odata
          IN  \/ /\ link
                 /\ Len(toPeer) < MaxWire
                 /\ rc = "ok"
                 /\ Carry(x)
              \/ /\ link
                 /\ MayBlock
                 /\ rc = "EAGAIN"
                 /\ odata' = x
                 /\ UNCHANGED <<toPeer, granted, written, onWire>>
              \/ /\ ~link
                 /\ rc = "SOCKET_SEND"
                 /\ UNCHANGED netVars

SendResults == {"ok", "EAGAIN", "BAD_USE", "SOCKET_SEND"}

----------------------------------------------------------------------------
(* _libssh2_channel_receive_window_adjust().  window is the value that     *)
(* remote.window_size has when the function is entered.                    *)

QueueAdjust(window, adjustment, force, rc) ==
    /\ adjust_state = "idle"
    /\ \/ ~force /\ U32(adjustment + adjust_queue) < MinAdjust
       \/ adjustment = 0 /\ adjust_queue = 0
    /\ rc = "ok"
    /\ adjust_queue' = U32(adjust_queue + adjustment)
    /\ remote_window_size' = window
    /\ UNCHANGED <<adjust_state, adjust_adjust, netVars>>

\* The packet of an interrupted call is sent as it was built, while the window
\* grows by what the present call asked for.  (adjust_adjust is the amount in the
\* packet; once it is sent the buffer is dead, and so is write_bufwrite below.)
SendAdjust(window, adjustment, force, rc) ==
    LET fresh == adjust_state = "idle"
        total == IF fresh THEN U32(adjustment + adjust_queue) ELSE adjustment
        packet == IF fresh THEN total ELSE adjust_adjust
        queue == IF fresh THEN 0 ELSE adjust_queue
    IN  /\ fresh => /\ force \/ total >= MinAdjust
                    /\ adjustment # 0 \/ adjust_queue # 0
        /\ \E s \in SendResults :
             /\ TransportSend([kind |-> "adjust", n |-> packet], s)
             /\ \/ /\ s = "ok"
                   /\ rc = "ok"
                   /\ remote_window_size' = U32(window + total)
                   /\ adjust_state' = "idle"
                   /\ adjust_adjust' = 0
                   /\ adjust_queue' = queue
                \/ /\ s = "EAGAIN"
                   /\ rc = "EAGAIN"
                   /\ remote_window_size' = window
                   /\ adjust_state' = "created"
                   /\ adjust_adjust' = packet
                   /\ adjust_queue' = queue
                \/ /\ s \in {"BAD_USE", "SOCKET_SEND"}
                   /\ rc = "error"
                   /\ remote_window_size' = window
                   /\ adjust_state' = "created"
                   /\ adjust_adjust' = packet
                   /\ adjust_queue' = total

ReceiveWindowAdjust(window, adjustment, force, rc) ==
    \/ QueueAdjust(window, adjustment, force, rc)
    \/ SendAdjust(window, adjustment, force, rc)

----------------------------------------------------------------------------
(* _libssh2_packet_add() on the packets of this channel. rc is what        *)
(* _libssh2_transport_read() then returns: "packet" for a packet type.     *)

\* Mutant: the last byte of the window counts as outside it.
AddDataShort(m) ==
    LET room == remote_window_size - read_avail - 1
        len == Min2(Min2(m.n, PacketSize), room)
    IN  /\ m.kind = "data"
        /\ ~freed
        /\ ~(ignore_mode = "IGNORE" /\ m.stream = 1)
        /\ received' = received + m.n
        /\ \/ /\ room <= 0
              /\ dropped' = dropped + m.n
              /\ UNCHANGED <<remote_eof, read_avail, packets, arrived>>
           \/ /\ room > 0
              /\ remote_eof' = FALSE
              /\ read_avail' = read_avail + len
              /\ packets' = Append(packets, [stream |-> m.stream, size |-> len,
                                             left |-> len,
                                             upto |-> arrived[m.stream] + len])
              /\ arrived' = [arrived EXCEPT ![m.stream] = @ + len]
              /\ dropped' = dropped + (m.n - len)
        /\ UNCHANGED <<remote_window_size, remote_close, local_window_size,
                       packAdd, kex, taken, adjVars, netVars>>

\* DATA and EXTENDED_DATA, unless the latter is to be ignored.
AddData(m) ==
    LET room == remote_window_size - read_avail
        len == Min2(Min2(m.n, PacketSize), room)
    IN  /\ m.kind = "data"
        /\ ~freed
        /\ ~(ignore_mode = "IGNORE" /\ m.stream = 1)
        /\ received' = received + m.n
        /\ \/ /\ room <= 0
              /\ dropped' = dropped + m.n
              /\ UNCHANGED <<remote_eof, read_avail, packets, arrived>>
           \/ /\ room > 0
              /\ remote_eof' = FALSE
              /\ read_avail' = read_avail + len
              /\ packets' = Append(packets, [stream |-> m.stream, size |-> len,
                                             left |-> len,
                                             upto |-> arrived[m.stream] + len])
              /\ arrived' = [arrived EXCEPT ![m.stream] = @ + len]
              /\ dropped' = dropped + (m.n - len)
        /\ UNCHANGED <<remote_window_size, remote_close, local_window_size,
                       packAdd, kex, taken, adjVars, netVars>>

\* Ignored extended data is refunded at once, as far as it is within the window;
\* resumed at jump point 1.
AddIgnored(m, rc) ==
    LET len == IF read_avail + m.n >= remote_window_size
               THEN remote_window_size - read_avail ELSE m.n
    IN  /\ m.kind = "data"
        /\ ~freed
        /\ ignore_mode = "IGNORE" /\ m.stream = 1
        /\ received' = received + m.n
        /\ dropped' = dropped + (m.n - len)
        /\ \E r \in {"ok", "EAGAIN", "error"} :
             /\ ReceiveWindowAdjust(U32(remote_window_size - len), len, TRUE, r)
             /\ rc = IF r = "EAGAIN" THEN "EAGAIN" ELSE "packet"
             /\ packAdd' = IF r = "EAGAIN" THEN [point |-> "jump1", n |-> m.n]
                           ELSE [point |-> "idle", n |-> 0]
        /\ UNCHANGED <<read_avail, remote_eof, remote_close, local_window_size,
                       packets, kex, arrived, taken>>

\* CHANNEL_EOF
AddEof(m) ==
    /\ m.kind = "eof"
    /\ remote_eof' = TRUE
    /\ UNCHANGED <<remote_close, local_window_size>>

\* Mutant: CLOSE is taken for an EOF.
AddCloseAsEof(m) ==
    /\ m.kind = "close"
    /\ remote_eof' = TRUE
    /\ UNCHANGED <<remote_close, local_window_size>>

\* CHANNEL_CLOSE
AddClose(m) ==
    /\ m.kind = "close"
    /\ remote_close' = TRUE
    /\ remote_eof' = TRUE
    /\ UNCHANGED local_window_size

\* CHANNEL_WINDOW_ADJUST
AddWindowAdjust(m) ==
    /\ m.kind = "adjust"
    /\ local_window_size' = local_window_size + m.n
    /\ UNCHANGED <<remote_eof, remote_close>>

\* The packets that only change the LIBSSH2_CHANNEL, and are not kept.
AddFlag(m) ==
    /\ ~freed
    /\ AddEof(m) \/ AddClose(m) \/ AddWindowAdjust(m)
    /\ UNCHANGED <<remote_window_size, read_avail, packets, packAdd, kex, received,
                   dropped, arrived, taken, adjVars, netVars>>

\* A packet for a channel that is gone.
AddUnknown(m) ==
    /\ m.kind \in {"data", "eof", "close", "adjust"}
    /\ freed
    /\ received' = received + (IF m.kind = "data" THEN m.n ELSE 0)
    /\ UNCHANGED <<remote_window_size, read_avail, remote_eof, remote_close,
                   local_window_size, packets, packAdd, kex, dropped, arrived, taken,
                   adjVars, netVars>>

\* CHANNEL_REQUEST that wants a reply; resumed at jump point 4.
Reply(rc) ==
    /\ \E s \in SendResults :
         /\ TransportSend([kind |-> "failure", n |-> 0], s)
         /\ rc = CASE s = "ok" -> "packet" [] s = "EAGAIN" -> "EAGAIN"
                   [] OTHER -> "error"
         /\ packAdd' = IF s = "EAGAIN" THEN [point |-> "jump4", n |-> 0]
                       ELSE [point |-> "idle", n |-> 0]
    /\ UNCHANGED <<remote_window_size, read_avail, remote_eof, remote_close,
                   local_window_size, packets, kex, received, dropped, arrived, taken,
                   adjVars>>

\* KEXINIT: the key re-exchange starts, and does not end in this call.
AddKexinit(m) ==
    /\ m.kind = "kexinit"
    /\ kex' = "active"
    /\ UNCHANGED <<remote_window_size, read_avail, remote_eof, remote_close,
                   local_window_size, packets, packAdd, received, dropped, arrived, taken,
                   adjVars, netVars>>

PacketAdd(m, rc) ==
    \/ AddData(m) /\ rc = "packet"
    \/ AddIgnored(m, rc)
    \/ AddFlag(m) /\ rc = "packet"
    \/ AddUnknown(m) /\ rc = "packet"
    \/ m.kind = "request" /\ Reply(rc)
    \/ AddKexinit(m) /\ rc = "EAGAIN"

PacketAddResume(rc) ==
    \/ /\ packAdd.point = "jump1"
       /\ \E r \in {"ok", "EAGAIN", "error"} :
            /\ ReceiveWindowAdjust(remote_window_size, packAdd.n, TRUE, r)
            /\ rc = IF r = "EAGAIN" THEN "EAGAIN" ELSE "packet"
            /\ packAdd' = IF r = "EAGAIN" THEN packAdd ELSE [point |-> "idle", n |-> 0]
       /\ UNCHANGED <<read_avail, remote_eof, remote_close, local_window_size,
                      packets, kex, received, dropped, arrived, taken>>
    \/ /\ packAdd.point = "jump4"
       /\ Reply(rc)

\* One call of _libssh2_transport_read().  The last thing to be read from a lost
\* connection is an error of recv(), which leaves the socket state alone, or the
\* peer's DISCONNECT, which does not.
TransportRead(rc) ==
    /\ UNCHANGED <<ignore_mode, read_state, bytes_read, flushVars, writeVars,
                   flagVars, peerVars>>
    /\ \/ /\ kex = "active" \/ (link /\ toClient = <<>> /\ packAdd.point = "idle")
          /\ rc = "EAGAIN"
          /\ UNCHANGED <<recvVars, remote_window_size, adjVars, netVars>>
       \/ /\ kex # "active"
          /\ packAdd.point # "idle"
          /\ PacketAddResume(rc)
          /\ UNCHANGED <<toClient, disconnected>>
       \/ /\ kex # "active"
          /\ packAdd.point = "idle"
          /\ toClient # <<>>
          /\ PacketAdd(Head(toClient), rc)
          /\ toClient' = Tail(toClient)
          /\ UNCHANGED disconnected
       \/ /\ kex # "active"
          /\ packAdd.point = "idle"
          /\ toClient = <<>> /\ ~link
          /\ rc = "error"
          /\ disconnected' \in {disconnected, TRUE}
          /\ UNCHANGED <<read_avail, remote_eof, remote_close, local_window_size,
                         packets, packAdd, kex, toClient, received, dropped, arrived, taken,
                         remote_window_size, adjVars, netVars>>

ReadResults == {"packet", "EAGAIN", "error"}

----------------------------------------------------------------------------
(* How a call begins and ends. *)

Calling(op) == pc = "app" /\ ~freed /\ op \in Ops

Start(op, stream, n, at) ==
    /\ call' = [op |-> op, stream |-> stream, n |-> n]
    /\ pc' = at
    /\ ret' = NoResult

\* val is the number the call reports (a count, or a window size).
Return(rc, val) ==
    /\ pc' = "app"
    /\ call' = NoCall
    /\ ret' = [op |-> call.op, stream |-> call.stream, rc |-> rc, val |-> val]

Goto(at) == pc' = at /\ UNCHANGED <<call, ret>>

\* BLOCK_ADJUST: on EAGAIN the blocking mode waits for the socket and enters the
\* function again, until _libssh2_wait_socket() says that the time is up.
Again(entry) ==
    \/ Blocking /\ Goto(entry)
    \/ Blocking /\ MayTimeout /\ Return("TIMEOUT", 0)
    \/ ~Blocking /\ Return("EAGAIN", 0)

\* Calls that do nothing but return.
Quick(op, stream, rc, val) ==
    /\ ret' = [op |-> op, stream |-> stream, rc |-> rc, val |-> val]
    /\ UNCHANGED <<pc, call>>

----------------------------------------------------------------------------
(* libssh2_channel_read_ex() and _libssh2_channel_read(). *)

CallRead(s, n) ==
    /\ Calling("read")
    /\ Start("read", s, n, IF n > remote_window_size THEN "widen" ELSE "expand")
    /\ UNCHANGED <<remote_window_size, ignore_mode, read_state, bytes_read,
                   adjVars, flushVars, writeVars, flagVars, recvVars, netVars, peerVars>>

\* Mutant: widening is not repeated on EAGAIN.
ReadWidenOnce ==
    /\ pc = "widen"
    /\ \E rc \in {"ok", "EAGAIN", "error"} :
         /\ ReceiveWindowAdjust(remote_window_size, call.n, TRUE, rc)
         /\ Goto("expand")
    /\ UNCHANGED <<ignore_mode, read_state, bytes_read, flushVars, writeVars,
                   flagVars, recvVars, peerVars>>

\* A buffer larger than the window: widen it by force.  The result is ignored.
ReadWiden ==
    /\ pc = "widen"
    /\ \E rc \in {"ok", "EAGAIN", "error"} :
         /\ ReceiveWindowAdjust(remote_window_size, call.n, TRUE, rc)
         /\ \/ rc = "EAGAIN" /\ Blocking /\ Goto("widen")
            \/ ~(rc = "EAGAIN" /\ Blocking /\ ~MayTimeout) /\ Goto("expand")
    /\ UNCHANGED <<ignore_mode, read_state, bytes_read, flushVars, writeVars,
                   flagVars, recvVars, peerVars>>

TooNarrow == \/ read_state = "jump1"
             \/ remote_window_size < (Initial \div 4) * 3 + call.n

ExpandBy == Max2(U32(Initial + call.n - remote_window_size), MinAdjust)

\* Expand the receiving window first if it has become too narrow.
ReadExpand ==
    /\ pc = "expand"
    /\ UNCHANGED <<ignore_mode, bytes_read, flushVars, writeVars, flagVars, recvVars,
                   peerVars>>
    /\ \/ /\ ~TooNarrow
          /\ Goto("drain")
          /\ UNCHANGED <<remote_window_size, read_state, adjVars, netVars>>
       \/ /\ TooNarrow
          /\ \E rc \in {"ok", "EAGAIN", "error"} :
               /\ ReceiveWindowAdjust(remote_window_size, ExpandBy, FALSE, rc)
               /\ read_state' = IF rc = "ok" THEN "idle" ELSE "jump1"
               /\ \/ rc = "ok" /\ Goto("drain")
                  \/ rc = "EAGAIN" /\ Again("expand")
                  \/ rc = "error" /\ Return("error", 0)

\* Process all pending incoming packets.
ReadDrain ==
    /\ pc = "drain"
    /\ \E rc \in ReadResults :
         /\ TransportRead(rc)
         /\ \/ rc = "packet" /\ Goto("drain")
            \/ rc = "EAGAIN" /\ Goto("copy")
            \/ rc = "error" /\ Return("error", 0)

\* The queued packets a read of stream s takes from.
Readable(s) == {i \in DOMAIN packets : \/ packets[i].stream = s
                                       \/ s = 0 /\ ignore_mode = "MERGE"}

\* Mutant: the packet that came last is read first.
Latest(i, S) == i \in S /\ \A j \in S : j <= i

First(i, S) == i \in S /\ \A j \in S : i <= j

\* Mutant: the packet behind goes too.
WithoutTwo(i) == SubSeq(packets, 1, i - 1) \o SubSeq(packets, i + 2, Len(packets))

Without(i) == SubSeq(packets, 1, i - 1) \o SubSeq(packets, i + 1, Len(packets))

\* One turn of the copy loop.
CopyFrom(i) ==
    LET want == Min2(call.n - bytes_read, packets[i].left)
    IN  /\ bytes_read' = bytes_read + want
        /\ taken' = [taken EXCEPT ![packets[i].stream] = @ + want]
        /\ packets' = IF want = packets[i].left THEN Without(i)
                      ELSE [packets EXCEPT ![i].left = @ - want]

ReadCopy ==
    /\ pc = "copy"
    /\ bytes_read < call.n
    /\ \E i \in DOMAIN packets : First(i, Readable(call.stream)) /\ CopyFrom(i)
    /\ UNCHANGED <<remote_window_size, ignore_mode, read_state, pc, call, ret,
                   adjVars, flushVars, writeVars, flagVars, netVars, peerVars,
                   read_avail, remote_eof, remote_close, local_window_size,
                   packAdd, kex, disconnected, toClient, received, dropped, arrived>>

\* Mutant: a drained socket is taken for the end of the stream.
AtEndOfSocket == remote_eof \/ remote_close \/ toClient = <<>>

AtEnd == remote_eof \/ remote_close

\* Mutant: what is read is not taken off the window.
ReadReturnNoShrink ==
    /\ pc = "copy"
    /\ Readable(call.stream) = {} \/ bytes_read = call.n
    /\ bytes_read' = 0
    /\ read_avail' = Sub32(read_avail, bytes_read)
    /\ \/ bytes_read > 0 /\ Return("ok", bytes_read)
       \/ bytes_read = 0 /\ AtEnd /\ Return("ok", 0)
       \/ bytes_read = 0 /\ ~AtEnd /\ Again("expand")
    /\ UNCHANGED <<remote_window_size, ignore_mode, read_state, adjVars, flushVars,
                   writeVars, flagVars, netVars, peerVars, remote_eof, remote_close,
                   local_window_size, packets, packAdd, kex, disconnected, toClient,
                   received, dropped, arrived, taken>>

\* The loop is over: 0 at the end of the stream, EAGAIN, or the bytes copied.
ReadReturn ==
    /\ pc = "copy"
    /\ Readable(call.stream) = {} \/ bytes_read = call.n
    /\ bytes_read' = 0
    /\ read_avail' = Sub32(read_avail, bytes_read)
    /\ remote_window_size' = Sub32(remote_window_size, bytes_read)
    /\ \/ bytes_read > 0 /\ Return("ok", bytes_read)
       \/ bytes_read = 0 /\ AtEnd /\ Return("ok", 0)
       \/ bytes_read = 0 /\ ~AtEnd /\ Again("expand")
    /\ UNCHANGED <<ignore_mode, read_state, adjVars, flushVars, writeVars, flagVars,
                   netVars, peerVars, remote_eof, remote_close, local_window_size,
                   packets, packAdd, kex, disconnected, toClient, received, dropped,
                   arrived, taken>>

----------------------------------------------------------------------------
(* _libssh2_channel_write(). *)

\* Mutant: a channel that has sent EOF is still written to.
CallWriteAnyway(n) ==
    /\ Calling("write")
    /\ \/ /\ write_state = "idle" /\ local_close
          /\ Quick("write", 0, "error", 0)
       \/ /\ write_state = "idle" /\ ~local_close
          /\ Start("write", 0, n, "wdrain")
       \/ /\ write_state = "created"
          /\ Start("write", 0, n, "wsend")
    /\ UNCHANGED <<remote_window_size, ignore_mode, read_state, bytes_read,
                   adjVars, flushVars, writeVars, flagVars, recvVars, netVars, peerVars>>

CallWrite(n) ==
    /\ Calling("write")
    /\ \/ /\ write_state = "idle" /\ (local_close \/ local_eof)
          /\ Quick("write", 0, "error", 0)
       \/ /\ write_state = "idle" /\ ~local_close /\ ~local_eof
          /\ Start("write", 0, n, "wdrain")
       \/ /\ write_state = "created"
          /\ Start("write", 0, n, "wsend")
    /\ UNCHANGED <<remote_window_size, ignore_mode, read_state, bytes_read,
                   adjVars, flushVars, writeVars, flagVars, recvVars, netVars, peerVars>>

\* Drain the incoming flow first, mostly to get all pending window adjusts.
WriteDrain ==
    /\ pc = "wdrain"
    /\ \E rc \in ReadResults :
         /\ TransportRead(rc)
         /\ \/ rc = "packet" /\ Goto("wdrain")
            \/ rc = "EAGAIN" /\ Goto("wfit")
            \/ rc = "error" /\ Return("error", 0)

\* Mutant: a write is not cut to the window.
WriteFitPacket ==
    /\ pc = "wfit"
    /\ \/ /\ local_window_size <= 0
          /\ Again("wdrain")
          /\ UNCHANGED writeVars
       \/ /\ local_window_size > 0
          /\ write_bufwrite' = Min2(call.n, PacketSize)
          /\ write_state' = "created"
          /\ Goto("wsend")
    /\ UNCHANGED <<remote_window_size, ignore_mode, read_state, bytes_read,
                   adjVars, flushVars, flagVars, recvVars, netVars, peerVars>>

\* Mutant: the size of the packet is what the write would leave of the window.
WriteFitLeft ==
    /\ pc = "wfit"
    /\ \/ /\ local_window_size <= 0
          /\ Again("wdrain")
          /\ UNCHANGED writeVars
       \/ /\ local_window_size > 0
          /\ write_bufwrite' = Min2(local_window_size - call.n, PacketSize)
          /\ write_state' = "created"
          /\ Goto("wsend")
    /\ UNCHANGED <<remote_window_size, ignore_mode, read_state, bytes_read,
                   adjVars, flushVars, flagVars, recvVars, netVars, peerVars>>

\* Do not exceed the remote end's limits.
WriteFit ==
    /\ pc = "wfit"
    /\ \/ /\ local_window_size <= 0
          /\ Again("wdrain")
          /\ UNCHANGED writeVars
       \/ /\ local_window_size > 0
          /\ write_bufwrite' = Min2(Min2(call.n, local_window_size), PacketSize)
          /\ write_state' = "created"
          /\ Goto("wsend")
    /\ UNCHANGED <<remote_window_size, ignore_mode, read_state, bytes_read,
                   adjVars, flushVars, flagVars, recvVars, netVars, peerVars>>

WriteSend ==
    /\ pc = "wsend"
    /\ \E s \in SendResults :
         /\ TransportSend([kind |-> "data", n |-> write_bufwrite], s)
         /\ \/ /\ s = "ok"
               /\ local_window_size' = local_window_size - write_bufwrite
               /\ write_state' = "idle"
               /\ write_bufwrite' = 0
               /\ Return("ok", write_bufwrite)
            \/ /\ s = "EAGAIN"
               /\ Again("wsend")
               /\ UNCHANGED <<local_window_size, writeVars>>
            \/ /\ s \in {"BAD_USE", "SOCKET_SEND"}
               /\ write_state' = "idle"
               /\ write_bufwrite' = 0
               /\ Return("error", 0)
               /\ UNCHANGED local_window_size
    /\ UNCHANGED <<remote_window_size, ignore_mode, read_state, bytes_read, adjVars,
                   flushVars, flagVars, peerVars, read_avail, remote_eof,
                   remote_close, packets, packAdd, kex, disconnected, toClient,
                   received, dropped, arrived, taken>>

----------------------------------------------------------------------------
(* _libssh2_channel_flush(), the window calls and the extended data mode. *)

\* s is a stream, or 2 for LIBSSH2_CHANNEL_FLUSH_ALL.
CallFlush(s) ==
    /\ Calling("flush")
    /\ IF flush_state = "idle"
       THEN /\ flush_refund_bytes' = 0
            /\ flush_flush_bytes' = 0
            /\ UNCHANGED flush_state
            /\ Start("flush", s, 0, "fscan")
       ELSE /\ UNCHANGED flushVars
            /\ Start("flush", s, 0, "frefund")
    /\ UNCHANGED <<remote_window_size, ignore_mode, read_state, bytes_read,
                   adjVars, writeVars, flagVars, recvVars, netVars, peerVars>>

Flushable(s) == {i \in DOMAIN packets : s = 2 \/ packets[i].stream = s}

\* The refund takes 13 bytes of header off the length of every packet.
RefundOf(p) == p.size - (IF p.stream = 0 THEN HeadSlack ELSE 0)

FlushScan ==
    /\ pc = "fscan"
    /\ \/ \E i \in DOMAIN packets :
            /\ First(i, Flushable(call.stream))
            /\ flush_refund_bytes' = U32(flush_refund_bytes + RefundOf(packets[i]))
            /\ flush_flush_bytes' = flush_flush_bytes + packets[i].left
            /\ taken' = [taken EXCEPT ![packets[i].stream] = @ + packets[i].left]
            /\ packets' = Without(i)
            /\ UNCHANGED <<flush_state, pc>>
       \/ /\ Flushable(call.stream) = {}
          /\ flush_state' = "created"
          /\ pc' = "frefund"
          /\ UNCHANGED <<flush_refund_bytes, flush_flush_bytes, packets, taken>>
    /\ UNCHANGED <<remote_window_size, ignore_mode, read_state, bytes_read, call,
                   ret, adjVars, writeVars, flagVars, netVars, peerVars,
                   read_avail, remote_eof, remote_close, local_window_size,
                   packAdd, kex, disconnected, toClient, received, dropped, arrived>>

\* Entered again after EAGAIN, this takes the bytes off once more.
FlushRefund ==
    LET window == U32(remote_window_size - flush_flush_bytes)
    IN  /\ pc = "frefund"
        /\ read_avail' = U32(read_avail - flush_flush_bytes)
        /\ \/ /\ flush_refund_bytes = 0
              /\ remote_window_size' = window
              /\ flush_state' = "idle"
              /\ Return("ok", flush_flush_bytes)
              /\ UNCHANGED <<adjVars, netVars>>
           \/ /\ flush_refund_bytes # 0
              /\ \E rc \in {"ok", "EAGAIN", "error"} :
                   /\ ReceiveWindowAdjust(window, flush_refund_bytes, TRUE, rc)
                   /\ \/ /\ rc = "EAGAIN"
                         /\ Again("frefund")
                         /\ UNCHANGED flush_state
                      \/ /\ rc # "EAGAIN"
                         /\ flush_state' = "idle"
                         /\ Return("ok", flush_flush_bytes)
        /\ UNCHANGED <<ignore_mode, read_state, bytes_read, flush_refund_bytes,
                       flush_flush_bytes, writeVars, flagVars, peerVars, remote_eof,
                       remote_close, local_window_size, packets, packAdd, kex,
                       disconnected, toClient, received, dropped, arrived, taken>>

\* libssh2_channel_receive_window_adjust2(), forced and not.
CallAdjust(n, op) ==
    /\ Calling(op)
    /\ remote_window_size + adjust_queue + n <= MaxWindow
    /\ Start(op, 0, n, "adjust")
    /\ UNCHANGED <<remote_window_size, ignore_mode, read_state, bytes_read,
                   adjVars, flushVars, writeVars, flagVars, recvVars, netVars, peerVars>>

\* The size that is stored for the caller is the one on entry.
AdjustStep ==
    /\ pc = "adjust"
    /\ \E rc \in {"ok", "EAGAIN", "error"} :
         /\ ReceiveWindowAdjust(remote_window_size, call.n, call.op = "adjust", rc)
         /\ \/ rc = "ok" /\ Return("ok", remote_window_size)
            \/ rc = "EAGAIN" /\ Again("adjust")
            \/ rc = "error" /\ Return("error", 0)
    /\ UNCHANGED <<ignore_mode, read_state, bytes_read, flushVars, writeVars,
                   flagVars, recvVars, peerVars>>

\* libssh2_channel_window_read_ex()
CallWindowRead ==
    /\ Calling("window_read")
    /\ Quick("window_read", 0, "ok", remote_window_size)
    /\ UNCHANGED <<remote_window_size, ignore_mode, read_state, bytes_read,
                   adjVars, flushVars, writeVars, flagVars, recvVars, netVars, peerVars>>

\* _libssh2_channel_extended_data(): the flush it means to do is never reached.
CallMode(m) ==
    /\ Calling("mode")
    /\ ignore_mode' = m
    /\ Quick("mode", 0, "ok", 0)
    /\ UNCHANGED <<remote_window_size, read_state, bytes_read, adjVars, flushVars,
                   writeVars, flagVars, recvVars, netVars, peerVars>>

----------------------------------------------------------------------------
(* End of file, close and free. *)

Simple(op, at) ==
    /\ Calling(op)
    /\ Start(op, 0, 0, at)
    /\ UNCHANGED <<remote_window_size, ignore_mode, read_state, bytes_read,
                   adjVars, flushVars, writeVars, flagVars, recvVars, netVars, peerVars>>

CallSendEof == Simple("eof", "eof")

CallClose == Simple("close", "close")

\* The channel is closed first if it can be.
CallFree == Simple("free", IF ~local_close /\ ~disconnected THEN "close" ELSE "free")

CallWaitEof == Simple("wait_eof", "wait_eof")

\* wait_closed() is only for a channel at EOF.
CallWaitClosed ==
    \/ remote_eof /\ Simple("wait_closed", "wait_closed")
    \/ /\ Calling("wait_closed")
       /\ ~remote_eof
       /\ Quick("wait_closed", 0, "error", 0)
       /\ UNCHANGED <<remote_window_size, ignore_mode, read_state, bytes_read, adjVars,
                      flushVars, writeVars, flagVars, recvVars, netVars, peerVars>>

EndFrame == UNCHANGED <<remote_window_size, ignore_mode, read_state, bytes_read, adjVars,
                        flushVars, writeVars, recvVars, peerVars>>

\* channel_send_eof(), on its own or as the first part of a close.
SendEof(rc) ==
    \E s \in SendResults :
        /\ TransportSend([kind |-> "eof", n |-> 0], s)
        /\ local_eof' = (local_eof \/ s = "ok")
        /\ rc = IF s \in {"ok", "EAGAIN"} THEN s ELSE "error"

EofStep ==
    /\ pc = "eof"
    /\ \E rc \in {"ok", "EAGAIN", "error"} :
         /\ SendEof(rc)
         /\ \/ rc = "EAGAIN" /\ Again("eof")
            \/ rc # "EAGAIN" /\ Return(rc, 0)
    /\ EndFrame
    /\ UNCHANGED <<local_close, close_state, freed>>

\* _libssh2_channel_close(), entered from close and from free.
CloseEnter ==
    /\ pc = "close"
    /\ EndFrame
    /\ UNCHANGED freed
    /\ \/ /\ local_close
          /\ close_state' = "idle"
          /\ Return("ok", 0)
          /\ UNCHANGED <<local_eof, local_close, netVars>>
       \/ /\ ~local_close /\ local_eof
          /\ Goto("close_send")
          /\ UNCHANGED <<local_eof, local_close, close_state, netVars>>
       \/ /\ ~local_close /\ ~local_eof
          /\ \E rc \in {"ok", "EAGAIN", "error"} :
               /\ SendEof(rc)
               /\ \/ rc = "EAGAIN" /\ Again("close")
                  \/ rc = "error" /\ close_state = "sent" /\ Goto("close_fail")
                  \/ rc # "EAGAIN" /\ ~(rc = "error" /\ close_state = "sent")
                     /\ Goto("close_send")
          /\ UNCHANGED <<local_close, close_state>>

\* Mutant: EAGAIN is an error like any other.
CloseSendAnyway ==
    /\ pc = "close_send"
    /\ EndFrame
    /\ UNCHANGED <<local_eof, local_close, freed>>
    /\ \/ /\ close_state = "sent"
          /\ Goto("close_wait")
          /\ UNCHANGED <<close_state, netVars>>
       \/ /\ close_state # "sent"
          /\ \E s \in SendResults :
               /\ TransportSend([kind |-> "close", n |-> 0], s)
               /\ close_state' = IF s = "ok" THEN "sent" ELSE "created"
               /\ Goto(IF s = "ok" THEN "close_wait" ELSE "close_fail")

\* Any error of the send skips the wait: the channel is closed "anyway".
CloseSend ==
    /\ pc = "close_send"
    /\ EndFrame
    /\ UNCHANGED <<local_eof, local_close, freed>>
    /\ \/ /\ close_state = "sent"
          /\ Goto("close_wait")
          /\ UNCHANGED <<close_state, netVars>>
       \/ /\ close_state # "sent"
          /\ \E s \in SendResults :
               /\ TransportSend([kind |-> "close", n |-> 0], s)
               /\ close_state' = IF s = "ok" THEN "sent" ELSE "created"
               /\ \/ s = "ok" /\ Goto("close_wait")
                  \/ s = "EAGAIN" /\ Again("close")
                  \/ s \in {"BAD_USE", "SOCKET_SEND"} /\ Goto("close_fail")

\* The wait for the remote CLOSE ends at the first packet of any kind.
CloseWait ==
    /\ pc = "close_wait"
    /\ \/ /\ remote_close \/ disconnected
          /\ Goto("close_done")
          /\ EndFrame
          /\ UNCHANGED <<flagVars, netVars>>
       \/ /\ ~remote_close /\ ~disconnected
          /\ \E rc \in ReadResults :
               /\ TransportRead(rc)
               /\ \/ rc = "EAGAIN" /\ Again("close")
                  \/ rc = "packet" /\ Goto("close_done")
                  \/ rc = "error" /\ Goto("close_fail")

CloseDone ==
    /\ pc \in {"close_done", "close_fail"}
    /\ local_close' = TRUE
    /\ close_state' = "idle"
    /\ IF call.op = "free" THEN Goto("free")
       ELSE Return(IF pc = "close_done" THEN "ok" ELSE "error", 0)
    /\ EndFrame
    /\ UNCHANGED <<local_eof, freed, netVars>>

\* The rest of _libssh2_channel_free(): clear out our packets and go.
FreeStep ==
    /\ pc = "free"
    /\ packets' = <<>>
    /\ freed' = TRUE
    /\ Return("ok", 0)
    /\ UNCHANGED <<remote_window_size, ignore_mode, read_state, bytes_read, adjVars,
                   flushVars, writeVars, local_eof, local_close, close_state, netVars,
                   peerVars, read_avail, remote_eof, remote_close, local_window_size,
                   packAdd, kex, disconnected, toClient, received, dropped, arrived, taken>>

WaitEof ==
    /\ pc = "wait_eof"
    /\ \/ /\ remote_eof
          /\ Return("ok", 0)
          /\ EndFrame /\ UNCHANGED <<flagVars, netVars>>
       \/ /\ ~remote_eof /\ remote_window_size = read_avail /\ Blocking
          /\ Return("WINDOW_FULL", 0)
          /\ EndFrame /\ UNCHANGED <<flagVars, netVars>>
       \/ /\ ~remote_eof /\ ~(remote_window_size = read_avail /\ Blocking)
          /\ \E rc \in ReadResults :
               /\ TransportRead(rc)
               /\ \/ rc = "packet" /\ Goto("wait_eof")
                  \/ rc = "EAGAIN" /\ Again("wait_eof")
                  \/ rc = "error" /\ Return("error", 0)

WaitClosed ==
    /\ pc = "wait_closed"
    /\ \/ /\ remote_close
          /\ Return("ok", 0)
          /\ EndFrame /\ UNCHANGED <<flagVars, netVars>>
       \/ /\ ~remote_close
          /\ \E rc \in ReadResults :
               /\ TransportRead(rc)
               /\ \/ rc = "packet" /\ Goto("wait_closed")
                  \/ rc = "EAGAIN" /\ Again("wait_closed")
                  \/ rc = "error" /\ Return("error", 0)

\* A call on another channel of the session delivers one of our packets.
Pump ==
    /\ pc = "app" /\ "pump" \in Ops
    /\ toClient # <<>> \/ packAdd.point # "idle"
    /\ \E rc \in ReadResults : TransportRead(rc)
    /\ UNCHANGED <<pc, call, ret>>

----------------------------------------------------------------------------
(* The peer, which keeps to the windows it was given, and the connection. *)

clientVars == <<remote_window_size, ignore_mode, read_state, bytes_read, pc, call, ret,
                adjVars, flushVars, writeVars, flagVars, read_avail, remote_eof,
                remote_close, local_window_size, packets, packAdd, disconnected,
                received, dropped, arrived, taken>>

\* Between its KEXINIT and the end of the key exchange the peer sends nothing.
PeerSays(kind, stream, n) ==
    /\ link /\ kex = "no" /\ "close" \notin peerDone /\ Len(toClient) < MaxWire
    /\ toClient' = Append(toClient, [kind |-> kind, stream |-> stream, n |-> n,
                                     sent |-> peerSent', granted |-> peerGranted'])
    /\ UNCHANGED <<clientVars, netVars, link, peerAllowed>>

PeerData(s, n) ==
    /\ "eof" \notin peerDone
    /\ n <= PacketSize /\ n <= peerAllowed - peerSent /\ peerSent + n <= MaxSent
    /\ peerSent' = peerSent + n
    /\ UNCHANGED <<kex, peerGranted, peerDone, requests, rekeys>>
    /\ PeerSays("data", s, n)

PeerGrant(n) ==
    /\ peerGranted + n <= MaxPeerGranted
    /\ peerGranted' = peerGranted + n
    /\ UNCHANGED <<kex, peerSent, peerDone, requests, rekeys>>
    /\ PeerSays("adjust", 0, n)

PeerEnds(kind) ==
    /\ kind \notin peerDone
    /\ peerDone' = peerDone \cup {kind}
    /\ UNCHANGED <<kex, peerSent, peerGranted, requests, rekeys>>
    /\ PeerSays(kind, 0, 0)

PeerRequest ==
    /\ requests < MaxRequests
    /\ requests' = requests + 1
    /\ UNCHANGED <<kex, peerSent, peerGranted, peerDone, rekeys>>
    /\ PeerSays("request", 0, 0)

PeerRekey ==
    /\ rekeys < MaxRekeys
    /\ rekeys' = rekeys + 1
    /\ UNCHANGED <<peerSent, peerGranted, peerDone, requests>>
    /\ PeerSays("kexinit", 0, 0)
    /\ kex' = "sent"

KexDone ==
    /\ kex = "active"
    /\ kex' = "no"
    /\ UNCHANGED <<clientVars, netVars, peerVars, toClient>>

PeerReceive ==
    LET m == Head(toPeer)
    IN  /\ toPeer # <<>>
        /\ toPeer' = Tail(toPeer)
        /\ peerAllowed' = peerAllowed + (IF m.kind = "adjust" THEN m.n ELSE 0)
        /\ UNCHANGED <<clientVars, kex, toClient, odata, granted, written, onWire, link,
                       peerSent, peerGranted, peerDone, requests, rekeys>>

LoseLink ==
    /\ MayDrop /\ link
    /\ link' = FALSE
    /\ UNCHANGED <<clientVars, kex, toClient, netVars, peerAllowed, peerSent,
                   peerGranted, peerDone, requests, rekeys>>

----------------------------------------------------------------------------
Init ==
    /\ remote_window_size = Initial /\ read_avail = 0
    /\ remote_eof = FALSE /\ remote_close = FALSE /\ ignore_mode = "NORMAL"
    /\ local_window_size = PeerInitial /\ local_eof = FALSE /\ local_close = FALSE
    /\ adjust_state = "idle" /\ adjust_queue = 0 /\ adjust_adjust = 0
    /\ read_state = "idle"
    /\ flush_state = "idle" /\ flush_refund_bytes = 0 /\ flush_flush_bytes = 0
    /\ write_state = "idle" /\ write_bufwrite = 0
    /\ close_state = "idle" /\ freed = FALSE
    /\ packets = <<>> /\ packAdd = [point |-> "idle", n |-> 0]
    /\ odata = NoPacket /\ kex = "no" /\ disconnected = FALSE
    /\ pc = "app" /\ call = NoCall /\ bytes_read = 0
    /\ ret = NoResult
    /\ toPeer = <<>> /\ toClient = <<>> /\ link = TRUE
    /\ peerAllowed = Initial /\ peerSent = 0 /\ peerGranted = PeerInitial
    /\ peerDone = {} /\ requests = 0 /\ rekeys = 0
    /\ granted = Initial /\ written = 0 /\ received = 0 /\ dropped = 0
    /\ arrived = [s \in Streams |-> 0] /\ taken = [s \in Streams |-> 0]
    /\ onWire = {}

Steps == \/ ReadWiden \/ ReadExpand \/ ReadDrain \/ ReadCopy \/ ReadReturn
         \/ WriteDrain \/ WriteFit \/ WriteSend
         \/ FlushScan \/ FlushRefund \/ AdjustStep
         \/ EofStep \/ CloseEnter \/ CloseSend \/ CloseWait \/ CloseDone
         \/ FreeStep \/ WaitEof \/ WaitClosed

Calls == \/ \E s \in ReadStreams, n \in ReadSizes : CallRead(s, n)
         \/ \E n \in WriteSizes : CallWrite(n)
         \/ \E s \in Streams \cup {2} : CallFlush(s)
         \/ \E n \in AdjustSizes, op \in {"adjust", "adjust_queued"} : CallAdjust(n, op)
         \/ \E m \in Modes : CallMode(m)
         \/ CallWindowRead \/ CallSendEof \/ CallClose \/ CallFree
         \/ CallWaitEof \/ CallWaitClosed

PeerSend == \/ \E s \in PeerStreams, n \in DataSizes : PeerData(s, n)
            \/ \E kind \in {"eof", "close"} : PeerEnds(kind)

Peer == \/ PeerSend \/ PeerReceive \/ KexDone
        \/ \E n \in GrantSizes : PeerGrant(n)
        \/ PeerRequest \/ PeerRekey

Next == Steps \/ Calls \/ Pump \/ Peer \/ LoseLink

Spec == Init /\ [][Next]_vars

\* The client's thread goes on with a call it has begun (in blocking mode it is
\* woken whenever the socket is ready), a socket that is written to over and over
\* takes a packet in the end, the peer reads what it is sent, answers a CLOSE
\* and finishes a key exchange.
Sends == Steps /\ toPeer' # toPeer
PeerAnswersClose == "close" \in onWire /\ toPeer = <<>> /\ PeerEnds("close")

Fairness ==
    /\ WF_vars(Steps)
    /\ SF_vars(Sends)
    /\ WF_vars(PeerReceive)
    /\ WF_vars(PeerAnswersClose)
    /\ WF_vars(KexDone)

FairSpec == Spec /\ Fairness

\* The application also reads on, and the peer has data for it.
ReadingSpec ==
    /\ FairSpec
    /\ SF_vars(\E s \in ReadStreams, n \in ReadSizes : CallRead(s, n))
    /\ WF_vars(\E s \in PeerStreams, n \in DataSizes : PeerData(s, n))

----------------------------------------------------------------------------
(* Properties *)

Pcs == {"app", "widen", "expand", "drain", "copy", "wdrain", "wfit", "wsend", "fscan",
        "frefund", "adjust", "eof", "close", "close_send", "close_wait", "close_done",
        "close_fail", "free", "wait_eof", "wait_closed"}

SendKinds == {"adjust", "data", "eof", "close", "failure"}

Outbound == [kind : SendKinds, n : Int, granted : Int]
Inbound == [kind : {"data", "eof", "close", "adjust", "request", "kexinit"},
            stream : Streams, n : Nat, sent : Int, granted : Int]
Queued == [stream : Streams, size : Nat, left : Nat, upto : Int]

NetType ==
    /\ odata \in [kind : SendKinds, n : Int] \cup {NoPacket}
    /\ toPeer \in Seq(Outbound)
    /\ granted \in Int /\ written \in Int
    /\ onWire \subseteq {"eof", "close"}

AdjustType ==
    /\ remote_window_size \in Int
    /\ adjust_state \in {"idle", "created"}
    /\ adjust_queue \in Int /\ adjust_adjust \in Int

RecvType ==
    /\ read_avail \in Int /\ local_window_size \in Int
    /\ remote_eof \in BOOLEAN /\ remote_close \in BOOLEAN /\ disconnected \in BOOLEAN
    /\ packets \in Seq(Queued)
    /\ packAdd \in [point : {"idle", "jump1", "jump4"}, n : Nat]
    /\ kex \in {"no", "sent", "active"}
    /\ toClient \in Seq(Inbound)
    /\ received \in Int /\ dropped \in Int
    /\ arrived \in [Streams -> Int] /\ taken \in [Streams -> Int]

ControlType ==
    /\ pc \in Pcs
    /\ call \in [op : AllOps \cup {"none"}, stream : Streams \cup {2}, n : Nat]

CallType ==
    /\ ignore_mode \in AllModes
    /\ bytes_read \in Nat
    /\ read_state \in {"idle", "jump1"}
    /\ flush_state \in {"idle", "created"}
    /\ flush_refund_bytes \in Int /\ flush_flush_bytes \in Nat
    /\ write_state \in {"idle", "created"} /\ write_bufwrite \in Nat

FlagType ==
    /\ local_eof \in BOOLEAN /\ local_close \in BOOLEAN /\ freed \in BOOLEAN
    /\ close_state \in {"idle", "created", "sent"}

PeerType ==
    /\ link \in BOOLEAN
    /\ peerAllowed \in Int /\ peerSent \in Int /\ peerGranted \in Int
    /\ peerDone \subseteq {"eof", "close"}
    /\ requests \in Nat /\ rekeys \in Nat

\* Every variable stays in its range, and no step meets a record without the
\* field it reads.
TypeOK == /\ NetType /\ AdjustType /\ RecvType
          /\ ControlType /\ CallType /\ FlagType /\ PeerType

\* remote.window_size less what is queued is what the peer may still send, in
\* flight or not: the two ends agree on the receive window.
WindowAgreement ==
    ~freed => remote_window_size - read_avail = granted - received

\* The peer's view of the receive window is ahead of ours by all of the 32 bits:
\* flush() refunds 4 bytes too few for a packet of DATA, and for one that is shorter
\* the refund wraps to a grant of almost 2^32.
Overdrawn ==
    (granted - (received - dropped)) - (remote_window_size - read_avail) >= Modulus

Undropped == dropped = 0

\* A peer that keeps to its window never loses a byte to packet_add()'s
\* "data ignored" and "truncating" branches, unless a refund has wrapped: no
\* mixture of reads, flushes of anything longer, adjustments and ignored data lets
\* the two counters drift apart.
NoDataDropped == Undropped \/ Overdrawn

\* The packets of one stream in the queue of all: its first, one right behind
\* another, its last.
Leads(i) == \A j \in DOMAIN packets : j < i => packets[j].stream # packets[i].stream
Follows(i, j) ==
    /\ j < i /\ packets[j].stream = packets[i].stream
    /\ \A k \in DOMAIN packets : j < k /\ k < i => packets[k].stream # packets[i].stream
Trails(i) == \A j \in DOMAIN packets : i < j => packets[j].stream # packets[i].stream

\* Of each stream the queue holds what came after the bytes that are taken, up to
\* the last that came: no byte is lost, repeated or out of order, whatever mixture
\* of partial reads, merged streams and flushes empties the queue.
StreamInOrder ==
    /\ \A i \in DOMAIN packets :
         /\ Leads(i) => taken[packets[i].stream] + packets[i].left = packets[i].upto
         /\ \A j \in DOMAIN packets :
              Follows(i, j) => packets[j].upto + packets[i].left = packets[i].upto
         /\ Trails(i) => packets[i].upto = arrived[packets[i].stream]
    /\ \A s \in Streams :
         ~freed /\ (\A i \in DOMAIN packets : packets[i].stream # s) => taken[s] = arrived[s]

\* The bytes that the packets of a queue still hold.
QueuedBytes(list) ==
    LET sum[i \in 0..Len(list)] == IF i = 0 THEN 0 ELSE sum[i - 1] + list[i].left
    IN  sum[Len(list)]

\* read_avail, the counter of "Data immediately available for reading"
\* (libssh2_priv.h), is the number of bytes that read() can take from the queue,
\* whatever mixture of arrivals, partial reads, flushes and mode changes led here.
ReadAvailIsQueued ==
    ~freed /\ pc \notin {"fscan", "frefund"} =>
        read_avail = QueuedBytes(packets) + bytes_read

\* We never write more than the peer granted.
WriteWithinWindow == written <= peerGranted

\* A read that returned 0 said that its stream is over: nothing of the stream
\* is queued or under way, and the peer has ended it.
ZeroReadIsEnd ==
    (ret.op = "read" /\ ret.rc = "ok" /\ ret.val = 0) =>
        /\ peerDone # {}
        /\ \A i \in DOMAIN packets : packets[i].stream # ret.stream
        /\ \A i \in DOMAIN toClient :
              ~(toClient[i].kind = "data" /\ toClient[i].stream = ret.stream)

\* A channel we call closed has its CLOSE on the wire, if there is a wire.
ClosedIsSent == local_close /\ link => "close" \in onWire

\* After EOF or CLOSE no data of ours enters the wire.
NoDataAfterEof == [][written' # written => onWire = {}]_vars

\* The window is refilled: an application that keeps reading never leaves a
\* peer with data to send waiting for credit for ever.
ReaderFeedsPeer == <>(peerSent = MaxSent \/ peerDone # {})

\* A close or a free that has begun comes to its end.
CloseReturns == (call.op \in {"close", "free"}) ~> (pc = "app")
=============================================================================
