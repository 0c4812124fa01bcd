----------------------------- MODULE ChannelInv -----------------------------
(***************************************************************************)
(* The inductive invariants behind the theorems of ChannelProofs and       *)
(* ChannelSafety.  TLC checks them on the instances of MCChannel.          *)
(***************************************************************************)
EXTENDS Channel

\* A queue of messages that carry running totals: the total before the queue is
\* at most lo, every message adds its amount, and the total is at most hi.
Credit(m) == IF m.kind = "adjust" THEN m.n ELSE 0
Bytes(m) == IF m.kind = "data" THEN m.n ELSE 0

----------------------------------------------------------------------------
(* What we may write. *)

GrantStamps ==
    /\ written + local_window_size <= peerGranted
    /\ \A i \in DOMAIN toClient :
         /\ toClient[i].granted <= peerGranted
         /\ written + local_window_size + Credit(toClient[i]) <= toClient[i].granted
    /\ \A i, j \in DOMAIN toClient :
         i < j => toClient[i].granted + Credit(toClient[j]) <= toClient[j].granted

\* A write that was interrupted keeps its packet and the room for it.
WriteHeld ==
    /\ local_window_size >= 0
    /\ write_state = "created" => write_bufwrite <= local_window_size
    /\ pc = "wsend" => write_state = "created"
    /\ pc \in {"wdrain", "wfit"} => write_state = "idle"
    /\ link /\ odata.kind = "data" => write_state = "created" /\ odata.n = write_bufwrite

\* The inductive strengthening of WriteWithinWindow: the window we count down
\* in _libssh2_channel_write(), with what is written and with every WINDOW_ADJUST
\* that packet_add() has still to add to it, never exceeds what the peer granted.
SendInv == GrantStamps /\ WriteHeld

----------------------------------------------------------------------------
(* What the peer may send. *)

\* The use of the library under which the receive window is exact: blocking mode
\* without a timeout, no flush, no queued adjustment, no ignored stderr, no channel
\* request that wants a reply, and windows that fit in 32 bits.
Disciplined ==
    /\ Blocking /\ ~MayTimeout
    /\ Ops \cap {"flush", "adjust_queued"} = {}
    /\ "IGNORE" \notin Modes
    /\ MaxRequests = 0
    /\ MaxWindow < Modulus
    /\ \A n \in ReadSizes : 2 * n < Modulus /\ Initial + n + MinAdjust < Modulus

DataStamps ==
    /\ received <= peerSent
    /\ \A i \in DOMAIN toClient :
         /\ toClient[i].sent <= peerSent
         /\ received + Bytes(toClient[i]) <= toClient[i].sent
         /\ Bytes(toClient[i]) <= PacketSize
         /\ toClient[i].kind # "request"
    /\ \A i, j \in DOMAIN toClient :
         i < j => toClient[i].sent + Bytes(toClient[j]) <= toClient[j].sent

CreditStamps ==
    /\ peerSent <= peerAllowed
    /\ peerAllowed <= granted
    /\ \A i \in DOMAIN toPeer :
         /\ Credit(toPeer[i]) >= 0
         /\ toPeer[i].granted <= granted
         /\ peerAllowed + Credit(toPeer[i]) <= toPeer[i].granted
    /\ \A i, j \in DOMAIN toPeer :
         i < j => toPeer[i].granted + Credit(toPeer[j]) <= toPeer[j].granted

\* The bytes in the queue of packets lie between taken and arrived.
QueueStamps ==
    /\ \A s \in Streams : taken[s] <= arrived[s]
    /\ \A i \in DOMAIN packets :
         /\ packets[i].upto <= arrived[packets[i].stream]
         /\ taken[packets[i].stream] + packets[i].left <= packets[i].upto
    /\ \A i, j \in DOMAIN packets :
         i < j /\ packets[i].stream = packets[j].stream =>
             packets[i].upto + packets[j].left <= packets[j].upto
    /\ ~freed => read_avail - bytes_read =
                   (arrived[0] - taken[0]) + (arrived[1] - taken[1])

\* The call that is running, by where it is.
Running ==
    /\ pc \in {"widen", "expand", "drain", "copy"} => call.n \in ReadSizes
    /\ pc # "app" => ~freed
    /\ pc \notin {"fscan", "frefund"}
    /\ pc = "adjust" => call.op = "adjust" /\ call.n \in AdjustSizes
    /\ packAdd.point = "idle" /\ ignore_mode # "IGNORE" /\ requests = 0

\* A WINDOW_ADJUST that waits for the socket is the one its call asked for, and
\* the window it will make fits in 32 bits.
AdjustHeld ==
    /\ link => adjust_queue = 0
    /\ pc = "widen" => remote_window_size < call.n
    /\ pc = "adjust" /\ link => remote_window_size + call.n < Modulus
    /\ link /\ read_state = "jump1" =>
         /\ pc = "expand" /\ adjust_state = "created"
         /\ remote_window_size < (Initial \div 4) * 3 + call.n
    /\ link /\ adjust_state = "created" =>
         \/ pc \in {"widen", "adjust"} /\ adjust_adjust = call.n
         \/ pc = "expand" /\ read_state = "jump1" /\ adjust_adjust = ExpandBy

\* A packet that is half sent belongs to the call that is running.
PendingHeld ==
    link => /\ odata.kind = "adjust" => adjust_state = "created" /\ odata.n = adjust_adjust
            /\ odata.kind = "data" => pc = "wsend"
            /\ odata.kind = "eof" =>
                 pc = "eof" \/ (pc = "close" /\ ~local_eof /\ ~local_close)
            /\ odata.kind = "close" =>
                 /\ pc \in {"close", "close_send"}
                 /\ local_eof /\ ~local_close /\ close_state # "sent"
            /\ pc = "close_send" => local_eof /\ ~local_close
            /\ odata.kind # "failure"

\* The inductive strengthening of WindowAgreement and Undropped.
RecvInv == /\ WindowAgreement /\ Undropped
           /\ DataStamps /\ CreditStamps /\ QueueStamps
           /\ Running /\ AdjustHeld /\ PendingHeld

\* Under the same discipline, the inductive strengthening of ClosedIsSent and
\* NoDataAfterEof.
CloseInv ==
    link => /\ local_close => "close" \in onWire
            /\ close_state = "sent" => "close" \in onWire
            /\ pc \in {"close_wait", "close_done", "close_fail"} => "close" \in onWire
            /\ onWire # {} => local_eof
            /\ pc \in {"wdrain", "wfit", "wsend"} => ~local_eof
            /\ write_state = "created" => pc = "wsend"

----------------------------------------------------------------------------
(* What read_avail counts. *)

\* The use of flush() under which read_avail is exact: no call is interrupted (an
\* interrupted flush takes its bytes off again), and the sizes fit in 32 bits.
FlushesAtOnce ==
    "flush" \in Ops =>
        /\ ~MayBlock /\ MaxRekeys = 0
        /\ Initial < Modulus /\ MinAdjust < Modulus /\ HeadSlack < Modulus
        /\ \A n \in ReadSizes : Initial + n < Modulus
        /\ \A n \in AdjustSizes : n < Modulus

\* No packet is half sent, no key exchange holds the wire, no packet is to be resumed.
NothingHeld ==
    /\ odata = NoPacket /\ kex = "no" /\ packAdd.point = "idle"
    /\ \A i \in DOMAIN toClient : toClient[i].kind # "kexinit"

\* The counters are 32 bits wide.  (adjust_queue may be short of 0 by the data that
\* was ignored at a full window.)
Within(x) == 0 <= x /\ x < Modulus
Widths ==
    /\ Within(remote_window_size) /\ Within(flush_refund_bytes)
    /\ ~freed => Within(read_avail)
    /\ -Modulus < adjust_queue /\ adjust_queue < Modulus
    /\ \A i \in DOMAIN packets : packets[i].size < Modulus

\* No flush is left half done, and the sizes are those the application chose.
CallsWhole ==
    /\ flush_state = "created" => pc = "frefund"
    /\ pc \in {"widen", "expand", "drain", "copy"} => call.n \in ReadSizes
    /\ pc = "adjust" => call.n \in AdjustSizes

\* The bytes counted are those in the queue, those a read has copied and those a
\* flush has removed.
Flushing == {"fscan", "frefund"}
Counted ==
    ~freed => read_avail = QueuedBytes(packets) + bytes_read
                + IF pc \in Flushing THEN flush_flush_bytes ELSE 0

\* The inductive strengthening of ReadAvailIsQueued.
CountInv ==
    /\ Counted
    /\ freed => pc = "app"
    /\ pc \in Flushing => "flush" \in Ops
    /\ "flush" \in Ops => NothingHeld /\ Widths /\ CallsWhole

----------------------------------------------------------------------------
(* The end of what the peer sends. *)

Ends == {"eof", "close"}
Ended == remote_eof \/ remote_close

\* The end is the last there is of the data: it comes behind all of it, and what
\* is behind it on the wire, or comes once it is known, holds none.
EndIsLast ==
    /\ Ended => peerDone # {}
    /\ \A i \in DOMAIN toClient :
         /\ toClient[i].kind \in Ends => peerDone # {}
         /\ toClient[i].kind = "data" => ~Ended
    /\ \A i, j \in DOMAIN toClient :
         i < j /\ toClient[i].kind \in Ends => toClient[j].kind # "data"

Reading == {"widen", "expand", "drain", "copy"}
SaidZero == ret.op = "read" /\ ret.rc = "ok" /\ ret.val = 0

\* The inductive strengthening of ZeroReadIsEnd: a read that said 0 said it at the
\* end, with nothing of its stream in the queue, and only reads say it.
ZeroInv ==
    /\ EndIsLast
    /\ call.op = "read" => pc \in Reading /\ call.n > 0
    /\ SaidZero => Ended /\ \A i \in DOMAIN packets : packets[i].stream # ret.stream
=============================================================================
