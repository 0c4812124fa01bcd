------------------------------ MODULE Transport ------------------------------
(***************************************************************************)
(* The binary packet protocol of libssh2 (transport.c) over a byte stream  *)
(* that takes and gives as much as it likes, with the key exchange         *)
(* (kex.c, packet.c) as far as it sends packets and changes keys.          *)
(*                                                                         *)
(* The stream is counted in cells: a cipher block is Block cells and the   *)
(* length fields, which begin a packet, are the first one.  A cell knows   *)
(* the packet it is a piece of and its place in it; a packet knows the     *)
(* keys and the sequence number it was sealed with (keys 0: in the clear,  *)
(* before the first NEWKEYS), and n, its place among the packets of its    *)
(* direction, which no code can see: it says whose piece a cell is when    *)
(* numbers repeat.  The peer is external and follows RFC 4253.             *)
(* The application sends its messages, repeats a call that returned EAGAIN *)
(* with the same arguments, and reads; every call first runs the key       *)
(* exchange that is under way.                                             *)
(***************************************************************************)
EXTENDS Integers, Sequences, FiniteSetsExt, SequencesExt

CONSTANTS
    Block,      \* cells of a cipher block
    PlainBlock, \* padding unit of a packet in the clear (8 bytes)
    MinPad,     \* least padding (4 bytes)
    MacLen,     \* cells of a MAC
    BufSize,    \* PACKETBUFSIZE, in cells
    MaxPayload, \* LIBSSH2_PACKET_MAXPAYLOAD, in cells
    PayLen,     \* payload of each message, in cells
    UserMsgs,   \* what the application sends, each once
    PeerMsgs,   \* what the peer sends, each once
    SeqnoMod,     \* sequence numbers are counted modulo this (2^32)
    MaxKeys     \* key exchanges of a session (bound)

None == "none"
Messages == DOMAIN PayLen

ASSUME TransportAssumption ==
  /\ {Block, PlainBlock, MinPad, MacLen, BufSize, SeqnoMod} \subseteq Nat \ {0}
  /\ {MaxPayload, MaxKeys} \subseteq Nat
  /\ Block < BufSize
  /\ {"KEXINIT", "NEWKEYS", "REQUEST", "FAILURE"} \subseteq Messages
  /\ \A m \in Messages : PayLen[m] \in Nat \ {0}
  /\ UserMsgs \cup PeerMsgs \subseteq Messages \ {"KEXINIT", "NEWKEYS"}
  /\ None \notin Messages

VARIABLES
    keys,       \* generation of local.crypt, remote.crypt and the MACs
    lseq, rseq, \* local.seqno and remote.seqno
    out,        \* odata and what is left of outbuf
    buf,        \* buf[readidx .. writeidx]
    rx,         \* the packet being collected: its header, total_num, payload
    adding,     \* packAdd_state # idle: the message packet_add() came out of
    queue,      \* the key exchange messages in session->packets
    kst,        \* startup_key_state
    wants,      \* the last transport_read() returned EAGAIN
    sock,       \* "up" or "down"
    outNet, inNet,                  \* cells on their way
    peer,       \* the peer: keys it seals and opens with, numbers, exchange
    garbled,    \* the ends that met a packet they could not open
    outSent, outGot, inSent, inGot  \* messages handed over and opened

libVars == <<keys, lseq, rseq, out, buf, rx, adding, queue, kst, wants>>
netVars == <<sock, outNet, inNet, peer, garbled>>
logVars == <<outSent, outGot, inSent, inGot>>
trVars == <<libVars, netVars, logVars>>

----------------------------------------------------------------------------
(* Framing                                                                 *)

Padding(n, unit) ==
  LET least == unit - ((n + 1) % unit)
  IN  IF least < MinPad THEN least + unit ELSE least

BodyLen(p) == PayLen[p.msg] + Padding(PayLen[p.msg],
                                      IF p.keys = 0 THEN PlainBlock ELSE Block)
Mac(k) == IF k = 0 THEN 0 ELSE MacLen
CellsOf(p) == [i \in 1..(1 + BodyLen(p) + Mac(p.keys)) |-> [p |-> p, i |-> i]]

(* No packet is longer than a reader takes: the sender of the library      *)
(* refuses more than 35000 bytes, as RFC 4253 asks of the peer.            *)
ASSUME FitAssumption ==
  \A m \in Messages, k \in {0, 1} :
    BodyLen([msg |-> m, keys |-> k]) + Mac(k) <= MaxPayload

First(n, s) == SubSeq(s, 1, n)
From(n, s) == SubSeq(s, n + 1, Len(s))

NoPacket == [p |-> [msg |-> None, keys |-> 0, seq |-> 0, n |-> 0], total |-> 0, got |-> <<>>]
Idle == [data |-> None, rest |-> <<>>]

TrInit ==
  /\ \E k \in {0, 1} :
       /\ keys = k
       /\ kst = IF k = 0 THEN "init" ELSE "idle"
       /\ peer = [seals |-> k, opens |-> k, sseq |-> 0, oseq |-> 0,
                  inits |-> k, kex |-> FALSE]
  /\ lseq = 0 /\ rseq = 0 /\ out = Idle /\ buf = <<>> /\ rx = NoPacket
  /\ adding = None /\ queue = <<>> /\ wants = FALSE
  /\ sock = "up" /\ outNet = <<>> /\ inNet = <<>> /\ garbled = {}
  /\ outSent = <<>> /\ outGot = <<>> /\ inSent = <<>> /\ inGot = <<>>

----------------------------------------------------------------------------
(* _libssh2_transport_send() and send_existing()                           *)

Pieces(m) ==
  IF out.data = m THEN out.rest
  ELSE CellsOf([msg |-> m, keys |-> keys, seq |-> lseq, n |-> Len(outSent) + 1])

(* Anything but the packet that is half sent is a LIBSSH2_ERROR_BAD_USE.   *)
MaySend(m) == out.data \in {None, m}

(* The socket takes n cells of the packet, which is new or half sent.      *)
TransportSend(m, n) ==
  /\ sock = "up" /\ MaySend(m)
  /\ n \in 0..Len(Pieces(m))
  /\ outNet' = outNet \o First(n, Pieces(m))
  /\ out' = IF n = Len(Pieces(m)) THEN Idle
            ELSE [data |-> m, rest |-> From(n, Pieces(m))]
  /\ lseq' = IF out.data = m THEN lseq ELSE (lseq + 1) % SeqnoMod
  /\ outSent' = IF out.data = m THEN outSent ELSE Append(outSent, m)
  /\ UNCHANGED <<sock, peer, garbled, outGot, inSent>>

Sent(m, n) == n = Len(Pieces(m))

(* A new packet meets a dead socket: numbered and sealed, and not kept.    *)
SendFails(m) ==
  /\ sock = "down" /\ MaySend(m)
  /\ lseq' = IF out.data = m THEN lseq ELSE (lseq + 1) % SeqnoMod
  /\ UNCHANGED <<out, sock, outNet, peer, garbled, outSent, outGot, inSent>>

----------------------------------------------------------------------------
(* _libssh2_transport_read(): one round of its loop                        *)

ReadBlock == IF keys = 0 THEN 1 ELSE Block

Opened(cells) == [j \in DOMAIN cells |-> [c |-> cells[j], opened |-> TRUE]]
Verbatim(cells) == [j \in DOMAIN cells |-> [c |-> cells[j], opened |-> FALSE]]

(* The first block holds the lengths; what follows them in it is payload.  *)
Begin(have) ==
  LET p == have[1].p
      more == SubSeq(have, 2, ReadBlock)
  IN  [p |-> p, total |-> BodyLen(p) + Mac(keys), got |-> Opened(more)]

(* A first block that is none, or that other keys seal, decrypts to a      *)
(* length that is out of bounds.                                           *)
Readable(have) ==
  /\ have[1].i = 1 /\ have[1].p.keys = keys
  /\ BodyLen(have[1].p) + Mac(keys) <= MaxPayload

(* A bug: a broken block at the end of what was read is copied as it is.   *)
CopyFraction(r, have) ==
  LET n == Min({Len(have), r.total - Len(r.got)})
      body == r.total - Mac(keys) - Len(r.got)
      dec == IF keys = 0 \/ body < 0 THEN 0
             ELSE IF n > body THEN body ELSE n - (n % Block)
  IN  [dec |-> dec, raw |-> n - dec]

(* A bug: the MAC, too, is taken in whole blocks.                          *)
AlignMac(r, have) ==
  LET n == Min({Len(have), r.total - Len(r.got)})
      body == Max({r.total - Mac(keys) - Len(r.got), 0})
  IN  IF keys = 0 THEN [dec |-> 0, raw |-> n]
      ELSE IF n > body THEN [dec |-> body, raw |-> (n - body) - ((n - body) % Block)]
      ELSE [dec |-> n - (n % Block), raw |-> 0]

(* How much of what is there is decrypted and how much copied: whole       *)
(* blocks up to the MAC, which is not encrypted.                           *)
Portion(r, have) ==
  LET n == Min({Len(have), r.total - Len(r.got)})
      body == r.total - Mac(keys) - Len(r.got)
  IN  IF keys = 0 THEN [dec |-> 0, raw |-> n]
      ELSE IF n > body THEN LET d == Max({body, 0}) IN [dec |-> d, raw |-> n - d]
      ELSE [dec |-> n - (n % Block), raw |-> 0]

Collect(r, have) ==
  LET q == Portion(r, have)
  IN  [r EXCEPT !.got = @ \o Opened(First(q.dec, have))
                          \o Verbatim(SubSeq(have, q.dec + 1, q.dec + q.raw))]

(* fullpacket(): the MAC covers the number, the lengths and every cell.    *)
Confirmed(r) ==
  /\ keys # 0 => r.p.seq = rseq
  /\ \A j \in DOMAIN r.got :
       /\ r.got[j].c = [p |-> r.p, i |-> j + 1]
       /\ r.got[j].opened = (keys # 0 /\ j <= BodyLen(r.p))

(* A bug: the packet is forgotten when its answer would block.             *)
HastyAnswer(n) ==
  \/ /\ TransportSend("FAILURE", n)
     /\ adding' = None
     /\ inGot' = IF Sent("FAILURE", n) THEN Append(inGot, "REQUEST") ELSE inGot
  \/ /\ ~MaySend("FAILURE") /\ n = 0
     /\ adding' = None /\ inGot' = Append(inGot, "REQUEST")
     /\ UNCHANGED <<out, lseq, sock, outNet, peer, garbled, outSent, outGot, inSent>>

(* _libssh2_packet_add() for a global request that wants a reply: only     *)
(* EAGAIN keeps the packet, any other error of the send is not looked at.  *)
Answer(n) ==
  \/ /\ TransportSend("FAILURE", n)
     /\ IF Sent("FAILURE", n)
        THEN adding' = None /\ inGot' = Append(inGot, "REQUEST")
        ELSE adding' = "REQUEST" /\ UNCHANGED inGot
  \/ /\ ~MaySend("FAILURE") /\ n = 0
     /\ adding' = None /\ inGot' = Append(inGot, "REQUEST")
     /\ UNCHANGED <<out, lseq, sock, outNet, peer, garbled, outSent, outGot, inSent>>
  \/ /\ SendFails("FAILURE") /\ n = 0
     /\ adding' = None /\ inGot' = Append(inGot, "REQUEST")

(* _libssh2_packet_add(): a KEXINIT outside an exchange starts one, after  *)
(* the state of the read has been reset.                                   *)
PacketAdd(m) ==
  /\ inGot' = Append(inGot, m)
  /\ adding' = None
  /\ queue' = IF m \in {"KEXINIT", "NEWKEYS"} THEN Append(queue, m) ELSE queue
  /\ kst' = IF m = "KEXINIT" /\ kst = "idle" THEN "init" ELSE kst
  /\ UNCHANGED <<out, lseq, outNet, peer, garbled, outSent, outGot, inSent>>

(* A full packet: its number is spent whether or not it is valid.          *)
FullPacket(r, n) ==
  /\ rseq' = (rseq + 1) % SeqnoMod
  /\ rx' = NoPacket
  /\ IF ~Confirmed(r)
     THEN /\ garbled' = garbled \cup {"library"}
          /\ UNCHANGED <<out, lseq, adding, queue, kst, outNet, peer, logVars>>
     ELSE \/ /\ r.p.msg = "REQUEST"
             /\ Answer(n)
             /\ UNCHANGED <<queue, kst>>
          \/ /\ r.p.msg # "REQUEST" /\ n = 0
             /\ PacketAdd(r.p.msg)

(* What the read does with the cells it has: they are too few for the      *)
(* lengths, they are no packet, or they complete the packet or part of it. *)
Use(have, n) ==
  LET begins == rx.total = 0
      r1 == IF begins THEN Begin(have) ELSE rx
      h1 == IF begins THEN From(ReadBlock, have) ELSE have
      r2 == Collect(r1, h1)
      q == Portion(r1, h1)
      out1 == <<out, lseq, adding, queue, kst, outNet, peer, logVars>>
  IN  \/ /\ begins /\ Len(have) < ReadBlock /\ n = 0
         /\ buf' = have /\ wants' = TRUE
         /\ UNCHANGED <<out1, rx, rseq, garbled>>
      \/ /\ begins /\ Len(have) >= ReadBlock /\ ~Readable(have) /\ n = 0
         /\ buf' = From(ReadBlock, have) /\ wants' = FALSE
         /\ garbled' = garbled \cup {"library"}
         /\ UNCHANGED <<out1, rx, rseq>>
      \/ /\ begins => Len(have) >= ReadBlock /\ Readable(have)
         /\ buf' = From(q.dec + q.raw, h1) /\ wants' = FALSE
         /\ IF Len(r2.got) = r2.total THEN FullPacket(r2, n)
            ELSE /\ n = 0 /\ rx' = r2
                 /\ UNCHANGED <<out1, rseq, garbled>>

(* recv() gives k cells, none if it would block or fails; it is not asked  *)
(* while a whole block is at hand.                                         *)
TransportRead(k, n) ==
  /\ adding = None
  /\ UNCHANGED keys
  /\ \/ /\ Len(buf) < ReadBlock /\ sock = "up"
        /\ k \in 1..Min({BufSize - Len(buf), Len(inNet)})
        /\ inNet' = From(k, inNet) /\ UNCHANGED sock
        /\ Use(buf \o First(k, inNet), n)
     \/ /\ Len(buf) >= ReadBlock /\ k = 0
        /\ UNCHANGED <<inNet, sock>>
        /\ Use(buf, n)
     \/ /\ Len(buf) < ReadBlock /\ k = 0 /\ n = 0
        /\ sock = "up" => inNet = <<>>
        /\ wants' = TRUE
        /\ UNCHANGED <<lseq, rseq, out, buf, rx, adding, queue, kst, netVars, logVars>>

(* The read comes back, at point1, to the packet that packet_add() left:   *)
(* fullpacket_state keeps it from being counted and checked again.         *)
ReadResumes(n) ==
  /\ adding # None
  /\ Answer(n)
  /\ wants' = FALSE
  /\ UNCHANGED <<keys, rseq, buf, rx, queue, kst, inNet>>

----------------------------------------------------------------------------
(* The calls of the application                                            *)

(* No packet of the application passes while keys are being exchanged.     *)
Free == keys > 0 /\ kst = "idle"

UserSend(m, n) ==
  /\ Free
  /\ m \notin ToSet(outSent) \/ out.data = m
  /\ TransportSend(m, n)
  /\ UNCHANGED <<keys, rseq, buf, rx, adding, queue, kst, wants, inNet, inGot>>

UserSendFails(m) ==
  /\ Free
  /\ m \notin ToSet(outSent) \/ out.data = m
  /\ SendFails(m)
  /\ UNCHANGED <<keys, rseq, buf, rx, adding, queue, kst, wants, inNet, inGot>>

UserRead(k, n) == Free /\ TransportRead(k, n)
UserResumes(n) == Free /\ ReadResumes(n)

----------------------------------------------------------------------------
(* _libssh2_kex_exchange(), as far as the transport can see it             *)

KexMsg == IF kst = "init" THEN "KEXINIT" ELSE "NEWKEYS"
KexNeeds == IF kst = "peer" THEN "KEXINIT" ELSE "NEWKEYS"

KexSend(n) ==
  /\ kst \in {"init", "newkeys"}
  /\ TransportSend(KexMsg, n)
  /\ kst' = IF ~Sent(KexMsg, n) THEN kst
            ELSE IF kst = "init" THEN "peer" ELSE "await"
  /\ UNCHANGED <<keys, rseq, buf, rx, adding, queue, wants, inNet, inGot>>

(* A send that fails ends the exchange; packet_add() does not look at it.  *)
KexGivesUp ==
  /\ kst \in {"init", "newkeys"}
  /\ \/ /\ ~MaySend(KexMsg)
        /\ UNCHANGED <<out, lseq, netVars, logVars>>
     \/ SendFails(KexMsg) /\ UNCHANGED <<inNet, inGot>>
  /\ kst' = "idle"
  /\ UNCHANGED <<keys, rseq, buf, rx, adding, queue, wants>>

KexRead(k, n) ==
  /\ kst \in {"peer", "await"}
  /\ KexNeeds \notin ToSet(queue)
  /\ TransportRead(k, n)

(* packet_require() finds what it looks for; after NEWKEYS both directions *)
(* use the new keys.                                                       *)
KexTakes ==
  /\ kst \in {"peer", "await"}
  /\ \E i \in DOMAIN queue :
       /\ queue[i] = KexNeeds /\ \A j \in 1..i - 1 : queue[j] # KexNeeds
       /\ queue' = RemoveAt(queue, i)
  /\ keys' = IF kst = "await" THEN keys + 1 ELSE keys
  /\ kst' = IF kst = "peer" THEN "newkeys" ELSE "idle"
  /\ UNCHANGED <<lseq, rseq, out, buf, rx, adding, wants, netVars, logVars>>

(* A read of a dead socket fails the exchange.                             *)
KexReadFails ==
  /\ kst \in {"peer", "await"} /\ KexNeeds \notin ToSet(queue)
  /\ sock = "down" /\ Len(buf) < ReadBlock
  /\ kst' = "idle"
  /\ UNCHANGED <<keys, lseq, rseq, out, buf, rx, adding, queue, wants, netVars, logVars>>

----------------------------------------------------------------------------
(* The peer and the connection                                             *)

PeerSends(m) ==
  /\ sock = "up"
  /\ inNet' = inNet \o CellsOf([msg |-> m, keys |-> peer.seals, seq |-> peer.sseq,
                                n |-> Len(inSent) + 1])
  /\ inSent' = Append(inSent, m)
  /\ UNCHANGED <<libVars, sock, outNet, garbled, outSent, outGot, inGot>>

PeerSpeaks(m) ==
  /\ ~peer.kex /\ peer.seals > 0 /\ m \notin ToSet(inSent)
  /\ peer' = [peer EXCEPT !.sseq = (@ + 1) % SeqnoMod]
  /\ PeerSends(m)

PeerKexinit ==
  /\ ~peer.kex /\ peer.seals = peer.opens /\ peer.seals < MaxKeys
  /\ peer' = [peer EXCEPT !.sseq = (@ + 1) % SeqnoMod, !.kex = TRUE]
  /\ PeerSends("KEXINIT")

PeerNewkeys ==
  /\ peer.kex /\ peer.inits > peer.seals
  /\ peer' = [peer EXCEPT !.sseq = (@ + 1) % SeqnoMod, !.kex = FALSE, !.seals = @ + 1]
  /\ PeerSends("NEWKEYS")

(* The peer opens the next packet as soon as all of it is there.           *)
PeerOpens ==
  /\ outNet # <<>> /\ Len(outNet) >= Len(CellsOf(outNet[1].p))
  /\ LET p == outNet[1].p
         whole == CellsOf(p)
     IN  /\ outNet' = From(Len(whole), outNet)
         /\ IF /\ First(Len(whole), outNet) = whole /\ p.keys = peer.opens
               /\ p.keys # 0 => p.seq = peer.oseq
            THEN /\ outGot' = Append(outGot, p.msg)
                 /\ peer' = [peer EXCEPT
                      !.oseq = (@ + 1) % SeqnoMod,
                      !.inits = IF p.msg = "KEXINIT" THEN @ + 1 ELSE @,
                      !.opens = IF p.msg = "NEWKEYS" THEN @ + 1 ELSE @]
                 /\ UNCHANGED garbled
            ELSE /\ garbled' = garbled \cup {"peer"}
                 /\ UNCHANGED <<outGot, peer>>
  /\ UNCHANGED <<libVars, sock, inNet, outSent, inSent, inGot>>

SocketBreaks ==
  /\ sock = "up" /\ sock' = "down"
  /\ UNCHANGED <<libVars, outNet, inNet, peer, garbled, logVars>>

----------------------------------------------------------------------------
(* How much recv() may give and send() may take in one call.               *)
Gives == 0..BufSize
Takes == 0..(MaxPayload + 1)

TrNext ==
  \/ \E m \in UserMsgs, n \in Takes : UserSend(m, n)
  \/ \E m \in UserMsgs : UserSendFails(m)
  \/ \E k \in Gives, n \in Takes : UserRead(k, n)
  \/ \E n \in Takes : UserResumes(n) \/ KexSend(n)
  \/ \E k \in Gives, n \in Takes : KexRead(k, n)
  \/ KexTakes \/ KexGivesUp \/ KexReadFails
  \/ \E m \in PeerMsgs : PeerSpeaks(m)
  \/ PeerKexinit \/ PeerNewkeys \/ PeerOpens \/ SocketBreaks

(* The application repeats its calls, the socket in time takes and gives   *)
(* at least one cell, and the peer reads and answers.                      *)
Progress == Takes \ {0}

TrSpec ==
  /\ TrInit /\ [][TrNext]_trVars
  /\ WF_trVars(\E m \in UserMsgs, n \in Progress : out.data = m /\ UserSend(m, n))
  /\ WF_trVars(\E k \in Gives, n \in Takes : UserRead(k, n))
  /\ WF_trVars(\E n \in Progress : UserResumes(n))
  /\ WF_trVars(\E n \in Progress : KexSend(n))
  /\ WF_trVars(\E k \in Gives, n \in Takes : KexRead(k, n))
  /\ WF_trVars(KexTakes \/ KexGivesUp \/ KexReadFails)
  /\ WF_trVars(PeerNewkeys) /\ WF_trVars(PeerOpens)

----------------------------------------------------------------------------
(* Neither end ever meets a packet it cannot open: however the stream is   *)
(* cut, whole blocks are decrypted and the MAC is not, both ends count the *)
(* packets alike, nothing is put between the pieces of a packet, and the   *)
(* keys change at the same packet of each direction, with packets under    *)
(* the new keys already in the buffer (transport.c:332-612, 689-927).      *)
NeverGarbled == garbled = {}

(* A transport_read() that returns EAGAIN leaves no complete packet in the *)
(* session's buffer: the application then waits for the socket, which will *)
(* not become readable for bytes that have been read from it already       *)
(* (transport.c:355-420).                                                  *)
NothingHidden ==
  wants => IF rx.total # 0 THEN Len(buf) < rx.total - Len(rx.got)
           ELSE buf = <<>> \/ Len(buf) < Len(CellsOf(buf[1].p))

(* The transport implements two queues of whole messages: each message is  *)
(* opened at the other end once, in order, and while the socket lasts it   *)
(* gets there, across partial reads and writes, packets that wait for      *)
(* their answer and changes of keys.                                       *)
W == INSTANCE Wire WITH broken <- (sock = "down")
IsWire == W!WireSpec
IsWireSafely == W!WireSafety

(* "Remote wants new keys" (packet.c:1122): an exchange the peer begins    *)
(* comes to its end.                                                       *)
ExchangeEnds == peer.kex ~> (~peer.kex \/ sock = "down")
============================================================================
