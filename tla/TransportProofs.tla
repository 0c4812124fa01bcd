-------------------------- MODULE TransportProofs --------------------------
(***************************************************************************)
(* The transport implements two queues of whole messages, whatever the     *)
(* sizes of blocks, MACs, packets and buffers, and however the stream is   *)
(* cut.                                                                    *)
(***************************************************************************)
EXTENDS Transport, SequenceTheorems, TLAPS

Packet == [msg : Messages, keys : Nat, seq : Nat, n : Nat \ {0}]
Size(p) == 1 + BodyLen(p) + Mac(p.keys)
Cell == [p : Packet, i : Nat \ {0}]

(* Number, sequence number and keys: of a packet and of the one after it.  *)
At(p) == [n |-> p.n, seq |-> p.seq, keys |-> p.keys]
AfterKeys(p) == IF p.msg = "NEWKEYS" THEN p.keys + 1 ELSE p.keys
Succ(p) == [n |-> p.n + 1, seq |-> (p.seq + 1) % SeqnoMod, keys |-> AfterKeys(p)]

(* Cells in the order in which the messages of sent were handed over: the  *)
(* pieces of a packet are together, and each packet is sealed for the      *)
(* place after the one before it.                                          *)
Whose(c, sent) ==
  /\ c.p.n \in DOMAIN sent /\ sent[c.p.n] = c.p.msg
  /\ c.i <= Size(c.p)
Together(s) ==
  \A j, k \in 1..Len(s) : j <= k =>
    IF k - j <= Size(s[j].p) - s[j].i
    THEN s[k] = [p |-> s[j].p, i |-> s[j].i + (k - j)]
    ELSE s[k].p.n > s[j].p.n
Linked(s) ==
  \A j \in 1..Len(s) - 1 : s[j].i = Size(s[j].p) =>
    s[j + 1].i = 1 /\ At(s[j + 1].p) = Succ(s[j].p)
Chain(s, sent) ==
  /\ s \in Seq(Cell)
  /\ \A j \in 1..Len(s) : Whose(s[j], sent)
  /\ Together(s) /\ Linked(s)

(* The cells begin at place hd, and the next packet will have place tl.    *)
Begins(s, hd) == s # <<>> => s[1].i = 1 /\ At(s[1].p) = hd
Ends(s, tl) ==
  s # <<>> => /\ s[Len(s)].i = Size(s[Len(s)].p) /\ Succ(s[Len(s)].p) = tl
              /\ \A j \in 1..Len(s) : AfterKeys(s[j].p) <= tl.keys

----------------------------------------------------------------------------
Got == [c : Cell, opened : BOOLEAN]
Part == [p : Packet, total : Nat, got : Seq(Got)]

Types ==
  /\ keys \in Nat /\ lseq \in Nat /\ rseq \in Nat
  /\ out \in [data : Messages \cup {None}, rest : Seq(Cell)]
  /\ buf \in Seq(Cell) /\ outNet \in Seq(Cell) /\ inNet \in Seq(Cell)
  /\ rx \in Part \cup {NoPacket}
  /\ adding \in {None, "REQUEST"}
  /\ kst \in {"idle", "init", "peer", "newkeys", "await"}
  /\ wants \in BOOLEAN /\ sock \in {"up", "down"}
  /\ peer \in [seals : Nat, opens : Nat, sseq : Nat, oseq : Nat, inits : Nat, kex : BOOLEAN]
  /\ outSent \in Seq(Messages) /\ outGot \in Seq(Messages)
  /\ inSent \in Seq(Messages) /\ inGot \in Seq(Messages)

(* From the library to the peer.                                           *)
OutCells == outNet \o out.rest
OutHead == [n |-> Len(outGot) + 1, seq |-> peer.oseq, keys |-> peer.opens]
OutKeys ==
  IF kst = "await" \/ (kst = "newkeys" /\ out.data = "NEWKEYS") THEN keys + 1 ELSE keys
OutTail == [n |-> Len(outSent) + 1, seq |-> lseq, keys |-> OutKeys]

OutStream ==
  /\ out.data = None <=> out.rest = <<>>
  /\ Chain(OutCells, outSent) /\ Begins(OutCells, OutHead)
  /\ sock = "up" => Ends(OutCells, OutTail) /\ (OutCells = <<>> => OutHead = OutTail)

(* From the peer to the library, which has taken the first Taken packets.  *)
InCells == buf \o inNet
Taken == Len(inGot) + (IF adding = None THEN 0 ELSE 1)
InKeys == IF queue = <<"NEWKEYS">> THEN keys + 1 ELSE keys
InHead == [n |-> Taken + 1, seq |-> rseq, keys |-> InKeys]
InTail == [n |-> Len(inSent) + 1, seq |-> peer.sseq, keys |-> peer.seals]

InStream ==
  /\ adding = "REQUEST" => Len(inGot) < Len(inSent) /\ inSent[Len(inGot) + 1] = "REQUEST"
  /\ Chain(InCells, inSent) /\ Ends(InCells, InTail)
  /\ rx.total = 0 => Begins(InCells, InHead) /\ (InCells = <<>> => InHead = InTail)

(* The packet being collected, of which t is the rest and what follows it. *)
Piece(r, t) ==
  /\ r.p \in Packet /\ At(r.p) = InHead /\ r.p.keys = keys
  /\ r.total = BodyLen(r.p) + Mac(keys)
  /\ r.got \in Seq(Got) /\ Len(r.got) < r.total
  /\ \A j \in 1..Len(r.got) :
       /\ r.got[j].c = [p |-> r.p, i |-> j + 1]
       /\ r.got[j].opened = (keys # 0 /\ j <= BodyLen(r.p))
  /\ t # <<>> /\ t[1] = [p |-> r.p, i |-> Len(r.got) + 2]
Collecting == Piece(rx, InCells) /\ Len(buf) < rx.total - Len(rx.got)

RxInv == IF rx.total = 0 THEN rx = NoPacket ELSE Collecting

(* NEWKEYS comes after KEXINIT and only there.                             *)
PeerOrder ==
  /\ \A j \in 1..Len(inSent) - 1 : inSent[j] = "KEXINIT" <=> inSent[j + 1] = "NEWKEYS"
  /\ Len(inSent) > 0 => inSent[1] # "NEWKEYS"
  /\ peer.kex <=> Len(inSent) > 0 /\ inSent[Len(inSent)] = "KEXINIT"
  /\ keys = 0 /\ Len(inSent) > 0 => inSent[1] = "KEXINIT"
  /\ peer.seals = 0 => keys = 0

LastTaken(m) == Taken > 0 /\ inSent[Taken] = m
AllTaken == Taken = Len(inSent)

(* Our KEXINIT on its way.                                                 *)
NoInit == \A j \in 1..Len(OutCells) : OutCells[j].p.msg # "KEXINIT"
LastInit ==
  \A j \in 1..Len(OutCells) : OutCells[j].p.msg = "KEXINIT" =>
    OutCells[j].p.n = Len(outSent) /\ out.data = "KEXINIT"
OneInit ==
  \A j, k \in 1..Len(OutCells) :
    OutCells[j].p.msg = "KEXINIT" /\ OutCells[k].p.msg = "KEXINIT" =>
      OutCells[j].p.n = OutCells[k].p.n

Asked ==
  /\ peer.seals <= keys + 1
  /\ sock = "up" => \/ peer.inits = keys /\ peer.seals = keys /\ OneInit
                    \/ peer.inits = keys + 1 /\ NoInit

Still == buf = <<>> /\ rx = NoPacket

(* Where the library is in the exchange of keys, and where the peer is.    *)
Normal ==
  /\ kst = "idle" /\ keys > 0 /\ queue = <<>> /\ ~LastTaken("KEXINIT")
  /\ peer.seals = keys
  /\ sock = "up" => peer.inits = keys /\ NoInit
(* The KEXINIT of the peer was not answered: another packet is half sent.  *)
Refused ==
  /\ kst = "idle" /\ keys > 0 /\ queue = <<"KEXINIT">> /\ LastTaken("KEXINIT")
  /\ AllTaken /\ peer.seals = keys
  /\ sock = "up" => peer.inits = keys /\ NoInit
Dead == kst = "idle" /\ sock = "down" /\ (keys = 0 \/ Len(buf) < ReadBlock)
        /\ queue # <<"NEWKEYS">>
Offer ==
  /\ kst = "init" /\ adding = None /\ peer.seals = keys
  /\ IF keys = 0 THEN Taken = 0 /\ queue = <<>>
     ELSE queue = <<"KEXINIT">> /\ LastTaken("KEXINIT") /\ AllTaken
  /\ sock = "up" => peer.inits = keys /\ LastInit
  /\ keys = 0 => out.data \in {None, "KEXINIT"}
Peer ==
  /\ kst = "peer" /\ adding = None /\ out.data = None /\ Asked
  /\ \/ keys = 0 /\ Taken = 0 /\ queue = <<>>
     \/ queue = <<"KEXINIT">> /\ LastTaken("KEXINIT")
  /\ keys > 0 => Still
Newkeys ==
  /\ kst = "newkeys" /\ adding = None /\ out.data \in {None, "NEWKEYS"} /\ Asked
  /\ queue = <<>> /\ LastTaken("KEXINIT")
  /\ keys > 0 => Still
Await ==
  /\ kst = "await" /\ adding = None /\ out.data = None /\ Asked
  /\ \/ queue = <<>> /\ LastTaken("KEXINIT")
     \/ queue = <<"NEWKEYS">> /\ LastTaken("NEWKEYS") /\ peer.seals = keys + 1 /\ rx = NoPacket

Phase == Normal \/ Refused \/ Dead \/ Offer \/ Peer \/ Newkeys \/ Await

Woken == wants /\ rx.total = 0 /\ buf # <<>> => Len(buf) < Size(buf[1].p)

TrInv ==
  /\ Types /\ OutStream /\ InStream /\ RxInv /\ PeerOrder /\ Phase /\ Woken
  /\ NeverGarbled

----------------------------------------------------------------------------
(* Numbers and sequences                                                   *)

(* A remainder is less than the divisor, and no more than the number: the  *)
(* padding of a packet, and the sequence number after its wrap.            *)
LEMMA Modulo == ASSUME NEW x \in Nat, NEW u \in Nat \ {0}
                PROVE  x % u \in 0..(u - 1) /\ x % u <= x
  OBVIOUS

(* The lesser of two numbers, as transport_read() takes it of what is      *)
(* there and what is missing.                                              *)
LEMMA Minimum == ASSUME NEW a \in Int, NEW b \in Int
                 PROVE  Min({a, b}) = IF a <= b THEN a ELSE b
  BY DEF Min

(* The greater of two numbers, as transport_read() takes it of zero and    *)
(* what is left to decrypt.                                                *)
LEMMA Maximum == ASSUME NEW a \in Int, NEW b \in Int
                 PROVE  Max({a, b}) = IF a >= b THEN a ELSE b
  BY DEF Max

(* The padding of transport_send() makes a sealed packet at least a cipher *)
(* block long, and no packet is longer than a reader takes.                *)
LEMMA Sizes ==
  ASSUME NEW p \in Packet
  PROVE  /\ BodyLen(p) \in Nat \ {0} /\ Mac(p.keys) \in Nat
         /\ Size(p) \in Nat /\ Size(p) = 1 + BodyLen(p) + Mac(p.keys)
         /\ p.keys # 0 => 1 + BodyLen(p) >= Block /\ Mac(p.keys) = MacLen
         /\ p.keys = 0 => Mac(p.keys) = 0
         /\ BodyLen(p) + Mac(p.keys) <= MaxPayload
<1> DEFINE n == PayLen[p.msg]
           u == IF p.keys = 0 THEN PlainBlock ELSE Block
<1>1. n \in Nat \ {0} /\ u \in Nat \ {0} /\ MinPad \in Nat /\ MacLen \in Nat /\ MaxPayload \in Nat
  BY TransportAssumption DEF Packet
<1>2. (n + 1) % u \in 0..(u - 1) /\ (n + 1) % u <= n + 1
  <2>1. n + 1 \in Nat
    BY <1>1
  <2> HIDE DEF n, u
  <2> QED
    BY <1>1, <2>1, Modulo
<1>3. Padding(n, u) \in Nat /\ Padding(n, u) >= u - ((n + 1) % u)
  BY <1>1, <1>2 DEF Padding
<1>4. BodyLen(p) = n + Padding(n, u)
  BY DEF BodyLen
<1>5. BodyLen(p) \in Nat \ {0} /\ 1 + BodyLen(p) >= u
  BY <1>1, <1>2, <1>3, <1>4
<1>6. BodyLen(p) + Mac(p.keys) <= MaxPayload
  <2> DEFINE k == IF p.keys = 0 THEN 0 ELSE 1
  <2>1. BodyLen([msg |-> p.msg, keys |-> k]) + Mac(k) <= MaxPayload
    BY FitAssumption DEF Packet
  <2>2. BodyLen([msg |-> p.msg, keys |-> k]) = BodyLen(p) /\ Mac(k) = Mac(p.keys)
    BY DEF BodyLen, Mac
  <2> QED
    BY <2>1, <2>2
<1> QED
  BY <1>1, <1>5, <1>6 DEF Mac, Size

(* A sealed packet is cut into its pieces in order, more than one of them. *)
LEMMA Pieced ==
  ASSUME NEW p \in Packet
  PROVE  /\ CellsOf(p) \in Seq(Cell) /\ Len(CellsOf(p)) = Size(p) /\ Size(p) > 1
         /\ \A i \in 1..Size(p) : CellsOf(p)[i] = [p |-> p, i |-> i]
<1>1. Size(p) \in Nat /\ Size(p) > 1
  BY Sizes
<1>2. CellsOf(p) = [i \in 1..Size(p) |-> [p |-> p, i |-> i]]
  BY DEF CellsOf, Size
<1>3. \A i \in 1..Size(p) : [p |-> p, i |-> i] \in Cell
  BY <1>1 DEF Cell
<1>4. CellsOf(p) \in [1..Size(p) -> Cell]
  BY <1>2, <1>3
<1>5. CellsOf(p) \in Seq(Cell)
  BY <1>1, <1>4, IsASeq, SeqDef
<1> QED
  BY <1>1, <1>2, <1>5, LenProperties

(* What the socket takes of a buffer and what is left are the buffer.      *)
LEMMA Cuts ==
  ASSUME NEW S, NEW s \in Seq(S), NEW k \in 0..Len(s)
  PROVE  /\ First(k, s) \in Seq(S) /\ Len(First(k, s)) = k
         /\ \A j \in 1..k : First(k, s)[j] = s[j]
         /\ From(k, s) \in Seq(S) /\ Len(From(k, s)) = Len(s) - k
         /\ \A j \in 1..Len(s) - k : From(k, s)[j] = s[k + j]
         /\ First(k, s) \o From(k, s) = s
<1>1. Len(s) \in Nat
  OBVIOUS
<1>2. /\ First(k, s) \in Seq(S) /\ Len(First(k, s)) = k
      /\ \A j \in 1..k : First(k, s)[j] = s[j]
  BY <1>1, SubSeqProperties DEF First
<1>3. /\ From(k, s) \in Seq(S) /\ Len(From(k, s)) = Len(s) - k
      /\ \A j \in 1..Len(s) - k : From(k, s)[j] = s[k + j]
  BY <1>1, SubSeqProperties DEF From
<1>4. First(k, s) \o From(k, s) = s
  <2> DEFINE a == First(k, s)
             b == From(k, s)
  <2>0. /\ a \in Seq(S) /\ Len(a) = k /\ \A j \in 1..k : a[j] = s[j]
        /\ b \in Seq(S) /\ Len(b) = Len(s) - k /\ \A j \in 1..Len(s) - k : b[j] = s[k + j]
    BY <1>2, <1>3
  <2> HIDE DEF a, b
  <2>01. a \o b \in Seq(S) /\ Len(a \o b) = Len(a) + Len(b)
    BY <2>0, ConcatProperties
  <2>1. a \o b \in Seq(S) /\ Len(a \o b) = Len(s)
    BY <1>1, <2>0, <2>01
  <2>2. ASSUME NEW j \in 1..Len(s) PROVE (a \o b)[j] = s[j]
    <3>1. CASE j <= k
      <4>1. j \in 1..Len(a) /\ j \in 1..k
        BY <1>1, <2>0, <3>1
      <4>2. (a \o b)[j] = a[j]
        BY <2>0, <4>1, ConcatProperties
      <4> QED
        BY <2>0, <4>1, <4>2
    <3>2. CASE j > k
      <4>1. j - k \in 1..Len(b) /\ j - k \in 1..Len(s) - k /\ Len(a) + (j - k) = j /\ k + (j - k) = j
        BY <1>1, <2>0, <3>2
      <4>2. (a \o b)[Len(a) + (j - k)] = b[j - k]
        BY <2>0, <4>1, ConcatProperties
      <4> QED
        BY <2>0, <4>1, <4>2
    <3>3. j <= k \/ j > k
      BY <1>1
    <3> QED
      BY ONLY <3>1, <3>2, <3>3
  <2>3. a \o b = s
    BY <2>1, <2>2, SeqEqual
  <2> QED
    BY <2>3 DEF a, b
<1> QED
  BY <1>2, <1>3, <1>4

(* What is cut off the first of two sequences is cut off both.             *)
LEMMA FromConcat ==
  ASSUME NEW S, NEW s \in Seq(S), NEW t \in Seq(S), NEW k \in 0..Len(s)
  PROVE  From(k, s) \o t = From(k, s \o t)
<1> DEFINE u == s \o t
           a == From(k, s)
           b == From(k, u)
           v == a \o t
<1>1. /\ u \in Seq(S) /\ Len(u) = Len(s) + Len(t) /\ Len(s) \in Nat /\ Len(t) \in Nat
      /\ \A j \in 1..Len(s) + Len(t) : u[j] = IF j <= Len(s) THEN s[j] ELSE t[j - Len(s)]
  BY ConcatProperties
<1>2. /\ a \in Seq(S) /\ Len(a) = Len(s) - k
      /\ \A j \in 1..Len(s) - k : a[j] = s[k + j]
  BY Cuts
<1> HIDE DEF u, a
<1>3. /\ b \in Seq(S) /\ Len(b) = Len(s) + Len(t) - k
      /\ \A j \in 1..Len(s) + Len(t) - k : b[j] = u[k + j]
  <2>1. k \in 0..Len(u)
    BY <1>1
  <2>2. /\ b \in Seq(S) /\ Len(b) = Len(u) - k
        /\ \A j \in 1..Len(u) - k : b[j] = u[k + j]
    BY <1>1, <2>1, Cuts
  <2> QED
    BY <1>1, <2>2
<1> HIDE DEF b
<1>4. /\ v \in Seq(S) /\ Len(v) = Len(s) + Len(t) - k
      /\ \A j \in 1..Len(s) + Len(t) - k :
           v[j] = IF j <= Len(s) - k THEN a[j] ELSE t[j - (Len(s) - k)]
  <2>1. /\ v \in Seq(S) /\ Len(v) = Len(a) + Len(t)
        /\ \A j \in 1..Len(a) + Len(t) : v[j] = IF j <= Len(a) THEN a[j] ELSE t[j - Len(a)]
    BY <1>2, ConcatProperties
  <2>2. Len(a) + Len(t) = Len(s) + Len(t) - k
    BY <1>1, <1>2
  <2> QED
    BY <1>2, <2>1, <2>2
<1> HIDE DEF v
<1>5. \A j \in 1..Len(s) + Len(t) - k : v[j] = b[j]
  <2> SUFFICES ASSUME NEW j \in 1..Len(s) + Len(t) - k
               PROVE  v[j] = b[j]
    OBVIOUS
  <2>1. CASE j <= Len(s) - k
    BY <1>1, <1>2, <1>3, <1>4, <2>1
  <2>2. CASE ~(j <= Len(s) - k)
    <3>1. v[j] = t[j - (Len(s) - k)]
      BY <1>1, <1>4, <2>2
    <3>2. b[j] = t[(k + j) - Len(s)]
      BY <1>1, <1>3, <2>2
    <3>3. j - (Len(s) - k) = (k + j) - Len(s)
      BY <1>1
    <3> QED
      BY <3>1, <3>2, <3>3
  <2> QED
    BY <2>1, <2>2
<1>6. v = b
  BY <1>3, <1>4, <1>5, SeqEqual
<1> QED
  BY <1>6 DEF v, b, u, a

----------------------------------------------------------------------------
(* Chains of cells                                                         *)

(* What is left of the stream when its beginning was taken is still in     *)
(* order.                                                                  *)
LEMMA ChainFrom ==
  ASSUME NEW s, NEW sent, Chain(s, sent), NEW k \in 0..Len(s)
  PROVE  Chain(From(k, s), sent)
<1> DEFINE t == From(k, s)
<1>0. s \in Seq(Cell) /\ Len(s) \in Nat
  BY DEF Chain
<1>1. /\ t \in Seq(Cell) /\ Len(t) = Len(s) - k
      /\ \A j \in 1..Len(s) - k : t[j] = s[k + j] /\ k + j \in 1..Len(s)
  BY <1>0, Cuts
<1> HIDE DEF t
<1>2. \A j \in 1..Len(t) : Whose(t[j], sent)
  BY <1>0, <1>1 DEF Chain
<1>3. Together(t)
  <2> SUFFICES ASSUME NEW j \in 1..Len(t), NEW m \in 1..Len(t), j <= m
               PROVE  IF m - j <= Size(t[j].p) - t[j].i
                      THEN t[m] = [p |-> t[j].p, i |-> t[j].i + (m - j)]
                      ELSE t[m].p.n > t[j].p.n
    BY DEF Together
  <2>0. j \in 1..Len(s) - k /\ m \in 1..Len(s) - k
    BY <1>1
  <2>01. t[j] = s[k + j] /\ t[m] = s[k + m] /\ k + j \in 1..Len(s) /\ k + m \in 1..Len(s)
    BY <1>1, <2>0
  <2>02. k + j <= k + m /\ (k + m) - (k + j) = m - j
    OBVIOUS
  <2>1. /\ t[j] = s[k + j] /\ t[m] = s[k + m] /\ k + j \in 1..Len(s) /\ k + m \in 1..Len(s)
        /\ k + j <= k + m /\ (k + m) - (k + j) = m - j
    BY <2>01, <2>02
  <2> QED
    BY <2>1 DEF Chain, Together
<1>4. Linked(t)
  <2> SUFFICES ASSUME NEW j \in 1..Len(t) - 1, t[j].i = Size(t[j].p)
               PROVE  t[j + 1].i = 1 /\ At(t[j + 1].p) = Succ(t[j].p)
    BY DEF Linked
  <2>1. /\ t[j] = s[k + j] /\ t[j + 1] = s[(k + j) + 1] /\ k + j \in 1..Len(s) - 1
    BY <1>0, <1>1
  <2> QED
    BY <2>1 DEF Chain, Linked
<1> QED
  BY <1>0, <1>1, <1>2, <1>3, <1>4 DEF Chain, t

(* A stream stays one when another message is handed over.                 *)
LEMMA ChainGrows ==
  ASSUME NEW s, NEW sent \in Seq(Messages), NEW m \in Messages, Chain(s, sent)
  PROVE  Chain(s, Append(sent, m))
<1>1. \A j \in DOMAIN sent : j \in DOMAIN Append(sent, m) /\ Append(sent, m)[j] = sent[j]
  BY AppendProperties
<1> QED
  BY <1>1 DEF Chain, Whose

(* Where the stream ends does not depend on what was taken of it.          *)
LEMMA EndsFrom ==
  ASSUME NEW s \in Seq(Cell), NEW tl, Ends(s, tl), NEW k \in 0..Len(s)
  PROVE  Ends(From(k, s), tl)
<1> DEFINE t == From(k, s)
<1>1. /\ Len(s) \in Nat /\ t \in Seq(Cell) /\ Len(t) = Len(s) - k
      /\ \A j \in 1..Len(s) - k : t[j] = s[k + j] /\ k + j \in 1..Len(s)
  <2>1. Len(s) \in Nat
    OBVIOUS
  <2>2. /\ t \in Seq(Cell) /\ Len(t) = Len(s) - k
        /\ \A j \in 1..Len(s) - k : t[j] = s[k + j]
    BY Cuts
  <2> HIDE DEF t
  <2>3. \A j \in 1..Len(s) - k : k + j \in 1..Len(s)
    BY <2>1
  <2> QED
    BY <2>1, <2>2, <2>3
<1> HIDE DEF t
<1>2. t # <<>> => s # <<>> /\ Len(t) > 0 /\ t[Len(t)] = s[Len(s)]
  <2> SUFFICES ASSUME t # <<>> PROVE s # <<>> /\ Len(t) > 0 /\ t[Len(t)] = s[Len(s)]
    OBVIOUS
  <2>1. Len(t) > 0
    BY <1>1, EmptySeq
  <2>2. Len(t) \in 1..Len(s) - k /\ k + Len(t) = Len(s)
    BY <1>1, <2>1
  <2> QED
    BY <1>1, <2>1, <2>2, EmptySeq
<1> QED
  BY <1>1, <1>2 DEF Ends, t

(* A whole packet at the end of a chain.                                   *)
LEMMA ChainAppend ==
  ASSUME NEW s, NEW sent \in Seq(Messages), Chain(s, sent), NEW p \in Packet,
         p.n = Len(sent) + 1, NEW tl, Ends(s, tl), tl = At(p)
  PROVE  /\ Chain(s \o CellsOf(p), Append(sent, p.msg))
         /\ Ends(s \o CellsOf(p), Succ(p))
         /\ Len(s \o CellsOf(p)) = Len(s) + Size(p)
         /\ \A j \in 1..Len(s) : (s \o CellsOf(p))[j] = s[j]
         /\ \A j \in Len(s) + 1..Len(s) + Size(p) :
              (s \o CellsOf(p))[j] = [p |-> p, i |-> j - Len(s)]
<1> DEFINE c == CellsOf(p)
           t == s \o c
           sent2 == Append(sent, p.msg)
<1>0. s \in Seq(Cell) /\ Len(s) \in Nat /\ Len(sent) \in Nat
  BY DEF Chain
<1>1. c \in Seq(Cell) /\ Len(c) = Size(p) /\ Size(p) > 1 /\ Size(p) \in Nat
      /\ \A i \in 1..Size(p) : c[i] = [p |-> p, i |-> i]
  BY Pieced, Sizes
<1> HIDE DEF c
<1>2. /\ t \in Seq(Cell) /\ Len(t) = Len(s) + Len(c)
      /\ \A j \in 1..Len(s) + Len(c) : t[j] = IF j <= Len(s) THEN s[j] ELSE c[j - Len(s)]
  BY <1>0, <1>1, ConcatProperties
<1> HIDE DEF t
<1>3. /\ Len(t) = Len(s) + Size(p)
      /\ \A j \in 1..Len(s) : t[j] = s[j] /\ s[j] \in Cell
      /\ \A j \in Len(s) + 1..Len(t) : t[j] = [p |-> p, i |-> j - Len(s)]
  <2>1. \A j \in Len(s) + 1..Len(s) + Size(p) : t[j] = c[j - Len(s)] /\ j - Len(s) \in 1..Size(p)
    BY <1>0, <1>1, <1>2
  <2>2. Len(t) = Len(s) + Size(p)
    BY <1>1, <1>2
  <2>3. \A j \in 1..Len(s) : t[j] = s[j] /\ s[j] \in Cell
    BY <1>0, <1>1, <1>2, ElementOfSeq
  <2>4. \A j \in Len(s) + 1..Len(t) : c[j - Len(s)] = [p |-> p, i |-> j - Len(s)]
    BY <1>1, <2>1, <2>2
  <2> QED
    BY <2>1, <2>2, <2>3, <2>4
<1>31. /\ Len(t) \in Nat
       /\ \A j \in 1..Len(t) : j > Len(s) =>
            t[j] = [p |-> p, i |-> j - Len(s)] /\ j - Len(s) \in 1..Size(p)
  <2>1. Len(t) \in Nat
    BY <1>2
  <2>2. \A j \in 1..Len(t) : j > Len(s) => j \in Len(s) + 1..Len(t) /\ j - Len(s) \in 1..Size(p)
    BY <1>0, <1>1, <1>3, <2>1
  <2> QED
    BY <1>3, <2>1, <2>2
<1>4. sent2 \in Seq(Messages) /\ DOMAIN sent2 = 1..Len(sent) + 1 /\ DOMAIN sent = 1..Len(sent)
      /\ sent2[p.n] = p.msg /\ \A j \in 1..Len(sent) : sent2[j] = sent[j]
  <2>1. p.msg \in Messages
    BY DEF Packet
  <2> QED
    BY <1>0, <2>1, AppendProperties, LenProperties
<1> HIDE DEF sent2
<1>5. \A j \in 1..Len(s) : s[j].p.n \in 1..Len(sent) /\ sent[s[j].p.n] = s[j].p.msg
                           /\ s[j].i <= Size(s[j].p)
  BY <1>4 DEF Chain, Whose
<1>6. \A j \in 1..Len(t) : Whose(t[j], sent2)
  <2> SUFFICES ASSUME NEW j \in 1..Len(t) PROVE Whose(t[j], sent2)
    OBVIOUS
  <2>1. CASE j <= Len(s)
    BY <1>0, <1>3, <1>4, <1>5, <2>1 DEF Whose
  <2>2. CASE j > Len(s)
    <3>1. t[j] = [p |-> p, i |-> j - Len(s)] /\ j - Len(s) <= Size(p)
      BY <1>31, <1>1, <2>2
    <3> QED
      BY <1>0, <1>4, <3>1 DEF Whose
  <2> QED
    BY <1>0, <1>1, <1>3, <2>1, <2>2
<1>7. Together(t)
  <2> SUFFICES ASSUME NEW j \in 1..Len(t), NEW k \in 1..Len(t), j <= k
               PROVE  IF k - j <= Size(t[j].p) - t[j].i
                      THEN t[k] = [p |-> t[j].p, i |-> t[j].i + (k - j)]
                      ELSE t[k].p.n > t[j].p.n
    BY DEF Together
  <2>0. Len(t) \in Nat
    BY <1>0, <1>1, <1>3
  <2>1. CASE k <= Len(s)
    <3>1. t[j] = s[j] /\ t[k] = s[k] /\ j \in 1..Len(s) /\ k \in 1..Len(s)
      BY <1>0, <1>3, <2>1
    <3> QED
      BY <3>1 DEF Chain, Together
  <2>2. CASE k > Len(s) /\ j <= Len(s)
    <3>1. t[j] = s[j] /\ j \in 1..Len(s) /\ t[k] = [p |-> p, i |-> k - Len(s)] /\ s[j] \in Cell
      BY <1>0, <1>3, <1>31, <2>2
    <3>2. t[k].p.n > t[j].p.n
      BY <1>0, <1>5, <3>1
    <3>3. ~(k - j <= Size(t[j].p) - t[j].i)
      <4>1. s # <<>> /\ Len(s) \in 1..Len(s)
        BY <1>0, <3>1
      <4>2. s[Len(s)].i = Size(s[Len(s)].p)
        BY <4>1 DEF Ends
      <4>3. s[j].p \in Packet /\ s[j].i \in Nat /\ Size(s[j].p) \in Nat
        BY <3>1, Sizes DEF Cell
      <4>4. Len(s) - j >= Size(s[j].p) - s[j].i
        <5> SUFFICES ASSUME Len(s) - j < Size(s[j].p) - s[j].i PROVE FALSE
          BY <1>0, <4>3
        <5>1. s[Len(s)] = [p |-> s[j].p, i |-> s[j].i + (Len(s) - j)]
          <6>1. j <= Len(s) /\ Len(s) - j <= Size(s[j].p) - s[j].i /\ j \in 1..Len(s)
            BY <1>0, <3>1, <4>1, <4>3
          <6> QED
            BY <4>1, <6>1 DEF Chain, Together
        <5> QED
          BY <1>0, <4>2, <4>3, <5>1
      <4> QED
        BY <1>0, <2>2, <3>1, <4>3, <4>4
    <3> QED
      BY <3>2, <3>3
  <2>3. CASE j > Len(s)
    <3>1. t[j] = [p |-> p, i |-> j - Len(s)] /\ t[k] = [p |-> p, i |-> k - Len(s)]
      <4>1. k > Len(s)
        BY <1>0, <2>0, <2>3
      <4> QED
        BY <1>31, <2>3, <4>1
    <3>2. k - j <= Size(p) - (j - Len(s)) /\ k - Len(s) = (j - Len(s)) + (k - j)
      BY <1>0, <1>1, <1>3
    <3> QED
      BY <3>1, <3>2
  <2> QED
    BY <1>0, <2>0, <2>1, <2>2, <2>3
<1>8. Linked(t)
  <2> SUFFICES ASSUME NEW j \in 1..Len(t) - 1, t[j].i = Size(t[j].p)
               PROVE  t[j + 1].i = 1 /\ At(t[j + 1].p) = Succ(t[j].p)
    BY DEF Linked
  <2>0. Len(t) \in Nat
    BY <1>0, <1>1, <1>3
  <2>1. CASE j < Len(s)
    <3>1. t[j] = s[j] /\ t[j + 1] = s[j + 1] /\ j \in 1..Len(s) - 1
      BY <1>0, <1>3, <2>1
    <3> QED
      BY <3>1 DEF Chain, Linked
  <2>2. CASE j = Len(s)
    <3>1. t[j] = s[Len(s)] /\ t[j + 1] = [p |-> p, i |-> 1] /\ s # <<>>
      BY <1>0, <1>1, <1>3, <2>2
    <3> QED
      BY <3>1 DEF Ends
  <2>3. CASE j > Len(s)
    <3>1. t[j] = [p |-> p, i |-> j - Len(s)] /\ j - Len(s) < Size(p)
      BY <1>0, <1>1, <1>3, <2>3, <2>0
    <3> QED
      BY <1>0, <1>1, <3>1
  <2> QED
    BY <1>0, <2>0, <2>1, <2>2, <2>3
<1>9. Ends(t, Succ(p))
  <2>1. Len(t) \in Len(s) + 1..Len(t) /\ Len(t) - Len(s) = Size(p)
    BY <1>0, <1>1, <1>3
  <2>2. t[Len(t)] = [p |-> p, i |-> Size(p)]
    BY <1>3, <2>1
  <2>3. p.keys \in Nat /\ AfterKeys(p) >= p.keys /\ AfterKeys(p) = Succ(p).keys
        /\ tl.keys = p.keys /\ AfterKeys(p) \in Nat
    BY DEF Packet, AfterKeys, Succ, At
  <2>4. \A j \in 1..Len(s) : AfterKeys(s[j].p) <= tl.keys /\ AfterKeys(s[j].p) \in Nat
    <3> SUFFICES ASSUME NEW j \in 1..Len(s)
                 PROVE  AfterKeys(s[j].p) <= tl.keys /\ AfterKeys(s[j].p) \in Nat
      OBVIOUS
    <3>1. s[j] \in Cell /\ s # <<>>
      BY <1>0, <1>3
    <3> QED
      BY <3>1 DEF Ends, Cell, Packet, AfterKeys
  <2>5. \A j \in 1..Len(t) : AfterKeys(t[j].p) <= Succ(p).keys
    <3> SUFFICES ASSUME NEW j \in 1..Len(t) PROVE AfterKeys(t[j].p) <= Succ(p).keys
      OBVIOUS
    <3>1. CASE j <= Len(s)
      <4>1. j \in 1..Len(s) /\ t[j] = s[j]
        BY <1>0, <1>3, <1>31, <3>1
      <4> QED
        BY <2>3, <2>4, <4>1
    <3>2. CASE j > Len(s)
      <4>0. t[j] = [p |-> p, i |-> j - Len(s)]
        BY <1>31, <3>2
      <4>1. t[j].p = p
        BY <4>0
      <4> QED
        BY <2>3, <4>1
    <3> QED
      BY <1>0, <1>31, <3>1, <3>2
  <2> QED
    BY <2>2, <2>5 DEF Ends
<1>10. Chain(t, sent2)
  BY <1>2, <1>6, <1>7, <1>8 DEF Chain
<1> QED
  BY <1>3, <1>9, <1>10 DEF t, c, sent2

(* A chain begins with the last k cells of packet p.                       *)
Leads(s, sent, p, k) ==
  /\ Chain(s, sent) /\ s # <<>>
  /\ p = s[1].p /\ k \in Int /\ k + s[1].i = Size(p) + 1

(* The rest of a packet at the beginning of a chain.                       *)
LEMMA ChainTake ==
  ASSUME NEW s, NEW sent, NEW p, NEW k, Leads(s, sent, p, k)
  PROVE  /\ p \in Packet /\ k \in Nat \ {0}
         /\ p.n \in DOMAIN sent /\ sent[p.n] = p.msg
         /\ \A j \in 1..Len(s) : j <= k => s[j] = [p |-> p, i |-> s[1].i + (j - 1)]
         /\ k <= Len(s) =>
              /\ Chain(From(k, s), sent) /\ From(k, s) \in Seq(Cell)
              /\ Len(From(k, s)) = Len(s) - k
              /\ From(k, s) # <<>> => From(k, s)[1].i = 1 /\ At(From(k, s)[1].p) = Succ(p)
              /\ \A j \in 1..Len(s) - k : From(k, s)[j] = s[k + j] /\ s[k + j].p.n > p.n
<1> DEFINE r == From(k, s)
<1>a. Chain(s, sent) /\ s # <<>> /\ p = s[1].p /\ k \in Int /\ k + s[1].i = Size(p) + 1
  BY DEF Leads
<1> USE <1>a
<1>0. s \in Seq(Cell) /\ Len(s) \in Nat /\ Len(s) > 0
  BY EmptySeq DEF Chain
<1>1. p \in Packet /\ s[1].i \in Nat \ {0} /\ Size(p) \in Nat /\ Whose(s[1], sent)
  <2>1. s[1] \in Cell /\ 1 \in 1..Len(s)
    BY <1>0
  <2> QED
    BY <2>1, Sizes DEF Chain, Cell
<1>2. k \in Nat \ {0} /\ p.n \in DOMAIN sent /\ sent[p.n] = p.msg
  BY <1>1 DEF Whose
<1>3. \A j \in 1..Len(s) : IF j <= k THEN s[j] = [p |-> p, i |-> s[1].i + (j - 1)]
                           ELSE s[j].p.n > p.n
  <2> SUFFICES ASSUME NEW j \in 1..Len(s)
               PROVE  IF j <= k THEN s[j] = [p |-> p, i |-> s[1].i + (j - 1)]
                      ELSE s[j].p.n > p.n
    OBVIOUS
  <2>1. j <= k <=> j - 1 <= Size(p) - s[1].i
    BY <1>0, <1>1
  <2>2. 1 \in 1..Len(s) /\ 1 <= j
    BY <1>0
  <2> QED
    BY <2>1, <2>2 DEF Chain, Together
<1>5. ASSUME k <= Len(s)
      PROVE  /\ Chain(r, sent) /\ r \in Seq(Cell) /\ Len(r) = Len(s) - k
             /\ r # <<>> => r[1].i = 1 /\ At(r[1].p) = Succ(p)
             /\ \A j \in 1..Len(s) - k : r[j] = s[k + j] /\ s[k + j].p.n > p.n
  <2>1. k \in 0..Len(s)
    BY <1>0, <1>2, <1>5
  <2>2. s[k] = [p |-> p, i |-> Size(p)]
    <3>0. k + s[1].i = Size(p) + 1 /\ s[1].i \in Nat /\ Size(p) \in Nat
      BY <1>1
    <3>01. s[1].i + (k - 1) = Size(p)
      BY ONLY <3>0, <1>2
    <3>02. k \in 1..Len(s) /\ k <= k
      BY ONLY <1>0, <1>2, <1>5
    <3>1. k \in 1..Len(s) /\ k <= k /\ s[1].i + (k - 1) = Size(p)
      BY <3>01, <3>02
    <3> QED
      BY <1>3, <3>1
  <2>3. Chain(r, sent)
    BY <2>1, ChainFrom
  <2>4. r \in Seq(Cell) /\ Len(r) = Len(s) - k
        /\ \A j \in 1..Len(s) - k : r[j] = s[k + j]
    BY <1>0, <2>1, Cuts
  <2> HIDE DEF r
  <2>6. r # <<>> => r[1].i = 1 /\ At(r[1].p) = Succ(p)
    <3> SUFFICES ASSUME r # <<>> PROVE r[1].i = 1 /\ At(r[1].p) = Succ(p)
      OBVIOUS
    <3>1. Len(r) > 0
      BY <2>4, EmptySeq
    <3>2. k \in 1..Len(s) - 1 /\ r[1] = s[k + 1]
      BY <1>0, <1>2, <2>1, <2>4, <3>1
    <3> QED
      BY <2>2, <3>2 DEF Chain, Linked
  <2>8. \A j \in 1..Len(s) - k : r[j] = s[k + j] /\ s[k + j].p.n > p.n
    <3> SUFFICES ASSUME NEW j \in 1..Len(s) - k PROVE r[j] = s[k + j] /\ s[k + j].p.n > p.n
      OBVIOUS
    <3>1. r[j] = s[k + j] /\ k + j \in 1..Len(s) /\ ~(k + j <= k)
      BY <1>0, <2>1, <2>4
    <3> QED
      BY <1>3, <3>1
  <2> QED
    BY <2>3, <2>4, <2>6, <2>8
<1> QED
  BY <1>1, <1>2, <1>3, <1>5

(* It is there to its end, and the next one follows or is still to come.   *)
LEMMA EndsTake ==
  ASSUME NEW s, NEW sent, NEW p, NEW k, Leads(s, sent, p, k), NEW tl, Ends(s, tl)
  PROVE  /\ k <= Len(s) /\ Ends(From(k, s), tl)
         /\ From(k, s) = <<>> => Succ(p) = tl
<1>a. Chain(s, sent) /\ s # <<>> /\ p = s[1].p /\ k \in Int /\ k + s[1].i = Size(p) + 1
  BY DEF Leads
<1> USE <1>a
<1>0. s \in Seq(Cell) /\ Len(s) \in Nat /\ Len(s) > 0
  BY EmptySeq DEF Chain
<1>1. /\ p \in Packet /\ k \in Nat \ {0}
      /\ \A j \in 1..Len(s) : j <= k => s[j] = [p |-> p, i |-> s[1].i + (j - 1)]
  BY ChainTake
<1>2. s[1].i \in Nat \ {0} /\ Size(p) \in Nat
  <2>1. s[1] \in Cell
    BY <1>0, ElementOfSeq
  <2> QED
    BY <1>1, <2>1, Sizes DEF Cell
<1>3. s[Len(s)].i = Size(s[Len(s)].p) /\ Succ(s[Len(s)].p) = tl
  BY DEF Ends
<1>4. k <= Len(s)
  <2>1. SUFFICES ASSUME Len(s) < k PROVE FALSE
    BY <1>0, <1>1
  <2>2. s[Len(s)] = [p |-> p, i |-> s[1].i + (Len(s) - 1)]
    BY <1>0, <1>1, <2>1
  <2> QED
    BY <1>0, <1>2, <1>3, <2>1, <2>2
<1>5. k \in 0..Len(s)
  BY <1>0, <1>1, <1>4
<1>6. From(k, s) = <<>> => Succ(p) = tl
  <2> SUFFICES ASSUME From(k, s) = <<>> PROVE Succ(p) = tl
    OBVIOUS
  <2>1. Len(From(k, s)) = Len(s) - k /\ Len(From(k, s)) = 0
    BY <1>0, <1>5, Cuts, EmptySeq
  <2>2. k = Len(s) /\ k \in 1..Len(s)
    BY <1>0, <1>5, <2>1
  <2>3. s[k] = [p |-> p, i |-> s[1].i + (k - 1)]
    BY <1>0, <1>1, <2>2
  <2>4. s[Len(s)].p = p
    BY <2>2, <2>3
  <2> QED
    BY <1>3, <2>4
<1>7. Ends(From(k, s), tl)
  BY <1>0, <1>5, EndsFrom
<1> QED
  BY <1>4, <1>6, <1>7

----------------------------------------------------------------------------
(* The ways in which a step changes the streams                            *)

OutNew(m) == [msg |-> m, keys |-> keys, seq |-> lseq, n |-> Len(outSent) + 1]
InNew(m) == [msg |-> m, keys |-> peer.seals, seq |-> peer.sseq, n |-> Len(inSent) + 1]

(* transport_send() on a socket that is up goes on with the packet that is *)
(* half sent, or seals a new one.                                          *)
LEMMA SendStep ==
  ASSUME Types, OutStream, sock = "up", NEW m \in Messages, NEW n, TransportSend(m, n),
         out.data # m => OutKeys = keys
  PROVE  /\ out' \in [data : {m, None}, rest : Seq(Cell)] /\ outNet' \in Seq(Cell)
         /\ out'.data = None <=> out'.rest = <<>>
         /\ Sent(m, n) <=> out'.data = None
         /\ \/ /\ out.data = m /\ OutCells' = OutCells
               /\ outSent' = outSent /\ lseq' = lseq
            \/ /\ out.data = None /\ OutNew(m) \in Packet
               /\ OutCells' = OutCells \o CellsOf(OutNew(m))
               /\ outSent' = Append(outSent, m) /\ lseq' = Succ(OutNew(m)).seq
<1> DEFINE w == Pieces(m)
           q == OutNew(m)
<1>1. /\ outNet \in Seq(Cell) /\ out.rest \in Seq(Cell) /\ lseq \in Nat /\ m # None
      /\ keys \in Nat /\ outSent \in Seq(Messages) /\ Len(outSent) \in Nat
  <2>1. m # None
    BY TransportAssumption
  <2> QED
    BY <2>1 DEF Types
<1>2. q \in Packet
  BY <1>1 DEF Packet, OutNew
<1>3. w = IF out.data = m THEN out.rest ELSE CellsOf(q)
  BY DEF Pieces, OutNew
<1>4. w \in Seq(Cell) /\ Len(w) \in Nat /\ Len(w) > 0
  <2>1. CASE out.data = m
    BY <1>1, <1>3, <2>1, EmptySeq DEF OutStream
  <2>2. CASE out.data # m
    BY <1>2, <1>3, <2>2, Pieced
  <2> QED
    BY <2>1, <2>2
<1>5. /\ out.data \in {None, m} /\ n \in 0..Len(w)
      /\ outNet' = outNet \o First(n, w)
      /\ out' = IF n = Len(w) THEN Idle ELSE [data |-> m, rest |-> From(n, w)]
      /\ lseq' = IF out.data = m THEN lseq ELSE (lseq + 1) % SeqnoMod
      /\ outSent' = IF out.data = m THEN outSent ELSE Append(outSent, m)
      /\ Sent(m, n) <=> n = Len(w)
  BY DEF TransportSend, MaySend, Sent
<1> HIDE DEF w, q
<1>6. /\ First(n, w) \in Seq(Cell) /\ From(n, w) \in Seq(Cell) /\ Len(From(n, w)) = Len(w) - n
      /\ First(n, w) \o From(n, w) = w
  BY <1>4, <1>5, Cuts
<1>7. out'.rest = From(n, w)
  <2>1. CASE n = Len(w)
    <3>1. From(n, w) = <<>>
      BY <1>4, <1>6, <2>1, EmptySeq
    <3> QED
      BY <1>5, <2>1, <3>1 DEF Idle
  <2>2. CASE n # Len(w)
    BY <1>5, <2>2
  <2> QED
    BY <2>1, <2>2
<1>8. out'.data = (IF n = Len(w) THEN None ELSE m) /\ outNet' \in Seq(Cell)
  BY <1>1, <1>5, <1>6, ConcatProperties DEF Idle
<1>9. out' \in [data : {m, None}, rest : Seq(Cell)]
  BY <1>5, <1>6, EmptySeq DEF Idle
<1>10. out'.data = None <=> out'.rest = <<>>
  <2>1. n = Len(w) <=> From(n, w) = <<>>
    BY <1>4, <1>5, <1>6, EmptySeq
  <2> QED
    BY <1>1, <1>7, <1>8, <2>1
<1>11. OutCells' = outNet \o w
  <2>1. (outNet \o First(n, w)) \o From(n, w) = outNet \o (First(n, w) \o From(n, w))
    <3> DEFINE a == First(n, w)
               b == From(n, w)
    <3>1. a \in Seq(Cell) /\ b \in Seq(Cell) /\ outNet \in Seq(Cell)
      BY <1>1, <1>6
    <3> HIDE DEF a, b
    <3>2. (outNet \o a) \o b = outNet \o (a \o b)
      BY <3>1
    <3> QED
      BY <3>2 DEF a, b
  <2>2. outNet' \o out'.rest = (outNet \o First(n, w)) \o From(n, w)
    BY <1>5, <1>7
  <2> QED
    BY <1>6, <2>1, <2>2 DEF OutCells
<1>12. CASE out.data = m
  BY <1>1, <1>3, <1>5, <1>8, <1>9, <1>10, <1>11, <1>12 DEF OutCells
<1>13. CASE out.data # m
  <2>1. out.data = None /\ out.rest = <<>>
    BY <1>5, <1>13 DEF OutStream
  <2>2. outNet \o out.rest = outNet
    BY <1>1, <2>1, ConcatEmptySeq
  <2>3. OutCells' = OutCells \o CellsOf(OutNew(m))
    BY <1>3, <1>11, <1>13, <2>2 DEF OutCells, q
  <2>4. Succ(OutNew(m)).seq = (lseq + 1) % SeqnoMod
    BY DEF Succ, OutNew
  <2> QED
    BY <1>1, <1>2, <1>5, <1>8, <1>9, <1>10, <1>13, <2>1, <2>3, <2>4 DEF q
<1> QED
  BY <1>12, <1>13

(* A packet of the peer.                                                   *)
LEMMA PeerStep ==
  ASSUME Types, InStream, RxInv, NEW m \in Messages, PeerSends(m),
         peer'.sseq = (peer.sseq + 1) % SeqnoMod,
         peer'.seals = IF m = "NEWKEYS" THEN peer.seals + 1 ELSE peer.seals
  PROVE  InStream' /\ RxInv' /\ inNet' \in Seq(Cell) /\ inSent' \in Seq(Messages)
<1> DEFINE q == InNew(m)
<1>1. /\ buf \in Seq(Cell) /\ inNet \in Seq(Cell) /\ peer.sseq \in Nat /\ peer.seals \in Nat
      /\ inSent \in Seq(Messages) /\ Len(inSent) \in Nat
      /\ inGot \in Seq(Messages) /\ Len(inGot) \in Nat
  BY DEF Types
<1>2. q \in Packet
  BY <1>1 DEF Packet, InNew
<1>3. /\ inNet' = inNet \o CellsOf(q) /\ inSent' = Append(inSent, m)
      /\ UNCHANGED <<buf, rx, adding, inGot, keys, queue, rseq>>
  BY DEF PeerSends, InNew, libVars
<1>4. InTail = At(q) /\ InTail' = Succ(q) /\ q.n = Len(inSent) + 1 /\ q.msg = m
  <2>1. Len(inSent') = Len(inSent) + 1
    BY <1>1, <1>3, AppendProperties
  <2> QED
    BY <1>1, <2>1 DEF InTail, At, Succ, AfterKeys, InNew
<1> HIDE DEF q
<1>5. CellsOf(q) \in Seq(Cell) /\ Size(q) > 1 /\ Size(q) \in Nat
  BY <1>2, Pieced, Sizes
<1>6. InCells' = InCells \o CellsOf(q) /\ inNet' \in Seq(Cell)
  <2>1. (buf \o inNet) \o CellsOf(q) = buf \o (inNet \o CellsOf(q))
    <3>1. buf \in Seq(Cell) /\ inNet \in Seq(Cell) /\ CellsOf(q) \in Seq(Cell)
      BY <1>1, <1>5
    <3> QED
      BY ONLY <3>1, ConcatAssociative
  <2> QED
    BY <1>1, <1>3, <1>5, <2>1, ConcatProperties DEF InCells
<1>7. Chain(InCells, inSent) /\ Ends(InCells, InTail)
  BY DEF InStream
<1>8. /\ Chain(InCells', inSent') /\ Ends(InCells', InTail')
      /\ Len(InCells') = Len(InCells) + Size(q)
      /\ \A j \in 1..Len(InCells) : InCells'[j] = InCells[j]
      /\ \A j \in Len(InCells) + 1..Len(InCells) + Size(q) :
           InCells'[j] = [p |-> q, i |-> j - Len(InCells)]
  BY <1>1, <1>2, <1>3, <1>4, <1>6, <1>7, ChainAppend
<1>9. InCells \in Seq(Cell) /\ Len(InCells) \in Nat
  BY <1>7 DEF Chain
<1>10. InCells # <<>> => Len(InCells) > 0 /\ InCells'[1] = InCells[1]
  BY <1>8, <1>9, EmptySeq
<1>11. InCells = <<>> => InCells'[1] = [p |-> q, i |-> 1]
  <2> SUFFICES ASSUME InCells = <<>> PROVE InCells'[1] = [p |-> q, i |-> 1]
    OBVIOUS
  <2>1. Len(InCells) = 0
    BY EmptySeq
  <2>2. 1 \in Len(InCells) + 1..Len(InCells) + Size(q) /\ 1 - Len(InCells) = 1
    BY <1>5, <2>1
  <2> QED
    BY <1>8, <2>2
<1>12. InCells' # <<>>
  BY <1>5, <1>8, <1>9, EmptySeq
<1>13. InHead' = InHead
  BY <1>3 DEF InHead, Taken, InKeys
<1>14. RxInv'
  <2>1. CASE rx.total = 0
    BY <1>3, <2>1 DEF RxInv, NoPacket
  <2>2. CASE rx.total # 0
    <3>1. Collecting
      BY <2>2 DEF RxInv
    <3>2. InCells # <<>> /\ InCells'[1] = [p |-> rx.p, i |-> Len(rx.got) + 2]
      BY <1>10, <3>1 DEF Collecting, Piece
    <3>3. Collecting'
      BY <1>3, <1>12, <1>13, <3>1, <3>2 DEF Collecting, Piece
    <3> QED
      BY <1>3, <2>2, <3>3 DEF RxInv
  <2> QED
    BY <2>1, <2>2
<1>15. inSent' \in Seq(Messages) /\ Len(inSent') = Len(inSent) + 1
       /\ \A j \in 1..Len(inSent) : inSent'[j] = inSent[j]
  BY <1>1, <1>3, AppendProperties
<1>16. adding' = "REQUEST" => Len(inGot') < Len(inSent') /\ inSent'[Len(inGot') + 1] = "REQUEST"
  <2> SUFFICES ASSUME adding = "REQUEST"
               PROVE  Len(inGot) < Len(inSent') /\ inSent'[Len(inGot) + 1] = "REQUEST"
    BY <1>3
  <2>1. Len(inGot) < Len(inSent) /\ inSent[Len(inGot) + 1] = "REQUEST"
    BY DEF InStream
  <2>2. Len(inGot) + 1 \in 1..Len(inSent)
    BY <1>1, <2>1
  <2> QED
    BY <1>1, <1>15, <2>1, <2>2
<1>17. rx.total = 0 => Begins(InCells', InHead')
  BY <1>4, <1>10, <1>11, <1>13 DEF InStream, Begins
<1>18. InStream'
  BY <1>3, <1>8, <1>12, <1>16, <1>17 DEF InStream
<1> QED
  BY <1>6, <1>14, <1>15, <1>18

----------------------------------------------------------------------------
(* transport_read()                                                        *)

(* decrypt() and the copy of the MAC keep the cells and their order.       *)
LEMMA Marked ==
  ASSUME NEW s \in Seq(Cell)
  PROVE  /\ Opened(s) \in Seq(Got) /\ Len(Opened(s)) = Len(s)
         /\ Verbatim(s) \in Seq(Got) /\ Len(Verbatim(s)) = Len(s)
         /\ \A j \in 1..Len(s) : /\ Opened(s)[j] = [c |-> s[j], opened |-> TRUE]
                                 /\ Verbatim(s)[j] = [c |-> s[j], opened |-> FALSE]
<1>1. DOMAIN s = 1..Len(s) /\ Len(s) \in Nat /\ \A j \in 1..Len(s) : s[j] \in Cell
  BY LenProperties, ElementOfSeq
<1>2. Opened(s) = [j \in 1..Len(s) |-> [c |-> s[j], opened |-> TRUE]]
  BY <1>1 DEF Opened
<1>3. Verbatim(s) = [j \in 1..Len(s) |-> [c |-> s[j], opened |-> FALSE]]
  BY <1>1 DEF Verbatim
<1>4. Opened(s) \in [1..Len(s) -> Got] /\ Verbatim(s) \in [1..Len(s) -> Got]
  BY <1>1, <1>2, <1>3 DEF Got
<1>5. Opened(s) \in Seq(Got) /\ Verbatim(s) \in Seq(Got)
  BY <1>1, <1>4, IsASeq, SeqDef
<1> QED
  BY <1>1, <1>2, <1>3, <1>5, LenProperties

(* transport_read() looks at a cipher block at a time once there are keys. *)
LEMMA Blocks == ASSUME keys \in Nat
                PROVE  /\ ReadBlock \in Nat \ {0} /\ MacLen \in Nat \ {0} /\ Block \in Nat \ {0}
                       /\ keys = 0 => ReadBlock = 1
                       /\ keys # 0 => ReadBlock = Block
  BY TransportAssumption DEF ReadBlock

(* The first block of what is there is the beginning of a packet.          *)
LEMMA BeginStep ==
  ASSUME Types, InStream, rx.total = 0, InKeys = keys,
         NEW have \in Seq(Cell), NEW rest \in Seq(Cell), InCells = have \o rest,
         Len(have) >= ReadBlock
  PROVE  LET t == From(ReadBlock, have) \o rest
         IN  /\ Readable(have)
             /\ Piece(Begin(have), t) /\ Chain(t, inSent) /\ Ends(t, InTail)
<1> DEFINE s == InCells
           B == ReadBlock
           p == s[1].p
           t == From(B, s)
<1>1. B \in Nat \ {0} /\ keys \in Nat /\ Len(have) \in Nat /\ Len(rest) \in Nat
  <2>1. keys \in Nat
    BY DEF Types
  <2> QED
    BY <2>1, Blocks
<1>2. Chain(s, inSent) /\ Ends(s, InTail) /\ Begins(s, InHead)
  BY DEF InStream
<1>3. /\ s \in Seq(Cell) /\ Len(s) = Len(have) + Len(rest)
      /\ \A j \in 1..Len(have) : s[j] = have[j]
  <2>1. \A j \in 1..Len(have) : (have \o rest)[j] = have[j]
    BY <1>1, ConcatProperties
  <2> QED
    BY <1>2, <2>1, ConcatProperties DEF Chain
<1>4. s # <<>> /\ s[1] = have[1] /\ s[1].i = 1 /\ At(p) = InHead
  <2>1. 1 \in 1..Len(have) /\ Len(s) # 0
    BY <1>1, <1>3
  <2> QED
    BY <1>2, <1>3, <2>1, EmptySeq DEF Begins
<1>5. /\ p \in Packet /\ Size(p) <= Len(s)
      /\ \A j \in 1..Len(s) : j <= Size(p) => s[j] = [p |-> p, i |-> j]
  <2>0. p \in Packet
    <3>1. 1 \in 1..Len(s)
      BY <1>1, <1>3
    <3>2. s[1] \in Cell
      BY <1>3, <3>1, ElementOfSeq
    <3> QED
      BY <3>2 DEF Cell
  <2>1. Size(p) \in Nat /\ Size(p) = Size(p) - s[1].i + 1
    BY <1>4, <2>0, Sizes
  <2>2. /\ Size(p) <= Len(s)
        /\ \A j \in 1..Len(s) : j <= Size(p) => s[j] = [p |-> p, i |-> s[1].i + (j - 1)]
    <3> DEFINE k == Size(p)
    <3>1. k \in Int /\ k + s[1].i = Size(p) + 1
      BY <1>4, <2>1
    <3>11. Leads(s, inSent, p, k) /\ Ends(s, InTail)
      BY <1>2, <1>4, <3>1 DEF Leads
    <3> HIDE DEF s, k, p
    <3>2. /\ k <= Len(s)
          /\ \A j \in 1..Len(s) : j <= k => s[j] = [p |-> p, i |-> s[1].i + (j - 1)]
      BY ONLY <3>11, ChainTake, EndsTake
    <3> QED
      BY <3>2 DEF k, p
  <2>3. \A j \in 1..Len(s) : s[1].i + (j - 1) = j
    BY <1>4
  <2> QED
    BY <2>0, <2>2, <2>3
<1>6. p.keys = keys
  BY <1>4 DEF At, InHead
<1>7. /\ BodyLen(p) \in Nat \ {0} /\ Mac(keys) \in Nat
      /\ Size(p) \in Nat /\ Size(p) = 1 + BodyLen(p) + Mac(keys)
      /\ keys # 0 => 1 + BodyLen(p) >= B /\ Mac(keys) = MacLen
      /\ keys = 0 => Mac(keys) = 0 /\ B = 1
      /\ BodyLen(p) + Mac(keys) <= MaxPayload /\ MacLen \in Nat \ {0}
  <2>1. /\ BodyLen(p) \in Nat \ {0} /\ Mac(p.keys) \in Nat
        /\ Size(p) \in Nat /\ Size(p) = 1 + BodyLen(p) + Mac(p.keys)
        /\ p.keys # 0 => 1 + BodyLen(p) >= Block /\ Mac(p.keys) = MacLen
        /\ p.keys = 0 => Mac(p.keys) = 0
        /\ BodyLen(p) + Mac(p.keys) <= MaxPayload
    BY <1>5, Sizes
  <2> HIDE DEF s, p
  <2> QED
    BY <1>1, <1>6, <2>1, Blocks
<1>8. Readable(have)
  BY <1>4, <1>6, <1>7 DEF Readable
<1>9. B < Size(p) /\ B <= 1 + BodyLen(p) /\ B <= Len(have) /\ B < Len(s)
  <2>0. Len(have) >= B
    OBVIOUS
  <2> HIDE DEF s, p, B
  <2>1. B \in Nat /\ B <= Len(have) /\ Len(have) \in Nat /\ Len(s) \in Nat /\ Size(p) <= Len(s)
    BY <1>1, <1>3, <1>5, <2>0
  <2>2. B <= 1 + BodyLen(p) /\ B < Size(p)
    <3>0. BodyLen(p) \in Nat \ {0} /\ Size(p) \in Nat /\ Size(p) = 1 + BodyLen(p) + Mac(keys)
      BY <1>7
    <3>1. 1 + BodyLen(p) >= B /\ Mac(keys) \in Nat /\ (Mac(keys) > 0 \/ B = 1)
      BY <1>7
    <3> QED
      BY ONLY <2>1, <3>0, <3>1
  <2> QED
    BY ONLY <1>7, <2>1, <2>2
<1> DEFINE more == SubSeq(have, 2, B)
<1>10. /\ more \in Seq(Cell) /\ Len(more) = B - 1
       /\ \A j \in 1..B - 1 : more[j] = have[j + 1]
  <2>1. \A i \in 2..B : i \in 1..Len(have)
    BY <1>1, <1>9
  <2>2. /\ more \in Seq(Cell) /\ Len(more) = IF 2 <= B THEN B - 2 + 1 ELSE 0
        /\ \A i \in 1..B - 2 + 1 : more[i] = have[2 + i - 1]
    BY <1>1, <1>9, <2>1, SubSeqProperties
  <2> QED
    BY <1>1, <2>2
<1>11. /\ Begin(have).p = p /\ Begin(have).total = BodyLen(p) + Mac(keys)
       /\ Begin(have).got = Opened(more)
  BY <1>4 DEF Begin
<1> HIDE DEF more
<1>12. /\ Opened(more) \in Seq(Got) /\ Len(Opened(more)) = B - 1
       /\ \A j \in 1..B - 1 : Opened(more)[j] = [c |-> more[j], opened |-> TRUE]
  BY <1>10, Marked
<1>13. \A j \in 1..B - 1 :
         /\ Opened(more)[j].c = [p |-> p, i |-> j + 1]
         /\ Opened(more)[j].opened = (keys # 0 /\ j <= BodyLen(p))
  <2> SUFFICES ASSUME NEW j \in 1..B - 1
               PROVE  /\ Opened(more)[j].c = [p |-> p, i |-> j + 1]
                      /\ Opened(more)[j].opened = (keys # 0 /\ j <= BodyLen(p))
    OBVIOUS
  <2>1. Opened(more)[j] = [c |-> have[j + 1], opened |-> TRUE]
    BY <1>10, <1>12
  <2>2. j + 1 \in 1..Len(have) /\ j + 1 \in 1..Len(s) /\ j + 1 <= Size(p)
    <3> HIDE DEF s, p, B
    <3>1. /\ j \in Nat /\ 1 <= j /\ j + 1 <= B /\ B \in Nat
      BY <1>1
    <3>2. /\ Len(have) \in Nat /\ Len(s) \in Nat /\ Size(p) \in Nat
          /\ B <= Len(have) /\ B < Len(s) /\ B < Size(p)
      BY <1>1, <1>3, <1>7, <1>9
    <3> QED
      BY ONLY <3>1, <3>2
  <2>3. have[j + 1] = [p |-> p, i |-> j + 1]
    BY <1>3, <1>5, <2>2
  <2>4. keys # 0 /\ j <= BodyLen(p)
    BY <1>1, <1>7, <1>9
  <2>5. Opened(more)[j].c = have[j + 1] /\ Opened(more)[j].opened = TRUE
    BY <2>1
  <2> QED
    BY <2>3, <2>4, <2>5
<1>14. From(B, have) \o rest = t
  BY <1>1, <1>9, FromConcat
<1>15. Chain(t, inSent) /\ Ends(t, InTail)
  <2>1. B \in 0..Len(s)
    BY <1>1, <1>9
  <2> HIDE DEF B, s
  <2> QED
    BY <1>2, <1>3, <2>1, ChainFrom, EndsFrom
<1>16. t # <<>> /\ t[1] = [p |-> p, i |-> Len(Opened(more)) + 2]
  <2>1. B \in 0..Len(s) /\ 1 \in 1..Len(s) - B /\ B + 1 \in 1..Len(s) /\ B + 1 <= Size(p)
    <3> HIDE DEF s, p, B
    <3>1. /\ B \in Nat /\ Len(s) \in Nat /\ Size(p) \in Nat /\ B < Len(s) /\ B < Size(p)
      BY <1>1, <1>3, <1>7, <1>9
    <3> QED
      BY ONLY <3>1
  <2>2. Len(t) = Len(s) - B /\ t \in Seq(Cell) /\ t[1] = s[B + 1]
    <3> HIDE DEF s, B
    <3>0. s \in Seq(Cell) /\ B \in 0..Len(s)
      BY <1>3, <2>1
    <3>1. Len(t) = Len(s) - B /\ t \in Seq(Cell) /\ \A j \in 1..Len(s) - B : t[j] = s[B + j]
      BY ONLY <3>0, Cuts
    <3> HIDE DEF t
    <3> QED
      BY <2>1, <3>1
  <2>3. s[B + 1] = [p |-> p, i |-> B + 1]
    BY <1>5, <2>1
  <2>4. Len(Opened(more)) + 2 = B + 1
    BY <1>1, <1>12
  <2> QED
    BY <2>1, <2>2, <2>3, <2>4, EmptySeq
<1>17. Len(Opened(more)) < BodyLen(p) + Mac(keys)
  BY <1>1, <1>7, <1>9, <1>12
<1>18. Piece(Begin(have), t)
  BY <1>4, <1>5, <1>6, <1>11, <1>12, <1>13, <1>16, <1>17 DEF Piece
<1> QED
  BY <1>8, <1>14, <1>15, <1>18

(* How much of what is there is taken, and how much of it is decrypted.    *)
LEMMA Portions ==
  ASSUME keys \in Nat, NEW r, NEW have, Len(have) \in Nat, Len(r.got) \in Nat,
         NEW B \in Nat, Mac(keys) \in Nat, r.total = B + Mac(keys), Len(r.got) < r.total
  PROVE  LET d == Portion(r, have).dec
             e == Portion(r, have).raw
             G == Len(r.got)
         IN  /\ d \in Nat /\ e \in Nat /\ d + e <= Len(have)
             /\ G + (d + e) <= r.total
             /\ G + (d + e) # r.total => Len(have) - (d + e) < r.total - (G + (d + e))
             /\ \A j \in 1..d : keys # 0 /\ G + j <= B
             /\ \A j \in d + 1..d + e : ~(keys # 0 /\ G + j <= B)
<1> DEFINE L == Len(have)
           G == Len(r.got)
           T == r.total
           M == Mac(keys)
           d == Portion(r, have).dec
           e == Portion(r, have).raw
           n == IF L <= T - G THEN L ELSE T - G
           body == T - M - G
<1>0. L \in Nat /\ G \in Nat /\ M \in Nat /\ T = B + M /\ G < T /\ T \in Nat
  OBVIOUS
<1>1. /\ keys # 0 => M > 0 /\ Block \in Nat \ {0}
      /\ keys = 0 => M = 0
  BY Blocks DEF Mac
<1>2. Portion(r, have) =
         LET min == Min({L, T - G})
             max == Max({body, 0})
         IN  IF keys = 0 THEN [dec |-> 0, raw |-> min]
             ELSE IF min > body THEN [dec |-> max, raw |-> min - max]
             ELSE [dec |-> min - (min % Block), raw |-> 0]
  BY DEF Portion
<1>3. d = Portion(r, have).dec /\ e = Portion(r, have).raw
  OBVIOUS
<1> SUFFICES /\ d \in Nat /\ e \in Nat /\ d + e <= L
             /\ G + (d + e) <= T
             /\ G + (d + e) # T => L - (d + e) < T - (G + (d + e))
             /\ \A j \in 1..d : keys # 0 /\ G + j <= B
             /\ \A j \in d + 1..d + e : ~(keys # 0 /\ G + j <= B)
  OBVIOUS
<1> HIDE DEF L, G, T, M, d, e
<1>4. n \in Nat /\ n <= L /\ n <= T - G /\ (n = L \/ n = T - G) /\ body \in Int /\ body = B - G
  BY <1>0
<1>5. Min({L, T - G}) = n
  BY <1>0, Minimum
<1>6. Max({body, 0}) = IF body >= 0 THEN body ELSE 0
  BY <1>4, Maximum
<1> HIDE DEF n, body
<1>7. CASE keys = 0
  <2>1. d = 0 /\ e = n
    BY <1>2, <1>3, <1>5, <1>7
  <2> QED
    BY <1>0, <1>1, <1>4, <1>7, <2>1
<1>8. CASE keys # 0 /\ n > body
  <2> DEFINE x == IF body >= 0 THEN body ELSE 0
  <2>1. d = x /\ e = n - x
    BY <1>2, <1>3, <1>5, <1>6, <1>8
  <2> QED
    BY <1>0, <1>1, <1>4, <1>8, <2>1
<1>9. CASE keys # 0 /\ ~(n > body)
  <2> DEFINE m == n % Block
  <2>0. n \in Nat /\ Block \in Nat \ {0}
    BY <1>1, <1>4, <1>9
  <2>01. m \in 0..(Block - 1) /\ m <= n
    BY ONLY <2>0, Modulo
  <2>1. m \in Nat /\ m <= n
    BY <2>0, <2>01
  <2>2. d = n - m /\ e = 0
    BY <1>2, <1>3, <1>5, <1>9
  <2> HIDE DEF m
  <2> QED
    BY <1>0, <1>1, <1>4, <1>9, <2>1, <2>2
<1> QED
  BY <1>0, <1>4, <1>7, <1>8, <1>9

(* More of the packet that is being collected.                             *)
LEMMA CollectStep ==
  ASSUME keys \in Nat, NEW have \in Seq(Cell), NEW rest \in Seq(Cell), NEW r \in Part,
         Chain(have \o rest, inSent), Ends(have \o rest, InTail), Piece(r, have \o rest)
  PROVE  LET t == have \o rest
             c == Portion(r, have).dec + Portion(r, have).raw
             r2 == Collect(r, have)
         IN  /\ c \in 0..Len(have)
             /\ r2 \in Part /\ r2.p = r.p /\ r2.total = r.total
             /\ Len(r2.got) # r2.total =>
                  /\ Piece(r2, From(c, t))
                  /\ Len(From(c, have)) < r2.total - Len(r2.got)
             /\ Len(r2.got) = r2.total =>
                  Confirmed(r2) /\ c + t[1].i = Size(r.p) + 1
<1> DEFINE t == have \o rest
           c == Portion(r, have).dec + Portion(r, have).raw
           r2 == Collect(r, have)
<1>0. /\ t = have \o rest /\ Chain(t, inSent) /\ Ends(t, InTail) /\ Piece(r, t)
      /\ c = Portion(r, have).dec + Portion(r, have).raw /\ r2 = Collect(r, have)
  OBVIOUS
<1> SUFFICES /\ c \in 0..Len(have)
             /\ r2 \in Part /\ r2.p = r.p /\ r2.total = r.total
             /\ Len(r2.got) # r2.total =>
                  /\ Piece(r2, From(c, t))
                  /\ Len(From(c, have)) < r2.total - Len(r2.got)
             /\ Len(r2.got) = r2.total =>
                  Confirmed(r2) /\ c + t[1].i = Size(r.p) + 1
  OBVIOUS
<1> HIDE DEF t, c, r2
<1> DEFINE p == r.p
           G == Len(r.got)
           T == r.total
           d == Portion(r, have).dec
           e == Portion(r, have).raw
           a == Opened(First(d, have))
           b == Verbatim(SubSeq(have, d + 1, d + e))
           B == BodyLen(p)
           M == Mac(keys)
<1>1. /\ p \in Packet /\ p.keys = keys /\ T = B + M /\ r.got \in Seq(Got)
      /\ G \in Nat /\ G < T /\ At(p) = InHead
      /\ t # <<>> /\ t[1] = [p |-> p, i |-> G + 2] /\ Len(have) \in Nat /\ Len(rest) \in Nat
      /\ \A j \in 1..G : /\ r.got[j].c = [p |-> p, i |-> j + 1]
                         /\ r.got[j].opened = (keys # 0 /\ j <= B)
  BY <1>0 DEF Piece
<1>2. B \in Nat \ {0} /\ M \in Nat /\ Size(p) = 1 + B + M /\ T \in Nat
  <2>1. /\ BodyLen(p) \in Nat \ {0} /\ Mac(p.keys) \in Nat
        /\ Size(p) = 1 + BodyLen(p) + Mac(p.keys)
    BY <1>1, Sizes
  <2>2. T = B + M /\ Mac(p.keys) = M
    BY <1>1
  <2> HIDE DEF p, T
  <2> QED
    BY <2>1, <2>2
<1>21. T = B + M /\ T \in Nat
  BY <1>1, <1>2
<1>3. /\ d \in Nat /\ e \in Nat /\ d + e <= Len(have)
      /\ G + (d + e) <= T
      /\ G + (d + e) # T => Len(have) - (d + e) < T - (G + (d + e))
      /\ \A j \in 1..d : keys # 0 /\ G + j <= B
      /\ \A j \in d + 1..d + e : ~(keys # 0 /\ G + j <= B)
  <2> HIDE DEF B, p
  <2> QED
    BY <1>1, <1>2, <1>21, Portions
<1> HIDE DEF B, M, T
<1>4. c = d + e /\ c \in 0..Len(have) /\ c \in Nat
  <2>1. c = d + e
    BY <1>0
  <2> HIDE DEF d, e, G
  <2> QED
    BY <1>1, <1>3, <2>1
<1>5. r2 = [r EXCEPT !.got = @ \o a \o b]
  BY <1>0 DEF Collect
<1> HIDE DEF d, e, G, p
<1>6. /\ a \in Seq(Got) /\ Len(a) = d
      /\ \A j \in 1..d : a[j] = [c |-> have[j], opened |-> TRUE]
  <2> DEFINE h == First(d, have)
  <2>1. d \in 0..Len(have)
    BY <1>1, <1>3
  <2>2. h \in Seq(Cell) /\ Len(h) = d /\ \A j \in 1..d : h[j] = have[j]
    BY <2>1, Cuts
  <2> HIDE DEF h
  <2>3. Opened(h) \in Seq(Got) /\ Len(Opened(h)) = d
        /\ \A j \in 1..d : Opened(h)[j] = [c |-> have[j], opened |-> TRUE]
    BY <2>2, Marked
  <2> QED
    BY <2>3 DEF h
<1>7. /\ b \in Seq(Got) /\ Len(b) = e
      /\ \A j \in 1..e : b[j] = [c |-> have[d + j], opened |-> FALSE]
  <2> DEFINE h == SubSeq(have, d + 1, d + e)
  <2>1. /\ h \in Seq(Cell) /\ Len(h) = IF d + 1 <= d + e THEN (d + e) - (d + 1) + 1 ELSE 0
        /\ \A j \in 1..(d + e) - (d + 1) + 1 : h[j] = have[(d + 1) + j - 1]
    <3>1. \A j \in d + 1..d + e : j \in 1..Len(have)
      BY <1>1, <1>3
    <3>2. d + 1 \in Int /\ d + e \in Int
      BY <1>3
    <3> QED
      BY <3>1, <3>2, SubSeqProperties
  <2> HIDE DEF h
  <2>2. Len(h) = e /\ \A j \in 1..e : h[j] = have[d + j]
    <3>1. (d + e) - (d + 1) + 1 = e /\ (d + 1 <= d + e <=> e > 0)
          /\ \A j \in 1..e : (d + 1) + j - 1 = d + j
      BY <1>3
    <3>2. Len(h) = e
      BY <1>3, <2>1, <3>1
    <3>3. \A j \in 1..e : h[j] = have[(d + 1) + j - 1]
      BY <2>1, <3>1
    <3> QED
      BY <3>1, <3>2, <3>3
  <2>3. Verbatim(h) \in Seq(Got) /\ Len(Verbatim(h)) = e
        /\ \A j \in 1..e : Verbatim(h)[j] = [c |-> have[d + j], opened |-> FALSE]
    BY <2>1, <2>2, Marked
  <2> QED
    BY <2>3 DEF h
<1> HIDE DEF a, b
<1> DEFINE f == r.got \o a
           g == f \o b
<1>8. /\ f \in Seq(Got) /\ Len(f) = G + d
      /\ \A j \in 1..G + d : f[j] = IF j <= G THEN r.got[j] ELSE a[j - G]
  <2>1. G = Len(r.got)
    BY DEF G
  <2> DEFINE v == r.got
  <2>2. v \in Seq(Got) /\ G = Len(v)
    BY <1>1, <2>1
  <2> HIDE DEF v
  <2>3. /\ v \o a \in Seq(Got) /\ Len(v \o a) = G + d
        /\ \A j \in 1..G + d : (v \o a)[j] = IF j <= G THEN v[j] ELSE a[j - G]
    <3>1. /\ v \o a \in Seq(Got) /\ Len(v \o a) = Len(v) + Len(a)
          /\ \A j \in 1..Len(v) + Len(a) : (v \o a)[j] = IF j <= Len(v) THEN v[j] ELSE a[j - Len(v)]
      BY <1>6, <2>2, ConcatProperties
    <3> QED
      BY <1>6, <2>2, <3>1
  <2> QED
    BY <2>3 DEF v
<1>9. /\ g \in Seq(Got) /\ Len(g) = (G + d) + e
      /\ \A j \in 1..(G + d) + e : g[j] = IF j <= G + d THEN f[j] ELSE b[j - (G + d)]
  <2> HIDE DEF f
  <2>1. /\ g \in Seq(Got) /\ Len(g) = Len(f) + Len(b)
        /\ \A j \in 1..Len(f) + Len(b) : g[j] = IF j <= Len(f) THEN f[j] ELSE b[j - Len(f)]
    BY <1>7, <1>8, ConcatProperties
  <2> QED
    BY <1>7, <1>8, <2>1
<1>10. r2.p = p /\ r2.total = T /\ r2.got = g /\ r2 \in Part
  <2>1. r2 = [r EXCEPT !.got = g]
    BY <1>5
  <2> HIDE DEF g
  <2> QED
    BY <1>9, <2>1 DEF Part, p, T
<1> HIDE DEF f, g
<1>11. Len(g) = G + c /\ Len(g) \in Nat
  BY <1>1, <1>3, <1>4, <1>9
<1> DEFINE k == T - G
<1>12. k \in Int /\ k = T - G /\ k + t[1].i = Size(p) + 1 /\ t[1].p = p /\ t[1].i = G + 2
  <2>1. t[1].p = p /\ t[1].i = G + 2
    BY <1>1
  <2>2. G \in Nat /\ T \in Nat /\ T = B + M /\ Size(p) = 1 + B + M /\ B \in Nat /\ M \in Nat
    BY <1>1, <1>2, <1>21
  <2>3. T - G \in Int /\ (T - G) + (G + 2) = Size(p) + 1
    BY ONLY <2>2
  <2> QED
    BY <2>1, <2>3
<1>13. /\ k <= Len(t)
       /\ \A j \in 1..Len(t) : j <= k => t[j] = [p |-> p, i |-> t[1].i + (j - 1)]
  <2>1. p = t[1].p /\ k \in Int /\ k + t[1].i = Size(p) + 1
    BY <1>12
  <2>2. Leads(t, inSent, p, k) /\ Ends(t, InTail)
    BY <1>0, <1>1, <2>1 DEF Leads
  <2> HIDE DEF k
  <2> QED
    BY ONLY <2>2, ChainTake, EndsTake
<1>14. t \in Seq(Cell) /\ Len(t) = Len(have) + Len(rest) /\ \A j \in 1..Len(have) : t[j] = have[j]
  <2>1. \A j \in 1..Len(have) : (have \o rest)[j] = have[j]
    BY <1>1, ConcatProperties
  <2> QED
    BY <1>0, <2>1, ConcatProperties DEF Chain
<1>15. \A j \in 1..c : have[j] = [p |-> p, i |-> (G + j) + 1]
  <2> SUFFICES ASSUME NEW j \in 1..c PROVE have[j] = [p |-> p, i |-> (G + j) + 1]
    OBVIOUS
  <2>0. c \in Nat /\ c <= Len(have) /\ G + c <= T
    BY <1>1, <1>3, <1>4
  <2>1. j \in 1..Len(have) /\ j \in 1..Len(t) /\ j <= k /\ t[1].i + (j - 1) = (G + j) + 1
    <3>1. /\ j \in Nat /\ 1 <= j /\ j <= c
      BY <2>0
    <3>2. /\ G \in Nat /\ T \in Nat /\ k = T - G /\ t[1].i = G + 2
      BY <1>1, <1>21
    <3>3. Len(have) \in Nat /\ Len(rest) \in Nat /\ Len(t) = Len(have) + Len(rest)
      BY <1>1, <1>14
    <3> HIDE DEF k, c, G, T
    <3> QED
      BY ONLY <2>0, <3>1, <3>2, <3>3
  <2> QED
    BY <1>13, <1>14, <2>1
<1> HIDE DEF k
<1>16. \A j \in 1..Len(g) : /\ g[j].c = [p |-> p, i |-> j + 1]
                            /\ g[j].opened = (keys # 0 /\ j <= B)
  <2> SUFFICES ASSUME NEW j \in 1..Len(g)
               PROVE  /\ g[j].c = [p |-> p, i |-> j + 1]
                      /\ g[j].opened = (keys # 0 /\ j <= B)
    OBVIOUS
  <2>1. CASE j <= G
    <3>0. j \in 1..G /\ j \in 1..G + d /\ j \in 1..(G + d) + e /\ j <= G + d
      BY <1>1, <1>3, <1>9, <2>1
    <3>1. g[j] = r.got[j] /\ j \in 1..G
      BY <1>8, <1>9, <2>1, <3>0
    <3> QED
      BY <1>1, <3>1
  <2>2. CASE j > G /\ j <= G + d
    <3>1. j - G \in 1..d /\ j - G \in 1..c /\ j = G + (j - G) /\ j \in Nat
      BY <1>1, <1>3, <1>4, <2>2
    <3>2. g[j] = a[j - G]
      BY <1>1, <1>3, <1>8, <1>9, <2>2
    <3>3. a[j - G] = [c |-> have[j - G], opened |-> TRUE]
      BY <1>6, <3>1
    <3>4. g[j].c = have[j - G] /\ g[j].opened = TRUE
      BY <3>2, <3>3
    <3>5. have[j - G] = [p |-> p, i |-> (G + (j - G)) + 1]
      BY <1>15, <3>1
    <3>6. keys # 0 /\ G + (j - G) <= B
      BY <1>3, <3>1
    <3> QED
      BY <3>1, <3>4, <3>5, <3>6
  <2>3. CASE j > G + d
    <3> DEFINE x == j - G
    <3>1. x \in d + 1..d + e /\ x \in 1..c /\ j = G + x /\ x = d + (j - (G + d))
          /\ j - (G + d) \in 1..e /\ j \in 1..(G + d) + e
      BY <1>1, <1>3, <1>4, <1>9, <2>3
    <3>2. g[j] = b[j - (G + d)]
      BY <1>1, <1>3, <1>9, <2>3, <3>1
    <3>3. b[j - (G + d)] = [c |-> have[d + (j - (G + d))], opened |-> FALSE]
      BY <1>7, <3>1
    <3> HIDE DEF x
    <3>4. g[j].c = have[x] /\ g[j].opened = FALSE
      BY <3>1, <3>2, <3>3
    <3>5. have[x] = [p |-> p, i |-> (G + x) + 1]
      BY <1>15, <3>1
    <3>6. ~(keys # 0 /\ G + x <= B)
      BY <1>3, <3>1
    <3> QED
      BY <3>1, <3>4, <3>5, <3>6
  <2> QED
    BY <1>1, <1>3, <1>11, <2>1, <2>2, <2>3
<1>17. ASSUME Len(g) # T
       PROVE  Piece(r2, From(c, t)) /\ Len(From(c, have)) < T - Len(g)
  <2>1. c < T - G /\ Len(g) < T
    <3>1. G + c <= T /\ G + c # T /\ G \in Nat /\ T \in Nat /\ c \in Nat
      BY <1>1, <1>2, <1>3, <1>4, <1>11, <1>17
    <3> QED
      BY <1>11, <3>1
  <2>2. Len(From(c, have)) = Len(have) - c
    BY <1>4, Cuts
  <2>3. Len(From(c, have)) < T - Len(g)
    BY <1>1, <1>2, <1>3, <1>4, <1>11, <1>17, <2>2
  <2>4. c \in 0..Len(t) /\ 1 \in 1..Len(t) - c /\ c + 1 \in 1..Len(t) /\ c + 1 <= k
    <3>1. Len(t) \in Nat /\ k <= Len(t) /\ c < k /\ c \in Nat /\ k \in Int
      BY <1>1, <1>2, <1>4, <1>12, <1>13, <1>14, <2>1
    <3> QED
      BY ONLY <3>1
  <2>5. From(c, t) \in Seq(Cell) /\ Len(From(c, t)) = Len(t) - c /\ From(c, t)[1] = t[c + 1]
    BY <1>14, <2>4, Cuts
  <2>6. t[c + 1] = [p |-> p, i |-> t[1].i + ((c + 1) - 1)]
    BY <1>13, <2>4
  <2>7. t[1].i + ((c + 1) - 1) = Len(g) + 2
    <3>1. t[1].i = G + 2 /\ Len(g) = G + c /\ G \in Nat /\ c \in Nat
      BY <1>1, <1>4, <1>11
    <3> HIDE DEF G, c
    <3> QED
      BY ONLY <3>1
  <2>8. From(c, t) # <<>>
    BY <2>4, <2>5, EmptySeq
  <2> QED
    <3>1. From(c, t)[1] = [p |-> p, i |-> Len(g) + 2]
      BY <2>5, <2>6, <2>7
    <3> HIDE DEF T
    <3>2. r2.p = p /\ r2.total = T /\ r2.got = g
      BY <1>10
    <3> QED
      BY <1>1, <1>9, <1>16, <2>1, <2>3, <2>8, <3>1, <3>2 DEF Piece, B, M
<1>18. ASSUME Len(g) = T
       PROVE  Confirmed(r2) /\ c + t[1].i = Size(p) + 1
  <2>1. c = k
    <3>1. G \in Nat /\ c \in Nat /\ Len(g) = G + c /\ k = T - G /\ Len(g) = T
      BY <1>1, <1>4, <1>11, <1>12, <1>18
    <3> QED
      BY ONLY <3>1
  <2>2. p.seq = rseq
    BY <1>1 DEF At, InHead
  <2>3. DOMAIN g = 1..Len(g)
    BY <1>9, LenProperties
  <2> QED
    BY <1>10, <1>12, <1>16, <2>1, <2>2, <2>3 DEF Confirmed, B
<1> QED
  BY <1>4, <1>10, <1>17, <1>18 DEF p, T

(* Less than a block is less than a packet.                                *)
LEMMA ShortOfPacket ==
  ASSUME Types, InStream, rx.total = 0, InKeys = keys,
         NEW have \in Seq(Cell), NEW rest \in Seq(Cell), InCells = have \o rest,
         Len(have) < ReadBlock, have # <<>>
  PROVE  Len(have) < Size(have[1].p)
<1> DEFINE p == have[1].p
<1>1. Len(have) \in Nat /\ Len(have) > 0 /\ 1 \in 1..Len(have) /\ Len(rest) \in Nat
  BY EmptySeq
<1>2. p \in Packet
  <2>1. have[1] \in Cell
    BY <1>1, ElementOfSeq
  <2> QED
    BY <2>1 DEF Cell
<1>3. InCells # <<>> /\ InCells[1] = have[1]
  <2>1. (have \o rest)[1] = have[1] /\ Len(have \o rest) = Len(have) + Len(rest)
        /\ have \o rest \in Seq(Cell)
    BY <1>1, ConcatProperties
  <2>2. have \o rest # <<>>
    BY <1>1, <2>1, EmptySeq
  <2> QED
    BY <2>1, <2>2
<1>4. At(p) = InHead
  BY <1>3 DEF InStream, Begins
<1>5. p.keys = keys
  BY <1>4 DEF At, InHead
<1>6. keys \in Nat
  BY DEF Types
<1> HIDE DEF p
<1>7. /\ BodyLen(p) \in Nat /\ Mac(p.keys) \in Nat /\ Size(p) = 1 + BodyLen(p) + Mac(p.keys)
      /\ Size(p) \in Nat
      /\ keys # 0 => 1 + BodyLen(p) >= Block
  BY <1>2, <1>5, Sizes
<1>8. /\ ReadBlock \in Nat /\ Block \in Nat
      /\ keys = 0 => ReadBlock = 1
      /\ keys # 0 => ReadBlock = Block
  BY <1>6, Blocks
<1>9. Len(have) < Size(p)
  <2> DEFINE l == Len(have)
             b == BodyLen(p)
             m == Mac(p.keys)
  <2>1. l \in Nat /\ l > 0 /\ b \in Nat /\ m \in Nat /\ Size(p) = 1 + b + m /\ l < ReadBlock
    BY <1>1, <1>7
  <2>2. keys # 0 => 1 + b >= Block
    BY <1>7
  <2> HIDE DEF l, b, m
  <2>3. l < Size(p)
    BY <1>6, <1>8, <2>1, <2>2
  <2> QED
    BY <2>3 DEF l
<1> QED
  BY <1>9 DEF p

(* A read that completes no packet, and one that completes packet p.       *)
Waits ==
  /\ InStream' /\ RxInv' /\ Woken' /\ rx' \in Part \cup {NoPacket}
  /\ UNCHANGED <<out, lseq, rseq, adding, queue, kst, outNet, peer, garbled, logVars>>
Completes(p, n) ==
  /\ p \in Packet /\ At(p) = InHead
  /\ p.n \in DOMAIN inSent /\ inSent[p.n] = p.msg /\ AfterKeys(p) <= peer.seals
  /\ Chain(InCells', inSent) /\ Ends(InCells', InTail) /\ Begins(InCells', Succ(p))
  /\ InCells' = <<>> => Succ(p) = InTail
  /\ rx' = NoPacket /\ rseq' = Succ(p).seq /\ wants' = FALSE
  /\ \/ p.msg = "REQUEST" /\ Answer(n) /\ UNCHANGED <<queue, kst>>
     \/ p.msg # "REQUEST" /\ PacketAdd(p.msg)

(* One round of transport_read() over what is in its buffer waits for more *)
(* of the packet or completes exactly the next one, with its MAC in place. *)
LEMMA UseStep ==
  ASSUME Types, InStream, RxInv, adding = None, InKeys = keys,
         NEW have \in Seq(Cell), NEW rest \in Seq(Cell), InCells = have \o rest,
         NEW n, Use(have, n), inNet' = rest, keys' = keys
  PROVE  /\ buf' \in Seq(Cell) /\ wants' \in BOOLEAN
         /\ Waits \/ \E p : Completes(p, n)
<1> DEFINE begins == rx.total = 0
           r1 == IF begins THEN Begin(have) ELSE rx
           h1 == IF begins THEN From(ReadBlock, have) ELSE have
           q == Portion(r1, h1)
           c == q.dec + q.raw
           r2 == Collect(r1, h1)
           t == h1 \o rest
<1>0. keys \in Nat /\ ReadBlock \in Nat \ {0} /\ Len(have) \in Nat
  BY Blocks DEF Types
<1>1. CASE /\ begins /\ Len(have) < ReadBlock
           /\ buf' = have /\ wants' = TRUE
           /\ UNCHANGED <<out, lseq, adding, queue, kst, outNet, peer, logVars, rx, rseq, garbled>>
  <2>1. InCells' = InCells
    BY <1>1 DEF InCells
  <2>2. UNCHANGED <<InHead, InTail, inSent, inGot, adding, rx>>
    BY <1>1 DEF InHead, InTail, Taken, InKeys, logVars
  <2>3. InStream'
    BY <2>1, <2>2 DEF InStream
  <2>4. RxInv'
    BY <1>1, <2>2 DEF RxInv, NoPacket
  <2>5. Woken'
    BY <1>1, ShortOfPacket DEF Woken
  <2> QED
    BY <1>1, <2>3, <2>4, <2>5 DEF Waits, Types
<1>2. CASE /\ begins /\ Len(have) >= ReadBlock /\ ~Readable(have)
  BY <1>2, BeginStep
<1>3. CASE /\ begins => Len(have) >= ReadBlock
           /\ buf' = From(c, h1) /\ wants' = FALSE
           /\ IF Len(r2.got) = r2.total THEN FullPacket(r2, n)
              ELSE /\ rx' = r2
                   /\ UNCHANGED <<out, lseq, adding, queue, kst, outNet, peer, logVars, rseq, garbled>>
  <2>1. h1 \in Seq(Cell) /\ Len(h1) \in Nat
    <3>1. CASE begins
      <4>1. ReadBlock \in 0..Len(have)
        BY <1>0, <1>3, <3>1
      <4> QED
        BY <3>1, <4>1, Cuts
    <3>2. CASE ~begins
      BY <3>2
    <3> QED
      BY <3>1, <3>2
  <2>2. Piece(r1, t) /\ Chain(t, inSent) /\ Ends(t, InTail) /\ r1 \in Part
    <3>1. CASE begins
      <4>1. Piece(Begin(have), t) /\ Chain(t, inSent) /\ Ends(t, InTail)
        BY <1>3, <3>1, BeginStep
      <4>2. Begin(have) = [p |-> Begin(have).p, total |-> Begin(have).total, got |-> Begin(have).got]
        BY DEF Begin
      <4> DEFINE b == Begin(have)
      <4>3. b.p \in Packet /\ b.p.keys = keys /\ b.total = BodyLen(b.p) + Mac(keys) /\ b.got \in Seq(Got)
        BY <4>1 DEF Piece
      <4> HIDE DEF b
      <4>4. b.total \in Nat
        BY <4>3, Sizes
      <4>5. b \in Part
        BY <4>2, <4>3, <4>4 DEF Part, b
      <4> QED
        BY <3>1, <4>1, <4>5 DEF b
    <3>2. CASE ~begins
      <4>1. Piece(rx, t)
        BY <3>2 DEF RxInv, Collecting
      <4>2. Chain(t, inSent) /\ Ends(t, InTail)
        BY <3>2 DEF InStream
      <4>4. rx \in Part
        BY <3>2 DEF Types, NoPacket
      <4> QED
        BY <3>2, <4>1, <4>2, <4>4
    <3> QED
      BY <3>1, <3>2
  <2> HIDE DEF begins, r1, h1
  <2>3. /\ c \in 0..Len(h1)
        /\ r2 \in Part /\ r2.p = r1.p /\ r2.total = r1.total
        /\ Len(r2.got) # r2.total =>
             Piece(r2, From(c, t)) /\ Len(From(c, h1)) < r2.total - Len(r2.got)
        /\ Len(r2.got) = r2.total =>
              Confirmed(r2) /\ c + t[1].i = Size(r1.p) + 1
    <3>2. /\ keys \in Nat /\ h1 \in Seq(Cell) /\ rest \in Seq(Cell) /\ r1 \in Part
          /\ Piece(r1, t) /\ Chain(t, inSent) /\ Ends(t, InTail)
      BY <1>0, <2>1, <2>2
    <3> QED
      BY ONLY <3>2, CollectStep
  <2> HIDE DEF c, r2
  <2>4. buf' \in Seq(Cell)
    BY <1>3, <2>1, <2>3, Cuts
  <2>5. InCells' = From(c, t)
    BY <1>3, <2>1, <2>3, FromConcat DEF InCells
  <2>51. t \in Seq(Cell) /\ c \in 0..Len(t)
    <3>1. t \in Seq(Cell) /\ Len(t) = Len(h1) + Len(rest) /\ Len(rest) \in Nat
      BY <2>1, ConcatProperties
    <3> HIDE DEF t
    <3> QED
      BY <2>1, <2>3, <3>1
  <2> HIDE DEF t
  <2>6. CASE Len(r2.got) # r2.total
    <3>1. /\ rx' = r2 /\ wants' = FALSE
          /\ UNCHANGED <<out, lseq, rseq, adding, queue, kst, outNet, peer, garbled, logVars>>
      BY <1>3, <2>6
    <3>2. UNCHANGED <<InHead, InTail, inSent, inGot, adding, keys>>
      BY <3>1 DEF InHead, InTail, Taken, InKeys, logVars
    <3>3. Chain(From(c, t), inSent) /\ Ends(From(c, t), InTail)
      BY <2>2, <2>51, ChainFrom, EndsFrom
    <3>4. Piece(r2, From(c, t)) /\ Len(From(c, h1)) < r2.total - Len(r2.got)
      BY <2>3, <2>6
    <3>5. Len(r2.got) \in Nat /\ r2.total \in Nat /\ Len(r2.got) < r2.total
      BY <2>3, <3>4 DEF Piece, Part
    <3>6. rx'.total # 0
      BY <3>1, <3>5
    <3>7. Collecting'
      BY <1>3, <2>5, <3>1, <3>2, <3>4 DEF Collecting, Piece
    <3>8. RxInv' /\ Woken'
      BY <3>1, <3>6, <3>7 DEF RxInv, Woken
    <3>9. InStream'
      BY <2>5, <3>2, <3>3, <3>6 DEF InStream
    <3> QED
      BY <1>3, <2>3, <2>4, <3>1, <3>8, <3>9 DEF Waits
  <2>7. CASE Len(r2.got) = r2.total
    <3> DEFINE p == r1.p
    <3>1. Confirmed(r2) /\ c + t[1].i = Size(p) + 1 /\ r2.p = p /\ c \in Int
      BY <2>3, <2>7
    <3>2. /\ rseq' = (rseq + 1) % SeqnoMod /\ rx' = NoPacket /\ wants' = FALSE
          /\ \/ p.msg = "REQUEST" /\ Answer(n) /\ UNCHANGED <<queue, kst>>
             \/ p.msg # "REQUEST" /\ PacketAdd(p.msg)
      BY <1>3, <2>7, <3>1 DEF FullPacket
    <3>3. p \in Packet /\ At(p) = InHead /\ t # <<>> /\ p = t[1].p
      BY <2>2 DEF Piece
    <3>4. rseq' = Succ(p).seq
      BY <3>2, <3>3 DEF At, InHead, Succ
    <3> HIDE DEF p
    <3>5. Chain(t, inSent) /\ Ends(t, InTail) /\ c <= Len(t)
      BY <2>2, <2>51
    <3>51. Leads(t, inSent, p, c) /\ Ends(t, InTail) /\ c <= Len(t)
      BY <3>1, <3>3, <3>5 DEF Leads
    <3>6. /\ p.n \in DOMAIN inSent /\ inSent[p.n] = p.msg
          /\ Chain(From(c, t), inSent) /\ Ends(From(c, t), InTail)
          /\ From(c, t) # <<>> => From(c, t)[1].i = 1 /\ At(From(c, t)[1].p) = Succ(p)
          /\ From(c, t) = <<>> => Succ(p) = InTail
      BY ONLY <3>51, ChainTake, EndsTake
    <3>7. Begins(From(c, t), Succ(p))
      BY <3>6 DEF Begins
    <3>71. AfterKeys(p) <= peer.seals
      <4>1. 1 \in 1..Len(t)
        BY <2>51, <3>3, EmptySeq
      <4> QED
        BY <3>3, <3>5, <4>1 DEF Ends, InTail
    <3>8. Completes(p, n)
      BY <2>5, <3>2, <3>3, <3>4, <3>6, <3>7, <3>71 DEF Completes
    <3> QED
      BY <1>3, <2>4, <3>8
  <2> QED
    BY <2>4, <2>6, <2>7, <1>3
<1> QED
  BY <1>1, <1>2, <1>3 DEF Use

(* The same of a whole call of transport_read(), with what the socket      *)
(* gave, and on a dead socket it waits where it was.                       *)
LEMMA ReadStep ==
  ASSUME Types, InStream, RxInv, InKeys = keys, NEW k, NEW n, TransportRead(k, n)
  PROVE  /\ buf' \in Seq(Cell) /\ inNet' \in Seq(Cell) /\ wants' \in BOOLEAN
         /\ keys' = keys /\ sock' = sock /\ adding = None
         /\ Waits \/ \E p : Completes(p, n)
         /\ sock = "down" /\ Len(buf) < ReadBlock => Waits /\ buf' = buf
<1>0. /\ adding = None /\ keys' = keys /\ buf \in Seq(Cell) /\ inNet \in Seq(Cell)
      /\ keys \in Nat /\ ReadBlock \in Nat \ {0} /\ Len(buf) \in Nat /\ Len(inNet) \in Nat
      /\ InCells = buf \o inNet
  <2>1. adding = None /\ keys' = keys /\ InCells = buf \o inNet
    BY DEF TransportRead, InCells
  <2>2. buf \in Seq(Cell) /\ inNet \in Seq(Cell) /\ keys \in Nat
    BY DEF Types
  <2> QED
    BY <2>1, <2>2, Blocks
<1>1. CASE /\ Len(buf) < ReadBlock /\ sock = "up"
           /\ k \in 1..Min({BufSize - Len(buf), Len(inNet)})
           /\ inNet' = From(k, inNet) /\ UNCHANGED sock
           /\ Use(buf \o First(k, inNet), n)
  <2>1. k \in 0..Len(inNet)
    <3>1. BufSize - Len(buf) \in Int
      BY <1>0, TransportAssumption
    <3> DEFINE x == BufSize - Len(buf)
               y == Len(inNet)
    <3> HIDE DEF x
    <3>2. Min({x, y}) = (IF x <= y THEN x ELSE y) /\ x \in Int /\ y \in Nat
      <4>1. x \in Int /\ y \in Nat
        BY <1>0, <3>1 DEF x
      <4> HIDE DEF y
      <4> QED
        BY <4>1, Minimum
    <3>3. k \in 1..Min({x, y})
      BY <1>1 DEF x
    <3> QED
      BY <3>2, <3>3
  <2> DEFINE a == First(k, inNet)
             b == From(k, inNet)
  <2>2. a \in Seq(Cell) /\ b \in Seq(Cell) /\ a \o b = inNet /\ inNet' = b
    BY <1>0, <1>1, <2>1, Cuts
  <2>3. Use(buf \o a, n)
    BY <1>1
  <2> HIDE DEF a, b
  <2>4. InCells = (buf \o a) \o b /\ buf \o a \in Seq(Cell)
    <3>1. buf \in Seq(Cell) /\ a \in Seq(Cell) /\ b \in Seq(Cell)
      BY <1>0, <2>2
    <3>2. (buf \o a) \o b = buf \o (a \o b)
      BY ONLY <3>1
    <3> QED
      BY <1>0, <2>2, <3>2, ConcatProperties
  <2> DEFINE h == buf \o a
  <2>5. InCells = h \o b /\ h \in Seq(Cell) /\ Use(h, n)
    BY <2>3, <2>4
  <2> HIDE DEF h
  <2>6. buf' \in Seq(Cell) /\ wants' \in BOOLEAN /\ (Waits \/ \E p : Completes(p, n))
    BY <1>0, <2>2, <2>5, UseStep
  <2> QED
    BY <1>0, <1>1, <2>2, <2>6
<1>2. CASE /\ Len(buf) >= ReadBlock /\ UNCHANGED <<inNet, sock>> /\ Use(buf, n)
  <2>1. buf' \in Seq(Cell) /\ wants' \in BOOLEAN /\ (Waits \/ \E p : Completes(p, n))
    BY <1>0, <1>2, UseStep
  <2> QED
    BY <1>0, <1>2, <2>1
<1>3. CASE /\ Len(buf) < ReadBlock /\ wants' = TRUE
           /\ UNCHANGED <<lseq, rseq, out, buf, rx, adding, queue, kst, netVars, logVars>>
  <2>0. UNCHANGED <<sock, inNet, outNet, peer, garbled, outSent, outGot, inSent, inGot>>
    BY <1>3 DEF netVars, logVars
  <2>1. UNCHANGED <<InCells, InHead, InTail>>
    BY <1>0, <1>3, <2>0 DEF InCells, InHead, InTail, Taken, InKeys
  <2>2. InStream'
    BY <1>3, <2>0, <2>1 DEF InStream
  <2>3. RxInv'
    BY <1>0, <1>3, <2>0, <2>1 DEF RxInv, NoPacket, Collecting, Piece
  <2>4. Woken'
    <3>1. rx.total = 0 /\ buf # <<>> => Len(buf) < Size(buf[1].p)
      BY <1>0, <1>3, ShortOfPacket
    <3> QED
      BY <1>3, <3>1 DEF Woken
  <2> QED
    BY <1>0, <1>3, <2>0, <2>2, <2>3, <2>4 DEF Waits, Types, logVars
<1> QED
  BY <1>0, <1>1, <1>2, <1>3 DEF TransportRead

(* Where the library is in the stream of the peer.                         *)
LEMMA TakenBound ==
  ASSUME Types, InStream, RxInv
  PROVE  /\ Taken \in Nat /\ Len(inSent) \in Nat /\ Taken <= Len(inSent)
         /\ AllTaken => InCells = <<>> /\ rx = NoPacket /\ buf = <<>>
         /\ InCells = <<>> => AllTaken /\ InKeys = peer.seals
<1>1. /\ Taken \in Nat /\ Len(inSent) \in Nat /\ DOMAIN inSent = 1..Len(inSent)
      /\ buf \in Seq(Cell) /\ inNet \in Seq(Cell) /\ InCells \in Seq(Cell)
      /\ InCells = buf \o inNet
  BY ConcatProperties, LenProperties DEF Types, Taken, InCells
<1>2. InCells # <<>> => Taken + 1 \in DOMAIN inSent
  <2> SUFFICES ASSUME InCells # <<>> PROVE Taken + 1 \in DOMAIN inSent
    OBVIOUS
  <2>1. At(InCells[1].p) = InHead
    <3>1. CASE rx.total = 0
      BY <3>1 DEF InStream, Begins
    <3>2. CASE rx.total # 0
      <4>1. InCells[1] = [p |-> rx.p, i |-> Len(rx.got) + 2] /\ At(rx.p) = InHead
        BY <3>2 DEF RxInv, Collecting, Piece
      <4> QED
        BY <4>1
    <3> QED
      BY <3>1, <3>2
  <2>2. InCells[1].p.n = Taken + 1
    BY <2>1 DEF At, InHead
  <2>3. 1 \in 1..Len(InCells)
    BY <1>1, EmptySeq
  <2> QED
    BY <2>2, <2>3 DEF InStream, Chain, Whose
<1>3. InCells = <<>> => rx.total = 0 /\ InHead = InTail
  BY DEF InStream, RxInv, Collecting, Piece
<1>4. InCells = <<>> => AllTaken /\ InKeys = peer.seals
  <2> SUFFICES ASSUME InCells = <<>> PROVE AllTaken /\ InKeys = peer.seals
    OBVIOUS
  <2>1. Taken + 1 = Len(inSent) + 1 /\ InKeys = peer.seals
    BY <1>3 DEF InHead, InTail
  <2>2. Taken \in Nat /\ Len(inSent) \in Nat
    BY <1>1
  <2>3. Taken = Len(inSent)
    BY ONLY <2>1, <2>2
  <2> QED
    BY <2>1, <2>3 DEF AllTaken
<1>5. Taken <= Len(inSent)
  <2>1. Taken = Len(inSent) \/ Taken + 1 \in 1..Len(inSent)
    BY <1>1, <1>2, <1>4 DEF AllTaken
  <2>2. Taken \in Nat /\ Len(inSent) \in Nat
    BY <1>1
  <2> QED
    BY ONLY <2>1, <2>2
<1>6. AllTaken => InCells = <<>>
  BY <1>1, <1>2 DEF AllTaken
<1>7. InCells = <<>> => rx = NoPacket /\ buf = <<>>
  <2> SUFFICES ASSUME InCells = <<>> PROVE rx = NoPacket /\ buf = <<>>
    OBVIOUS
  <2>1. Len(InCells) = Len(buf) + Len(inNet) /\ Len(InCells) = 0
    BY <1>1, ConcatProperties, EmptySeq
  <2>2. Len(buf) \in Nat /\ Len(inNet) \in Nat
    BY <1>1
  <2>3. Len(buf) = 0
    BY <2>1, <2>2
  <2> QED
    BY <1>1, <1>3, <2>3, EmptySeq DEF RxInv
<1> QED
  BY <1>1, <1>4, <1>5, <1>6, <1>7

----------------------------------------------------------------------------
(* The stream to the peer                                                  *)

(* transport_send() keeps the stream to the peer: all of a packet, with    *)
(* the keys and the number of its place, before the next one.              *)
LEMMA SendKeeps ==
  ASSUME Types, OutStream, NEW m \in Messages, NEW n, TransportSend(m, n),
         out.data # m => OutKeys = keys,
         OutKeys' = IF out.data = m THEN OutKeys ELSE IF m = "NEWKEYS" THEN keys + 1 ELSE keys
  PROVE  /\ OutStream' /\ out' \in [data : {m, None}, rest : Seq(Cell)]
         /\ outNet' \in Seq(Cell) /\ lseq' \in Nat /\ outSent' \in Seq(Messages)
         /\ Sent(m, n) <=> out'.data = None
         /\ outSent' \in {outSent, Append(outSent, m)}
         /\ NoInit /\ m # "KEXINIT" => NoInit'
         /\ OneInit /\ m # "KEXINIT" => OneInit'
         /\ LastInit /\ m = "KEXINIT" => OneInit' /\ (out'.data = m => LastInit')
<1>0. sock = "up" /\ UNCHANGED <<sock, peer, garbled, outGot, inSent>>
  BY DEF TransportSend
<1>1. /\ out' \in [data : {m, None}, rest : Seq(Cell)] /\ outNet' \in Seq(Cell)
      /\ out'.data = None <=> out'.rest = <<>>
      /\ Sent(m, n) <=> out'.data = None
      /\ \/ /\ out.data = m /\ OutCells' = OutCells
            /\ outSent' = outSent /\ lseq' = lseq
         \/ /\ out.data = None /\ OutNew(m) \in Packet
            /\ OutCells' = OutCells \o CellsOf(OutNew(m))
            /\ outSent' = Append(outSent, m) /\ lseq' = Succ(OutNew(m)).seq
  BY <1>0, SendStep
<1>2. OutHead' = OutHead
  BY <1>0 DEF OutHead
<1>3. /\ lseq \in Nat /\ outSent \in Seq(Messages) /\ Len(outSent) \in Nat /\ m # None
      /\ keys \in Nat
  <2>1. m # None
    BY TransportAssumption
  <2> QED
    BY <2>1 DEF Types
<1>4. CASE out.data = m /\ OutCells' = OutCells /\ outSent' = outSent /\ lseq' = lseq
  <2>1. OutTail' = OutTail
    BY <1>4 DEF OutTail
  <2>2. OutStream'
    BY <1>0, <1>1, <1>2, <1>4, <2>1 DEF OutStream
  <2>3. NoInit => NoInit'
    BY <1>4 DEF NoInit
  <2>4. OneInit => OneInit'
    BY <1>4 DEF OneInit
  <2>5. LastInit => OneInit' /\ (out'.data = m => LastInit')
    BY <1>4 DEF OneInit, LastInit
  <2> QED
    BY <1>1, <1>3, <1>4, <2>2, <2>3, <2>4, <2>5
<1>5. CASE /\ out.data = None /\ OutNew(m) \in Packet
           /\ OutCells' = OutCells \o CellsOf(OutNew(m))
           /\ outSent' = Append(outSent, m) /\ lseq' = Succ(OutNew(m)).seq
  <2> DEFINE q == OutNew(m)
             s == OutCells
             t == OutCells'
             sent == outSent'
  <2>0. OutKeys = keys /\ OutKeys' = IF m = "NEWKEYS" THEN keys + 1 ELSE keys
    BY <1>3, <1>5
  <2>1. q \in Packet /\ q.n = Len(outSent) + 1 /\ q.msg = m /\ OutTail = At(q)
    BY <1>5, <2>0 DEF OutNew, OutTail, At
  <2>2. sent \in Seq(Messages) /\ Len(sent) = Len(outSent) + 1 /\ sent = Append(outSent, q.msg)
    BY <1>3, <1>5, <2>1, AppendProperties
  <2>3. OutTail' = Succ(q)
    <3>1. Len(outSent') = q.n + 1 - 1 /\ q.n + 1 - 1 \in Nat /\ Len(outSent') + 1 = q.n + 1
      BY <1>3, <2>1, <2>2
    <3>2. OutKeys' = AfterKeys(q)
      BY <2>0 DEF AfterKeys, OutNew
    <3> QED
      BY <1>5, <3>1, <3>2 DEF OutTail, Succ
  <2>4. t = s \o CellsOf(q)
    BY <1>5
  <2>41. lseq' \in Nat
    <3>1. lseq' = (lseq + 1) % SeqnoMod
      BY <1>5 DEF Succ, OutNew
    <3>2. lseq + 1 \in Nat /\ SeqnoMod \in Nat \ {0}
      BY <1>3, TransportAssumption
    <3> QED
      BY <3>1, <3>2, Modulo
  <2>5. Chain(s, outSent) /\ Begins(s, OutHead) /\ Ends(s, OutTail) /\ (s = <<>> => OutHead = OutTail)
    BY <1>0 DEF OutStream
  <2> HIDE DEF q, s, t, sent
  <2>6. Size(q) \in Nat /\ Size(q) > 1 /\ s \in Seq(Cell) /\ Len(s) \in Nat
    BY <2>1, <2>5, Pieced, Sizes DEF Chain
  <2>7. /\ Chain(t, sent) /\ Ends(t, Succ(q)) /\ Len(t) = Len(s) + Size(q)
        /\ \A j \in 1..Len(s) : t[j] = s[j]
        /\ \A j \in Len(s) + 1..Len(s) + Size(q) : t[j] = [p |-> q, i |-> j - Len(s)]
    BY <1>3, <2>1, <2>2, <2>4, <2>5, ChainAppend
  <2>8. \A j \in 1..Len(t) : (j \in 1..Len(s) /\ t[j] = s[j]) \/ t[j].p = q
    <3> SUFFICES ASSUME NEW j \in 1..Len(t), ~(j \in 1..Len(s)) PROVE t[j].p = q
      BY <2>7
    <3>1. j \in Len(s) + 1..Len(s) + Size(q)
      BY <2>6, <2>7
    <3>2. t[j] = [p |-> q, i |-> j - Len(s)]
      BY <2>7, <3>1
    <3> QED
      BY <3>2
  <2>9. Begins(t, OutHead)
    <3>1. CASE s # <<>>
      <4>1. t[1] = s[1]
        BY <2>6, <2>7, <3>1, EmptySeq
      <4> QED
        BY <2>5, <3>1, <4>1 DEF Begins
    <3>2. CASE s = <<>>
      <4>1. Len(s) = 0
        BY <3>2, EmptySeq
      <4>2. 1 \in Len(s) + 1..Len(s) + Size(q) /\ 1 - Len(s) = 1
        BY <2>6, <4>1
      <4>3. t[1] = [p |-> q, i |-> 1]
        BY <2>7, <4>2
      <4> QED
        BY <2>1, <2>5, <3>2, <4>3 DEF Begins
    <3> QED
      BY <3>1, <3>2
  <2>10. t # <<>>
    <3>1. Len(t) # 0
      BY <2>6, <2>7
    <3> QED
      BY <3>1, EmptySeq
  <2>11. OutStream'
    <3>1. OutCells' = t /\ outSent' = sent /\ OutHead' = OutHead /\ OutTail' = Succ(q)
      BY <1>2, <2>3 DEF t, sent
    <3> QED
      BY <1>1, <2>7, <2>9, <2>10, <3>1 DEF OutStream
  <2>12. NoInit /\ m # "KEXINIT" => NoInit'
    BY <2>1, <2>8 DEF NoInit, s, t
  <2>13. OneInit /\ m # "KEXINIT" => OneInit'
    BY <2>1, <2>8 DEF OneInit, s, t
  <2>14. LastInit => NoInit
    BY <1>5, TransportAssumption DEF LastInit, NoInit
  <2>15. NoInit => OneInit' /\ (m = "KEXINIT" /\ out'.data = m => LastInit')
    <3>1. NoInit => \A j \in 1..Len(t) : t[j].p.msg = "KEXINIT" => t[j].p = q
      BY <2>8 DEF NoInit, s
    <3>2. q.n = Len(sent)
      BY <2>1, <2>2
    <3> QED
      BY <3>1, <3>2 DEF OneInit, LastInit, t, sent
  <2> QED
    BY <1>1, <1>5, <2>2, <2>11, <2>12, <2>13, <2>14, <2>15, <2>41 DEF sent
<1> QED
  BY <1>1, <1>4, <1>5

(* A send that fails, on a socket that is down.                            *)
LEMMA FailKeeps ==
  ASSUME Types, OutStream, NEW m, SendFails(m)
  PROVE  OutStream' /\ lseq' \in Nat /\ UNCHANGED <<out, sock, outNet, peer, garbled, outSent, outGot, inSent>>
<1>1. /\ sock = "down" /\ UNCHANGED <<out, sock, outNet, peer, garbled, outSent, outGot, inSent>>
      /\ lseq' \in {lseq, (lseq + 1) % SeqnoMod}
  BY DEF SendFails
<1>2. lseq \in Nat /\ lseq + 1 \in Nat /\ SeqnoMod \in Nat \ {0}
  BY TransportAssumption DEF Types
<1>3. lseq' \in Nat
  BY <1>1, <1>2, Modulo
<1>4. OutCells' = OutCells /\ OutHead' = OutHead
  BY <1>1 DEF OutCells, OutHead
<1>5. OutStream'
  BY <1>1, <1>4 DEF OutStream
<1> QED
  BY <1>1, <1>3, <1>5

(* What the peer opens is the next packet, whole.                          *)
LEMMA OpenKeeps ==
  ASSUME Types, OutStream, PeerOpens
  PROVE  \E p \in Packet :
           /\ p.n = Len(outGot) + 1 /\ p.n \in DOMAIN outSent /\ outSent[p.n] = p.msg
           /\ OutStream' /\ outNet' \in Seq(Cell) /\ garbled' = garbled
           /\ outGot' = Append(outGot, p.msg) /\ outGot' \in Seq(Messages)
           /\ peer' \in [seals : {peer.seals}, opens : Nat, sseq : {peer.sseq}, oseq : Nat,
                         inits : {IF p.msg = "KEXINIT" THEN peer.inits + 1 ELSE peer.inits},
                         kex : {peer.kex}]
           /\ NoInit => NoInit' /\ p.msg # "KEXINIT"
           /\ LastInit => LastInit' /\ p.msg # "KEXINIT"
           /\ OneInit => IF p.msg = "KEXINIT" THEN NoInit' ELSE OneInit'
<1> DEFINE s == OutCells
           p == outNet[1].p
           k == Size(p)
           t == From(k, s)
<1>1. /\ outNet # <<>> /\ Len(outNet) >= Len(CellsOf(p))
      /\ UNCHANGED <<libVars, sock, inNet, outSent, inSent, inGot>>
  BY DEF PeerOpens
<1>2. /\ outNet \in Seq(Cell) /\ out.rest \in Seq(Cell) /\ Len(outNet) \in Nat /\ Len(outNet) > 0
      /\ Len(out.rest) \in Nat
  BY <1>1, EmptySeq DEF Types
<1>3. /\ s \in Seq(Cell) /\ Len(s) = Len(outNet) + Len(out.rest)
      /\ \A j \in 1..Len(outNet) : s[j] = outNet[j]
  <2> DEFINE a == out.rest
  <2>1. a \in Seq(Cell) /\ s = outNet \o a
    BY <1>2 DEF OutCells
  <2> HIDE DEF a, s
  <2>2. s \in Seq(Cell) /\ Len(s) = Len(outNet) + Len(a)
        /\ \A j \in 1..Len(outNet) : s[j] = outNet[j]
    BY <1>2, <2>1, ConcatProperties
  <2> QED
    BY <2>2 DEF a
<1>4. /\ Chain(s, outSent) /\ Begins(s, OutHead)
      /\ sock = "up" => Ends(s, OutTail)
  BY DEF OutStream
<1>5. s # <<>> /\ s[1].p = p /\ s[1].i = 1 /\ At(p) = OutHead
  <2>1. 1 \in 1..Len(outNet) /\ Len(s) # 0
    BY <1>2, <1>3
  <2>2. s[1] = outNet[1] /\ s # <<>>
    BY <1>3, <2>1, EmptySeq
  <2> QED
    BY <1>4, <2>2 DEF Begins
<1>6. p \in Packet
  <2>1. outNet[1] \in Cell
    BY <1>2, ElementOfSeq
  <2> QED
    BY <2>1 DEF Cell
<1> HIDE DEF s, p
<1>7. /\ k \in Nat \ {0} /\ k > 1 /\ k + s[1].i = Size(p) + 1 /\ Len(CellsOf(p)) = k
      /\ CellsOf(p) \in Seq(Cell) /\ \A i \in 1..k : CellsOf(p)[i] = [p |-> p, i |-> i]
      /\ k <= Len(outNet)
  <2>1. /\ k \in Nat /\ k > 1 /\ Len(CellsOf(p)) = k /\ CellsOf(p) \in Seq(Cell)
        /\ \A i \in 1..k : CellsOf(p)[i] = [p |-> p, i |-> i]
    BY <1>6, Pieced, Sizes
  <2>2. Len(outNet) >= k
    BY <1>1, <2>1 DEF p
  <2> HIDE DEF k
  <2>3. k + s[1].i = k + 1 /\ k <= Len(outNet) /\ k \in Nat \ {0}
    BY <1>2, <1>5, <2>1, <2>2
  <2>4. k + s[1].i = Size(p) + 1
    BY <2>3 DEF k
  <2> QED
    BY <2>1, <2>3, <2>4
<1> HIDE DEF k
<1>8. k <= Len(s) /\ k \in 0..Len(outNet) /\ k \in 0..Len(s)
  BY <1>2, <1>3, <1>7
<1>9. /\ p.n \in DOMAIN outSent /\ outSent[p.n] = p.msg
      /\ \A j \in 1..Len(s) : j <= k => s[j] = [p |-> p, i |-> s[1].i + (j - 1)]
      /\ Chain(t, outSent) /\ t \in Seq(Cell) /\ Len(t) = Len(s) - k
      /\ t # <<>> => t[1].i = 1 /\ At(t[1].p) = Succ(p)
      /\ t = <<>> /\ Ends(s, OutTail) => Succ(p) = OutTail
      /\ Ends(s, OutTail) => Ends(t, OutTail)
      /\ \A j \in 1..Len(s) - k : t[j] = s[k + j] /\ s[k + j].p.n > p.n
  <2>1. p = s[1].p /\ k \in Int /\ k + s[1].i = Size(p) + 1
    BY <1>5, <1>7
  <2>2. Leads(s, outSent, p, k) /\ k <= Len(s)
    BY <1>4, <1>5, <1>8, <2>1 DEF Leads
  <2>3. /\ p.n \in DOMAIN outSent /\ outSent[p.n] = p.msg
        /\ \A j \in 1..Len(s) : j <= k => s[j] = [p |-> p, i |-> s[1].i + (j - 1)]
        /\ Chain(t, outSent) /\ t \in Seq(Cell) /\ Len(t) = Len(s) - k
        /\ t # <<>> => t[1].i = 1 /\ At(t[1].p) = Succ(p)
        /\ \A j \in 1..Len(s) - k : t[j] = s[k + j] /\ s[k + j].p.n > p.n
    <3>1. /\ p.n \in DOMAIN outSent /\ outSent[p.n] = p.msg
          /\ \A j \in 1..Len(s) : j <= k => s[j] = [p |-> p, i |-> s[1].i + (j - 1)]
      BY ONLY <2>2, ChainTake
    <3>2. Chain(t, outSent) /\ t \in Seq(Cell) /\ Len(t) = Len(s) - k
      BY ONLY <2>2, ChainTake
    <3>3. t # <<>> => t[1].i = 1 /\ At(t[1].p) = Succ(p)
      BY ONLY <2>2, ChainTake
    <3>4. \A j \in 1..Len(s) - k : t[j] = s[k + j] /\ s[k + j].p.n > p.n
      BY ONLY <2>2, ChainTake
    <3> QED
      BY ONLY <3>1, <3>2, <3>3, <3>4
  <2>4. ASSUME Ends(s, OutTail)
        PROVE  (t = <<>> => Succ(p) = OutTail) /\ Ends(t, OutTail)
    BY ONLY <2>2, <2>4, EndsTake
  <2> QED
    BY <2>3, <2>4
<1>10. First(k, outNet) = CellsOf(p)
  <2> DEFINE a == First(k, outNet)
             b == CellsOf(p)
  <2>1. a \in Seq(Cell) /\ Len(a) = k /\ \A j \in 1..k : a[j] = outNet[j]
    BY <1>2, <1>8, Cuts
  <2>2. b \in Seq(Cell) /\ Len(b) = k /\ \A j \in 1..k : b[j] = [p |-> p, i |-> j]
    BY <1>7
  <2> HIDE DEF a, b
  <2>3. \A j \in 1..k : a[j] = b[j]
    <3> SUFFICES ASSUME NEW j \in 1..k PROVE a[j] = b[j]
      OBVIOUS
    <3>1. j \in 1..Len(outNet) /\ j \in 1..Len(s) /\ j <= k /\ 1 + (j - 1) = j
      BY <1>2, <1>3, <1>7, <1>8
    <3>2. s[j] = [p |-> p, i |-> s[1].i + (j - 1)] /\ s[j] = outNet[j]
      BY <1>3, <1>9, <3>1
    <3> QED
      BY <1>5, <2>1, <2>2, <3>1, <3>2
  <2>4. a = b
    BY <2>1, <2>2, <2>3, SeqEqual
  <2> QED
    BY <2>4 DEF a, b
<1>11. p.keys = peer.opens /\ p.seq = peer.oseq /\ p.n = Len(outGot) + 1
  BY <1>5 DEF At, OutHead
<1>12. /\ outNet' = From(k, outNet) /\ outGot' = Append(outGot, p.msg) /\ garbled' = garbled
       /\ peer' = [peer EXCEPT
                      !.oseq = (@ + 1) % SeqnoMod,
                      !.inits = IF p.msg = "KEXINIT" THEN @ + 1 ELSE @,
                      !.opens = IF p.msg = "NEWKEYS" THEN @ + 1 ELSE @]
  BY <1>7, <1>10, <1>11 DEF PeerOpens, p
<1>13. peer \in [seals : Nat, opens : Nat, sseq : Nat, oseq : Nat, inits : Nat, kex : BOOLEAN]
  BY DEF Types
<1> DEFINE newseq == (peer.oseq + 1) % SeqnoMod
           newinits == IF p.msg = "KEXINIT" THEN peer.inits + 1 ELSE peer.inits
           newopens == IF p.msg = "NEWKEYS" THEN peer.opens + 1 ELSE peer.opens
<1>14. newseq \in Nat
  <2>1. peer.oseq + 1 \in Nat /\ SeqnoMod \in Nat \ {0}
    BY <1>13, TransportAssumption
  <2> QED
    BY <2>1, Modulo
<1>15. peer' = [peer EXCEPT !.oseq = newseq, !.inits = newinits, !.opens = newopens]
  BY <1>12
<1>151. newopens \in Nat
  BY <1>13
<1> HIDE DEF newseq, newinits, newopens
<1>16. /\ peer' \in [seals : {peer.seals}, opens : Nat, sseq : {peer.sseq}, oseq : Nat,
                     inits : {newinits}, kex : {peer.kex}]
       /\ peer'.oseq = newseq /\ peer'.opens = newopens
  BY <1>13, <1>14, <1>15, <1>151
<1>17. Len(outGot') = Len(outGot) + 1 /\ Len(outGot) \in Nat /\ outGot' \in Seq(Messages)
  <2>1. outGot \in Seq(Messages) /\ p.msg \in Messages
    BY <1>6 DEF Types, Packet
  <2> QED
    BY <1>12, <2>1, AppendProperties
<1>18. OutHead' = Succ(p)
  <2>1. Len(outGot') + 1 = p.n + 1
    BY <1>11, <1>17
  <2>2. newopens = AfterKeys(p) /\ newseq = (p.seq + 1) % SeqnoMod
    BY <1>11 DEF AfterKeys, newopens, newseq
  <2> QED
    BY <1>16, <2>1, <2>2 DEF OutHead, Succ
<1>19. OutTail' = OutTail /\ out' = out /\ sock' = sock /\ outSent' = outSent
  BY <1>1 DEF OutTail, OutKeys, libVars
<1>20. OutCells' = t /\ outNet' \in Seq(Cell)
  <2>1. From(k, outNet) \o out.rest = From(k, outNet \o out.rest)
    <3> DEFINE a == out.rest
    <3>1. a \in Seq(Cell)
      BY <1>2
    <3> HIDE DEF a
    <3>2. From(k, outNet) \o a = From(k, outNet \o a)
      BY <1>2, <1>8, <3>1, FromConcat
    <3> QED
      BY <3>2 DEF a
  <2> QED
    BY <1>2, <1>8, <1>12, <1>19, <2>1, Cuts DEF OutCells, s
<1> HIDE DEF t
<1>21. OutStream'
  <2>1. Begins(t, Succ(p))
    BY <1>9 DEF Begins
  <2>2. out.data = None <=> out.rest = <<>>
    BY DEF OutStream
  <2> QED
    BY <1>4, <1>9, <1>18, <1>19, <1>20, <2>1, <2>2 DEF OutStream
<1>22. \A j \in 1..Len(t) : /\ j \in 1..Len(s) - k /\ k + j \in 1..Len(s)
                            /\ t[j] = s[k + j] /\ t[j].p.n > p.n
  <2> SUFFICES ASSUME NEW j \in 1..Len(t)
               PROVE  /\ j \in 1..Len(s) - k /\ k + j \in 1..Len(s)
                      /\ t[j] = s[k + j] /\ t[j].p.n > p.n
    OBVIOUS
  <2>1. Len(s) \in Nat /\ Len(t) = Len(s) - k
    BY <1>3, <1>9
  <2>2. j \in 1..Len(s) - k /\ k + j \in 1..Len(s)
    BY <1>7, <1>8, <2>1
  <2> QED
    BY <1>9, <2>2
<1>23. 1 \in 1..Len(s) /\ s[1].p.n = p.n
  BY <1>2, <1>3, <1>5
<1>24. NoInit => NoInit' /\ p.msg # "KEXINIT"
  BY <1>5, <1>20, <1>22, <1>23 DEF NoInit, s
<1>25. OneInit => IF p.msg = "KEXINIT" THEN NoInit' ELSE OneInit'
  <2>1. p.n \in Nat /\ \A j \in 1..Len(t) : t[j].p.n # p.n
    <3>1. p.n \in Nat
      BY <1>6 DEF Packet
    <3>2. \A j \in 1..Len(t) : t[j] \in Cell
      BY <1>9, ElementOfSeq
    <3>3. \A j \in 1..Len(t) : t[j].p.n \in Nat
      BY <3>2 DEF Cell, Packet
    <3> QED
      BY <1>22, <3>1, <3>3
  <2>2. OneInit /\ p.msg = "KEXINIT" => \A j \in 1..Len(t) : t[j].p.msg = "KEXINIT" => t[j].p.n = p.n
    BY <1>5, <1>22, <1>23 DEF OneInit, s
  <2>3. OneInit => \A j, l \in 1..Len(t) :
           t[j].p.msg = "KEXINIT" /\ t[l].p.msg = "KEXINIT" => t[j].p.n = t[l].p.n
    BY <1>22 DEF OneInit, s
  <2> QED
    BY <1>20, <2>1, <2>2, <2>3 DEF OneInit, NoInit
<1>26. LastInit => LastInit' /\ p.msg # "KEXINIT"
  <2>1. LastInit => LastInit'
    BY <1>19, <1>20, <1>22 DEF LastInit, s
  <2>2. ASSUME LastInit, p.msg = "KEXINIT" PROVE FALSE
    <3>1. p.n = Len(outSent) /\ out.data = "KEXINIT"
      BY <1>5, <1>23, <2>2 DEF LastInit, s
    <3>2. "KEXINIT" # None
      BY TransportAssumption
    <3>3. Len(out.rest) > 0
      <4>1. out.rest # <<>>
        BY <3>1, <3>2 DEF OutStream
      <4> DEFINE a == out.rest
      <4>2. a \in Seq(Cell) /\ a # <<>> /\ Len(a) \in Nat
        BY <1>2, <4>1
      <4> HIDE DEF a
      <4>3. Len(a) > 0
        BY <4>2, EmptySeq
      <4> QED
        BY <4>3 DEF a
    <3>4. 1 \in 1..Len(t)
      BY <1>2, <1>3, <1>7, <1>9, <3>3
    <3>5. t[1].p.n > Len(outSent)
      BY <1>22, <3>1, <3>4
    <3>6. t[1].p.n \in DOMAIN outSent
      BY <1>9, <3>4 DEF Chain, Whose
    <3>7. outSent \in Seq(Messages)
      BY DEF Types
    <3>8. DOMAIN outSent = 1..Len(outSent) /\ Len(outSent) \in Nat
      BY <3>7, LenProperties
    <3> QED
      BY <3>5, <3>6, <3>8
  <2> QED
    BY <2>1, <2>2
<1> QED
  BY <1>6, <1>9, <1>11, <1>12, <1>16, <1>17, <1>20, <1>21, <1>24, <1>25, <1>26 DEF newinits

---------------------------------------------------------------------------
(* Every step of the transport keeps the invariant, and is a step of Wire  *)
(* or none.                                                                *)

(* A step of the two queues of messages, or one they cannot see.           *)
WireStep == [W!WireNext]_(W!wireVars)

(* When transport_read() has completed a packet, its buffer and the        *)
(* network hold what follows that packet.                                  *)
LEMMA TakeStep ==
  ASSUME Types, InStream, NEW p, NEW n, Completes(p, n), adding = None,
         keys' = keys, inSent' = inSent, peer' = peer,
         Taken' = Taken + 1, InKeys' = AfterKeys(p),
         adding' \in {None, "REQUEST"},
         adding' = "REQUEST" => inGot' = inGot /\ p.msg = "REQUEST"
  PROVE  InStream' /\ RxInv' /\ Woken' /\ rseq' \in Nat
<1>1. /\ p \in Packet /\ At(p) = InHead
      /\ p.n \in DOMAIN inSent /\ inSent[p.n] = p.msg
      /\ Chain(InCells', inSent) /\ Ends(InCells', InTail) /\ Begins(InCells', Succ(p))
      /\ InCells' = <<>> => Succ(p) = InTail
      /\ rx' = NoPacket /\ rseq' = Succ(p).seq /\ wants' = FALSE
  BY DEF Completes
<1>2. p.n = Taken + 1 /\ p.seq = rseq
  BY <1>1 DEF At, InHead
<1>3. InHead' = Succ(p) /\ InTail' = InTail
  <2>1. Taken' + 1 = p.n + 1
    BY <1>2
  <2>2. rseq' = (p.seq + 1) % SeqnoMod
    BY <1>1 DEF Succ
  <2> QED
    BY <2>1, <2>2 DEF InHead, InTail, Succ
<1>4. rseq' \in Nat
  <2>1. rseq' = (rseq + 1) % SeqnoMod
    BY <1>1, <1>2 DEF Succ
  <2>2. rseq + 1 \in Nat /\ SeqnoMod \in Nat \ {0}
    BY TransportAssumption DEF Types
  <2> QED
    BY <2>1, <2>2, Modulo
<1>5. adding' = "REQUEST" => Len(inGot') < Len(inSent') /\ inSent'[Len(inGot') + 1] = "REQUEST"
  <2> SUFFICES ASSUME adding' = "REQUEST"
               PROVE  Len(inGot) < Len(inSent) /\ inSent[Len(inGot) + 1] = "REQUEST"
    OBVIOUS
  <2>1. Taken = Len(inGot) /\ Len(inGot) \in Nat /\ inSent \in Seq(Messages) /\ p.msg = "REQUEST"
    BY DEF Taken, Types
  <2>2. DOMAIN inSent = 1..Len(inSent) /\ Len(inSent) \in Nat
    BY <2>1, LenProperties
  <2> QED
    BY <1>1, <1>2, <2>1, <2>2
<1>6. RxInv' /\ Woken'
  BY <1>1 DEF RxInv, Woken, NoPacket
<1>7. InStream'
  BY <1>1, <1>3, <1>5 DEF InStream
<1> QED
  BY <1>4, <1>6, <1>7

(* The answer of packet_add(), outside an exchange of keys.                *)
LEMMA AnswerStep ==
  ASSUME Types, OutStream, NEW n, Answer(n), kst = "idle", kst' = "idle", keys' = keys
  PROVE  /\ OutStream' /\ out' \in [data : Messages \cup {None}, rest : Seq(Cell)]
         /\ outNet' \in Seq(Cell) /\ lseq' \in Nat /\ outSent' \in Seq(Messages)
         /\ outSent' \in {outSent, Append(outSent, "FAILURE")}
         /\ UNCHANGED <<sock, peer, garbled, outGot, inSent>>
         /\ NoInit => NoInit'
         /\ \/ adding' = None /\ inGot' = Append(inGot, "REQUEST")
            \/ adding' = "REQUEST" /\ inGot' = inGot
<1>0. "FAILURE" \in Messages /\ "FAILURE" # "KEXINIT" /\ "FAILURE" # "NEWKEYS"
  BY TransportAssumption
<1>1. OutKeys = keys /\ OutKeys' = keys
  BY DEF OutKeys
<1>2. /\ \/ adding' = None /\ inGot' = Append(inGot, "REQUEST")
         \/ adding' = "REQUEST" /\ inGot' = inGot
      /\ \/ TransportSend("FAILURE", n)
         \/ UNCHANGED <<out, lseq, sock, outNet, peer, garbled, outSent, outGot, inSent>>
         \/ SendFails("FAILURE")
  BY DEF Answer
<1>3. /\ out \in [data : Messages \cup {None}, rest : Seq(Cell)]
      /\ outNet \in Seq(Cell) /\ lseq \in Nat /\ outSent \in Seq(Messages)
  BY DEF Types
<1>4. CASE TransportSend("FAILURE", n)
  <2>1. UNCHANGED <<sock, peer, garbled, outGot, inSent>>
    BY <1>4 DEF TransportSend
  <2>2. OutKeys' = IF out.data = "FAILURE" THEN OutKeys
                   ELSE IF "FAILURE" = "NEWKEYS" THEN keys + 1 ELSE keys
    BY <1>0, <1>1
  <2>3. /\ OutStream' /\ out' \in [data : {"FAILURE", None}, rest : Seq(Cell)]
        /\ outNet' \in Seq(Cell) /\ lseq' \in Nat /\ outSent' \in Seq(Messages)
        /\ outSent' \in {outSent, Append(outSent, "FAILURE")}
        /\ NoInit => NoInit'
    BY <1>0, <1>1, <1>4, <2>2, SendKeeps
  <2>4. out' \in [data : Messages \cup {None}, rest : Seq(Cell)]
    BY <1>0, <2>3
  <2> QED
    BY <1>2, <2>1, <2>3, <2>4
<1>5. CASE UNCHANGED <<out, lseq, sock, outNet, peer, garbled, outSent, outGot, inSent>>
  <2>1. UNCHANGED <<OutCells, OutHead, OutTail>>
    BY <1>1, <1>5 DEF OutCells, OutHead, OutTail
  <2>2. OutStream' /\ (NoInit => NoInit')
    BY <1>5, <2>1 DEF OutStream, NoInit
  <2> QED
    BY <1>2, <1>3, <1>5, <2>2
<1>6. CASE SendFails("FAILURE")
  <2>1. OutStream' /\ lseq' \in Nat
        /\ UNCHANGED <<out, sock, outNet, peer, garbled, outSent, outGot, inSent>>
    BY <1>6, FailKeeps
  <2>2. NoInit => NoInit'
    BY <2>1 DEF NoInit, OutCells
  <2> QED
    BY <1>2, <1>3, <2>1, <2>2
<1> QED
  BY <1>2, <1>4, <1>5, <1>6

(* The values that the phases of the exchange tell apart are different.    *)
LEMMA Queues == /\ <<>> # <<"NEWKEYS">> /\ <<"KEXINIT">> # <<"NEWKEYS">> /\ <<>> # <<"KEXINIT">>
                /\ "KEXINIT" # "NEWKEYS" /\ "REQUEST" \notin {"KEXINIT", "NEWKEYS"}
                /\ "KEXINIT" # None /\ "NEWKEYS" # None /\ "REQUEST" # None
                /\ "up" # "down"
                /\ {"KEXINIT", "NEWKEYS", "REQUEST", "FAILURE"} \subseteq Messages
<1>1. <<>> # <<"NEWKEYS">> /\ <<"KEXINIT">> # <<"NEWKEYS">> /\ <<>> # <<"KEXINIT">>
  <2>1. Len(<<"NEWKEYS">>) = 1 /\ Len(<<"KEXINIT">>) = 1 /\ Len(<<>>) = 0
    OBVIOUS
  <2>2. <<"KEXINIT">>[1] = "KEXINIT" /\ <<"NEWKEYS">>[1] = "NEWKEYS"
    OBVIOUS
  <2> QED
    BY <2>1, <2>2
<1>2. "KEXINIT" # "NEWKEYS" /\ "REQUEST" \notin {"KEXINIT", "NEWKEYS"} /\ "up" # "down"
  OBVIOUS
<1>3. {"KEXINIT", "NEWKEYS", "REQUEST", "FAILURE"} \subseteq Messages
  BY TransportAssumption
<1>4. "KEXINIT" # None /\ "NEWKEYS" # None /\ "REQUEST" # None
  BY DEF None
<1> QED
  BY <1>1, <1>2, <1>3, <1>4

(* The states in which transport_read() is called.                         *)
Reads ==
  \/ Normal \/ Refused
  \/ Dead /\ keys > 0
  \/ Peer /\ keys = 0 /\ queue = <<>>
  \/ Await /\ queue = <<>>

(* The packet that a read may complete is the next one of the peer.        *)
LEMMA NextPacket ==
  ASSUME TrInv, Reads, NEW p, NEW n, Completes(p, n), ~Dead
  PROVE  /\ p.msg \in Messages /\ p.keys = keys /\ p.n = Taken + 1
         /\ Taken \in Nat /\ Taken < Len(inSent) /\ inSent[Taken + 1] = p.msg
         /\ ~Refused /\ AfterKeys(p) <= peer.seals
         /\ Normal => p.msg # "NEWKEYS"
         /\ Peer => p.msg = "KEXINIT"
         /\ Await => p.msg = "NEWKEYS"
<1>1. /\ p \in Packet /\ At(p) = InHead
      /\ p.n \in DOMAIN inSent /\ inSent[p.n] = p.msg /\ AfterKeys(p) <= peer.seals
  BY DEF Completes
<1>2. p.n = Taken + 1 /\ p.keys = InKeys
  BY <1>1 DEF At, InHead
<1>3. InKeys = keys
  BY Queues DEF Reads, Normal, Refused, Peer, Await, InKeys
<1>4. Taken \in Nat /\ Len(inSent) \in Nat /\ DOMAIN inSent = 1..Len(inSent)
  <2>1. inSent \in Seq(Messages)
    BY DEF TrInv, Types
  <2> QED
    BY <2>1, TakenBound, LenProperties DEF TrInv
<1>5. Taken < Len(inSent) /\ inSent[Taken + 1] = p.msg /\ p.msg \in Messages
  BY <1>1, <1>2, <1>4 DEF Packet
<1>6. ~Refused
  <2>1. Refused => Taken = Len(inSent)
    BY DEF Refused, AllTaken
  <2>2. Taken \in Nat /\ Len(inSent) \in Nat /\ Taken < Len(inSent)
    BY <1>4, <1>5
  <2>3. Taken # Len(inSent)
    BY ONLY <2>2
  <2> QED
    BY <2>1, <2>3
<1>7. /\ Taken > 0 => (inSent[Taken] = "KEXINIT" <=> p.msg = "NEWKEYS")
      /\ Taken = 0 => p.msg # "NEWKEYS"
      /\ Taken = 0 /\ keys = 0 => p.msg = "KEXINIT"
  <2>1. PeerOrder /\ Len(inSent) > 0
    BY <1>4, <1>5 DEF TrInv
  <2>2. Taken > 0 => Taken \in 1..Len(inSent) - 1
    BY <1>4, <1>5
  <2>3. Taken = 0 => inSent[1] = p.msg
    BY <1>5
  <2> QED
    BY <1>5, <2>1, <2>2, <2>3 DEF PeerOrder
<1>8. Normal => p.msg # "NEWKEYS"
  BY <1>4, <1>7 DEF Normal, LastTaken
<1>9. Peer => p.msg = "KEXINIT"
  BY <1>7, Queues DEF Reads, Normal, Refused, Peer, Await
<1>10. Await => p.msg = "NEWKEYS"
  BY <1>7, Queues DEF Reads, Normal, Refused, Peer, Await, LastTaken
<1> QED
  BY <1>1, <1>2, <1>3, <1>4, <1>5, <1>6, <1>8, <1>9, <1>10

(* A transport_read() that waits for more keeps the stream and the place   *)
(* in it.                                                                  *)
LEMMA WaitKeeps ==
  ASSUME TrInv, Reads, Waits, keys' = keys, sock' = sock,
         buf' \in Seq(Cell), inNet' \in Seq(Cell), wants' \in BOOLEAN,
         Dead => buf' = buf
  PROVE  TrInv' /\ WireStep
<1>1. /\ InStream' /\ RxInv' /\ Woken' /\ rx' \in Part \cup {NoPacket}
      /\ UNCHANGED <<out, lseq, rseq, adding, queue, kst, outNet, peer, garbled,
                     outSent, outGot, inSent, inGot>>
  BY DEF Waits, logVars
<1>2. Types'
  BY <1>1 DEF TrInv, Types
<1>3. UNCHANGED <<OutCells, OutHead, OutTail, Taken>>
  BY <1>1 DEF OutCells, OutHead, OutTail, OutKeys, Taken
<1>4. OutStream'
  BY <1>1, <1>3 DEF TrInv, OutStream
<1>5. PeerOrder'
  BY <1>1 DEF TrInv, PeerOrder
<1>6. Phase'
  <2>1. UNCHANGED <<NoInit, OneInit, LastTaken("KEXINIT"), LastTaken("NEWKEYS"), AllTaken, ReadBlock>>
    BY <1>1, <1>3 DEF NoInit, OneInit, LastTaken, AllTaken, ReadBlock
  <2>2. Asked => Asked'
    BY <1>1, <2>1 DEF Asked
  <2>3. CASE Normal
    BY <1>1, <2>1, <2>3 DEF Normal, Phase
  <2>4. CASE Refused
    BY <1>1, <2>1, <2>4 DEF Refused, Phase
  <2>5. CASE Dead /\ keys > 0
    BY <1>1, <2>1, <2>5 DEF Dead, Phase
  <2>6. CASE Peer /\ keys = 0 /\ queue = <<>>
    BY <1>1, <1>3, <2>1, <2>2, <2>6 DEF Peer, Phase
  <2>7. CASE Await /\ queue = <<>>
    <3>1. LastTaken("KEXINIT") /\ Asked
      BY <2>7, Queues DEF Await
    <3> QED
      BY <1>1, <2>1, <2>2, <2>7, <3>1 DEF Await, Phase
  <2> QED
    BY <2>3, <2>4, <2>5, <2>6, <2>7 DEF Reads
<1>7. NeverGarbled'
  BY <1>1 DEF TrInv, NeverGarbled
<1>8. WireStep
  BY <1>1 DEF WireStep, W!wireVars
<1> QED
  BY <1>1, <1>2, <1>4, <1>5, <1>6, <1>7, <1>8 DEF TrInv

(* transport_read() keeps the invariant in every phase in which a caller   *)
(* may read: the user outside an exchange, the exchange when it expects    *)
(* the peer.                                                               *)
LEMMA ReadKeeps ==
  ASSUME TrInv, Reads, NEW k, NEW n, TransportRead(k, n)
  PROVE  TrInv' /\ WireStep
<1>0. InKeys = keys
  BY Queues DEF Reads, Normal, Refused, Dead, Peer, Await, InKeys
<1>1. /\ buf' \in Seq(Cell) /\ inNet' \in Seq(Cell) /\ wants' \in BOOLEAN
      /\ keys' = keys /\ sock' = sock /\ adding = None
      /\ Waits \/ \E p : Completes(p, n)
      /\ sock = "down" /\ Len(buf) < ReadBlock => Waits /\ buf' = buf
  BY <1>0, ReadStep DEF TrInv
<1>2. Dead => keys > 0
  BY Queues DEF Reads, Normal, Refused, Dead, Peer, Await
<1>3. Dead => Waits /\ buf' = buf
  BY <1>1, <1>2 DEF Dead
<1>4. CASE Waits
  BY <1>1, <1>3, <1>4, WaitKeeps
<1>5. CASE ~Waits
  <2>1. PICK p : Completes(p, n)
    BY <1>1, <1>5
  <2>2. ~Dead
    BY <1>3, <1>5
  <2>3. /\ p.msg \in Messages /\ p.keys = keys /\ p.n = Taken + 1
        /\ Taken \in Nat /\ Taken < Len(inSent) /\ inSent[Taken + 1] = p.msg
        /\ ~Refused /\ AfterKeys(p) <= peer.seals
        /\ Normal => p.msg # "NEWKEYS"
        /\ Peer => p.msg = "KEXINIT"
        /\ Await => p.msg = "NEWKEYS"
    BY <2>1, <2>2, NextPacket
  <2>4. /\ p \in Packet /\ rx' = NoPacket /\ wants' = FALSE
        /\ \/ p.msg = "REQUEST" /\ Answer(n) /\ UNCHANGED <<queue, kst>>
           \/ p.msg # "REQUEST" /\ PacketAdd(p.msg)
    BY <2>1 DEF Completes
  <2>5. /\ inGot \in Seq(Messages) /\ Len(inGot) \in Nat /\ Taken = Len(inGot)
        /\ keys \in Nat /\ Types /\ OutStream /\ InStream /\ RxInv /\ PeerOrder /\ NeverGarbled
    BY <1>1 DEF TrInv, Types, Taken
  <2>6. Len(inGot) < Len(inSent) /\ inSent[Len(inGot) + 1] = p.msg
    BY <2>3, <2>5
  <2>7. CASE p.msg = "REQUEST" /\ Answer(n) /\ UNCHANGED <<queue, kst>>
    <3>1. Normal
      BY <2>2, <2>3, <2>7, Queues DEF Reads
    <3>2. kst = "idle" /\ queue = <<>> /\ keys > 0 /\ peer.seals = keys
          /\ (sock = "up" => peer.inits = keys /\ NoInit)
      BY <3>1 DEF Normal
    <3>3. /\ OutStream' /\ out' \in [data : Messages \cup {None}, rest : Seq(Cell)]
          /\ outNet' \in Seq(Cell) /\ lseq' \in Nat /\ outSent' \in Seq(Messages)
          /\ outSent' \in {outSent, Append(outSent, "FAILURE")}
          /\ UNCHANGED <<sock, peer, garbled, outGot, inSent>>
          /\ NoInit => NoInit'
          /\ \/ adding' = None /\ inGot' = Append(inGot, "REQUEST")
             \/ adding' = "REQUEST" /\ inGot' = inGot
      BY <1>1, <2>5, <2>7, <3>2, AnswerStep
    <3>4. Taken' = Taken + 1 /\ inGot' \in Seq(Messages)
      <4>1. CASE adding' = None /\ inGot' = Append(inGot, "REQUEST")
        <5>1. inGot' \in Seq(Messages) /\ Len(inGot') = Len(inGot) + 1
          BY <2>3, <2>5, <2>7, <4>1, AppendProperties
        <5> QED
          BY <2>5, <4>1, <5>1 DEF Taken
      <4>2. CASE adding' = "REQUEST" /\ inGot' = inGot
        BY <2>5, <4>2, Queues DEF Taken
      <4> QED
        BY <3>3, <4>1, <4>2
    <3>5. InKeys' = AfterKeys(p)
      BY <1>1, <2>3, <2>7, <3>2, Queues DEF InKeys, AfterKeys
    <3>6. InStream' /\ RxInv' /\ Woken' /\ rseq' \in Nat
      <4>1. adding' \in {None, "REQUEST"} /\ (adding' = "REQUEST" => inGot' = inGot /\ p.msg = "REQUEST")
        BY <2>7, <3>3, Queues
      <4>2. keys' = keys /\ inSent' = inSent /\ peer' = peer /\ adding = None
        BY <1>1, <3>3
      <4> QED
        BY ONLY <2>1, <2>5, <3>4, <3>5, <4>1, <4>2, TakeStep
    <3>7. Types'
      BY <1>1, <2>4, <2>5, <2>7, <3>3, <3>4, <3>6 DEF Types
    <3>8. PeerOrder' /\ NeverGarbled'
      BY <1>1, <2>5, <3>3 DEF PeerOrder, NeverGarbled
    <3>9. ~LastTaken("KEXINIT")'
      BY <2>3, <2>7, <3>3, <3>4, Queues DEF LastTaken
    <3>10. Phase'
      BY <1>1, <2>7, <3>2, <3>3, <3>9 DEF Normal, Phase
    <3>11. WireStep
      <4>1. CASE adding' = None /\ inGot' = Append(inGot, "REQUEST")
        <5>1. W!Deliver
          BY <2>6, <2>7, <3>3, <4>1, Queues DEF W!Deliver
        <5> QED
          BY <5>1 DEF WireStep, W!WireNext
      <4>2. CASE adding' = "REQUEST" /\ inGot' = inGot
        <5>1. CASE outSent' = outSent
          BY <3>3, <4>2, <5>1 DEF WireStep, W!wireVars
        <5>2. CASE outSent' = Append(outSent, "FAILURE")
          <6>1. W!Send("FAILURE") /\ "FAILURE" \in Messages
            BY <3>3, <4>2, <5>2, Queues DEF W!Send
          <6> QED
            BY <6>1 DEF WireStep, W!WireNext
        <5> QED
          BY <3>3, <5>1, <5>2
      <4> QED
        BY <3>3, <4>1, <4>2
    <3> QED
      BY <3>3, <3>6, <3>7, <3>8, <3>10, <3>11 DEF TrInv
  <2>8. CASE p.msg # "REQUEST" /\ PacketAdd(p.msg)
    <3>1. /\ inGot' = Append(inGot, p.msg) /\ adding' = None
          /\ queue' = IF p.msg \in {"KEXINIT", "NEWKEYS"} THEN Append(queue, p.msg) ELSE queue
          /\ kst' = IF p.msg = "KEXINIT" /\ kst = "idle" THEN "init" ELSE kst
          /\ UNCHANGED <<out, lseq, outNet, peer, garbled, outSent, outGot, inSent>>
      BY <2>8 DEF PacketAdd
    <3>2. Taken' = Taken + 1 /\ inGot' \in Seq(Messages)
      <4>1. inGot' \in Seq(Messages) /\ Len(inGot') = Len(inGot) + 1
        BY <2>3, <2>5, <3>1, AppendProperties
      <4> QED
        BY <2>5, <3>1, <4>1 DEF Taken
    <3>3. queue = <<>> /\ queue' = IF p.msg \in {"KEXINIT", "NEWKEYS"} THEN <<p.msg>> ELSE <<>>
      <4>1. queue = <<>>
        BY <2>2, <2>3 DEF Reads, Normal
      <4> QED
        BY <3>1, <4>1
    <3>4. InKeys' = AfterKeys(p)
      BY <1>1, <2>3, <3>3, Queues DEF InKeys, AfterKeys
    <3>5. InStream' /\ RxInv' /\ Woken' /\ rseq' \in Nat
      BY <1>1, <2>1, <2>5, <3>1, <3>2, <3>4, Queues, TakeStep
    <3>6. UNCHANGED <<OutCells, OutHead, NoInit, OneInit>> /\ sock' = sock
      BY <1>1, <3>1 DEF OutCells, OutHead, NoInit, OneInit
    <3>7. OutTail' = OutTail
      BY <1>1, <3>1 DEF OutTail, OutKeys
    <3>8. OutStream'
      BY <2>5, <3>1, <3>6, <3>7 DEF OutStream
    <3>9. Types'
      BY <1>1, <2>4, <2>5, <3>1, <3>2, <3>5 DEF Types
    <3>10. PeerOrder' /\ NeverGarbled'
      BY <1>1, <2>5, <3>1 DEF PeerOrder, NeverGarbled
    <3>11. \A m : LastTaken(m)' <=> p.msg = m
      BY <2>3, <3>1, <3>2 DEF LastTaken
    <3>12. Phase'
      <4>1. CASE Normal /\ p.msg = "KEXINIT"
        <5>1. /\ kst = "idle" /\ keys > 0 /\ peer.seals = keys
              /\ sock = "up" => peer.inits = keys /\ NoInit
          BY <4>1 DEF Normal
        <5>2. kst' = "init" /\ queue' = <<"KEXINIT">> /\ LastTaken("KEXINIT")'
          BY <3>1, <3>3, <3>11, <4>1, <5>1
        <5>3. Taken' = Len(inSent')
          <6> SUFFICES ASSUME Taken' # Len(inSent') PROVE FALSE
            OBVIOUS
          <6>1. inSent \in Seq(Messages) /\ Len(inSent) \in Nat
            BY <2>5 DEF Types
          <6>2. Succ(p) = InTail => Taken + 2 = Len(inSent) + 1
            BY <2>3 DEF Succ, InTail
          <6>21. Taken + 1 # Len(inSent)
            BY <3>1, <3>2
          <6>3. InCells' # <<>>
            <7>1. InCells' = <<>> => Succ(p) = InTail
              BY <2>1 DEF Completes
            <7> QED
              BY <2>3, <6>1, <6>2, <6>21, <7>1
          <6> DEFINE c == InCells'[1]
          <6>4. Begins(InCells', Succ(p)) /\ Chain(InCells', inSent) /\ Ends(InCells', InTail)
            BY <2>1 DEF Completes
          <6>5. At(c.p) = Succ(p) /\ 1 \in 1..Len(InCells')
            BY <6>3, <6>4, EmptySeq DEF Begins, Chain
          <6>6. c.p.n = Taken + 2 /\ c.p.keys = keys
            BY <2>3, <4>1, <6>5, Queues DEF At, Succ, AfterKeys
          <6>7. c.p.n \in DOMAIN inSent /\ inSent[c.p.n] = c.p.msg
            BY <6>4, <6>5 DEF Chain, Whose
          <6>8. Taken + 1 \in 1..Len(inSent) - 1 /\ (Taken + 1) + 1 = Taken + 2
            <7>1. inSent \in Seq(Messages)
              BY <2>5 DEF Types
            <7>2. Taken \in Nat /\ Len(inSent) \in Nat /\ Taken + 2 \in 1..Len(inSent)
              BY <2>3, <6>6, <6>7, <7>1, LenProperties
            <7> QED
              BY ONLY <7>2
          <6>9. inSent[Taken + 2] = "NEWKEYS"
            BY <2>3, <2>5, <4>1, <6>8 DEF PeerOrder
          <6>10. AfterKeys(c.p) = keys + 1
            BY <6>6, <6>7, <6>9 DEF AfterKeys
          <6>11. AfterKeys(c.p) <= peer.seals
            BY <6>3, <6>4, <6>5 DEF Ends, InTail
          <6> QED
            BY <2>5, <5>1, <6>10, <6>11
        <5>4. LastInit' \/ sock' # "up"
          BY <3>6, <5>1 DEF LastInit, NoInit
        <5> QED
          <6>1. /\ adding' = None /\ peer'.seals = keys' /\ keys' > 0 /\ keys' # 0
                /\ sock' = "up" => peer'.inits = keys' /\ LastInit'
            BY <1>1, <2>5, <3>1, <3>6, <5>1, <5>4
          <6>2. AllTaken'
            BY <5>3 DEF AllTaken
          <6> QED
            BY <5>2, <6>1, <6>2 DEF Phase, Offer
      <4>2. CASE Normal /\ p.msg # "KEXINIT"
        <5>1. p.msg \notin {"KEXINIT", "NEWKEYS"}
          BY <2>3, <4>2
        <5> QED
          BY <1>1, <3>1, <3>3, <3>6, <3>11, <4>2, <5>1 DEF Phase, Normal
      <4>3. CASE Peer /\ keys = 0
        BY <1>1, <2>3, <3>1, <3>3, <3>6, <3>11, <4>3 DEF Phase, Peer, Asked
      <4>4. CASE Await
        <5>1. p.msg = "NEWKEYS" /\ queue' = <<"NEWKEYS">> /\ LastTaken("NEWKEYS")'
          BY <2>3, <3>3, <3>11, <4>4
        <5>2. kst' = "await" /\ peer' = peer /\ keys' = keys /\ sock' = sock /\ adding' = None
          BY <1>1, <3>1, <4>4 DEF Await
        <5>3. Asked'
          BY <3>6, <4>4, <5>2 DEF Await, Asked
        <5>4. AfterKeys(p) = keys + 1 /\ peer.seals <= keys + 1 /\ peer.seals \in Nat
          BY <2>3, <2>5, <4>4, <5>1 DEF AfterKeys, Await, Asked, Types
        <5>5. peer'.seals = keys' + 1
          BY <2>3, <2>5, <5>2, <5>4
        <5>6. out'.data = None
          BY <3>1, <4>4 DEF Await
        <5> QED
          BY <2>4, <5>1, <5>2, <5>3, <5>5, <5>6 DEF Phase, Await
      <4> QED
        BY <2>2, <2>3, <4>1, <4>2, <4>3, <4>4 DEF Reads
    <3>13. WireStep
      <4>1. W!Deliver
        BY <1>1, <2>6, <3>1 DEF W!Deliver
      <4> QED
        BY <4>1 DEF WireStep, W!WireNext
    <3> QED
      BY <3>5, <3>8, <3>9, <3>10, <3>12, <3>13 DEF TrInv
  <2> QED
    BY <2>4, <2>7, <2>8
<1> QED
  BY <1>4, <1>5

----------------------------------------------------------------------------
(* What a step leaves alone                                                *)

(* A step that leaves the receiving side alone keeps what is known of it.  *)
LEMMA InSame ==
  ASSUME TrInv, UNCHANGED <<keys, rseq, buf, rx, queue, inNet, inSent, garbled>>,
         Taken' = Taken, adding' = "REQUEST" => adding = "REQUEST" /\ inGot' = inGot,
         wants' = wants \/ wants' = FALSE,
         peer'.seals = peer.seals, peer'.sseq = peer.sseq, peer'.kex = peer.kex
  PROVE  /\ InStream' /\ RxInv' /\ PeerOrder' /\ Woken' /\ NeverGarbled'
         /\ \A m : LastTaken(m)' <=> LastTaken(m)
         /\ AllTaken' <=> AllTaken
         /\ Still' <=> Still
         /\ ReadBlock' = ReadBlock
<1>1. UNCHANGED <<InCells, InHead, InTail, InKeys>>
  BY DEF InCells, InHead, InTail, InKeys
<1>2. InStream'
  BY <1>1 DEF TrInv, InStream
<1>3. RxInv'
  BY <1>1 DEF TrInv, RxInv, NoPacket, Collecting, Piece
<1>4. PeerOrder' /\ NeverGarbled'
  BY DEF TrInv, PeerOrder, NeverGarbled
<1>5. Woken'
  BY DEF TrInv, Woken
<1> QED
  BY <1>2, <1>3, <1>4, <1>5 DEF LastTaken, AllTaken, Still, ReadBlock

(* A step that leaves the sending side alone keeps what is known of it.    *)
LEMMA OutSame ==
  ASSUME TrInv, UNCHANGED <<out, outNet, outSent, outGot>>,
         sock' \in {sock, "down"}, peer'.oseq = peer.oseq, peer'.opens = peer.opens,
         sock' = "up" => lseq' = lseq /\ OutKeys' = OutKeys
  PROVE  /\ OutStream'
         /\ NoInit' <=> NoInit
         /\ OneInit' <=> OneInit
         /\ LastInit' <=> LastInit
<1>1. UNCHANGED <<OutCells, OutHead>>
  BY DEF OutCells, OutHead
<1>2. sock' = "up" => sock = "up" /\ OutTail' = OutTail
  BY Queues DEF OutTail
<1>3. OutStream'
  BY <1>1, <1>2 DEF TrInv, OutStream
<1> QED
  BY <1>1, <1>3 DEF NoInit, OneInit, LastInit

(* To hand a message to transport_send() is a step of Wire, and to go on   *)
(* with one is none.                                                       *)
LEMMA SendWire ==
  ASSUME NEW m \in Messages, outSent' \in {outSent, Append(outSent, m)},
         UNCHANGED <<outGot, inSent, inGot, sock>>
  PROVE  WireStep
<1>1. CASE outSent' = outSent
  BY <1>1 DEF WireStep, W!wireVars
<1>2. CASE outSent' = Append(outSent, m)
  <2>1. W!Send(m)
    BY <1>2 DEF W!Send
  <2> QED
    BY <2>1 DEF WireStep, W!WireNext
<1> QED
  BY <1>1, <1>2

----------------------------------------------------------------------------
(* The calls of the application                                            *)

(* A session begins with empty streams, before or after its first          *)
(* exchange.                                                               *)
LEMMA InitKeeps == TrInit => TrInv
<1> SUFFICES ASSUME TrInit PROVE TrInv
  OBVIOUS
<1>1. PICK k \in {0, 1} :
        /\ keys = k
        /\ kst = IF k = 0 THEN "init" ELSE "idle"
        /\ peer = [seals |-> k, opens |-> k, sseq |-> 0, oseq |-> 0, inits |-> k, kex |-> FALSE]
  BY DEF TrInit
<1>2. /\ lseq = 0 /\ rseq = 0 /\ out = Idle /\ buf = <<>> /\ rx = NoPacket
      /\ adding = None /\ queue = <<>> /\ wants = FALSE
      /\ sock = "up" /\ outNet = <<>> /\ inNet = <<>> /\ garbled = {}
      /\ outSent = <<>> /\ outGot = <<>> /\ inSent = <<>> /\ inGot = <<>>
  BY DEF TrInit
<1>3. Types
  <2>1. keys \in Nat /\ kst \in {"idle", "init", "peer", "newkeys", "await"}
        /\ peer \in [seals : Nat, opens : Nat, sseq : Nat, oseq : Nat, inits : Nat, kex : BOOLEAN]
    BY <1>1
  <2>2. out \in [data : Messages \cup {None}, rest : Seq(Cell)]
    BY <1>2 DEF Idle
  <2>3. /\ lseq \in Nat /\ rseq \in Nat /\ buf \in Seq(Cell) /\ outNet \in Seq(Cell)
        /\ inNet \in Seq(Cell) /\ rx \in Part \cup {NoPacket} /\ adding \in {None, "REQUEST"}
        /\ sock \in {"up", "down"}
        /\ outSent \in Seq(Messages) /\ outGot \in Seq(Messages)
        /\ inSent \in Seq(Messages) /\ inGot \in Seq(Messages)
    BY <1>2
  <2>4. wants \in BOOLEAN
    BY <1>2
  <2> QED
    BY <2>1, <2>2, <2>3, <2>4 DEF Types
<1>4. <<>> \o <<>> = <<>> /\ Len(<<>>) = 0 /\ <<>> \in Seq(Cell)
  OBVIOUS
<1>5. OutCells = <<>> /\ InCells = <<>> /\ Taken = 0
  BY <1>2, <1>4 DEF OutCells, InCells, Taken, Idle
<1>6. \A sent, hd, tl : Chain(<<>>, sent) /\ Begins(<<>>, hd) /\ Ends(<<>>, tl)
  BY <1>4 DEF Chain, Begins, Ends, Together, Linked
<1>7. OutKeys = keys /\ InKeys = keys
  BY <1>1, <1>2, Queues DEF OutKeys, InKeys
<1>8. OutHead = OutTail
  BY <1>1, <1>2, <1>4, <1>7 DEF OutHead, OutTail
<1>9. InHead = InTail
  BY <1>1, <1>2, <1>4, <1>5, <1>7 DEF InHead, InTail
<1>10. OutStream
  BY <1>2, <1>5, <1>6, <1>8 DEF OutStream, Idle
<1>11. InStream
  BY <1>2, <1>5, <1>6, <1>9, Queues DEF InStream
<1>12. RxInv /\ Woken /\ NeverGarbled
  BY <1>2 DEF RxInv, Woken, NoPacket, NeverGarbled
<1>13. PeerOrder
  BY <1>1, <1>2, <1>4 DEF PeerOrder
<1>14. NoInit /\ LastInit
  BY <1>4, <1>5 DEF NoInit, LastInit
<1>15. Phase
  <2>1. CASE k = 0
    BY <1>1, <1>2, <1>5, <1>14, <2>1 DEF Phase, Offer, Idle
  <2>2. CASE k = 1
    BY <1>1, <1>2, <1>5, <1>14, <2>2 DEF Phase, Normal, LastTaken
  <2> QED
    BY <1>1, <2>1, <2>2
<1> QED
  BY <1>3, <1>10, <1>11, <1>12, <1>13, <1>15 DEF TrInv

(* A call outside an exchange: what is needed of what it sends.            *)
LEMMA IdleKeeps ==
  ASSUME TrInv, kst = "idle", kst' = "idle", UNCHANGED <<keys, queue, sock>>,
         peer' = peer, NoInit => NoInit', buf' = buf,
         \A m : LastTaken(m)' <=> LastTaken(m), AllTaken' <=> AllTaken
  PROVE  Phase'
<1>1. Normal \/ Refused \/ Dead
  BY DEF TrInv, Phase, Offer, Peer, Newkeys, Await
<1>2. CASE Normal
  BY <1>2 DEF Normal, Phase
<1>3. CASE Refused
  BY <1>3 DEF Refused, Phase
<1>4. CASE Dead
  BY <1>4 DEF Dead, ReadBlock, Phase
<1> QED
  BY <1>1, <1>2, <1>3, <1>4

(* A message of the application goes out only between exchanges.           *)
LEMMA UserSendKeeps ==
  ASSUME TrInv, NEW m \in UserMsgs, NEW n, UserSend(m, n)
  PROVE  TrInv' /\ WireStep
<1>0. /\ m \in Messages /\ m \notin {"KEXINIT", "NEWKEYS"}
      /\ kst = "idle" /\ TransportSend(m, n)
      /\ UNCHANGED <<keys, rseq, buf, rx, adding, queue, kst, wants, inNet, inGot>>
      /\ UNCHANGED <<sock, peer, garbled, outGot, inSent>>
  BY TransportAssumption DEF UserSend, Free, TransportSend
<1>1. OutKeys = keys /\ OutKeys' = keys
  BY <1>0 DEF OutKeys
<1>2. OutKeys' = IF out.data = m THEN OutKeys ELSE IF m = "NEWKEYS" THEN keys + 1 ELSE keys
  BY <1>0, <1>1
<1>3. /\ OutStream' /\ out' \in [data : {m, None}, rest : Seq(Cell)]
      /\ outNet' \in Seq(Cell) /\ lseq' \in Nat /\ outSent' \in Seq(Messages)
      /\ outSent' \in {outSent, Append(outSent, m)}
      /\ NoInit => NoInit'
  BY <1>0, <1>1, <1>2, SendKeeps DEF TrInv
<1>4. Taken' = Taken
  BY <1>0 DEF Taken
<1>5. /\ InStream' /\ RxInv' /\ PeerOrder' /\ Woken' /\ NeverGarbled'
      /\ \A q : LastTaken(q)' <=> LastTaken(q)
      /\ AllTaken' <=> AllTaken
  BY <1>0, <1>4, InSame
<1>6. Phase'
  BY <1>0, <1>3, <1>5, IdleKeeps
<1>7. out' \in [data : Messages \cup {None}, rest : Seq(Cell)]
  BY <1>0, <1>3
<1>8. Types'
  BY <1>0, <1>3, <1>7 DEF TrInv, Types
<1>9. WireStep
  BY <1>0, <1>3, SendWire
<1> QED
  BY <1>3, <1>5, <1>6, <1>8, <1>9 DEF TrInv

(* On a dead socket a message is lost with its number, and nothing more is *)
(* sent that could show the gap.                                           *)
LEMMA UserSendFailsKeeps ==
  ASSUME TrInv, NEW m \in UserMsgs, UserSendFails(m)
  PROVE  TrInv' /\ WireStep
<1>0. /\ kst = "idle" /\ SendFails(m)
      /\ UNCHANGED <<keys, rseq, buf, rx, adding, queue, kst, wants, inNet, inGot>>
  BY DEF UserSendFails, Free
<1>1. /\ OutStream' /\ lseq' \in Nat
      /\ UNCHANGED <<out, sock, outNet, peer, garbled, outSent, outGot, inSent>>
  BY <1>0, FailKeeps DEF TrInv
<1>2. NoInit => NoInit'
  BY <1>1 DEF NoInit, OutCells
<1>3. Taken' = Taken
  BY <1>0 DEF Taken
<1>4. /\ InStream' /\ RxInv' /\ PeerOrder' /\ Woken' /\ NeverGarbled'
      /\ \A q : LastTaken(q)' <=> LastTaken(q)
      /\ AllTaken' <=> AllTaken
  BY <1>0, <1>1, <1>3, InSame
<1>5. Phase'
  BY <1>0, <1>1, <1>2, <1>4, IdleKeeps
<1>6. Types'
  BY <1>0, <1>1 DEF TrInv, Types
<1>7. WireStep
  BY <1>0, <1>1 DEF WireStep, W!wireVars
<1> QED
  BY <1>1, <1>4, <1>5, <1>6, <1>7 DEF TrInv

(* packet_add() that came out with EAGAIN goes on with its answer.         *)
LEMMA UserResumesKeeps ==
  ASSUME TrInv, NEW n, UserResumes(n)
  PROVE  TrInv' /\ WireStep
<1>0. /\ kst = "idle" /\ adding = "REQUEST" /\ Answer(n) /\ wants' = FALSE
      /\ UNCHANGED <<keys, rseq, buf, rx, queue, kst, inNet>>
  BY DEF UserResumes, Free, ReadResumes, TrInv, Types
<1>1. /\ OutStream' /\ out' \in [data : Messages \cup {None}, rest : Seq(Cell)]
      /\ outNet' \in Seq(Cell) /\ lseq' \in Nat /\ outSent' \in Seq(Messages)
      /\ outSent' \in {outSent, Append(outSent, "FAILURE")}
      /\ UNCHANGED <<sock, peer, garbled, outGot, inSent>>
      /\ NoInit => NoInit'
      /\ \/ adding' = None /\ inGot' = Append(inGot, "REQUEST")
         \/ adding' = "REQUEST" /\ inGot' = inGot
  BY <1>0, AnswerStep DEF TrInv
<1>2. /\ inGot \in Seq(Messages) /\ Len(inGot) \in Nat
      /\ Len(inGot) < Len(inSent) /\ inSent[Len(inGot) + 1] = "REQUEST"
  BY <1>0 DEF TrInv, Types, InStream
<1>3. Taken' = Taken /\ inGot' \in Seq(Messages)
  <2>1. CASE adding' = None /\ inGot' = Append(inGot, "REQUEST")
    <3>1. inGot' \in Seq(Messages) /\ Len(inGot') = Len(inGot) + 1
      BY <1>2, <2>1, Queues, AppendProperties
    <3> QED
      BY <1>0, <1>2, <2>1, <3>1, Queues DEF Taken
  <2>2. CASE adding' = "REQUEST" /\ inGot' = inGot
    BY <1>0, <1>2, <2>2 DEF Taken
  <2> QED
    BY <1>1, <2>1, <2>2
<1>4. /\ InStream' /\ RxInv' /\ PeerOrder' /\ Woken' /\ NeverGarbled'
      /\ \A q : LastTaken(q)' <=> LastTaken(q)
      /\ AllTaken' <=> AllTaken
  <2>1. adding' = "REQUEST" => adding = "REQUEST" /\ inGot' = inGot
    BY <1>0, <1>1, Queues
  <2> QED
    BY <1>0, <1>1, <1>3, <2>1, InSame
<1>5. Phase'
  BY <1>0, <1>1, <1>4, IdleKeeps
<1>6. adding' \in {None, "REQUEST"}
  BY <1>1
<1>7. Types'
  BY <1>0, <1>1, <1>3, <1>6 DEF TrInv, Types
<1>8. WireStep
  <2>1. CASE adding' = None /\ inGot' = Append(inGot, "REQUEST")
    <3>1. W!Deliver
      BY <1>1, <1>2, <2>1, Queues DEF W!Deliver
    <3> QED
      BY <3>1 DEF WireStep, W!WireNext
  <2>2. CASE adding' = "REQUEST" /\ inGot' = inGot
    BY <1>1, <2>2, Queues, SendWire
  <2> QED
    BY <1>1, <2>1, <2>2
<1> QED
  BY <1>1, <1>4, <1>5, <1>7, <1>8 DEF TrInv

(* A read of the application outside an exchange.                          *)
LEMMA UserReadKeeps ==
  ASSUME TrInv, NEW k, NEW n, UserRead(k, n)
  PROVE  TrInv' /\ WireStep
<1>1. Free /\ TransportRead(k, n)
  BY DEF UserRead
<1>2. Reads
  BY <1>1 DEF Free, TrInv, Phase, Offer, Peer, Newkeys, Await, Reads
<1> QED
  BY <1>1, <1>2, ReadKeeps

----------------------------------------------------------------------------
(* The exchange of keys                                                    *)

(* The exchange sends KEXINIT, then NEWKEYS, each after the packet before  *)
(* it went out whole.                                                      *)
LEMMA KexSendKeeps ==
  ASSUME TrInv, NEW n, KexSend(n)
  PROVE  TrInv' /\ WireStep
<1> DEFINE m == KexMsg
<1>0. /\ kst \in {"init", "newkeys"} /\ TransportSend(m, n) /\ sock = "up"
      /\ kst' = IF ~Sent(m, n) THEN kst ELSE IF kst = "init" THEN "peer" ELSE "await"
      /\ UNCHANGED <<keys, rseq, buf, rx, adding, queue, wants, inNet, inGot>>
      /\ UNCHANGED <<sock, peer, garbled, outGot, inSent>>
  BY DEF KexSend, TransportSend
<1>1. m = (IF kst = "init" THEN "KEXINIT" ELSE "NEWKEYS") /\ m \in Messages /\ m # None
  BY Queues DEF KexMsg
<1>2. /\ kst = "init" => Offer
      /\ kst = "newkeys" => Newkeys
  BY DEF TrInv, Phase, Normal, Refused, Dead, Offer, Peer, Newkeys, Await
<1> HIDE DEF m
<1>21. MaySend(m) /\ out' = IF Sent(m, n) THEN Idle ELSE [data |-> m, rest |-> From(n, Pieces(m))]
  BY <1>0 DEF TransportSend, Sent
<1>22. out'.data = IF Sent(m, n) THEN None ELSE m
  BY <1>21 DEF Idle
<1>3. out.data # m => OutKeys = keys
  BY <1>0, <1>1 DEF OutKeys
<1>4. OutKeys' = IF out.data = m THEN OutKeys ELSE IF m = "NEWKEYS" THEN keys + 1 ELSE keys
  BY <1>0, <1>1, <1>22, Queues DEF OutKeys
<1>5. /\ OutStream' /\ out' \in [data : {m, None}, rest : Seq(Cell)]
      /\ outNet' \in Seq(Cell) /\ lseq' \in Nat /\ outSent' \in Seq(Messages)
      /\ Sent(m, n) <=> out'.data = None
      /\ outSent' \in {outSent, Append(outSent, m)}
      /\ NoInit /\ m # "KEXINIT" => NoInit'
      /\ OneInit /\ m # "KEXINIT" => OneInit'
      /\ LastInit /\ m = "KEXINIT" => OneInit' /\ (out'.data = m => LastInit')
  BY <1>0, <1>1, <1>3, <1>4, SendKeeps DEF TrInv
<1>6. Taken' = Taken
  BY <1>0 DEF Taken
<1>7. /\ InStream' /\ RxInv' /\ PeerOrder' /\ Woken' /\ NeverGarbled'
      /\ \A q : LastTaken(q)' <=> LastTaken(q)
      /\ AllTaken' <=> AllTaken
      /\ Still' <=> Still
  BY <1>0, <1>6, InSame
<1>8. Phase'
  <2>0. peer.seals \in Nat /\ keys \in Nat
    BY DEF TrInv, Types
  <2>1. CASE kst = "init" /\ Sent(m, n)
    <3>1. Offer /\ m = "KEXINIT" /\ kst' = "peer" /\ out'.data = None
      BY <1>0, <1>1, <1>2, <1>22, <2>1
    <3>2. /\ adding = None /\ peer.seals = keys /\ peer.inits = keys /\ OneInit'
          /\ IF keys = 0 THEN Taken = 0 /\ queue = <<>>
             ELSE queue = <<"KEXINIT">> /\ LastTaken("KEXINIT") /\ AllTaken
      BY <1>0, <1>5, <3>1 DEF Offer
    <3>3. keys > 0 => Still
      BY <2>0, <3>2, TakenBound DEF TrInv, Still
    <3>4. Asked'
      BY <1>0, <2>0, <3>2 DEF Asked
    <3> QED
      BY <1>0, <1>6, <1>7, <3>1, <3>2, <3>3, <3>4 DEF Phase, Peer
  <2>2. CASE kst = "init" /\ ~Sent(m, n)
    <3>1. Offer /\ m = "KEXINIT" /\ kst' = "init" /\ out'.data = "KEXINIT"
      BY <1>0, <1>1, <1>2, <1>22, <2>2
    <3>2. LastInit'
      BY <1>0, <1>5, <3>1 DEF Offer
    <3> QED
      BY <1>0, <1>6, <1>7, <3>1, <3>2 DEF Phase, Offer
  <2>3. CASE kst = "newkeys"
    <3>1. /\ Newkeys /\ m = "NEWKEYS" /\ kst' = IF Sent(m, n) THEN "await" ELSE "newkeys"
          /\ out'.data \in {None, "NEWKEYS"} /\ m # "KEXINIT"
      BY <1>0, <1>1, <1>2, <1>22, <2>3
    <3>2. Asked'
      BY <1>0, <1>5, <3>1 DEF Newkeys, Asked
    <3>3. /\ adding' = None /\ queue' = <<>> /\ LastTaken("KEXINIT")'
          /\ keys' > 0 => Still'
      BY <1>0, <1>7, <3>1 DEF Newkeys
    <3>4. CASE Sent(m, n)
      BY <1>22, <3>1, <3>2, <3>3, <3>4 DEF Phase, Await
    <3>5. CASE ~Sent(m, n)
      BY <3>1, <3>2, <3>3, <3>5 DEF Phase, Newkeys
    <3> QED
      BY <3>4, <3>5
  <2> QED
    BY <1>0, <2>1, <2>2, <2>3
<1>9. Types'
  <2>1. out' \in [data : Messages \cup {None}, rest : Seq(Cell)]
    BY <1>1, <1>5
  <2>2. kst' \in {"idle", "init", "peer", "newkeys", "await"}
    BY <1>0
  <2> QED
    BY <1>0, <1>5, <2>1, <2>2 DEF TrInv, Types
<1>10. WireStep
  BY <1>0, <1>1, <1>5, SendWire
<1> QED
  BY <1>5, <1>7, <1>8, <1>9, <1>10 DEF TrInv

(* An exchange that meets a dead socket ends, and its keys are not taken   *)
(* over.                                                                   *)
LEMMA KexGivesUpKeeps ==
  ASSUME TrInv, KexGivesUp
  PROVE  TrInv' /\ WireStep
<1>0. /\ kst \in {"init", "newkeys"} /\ kst' = "idle"
      /\ UNCHANGED <<keys, rseq, buf, rx, adding, queue, wants>>
      /\ \/ /\ ~MaySend(KexMsg)
            /\ UNCHANGED <<out, lseq, sock, outNet, inNet, peer, garbled,
                           outSent, outGot, inSent, inGot>>
         \/ SendFails(KexMsg) /\ UNCHANGED <<inNet, inGot>>
  BY DEF KexGivesUp, netVars, logVars
<1>1. /\ kst = "init" => Offer
      /\ kst = "newkeys" => Newkeys
  BY <1>0 DEF TrInv, Phase, Normal, Refused, Dead, Offer, Peer, Newkeys, Await
<1>2. /\ UNCHANGED <<out, sock, outNet, inNet, peer, garbled, outSent, outGot, inSent, inGot>>
      /\ lseq' \in Nat
      /\ \/ kst = "init" /\ keys # 0 /\ out.data # "KEXINIT" /\ lseq' = lseq
         \/ sock = "down"
  <2>1. CASE /\ ~MaySend(KexMsg)
             /\ UNCHANGED <<out, lseq, sock, outNet, inNet, peer, garbled,
                            outSent, outGot, inSent, inGot>>
    <3>1. kst = "init" /\ keys # 0 /\ out.data # "KEXINIT"
      BY <1>0, <1>1, <2>1 DEF MaySend, KexMsg, Offer, Newkeys
    <3> QED
      BY <2>1, <3>1 DEF TrInv, Types
  <2>2. CASE SendFails(KexMsg) /\ UNCHANGED <<inNet, inGot>>
    <3>1. lseq' \in Nat
      BY <2>2, FailKeeps DEF TrInv
    <3> QED
      BY <2>2, <3>1 DEF SendFails
  <2> QED
    BY <1>0, <2>1, <2>2
<1>3. sock' = "up" => lseq' = lseq /\ OutKeys' = OutKeys
  BY <1>0, <1>2, Queues DEF OutKeys
<1>4. OutStream' /\ (NoInit' <=> NoInit) /\ (LastInit' <=> LastInit)
  BY <1>2, <1>3, OutSame
<1>5. Taken' = Taken
  BY <1>0, <1>2 DEF Taken
<1>6. /\ InStream' /\ RxInv' /\ PeerOrder' /\ Woken' /\ NeverGarbled'
      /\ \A q : LastTaken(q)' <=> LastTaken(q)
      /\ AllTaken' <=> AllTaken
      /\ ReadBlock' = ReadBlock
  BY <1>0, <1>2, <1>5, InSame
<1>61. keys \in Nat /\ ReadBlock \in Nat \ {0}
  BY Blocks DEF TrInv, Types
<1>7. Phase'
  <2>1. CASE kst = "init" /\ keys # 0
    <3>1. sock = "up" => peer.inits = keys /\ NoInit
      BY <1>1, <1>2, <2>1, Queues DEF Offer, LastInit, NoInit
    <3> QED
      BY <1>0, <1>1, <1>2, <1>4, <1>6, <1>61, <2>1, <3>1 DEF Offer, Refused, Phase
  <2>2. CASE kst = "init" /\ keys = 0
    BY <1>0, <1>1, <1>2, <2>2, Queues DEF Offer, Dead, Phase
  <2>3. CASE kst = "newkeys"
    <3>1. sock = "down" /\ queue = <<>> /\ (keys > 0 => buf = <<>>)
      BY <1>1, <1>2, <2>3 DEF Newkeys, Still
    <3>2. keys = 0 \/ Len(buf) < ReadBlock
      <4>1. buf = <<>> => Len(buf) = 0
        BY EmptySeq
      <4> QED
        BY <1>61, <3>1, <4>1
    <3> QED
      BY <1>0, <1>2, <1>6, <3>1, <3>2, Queues DEF Dead, Phase
  <2> QED
    BY <1>0, <2>1, <2>2, <2>3
<1>8. Types'
  BY <1>0, <1>2 DEF TrInv, Types
<1>9. WireStep
  BY <1>2 DEF WireStep, W!wireVars
<1> QED
  BY <1>4, <1>6, <1>7, <1>8, <1>9 DEF TrInv

(* The exchange reads until it has the message it asks for.                *)
LEMMA KexReadKeeps ==
  ASSUME TrInv, NEW k, NEW n, KexRead(k, n)
  PROVE  TrInv' /\ WireStep
<1>1. kst \in {"peer", "await"} /\ KexNeeds \notin ToSet(queue) /\ TransportRead(k, n)
  BY DEF KexRead
<1>2. Peer \/ Await
  BY <1>1 DEF TrInv, Phase, Normal, Refused, Dead, Offer, Peer, Newkeys, Await
<1>3. "KEXINIT" \in ToSet(<<"KEXINIT">>) /\ "NEWKEYS" \in ToSet(<<"NEWKEYS">>)
  BY DEF ToSet
<1>4. Reads
  BY <1>1, <1>2, <1>3 DEF Reads, Peer, Await, KexNeeds
<1> QED
  BY <1>1, <1>4, ReadKeeps

(* An exchange that reads from a dead socket ends.                         *)
LEMMA KexReadFailsKeeps ==
  ASSUME TrInv, KexReadFails
  PROVE  TrInv' /\ WireStep
<1>0. /\ kst \in {"peer", "await"} /\ KexNeeds \notin ToSet(queue)
      /\ sock = "down" /\ Len(buf) < ReadBlock /\ kst' = "idle"
      /\ UNCHANGED <<keys, lseq, rseq, out, buf, rx, adding, queue, wants, sock, outNet, inNet,
                     peer, garbled, outSent, outGot, inSent, inGot>>
  BY DEF KexReadFails, netVars, logVars
<1>1. Peer \/ Await
  BY <1>0 DEF TrInv, Phase, Normal, Refused, Dead, Offer, Peer, Newkeys, Await
<1>2. "KEXINIT" \in ToSet(<<"KEXINIT">>) /\ "NEWKEYS" \in ToSet(<<"NEWKEYS">>)
  BY DEF ToSet
<1>3. queue # <<"NEWKEYS">>
  BY <1>0, <1>1, <1>2, Queues DEF Peer, Await, KexNeeds
<1>4. OutStream'
  BY <1>0, Queues, OutSame
<1>5. Taken' = Taken
  BY <1>0 DEF Taken
<1>6. InStream' /\ RxInv' /\ PeerOrder' /\ Woken' /\ NeverGarbled' /\ ReadBlock' = ReadBlock
  BY <1>0, <1>5, InSame
<1>7. Phase'
  BY <1>0, <1>3, <1>6 DEF Phase, Dead
<1>8. Types'
  BY <1>0 DEF TrInv, Types
<1>9. WireStep
  BY <1>0 DEF WireStep, W!wireVars
<1> QED
  BY <1>4, <1>6, <1>7, <1>8, <1>9 DEF TrInv

(* The message that packet_require() takes is the only one of its queue.   *)
LEMMA TakeOne ==
  ASSUME NEW m, queue = <<m>>, NEW i \in DOMAIN queue
  PROVE  RemoveAt(queue, i) = <<>>
<1>1. DOMAIN <<m>> = 1..1 /\ Len(<<m>>) = 1 /\ <<m>> \in Seq({m})
  OBVIOUS
<1>2. i = 1
  BY <1>1
<1>3. RemoveAt(queue, i) = SubSeq(<<m>>, 1, 0) \o SubSeq(<<m>>, 2, 1)
  BY <1>1, <1>2 DEF RemoveAt
<1>4. SubSeq(<<m>>, 1, 0) = <<>> /\ SubSeq(<<m>>, 2, 1) = <<>>
  BY <1>1
<1> QED
  BY <1>3, <1>4

(* The exchange takes the message it asked for out of the queue: with      *)
(* NEWKEYS both directions change keys at the place where the peer did.    *)
LEMMA KexTakesKeeps ==
  ASSUME TrInv, KexTakes
  PROVE  TrInv' /\ WireStep
<1>0. /\ kst \in {"peer", "await"}
      /\ keys' = IF kst = "await" THEN keys + 1 ELSE keys
      /\ kst' = IF kst = "peer" THEN "newkeys" ELSE "idle"
      /\ UNCHANGED <<lseq, rseq, out, buf, rx, adding, wants, sock, outNet, inNet,
                     peer, garbled, outSent, outGot, inSent, inGot>>
  BY DEF KexTakes, netVars, logVars
<1>1. PICK i \in DOMAIN queue : queue[i] = KexNeeds /\ queue' = RemoveAt(queue, i)
  BY DEF KexTakes
<1>2. queue # <<>>
  BY <1>1
<1>21. \A m, l : l \in DOMAIN <<m>> => <<m>>[l] = m
  OBVIOUS
<1>3. Taken' = Taken
  BY <1>0 DEF Taken
<1>4. peer.seals \in Nat /\ keys \in Nat /\ peer.inits \in Nat
  BY DEF TrInv, Types
<1>5. CASE kst = "peer"
  <2>1. Peer /\ queue = <<"KEXINIT">> /\ LastTaken("KEXINIT")
    BY <1>2, <1>5 DEF TrInv, Phase, Normal, Refused, Dead, Offer, Peer, Newkeys, Await
  <2>2. queue' = <<>> /\ kst' = "newkeys" /\ keys' = keys
    BY <1>0, <1>1, <1>5, <2>1, TakeOne
  <2>3. out.data = None
    BY <2>1 DEF Peer
  <2>4. OutKeys' = OutKeys /\ InKeys' = InKeys
    BY <1>0, <1>5, <2>1, <2>2, <2>3, Queues DEF OutKeys, InKeys
  <2>5. OutStream' /\ (OneInit' <=> OneInit) /\ (NoInit' <=> NoInit)
    BY <1>0, <2>4, OutSame
  <2>6. UNCHANGED <<InCells, InHead, InTail>>
    BY <1>0, <1>3, <2>4 DEF InCells, InHead, InTail
  <2>7. InStream'
    BY <1>0, <2>6 DEF TrInv, InStream
  <2>8. RxInv'
    BY <1>0, <2>2, <2>6 DEF TrInv, RxInv, NoPacket, Collecting, Piece
  <2>9. PeerOrder' /\ NeverGarbled' /\ Woken'
    BY <1>0, <2>2 DEF TrInv, PeerOrder, NeverGarbled, Woken
  <2>10. Phase'
    <3>1. Asked'
      BY <1>0, <2>1, <2>2, <2>5 DEF Peer, Asked
    <3>2. LastTaken("KEXINIT")' /\ adding' = None /\ (keys' > 0 => Still')
      BY <1>0, <1>3, <2>1, <2>2 DEF LastTaken, Peer, Still
    <3> QED
      BY <1>0, <2>2, <2>3, <3>1, <3>2 DEF Newkeys, Phase
  <2>11. Types'
    BY <1>0, <2>2 DEF TrInv, Types
  <2> QED
    BY <1>0, <2>5, <2>7, <2>8, <2>9, <2>10, <2>11 DEF TrInv, WireStep, W!wireVars
<1>6. CASE kst = "await"
  <2>1. Await /\ queue = <<"NEWKEYS">> /\ LastTaken("NEWKEYS") /\ peer.seals = keys + 1
        /\ rx = NoPacket /\ Asked /\ adding = None
    BY <1>2, <1>6 DEF TrInv, Phase, Normal, Refused, Dead, Offer, Peer, Newkeys, Await
  <2>2. queue' = <<>> /\ kst' = "idle" /\ keys' = keys + 1
    BY <1>0, <1>1, <1>6, <2>1, TakeOne
  <2>4. OutKeys' = OutKeys /\ InKeys' = InKeys
    BY <1>0, <1>6, <2>1, <2>2, Queues DEF OutKeys, InKeys
  <2>5. OutStream' /\ (NoInit' <=> NoInit)
    BY <1>0, <2>4, OutSame
  <2>6. UNCHANGED <<InCells, InHead, InTail>>
    BY <1>0, <1>3, <2>4 DEF InCells, InHead, InTail
  <2>7. InStream'
    BY <1>0, <2>6 DEF TrInv, InStream
  <2>8. RxInv'
    BY <1>0, <2>1 DEF RxInv, NoPacket
  <2>9. PeerOrder' /\ NeverGarbled' /\ Woken'
    <3>1. NeverGarbled' /\ Woken'
      BY <1>0 DEF TrInv, NeverGarbled, Woken
    <3>2. keys' # 0 /\ peer'.seals # 0
      BY <1>0, <1>4, <2>1, <2>2
    <3> QED
      BY <1>0, <3>1, <3>2 DEF TrInv, PeerOrder
  <2>10. Phase'
    <3>1. sock = "up" => peer.inits = keys + 1 /\ NoInit
      BY <1>4, <2>1 DEF Asked
    <3>2. ~LastTaken("KEXINIT")'
      BY <1>0, <1>3, <2>1, Queues DEF LastTaken
    <3> QED
      BY <1>0, <1>4, <2>1, <2>2, <2>5, <3>1, <3>2 DEF Normal, Phase
  <2>11. Types'
    <3>1. keys' \in Nat
      BY <1>4, <2>2
    <3> QED
      BY <1>0, <2>2, <3>1 DEF TrInv, Types
  <2> QED
    BY <1>0, <2>5, <2>7, <2>8, <2>9, <2>10, <2>11 DEF TrInv, WireStep, W!wireVars
<1> QED
  BY <1>0, <1>5, <1>6

----------------------------------------------------------------------------
(* The peer and the connection                                             *)

(* What a packet of the peer leaves as it was.                             *)
LEMMA PostKeeps ==
  ASSUME TrInv, NEW m \in Messages, PeerSends(m), NEW seals \in Nat, NEW kex \in BOOLEAN,
         peer' = [peer EXCEPT !.sseq = (peer.sseq + 1) % SeqnoMod, !.seals = seals, !.kex = kex],
         seals = IF m = "NEWKEYS" THEN peer.seals + 1 ELSE peer.seals
  PROVE  /\ Types' /\ OutStream' /\ InStream' /\ RxInv' /\ Woken' /\ NeverGarbled' /\ WireStep
         /\ UNCHANGED <<keys, out, buf, rx, adding, queue, kst, sock>> /\ sock = "up"
         /\ peer'.seals = seals /\ peer'.kex = kex /\ peer'.inits = peer.inits
         /\ NoInit' <=> NoInit
         /\ OneInit' <=> OneInit
         /\ LastInit' <=> LastInit
         /\ Taken' = Taken
         /\ \A q : LastTaken(q)' <=> LastTaken(q)
         /\ inSent' = Append(inSent, m) /\ Len(inSent') = Len(inSent) + 1 /\ Len(inSent) \in Nat
         /\ inSent'[Len(inSent) + 1] = m
         /\ \A j \in 1..Len(inSent) : inSent'[j] = inSent[j]
<1>0. /\ sock = "up" /\ inSent' = Append(inSent, m)
      /\ UNCHANGED <<keys, lseq, rseq, out, buf, rx, adding, queue, kst, wants,
                     sock, outNet, garbled, outSent, outGot, inGot>>
  BY DEF PeerSends, libVars
<1>00. Types
  BY DEF TrInv
<1>1. /\ peer \in [seals : Nat, opens : Nat, sseq : Nat, oseq : Nat, inits : Nat, kex : BOOLEAN]
      /\ inSent \in Seq(Messages)
  BY ONLY <1>00 DEF Types
<1> DEFINE sq == (peer.sseq + 1) % SeqnoMod
<1>2. sq \in Nat
  <2>1. peer.sseq + 1 \in Nat
    BY ONLY <1>1
  <2>2. SeqnoMod \in Nat \ {0}
    BY ONLY TransportAssumption
  <2> QED
    BY <2>1, <2>2, Modulo
<1>3. peer' = [peer EXCEPT !.sseq = sq, !.seals = seals, !.kex = kex]
  OBVIOUS
<1>31. sq = (peer.sseq + 1) % SeqnoMod
  OBVIOUS
<1> HIDE DEF sq
<1>4. /\ peer'.sseq = sq /\ peer'.seals = seals /\ peer'.kex = kex /\ peer'.inits = peer.inits
      /\ peer'.oseq = peer.oseq /\ peer'.opens = peer.opens
      /\ peer' \in [seals : Nat, opens : Nat, sseq : Nat, oseq : Nat, inits : Nat, kex : BOOLEAN]
  BY <1>1, <1>2, <1>3
<1>5. InStream' /\ RxInv' /\ inNet' \in Seq(Cell) /\ inSent' \in Seq(Messages)
  <2>1. peer'.sseq = (peer.sseq + 1) % SeqnoMod
    BY <1>31, <1>4
  <2>2. peer'.seals = IF m = "NEWKEYS" THEN peer.seals + 1 ELSE peer.seals
    BY <1>4
  <2> QED
    BY <2>1, <2>2, PeerStep DEF TrInv
<1>6. OutKeys' = OutKeys
  BY <1>0 DEF OutKeys
<1>7. OutStream' /\ (NoInit' <=> NoInit) /\ (OneInit' <=> OneInit) /\ (LastInit' <=> LastInit)
  BY <1>0, <1>4, <1>6, OutSame
<1>8. Woken' /\ NeverGarbled'
  BY <1>0 DEF TrInv, Woken, NeverGarbled
<1>9. Taken' = Taken
  BY <1>0 DEF Taken
<1>10. /\ Len(inSent') = Len(inSent) + 1 /\ Len(inSent) \in Nat /\ inSent'[Len(inSent) + 1] = m
       /\ \A j \in 1..Len(inSent) : inSent'[j] = inSent[j]
  BY <1>0, <1>1, AppendProperties
<1>11. \A q : LastTaken(q)' <=> LastTaken(q)
  <2>1. Taken \in Nat /\ Taken <= Len(inSent)
    BY TakenBound DEF TrInv
  <2>2. Taken > 0 => inSent'[Taken] = inSent[Taken]
    BY <1>10, <2>1
  <2> QED
    BY <1>9, <2>2 DEF LastTaken
<1>12. Types'
  BY <1>0, <1>4, <1>5 DEF TrInv, Types
<1>13. WireStep
  <2>1. W!Post(m)
    BY <1>0 DEF W!Post
  <2> QED
    BY <2>1 DEF WireStep, W!WireNext
<1> QED
  BY <1>0, <1>4, <1>5, <1>7, <1>8, <1>9, <1>10, <1>11, <1>12, <1>13

(* The peer sends a message between two exchanges.                         *)
LEMMA PeerSpeaksKeeps ==
  ASSUME TrInv, NEW m \in PeerMsgs, PeerSpeaks(m)
  PROVE  TrInv' /\ WireStep
<1>0. /\ m \in Messages /\ m \notin {"KEXINIT", "NEWKEYS"}
      /\ ~peer.kex /\ peer.seals > 0 /\ PeerSends(m)
      /\ peer' = [peer EXCEPT !.sseq = (@ + 1) % SeqnoMod]
  BY TransportAssumption DEF PeerSpeaks
<1>1. /\ peer \in [seals : Nat, opens : Nat, sseq : Nat, oseq : Nat, inits : Nat, kex : BOOLEAN]
      /\ keys \in Nat
  BY DEF TrInv, Types
<1>2. peer' = [peer EXCEPT !.sseq = (peer.sseq + 1) % SeqnoMod, !.seals = peer.seals, !.kex = FALSE]
  <2>1. peer.kex = FALSE
    BY <1>0, <1>1
  <2> QED
    BY <1>0, <1>1, <2>1
<1>3. /\ Types' /\ OutStream' /\ InStream' /\ RxInv' /\ Woken' /\ NeverGarbled' /\ WireStep
      /\ UNCHANGED <<keys, out, buf, rx, adding, queue, kst, sock>> /\ sock = "up"
      /\ peer'.seals = peer.seals /\ peer'.kex = FALSE /\ peer'.inits = peer.inits
      /\ NoInit' <=> NoInit
      /\ OneInit' <=> OneInit
      /\ Taken' = Taken
      /\ \A q : LastTaken(q)' <=> LastTaken(q)
      /\ Len(inSent') = Len(inSent) + 1 /\ Len(inSent) \in Nat
      /\ inSent'[Len(inSent) + 1] = m
      /\ \A j \in 1..Len(inSent) : inSent'[j] = inSent[j]
  <2>1. TrInv /\ m \in Messages /\ PeerSends(m) /\ peer.seals \in Nat /\ FALSE \in BOOLEAN
    BY <1>0, <1>1
  <2>2. peer.seals = IF m = "NEWKEYS" THEN peer.seals + 1 ELSE peer.seals
    BY <1>0
  <2> QED
    BY ONLY <1>2, <2>1, <2>2, PostKeeps
<1>4. PeerOrder
  BY DEF TrInv
<1>5. AllTaken => ~LastTaken("KEXINIT")
  BY <1>0, <1>3, <1>4 DEF PeerOrder, AllTaken, LastTaken
<1>6. Phase'
  <2>1. Asked' <=> Asked
    BY <1>3 DEF Asked
  <2>2. Normal \/ Peer \/ Newkeys \/ Await
    BY <1>0, <1>3, <1>5, Queues DEF TrInv, Phase, Refused, Dead, Offer
  <2>3. CASE Normal
    BY <1>3, <2>3 DEF Phase, Normal
  <2>4. CASE Peer
    BY <1>3, <2>1, <2>4 DEF Phase, Peer, Still
  <2>5. CASE Newkeys
    BY <1>3, <2>1, <2>5 DEF Phase, Newkeys, Still
  <2>6. CASE Await
    BY <1>3, <2>1, <2>6 DEF Phase, Await
  <2> QED
    BY <2>2, <2>3, <2>4, <2>5, <2>6
<1>7. Len(inSent) = 0 => keys # 0
  <2> SUFFICES ASSUME Len(inSent) = 0, keys = 0 PROVE FALSE
    OBVIOUS
  <2>1. Taken = 0 /\ InCells = <<>>
    BY <1>3, TakenBound DEF TrInv, AllTaken
  <2>2. InKeys = peer.seals
    BY <2>1, TakenBound DEF TrInv
  <2>3. ~LastTaken("NEWKEYS")
    BY <2>1 DEF LastTaken
  <2>4. queue # <<"NEWKEYS">>
    <3>1. CASE Normal
      BY <3>1, Queues DEF Normal
    <3>2. CASE Refused
      BY <3>2, Queues DEF Refused
    <3>3. CASE Dead
      BY <3>3 DEF Dead
    <3>4. CASE Offer
      BY <3>4, Queues DEF Offer
    <3>5. CASE Peer
      BY <3>5, Queues DEF Peer
    <3>6. CASE Newkeys
      BY <3>6, Queues DEF Newkeys
    <3>7. CASE Await
      BY <2>3, <3>7, Queues DEF Await
    <3> QED
      BY <3>1, <3>2, <3>3, <3>4, <3>5, <3>6, <3>7 DEF TrInv, Phase
  <2> QED
    BY <1>0, <2>2, <2>4 DEF InKeys
<1>8. PeerOrder'
  <2>1. \A j \in 1..Len(inSent') - 1 : inSent'[j] = "KEXINIT" <=> inSent'[j + 1] = "NEWKEYS"
    <3> SUFFICES ASSUME NEW j \in 1..Len(inSent') - 1
                 PROVE  inSent'[j] = "KEXINIT" <=> inSent'[j + 1] = "NEWKEYS"
      OBVIOUS
    <3>1. CASE j = Len(inSent)
      <4>1. j \in 1..Len(inSent) /\ Len(inSent) > 0
        BY <1>3, <3>1
      <4> QED
        BY <1>0, <1>3, <1>4, <3>1, <4>1 DEF PeerOrder
    <3>2. CASE j # Len(inSent)
      <4>1. j \in 1..Len(inSent) - 1 /\ j \in 1..Len(inSent) /\ j + 1 \in 1..Len(inSent)
        BY <1>3, <3>2
      <4> QED
        BY <1>3, <1>4, <4>1 DEF PeerOrder
    <3> QED
      BY <3>1, <3>2
  <2>2. inSent'[1] = IF Len(inSent) = 0 THEN m ELSE inSent[1]
    BY <1>3
  <2>3. Len(inSent') > 0 /\ inSent'[Len(inSent')] = m
    BY <1>3
  <2> QED
    BY <1>0, <1>3, <1>4, <1>7, <2>1, <2>2, <2>3 DEF PeerOrder
<1> QED
  BY <1>3, <1>6, <1>8 DEF TrInv

(* The peer begins an exchange.                                            *)
LEMMA PeerKexinitKeeps ==
  ASSUME TrInv, PeerKexinit
  PROVE  TrInv' /\ WireStep
<1> DEFINE m == "KEXINIT"
<1>0. /\ m \in Messages /\ m # "NEWKEYS" /\ ~peer.kex /\ PeerSends(m)
      /\ peer' = [peer EXCEPT !.sseq = (@ + 1) % SeqnoMod, !.kex = TRUE]
  BY Queues DEF PeerKexinit
<1>1. /\ peer \in [seals : Nat, opens : Nat, sseq : Nat, oseq : Nat, inits : Nat, kex : BOOLEAN]
      /\ keys \in Nat
  BY DEF TrInv, Types
<1>2. peer' = [peer EXCEPT !.sseq = (peer.sseq + 1) % SeqnoMod, !.seals = peer.seals, !.kex = TRUE]
  BY <1>0, <1>1
<1>3. /\ Types' /\ OutStream' /\ InStream' /\ RxInv' /\ Woken' /\ NeverGarbled' /\ WireStep
      /\ UNCHANGED <<keys, out, buf, rx, adding, queue, kst, sock>> /\ sock = "up"
      /\ peer'.seals = peer.seals /\ peer'.kex = TRUE /\ peer'.inits = peer.inits
      /\ NoInit' <=> NoInit
      /\ OneInit' <=> OneInit
      /\ LastInit' <=> LastInit
      /\ Taken' = Taken
      /\ \A q : LastTaken(q)' <=> LastTaken(q)
      /\ Len(inSent') = Len(inSent) + 1 /\ Len(inSent) \in Nat
      /\ inSent'[Len(inSent) + 1] = m
      /\ \A j \in 1..Len(inSent) : inSent'[j] = inSent[j]
  <2>1. peer.seals \in Nat /\ TRUE \in BOOLEAN
    BY <1>1
  <2>2. peer.seals = IF m = "NEWKEYS" THEN peer.seals + 1 ELSE peer.seals
    BY <1>0
  <2>3. TrInv /\ m \in Messages /\ PeerSends(m)
    BY <1>0
  <2> HIDE DEF m
  <2> QED
    BY ONLY <1>2, <2>1, <2>2, <2>3, PostKeeps
<1>4. PeerOrder
  BY DEF TrInv
<1>5. AllTaken => ~LastTaken("KEXINIT")
  BY <1>0, <1>3, <1>4 DEF PeerOrder, AllTaken, LastTaken
<1>6. Phase'
  <2>1. Asked' <=> Asked
    BY <1>3 DEF Asked
  <2>2. Normal \/ (Offer /\ keys = 0) \/ Peer \/ Newkeys \/ Await
    BY <1>3, <1>5, Queues DEF TrInv, Phase, Refused, Dead, Offer
  <2>3. CASE Normal
    BY <1>3, <2>3 DEF Phase, Normal
  <2>4. CASE Peer
    BY <1>3, <2>1, <2>4 DEF Phase, Peer, Still
  <2>5. CASE Newkeys
    BY <1>3, <2>1, <2>5 DEF Phase, Newkeys, Still
  <2>6. CASE Await
    BY <1>3, <2>1, <2>6 DEF Phase, Await
  <2>7. CASE Offer /\ keys = 0
    BY <1>3, <2>7 DEF Phase, Offer
  <2> QED
    BY <2>2, <2>3, <2>4, <2>5, <2>6, <2>7
<1>8. PeerOrder'
  <2>1. \A j \in 1..Len(inSent') - 1 : inSent'[j] = "KEXINIT" <=> inSent'[j + 1] = "NEWKEYS"
    <3> SUFFICES ASSUME NEW j \in 1..Len(inSent') - 1
                 PROVE  inSent'[j] = "KEXINIT" <=> inSent'[j + 1] = "NEWKEYS"
      OBVIOUS
    <3>1. CASE j = Len(inSent)
      <4>1. j \in 1..Len(inSent) /\ Len(inSent) > 0
        BY <1>3, <3>1
      <4> QED
        BY <1>0, <1>3, <1>4, <3>1, <4>1 DEF PeerOrder
    <3>2. CASE j # Len(inSent)
      <4>1. j \in 1..Len(inSent) - 1 /\ j \in 1..Len(inSent) /\ j + 1 \in 1..Len(inSent)
        BY <1>3, <3>2
      <4> QED
        BY <1>3, <1>4, <4>1 DEF PeerOrder
    <3> QED
      BY <3>1, <3>2
  <2>2. inSent'[1] = IF Len(inSent) = 0 THEN m ELSE inSent[1]
    BY <1>3
  <2>3. Len(inSent') > 0 /\ inSent'[Len(inSent')] = m
    BY <1>3
  <2>4. /\ Len(inSent') > 0 => inSent'[1] # "NEWKEYS"
        /\ keys' = 0 /\ Len(inSent') > 0 => inSent'[1] = "KEXINIT"
    BY <1>3, <1>4, <2>2 DEF PeerOrder
  <2> QED
    BY <1>3, <1>4, <2>1, <2>3, <2>4 DEF PeerOrder
<1> QED
  BY <1>3, <1>6, <1>8 DEF TrInv

(* The peer ends its half of an exchange and seals with new keys.          *)
LEMMA PeerNewkeysKeeps ==
  ASSUME TrInv, PeerNewkeys
  PROVE  TrInv' /\ WireStep
<1> DEFINE m == "NEWKEYS"
<1>0. /\ m \in Messages /\ peer.kex /\ peer.inits > peer.seals /\ PeerSends(m)
      /\ peer' = [peer EXCEPT !.sseq = (@ + 1) % SeqnoMod, !.kex = FALSE, !.seals = @ + 1]
  BY Queues DEF PeerNewkeys
<1>1. /\ peer \in [seals : Nat, opens : Nat, sseq : Nat, oseq : Nat, inits : Nat, kex : BOOLEAN]
      /\ keys \in Nat /\ peer.seals \in Nat /\ peer.seals + 1 \in Nat /\ peer.inits \in Nat
  BY DEF TrInv, Types
<1>2. peer' = [peer EXCEPT !.sseq = (peer.sseq + 1) % SeqnoMod, !.seals = peer.seals + 1, !.kex = FALSE]
  BY <1>0, <1>1
<1>3. /\ Types' /\ OutStream' /\ InStream' /\ RxInv' /\ Woken' /\ NeverGarbled' /\ WireStep
      /\ UNCHANGED <<keys, out, buf, rx, adding, queue, kst, sock>> /\ sock = "up"
      /\ peer'.seals = peer.seals + 1 /\ peer'.kex = FALSE /\ peer'.inits = peer.inits
      /\ NoInit' <=> NoInit
      /\ OneInit' <=> OneInit
      /\ Taken' = Taken
      /\ \A q : LastTaken(q)' <=> LastTaken(q)
      /\ Len(inSent') = Len(inSent) + 1 /\ Len(inSent) \in Nat
      /\ inSent'[Len(inSent) + 1] = m
      /\ \A j \in 1..Len(inSent) : inSent'[j] = inSent[j]
  BY <1>0, <1>1, <1>2, PostKeeps
<1>4. PeerOrder
  BY DEF TrInv
<1>5. Len(inSent) > 0 /\ inSent[Len(inSent)] = "KEXINIT"
  BY <1>0, <1>4 DEF PeerOrder
<1>6. Phase'
  <2>1. Asked => Asked' /\ peer.seals # keys + 1
    BY <1>0, <1>1, <1>3 DEF Asked
  <2>2. ~Normal /\ ~Refused /\ ~Dead /\ ~Offer
    <3>1. ~(peer.inits = keys /\ peer.seals = keys)
      BY <1>0, <1>1
    <3> QED
      BY <1>3, <3>1, Queues DEF Normal, Refused, Dead, Offer
  <2>4. CASE Peer
    BY <1>3, <2>1, <2>4 DEF Phase, Peer, Still
  <2>5. CASE Newkeys
    BY <1>3, <2>1, <2>5 DEF Phase, Newkeys, Still
  <2>6. CASE Await
    BY <1>3, <2>1, <2>6 DEF Phase, Await
  <2> QED
    BY <2>2, <2>4, <2>5, <2>6 DEF TrInv, Phase
<1>8. PeerOrder'
  <2>1. \A j \in 1..Len(inSent') - 1 : inSent'[j] = "KEXINIT" <=> inSent'[j + 1] = "NEWKEYS"
    <3> SUFFICES ASSUME NEW j \in 1..Len(inSent') - 1
                 PROVE  inSent'[j] = "KEXINIT" <=> inSent'[j + 1] = "NEWKEYS"
      OBVIOUS
    <3>1. CASE j = Len(inSent)
      <4>1. j \in 1..Len(inSent) /\ Len(inSent) > 0
        BY <1>3, <3>1
      <4> QED
        BY <1>3, <1>5, <3>1, <4>1
    <3>2. CASE j # Len(inSent)
      <4>1. j \in 1..Len(inSent) - 1 /\ j \in 1..Len(inSent) /\ j + 1 \in 1..Len(inSent)
        BY <1>3, <3>2
      <4> QED
        BY <1>3, <1>4, <4>1 DEF PeerOrder
    <3> QED
      BY <3>1, <3>2
  <2>2. inSent'[1] = inSent[1]
    <3>1. 1 \in 1..Len(inSent)
      BY <1>3, <1>5
    <3> QED
      BY <1>3, <3>1
  <2>3. Len(inSent') > 0 /\ inSent'[Len(inSent')] = m
    BY <1>3
  <2>4. peer'.seals # 0
    BY <1>1, <1>3
  <2> QED
    BY <1>3, <1>4, <1>5, <2>1, <2>2, <2>3, <2>4, Queues DEF PeerOrder
<1> QED
  BY <1>3, <1>6, <1>8 DEF TrInv

(* The peer opens the packet that is next, with the keys it was sealed     *)
(* with.                                                                   *)
LEMMA PeerOpensKeeps ==
  ASSUME TrInv, PeerOpens
  PROVE  TrInv' /\ WireStep
<1>0. UNCHANGED <<keys, lseq, rseq, out, buf, rx, adding, queue, kst, wants,
                  sock, inNet, outSent, inSent, inGot>>
  BY DEF PeerOpens, libVars
<1>1. PICK p \in Packet :
        /\ p.n = Len(outGot) + 1 /\ p.n \in DOMAIN outSent /\ outSent[p.n] = p.msg
        /\ OutStream' /\ outNet' \in Seq(Cell) /\ garbled' = garbled
        /\ outGot' = Append(outGot, p.msg) /\ outGot' \in Seq(Messages)
        /\ peer' \in [seals : {peer.seals}, opens : Nat, sseq : {peer.sseq}, oseq : Nat,
                      inits : {IF p.msg = "KEXINIT" THEN peer.inits + 1 ELSE peer.inits},
                      kex : {peer.kex}]
        /\ NoInit => NoInit' /\ p.msg # "KEXINIT"
        /\ LastInit => LastInit' /\ p.msg # "KEXINIT"
        /\ OneInit => IF p.msg = "KEXINIT" THEN NoInit' ELSE OneInit'
  BY OpenKeeps DEF TrInv
<1> DEFINE inits == IF p.msg = "KEXINIT" THEN peer.inits + 1 ELSE peer.inits
<1>2. /\ peer \in [seals : Nat, opens : Nat, sseq : Nat, oseq : Nat, inits : Nat, kex : BOOLEAN]
      /\ keys \in Nat
  BY DEF TrInv, Types
<1>3. /\ peer'.seals = peer.seals /\ peer'.sseq = peer.sseq /\ peer'.kex = peer.kex
      /\ peer'.inits = inits /\ inits \in Nat
  BY <1>1, <1>2
<1>4. peer' \in [seals : Nat, opens : Nat, sseq : Nat, oseq : Nat, inits : Nat, kex : BOOLEAN]
  <2>1. peer.seals \in Nat /\ peer.sseq \in Nat /\ peer.kex \in BOOLEAN
    BY <1>2
  <2> HIDE DEF inits
  <2>2. peer' \in [seals : {peer.seals}, opens : Nat, sseq : {peer.sseq}, oseq : Nat,
                   inits : {inits}, kex : {peer.kex}]
    BY <1>1 DEF inits
  <2> QED
    BY <1>3, <2>1, <2>2
<1>5. Taken' = Taken
  BY <1>0 DEF Taken
<1>6. /\ InStream' /\ RxInv' /\ PeerOrder' /\ Woken' /\ NeverGarbled'
      /\ \A q : LastTaken(q)' <=> LastTaken(q)
      /\ AllTaken' <=> AllTaken
      /\ Still' <=> Still
      /\ ReadBlock' = ReadBlock
  BY <1>0, <1>1, <1>3, <1>5, InSame
<1>7. Phase'
  <2>1. Asked => Asked'
    BY <1>0, <1>1, <1>2, <1>3 DEF Asked
  <2>2. CASE Normal
    BY <1>0, <1>1, <1>3, <1>6, <2>2 DEF Phase, Normal
  <2>3. CASE Refused
    BY <1>0, <1>1, <1>3, <1>6, <2>3 DEF Phase, Refused
  <2>4. CASE Dead
    BY <1>0, <1>6, <2>4 DEF Phase, Dead
  <2>5. CASE Offer
    BY <1>0, <1>1, <1>3, <1>5, <1>6, <2>5 DEF Phase, Offer
  <2>6. CASE Peer
    BY <1>0, <1>5, <1>6, <2>1, <2>6 DEF Phase, Peer
  <2>7. CASE Newkeys
    BY <1>0, <1>6, <2>1, <2>7 DEF Phase, Newkeys
  <2>8. CASE Await
    BY <1>0, <1>3, <1>6, <2>1, <2>8 DEF Phase, Await
  <2> QED
    BY <2>2, <2>3, <2>4, <2>5, <2>6, <2>7, <2>8 DEF TrInv, Phase
<1>8. Types'
  BY <1>0, <1>1, <1>4 DEF TrInv, Types
<1>9. WireStep
  <2>1. W!Arrive
    <3>1. outSent \in Seq(Messages) /\ Len(outGot) \in Nat
      BY DEF TrInv, Types
    <3>2. DOMAIN outSent = 1..Len(outSent) /\ Len(outSent) \in Nat
      BY <3>1, LenProperties
    <3>3. Len(outGot) < Len(outSent)
      BY <1>1, <3>1, <3>2
    <3> QED
      BY <1>0, <1>1, <3>3 DEF W!Arrive
  <2> QED
    BY <2>1 DEF WireStep, W!WireNext
<1> QED
  BY <1>1, <1>6, <1>7, <1>8, <1>9 DEF TrInv

(* A socket that breaks cuts no packet that was given already.             *)
LEMMA SocketBreaksKeeps ==
  ASSUME TrInv, SocketBreaks
  PROVE  TrInv' /\ WireStep
<1>0. /\ sock' = "down"
      /\ UNCHANGED <<keys, lseq, rseq, out, buf, rx, adding, queue, kst, wants,
                     outNet, inNet, peer, garbled, outSent, outGot, inSent, inGot>>
  BY DEF SocketBreaks, libVars, logVars
<1>1. Taken' = Taken
  BY <1>0 DEF Taken
<1>2. OutStream'
  BY <1>0, Queues, OutSame
<1>3. /\ InStream' /\ RxInv' /\ PeerOrder' /\ Woken' /\ NeverGarbled'
      /\ \A q : LastTaken(q)' <=> LastTaken(q)
      /\ AllTaken' <=> AllTaken
      /\ Still' <=> Still
      /\ ReadBlock' = ReadBlock
  BY <1>0, <1>1, InSame
<1>4. Phase'
  <2>0. sock' # "up"
    BY <1>0, Queues
  <2>1. Asked => Asked'
    BY <1>0, <2>0 DEF Asked
  <2>2. CASE Normal
    BY <1>0, <1>3, <2>0, <2>2 DEF Phase, Normal
  <2>3. CASE Refused
    BY <1>0, <1>3, <2>0, <2>3 DEF Phase, Refused
  <2>4. CASE Dead
    BY <1>0, <1>3, <2>4 DEF Phase, Dead
  <2>5. CASE Offer
    BY <1>0, <1>1, <1>3, <2>0, <2>5 DEF Phase, Offer
  <2>6. CASE Peer
    BY <1>0, <1>1, <1>3, <2>1, <2>6 DEF Phase, Peer
  <2>7. CASE Newkeys
    BY <1>0, <1>3, <2>1, <2>7 DEF Phase, Newkeys
  <2>8. CASE Await
    BY <1>0, <1>3, <2>1, <2>8 DEF Phase, Await
  <2> QED
    BY <2>2, <2>3, <2>4, <2>5, <2>6, <2>7, <2>8 DEF TrInv, Phase
<1>5. Types'
  BY <1>0 DEF TrInv, Types
<1>6. WireStep
  <2>1. W!Break
    BY <1>0 DEF W!Break
  <2> QED
    BY <2>1 DEF WireStep, W!WireNext
<1> QED
  BY <1>2, <1>3, <1>4, <1>5, <1>6 DEF TrInv

(* Steps of others change nothing.                                         *)
LEMMA StutterKeeps ==
  ASSUME TrInv, UNCHANGED trVars
  PROVE  TrInv' /\ WireStep
<1>0. UNCHANGED <<keys, lseq, rseq, out, buf, rx, adding, queue, kst, wants, sock,
                  outNet, inNet, peer, garbled, outSent, outGot, inSent, inGot>>
  BY DEF trVars, libVars, netVars, logVars
<1>1. TrInv'
  <2>1. UNCHANGED <<Taken, OutKeys>>
    BY <1>0 DEF Taken, OutKeys
  <2>2. /\ OutStream'
        /\ NoInit' <=> NoInit
        /\ OneInit' <=> OneInit
        /\ LastInit' <=> LastInit
    BY <1>0, <2>1, OutSame
  <2>3. /\ InStream' /\ RxInv' /\ PeerOrder' /\ Woken' /\ NeverGarbled'
        /\ \A m : LastTaken(m)' <=> LastTaken(m)
        /\ AllTaken' <=> AllTaken
        /\ Still' <=> Still
        /\ ReadBlock' = ReadBlock
    BY <1>0, <2>1, InSame
  <2>4. Types'
    BY <1>0 DEF TrInv, Types
  <2>5. Phase'
    <3>1. Asked' <=> Asked
      BY <1>0, <2>2 DEF Asked
    <3>2. Normal => Normal'
      BY <1>0, <2>2, <2>3 DEF Normal
    <3>3. Refused => Refused'
      BY <1>0, <2>2, <2>3 DEF Refused
    <3>4. Dead => Dead'
      BY <1>0, <2>3 DEF Dead
    <3>5. Offer => Offer'
      BY <1>0, <2>1, <2>2, <2>3 DEF Offer
    <3>6. Peer => Peer'
      BY <1>0, <2>1, <2>3, <3>1 DEF Peer
    <3>7. Newkeys => Newkeys'
      BY <1>0, <2>3, <3>1 DEF Newkeys
    <3>8. Await => Await'
      BY <1>0, <2>3, <3>1 DEF Await
    <3> QED
      BY <3>2, <3>3, <3>4, <3>5, <3>6, <3>7, <3>8 DEF TrInv, Phase
  <2> QED
    BY <2>2, <2>3, <2>4, <2>5 DEF TrInv
<1>2. WireStep
  BY <1>0 DEF WireStep, W!wireVars
<1> QED
  BY <1>1, <1>2

----------------------------------------------------------------------------

(* Every step of the transport keeps the invariant and is a step of the    *)
(* two queues or one they cannot see.                                      *)
LEMMA NextKeeps == TrInv /\ [TrNext]_trVars => TrInv' /\ WireStep
<1> SUFFICES ASSUME TrInv, [TrNext]_trVars PROVE TrInv' /\ WireStep
  OBVIOUS
<1>1. ASSUME NEW m \in UserMsgs, NEW n \in Takes, UserSend(m, n) PROVE TrInv' /\ WireStep
  BY <1>1, UserSendKeeps
<1>2. ASSUME NEW m \in UserMsgs, UserSendFails(m) PROVE TrInv' /\ WireStep
  BY <1>2, UserSendFailsKeeps
<1>3. ASSUME NEW k \in Gives, NEW n \in Takes, UserRead(k, n) PROVE TrInv' /\ WireStep
  BY <1>3, UserReadKeeps
<1>4. ASSUME NEW n \in Takes, UserResumes(n) PROVE TrInv' /\ WireStep
  BY <1>4, UserResumesKeeps
<1>5. ASSUME NEW n \in Takes, KexSend(n) PROVE TrInv' /\ WireStep
  BY <1>5, KexSendKeeps
<1>6. ASSUME NEW k \in Gives, NEW n \in Takes, KexRead(k, n) PROVE TrInv' /\ WireStep
  BY <1>6, KexReadKeeps
<1>7. CASE KexTakes
  BY <1>7, KexTakesKeeps
<1>8. CASE KexGivesUp
  BY <1>8, KexGivesUpKeeps
<1>9. CASE KexReadFails
  BY <1>9, KexReadFailsKeeps
<1>10. ASSUME NEW m \in PeerMsgs, PeerSpeaks(m) PROVE TrInv' /\ WireStep
  BY <1>10, PeerSpeaksKeeps
<1>11. CASE PeerKexinit
  BY <1>11, PeerKexinitKeeps
<1>12. CASE PeerNewkeys
  BY <1>12, PeerNewkeysKeeps
<1>13. CASE PeerOpens
  BY <1>13, PeerOpensKeeps
<1>14. CASE SocketBreaks
  BY <1>14, SocketBreaksKeeps
<1>15. CASE UNCHANGED trVars
  BY <1>15, StutterKeeps
<1> QED
  BY <1>1, <1>2, <1>3, <1>4, <1>5, <1>6, <1>7, <1>8, <1>9, <1>10, <1>11, <1>12,
     <1>13, <1>14, <1>15 DEF TrNext

(* However the socket cuts what transport_send() gives it and what         *)
(* transport_read() takes, and wherever an exchange of keys falls in it,   *)
(* the cells on their way are the packets handed over, in order, each      *)
(* sealed for the place at which it will be opened.                        *)
THEOREM Invariance == TrSpec => []TrInv
<1>1. TrSpec => TrInit /\ [][TrNext]_trVars
  BY PTL DEF TrSpec
<1> QED
  BY <1>1, InitKeeps, NextKeeps, PTL

(* transport_read() and the peer never meet a packet whose lengths or MAC  *)
(* do not fit: keys and sequence numbers change on both sides at the same  *)
(* place of the stream.                                                    *)
THEOREM NothingGarbled == TrSpec => []NeverGarbled
<1>1. TrInv => NeverGarbled
  BY DEF TrInv
<1> QED
  BY <1>1, Invariance, PTL

(* When transport_read() says EAGAIN there is no whole packet left in its  *)
(* buffer, so a caller that waits for the socket does not wait for what it *)
(* has.                                                                    *)
THEOREM NothingStaysHidden == TrSpec => []NothingHidden
<1>1. TrInv => NothingHidden
  <2> SUFFICES ASSUME TrInv, wants
               PROVE  IF rx.total # 0 THEN Len(buf) < rx.total - Len(rx.got)
                      ELSE buf = <<>> \/ Len(buf) < Len(CellsOf(buf[1].p))
    BY DEF NothingHidden
  <2>1. CASE rx.total # 0
    BY <2>1 DEF TrInv, RxInv, Collecting
  <2>2. CASE rx.total = 0 /\ buf # <<>>
    <3>1. Len(buf) < Size(buf[1].p)
      BY <2>2 DEF TrInv, Woken
    <3>2. buf[1].p \in Packet
      <4>1. buf \in Seq(Cell) /\ Len(buf) > 0
        BY <2>2, EmptySeq DEF TrInv, Types
      <4>2. buf[1] \in Cell
        BY <4>1, ElementOfSeq
      <4> QED
        BY <4>2 DEF Cell
    <3> QED
      BY <2>2, <3>1, <3>2, Pieced
  <2> QED
    BY <2>1, <2>2
<1> QED
  BY <1>1, Invariance, PTL

(* The transport is two queues of whole messages: each message handed to   *)
(* transport_send() arrives at most once, whole and in order, and so back. *)
THEOREM Implements == TrSpec => IsWireSafely
<1>1. TrInit => W!WireInit
  BY Queues DEF TrInit, W!WireInit
<1>2. TrSpec => TrInit /\ [][TrNext]_trVars
  BY PTL DEF TrSpec
<1>3. TrInv /\ [TrNext]_trVars => [W!WireNext]_(W!wireVars)
  BY NextKeeps DEF WireStep
<1> QED
  BY <1>1, <1>2, <1>3, Invariance, PTL DEF IsWireSafely, W!WireSafety

============================================================================
