----------------------------- MODULE Publickey -----------------------------
(***************************************************************************)
(* The public key subsystem (src/libssh2/src/publickey.c): a client of the *)
(* server's list of authorised keys, over a channel of its own.            *)
(*                                                                         *)
(* libssh2_publickey_init() opens the channel and agrees on a version;     *)
(* add, remove and list each send one request and read responses until the *)
(* status that ends it.  All of them share one receive state and one       *)
(* pointer to the packet being received.  Every function may be left with  *)
(* EAGAIN where the channel would block and goes on from its state when it *)
(* is called again; the keys that list_fetch() has gathered are locals and *)
(* do not survive that.                                                    *)
(*                                                                         *)
(* A response is its length and its body; a body names the request it      *)
(* answers, which the real one does not: that is what the properties are   *)
(* about.  The server is external.                                         *)
(***************************************************************************)
EXTENDS Integers, Sequences, FiniteSets, SequencesExt

CONSTANTS
  PkKeys,        \* the keys that can be authorised
  PkMaxRequests, \* bound on the requests of one behaviour
  PkTroubles     \* what may go wrong: "short" the window cuts a request,
                 \* "split" a response comes in two packets, "mix" a request
                 \* is made while another is unanswered, "unknown" a
                 \* response has a name publickey_response_codes lacks

ASSUME PkAssumption ==
  /\ PkMaxRequests \in Nat
  /\ PkTroubles \subseteq {"short", "split", "mix", "unknown"}

VARIABLES
  pk,        \* pkeyInit_* of the session and the LIBSSH2_PUBLICKEY
  pkServer,  \* the subsystem: its keys and the packet it is reading
  pkUp,      \* pieces of requests
  pkDown     \* pieces of responses

pkVars == <<pk, pkServer, pkUp, pkDown>>

PkOps == {"add", "remove", "list"}

NoResult == [op |-> "none", req |-> 0, ans |-> 0, ok |-> FALSE, keys |-> <<>>]

PkInit ==
  /\ pk = [init |-> "idle", handle |-> FALSE, chan |-> "none", version |-> 0,
           sent |-> 0, recv |-> "idle", packet |-> "null", listed |-> FALSE,
           twice |-> FALSE, op |-> [o \in PkOps |-> "idle"],
           req |-> [o \in PkOps |-> 0], key |-> [o \in PkOps |-> 0],
           keys |-> <<>>, n |-> 0, result |-> NoResult, failed |-> FALSE]
  /\ pkServer = [keys |-> {}, eof |-> FALSE, hello |-> <<>>, told |-> <<>>]
  /\ pkUp = <<>>
  /\ pkDown = <<>>

Body(kind, n, v) == [kind |-> kind, n |-> n, v |-> v]
Length == Body("length", 0, 0)
Half == Body("half", 0, 0)

(* A response, as one packet of channel data or cut in two.                *)
Response(b) == {<<Length, b>>} \cup
               (IF "split" \in PkTroubles THEN {<<Length, Half, b>>} ELSE {})

----------------------------------------------------------------------------
(* publickey_packet_receive()                                              *)

(* The length is read and a buffer allocated.                              *)
PkReceiveLength ==
  /\ pk.recv = "idle" /\ pkDown # <<>> /\ Head(pkDown) = Length
  /\ pk' = [pk EXCEPT !.recv = "sent", !.packet = "held"]
  /\ pkDown' = Tail(pkDown)
  /\ UNCHANGED <<pkServer, pkUp>>

(* The body is read: the buffer goes to the caller, and receive_packet     *)
(* still points to it.  Take is the state after the caller is done.        *)
PkReceiveBody(p, Take(_, _)) ==
  /\ p.recv = "sent" /\ pkDown # <<>> /\ Head(pkDown) # Half
  /\ pk' = Take([p EXCEPT !.recv = "idle", !.packet = "given"], Head(pkDown))
  /\ pkDown' = Tail(pkDown)
  /\ UNCHANGED <<pkServer, pkUp>>

(* A read that is shorter than asked, or finds the end of the channel, is  *)
(* an error; what was read is lost.  The rest of a packet is then taken    *)
(* for the length of the next, and fails in its turn.                      *)
PkReceiveError(Fail(_)) ==
  \/ /\ pk.recv = "idle" /\ pkDown # <<>> /\ Head(pkDown) # Length
     /\ pk' = Fail(pk)
     /\ pkDown' = Tail(pkDown)
     /\ UNCHANGED <<pkServer, pkUp>>
  \/ /\ pk.recv = "sent" /\ pkDown # <<>> /\ Head(pkDown) = Half
     /\ pk' = Fail([pk EXCEPT !.recv = "idle", !.packet = "null"])
     /\ pkDown' = Tail(pkDown)
     /\ UNCHANGED <<pkServer, pkUp>>
  \/ /\ pkDown = <<>> /\ pkServer.eof
     /\ pk' = Fail([pk EXCEPT !.recv = "idle", !.packet =
                      IF pk.recv = "sent" THEN "null" ELSE @])
     /\ UNCHANGED <<pkServer, pkUp, pkDown>>

(* The caller frees the packet it was handed; receive_packet dangles.      *)
FreePacket(p) == [p EXCEPT !.packet = "dangling"]

----------------------------------------------------------------------------
(* libssh2_publickey_init()                                                *)

InitFailed(p) == [p EXCEPT !.init = "sent4"]

PkStart ==
  /\ pk.init = "idle" /\ ~pk.handle /\ ~pk.failed
  /\ pk' = [pk EXCEPT !.init = "allocated"]
  /\ UNCHANGED <<pkServer, pkUp, pkDown>>

PkOpen ==
  /\ pk.init = "allocated"
  /\ pk' \in {[pk EXCEPT !.init = "sent", !.chan = "open"], InitFailed(pk)}
  /\ UNCHANGED <<pkServer, pkUp, pkDown>>

PkStartup ==
  /\ pk.init = "sent"
  /\ pk' \in {[pk EXCEPT !.init = "sent1"], InitFailed(pk)}
  /\ UNCHANGED <<pkServer, pkUp, pkDown>>

PkAllocate ==
  /\ pk.init = "sent1"
  /\ pk' = [pk EXCEPT !.init = "sent2", !.handle = TRUE, !.sent = 0]
  /\ UNCHANGED <<pkServer, pkUp, pkDown>>

(* The version packet is two pieces, 1 and 2.  After a short write the     *)
(* rest is taken from the beginning of the buffer again.                   *)
PkVersion ==
  /\ pk.init = "sent2"
  /\ \/ /\ pk' = [pk EXCEPT !.sent = 2, !.init = "sent3"]
        /\ pkUp' = pkUp \o [i \in 1..(2 - pk.sent) |-> Body("hello", i, 0)]
     \/ /\ "short" \in PkTroubles /\ pk.sent = 0
        /\ pk' = [pk EXCEPT !.sent = 1]
        /\ pkUp' = Append(pkUp, Body("hello", 1, 0))
     \/ /\ pk' = InitFailed(pk)
        /\ UNCHANGED pkUp
  /\ UNCHANGED <<pkServer, pkDown>>

InitTake(p, b) ==
  IF b.kind = "version"
  THEN [FreePacket(p) EXCEPT !.init = "idle",
                             !.version = IF b.v > 2 THEN 2 ELSE b.v]
  ELSE IF b.kind \in {"status", "unknown"} THEN InitFailed(FreePacket(p))
  ELSE FreePacket(p)

PkAgree ==
  /\ pk.init = "sent3"
  /\ \/ PkReceiveLength
     \/ PkReceiveBody(pk, InitTake)
     \/ PkReceiveError(InitFailed)

(* err_exit: the channel is closed, which may take several calls; it is    *)
(* not freed.                                                              *)
PkInitExit ==
  /\ pk.init = "sent4"
  /\ pk' = [pk EXCEPT !.init = "idle", !.handle = FALSE, !.failed = TRUE,
                      !.chan = IF @ = "open" THEN "closed" ELSE @]
  /\ UNCHANGED <<pkServer, pkUp, pkDown>>

----------------------------------------------------------------------------
(* add, remove and list                                                    *)

Ready == pk.handle /\ pk.init = "idle"

(* No call of the function is under way.                                   *)
Settled(o) == pk.op[o] \in {"idle", "lost"}

(* The packet is built.  One request at a time is answered in order; with  *)
(* two there is no telling.                                                *)
PkRequest(o, k) ==
  /\ Ready /\ pk.op[o] = "idle" /\ pk.n < PkMaxRequests
  /\ "mix" \in PkTroubles \/ \A x \in PkOps : Settled(x)
  /\ pk' = [pk EXCEPT !.op[o] = "created", !.key[o] = k, !.keys = <<>>,
                      !.n = @ + 1, !.req[o] = pk.n + 1, !.result = NoResult]
  /\ UNCHANGED <<pkServer, pkUp, pkDown>>

(* The call fails in its write: remove and list are idle again, but add    *)
(* stays in state created with its packet freed, which is "lost" here: the *)
(* next add would write from NULL.                                         *)
SendFails(p, o) == [p EXCEPT !.op[o] = IF o = "add" THEN "lost" ELSE "idle",
                             !.result = NoResult]

(* The packet is written; or the write fails on a channel that is gone; or *)
(* it is cut short, which is taken for a failure as well.                  *)
PkSend(o) ==
  /\ Ready /\ pk.op[o] = "created"
  /\ \/ /\ pk' = [pk EXCEPT !.op[o] = "sent"]
        /\ pkUp' = Append(pkUp, Body(o, pk.req[o], pk.key[o]))
     \/ /\ pkServer.eof
        /\ pk' = SendFails(pk, o)
        /\ UNCHANGED pkUp
     \/ /\ "short" \in PkTroubles
        /\ pk' = SendFails(pk, o)
        /\ pkUp' = Append(pkUp, Body("cut", pk.req[o], 0))
  /\ UNCHANGED <<pkServer, pkDown>>

Finished(p, o, b) ==
  [p EXCEPT !.op[o] = "idle",
            !.result = [op |-> o, req |-> p.req[o], ans |-> b.n, ok |-> b.v = 0,
                        keys |-> IF o = "list" /\ b.v = 0 THEN p.keys ELSE <<>>],
            !.listed = o = "list" /\ b.v = 0 /\ p.keys # <<>>]

(* A bug: an unexpected response ends the request as well.                 *)
HastyTake(p, o, b) == FreePacket(Finished(p, o, b))

(* The function gives the request up, with an error of its own making.     *)
Gave(p, o) == Finished(p, o, Body("status", p.req[o], 1))

(* publickey_response_success(): a status ends the request.  A response of *)
(* a name that publickey_response_codes lacks ends it as well, with an     *)
(* error, and its status is still to come; one of a known name that is     *)
(* only unexpected here is skipped.                                        *)
SuccessTake(p, o, b) ==
  CASE b.kind = "status"  -> FreePacket(Finished(p, o, b))
    [] b.kind = "unknown" -> FreePacket(Gave(p, o))
    [] OTHER              -> FreePacket(p)

(* list_fetch(): a key is kept with its packet.                            *)
ListTake(p, b) ==
  CASE b.kind = "key"     -> [p EXCEPT !.keys = Append(@, b)]
    [] b.kind = "status"  -> FreePacket(Finished(p, "list", b))
    [] b.kind = "unknown" -> FreePacket(Gave(p, "list"))
    [] OTHER              -> FreePacket(p)

PkAnswer(o) ==
  /\ Ready /\ pk.op[o] = "sent"
  /\ \/ PkReceiveLength
     \/ PkReceiveBody(pk, LAMBDA p, b : IF o = "list" THEN ListTake(p, b)
                                                     ELSE SuccessTake(p, o, b))
     \/ PkReceiveError(LAMBDA p : Gave(p, o))

(* Nothing more has come: EAGAIN, in blocking mode too.  The list and the  *)
(* number of its keys were locals of the call.                             *)
PkWouldBlock ==
  /\ Ready /\ pk.op["list"] = "sent" /\ pkDown = <<>> /\ pk.keys # <<>>
  /\ pk' = [pk EXCEPT !.keys = <<>>]
  /\ UNCHANGED <<pkServer, pkUp, pkDown>>

(* libssh2_publickey_list_free(): the packets of the list are freed.       *)
PkListFree ==
  /\ Ready /\ pk.listed
  /\ pk' = [pk EXCEPT !.listed = FALSE]
  /\ UNCHANGED <<pkServer, pkUp, pkDown>>

(* libssh2_publickey_shutdown(): receive_packet is freed if it is set; the *)
(* channel is freed, then the handle.                                      *)
PkShutdown ==
  /\ Ready /\ \A o \in PkOps : Settled(o)
  /\ pk' = [pk EXCEPT !.twice = pk.packet = "dangling", !.packet = "null",
                      !.handle = FALSE, !.chan = "freed", !.failed = TRUE]
  /\ UNCHANGED <<pkServer, pkUp, pkDown>>

----------------------------------------------------------------------------
(* The subsystem                                                           *)

(* What may come ahead of a response: one of a name the client knows but   *)
(* does not wait for at this point (a version after a request, a key       *)
(* before the version), and in trouble one of a name it does not know.     *)
Odd ==
  {<<>>, <<Length, Body("unexpected", 0, 0)>>} \cup
  (IF "unknown" \in PkTroubles THEN {<<Length, Body("unknown", 0, 0)>>} ELSE {})

Says(b) == \E r \in Response(b), odd \in Odd : pkDown' = pkDown \o odd \o r

(* The keys of a list, in some order, and the status.                      *)
SaysKeys(n, ks) ==
  \E s \in SetToSeqs(ks) :
    /\ pkDown' = pkDown \o
         [i \in 1..2 * Len(s) |-> IF i % 2 = 1 THEN Length ELSE Body("key", n, s[i \div 2])]
    /\ pkServer' = [pkServer EXCEPT !.told = s]

ServerHello ==
  /\ pkUp # <<>> /\ Head(pkUp).kind = "hello" /\ pkServer.hello = <<>>
  /\ Len(pkUp) >= 2
  /\ pkServer' = [pkServer EXCEPT !.hello = <<pkUp[1], pkUp[2]>>]
  /\ pkUp' = Tail(Tail(pkUp))
  /\ \/ \E v \in 1..3 : Says(Body("version", 0, v))
     \/ Says(Body("status", 0, 1))
     \/ Says(Body("unknown", 0, 0))
  /\ UNCHANGED pk

ServerAnswers ==
  /\ pkUp # <<>> /\ Head(pkUp).kind \in {"add", "remove"}
  /\ LET b  == Head(pkUp)
         ok == (b.kind = "add") # (b.v \in pkServer.keys)
     IN  /\ pkServer' = [pkServer EXCEPT !.keys =
              IF ~ok THEN @ ELSE IF b.kind = "add" THEN @ \cup {b.v} ELSE @ \ {b.v}]
         /\ Says(Body("status", b.n, IF ok THEN 0 ELSE 1))
  /\ pkUp' = Tail(pkUp)
  /\ UNCHANGED pk

ServerLists ==
  /\ pkUp # <<>> /\ Head(pkUp).kind = "list"
  /\ SaysKeys(Head(pkUp).n, pkServer.keys)
  /\ pkUp' = <<Body("listed", Head(pkUp).n, 0)>> \o Tail(pkUp)
  /\ UNCHANGED pk

ServerListed ==
  /\ pkUp # <<>> /\ Head(pkUp).kind = "listed"
  /\ Says(Body("status", Head(pkUp).n, 0))
  /\ pkUp' = Tail(pkUp)
  /\ UNCHANGED <<pk, pkServer>>

ServerGone ==
  /\ ~pkServer.eof /\ pk.chan # "none"
  /\ pkServer' = [pkServer EXCEPT !.eof = TRUE]
  /\ pkUp' = <<>>
  /\ UNCHANGED <<pk, pkDown>>

----------------------------------------------------------------------------
PkInitStep ==
  \/ PkStart \/ PkOpen \/ PkStartup \/ PkAllocate \/ PkVersion \/ PkAgree \/ PkInitExit

PkOpStep ==
  \/ \E o \in PkOps : PkSend(o) \/ PkAnswer(o)
  \/ PkWouldBlock

PkServerStep ==
  /\ ~pkServer.eof
  /\ ServerHello \/ ServerAnswers \/ ServerLists \/ ServerListed

PkNext ==
  \/ PkInitStep
  \/ \E o \in PkOps, k \in PkKeys : PkRequest(o, k)
  \/ PkOpStep
  \/ PkListFree \/ PkShutdown
  \/ PkServerStep
  \/ ServerGone

PkFairness == WF_pkVars(PkInitStep) /\ WF_pkVars(PkOpStep) /\ WF_pkVars(PkServerStep)

PkSpec == PkInit /\ [][PkNext]_pkVars /\ PkFairness

----------------------------------------------------------------------------
(* The verdict a request returns is the server's verdict on that request,  *)
(* or an error of the client's own: the responses carry no request number, *)
(* so this rests on every response of an earlier request having been taken *)
(* before the next one is sent, the unexpected ones included.  A response  *)
(* of an unknown name (publickey.c:279-282, 882-888) breaks it.            *)
(* The keys list_fetch() returns are the last of those the server listed   *)
(* for this request, in the server's order: none is repeated, foreign or   *)
(* out of place, though the first may be missing after an EAGAIN.          *)
VerdictIsOwn ==
  LET r == pk.result
      t == pkServer.told
  IN  /\ r.op # "none" => r.ans = r.req
      /\ r.op = "list" /\ r.ok =>
           /\ Len(r.keys) <= Len(t)
           /\ \A i \in 1..Len(r.keys) :
                r.keys[i] = Body("key", r.req, t[Len(t) - Len(r.keys) + i])

(* Shutting the subsystem down frees no packet that its receiver freed     *)
(* before.                                                                 *)
FreedOnce == ~pk.twice

(* Every request that was begun comes to a verdict or fails in its write,  *)
(* and every init to a handle or an error.  A failed write leaves an add   *)
(* where the next one cannot begin (publickey.c:706-711).                  *)
RequestEnds ==
  /\ \A o \in PkOps : ~Settled(o) ~> Settled(o)
  /\ (pk.init # "idle") ~> (pk.init = "idle")
============================================================================
