----------------------------- MODULE Connection -----------------------------
(***************************************************************************)
(* Many channels on one session: how channels, listeners and requests of   *)
(* libssh2 share one connection (channel.c: open, forward_*, the requests  *)
(* on a channel; packet.c: packet_queue_listener(), packet_askv(),         *)
(* packet_requirev(); keepalive.c).                                        *)
(*                                                                         *)
(* As in Channel, pc is where the client's one thread stands and a call    *)
(* that gets EAGAIN is entered again from the top.  What is shared is the  *)
(* point here: the one half-sent packet (odata), the one queue of received *)
(* replies (brigade), the ids and the packets anyone may receive for       *)
(* anyone.  A request and its answer carry the same tag, which no action   *)
(* of the client reads.                                                    *)
(***************************************************************************)
EXTENDS Integers, Sequences, FiniteSets

CONSTANTS
    Ports,        \* the addresses listeners bind
    QueueMax,     \* queue_maxsize of a listener, 0 for no limit
    Kinds,        \* the requests made on a channel
    Ops,          \* the calls the application makes
    Blocking,     \* session->api_block_mode
    MayBlock,     \* the socket's send buffer may be full
    MayTimeout,   \* a wait may last too long
    OneRequest,   \* the application finishes a request on a channel before the next one
    WantReply,    \* session->keepalive_want_reply
    MaxTags,      \* bounds: requests the client builds
    MaxForwards   \* and connections the peer forwards

AllKinds == {"env", "pty", "x11", "agent", "process"}
AllOps == {"open", "listen", "request", "resize", "accept", "cancel", "free", "keepalive"}

ASSUME ConnectionAssumption ==
    /\ QueueMax \in Nat /\ MaxTags \in Nat /\ MaxForwards \in Nat
    /\ Kinds \subseteq AllKinds /\ Ops \subseteq AllOps
    /\ {Blocking, MayBlock, MayTimeout, OneRequest, WantReply} \subseteq BOOLEAN
    /\ Ports \subseteq Nat /\ IsFiniteSet(Ports)

Ids == 0..(MaxTags + MaxForwards)

VARIABLES
    \* the LIBSSH2_SESSION: channels, the next id, listeners and their queues
    channels, next_channel, listeners, queue, queue_size,
    \* received replies, packet_add()'s state for a forwarded connection, the half-sent packet
    brigade, packAdd, odata,
    \* the state and packet of every exchange of a request for a reply, the state of
    \* cancelling a listener and of closing a channel
    exchange, agent_try, chanFwdCncl_state, close_state, remote_close,
    \* the running call, the rest of the queue that a cancel will free, the last answer
    pc, call, more, answer,
    \* connection and peer
    toPeer, toClient, peerChans, peerListens, tags, forwards

sessVars == <<channels, next_channel, listeners, queue, queue_size>>
recvVars == <<brigade, packAdd, remote_close, toClient>>
netVars == <<odata, toPeer>>
stateVars == <<exchange, agent_try, chanFwdCncl_state, close_state>>
callVars == <<pc, call, more, answer>>
peerVars == <<peerChans, peerListens, forwards>>
vars == <<sessVars, recvVars, netVars, stateVars, callVars, peerVars, tags>>

NoPacket == [kind |-> "none", at |-> 0, tag |-> 0]
NoCall == [op |-> "none", at |-> 0, kind |-> "none"]
NoAnswer == [asked |-> 0, got |-> 0]
Idle == [state |-> "idle", packet |-> NoPacket]
Resting == [point |-> "idle", state |-> "idle", at |-> 0, tag |-> 0, conf |-> NoPacket]

----------------------------------------------------------------------------
(* The transport layer as its callers see it. *)

\* send_existing() compares address and length.  Every packet has a buffer of its own,
\* but the two answers to a forwarded connection are always built in the same one; a
\* keepalive is built on the stack and may not be recognised.
SameBuffer(m) == \/ odata = m
                 \/ odata.kind = m.kind /\ m.kind \in {"confirm", "refuse", "keepalive"}

TransportSend(m, rc) ==
    \/ /\ odata # NoPacket
       /\ ~SameBuffer(m) \/ m.kind = "keepalive"
       /\ rc = "BAD_USE"
       /\ UNCHANGED netVars
    \/ /\ odata = NoPacket \/ SameBuffer(m)
       /\ LET x == IF odata = NoPacket THEN m ELSE odata
          IN  \/ /\ rc = "ok"
                 /\ toPeer' = Append(toPeer, x)
                 /\ odata' = NoPacket
              \/ /\ MayBlock
                 /\ rc = "EAGAIN"
                 /\ odata' = x
                 /\ UNCHANGED toPeer

SendResults == {"ok", "EAGAIN", "BAD_USE"}

----------------------------------------------------------------------------
(* Ids and the channels they belong to. *)

\* Mutant: one more than the ids of the session's channels, which are not all there are.
NextIdOfChannels == CHOOSE i \in Ids : i \notin channels /\ \A j \in Ids : j < i => j \in channels

\* _libssh2_channel_nextid()
NextId == CHOOSE i \in channels \cup {next_channel} : \A j \in channels \cup {next_channel} : j <= i

Queued(p) == {queue[p][i] : i \in DOMAIN queue[p]}

\* _libssh2_channel_locate()
Located(id) == id \in channels \/ \E p \in listeners : id \in Queued(p)

----------------------------------------------------------------------------
(* _libssh2_packet_add() *)

\* Mutant: a limit of n lets n + 1 wait.
QueueFullLate(p) == QueueMax # 0 /\ QueueMax < queue_size[p]

QueueFull(p) == QueueMax # 0 /\ QueueMax <= queue_size[p]

\* The confirmation is sent.  linked is the channel listen_state->channel points to.
Confirm(p, conf, linked) ==
    \E s \in SendResults :
        /\ TransportSend(conf, s)
        /\ UNCHANGED <<channels, listeners>>
        /\ \/ /\ s = "ok"
              /\ queue' = [queue EXCEPT ![p] = @ \o linked]
              /\ queue_size' = [queue_size EXCEPT ![p] = @ + Len(linked)]
              /\ packAdd' = Resting
           \/ /\ s = "EAGAIN"
              /\ packAdd' = [packAdd EXCEPT !.point = "jump2", !.state = "created",
                                            !.at = p, !.tag = conf.tag, !.conf = conf]
              /\ UNCHANGED <<queue, queue_size>>
           \/ /\ s = "BAD_USE"
              /\ packAdd' = Resting
              /\ UNCHANGED <<queue, queue_size>>

\* Mutant: the channel is never linked into the queue.
AdmitUnlinked(p, tag) ==
    /\ p \in listeners /\ ~QueueFull(p)
    /\ next_channel' = NextId + 1
    /\ Confirm(p, [kind |-> "confirm", at |-> NextId, tag |-> tag], <<>>)

\* packet_queue_listener() on a fresh connection for a listener that has room.
Admit(p, tag) ==
    /\ p \in listeners /\ ~QueueFull(p)
    /\ next_channel' = NextId + 1
    /\ Confirm(p, [kind |-> "confirm", at |-> NextId, tag |-> tag], <<NextId>>)

\* Entered again it has forgotten the channel: listen_state->channel is NULL.
AdmitResumed ==
    /\ packAdd.state = "created" /\ packAdd.at \in listeners
    /\ Confirm(packAdd.at, packAdd.conf, <<>>)
    /\ UNCHANGED next_channel

\* "We're not listening to you", or no longer, or the queue is full.
Refuse(p, tag) ==
    /\ \E s \in SendResults :
         /\ TransportSend([kind |-> "refuse", at |-> 0, tag |-> tag], s)
         /\ packAdd' = IF s = "EAGAIN"
                       THEN [packAdd EXCEPT !.point = "jump2", !.state = "sent",
                                            !.at = p, !.tag = tag]
                       ELSE Resting
    /\ UNCHANGED sessVars

QueueListener ==
    \/ /\ packAdd.point = "idle"
       /\ LET m == Head(toClient)
          IN  \/ Admit(m.at, m.tag)
              \/ (m.at \notin listeners \/ QueueFull(m.at)) /\ Refuse(m.at, m.tag)
    \/ /\ packAdd.point = "jump2"
       /\ \/ AdmitResumed
          \/ /\ packAdd.state = "sent" \/ packAdd.at \notin listeners
             /\ Refuse(packAdd.at, packAdd.tag)

Replies == {"opened", "open_failed", "success", "failure", "granted", "denied"}

\* One call of _libssh2_transport_read(): the type of the packet that was received,
\* "EAGAIN" or "error".  A reply joins the brigade.
TransportRead(got) ==
    \/ /\ packAdd.point = "idle" /\ toClient = <<>>
       /\ got = "EAGAIN"
       /\ UNCHANGED <<sessVars, recvVars, netVars>>
    \/ /\ packAdd.point = "idle" /\ toClient # <<>>
       /\ got = Head(toClient).kind
       /\ \/ /\ got \in Replies
             /\ brigade' = Append(brigade, Head(toClient))
             /\ UNCHANGED remote_close
          \/ /\ got = "closed"
             /\ remote_close' = remote_close \cup {i \in {Head(toClient).at} : Located(i)}
             /\ UNCHANGED brigade
       /\ toClient' = Tail(toClient)
       /\ UNCHANGED <<sessVars, netVars, packAdd>>
    \/ /\ \/ packAdd.point = "jump2" /\ UNCHANGED toClient
          \/ /\ packAdd.point = "idle" /\ toClient # <<>>
             /\ Head(toClient).kind = "forward"
             /\ toClient' = Tail(toClient)
       /\ QueueListener
       /\ got = IF packAdd'.point = "jump2" THEN "EAGAIN"
                ELSE IF odata' = NoPacket THEN "forward" ELSE "error"
       /\ UNCHANGED <<brigade, remote_close>>

ReadResults == Replies \cup {"closed", "forward", "EAGAIN", "error"}

----------------------------------------------------------------------------
(* How a call begins and ends. *)

Calling(op) == pc = "app" /\ op \in Ops

Start(op, at, kind) ==
    /\ pc' = op
    /\ call' = [op |-> op, at |-> at, kind |-> kind]
    /\ answer' = NoAnswer
    /\ UNCHANGED <<sessVars, recvVars, netVars, stateVars, peerVars, more, tags>>

\* got is the reply that decided the result, if one did.
Return(asked, got) ==
    /\ pc' = "app" /\ call' = NoCall
    /\ answer' = [asked |-> asked, got |-> got]

Stay == UNCHANGED <<pc, call, answer>>

\* BLOCK_ADJUST and the first part of _libssh2_wait_socket().
Again ==
    \/ Blocking /\ pc' = "wait" /\ UNCHANGED <<call, answer>>
    \/ ~Blocking /\ Return(0, 0)

\* libssh2_keepalive_send(): EAGAIN is ignored.
CallKeepalive ==
    /\ Calling("keepalive") /\ tags < MaxTags
    /\ tags' = tags + 1
    /\ \E s \in SendResults :
         TransportSend([kind |-> "keepalive", at |-> 0, tag |-> tags'], s)
    /\ UNCHANGED <<sessVars, recvVars, stateVars, callVars, peerVars>>

----------------------------------------------------------------------------
(* A request and its reply: _libssh2_channel_open(), channel_forward_listen() *)
(* and the requests on a channel, each a state machine of its own.            *)

\* The replies that end it, the good one first; whether it looks at the channel they are
\* for; whether it stops when the packet cannot be sent at once; where it ends.
Open == [replies |-> <<"opened", "open_failed">>, matches |-> TRUE,
         stops |-> TRUE, end |-> "idle"]
Listen == [replies |-> <<"granted", "denied">>, matches |-> FALSE,
           stops |-> TRUE, end |-> "idle"]
Setenv == [replies |-> <<"success", "failure">>, matches |-> TRUE,
           stops |-> TRUE, end |-> "idle"]
Pty == [replies |-> <<"success", "failure">>, matches |-> TRUE, stops |-> TRUE, end |-> "idle"]
X11 == [replies |-> <<"success", "failure">>, matches |-> TRUE, stops |-> TRUE, end |-> "idle"]
Agent == [replies |-> <<"success", "failure">>, matches |-> TRUE,
          stops |-> FALSE, end |-> "idle"]
Process == [replies |-> <<"success", "failure">>, matches |-> TRUE,
            stops |-> TRUE, end |-> "end"]

Machine(k) == CASE k = "open" -> Open [] k = "listen" -> Listen [] k = "env" -> Setenv
                [] k = "pty" -> Pty [] k = "x11" -> X11 [] k = "agent" -> Agent
                [] k = "process" -> Process

\* open_state and fwdLstn_state belong to the session, the others to a channel.
Exchanges == {<<"open", 0>>, <<"listen", 0>>} \cup (Kinds \X Ids)
Mine == IF call.kind \in {"open", "listen"} THEN <<call.kind, 0>> ELSE <<call.kind, call.at>>
Asked == exchange[Mine].packet

Opening == exchange[<<"open", 0>>]
Listening == exchange[<<"listen", 0>>]

\* The channels the application has in its hands, and whether it may make a request on one.
Held == {c \in channels : Opening.state = "idle" \/ Opening.packet.at # c}
Running == {x \in Kinds \X Ids : exchange[x].state \notin {"idle", "end"}}
MayRequest(op, c, k) ==
    /\ c \in Held /\ close_state[c] = "idle"
    /\ OneRequest => \A x \in Running : x = <<k, c>> /\ exchange[x].packet.kind = op

\* A call that got EAGAIN is made again with the same arguments.  A process is started
\* only once on a channel.
CallOpen ==
    /\ Calling("open") /\ (Opening.state # "idle" \/ tags < MaxTags)
    /\ Start("open", 0, "open")
CallListen(p) ==
    /\ Calling("listen") /\ p \notin listeners
    /\ IF Listening.state = "idle" THEN tags < MaxTags ELSE Listening.packet.at = p
    /\ Start("listen", p, "listen")
CallRequest(c, k) ==
    /\ Calling("request") /\ MayRequest("request", c, k)
    /\ exchange[<<k, c>>].state # "end"
    /\ exchange[<<k, c>>].state # "idle" \/ tags < MaxTags
    /\ agent_try[c] # "sent1" \/ k # "agent"
    /\ Start("request", c, k)

AtExchange == pc \in {"open", "listen", "request"}

\* Build the packet; an open also makes its channel.
Build ==
    /\ AtExchange /\ exchange[Mine].state = "idle"
    /\ tags' = tags + 1
    /\ LET at == IF call.op = "open" THEN NextId ELSE call.at
       IN  /\ exchange' = [exchange EXCEPT ![Mine] =
                             [state |-> "created",
                              packet |-> [kind |-> call.op, at |-> at, tag |-> tags']]]
           /\ \/ /\ call.op = "open"
                 /\ channels' = channels \cup {at}
                 /\ next_channel' = at + 1
                 /\ UNCHANGED <<listeners, queue, queue_size>>
              \/ call.op # "open" /\ UNCHANGED sessVars
    /\ UNCHANGED <<recvVars, netVars, agent_try, chanFwdCncl_state, close_state,
                   callVars, peerVars>>

\* libssh2_channel_request_auth_agent() tries a second name when the first fails.
Leave(good, asked, got) ==
    \/ /\ call.kind # "agent"
       /\ Return(asked, got)
       /\ UNCHANGED agent_try
    \/ /\ call.kind = "agent" /\ (good \/ agent_try[call.at] # "idle")
       /\ Return(asked, got)
       /\ agent_try' = [agent_try EXCEPT ![call.at] = IF good THEN "idle" ELSE "sent1"]
    \/ /\ call.kind = "agent" /\ ~good /\ agent_try[call.at] = "idle"
       /\ pc' = "request" /\ UNCHANGED <<call, answer>>
       /\ agent_try' = [agent_try EXCEPT ![call.at] = "sent"]

\* The exchange is over: idle again, or "end" for a process, which a channel starts
\* only once.  got is the tag of the reply that decided, 0 for an error.
Over(good, got) ==
    /\ exchange' = [exchange EXCEPT ![Mine] =
                      [Idle EXCEPT !.state = Machine(call.kind).end]]
    /\ Leave(good, Asked.tag, got)
    /\ UNCHANGED <<chanFwdCncl_state, close_state>>

\* A channel that was not opened goes, a listener that was granted comes.
Outcome(good) ==
    /\ channels' = IF call.op = "open" /\ ~good THEN channels \ {Asked.at} ELSE channels
    /\ listeners' = IF call.op = "listen" /\ good THEN listeners \cup {call.at} ELSE listeners
    /\ queue' = IF call.op = "listen" /\ good THEN [queue EXCEPT ![call.at] = <<>>] ELSE queue
    /\ queue_size' = IF call.op = "listen" /\ good THEN [queue_size EXCEPT ![call.at] = 0]
                     ELSE queue_size
    /\ UNCHANGED next_channel

\* Mutant: EAGAIN is taken for a packet that was sent.
SentAnyway(s) == s # "BAD_USE"

\* channel_request_auth_agent() does not stop at EAGAIN.
TakenAsSent(s) == s = "ok" \/ (s = "EAGAIN" /\ ~Machine(call.kind).stops)

SendRequest ==
    /\ AtExchange /\ exchange[Mine].state = "created"
    /\ \E s \in SendResults :
         /\ TransportSend(Asked, s)
         /\ \/ /\ TakenAsSent(s)
               /\ exchange' = [exchange EXCEPT ![Mine].state = "sent"]
               /\ Stay
               /\ UNCHANGED <<sessVars, agent_try, chanFwdCncl_state, close_state>>
            \/ /\ s = "EAGAIN" /\ ~TakenAsSent(s)
               /\ Again
               /\ UNCHANGED <<sessVars, stateVars>>
            \/ /\ s = "BAD_USE"
               /\ pc' = "fail"
               /\ UNCHANGED <<call, answer, sessVars, stateVars>>
    /\ UNCHANGED <<recvVars, peerVars, more, tags>>

\* No reply, or none that is ours.
Fail ==
    /\ pc = "fail"
    /\ Over(FALSE, 0)
    /\ Outcome(FALSE)
    /\ UNCHANGED <<recvVars, netVars, peerVars, more, tags>>

\* What _libssh2_packet_askv() looks for.
Good == Machine(call.kind).replies[1]

\* Mutant: a refusal is not waited for.
WantedGood == {Machine(call.kind).replies[1]}

Wanted == {Machine(call.kind).replies[1], Machine(call.kind).replies[2]}

Matches(m) == m.kind \in Wanted /\ (Machine(call.kind).matches => m.at = Asked.at)

Found == {i \in DOMAIN brigade : Matches(brigade[i])}

\* _libssh2_packet_askv(): the first of a good type, else the first of a bad one.
Best(i) == /\ i \in Found
           /\ \A j \in Found :
                \/ brigade[i].kind = brigade[j].kind /\ i <= j
                \/ brigade[i].kind = Good /\ brigade[j].kind # Good

\* Mutant: the packet stays where it is.
WithoutNone(i) == brigade

\* _libssh2_packet_ask(): the packet is unlinked.
Without(i) == SubSeq(brigade, 1, i - 1) \o SubSeq(brigade, i + 1, Len(brigade))

Ask ==
    /\ AtExchange /\ exchange[Mine].state = "sent"
    /\ \/ \E i \in DOMAIN brigade :
            /\ Best(i)
            /\ brigade' = Without(i)
            /\ Over(brigade[i].kind = Good, brigade[i].tag)
            /\ Outcome(brigade[i].kind = Good)
       \/ /\ Found = {}
          /\ pc' = "read"
          /\ UNCHANGED <<brigade, sessVars, stateVars, call, answer>>
    /\ UNCHANGED <<packAdd, remote_close, toClient, netVars, peerVars, more, tags>>

\* The loop of _libssh2_packet_requirev().  A packet of the right type for another
\* channel is an error.
ReadReply ==
    /\ pc = "read"
    /\ \/ /\ packAdd.point = "idle" /\ toClient # <<>> /\ Matches(Head(toClient))
          /\ toClient' = Tail(toClient)
          /\ Over(Head(toClient).kind = Good, Head(toClient).tag)
          /\ Outcome(Head(toClient).kind = Good)
          /\ UNCHANGED <<brigade, packAdd, remote_close, netVars>>
       \/ /\ ~(packAdd.point = "idle" /\ toClient # <<>> /\ Matches(Head(toClient)))
          /\ \E got \in ReadResults :
               /\ TransportRead(got)
               /\ \/ got \notin Wanted \cup {"EAGAIN", "error"} /\ Stay
                  \/ got = "EAGAIN" /\ Again
                  \/ /\ \/ got \in Wanted \cup {"error"}
                        \/ got = "EAGAIN" /\ MayTimeout
                     /\ pc' = "fail" /\ UNCHANGED <<call, answer>>
          /\ UNCHANGED stateVars
    /\ UNCHANGED <<peerVars, more, tags>>

\* _libssh2_wait_socket(): a keepalive may be due, and if it cannot be sent the call
\* fails.  Then the function is entered again, unless the time is up; its state is kept.
WaitSocket ==
    /\ pc = "wait"
    /\ \/ /\ pc' = call.op
          /\ UNCHANGED <<call, answer, netVars, tags, agent_try>>
       \/ /\ MayTimeout
          /\ Leave(FALSE, 0, 0)
          /\ UNCHANGED <<netVars, tags>>
       \/ /\ "keepalive" \in Ops /\ tags < MaxTags
          /\ tags' = tags + 1
          /\ \E s \in SendResults :
               /\ TransportSend([kind |-> "keepalive", at |-> 0, tag |-> tags'], s)
               /\ \/ s = "BAD_USE" /\ Leave(FALSE, 0, 0)
                  \/ /\ s # "BAD_USE"
                     /\ pc' = call.op /\ UNCHANGED <<call, answer, agent_try>>
    /\ UNCHANGED <<sessVars, recvVars, exchange, chanFwdCncl_state, close_state, peerVars,
                   more>>

\* channel_request_pty_size() asks for no reply, and uses the state and the packet of
\* channel_request_pty().
CallResize(c) ==
    /\ Calling("resize") /\ "pty" \in Kinds /\ MayRequest("resize", c, "pty")
    /\ exchange[<<"pty", c>>].state # "idle" \/ tags < MaxTags
    /\ Start("resize", c, "pty")

Resize ==
    /\ pc = "resize"
    /\ LET Mines(x) == exchange' = [exchange EXCEPT ![Mine] = x]
       IN  \/ /\ exchange[Mine].state = "idle"
              /\ tags' = tags + 1
              /\ Mines([state |-> "created",
                        packet |-> [kind |-> "resize", at |-> call.at, tag |-> tags']])
              /\ Stay /\ UNCHANGED netVars
           \/ /\ exchange[Mine].state = "created"
              /\ \E s \in SendResults :
                   /\ TransportSend(Asked, s)
                   /\ \/ s = "EAGAIN" /\ Again /\ UNCHANGED exchange
                      \/ s # "EAGAIN" /\ Mines(Idle) /\ Return(0, 0)
              /\ UNCHANGED tags
           \/ /\ exchange[Mine].state = "sent"
              /\ Mines(Idle) /\ Return(0, 0)
              /\ UNCHANGED <<netVars, tags>>
    /\ UNCHANGED <<sessVars, recvVars, agent_try, chanFwdCncl_state, close_state, more,
                   peerVars>>

----------------------------------------------------------------------------
(* Listeners. *)

CallAccept(p) == /\ Calling("accept") /\ p \in listeners /\ chanFwdCncl_state[p] = "idle"
                 /\ Start("accept", p, "none")
CallCancel(p) == Calling("cancel") /\ p \in listeners /\ Start("cancel", p, "none")

\* channel_forward_accept(): read all there is, then look at the queue.
AcceptRead ==
    /\ pc = "accept"
    /\ \E got \in ReadResults :
         /\ TransportRead(got)
         /\ pc' = CASE got = "EAGAIN" -> "accept_eagain" [] got = "error" -> "accept_error"
                    [] OTHER -> "accept"
    /\ UNCHANGED <<stateVars, call, more, answer, peerVars, tags>>

AcceptTake ==
    /\ pc \in {"accept_eagain", "accept_error"}
    /\ \/ /\ queue[call.at] # <<>>
          /\ channels' = channels \cup {Head(queue[call.at])}
          /\ queue' = [queue EXCEPT ![call.at] = Tail(@)]
          /\ queue_size' = [queue_size EXCEPT ![call.at] = @ - 1]
          /\ Return(0, 0)
          /\ UNCHANGED <<next_channel, listeners>>
       \/ /\ queue[call.at] = <<>>
          /\ IF pc = "accept_eagain" THEN Again ELSE Return(0, 0)
          /\ UNCHANGED sessVars
    /\ UNCHANGED <<recvVars, netVars, stateVars, more, peerVars, tags>>

\* _libssh2_channel_forward_cancel(): an error of the send is only remembered.
CancelSend ==
    /\ pc = "cancel" /\ chanFwdCncl_state[call.at] # "sent"
    /\ \E s \in SendResults :
         /\ TransportSend([kind |-> "cancel", at |-> call.at, tag |-> 0], s)
         /\ chanFwdCncl_state' = [chanFwdCncl_state EXCEPT ![call.at] =
                                    IF s = "EAGAIN" THEN "created" ELSE "sent"]
         /\ IF s = "EAGAIN" THEN Again ELSE Stay
    /\ UNCHANGED <<sessVars, recvVars, exchange, agent_try, close_state, more, peerVars, tags>>

\* The first of the queue is freed; whether there is a next one is read before that.
CancelNext ==
    /\ pc = "cancel" /\ chanFwdCncl_state[call.at] = "sent"
    /\ queue[call.at] # <<>>
    /\ more' = (Len(queue[call.at]) > 1)
    /\ pc' = "close"
    /\ UNCHANGED <<sessVars, recvVars, netVars, stateVars, call, answer, peerVars, tags>>

\* The listener goes, with whatever its queue holds by now.
CancelEnd ==
    /\ \/ pc = "cancel_end"
       \/ pc = "cancel" /\ chanFwdCncl_state[call.at] = "sent" /\ queue[call.at] = <<>>
    /\ listeners' = listeners \ {call.at}
    /\ queue' = [queue EXCEPT ![call.at] = <<>>]
    /\ queue_size' = [queue_size EXCEPT ![call.at] = 0]
    /\ chanFwdCncl_state' = [chanFwdCncl_state EXCEPT ![call.at] = "idle"]
    /\ more' = FALSE
    /\ Return(0, 0)
    /\ UNCHANGED <<channels, next_channel, recvVars, netVars, exchange, agent_try, close_state,
                   peerVars, tags>>

----------------------------------------------------------------------------
(* _libssh2_channel_free(), of a channel the application holds or of one in the *)
(* queue of a cancelled listener.  EOF and CLOSE are one message here.          *)

CallFree(c) ==
    /\ Calling("free") /\ c \in Held
    /\ OneRequest => \A x \in Running : x[2] # c
    /\ Start("free", c, "none")

Victim == IF call.op = "free" THEN call.at ELSE Head(queue[call.at])

CloseSend ==
    /\ pc \in {"free", "close"}
    /\ \/ /\ close_state[Victim] = "sent"
          /\ pc' = "close_wait"
          /\ UNCHANGED <<netVars, close_state, call, answer>>
       \/ /\ close_state[Victim] # "sent"
          /\ \E s \in SendResults :
               /\ TransportSend([kind |-> "close", at |-> Victim, tag |-> 0], s)
               /\ close_state' = [close_state EXCEPT ![Victim] =
                                    IF s = "ok" THEN "sent" ELSE "created"]
               /\ \/ s = "ok" /\ pc' = "close_wait" /\ UNCHANGED <<call, answer>>
                  \/ s = "EAGAIN" /\ Again
                  \/ s = "BAD_USE" /\ pc' = "unlink" /\ UNCHANGED <<call, answer>>
    /\ UNCHANGED <<sessVars, recvVars, exchange, agent_try, chanFwdCncl_state, more, peerVars,
                   tags>>

\* The wait ends at the first packet of any kind.
CloseWait ==
    /\ pc = "close_wait"
    /\ \/ /\ Victim \in remote_close
          /\ pc' = "unlink"
          /\ UNCHANGED <<sessVars, recvVars, netVars, call, answer>>
       \/ /\ Victim \notin remote_close
          /\ \E got \in ReadResults :
               /\ TransportRead(got)
               /\ \/ got = "EAGAIN" /\ Again
                  \/ got # "EAGAIN" /\ pc' = "unlink" /\ UNCHANGED <<call, answer>>
    /\ UNCHANGED <<stateVars, more, peerVars, tags>>

\* The channel goes, with the requests that were being made on it.
Unlink ==
    /\ pc = "unlink"
    /\ exchange' = [x \in Exchanges |-> IF x \in Kinds \X {Victim} THEN Idle
                                         ELSE exchange[x]]
    /\ agent_try' = [agent_try EXCEPT ![Victim] = "idle"]
    /\ close_state' = [close_state EXCEPT ![Victim] = "idle"]
    /\ remote_close' = remote_close \ {Victim}
    /\ \/ /\ call.op = "free"
          /\ channels' = channels \ {call.at}
          /\ Return(0, 0)
          /\ UNCHANGED queue
       \/ /\ call.op = "cancel"
          /\ queue' = [queue EXCEPT ![call.at] = Tail(@)]
          /\ pc' = IF more THEN "cancel" ELSE "cancel_end"
          /\ UNCHANGED <<channels, call, answer>>
    /\ UNCHANGED <<next_channel, listeners, queue_size, brigade, packAdd, toClient, netVars,
                   chanFwdCncl_state, more, peerVars, tags>>

----------------------------------------------------------------------------
(* The peer, which answers in order. *)

clientVars == <<sessVars, brigade, packAdd, remote_close, odata, stateVars, callVars, tags>>

Answers(m) ==
    CASE m.kind = "open"    -> {<<[m EXCEPT !.kind = k]>> : k \in {"opened", "open_failed"}}
      [] m.kind = "request" -> {<<[m EXCEPT !.kind = k]>> : k \in {"success", "failure"}}
      [] m.kind = "listen"  -> {<<[m EXCEPT !.kind = k]>> : k \in {"granted", "denied"}}
      [] m.kind = "close" /\ m.at \in peerChans -> {<<[m EXCEPT !.kind = "closed"]>>}
      [] m.kind = "keepalive" /\ WantReply -> {<<[m EXCEPT !.kind = "denied"]>>}
      [] OTHER -> {<<>>}

PeerReceive ==
    LET m == Head(toPeer)
    IN  /\ toPeer # <<>>
        /\ toPeer' = Tail(toPeer)
        /\ \E reply \in Answers(m) :
             /\ toClient' = toClient \o reply
             /\ peerChans' =
                  IF m.kind = "confirm" \/ (reply # <<>> /\ reply[1].kind = "opened")
                  THEN peerChans \cup {m.at}
                  ELSE IF m.kind = "close" THEN peerChans \ {m.at} ELSE peerChans
             /\ peerListens' =
                  IF reply # <<>> /\ reply[1].kind = "granted" THEN peerListens \cup {m.at}
                  ELSE IF m.kind = "cancel" THEN peerListens \ {m.at} ELSE peerListens
        /\ UNCHANGED <<clientVars, forwards>>

PeerForward(p) ==
    /\ p \in peerListens /\ forwards < MaxForwards
    /\ forwards' = forwards + 1
    /\ toClient' = Append(toClient, [kind |-> "forward", at |-> p, tag |-> forwards'])
    /\ UNCHANGED <<clientVars, toPeer, peerChans, peerListens>>

----------------------------------------------------------------------------
Init ==
    /\ channels = {} /\ next_channel = 0 /\ listeners = {}
    /\ queue = [p \in Ports |-> <<>>] /\ queue_size = [p \in Ports |-> 0]
    /\ brigade = <<>> /\ packAdd = Resting /\ odata = NoPacket /\ remote_close = {}
    /\ exchange = [x \in Exchanges |-> Idle] /\ agent_try = [i \in Ids |-> "idle"]
    /\ chanFwdCncl_state = [p \in Ports |-> "idle"] /\ close_state = [i \in Ids |-> "idle"]
    /\ pc = "app" /\ call = NoCall /\ more = FALSE /\ answer = NoAnswer
    /\ toPeer = <<>> /\ toClient = <<>> /\ peerChans = {} /\ peerListens = {}
    /\ tags = 0 /\ forwards = 0

Steps == \/ Build \/ SendRequest \/ Ask \/ ReadReply \/ Fail \/ WaitSocket \/ Resize
         \/ AcceptRead \/ AcceptTake \/ CancelSend \/ CancelNext \/ CancelEnd
         \/ CloseSend \/ CloseWait \/ Unlink

Calls == \/ CallOpen \/ CallKeepalive
         \/ \E p \in Ports : CallListen(p) \/ CallAccept(p) \/ CallCancel(p)
         \/ \E c \in channels : CallFree(c) \/ CallResize(c) \/ \E k \in Kinds : CallRequest(c, k)

Next == Steps \/ Calls \/ PeerReceive \/ \E p \in Ports : PeerForward(p)

Spec == Init /\ [][Next]_vars

\* A blocking call goes on while it can, the socket takes a packet in the end and the
\* peer answers.
FairSpec == /\ Spec
            /\ WF_vars(Steps)
            /\ SF_vars(Steps /\ odata # NoPacket /\ odata' = NoPacket)
            /\ WF_vars(PeerReceive)

----------------------------------------------------------------------------
(* Properties *)

\* No two channels of a session, the ones that wait in the queue of a listener included,
\* have the same id (_libssh2_channel_nextid() looks only at session->channels).
IdsDistinct ==
    /\ \A p \in Ports : \A n \in DOMAIN queue[p] : queue[p][n] \notin channels
    /\ \A p, q \in Ports : \A m \in DOMAIN queue[p], n \in DOMAIN queue[q] :
         queue[p][m] = queue[q][n] => p = q /\ m = n

\* A listener never holds more connections than it was asked to queue
\* (packet_queue_listener(), channel_forward_accept(), _libssh2_channel_forward_cancel()).
QueueBounded == QueueMax # 0 => \A p \in Ports : Len(queue[p]) <= QueueMax

\* A result that a reply decided was decided by the reply to that very request
\* (_libssh2_packet_askv() matches a reply by type and channel only).
AnswerIsOwn == answer.got # 0 => answer.got = answer.asked

\* A channel the peer was told is open can be reached by the client or is being closed
\* (packet_queue_listener(), _libssh2_channel_open(), _libssh2_channel_forward_cancel()).
ConfirmedIsOwned ==
    \A i \in peerChans : \/ Located(i)
                         \/ \E n \in DOMAIN toPeer : toPeer[n].kind = "close" /\ toPeer[n].at = i

\* Whoever left a packet half sent comes back to send the rest: send_existing() will let
\* no other packet pass.
PendingHasOwner ==
    odata # NoPacket =>
        \/ \E x \in Exchanges : exchange[x].state = "created" /\ exchange[x].packet = odata
        \/ packAdd.point = "jump2" /\ odata.kind \in {"confirm", "refuse"}
        \/ odata.kind = "cancel" /\ chanFwdCncl_state[odata.at] = "created"
        \/ odata.kind = "close" /\ close_state[odata.at] = "created"

\* Every blocking call returns, accept() apart, which waits for a connection that may
\* never come (BLOCK_ADJUST, _libssh2_wait_socket(), _libssh2_packet_requirev()).
CallsReturn == (pc # "app" /\ call.op # "accept") ~> pc = "app"
=============================================================================
