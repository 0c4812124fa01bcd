--------------------------- MODULE ServicesProofs ---------------------------
(***************************************************************************)
(* Proofs about the services above a channel: the agent's transactions     *)
(* (Agent.tla), the header exchange of scp (Scp.tla), the requests of the  *)
(* public key subsystem (Publickey.tla) and the known hosts                *)
(* (Knownhost.tla).                                                        *)
(*                                                                         *)
(* The first three are dialogues over a stream whose pieces carry no       *)
(* request number.  What an answer belongs to rests on where the two sides *)
(* are and on what is under way in each direction together; the inductive  *)
(* invariants list just these combinations.                                *)
(***************************************************************************)
EXTENDS Agent, Scp, Publickey, Knownhost, SequenceTheorems, FiniteSetTheorems, TLAPS

----------------------------------------------------------------------------
(* Short streams                                                           *)

LEMMA One ==
  ASSUME NEW a
  PROVE  /\ <<a>> # <<>> /\ Head(<<a>>) = a /\ Tail(<<a>>) = <<>>
         /\ Append(<<>>, a) = <<a>>
  OBVIOUS

LEMMA Two ==
  ASSUME NEW a, NEW b
  PROVE  /\ <<a, b>> # <<>> /\ Head(<<a, b>>) = a /\ Tail(<<a, b>>) = <<b>>
         /\ Append(<<a>>, b) = <<a, b>>
<1>1. Tail(<<a, b>>) = <<b>>
  OBVIOUS
<1>2. Append(<<a>>, b) = <<a, b>>
  <2> DEFINE s == Append(<<a>>, b)
             t == <<a, b>>
  <2>1. <<a>> \in Seq({a, b}) /\ Len(<<a>>) = 1 /\ <<a>>[1] = a /\ b \in {a, b}
    OBVIOUS
  <2>2. s \in Seq({a, b}) /\ Len(s) = 2 /\ s[1] = a /\ s[2] = b
    BY <2>1, AppendProperties
  <2>3. t \in Seq({a, b}) /\ Len(t) = 2 /\ t[1] = a /\ t[2] = b
    OBVIOUS
  <2> HIDE DEF s, t
  <2>4. Len(s) = Len(t) /\ \A i \in 1..Len(s) : s[i] = t[i]
    BY <2>2, <2>3
  <2>5. s = t
    BY <2>2, <2>3, <2>4, SeqEqual
  <2> QED
    BY <2>5 DEF s, t
<1> QED
  BY <1>1, <1>2

LEMMA NothingFirst ==
  ASSUME NEW S, NEW s \in Seq(S)
  PROVE  <<>> \o s = s /\ s \o <<>> = s
<1>1. <<>> \in Seq(S) /\ Len(<<>>) = 0 /\ Len(s) \in Nat
  OBVIOUS
<1>2. /\ <<>> \o s \in Seq(S) /\ Len(<<>> \o s) = Len(s)
      /\ \A i \in 1..Len(s) : (<<>> \o s)[i] = s[i]
  BY <1>1, ConcatProperties
<1>3. /\ s \o <<>> \in Seq(S) /\ Len(s \o <<>>) = Len(s)
      /\ \A i \in 1..Len(s) : (s \o <<>>)[i] = s[i]
  BY <1>1, ConcatProperties
<1> QED
  BY <1>2, <1>3, SeqEqual

LEMMA Joins ==
  ASSUME NEW a, NEW b, NEW c
  PROVE  /\ <<>> \o <<a>> = <<a>> /\ <<>> \o <<a, b>> = <<a, b>>
         /\ <<a>> \o <<b, c>> = <<a, b, c>>
         /\ Head(<<a, b, c>>) = a /\ Tail(<<a, b, c>>) = <<b, c>>
<1> DEFINE S == {a, b, c}
<1>1. <<a>> \in Seq(S) /\ <<a, b>> \in Seq(S) /\ <<b, c>> \in Seq(S) /\ <<a, b, c>> \in Seq(S)
  OBVIOUS
<1>2. <<>> \o <<a>> = <<a>> /\ <<>> \o <<a, b>> = <<a, b>>
  BY <1>1, NothingFirst
<1>3. <<a>> \o <<b, c>> = <<a, b, c>>
  <2> DEFINE s == <<a>> \o <<b, c>>
             t == <<a, b, c>>
             u == <<b, c>>
  <2>1. /\ <<a>> \in Seq(S) /\ Len(<<a>>) = 1 /\ <<a>>[1] = a
        /\ u \in Seq(S) /\ Len(u) = 2 /\ u[1] = b /\ u[2] = c
    BY <1>1
  <2>2. s \in Seq(S) /\ Len(s) = 3 /\ s[1] = a /\ s[2] = b /\ s[3] = c
    BY <2>1, ConcatProperties
  <2>3. t \in Seq(S) /\ Len(t) = 3 /\ t[1] = a /\ t[2] = b /\ t[3] = c
    BY <1>1
  <2> HIDE DEF s, t
  <2>4. Len(s) = Len(t) /\ \A i \in 1..Len(s) : s[i] = t[i]
    BY <2>2, <2>3
  <2>5. s = t
    BY <2>2, <2>3, <2>4, SeqEqual
  <2> QED
    BY <2>5 DEF s, t
<1>4. Tail(<<a, b, c>>) = <<b, c>>
  OBVIOUS
<1> QED
  BY <1>2, <1>3, <1>4

----------------------------------------------------------------------------
(* The agent                                                               *)

(* The fields of the two records.                                          *)
AgentShape ==
  /\ ag = [handle |-> ag.handle, fdset |-> ag.fdset, ops |-> ag.ops, st |-> ag.st,
           request |-> ag.request, response |-> ag.response, ids |-> ag.ids,
           listed |-> ag.listed, closedOther |-> ag.closedOther]
  /\ auth = [st |-> auth.st, key |-> auth.key, method |-> auth.method, n |-> auth.n,
             attempt |-> auth.attempt, sig |-> auth.sig, verdict |-> auth.verdict]

(* x is an answer the agent may give to request r.                         *)
Answers(x, r) ==
  /\ r.kind = "list" => x.kind = "identities"
  /\ r.kind = "sign" => /\ x.kind \in {"signature", "failure"} /\ x.n = r.n
                        /\ x.kind = "signature" => x.key = r.key

(* Where the transaction is, and what of it is in the socket.              *)
UnderWay(st, r, x, to, from) ==
  \/ st \in {"init", "created"} /\ to = <<>> /\ from = <<>>
  \/ st = "length_sent" /\ to \in {<<LengthOf>>, <<>>} /\ from = <<>>
  \/ st = "request_sent" /\ to \in {<<LengthOf, r>>, <<r>>, <<>>} /\ from = <<>>
  \/ st = "request_sent" /\ to = <<>> /\ from = <<LengthOf, from[2]>> /\ Answers(from[2], r)
  \/ st = "response_length" /\ to = <<>> /\ from = <<from[1]>> /\ Answers(from[1], r)
  \/ st = "response_received" /\ to = <<>> /\ from = <<>> /\ Answers(x, r)

(* Who has begun it: the list of the identities, or the attempt whose key, *)
(* method and data the request names.                                      *)
Begun ==
  /\ ag.st # "init" =>
       /\ ag.handle /\ ag.fdset /\ fd = "agent"
       /\ auth.st \in {"idle", "sign"}
       /\ auth.st = "idle" =>
            ~ag.listed /\ ag.request = Request("list", Nobody, "none", 0)
  /\ auth.st = "sign" =>
       ag.st # "init" /\ ag.request = Request("sign", auth.key, auth.method, auth.n)
  /\ auth.st # "idle" => ag.listed
  /\ ag.listed => ag.handle /\ ag.fdset /\ fd = "agent"
  /\ fd = "agent" => ag.fdset
  /\ ag.fdset => ag.handle

(* Nothing is on its way to an agent that has closed the connection.       *)
NothingToDead == agProc.gone => toAgent = <<>>

AgentInv ==
  /\ AgentShape /\ NothingToDead
  /\ UnderWay(ag.st, ag.request, ag.response, toAgent, fromAgent)
  /\ Begun
  /\ SignatureIsAsked


LEMMA AgentBegins == AgentInit => AgentInv
  BY DEF AgentInit, AgentInv, NothingToDead, AgentShape, UnderWay, Begun, SignatureIsAsked, NoAuth

(* A step after which the transaction and who has begun it stand as        *)
(* before, and a step after which there is none.                           *)
LEMMA AgentQuiet ==
  ASSUME AgentInv, "signal" \notin AgentTroubles,
         AgentOpen \/ AgentConnect \/ OtherOpens \/ AgentForgets \/ AgentDies
  PROVE  AgentInv'
<1>1. CASE AgentOpen
  BY <1>1 DEF AgentOpen, AgentInv, NothingToDead, AgentShape, UnderWay, Begun, SignatureIsAsked
<1>2. CASE AgentConnect
  BY <1>2 DEF AgentConnect, AgentInv, NothingToDead, AgentShape, UnderWay, Begun, SignatureIsAsked
<1>3. CASE OtherOpens
  BY <1>3 DEF OtherOpens, AgentInv, NothingToDead, AgentShape, UnderWay, Begun, SignatureIsAsked
<1>4. CASE AgentForgets
  BY <1>4 DEF AgentForgets, AgentInv, NothingToDead, AgentShape, UnderWay, Begun, SignatureIsAsked
<1>5. CASE AgentDies
  <2>1. UNCHANGED <<ag, auth, fd, fromAgent>> /\ toAgent' = <<>>
    BY <1>5 DEF AgentDies
  <2>2. UnderWay(ag.st, ag.request, ag.response, toAgent, fromAgent)'
    BY <2>1 DEF AgentInv, UnderWay
  <2> QED
    BY <2>1, <2>2 DEF AgentInv, NothingToDead, AgentShape, Begun, SignatureIsAsked
<1> QED
  BY <1>1, <1>2, <1>3, <1>4, <1>5

(* The agent is given up or done with.                                     *)
LEMMA AgentCleared ==
  ASSUME AgentInv, ClearAgent, auth'.st = "idle",
         auth' = [st |-> auth'.st, key |-> auth'.key, method |-> auth'.method, n |-> auth'.n,
                  attempt |-> auth'.attempt, sig |-> auth'.sig, verdict |-> auth'.verdict]
  PROVE  AgentInv'
  BY DEF ClearAgent, NoTransaction, AgentInv, NothingToDead, AgentShape, UnderWay, Begun, SignatureIsAsked

(* The next identity's turn, once the socket is empty.                     *)
LEMMA AgentNextOne ==
  ASSUME AgentInv, toAgent = <<>>, fromAgent = <<>>, NextIdentity, ag.listed
  PROVE  AgentInv'
  BY DEF NextIdentity, NoTransaction, AgentInv, NothingToDead, AgentShape, UnderWay, Begun, SignatureIsAsked

(* A step of agent_transact_unix().                                        *)
LEMMA AgentTransacts ==
  ASSUME AgentInv, NEW r, r = ag.request, Transact(r)
  PROVE  AgentInv'
<1>1. /\ AgentShape /\ Begun /\ UnderWay(ag.st, r, ag.response, toAgent, fromAgent)
      /\ SignatureIsAsked /\ NothingToDead
  BY DEF AgentInv
<1>2. UNCHANGED <<auth, fd, agProc>> /\ ag.st # "init"
  BY DEF Transact
<1>7. NothingToDead'
  BY <1>1, <1>2 DEF Transact, NothingToDead
<1>3. CASE ag.st = "created"
  <2>1. ag' = [ag EXCEPT !.st = "length_sent"] /\ toAgent' = Append(toAgent, LengthOf)
        /\ fromAgent' = fromAgent
    BY <1>3 DEF Transact
  <2>2. toAgent = <<>> /\ fromAgent = <<>>
    BY <1>1, <1>3 DEF UnderWay
  <2>3. toAgent' = <<LengthOf>>
    BY <2>1, <2>2, One
  <2>8. /\ AgentShape' /\ ag'.st = "length_sent" /\ ag'.request = r /\ ag'.handle = ag.handle
        /\ ag'.fdset = ag.fdset /\ ag'.listed = ag.listed
    BY <1>1, <1>2, <2>1 DEF AgentShape
  <2>9. UnderWay(ag.st, ag.request, ag.response, toAgent, fromAgent)'
    BY <2>1, <2>2, <2>3, <2>8 DEF UnderWay
  <2> QED
    BY <1>1, <1>2, <1>7, <2>8, <2>9 DEF AgentInv, Begun, SignatureIsAsked
<1>4. CASE ag.st = "length_sent"
  <2>1. ag' = [ag EXCEPT !.st = "request_sent"] /\ toAgent' = Append(toAgent, r)
        /\ fromAgent' = fromAgent
    BY <1>4 DEF Transact
  <2>2. toAgent \in {<<LengthOf>>, <<>>} /\ fromAgent = <<>>
    BY <1>1, <1>4 DEF UnderWay
  <2>3. toAgent' \in {<<LengthOf, r>>, <<r>>}
    <3>1. Append(<<>>, r) = <<r>>
      BY ONLY One
    <3>2. Append(<<LengthOf>>, r) = <<LengthOf, r>>
      BY ONLY Two
    <3> QED
      BY <2>1, <2>2, <3>1, <3>2
  <2>8. /\ AgentShape' /\ ag'.st = "request_sent" /\ ag'.request = r /\ ag'.handle = ag.handle
        /\ ag'.fdset = ag.fdset /\ ag'.listed = ag.listed
    BY <1>1, <1>2, <2>1 DEF AgentShape
  <2>9. UnderWay(ag.st, ag.request, ag.response, toAgent, fromAgent)'
    BY <2>1, <2>2, <2>3, <2>8 DEF UnderWay
  <2> QED
    BY <1>1, <1>2, <1>7, <2>8, <2>9 DEF AgentInv, Begun, SignatureIsAsked
<1>5. CASE ag.st = "request_sent"
  <2>1. ag' = [ag EXCEPT !.st = "response_length"] /\ fromAgent' = Tail(fromAgent)
        /\ toAgent' = toAgent /\ fromAgent # <<>>
    BY <1>5 DEF Transact
  <2>2. toAgent = <<>> /\ fromAgent = <<LengthOf, fromAgent[2]>> /\ Answers(fromAgent[2], r)
    BY <1>1, <1>5, <2>1 DEF UnderWay
  <2>3. fromAgent' = <<fromAgent[2]>>
    BY <2>1, <2>2, Two
  <2>4. fromAgent' = <<fromAgent'[1]>> /\ Answers(fromAgent'[1], r)
    BY <2>2, <2>3
  <2>8. /\ AgentShape' /\ ag'.st = "response_length" /\ ag'.request = r /\ ag'.handle = ag.handle
        /\ ag'.fdset = ag.fdset /\ ag'.listed = ag.listed
    BY <1>1, <1>2, <2>1 DEF AgentShape
  <2>9. UnderWay(ag.st, ag.request, ag.response, toAgent, fromAgent)'
    BY <2>1, <2>2, <2>4, <2>8 DEF UnderWay
  <2> QED
    BY <1>1, <1>2, <1>7, <2>8, <2>9 DEF AgentInv, Begun, SignatureIsAsked
<1>6. CASE ag.st = "response_length"
  <2>1. ag' = [ag EXCEPT !.st = "response_received", !.response = Head(fromAgent)]
        /\ fromAgent' = Tail(fromAgent) /\ toAgent' = toAgent
    BY <1>6 DEF Transact
  <2>2. toAgent = <<>> /\ fromAgent = <<fromAgent[1]>> /\ Answers(fromAgent[1], r)
    BY <1>1, <1>6 DEF UnderWay
  <2>3. Head(fromAgent) = fromAgent[1] /\ fromAgent' = <<>>
    BY <2>1, <2>2, One
  <2>8. /\ AgentShape' /\ ag'.st = "response_received" /\ ag'.request = r /\ ag'.handle = ag.handle
        /\ ag'.fdset = ag.fdset /\ ag'.listed = ag.listed
    BY <1>1, <1>2, <2>1 DEF AgentShape
  <2>9. UnderWay(ag.st, ag.request, ag.response, toAgent, fromAgent)'
    BY <1>1, <2>1, <2>2, <2>3, <2>8 DEF UnderWay, AgentShape
  <2> QED
    BY <1>1, <1>2, <1>7, <2>8, <2>9 DEF AgentInv, Begun, SignatureIsAsked
<1> QED
  BY <1>3, <1>4, <1>5, <1>6 DEF Transact

(* The list of the identities.                                             *)
LEMMA AgentLists ==
  ASSUME AgentInv, "signal" \notin AgentTroubles, ListIdentities \/ ListTransact \/ ListDone
  PROVE  AgentInv'
<1>1. CASE ListIdentities
  BY <1>1 DEF ListIdentities, AgentInv, NothingToDead, AgentShape, UnderWay, Begun, SignatureIsAsked
<1>2. CASE ListTransact
  <2>1. ag.request = Request("list", Nobody, "none", 0)
    BY <1>2 DEF ListTransact, Transact
  <2> QED
    BY <1>2, <2>1, AgentTransacts DEF ListTransact
<1>3. CASE ListDone
  <2>0. CASE ClearAgent /\ auth' = [NoAuth EXCEPT !.verdict = "failed"]
    BY <2>0, AgentCleared DEF NoAuth
  <2> SUFFICES ASSUME ~(ClearAgent /\ auth' = [NoAuth EXCEPT !.verdict = "failed"]) PROVE AgentInv'
    BY <2>0
  <2>1. ag.request.kind = "list" /\ ag.st = "response_received"
    BY <1>3 DEF ListDone
  <2>2. Answers(ag.response, ag.request) /\ toAgent = <<>> /\ fromAgent = <<>>
    BY <2>1 DEF AgentInv, UnderWay
  <2>3. ag.response.kind = "identities"
    BY <2>1, <2>2 DEF Answers
  <2>4. ag' = [NoTransaction(ag) EXCEPT !.ids = ag.response.ids, !.listed = TRUE]
        /\ UNCHANGED <<auth, fd, agProc, toAgent, fromAgent>>
    BY <1>3, <2>3 DEF ListDone
  <2>5. auth.st = "idle"
    BY <2>1 DEF AgentInv, Begun, Request, Message
  <2> QED
    BY <2>1, <2>2, <2>4, <2>5
    DEF NoTransaction, AgentInv, NothingToDead, AgentShape, UnderWay, Begun, SignatureIsAsked
<1> QED
  BY <1>1, <1>2, <1>3

(* An attempt with one identity.                                           *)
LEMMA AgentTries ==
  ASSUME AgentInv, "signal" \notin AgentTroubles, Userauth \/ Probe \/ SignTransact \/ SignDone
  PROVE  AgentInv'
<1>1. CASE Userauth
  BY <1>1 DEF Userauth, NoTransaction, AgentInv, NothingToDead, AgentShape, UnderWay, Begun, SignatureIsAsked
<1>2. CASE Probe
  <2>1. CASE NextIdentity
    BY <1>2, <2>1, AgentNextOne DEF Probe, AgentInv, Begun, UnderWay
  <2>9. CASE auth' = [auth EXCEPT !.st = "idle", !.verdict = "authenticated"] /\ ClearAgent
    BY <2>9, AgentCleared DEF AgentInv, AgentShape
  <2>2. ASSUME NEW a \in {1, auth.attempt},
             /\ auth' = [auth EXCEPT !.st = "sign", !.attempt = a]
             /\ ag' = [ag EXCEPT !.st = "created",
                                 !.request = Request("sign", auth.key, auth.method, auth.n)]
             /\ UNCHANGED <<fd, agProc, toAgent, fromAgent>>
        PROVE  AgentInv'
    <3>1. /\ auth'.st = "sign" /\ auth'.key = auth.key /\ auth'.method = auth.method
          /\ auth'.n = auth.n /\ ag'.st = "created"
          /\ ag'.request = Request("sign", auth.key, auth.method, auth.n)
          /\ ag'.handle = ag.handle /\ ag'.fdset = ag.fdset /\ ag'.listed = ag.listed
          /\ AgentShape'
      BY <2>2 DEF AgentInv, AgentShape
    <3>2. ag.st = "init" /\ auth.st = "probe" /\ toAgent = <<>> /\ fromAgent = <<>>
      BY <1>2 DEF Probe, AgentInv, UnderWay, Begun
    <3>3. UnderWay(ag.st, ag.request, ag.response, toAgent, fromAgent)'
      BY <2>2, <3>1, <3>2 DEF UnderWay
    <3>4. Begun' /\ SignatureIsAsked'
      BY <2>2, <3>1, <3>2 DEF AgentInv, NothingToDead, Begun, SignatureIsAsked
    <3> QED
      BY <2>2, <3>1, <3>2, <3>3, <3>4 DEF AgentInv, NothingToDead
  <2> QED
    BY <1>2, <2>1, <2>2, <2>9 DEF Probe
<1>3. CASE SignTransact
  BY <1>3, AgentTransacts DEF SignTransact
<1>4. CASE SignDone
  <2>0. CASE TransactFails /\ NextIdentity
    <3>1. ag.listed /\ ag.st \in {"created", "length_sent"} /\ fromAgent = <<>>
      BY <1>4, <2>0 DEF TransactFails, SignDone, AgentInv, Begun, UnderWay
    <3>2. agProc.gone
      BY <2>0 DEF TransactFails
    <3>3. toAgent = <<>>
      BY <3>1, <3>2 DEF AgentInv, NothingToDead
    <3> QED
      BY <2>0, <3>1, <3>3, AgentNextOne
  <2> SUFFICES ASSUME ~(TransactFails /\ NextIdentity) PROVE AgentInv'
    BY <2>0
  <2>1. auth.st = "sign" /\ ag.st = "response_received"
    BY <1>4 DEF SignDone
  <2>2. Answers(ag.response, ag.request) /\ toAgent = <<>> /\ fromAgent = <<>>
    BY <2>1 DEF AgentInv, UnderWay
  <2>3. /\ ag.request = Request("sign", auth.key, auth.method, auth.n)
        /\ ag.listed /\ ag.handle /\ ag.fdset /\ fd = "agent"
    BY <2>1 DEF AgentInv, Begun
  <2>4. ag.response.n = auth.n /\ (ag.response.kind = "signature" => ag.response.key = auth.key)
    BY <2>2, <2>3 DEF Answers, Request, Message
  <2>5. CASE NextIdentity
    BY <2>2, <2>3, <2>5, AgentNextOne
  <2>6. CASE /\ ag.response.kind = "signature" /\ ag.response.method = auth.method
             /\ ag' = NoTransaction(ag)
             /\ auth' = [auth EXCEPT !.st = "signed", !.sig = ag.response]
             /\ UNCHANGED <<fd, agProc, toAgent, fromAgent>>
    BY <2>2, <2>3, <2>4, <2>6
    DEF NoTransaction, AgentInv, NothingToDead, AgentShape, UnderWay, Begun, SignatureIsAsked
  <2>7. CASE /\ ag' = NoTransaction(ag)
             /\ auth' = [auth EXCEPT !.st = "probe", !.attempt = 2, !.method = "own", !.n = @ + 1]
             /\ UNCHANGED <<fd, agProc, toAgent, fromAgent>>
    BY <2>2, <2>3, <2>7
    DEF NoTransaction, AgentInv, NothingToDead, AgentShape, UnderWay, Begun, SignatureIsAsked
  <2> QED
    BY <1>4, <2>5, <2>6, <2>7 DEF SignDone
<1> QED
  BY <1>1, <1>2, <1>3, <1>4

(* The attempts come to their end.                                         *)
LEMMA AgentEnds ==
  ASSUME AgentInv, Verdict \/ NoMoreIdentities \/ ConnectFailed
  PROVE  AgentInv'
<1>1. CASE Verdict
  <2>1. ag.st = "init" /\ ag.listed /\ toAgent = <<>> /\ fromAgent = <<>>
    BY <1>1 DEF Verdict, AgentInv, Begun, UnderWay
  <2>2. CASE NextIdentity
    BY <2>1, <2>2, AgentNextOne
  <2>3. CASE auth' = [auth EXCEPT !.st = "idle", !.verdict = "authenticated"] /\ ClearAgent
    BY <2>1, <2>3, AgentCleared DEF AgentInv, AgentShape
  <2> QED
    BY <1>1, <2>2, <2>3 DEF Verdict
<1>2. CASE NoMoreIdentities
  <2>1. ag.st = "init" /\ auth.st = "idle"
    BY <1>2 DEF NoMoreIdentities, AgentInv, Begun
  <2> QED
    BY <1>2, <2>1, AgentCleared DEF NoMoreIdentities, AgentInv, AgentShape
<1>3. CASE ConnectFailed
  <2>1. ag.st = "init" /\ auth.st = "idle"
    BY <1>3 DEF ConnectFailed, AgentInv, Begun
  <2> QED
    BY <1>3, <2>1, AgentCleared DEF ConnectFailed, AgentInv, AgentShape
<1> QED
  BY <1>1, <1>2, <1>3

(* The agent takes a piece and answers a whole request.                    *)
LEMMA AgentReplies ==
  ASSUME AgentInv, AgentAnswers
  PROVE  AgentInv'
<1> DEFINE r == Head(toAgent)
<1>0. /\ toAgent # <<>> /\ toAgent' = Tail(toAgent) /\ UNCHANGED <<ag, auth, fd>>
      /\ NothingToDead'
  BY DEF AgentAnswers, NothingToDead
<1>1. CASE ag.st = "length_sent"
  <2>1. toAgent = <<LengthOf>> /\ fromAgent = <<>>
    BY <1>0, <1>1 DEF AgentInv, UnderWay
  <2>2. r = LengthOf /\ toAgent' = <<>>
    BY <1>0, <2>1, One
  <2>3. fromAgent' = fromAgent
    BY <2>2 DEF AgentAnswers, LengthOf, Request, Message
  <2> QED
    BY <1>0, <1>1, <2>1, <2>2, <2>3
    DEF AgentInv, AgentShape, UnderWay, Begun, SignatureIsAsked
<1>2. CASE ag.st = "request_sent"
  <2>1. toAgent \in {<<LengthOf, ag.request>>, <<ag.request>>} /\ fromAgent = <<>>
    BY <1>0, <1>2 DEF AgentInv, UnderWay
  <2>2. \/ ag.request = Request("list", Nobody, "none", 0)
        \/ ag.request = Request("sign", auth.key, auth.method, auth.n)
    BY <1>2 DEF AgentInv, Begun
  <2>3. CASE toAgent = <<LengthOf, ag.request>>
    <3>1. r = LengthOf /\ toAgent' = <<ag.request>>
      BY <1>0, <2>3, Two
    <3>2. fromAgent' = fromAgent
      BY <3>1 DEF AgentAnswers, LengthOf, Request, Message
    <3> QED
      BY <1>0, <1>2, <2>1, <3>1, <3>2
      DEF AgentInv, AgentShape, UnderWay, Begun, SignatureIsAsked
  <2>4. CASE toAgent = <<ag.request>>
    <3>1. r = ag.request /\ toAgent' = <<>>
      BY <1>0, <2>4, One
    <3>2. PICK y : fromAgent' = <<>> \o <<LengthOf, y>> /\ Answers(y, r)
      BY <2>1, <2>2, <3>1 DEF AgentAnswers, Answers, Request, Message
    <3>3. fromAgent' = <<LengthOf, y>>
      BY <3>2, Joins
    <3>4. fromAgent' = <<LengthOf, fromAgent'[2]>> /\ Answers(fromAgent'[2], ag.request)
      BY <3>1, <3>2, <3>3
    <3> QED
      BY <1>0, <1>2, <3>1, <3>4
      DEF AgentInv, AgentShape, UnderWay, Begun, SignatureIsAsked
  <2> QED
    BY <2>1, <2>3, <2>4
<1> QED
  BY <1>0, <1>1, <1>2 DEF AgentInv, UnderWay

(* The signature sent to the server answers this attempt: where no read    *)
(* from the agent's socket is interrupted, agent_transact_unix() leaves    *)
(* nothing in the socket between two transactions, whatever keys the agent *)
(* holds or drops, whether or not it knows the rsa-sha2 methods, closes    *)
(* the connection or could be reached at all (agent.c:166-229, 371-525).   *)
THEOREM SignaturesAnswer ==
  "signal" \notin AgentTroubles => (AgentSpec => []SignatureIsAsked)
<1> SUFFICES ASSUME "signal" \notin AgentTroubles PROVE AgentSpec => []SignatureIsAsked
  OBVIOUS
<1>1. AgentInit => AgentInv
  BY AgentBegins
<1>2. AgentInv /\ [AgentNext]_agVars => AgentInv'
  <2>1. ASSUME AgentInv, AgentNext PROVE AgentInv'
    BY <2>1, AgentQuiet, AgentLists, AgentTries, AgentEnds, AgentReplies
    DEF AgentNext, AgentStep
  <2>2. ASSUME AgentInv, UNCHANGED agVars PROVE AgentInv'
    BY <2>2 DEF agVars, AgentInv, NothingToDead, AgentShape, UnderWay, Begun, SignatureIsAsked
  <2> QED
    BY <2>1, <2>2
<1>3. AgentInv => SignatureIsAsked
  BY DEF AgentInv
<1> QED
  BY <1>1, <1>2, <1>3, PTL DEF AgentSpec

----------------------------------------------------------------------------
(* scp                                                                     *)

ScpShape ==
  /\ scp = [st |-> scp.st, dir |-> scp.dir, times |-> scp.times, path |-> scp.path,
            chan |-> scp.chan, cmd |-> scp.cmd, line |-> scp.line, got |-> scp.got,
            ret |-> scp.ret]
  /\ remote = [st |-> remote.st, path |-> remote.path, times |-> remote.times,
               told |-> remote.told, eof |-> remote.eof, stderr |-> remote.stderr]
  /\ scp.times \in BOOLEAN /\ scp.line \in {0, 1}
  /\ ~remote.stderr

ScpPieces == {"0", "1", "T", "C", "bad", "message", "times", "size", "data"}

(* What the lines told, in full and but for the size.                      *)
AllLines(t) == IF t THEN {"times", "size"} ELSE {"size"}
Earlier(t) == IF t THEN {"times"} ELSE {}

(* Of the lines on their way down the remote program knows.                *)
Announced(d, told) ==
  /\ d \in Seq(ScpPieces)
  /\ \A i \in 1..Len(d) : d[i] \in {"times", "size"} => d[i] \in told

(* Before the remote program is started.                                   *)
Unstarted ==
  /\ scp.ret = "none" /\ scp.st \in {"idle", "created", "sent"}
  /\ scp.st = "sent" => scp.chan = "open"
  /\ scp.st # "idle" => scp.dir \in {"recv", "send"}
  /\ scp.line = 0 /\ scp.got = {}
  /\ remote.st = "none" /\ remote.told = {} /\ up = <<>> /\ down = <<>>

(* From then on until the channel is handed over, and after.               *)
Going ==
  /\ scp.chan = "open" /\ remote.st # "none" /\ remote.times = scp.times
  /\ \/ scp.ret = "none" /\ scp.st # "idle"
     \/ scp.ret = "channel" /\ scp.st = "idle"

(* What scp_recv() has taken.                                              *)
RecvGot ==
  /\ \/ scp.st = "sent1" /\ scp.line = 0 /\ scp.got = {}
     \/ scp.st = "sent2" /\ scp.times /\ scp.got = {}
     \/ scp.st = "sent3" /\ scp.times /\ scp.line = 0 /\ scp.got = {"times"}
     \/ scp.st = "sent5" /\ scp.got = Earlier(scp.times)
     \/ scp.st \in {"sent6", "idle"} /\ scp.line = 0 /\ scp.got = AllLines(scp.times)
  /\ scp.got \subseteq remote.told
  /\ Announced(down, remote.told)

(* The dialogue of scp_recv() with a remote program that is alive.         *)
RecvTalk ==
  \/ /\ remote.st = "start" /\ down = <<>>
     /\ \/ scp.st = "sent1" /\ up = <<>>
        \/ scp.st = (IF scp.times THEN "sent2" ELSE "sent5") /\ scp.line = 0 /\ up = <<"0">>
  \/ remote.st = "times" /\ scp.st = "sent2" /\ scp.line = 0 /\ up = <<>> /\ down = <<>>
  \/ /\ remote.st = "timed"
     /\ \/ scp.st = "sent2" /\ scp.line = 0 /\ up = <<>> /\ down = <<"T", "times">>
        \/ scp.st = "sent2" /\ scp.line = 1 /\ up = <<>> /\ down = <<"times">>
        \/ scp.st = "sent3" /\ up = <<>> /\ down = <<>>
        \/ scp.st = "sent5" /\ scp.line = 0 /\ up = <<"0">> /\ down = <<>>
  \/ remote.st = "size" /\ scp.st = "sent5" /\ scp.line = 0 /\ up = <<>> /\ down = <<>>
  \/ /\ remote.st = "sized"
     /\ \/ scp.st = "sent5" /\ scp.line = 0 /\ up = <<>> /\ down = <<"C", "size">>
        \/ scp.st = "sent5" /\ scp.line = 1 /\ up = <<>> /\ down = <<"size">>
        \/ scp.st = "sent6" /\ up = <<>> /\ down = <<>>
        \/ scp.st = "idle" /\ up = <<"0">> /\ down = <<>>
  \/ remote.st = "data" /\ scp.st = "idle" /\ up = <<>> /\ down = <<"data">>

(* The dialogue of scp_send() with a remote program, and with what one     *)
(* that gave up has left.                                                  *)
SendTalk ==
  \/ remote.st = "start" /\ scp.st = "sent1" /\ up = <<>> /\ down = <<>> /\ remote.told = {}
  \/ /\ remote.st = "header"
     /\ \/ scp.st = "sent1" /\ up = <<>> /\ down = <<"0">> /\ remote.told = {}
        \/ scp.st = "sent2" /\ scp.times /\ up = <<>> /\ down = <<>> /\ remote.told = {}
        \/ scp.st = "sent3" /\ scp.times /\ up = <<"T">> /\ down = <<>> /\ remote.told = {}
        \/ scp.st = "sent3" /\ scp.times /\ up = <<>> /\ down = <<"0">> /\ remote.told = {"times"}
        \/ scp.st = "sent5" /\ up = <<>> /\ down = <<>> /\ remote.told = Earlier(scp.times)
        \/ scp.st = "sent6" /\ up = <<"C">> /\ down = <<>> /\ remote.told = Earlier(scp.times)
  \/ /\ remote.st = "data" /\ up = <<>> /\ remote.told = AllLines(scp.times)
     /\ \/ scp.st = "sent6" /\ down = <<"0">>
        \/ scp.st = "idle" /\ down = <<>>
  \/ /\ remote.st = "dead"
     /\ \/ scp.st \in {"sent2", "sent5", "sent6"} /\ down \in {<<>>, <<"1", "message">>}
        \/ /\ scp.st \in {"sent1", "sent3"}
           /\ down \in {<<>>, <<"1", "message">>, <<"0">>, <<"0", "1", "message">>}

ScpInv ==
  /\ ScpShape
  /\ \/ scp.ret = "null" /\ scp.st = "idle"
     \/ Unstarted
     \/ scp.dir = "recv" /\ Going /\ RecvGot /\ (remote.st # "dead" => RecvTalk)
     \/ scp.dir = "send" /\ Going /\ SendTalk

(* What is announced stays so when pieces are taken or others are added.   *)
LEMMA AnnouncedTail ==
  ASSUME NEW d, NEW told, Announced(d, told), d # <<>>
  PROVE  /\ Announced(Tail(d), told) /\ Head(d) \in ScpPieces
         /\ Head(d) \in {"times", "size"} => Head(d) \in told
<1>1. d \in Seq(ScpPieces) /\ Len(d) \in Nat /\ Len(d) > 0
  BY DEF Announced
<1>2. /\ Tail(d) \in Seq(ScpPieces) /\ Len(Tail(d)) = Len(d) - 1
      /\ \A i \in 1..Len(Tail(d)) : Tail(d)[i] = d[i + 1]
  BY <1>1, HeadTailProperties
<1>3. \A i \in 1..Len(Tail(d)) : i + 1 \in 1..Len(d)
  BY <1>1, <1>2
<1>4. 1 \in 1..Len(d) /\ Head(d) = d[1] /\ Head(d) \in ScpPieces
  BY <1>1
<1> QED
  BY <1>2, <1>3, <1>4 DEF Announced

LEMMA AnnouncedJoin ==
  ASSUME NEW d, NEW told, Announced(d, told), NEW more, NEW e, Announced(e, more), told \subseteq more
  PROVE  Announced(d \o e, more)
<1>1. d \in Seq(ScpPieces) /\ e \in Seq(ScpPieces) /\ Len(d) \in Nat /\ Len(e) \in Nat
  BY DEF Announced
<1>2. /\ d \o e \in Seq(ScpPieces) /\ Len(d \o e) = Len(d) + Len(e)
      /\ \A i \in 1..Len(d) + Len(e) : (d \o e)[i] = IF i <= Len(d) THEN d[i] ELSE e[i - Len(d)]
  BY <1>1, ConcatProperties
<1>3. ASSUME NEW i \in 1..Len(d \o e), (d \o e)[i] \in {"times", "size"}
      PROVE  (d \o e)[i] \in more
  <2>1. CASE i <= Len(d)
    <3>1. i \in 1..Len(d) /\ (d \o e)[i] = d[i]
      BY <1>1, <1>2, <2>1
    <3> QED
      BY <1>3, <3>1 DEF Announced
  <2>2. CASE i > Len(d)
    <3>1. i - Len(d) \in 1..Len(e) /\ (d \o e)[i] = e[i - Len(d)]
      BY <1>1, <1>2, <2>2
    <3> QED
      BY <1>3, <3>1 DEF Announced
  <2>3. i <= Len(d) \/ i > Len(d)
    BY <1>1, <1>2
  <2> QED
    BY <2>1, <2>2, <2>3
<1> QED
  BY <1>2, <1>3 DEF Announced

(* The lines the remote program writes.                                    *)
LEMMA Lines ==
  ASSUME NEW told
  PROVE  /\ Announced(<<>>, told) /\ Announced(<<"1", "message">>, told)
         /\ Announced(<<"T", "bad">>, told) /\ Announced(<<"C", "bad">>, told)
         /\ Announced(<<"data">>, told) /\ Announced(<<"0">>, told)
         /\ "times" \in told => Announced(<<"T", "times">>, told)
         /\ "size" \in told => Announced(<<"C", "size">>, told)
<1>1. ASSUME NEW a \in ScpPieces, a \notin {"times", "size"} PROVE Announced(<<a>>, told)
  BY <1>1 DEF Announced
<1>2. ASSUME NEW a \in ScpPieces, NEW b \in ScpPieces, a \notin {"times", "size"},
             b \in {"times", "size"} => b \in told
      PROVE  Announced(<<a, b>>, told)
  <2> DEFINE d == <<a, b>>
  <2>1. d \in Seq(ScpPieces) /\ Len(d) = 2 /\ d[1] = a /\ d[2] = b
    OBVIOUS
  <2> HIDE DEF d
  <2> QED
    BY <1>2, <2>1 DEF Announced, d
<1>3. Announced(<<>>, told)
  BY DEF Announced
<1>4. {"1", "message", "T", "C", "bad", "data", "0", "times", "size"} \subseteq ScpPieces
  BY DEF ScpPieces
<1> QED
  BY <1>1, <1>2, <1>3, <1>4

LEMMA ScpBegins == ScpInit => ScpInv
  BY DEF ScpInit, ScpIdle, RemoteNone, ScpInv, ScpShape, Unstarted

(* The functions are left with an error.                                   *)
LEMMA ScpErrs ==
  ASSUME ScpInv, ScpError
  PROVE  ScpInv'
  BY DEF ScpError, ScpInv, ScpShape

(* A read that finds the end is an error, since nothing is in stderr.      *)
LEMMA ScpEmpties ==
  ASSUME ScpInv, ScpEmpty
  PROVE  ScpError
  BY DEF ScpEmpty, ScpInv, ScpShape

LEMMA ScpStarts ==
  ASSUME ScpInv,
         \/ \E dir \in {"recv", "send"}, p \in ScpPaths, t \in BOOLEAN : ScpStart(dir, p, t)
         \/ ScpOpen \/ ScpStartup
  PROVE  ScpInv'
<1>1. ASSUME NEW dir \in {"recv", "send"}, NEW p \in ScpPaths, NEW t \in BOOLEAN,
             ScpStart(dir, p, t)
      PROVE  ScpInv'
  <2>1. Unstarted
    BY <1>1 DEF ScpStart, ScpInv, Going
  <2> QED
    BY <1>1, <2>1 DEF ScpStart, ScpInv, ScpShape, Unstarted
<1>2. CASE ScpOpen
  <2>1. Unstarted
    BY <1>2 DEF ScpOpen, ScpInv, RecvGot, SendTalk
  <2> QED
    BY <1>2, <2>1 DEF ScpOpen, ScpInv, ScpShape, Unstarted
<1>3. CASE ScpStartup
  <2>1. Unstarted /\ scp.st = "sent"
    BY <1>3 DEF ScpStartup, ScpInv, RecvGot, SendTalk
  <2>2. CASE ScpError
    BY <2>2, ScpErrs
  <2>3. CASE ~ScpError
    <3>1. /\ scp' = [scp EXCEPT !.st = "sent1", !.cmd = FALSE]
          /\ \E w : remote' = [remote EXCEPT !.st = "start", !.times = scp.times, !.path = w]
          /\ up' = <<>> /\ down' = <<>>
      BY <1>3, <2>1, <2>3 DEF ScpStartup, Unstarted
    <3>2. /\ ScpShape' /\ scp'.st = "sent1" /\ scp'.chan = "open" /\ scp'.line = 0
          /\ scp'.got = {} /\ scp'.ret = "none" /\ scp'.dir = scp.dir /\ scp'.times = scp.times
          /\ remote'.st = "start" /\ remote'.times = scp.times /\ remote'.told = {}
      BY <2>1, <3>1 DEF ScpInv, ScpShape, Unstarted
    <3>3. Announced(down', remote'.told) /\ scp.dir \in {"recv", "send"}
      BY <2>1, <3>1, Lines DEF Unstarted
    <3> QED
      BY <3>1, <3>2, <3>3 DEF ScpInv, Going, RecvGot, RecvTalk, SendTalk
  <2> QED
    BY <2>2, <2>3
<1> QED
  BY <1>1, <1>2, <1>3

(* The steps of scp_recv(): what is written goes up and the state goes on, *)
LEMMA RecvWrites ==
  ASSUME ScpInv, RecvWakeup \/ RecvTimesAck \/ RecvSizeAck
  PROVE  ScpInv'
<1>0. /\ scp.dir = "recv" /\ Going /\ RecvGot /\ (remote.st # "dead" => RecvTalk) /\ ScpShape
  BY DEF RecvWakeup, RecvTimesAck, RecvSizeAck, ScpInv, Unstarted
<1>1. CASE ScpError
  BY <1>1, ScpErrs
<1> DEFINE Goes(s) == scp' = s /\ up' = Append(up, "0") /\ UNCHANGED <<remote, down>>
<1>2. CASE /\ scp.st = "sent1"
           /\ Goes([scp EXCEPT !.line = 0, !.st = IF scp.times THEN "sent2" ELSE "sent5"])
  <2> DEFINE next == IF scp.times THEN "sent2" ELSE "sent5"
  <2>0. scp' = [scp EXCEPT !.line = 0, !.st = next]
    BY <1>2
  <2> HIDE DEF next
  <2>1. /\ ScpShape' /\ scp'.st = next /\ scp'.line = 0
        /\ scp'.got = scp.got /\ scp'.ret = scp.ret /\ scp'.dir = scp.dir
        /\ scp'.times = scp.times /\ scp'.chan = scp.chan
    BY <1>0, <1>2, <2>0 DEF ScpShape
  <2>2. remote.st # "dead" => remote.st = "start" /\ up = <<>> /\ down = <<>>
    BY <1>0, <1>2 DEF RecvTalk
  <2>3. remote.st # "dead" => up' = <<"0">>
    BY <1>2, <2>2, One
  <2>4. Going' /\ RecvGot'
    BY <1>0, <1>2, <2>1 DEF Going, RecvGot, Earlier, next, ScpShape
  <2> QED
    BY <1>0, <1>2, <2>1, <2>2, <2>3, <2>4 DEF ScpInv, RecvTalk, next
<1>3. CASE scp.st = "sent3" /\ Goes([scp EXCEPT !.st = "sent5"])
  <2>1. /\ ScpShape' /\ scp'.st = "sent5" /\ scp'.line = scp.line
        /\ scp'.got = scp.got /\ scp'.ret = scp.ret /\ scp'.dir = scp.dir
        /\ scp'.times = scp.times /\ scp'.chan = scp.chan
    BY <1>0, <1>3 DEF ScpShape
  <2>2. remote.st # "dead" => remote.st = "timed" /\ up = <<>> /\ down = <<>>
    BY <1>0, <1>3 DEF RecvTalk
  <2>3. remote.st # "dead" => up' = <<"0">>
    BY <1>3, <2>2, One
  <2>4. Going' /\ RecvGot' /\ scp'.line = 0
    BY <1>0, <1>3, <2>1 DEF Going, RecvGot, Earlier
  <2> QED
    BY <1>0, <1>3, <2>1, <2>2, <2>3, <2>4 DEF ScpInv, RecvTalk
<1>4. CASE scp.st = "sent6" /\ Goes([scp EXCEPT !.st = "idle", !.ret = "channel"])
  <2>1. /\ ScpShape' /\ scp'.st = "idle" /\ scp'.line = scp.line
        /\ scp'.got = scp.got /\ scp'.ret = "channel" /\ scp'.dir = scp.dir
        /\ scp'.times = scp.times /\ scp'.chan = scp.chan
    BY <1>0, <1>4 DEF ScpShape
  <2>2. remote.st # "dead" => remote.st = "sized" /\ up = <<>> /\ down = <<>>
    BY <1>0, <1>4 DEF RecvTalk
  <2>3. remote.st # "dead" => up' = <<"0">>
    BY <1>4, <2>2, One
  <2>4. Going' /\ RecvGot'
    BY <1>0, <1>4, <2>1 DEF Going, RecvGot
  <2> QED
    BY <1>0, <1>4, <2>1, <2>2, <2>3, <2>4 DEF ScpInv, RecvTalk
<1> QED
  BY <1>1, <1>2, <1>3, <1>4 DEF RecvWakeup, RecvTimesAck, RecvSizeAck, ScpWrite

(* and what is read is a byte of the line that is due, or an error.        *)
LEMMA RecvReads ==
  ASSUME ScpInv, RecvTimes \/ RecvSize
  PROVE  ScpInv'
<1>0. /\ scp.dir = "recv" /\ Going /\ RecvGot /\ (remote.st # "dead" => RecvTalk) /\ ScpShape
  BY DEF RecvTimes, RecvSize, ScpInv, Unstarted
<1>1. CASE ScpError \/ ScpEmpty
  BY <1>1, ScpErrs, ScpEmpties
<1>2. ASSUME NEW st \in {"sent2", "sent5"}, scp.st = st, down # <<>>,
             NEW lead \in {"T", "C"}, NEW rest \in {"times", "size"}, NEW next \in {"sent3", "sent6"},
             st = "sent2" => lead = "T" /\ rest = "times" /\ next = "sent3",
             st = "sent5" => lead = "C" /\ rest = "size" /\ next = "sent6",
             RecvByte(lead, rest, next, Head(down))
      PROVE  ScpInv'
  <2>0. /\ Announced(Tail(down), remote.told)
        /\ Head(down) \in {"times", "size"} => Head(down) \in remote.told
    BY <1>0, <1>2, AnnouncedTail DEF RecvGot
  <2>1. CASE /\ scp.line = 0 /\ Head(down) = lead /\ scp' = [scp EXCEPT !.line = 1]
             /\ down' = Tail(down) /\ UNCHANGED <<remote, up>>
    <3>1. /\ ScpShape' /\ scp'.st = scp.st /\ scp'.line = 1
          /\ scp'.got = scp.got /\ scp'.ret = scp.ret /\ scp'.dir = scp.dir
          /\ scp'.times = scp.times /\ scp'.chan = scp.chan
      BY <1>0, <2>1 DEF ScpShape
    <3>2. remote.st # "dead" =>
            \/ remote.st = "timed" /\ scp.st = "sent2" /\ up = <<>> /\ down = <<"T", "times">>
            \/ remote.st = "sized" /\ scp.st = "sent5" /\ up = <<>> /\ down = <<"C", "size">>
      BY <1>0, <1>2, <2>1 DEF RecvTalk
    <3>3. Tail(<<"T", "times">>) = <<"times">> /\ Tail(<<"C", "size">>) = <<"size">>
      BY Two
    <3>4. Going' /\ RecvGot'
      BY <1>0, <1>2, <2>0, <2>1, <3>1 DEF Going, RecvGot
    <3>5. remote'.st # "dead" => RecvTalk'
      BY <2>1, <3>1, <3>2, <3>3 DEF RecvTalk
    <3> QED
      BY <1>0, <3>1, <3>4, <3>5 DEF ScpInv
  <2>2. CASE /\ scp.line = 1 /\ Head(down) = rest
             /\ scp' = [scp EXCEPT !.line = 0, !.got = @ \cup {rest}, !.st = next]
             /\ down' = Tail(down) /\ UNCHANGED <<remote, up>>
    <3>1. /\ ScpShape' /\ scp'.st = next /\ scp'.line = 0
          /\ scp'.got = scp.got \cup {rest} /\ scp'.ret = scp.ret /\ scp'.dir = scp.dir
          /\ scp'.times = scp.times /\ scp'.chan = scp.chan
      BY <1>0, <2>2 DEF ScpShape
    <3>2. remote.st # "dead" =>
            \/ remote.st = "timed" /\ scp.st = "sent2" /\ up = <<>> /\ down = <<"times">>
            \/ remote.st = "sized" /\ scp.st = "sent5" /\ up = <<>> /\ down = <<"size">>
      BY <1>0, <1>2, <2>2 DEF RecvTalk
    <3>3. Tail(<<"times">>) = <<>> /\ Tail(<<"size">>) = <<>>
      BY One
    <3>4. rest \in remote.told
      BY <2>0, <2>2
    <3>5. CASE st = "sent2"
      <4>1. scp'.got = {"times"} /\ next = "sent3" /\ scp.times
        BY <1>0, <1>2, <3>1, <3>5 DEF RecvGot
      <4>2. Going' /\ RecvGot'
        BY <1>0, <1>2, <2>0, <2>2, <3>1, <3>4, <3>5, <4>1 DEF Going, RecvGot
      <4>3. remote'.st # "dead" => RecvTalk'
        BY <1>2, <2>2, <3>1, <3>2, <3>3, <3>5, <4>1 DEF RecvTalk
      <4> QED
        BY <1>0, <3>1, <4>2, <4>3 DEF ScpInv
    <3>6. CASE st = "sent5"
      <4>1. scp'.got = AllLines(scp.times) /\ next = "sent6"
        BY <1>0, <1>2, <3>1, <3>6 DEF RecvGot, Earlier, AllLines
      <4>2. Going' /\ RecvGot'
        BY <1>0, <1>2, <2>0, <2>2, <3>1, <3>4, <3>6, <4>1 DEF Going, RecvGot
      <4>3. remote'.st # "dead" => RecvTalk'
        BY <1>2, <2>2, <3>1, <3>2, <3>3, <3>6, <4>1 DEF RecvTalk
      <4> QED
        BY <1>0, <3>1, <4>2, <4>3 DEF ScpInv
    <3> QED
      BY <3>5, <3>6
  <2>3. CASE ScpError
    BY <2>3, ScpErrs
  <2> QED
    BY <1>2, <2>1, <2>2, <2>3 DEF RecvByte
<1>3. CASE RecvTimes
  <2>1. scp.st = "sent2" /\ (ScpEmpty \/ (down # <<>> /\ RecvByte("T", "times", "sent3", Head(down))))
    BY <1>3 DEF RecvTimes, ScpRead
  <2> QED
    BY <1>1, <1>2, <2>1
<1>4. CASE RecvSize
  <2>1. scp.st = "sent5" /\ (ScpEmpty \/ (down # <<>> /\ RecvByte("C", "size", "sent6", Head(down))))
    BY <1>4 DEF RecvSize, ScpRead
  <2> QED
    BY <1>1, <1>2, <2>1
<1> QED
  BY <1>3, <1>4

(* The steps of scp_send().                                                *)
LEMMA SendWrites ==
  ASSUME ScpInv, SendTimes \/ SendSize
  PROVE  ScpInv'
<1>0. scp.dir = "send" /\ Going /\ SendTalk /\ ScpShape
  BY DEF SendTimes, SendSize, ScpInv, Unstarted
<1>1. CASE ScpError
  BY <1>1, ScpErrs
<1>2. ASSUME NEW st \in {"sent2", "sent5"}, scp.st = st,
             NEW piece \in {"T", "C"}, NEW next \in {"sent3", "sent6"},
             st = "sent2" => piece = "T" /\ next = "sent3",
             st = "sent5" => piece = "C" /\ next = "sent6",
             scp' = [scp EXCEPT !.st = next], up' = Append(up, piece), UNCHANGED <<remote, down>>
      PROVE  ScpInv'
  <2>1. /\ ScpShape' /\ scp'.st = next /\ scp'.got = scp.got /\ scp'.ret = scp.ret
        /\ scp'.dir = scp.dir /\ scp'.times = scp.times /\ scp'.chan = scp.chan
    BY <1>0, <1>2 DEF ScpShape
  <2>2. remote.st # "dead" => /\ remote.st = "header" /\ up = <<>> /\ down = <<>>
                              /\ st = "sent2" => scp.times /\ remote.told = {}
                              /\ st = "sent5" => remote.told = Earlier(scp.times)
    BY <1>0, <1>2 DEF SendTalk
  <2>3. remote.st # "dead" => up' = <<piece>>
    BY <1>2, <2>2, One
  <2>4. remote.st = "dead" => down \in {<<>>, <<"1", "message">>}
    BY <1>0, <1>2 DEF SendTalk
  <2>5. Going'
    BY <1>0, <1>2, <2>1 DEF Going
  <2>6. SendTalk'
    <3>1. CASE remote.st = "dead"
      BY <1>2, <2>1, <2>4, <3>1 DEF SendTalk
    <3>2. CASE remote.st # "dead"
      BY <1>2, <2>1, <2>2, <2>3, <3>2 DEF SendTalk
    <3> QED
      BY <3>1, <3>2
  <2> QED
    BY <1>0, <2>1, <2>5, <2>6 DEF ScpInv
<1>3. CASE SendTimes
  BY <1>1, <1>2, <1>3 DEF SendTimes, ScpWrite
<1>4. CASE SendSize
  BY <1>1, <1>2, <1>4 DEF SendSize, ScpWrite
<1> QED
  BY <1>3, <1>4

LEMMA SendReads ==
  ASSUME ScpInv, SendReady \/ SendTimesAck \/ SendSizeAck
  PROVE  ScpInv'
<1>0. scp.dir = "send" /\ Going /\ SendTalk /\ ScpShape
  BY DEF SendReady, SendTimesAck, SendSizeAck, ScpInv, Unstarted
<1>1. CASE ScpError \/ ScpEmpty
  BY <1>1, ScpErrs, ScpEmpties
<1>2. Tail(<<"0">>) = <<>> /\ Tail(<<"0", "1", "message">>) = <<"1", "message">>
      /\ Head(<<"1", "message">>) = "1"
  BY One, Two, Joins
<1> DEFINE Takes(s) == /\ down # <<>> /\ Head(down) = "0" /\ scp' = s /\ down' = Tail(down)
                       /\ UNCHANGED <<remote, up>>
<1>3. CASE /\ scp.st = "sent1"
           /\ Takes([scp EXCEPT !.st = IF scp.times THEN "sent2" ELSE "sent5"])
  <2> DEFINE next == IF scp.times THEN "sent2" ELSE "sent5"
  <2>0. scp' = [scp EXCEPT !.st = next]
    BY <1>3
  <2> HIDE DEF next
  <2>1. /\ ScpShape' /\ scp'.st = next /\ scp'.ret = scp.ret
        /\ scp'.dir = scp.dir /\ scp'.times = scp.times /\ scp'.chan = scp.chan
    BY <1>0, <1>3, <2>0 DEF ScpShape
  <2>2. \/ remote.st = "header" /\ up = <<>> /\ down' = <<>> /\ remote.told = {}
        \/ remote.st = "dead" /\ down' \in {<<>>, <<"1", "message">>}
    BY <1>0, <1>2, <1>3 DEF SendTalk
  <2>3. Going'
    BY <1>0, <1>3, <2>1 DEF Going, next
  <2>4. SendTalk'
    BY <1>3, <2>1, <2>2 DEF SendTalk, Earlier, next
  <2> QED
    BY <1>0, <2>1, <2>3, <2>4 DEF ScpInv
<1>4. CASE scp.st = "sent3" /\ Takes([scp EXCEPT !.st = "sent5"])
  <2>1. /\ ScpShape' /\ scp'.st = "sent5" /\ scp'.ret = scp.ret
        /\ scp'.dir = scp.dir /\ scp'.times = scp.times /\ scp'.chan = scp.chan
    BY <1>0, <1>4 DEF ScpShape
  <2>2. \/ remote.st = "header" /\ scp.times /\ up = <<>> /\ down' = <<>> /\ remote.told = {"times"}
        \/ remote.st = "dead" /\ down' \in {<<>>, <<"1", "message">>}
    BY <1>0, <1>2, <1>4 DEF SendTalk
  <2>3. Going'
    BY <1>0, <1>4, <2>1 DEF Going
  <2>4. SendTalk'
    BY <1>4, <2>1, <2>2 DEF SendTalk, Earlier
  <2> QED
    BY <1>0, <2>1, <2>3, <2>4 DEF ScpInv
<1>5. CASE scp.st = "sent6" /\ Takes([scp EXCEPT !.st = "idle", !.ret = "channel"])
  <2>1. /\ ScpShape' /\ scp'.st = "idle" /\ scp'.ret = "channel"
        /\ scp'.dir = scp.dir /\ scp'.times = scp.times /\ scp'.chan = scp.chan
    BY <1>0, <1>5 DEF ScpShape
  <2>2. remote.st = "data" /\ up = <<>> /\ down' = <<>> /\ remote.told = AllLines(scp.times)
    BY <1>0, <1>2, <1>5 DEF SendTalk
  <2>3. Going'
    BY <1>0, <1>5, <2>1 DEF Going
  <2>4. SendTalk'
    BY <1>5, <2>1, <2>2 DEF SendTalk
  <2> QED
    BY <1>0, <2>1, <2>3, <2>4 DEF ScpInv
<1> QED
  BY <1>1, <1>3, <1>4, <1>5 DEF SendReady, SendTimesAck, SendSizeAck, ScpRead, SendAck

(* The remote program's steps leave the client's state alone, and what it  *)
(* is that they change.                                                    *)
LEMMA RemoteShape ==
  ASSUME ScpInv, ~ScpStderr, RemoteStep
  PROVE  ScpShape' /\ scp' = scp /\ remote.st # "none"
<1>1. CASE RemoteFails
  BY <1>1 DEF RemoteFails, RemoteSays, ScpInv, ScpShape
<1>2. CASE RemoteSends
  BY <1>2 DEF RemoteSends, RemoteTakes, RemoteSays, ScpInv, ScpShape
<1>3. CASE RemoteReceives
  BY <1>3 DEF RemoteReceives, RemoteTakes, RemoteSays, ScpInv, ScpShape
<1>4. CASE RemoteHangup
  BY <1>4 DEF RemoteHangup, ScpInv, ScpShape
<1> QED
  BY <1>1, <1>2, <1>3, <1>4 DEF RemoteStep, RemoteWorks

(* It gives up.                                                            *)
LEMMA RemoteGivesUp ==
  ASSUME ScpInv, ~ScpStderr, RemoteFails
  PROVE  ScpInv'
<1>0. ScpShape' /\ scp' = scp /\ remote.st # "none"
  BY RemoteShape DEF RemoteStep
<1>1. ScpShape /\ remote.st \notin {"dead", "data"}
  BY DEF RemoteFails, ScpInv
<1>2. CASE scp.ret = "null" /\ scp.st = "idle"
  BY <1>0, <1>2 DEF ScpInv
<1>3. CASE scp.dir = "recv" /\ Going /\ RecvGot /\ (remote.st # "dead" => RecvTalk)
  <2>1. PICK x \in {<<>>, <<"1", "message">>, <<"T", "bad">>, <<"C", "bad">>} :
          /\ down' = down \o x /\ remote'.st = "dead" /\ remote'.told = remote.told
          /\ remote'.times = remote.times
    BY <1>1, <1>3 DEF RemoteFails, RemoteSays, Going, ScpShape
  <2>2. Announced(x, remote.told) /\ Announced(down, remote.told)
    BY <1>3, Lines DEF RecvGot
  <2>3. Announced(down', remote'.told)
    BY <2>1, <2>2, AnnouncedJoin
  <2> QED
    BY <1>0, <1>3, <2>1, <2>3 DEF ScpInv, Going, RecvGot
<1>4. CASE scp.dir = "send" /\ Going /\ SendTalk
  <2>1. PICK x \in {<<>>, <<"1", "message">>} :
          /\ down' = down \o x /\ remote'.st = "dead" /\ remote'.told = remote.told
          /\ remote'.times = remote.times
    BY <1>1, <1>4 DEF RemoteFails, RemoteSays, Going, ScpShape, SendTalk
  <2>2. \/ down = <<>> /\ scp.st \in {"sent1", "sent2", "sent3", "sent5", "sent6"}
        \/ down = <<"0">> /\ scp.st \in {"sent1", "sent3"}
    BY <1>1, <1>4 DEF SendTalk
  <2>3. /\ <<>> \o <<>> = <<>> /\ <<>> \o <<"1", "message">> = <<"1", "message">>
        /\ <<"0">> \o <<>> = <<"0">> /\ <<"0">> \o <<"1", "message">> = <<"0", "1", "message">>
    <3>1. <<>> \in Seq({"0"}) /\ <<"0">> \in Seq({"0"})
      OBVIOUS
    <3> QED
      BY <3>1, NothingFirst, Joins
  <2>4. \/ down' \in {<<>>, <<"1", "message">>}
           /\ scp.st \in {"sent1", "sent2", "sent3", "sent5", "sent6"}
        \/ down' \in {<<"0">>, <<"0", "1", "message">>} /\ scp.st \in {"sent1", "sent3"}
    BY <2>1, <2>2, <2>3
  <2> QED
    BY <1>0, <1>4, <2>1, <2>4 DEF ScpInv, Going, SendTalk
<1> QED
  BY <1>0, <1>2, <1>3, <1>4 DEF ScpInv, Unstarted

(* scp -f goes on.                                                         *)
LEMMA RemoteGoesOn ==
  ASSUME ScpInv, ~ScpStderr, RemoteSends
  PROVE  ScpInv'
<1>0. ScpShape' /\ scp' = scp /\ remote.st # "none"
  BY RemoteShape DEF RemoteStep, RemoteWorks
<1>1. ScpShape /\ scp.dir = "recv"
  BY DEF RemoteSends, ScpInv
<1>2. CASE scp.ret = "null" /\ scp.st = "idle"
  BY <1>0, <1>2 DEF ScpInv
<1>3. CASE Going /\ RecvGot /\ (remote.st # "dead" => RecvTalk)
  <2>0. scp.chan # "freed" /\ remote.times = scp.times /\ Announced(down, remote.told)
    BY <1>3 DEF Going, RecvGot
  <2>01. /\ Tail(<<"0">>) = <<>> /\ <<>> \o <<"T", "times">> = <<"T", "times">>
         /\ <<>> \o <<"C", "size">> = <<"C", "size">> /\ <<>> \o <<"data">> = <<"data">>
    BY One, Joins
  <2>02. <<>> \o <<>> = <<>>
    <3>1. <<>> \in Seq({"0"})
      OBVIOUS
    <3> QED
      BY <3>1, NothingFirst
  <2>1. CASE remote.st = "start"
    <3>1. /\ up # <<>> /\ up' = Tail(up) /\ down' = down \o <<>>
          /\ remote' = [remote EXCEPT !.st = IF remote.times THEN "times" ELSE "size"]
      BY <2>0, <2>1 DEF RemoteSends, RemoteTakes, RemoteSays
    <3>2. /\ scp.st = (IF scp.times THEN "sent2" ELSE "sent5") /\ scp.line = 0
          /\ up' = <<>> /\ down' = <<>>
      BY <1>3, <2>01, <2>02, <2>1, <3>1 DEF RecvTalk
    <3>3. /\ remote'.st = IF remote.times THEN "times" ELSE "size"
          /\ remote'.told = remote.told /\ remote'.times = remote.times
      BY <1>1, <3>1 DEF ScpShape
    <3>4. Going' /\ RecvGot'
      BY <1>0, <1>3, <3>2, <3>3, Lines DEF Going, RecvGot
    <3> QED
      BY <1>0, <1>1, <2>0, <3>2, <3>3, <3>4 DEF ScpInv, RecvTalk, ScpShape
  <2>2. CASE remote.st = "times"
    <3>1. /\ up' = up /\ down' = down \o <<"T", "times">>
          /\ remote' = [remote EXCEPT !.st = "timed", !.told = @ \cup {"times"}]
      BY <1>1, <2>0, <2>2 DEF RemoteSends, RemoteSays, ScpShape
    <3>2. scp.st = "sent2" /\ scp.line = 0 /\ up' = <<>> /\ down' = <<"T", "times">>
      BY <1>3, <2>01, <2>2, <3>1 DEF RecvTalk
    <3>3. /\ remote'.st = "timed" /\ remote'.told = remote.told \cup {"times"}
          /\ remote'.times = remote.times
      BY <1>1, <3>1 DEF ScpShape
    <3>4. Announced(down', remote'.told)
      BY <3>2, <3>3, Lines
    <3>5. Going' /\ RecvGot'
      BY <1>0, <1>3, <3>3, <3>4 DEF Going, RecvGot
    <3> QED
      BY <1>0, <1>1, <3>2, <3>3, <3>5 DEF ScpInv, RecvTalk
  <2>3. CASE remote.st = "timed"
    <3>1. /\ up # <<>> /\ up' = Tail(up) /\ down' = down \o <<>>
          /\ remote' = [remote EXCEPT !.st = "size"]
      BY <2>0, <2>3 DEF RemoteSends, RemoteTakes, RemoteSays
    <3>2. scp.st = "sent5" /\ scp.line = 0 /\ up' = <<>> /\ down' = <<>>
      BY <1>3, <2>01, <2>02, <2>3, <3>1 DEF RecvTalk
    <3>3. remote'.st = "size" /\ remote'.told = remote.told /\ remote'.times = remote.times
      BY <1>1, <3>1 DEF ScpShape
    <3>4. Going' /\ RecvGot'
      BY <1>0, <1>3, <3>2, <3>3, Lines DEF Going, RecvGot
    <3> QED
      BY <1>0, <1>1, <3>2, <3>3, <3>4 DEF ScpInv, RecvTalk
  <2>4. CASE remote.st = "size"
    <3>1. /\ up' = up /\ down' = down \o <<"C", "size">>
          /\ remote' = [remote EXCEPT !.st = "sized", !.told = @ \cup {"size"}]
      BY <1>1, <2>0, <2>4 DEF RemoteSends, RemoteSays, ScpShape
    <3>2. scp.st = "sent5" /\ scp.line = 0 /\ up' = <<>> /\ down' = <<"C", "size">>
      BY <1>3, <2>01, <2>4, <3>1 DEF RecvTalk
    <3>3. /\ remote'.st = "sized" /\ remote'.told = remote.told \cup {"size"}
          /\ remote'.times = remote.times
      BY <1>1, <3>1 DEF ScpShape
    <3>4. Announced(down', remote'.told)
      BY <3>2, <3>3, Lines
    <3>5. Going' /\ RecvGot'
      BY <1>0, <1>3, <3>3, <3>4 DEF Going, RecvGot
    <3> QED
      BY <1>0, <1>1, <3>2, <3>3, <3>5 DEF ScpInv, RecvTalk
  <2>5. CASE remote.st = "sized"
    <3>1. /\ up # <<>> /\ up' = Tail(up) /\ down' = down \o <<"data">>
          /\ remote' = [remote EXCEPT !.st = "data"]
      BY <2>0, <2>5 DEF RemoteSends, RemoteTakes, RemoteSays
    <3>2. scp.st = "idle" /\ up' = <<>> /\ down' = <<"data">>
      BY <1>3, <2>01, <2>5, <3>1 DEF RecvTalk
    <3>3. remote'.st = "data" /\ remote'.told = remote.told /\ remote'.times = remote.times
      BY <1>1, <3>1 DEF ScpShape
    <3>4. Going' /\ RecvGot'
      BY <1>0, <1>3, <3>2, <3>3, Lines DEF Going, RecvGot
    <3> QED
      BY <1>0, <1>1, <3>2, <3>3, <3>4 DEF ScpInv, RecvTalk
  <2> QED
    BY <2>1, <2>2, <2>3, <2>4, <2>5 DEF RemoteSends
<1> QED
  BY <1>0, <1>1, <1>2, <1>3 DEF ScpInv, Unstarted

(* scp -t goes on.                                                         *)
LEMMA RemoteListens ==
  ASSUME ScpInv, ~ScpStderr, RemoteReceives
  PROVE  ScpInv'
<1>0. ScpShape' /\ scp' = scp /\ remote.st # "none"
  BY RemoteShape DEF RemoteStep, RemoteWorks
<1>1. ScpShape /\ scp.dir = "send"
  BY DEF RemoteReceives, ScpInv
<1>2. CASE scp.ret = "null" /\ scp.st = "idle"
  BY <1>0, <1>2 DEF ScpInv
<1>3. CASE Going /\ SendTalk
  <2>0. scp.chan # "freed" /\ remote.times = scp.times
    BY <1>3 DEF Going
  <2>01. /\ Tail(<<"T">>) = <<>> /\ Tail(<<"C">>) = <<>> /\ <<>> \o <<"0">> = <<"0">>
         /\ Head(<<"T">>) = "T" /\ Head(<<"C">>) = "C"
    BY One, Joins
  <2>1. CASE remote.st = "start"
    <3>1. /\ up' = up /\ down' = down \o <<"0">> /\ remote' = [remote EXCEPT !.st = "header"]
      BY <2>0, <2>1 DEF RemoteReceives, RemoteSays
    <3>2. scp.st = "sent1" /\ up' = <<>> /\ down' = <<"0">> /\ remote.told = {}
      BY <1>3, <2>01, <2>1, <3>1 DEF SendTalk
    <3>3. remote'.st = "header" /\ remote'.told = remote.told /\ remote'.times = remote.times
      BY <1>1, <3>1 DEF ScpShape
    <3> QED
      BY <1>0, <1>1, <1>3, <3>2, <3>3 DEF ScpInv, Going, SendTalk
  <2>2. CASE remote.st = "header" /\ Head(up) = "T"
    <3>1. /\ up # <<>> /\ up' = Tail(up) /\ down' = down \o <<"0">>
          /\ remote' = [remote EXCEPT !.told = @ \cup {"times"}]
      BY <2>0, <2>2 DEF RemoteReceives, RemoteTakes, RemoteSays
    <3>2. /\ scp.st = "sent3" /\ scp.times /\ up' = <<>> /\ down' = <<"0">> /\ remote.told = {}
      BY <1>3, <2>01, <2>2, <3>1 DEF SendTalk
    <3>3. remote'.st = "header" /\ remote'.told = {"times"} /\ remote'.times = remote.times
      BY <1>1, <2>2, <3>1, <3>2 DEF ScpShape
    <3> QED
      BY <1>0, <1>1, <1>3, <3>2, <3>3 DEF ScpInv, Going, SendTalk
  <2>3. CASE remote.st = "header" /\ Head(up) = "C"
    <3>1. /\ up # <<>> /\ up' = Tail(up) /\ down' = down \o <<"0">>
          /\ remote' = [remote EXCEPT !.told = @ \cup {"size"}, !.st = "data"]
      BY <2>0, <2>3 DEF RemoteReceives, RemoteTakes, RemoteSays
    <3>2. /\ scp.st = "sent6" /\ up' = <<>> /\ down' = <<"0">>
          /\ remote.told = Earlier(scp.times)
      BY <1>3, <2>01, <2>3, <3>1 DEF SendTalk
    <3>3. remote'.st = "data" /\ remote'.told = AllLines(scp.times) /\ remote'.times = remote.times
      BY <1>1, <3>1, <3>2 DEF ScpShape, Earlier, AllLines
    <3> QED
      BY <1>0, <1>1, <1>3, <3>2, <3>3 DEF ScpInv, Going, SendTalk
  <2> QED
    BY <2>1, <2>2, <2>3 DEF RemoteReceives, RemoteTakes
<1> QED
  BY <1>0, <1>1, <1>2, <1>3 DEF ScpInv, Unstarted

(* A channel is handed over at the first byte of the file: whatever lines  *)
(* the remote program sends or fails to send, and wherever it gives up,    *)
(* libssh2_scp_recv2() and libssh2_scp_send64() return a channel only when *)
(* every header line asked for was taken and answered, with nothing of the *)
(* header left in it (scp.c:366-770, 925-1110).  A program that also       *)
(* writes to stderr is left out: while that is unread,                     *)
(* libssh2_channel_eof() denies the end and the channel is returned where  *)
(* the transfer stands (scp.c:755, 1098).                                  *)
THEOREM HandedOverAtData == ~ScpStderr => (ScpSpec => []ChannelAtData)
<1> SUFFICES ASSUME ~ScpStderr PROVE ScpSpec => []ChannelAtData
  OBVIOUS
<1>1. ScpInit => ScpInv
  BY ScpBegins
<1>2. ScpInv /\ [ScpNext]_scpVars => ScpInv'
  <2>1. ASSUME ScpInv, ScpNext PROVE ScpInv'
    <3>1. CASE RemoteHangup
      <4>1. scp.ret = "null" /\ scp.st = "idle"
        BY <2>1, <3>1 DEF RemoteHangup, ScpInv, Unstarted, Going
      <4>2. ScpShape' /\ scp' = scp
        BY <2>1, <3>1, RemoteShape DEF RemoteStep, RemoteWorks
      <4> QED
        BY <4>1, <4>2 DEF ScpInv
    <3> QED
      BY <2>1, <3>1, ScpStarts, RecvWrites, RecvReads, SendWrites, SendReads,
         RemoteGivesUp, RemoteGoesOn, RemoteListens
      DEF ScpNext, ScpStep, RemoteStep, RemoteWorks
  <2>2. ASSUME ScpInv, UNCHANGED scpVars PROVE ScpInv'
    BY <2>2 DEF scpVars, ScpInv, ScpShape, Unstarted, Going, RecvGot, RecvTalk, SendTalk
  <2> QED
    BY <2>1, <2>2
<1>3. ScpInv => ChannelAtData
  BY DEF ScpInv, Unstarted, Going, RecvGot, RecvTalk, SendTalk, ChannelAtData, AllLines
<1> QED
  BY <1>1, <1>2, <1>3, PTL DEF ScpSpec

----------------------------------------------------------------------------
(* The public key subsystem                                                *)

(* The pieces of requests and responses, and the fields of the records.    *)
PkValues == PkKeys \cup Nat
PkKinds == {"length", "half", "hello", "version", "status", "unknown", "unexpected",
            "key", "add", "remove", "list", "listed"}
PkPieces == [kind : PkKinds, n : Nat, v : PkValues]

PkFields == {"init", "handle", "chan", "version", "sent", "recv", "packet", "listed",
             "twice", "op", "req", "key", "keys", "n", "result", "failed"}

PkTyped(p) ==
  /\ DOMAIN p = PkFields
  /\ p.recv \in {"idle", "sent"}
  /\ DOMAIN p.op = PkOps /\ DOMAIN p.req = PkOps /\ DOMAIN p.key = PkOps
  /\ \A o \in PkOps : p.req[o] \in Nat /\ p.key[o] \in PkValues
  /\ p.keys \in Seq(PkPieces) /\ p.n \in Nat

PkShape ==
  /\ PkTyped(pk)
  /\ DOMAIN pkServer = {"keys", "eof", "hello", "told"}
  /\ pkServer.keys \in SUBSET PkValues /\ IsFiniteSet(pkServer.keys)
  /\ pkServer.told \in Seq(PkValues)
  /\ pkUp \in Seq(PkPieces)
  /\ pkDown \in Seq(PkPieces)

(* What is due of the responses to request r, where a length read ahead    *)
(* (cut = 1) is missing from the pieces d: c keys, which after the keys ks *)
(* already taken are the last of those told in t; then e more, the last of *)
(* which is of one of the kinds z and the one before it unexpected.        *)
Due(d, cut, ks, t, r, c, e, z) ==
  /\ c + Len(ks) <= Len(t)
  /\ Len(d) = 2 * (c + e) - cut
  /\ \A j \in 1..(c + e) : 2 * j - 1 > cut => d[2 * j - 1 - cut] = Length
  /\ \A j \in 1..c : d[2 * j - cut] = Body("key", r, t[Len(t) - c + j])
  /\ \A i \in 1..Len(ks) : ks[i] = Body("key", r, t[Len(t) - c - Len(ks) + i])
  /\ e = 2 => d[2 * (c + 1) - cut] = Body("unexpected", 0, 0)
  /\ e > 0 => d[Len(d)].kind \in z /\ d[Len(d)].n = r

Ahead == IF pk.recv = "sent" THEN 1 ELSE 0

Still == pkDown = <<>> /\ pk.recv = "idle"

AllIdle == \A o \in PkOps : Settled(o)

OnlyOne(o, st) ==
  /\ Ready /\ pk.op[o] = st /\ \A x \in PkOps : x # o => Settled(x)
  /\ pk.result = NoResult

(* Nothing is agreed on yet, or nothing will be.                           *)
Greeting ==
  /\ AllIdle /\ pk.result = NoResult /\ ~Ready
  /\ \/ pk.init = "sent4"
     \/ pk.init = "idle" /\ pk.failed
     \/ /\ pk.init \in {"idle", "allocated", "sent", "sent1", "sent2"}
        /\ pkUp = <<>> /\ Still /\ (pk.init = "sent2" => pk.handle /\ pk.sent = 0)
     \/ /\ pk.init = "sent3" /\ pk.handle
        /\ \/ pkUp = <<Body("hello", 1, 0), Body("hello", 2, 0)>> /\ Still
           \/ pkUp = <<>> /\ \E e \in 0..2 :
                Due(pkDown, Ahead, <<>>, <<>>, 0, 0, e, {"version", "status", "unknown"})

(* Between requests, or after the last.                                    *)
Resting ==
  /\ pk.init = "idle" /\ (pk.handle \/ pk.failed)
  /\ AllIdle /\ Still /\ (pkServer.eof \/ pkUp = <<>>)
  /\ VerdictIsOwn

(* A request is built.                                                     *)
Asking(o) ==
  /\ OnlyOne(o, "created") /\ Still /\ (pkServer.eof \/ pkUp = <<>>)
  /\ pk.keys = <<>>

(* It is sent.                                                             *)
Waiting(o) ==
  /\ OnlyOne(o, "sent")
  /\ \E c \in 0..Len(pkServer.told), e \in 0..2 :
       /\ Due(pkDown, Ahead, pk.keys, pkServer.told, pk.req[o], c, e, {"status"})
       /\ o # "list" => c = 0
       /\ \/ pkServer.eof
          \/ e > 0 /\ pkUp = <<>>
          \/ /\ e = 0 /\ c = 0 /\ pk.keys = <<>>
             /\ pkUp = <<Body(o, pk.req[o], pk.key[o])>>
          \/ /\ e = 0 /\ o = "list"
             /\ pkUp = <<Body("listed", pk.req[o], 0)>>

PkInv ==
  /\ PkShape
  /\ \/ Greeting
     \/ Resting
     \/ \E o \in PkOps : Asking(o) \/ Waiting(o)

----------------------------------------------------------------------------
(* Responses that are due                                                  *)

(* A length is read: it is the first piece.                                *)
LEMMA DueLength ==
  ASSUME NEW d \in Seq(PkPieces), NEW ks \in Seq(PkPieces), NEW t \in Seq(PkValues),
         NEW r, NEW z, NEW c \in Nat, NEW e \in 0..2,
         Due(d, 0, ks, t, r, c, e, z), d # <<>>
  PROVE  Head(d) = Length /\ Due(Tail(d), 1, ks, t, r, c, e, z)
<1> DEFINE q == Tail(d)
<1>1. /\ q \in Seq(PkPieces) /\ Len(q) = Len(d) - 1 /\ Len(d) \in Nat /\ Len(d) > 0
      /\ \A i \in 1..Len(q) : q[i] = d[i + 1]
  BY HeadTailProperties, EmptySeq
<1>2. /\ Len(d) = 2 * (c + e)
      /\ \A j \in 1..(c + e) : d[2 * j - 1] = Length
      /\ \A j \in 1..c : d[2 * j] = Body("key", r, t[Len(t) - c + j])
      /\ e = 2 => d[2 * (c + 1)] = Body("unexpected", 0, 0)
      /\ e > 0 => d[Len(d)].kind \in z /\ d[Len(d)].n = r
  <2>1. /\ Len(d) = 2 * (c + e) - 0
        /\ \A j \in 1..(c + e) : 2 * j - 1 > 0 => d[2 * j - 1 - 0] = Length
        /\ \A j \in 1..c : d[2 * j - 0] = Body("key", r, t[Len(t) - c + j])
        /\ e = 2 => d[2 * (c + 1) - 0] = Body("unexpected", 0, 0)
        /\ e > 0 => d[Len(d)].kind \in z /\ d[Len(d)].n = r
    BY DEF Due
  <2>2. 2 * (c + e) - 0 = 2 * (c + e) /\ 2 * (c + 1) - 0 = 2 * (c + 1)
    OBVIOUS
  <2>3. ASSUME NEW j \in 1..(c + e) PROVE d[2 * j - 1] = Length
    <3>1. 2 * j - 1 > 0 /\ 2 * j - 1 - 0 = 2 * j - 1
      OBVIOUS
    <3> QED
      BY <2>1, <3>1
  <2>4. ASSUME NEW j \in 1..c PROVE d[2 * j] = Body("key", r, t[Len(t) - c + j])
    <3>1. 2 * j - 0 = 2 * j
      OBVIOUS
    <3> QED
      BY <2>1, <3>1
  <2> QED
    BY <2>1, <2>2, <2>3, <2>4
<1> HIDE DEF q
<1>8. Len(q) = 2 * (c + e) - 1
  BY <1>1, <1>2
<1>3. d[1] = Length
  <2>1. 1 \in 1..(c + e) /\ 2 * 1 - 1 = 1
    BY <1>1, <1>2
  <2>2. d[2 * 1 - 1] = Length
    BY <1>2, <2>1
  <2> QED
    BY <2>1, <2>2
<1>4. ASSUME NEW j \in 1..(c + e), 2 * j - 1 > 1 PROVE q[2 * j - 1 - 1] = Length
  <2>1. 2 * j - 1 - 1 \in 1..Len(q) /\ (2 * j - 1 - 1) + 1 = 2 * j - 1
    BY ONLY <1>4, <1>8, c \in Nat, e \in 0..2
  <2>2. q[2 * j - 1 - 1] = d[(2 * j - 1 - 1) + 1]
    BY <1>1, <2>1
  <2> QED
    BY <1>2, <2>1, <2>2
<1>5. ASSUME NEW j \in 1..c PROVE q[2 * j - 1] = Body("key", r, t[Len(t) - c + j])
  <2>1. 2 * j - 1 \in 1..Len(q) /\ (2 * j - 1) + 1 = 2 * j
    BY <1>1, <1>2
  <2>2. q[2 * j - 1] = d[(2 * j - 1) + 1]
    BY <1>1, <2>1
  <2> QED
    BY <1>2, <2>1, <2>2
<1>6. ASSUME e = 2 PROVE q[2 * (c + 1) - 1] = Body("unexpected", 0, 0)
  <2>1. 2 * (c + 1) - 1 \in 1..Len(q) /\ (2 * (c + 1) - 1) + 1 = 2 * (c + 1)
    BY <1>1, <1>2, <1>6
  <2>2. q[2 * (c + 1) - 1] = d[(2 * (c + 1) - 1) + 1]
    BY <1>1, <2>1
  <2> QED
    BY <1>2, <1>6, <2>1, <2>2
<1>7. ASSUME e > 0 PROVE q[Len(q)].kind \in z /\ q[Len(q)].n = r
  <2>1. Len(q) \in 1..Len(q) /\ Len(q) + 1 = Len(d)
    BY <1>1, <1>2, <1>7
  <2>2. q[Len(q)] = d[Len(q) + 1]
    BY <1>1, <2>1
  <2> QED
    BY <1>2, <1>7, <2>1, <2>2
<1>9. Due(q, 1, ks, t, r, c, e, z)
  <2>1. /\ c + Len(ks) <= Len(t)
        /\ \A i \in 1..Len(ks) : ks[i] = Body("key", r, t[Len(t) - c - Len(ks) + i])
    BY DEF Due
  <2> QED
    BY <1>4, <1>5, <1>6, <1>7, <1>8, <2>1 DEF Due
<1> QED
  BY <1>3, <1>9 DEF q

(* A body is the first of the pieces d, and whole responses behind it.     *)
Behind(d, t, r, c, e, z) ==
  /\ d # <<>> /\ Tail(d) \in Seq(PkPieces)
  /\ Len(Tail(d)) = 2 * (c + e) - 2 /\ c + e >= 1
  /\ \A j \in 1..(c + e - 1) : Tail(d)[2 * j - 1] = Length
  /\ \A j \in 1..(c - 1) : Tail(d)[2 * j] = Body("key", r, t[Len(t) - c + (j + 1)])
  /\ e = 2 /\ c > 0 => Tail(d)[2 * c] = Body("unexpected", 0, 0)
  /\ e > 0 /\ c + e > 1 =>
       Tail(d)[Len(Tail(d))].kind \in z /\ Tail(d)[Len(Tail(d))].n = r
  /\ c > 0 => Head(d) = Body("key", r, t[Len(t) - c + 1])
  /\ c = 0 /\ e = 2 => Head(d) = Body("unexpected", 0, 0)
  /\ c = 0 /\ e = 1 => Head(d).kind \in z /\ Head(d).n = r

LEMMA DueRest ==
  ASSUME NEW d \in Seq(PkPieces), NEW ks \in Seq(PkPieces), NEW t \in Seq(PkValues),
         NEW r, NEW z, NEW c \in Nat, NEW e \in 0..2,
         Due(d, 1, ks, t, r, c, e, z)
  PROVE  Behind(d, t, r, c, e, z)
<1> DEFINE q == Tail(d)
<1>0. /\ Len(d) = 2 * (c + e) - 1
      /\ \A j \in 1..(c + e) : 2 * j - 1 > 1 => d[2 * j - 1 - 1] = Length
      /\ \A j \in 1..c : d[2 * j - 1] = Body("key", r, t[Len(t) - c + j])
      /\ e = 2 => d[2 * (c + 1) - 1] = Body("unexpected", 0, 0)
      /\ e > 0 => d[Len(d)].kind \in z /\ d[Len(d)].n = r
  BY DEF Due
<1>01. Len(d) \in Nat
  OBVIOUS
<1>02. c + e >= 1 /\ Len(d) > 0
  BY <1>0, <1>01
<1>03. d # <<>>
  BY <1>02, EmptySeq
<1>1. /\ q \in Seq(PkPieces) /\ Len(q) = Len(d) - 1
      /\ \A i \in 1..Len(q) : q[i] = d[i + 1]
  BY <1>03, HeadTailProperties
<1>2. Head(d) = d[1]
  OBVIOUS
<1> HIDE DEF q
<1>3. Len(q) = 2 * (c + e) - 2
  BY <1>0, <1>1
<1>4. ASSUME NEW j \in 1..(c + e - 1) PROVE q[2 * j - 1] = Length
  <2>1. /\ 2 * j - 1 \in 1..Len(q) /\ j + 1 \in 1..(c + e) /\ 2 * (j + 1) - 1 > 1
        /\ (2 * j - 1) + 1 = 2 * (j + 1) - 1 - 1
    BY <1>3, <1>02
  <2>2. q[2 * j - 1] = d[(2 * j - 1) + 1]
    BY <1>1, <2>1
  <2>3. d[2 * (j + 1) - 1 - 1] = Length
    BY <1>0, <2>1
  <2> QED
    BY <2>1, <2>2, <2>3
<1>5. ASSUME NEW j \in 1..(c - 1) PROVE q[2 * j] = Body("key", r, t[Len(t) - c + (j + 1)])
  <2>1. /\ 2 * j \in 1..Len(q) /\ j + 1 \in 1..c /\ 2 * j + 1 = 2 * (j + 1) - 1
    BY <1>3, <1>02
  <2>2. q[2 * j] = d[2 * j + 1]
    BY <1>1, <2>1
  <2>3. d[2 * (j + 1) - 1] = Body("key", r, t[Len(t) - c + (j + 1)])
    BY <1>0, <2>1
  <2> QED
    BY <2>1, <2>2, <2>3
<1>6. ASSUME e = 2, c > 0 PROVE q[2 * c] = Body("unexpected", 0, 0)
  <2>1. 2 * c \in 1..Len(q) /\ 2 * c + 1 = 2 * (c + 1) - 1
    BY <1>3, <1>6
  <2>2. q[2 * c] = d[2 * c + 1]
    BY <1>1, <2>1
  <2> QED
    BY <1>0, <1>6, <2>1, <2>2
<1>7. ASSUME e > 0, c + e > 1 PROVE q[Len(q)].kind \in z /\ q[Len(q)].n = r
  <2>1. Len(q) \in 1..Len(q) /\ Len(q) + 1 = Len(d)
    BY <1>0, <1>3, <1>7
  <2>2. q[Len(q)] = d[Len(q) + 1]
    BY <1>1, <2>1
  <2> QED
    BY <1>0, <1>7, <2>1, <2>2
<1>8. ASSUME c > 0 PROVE d[1] = Body("key", r, t[Len(t) - c + 1])
  <2>1. 1 \in 1..c /\ 2 * 1 - 1 = 1
    BY <1>8
  <2>2. d[2 * 1 - 1] = Body("key", r, t[Len(t) - c + 1])
    BY <1>0, <2>1
  <2> QED
    BY <2>1, <2>2
<1>9. ASSUME c = 0, e = 2 PROVE d[1] = Body("unexpected", 0, 0)
  <2>1. 2 * (c + 1) - 1 = 1
    BY <1>9
  <2> QED
    BY <1>0, <1>9, <2>1
<1>10. ASSUME c = 0, e = 1 PROVE d[1].kind \in z /\ d[1].n = r
  <2>1. Len(d) = 1
    BY <1>0, <1>10
  <2> QED
    BY <1>0, <1>10, <2>1
<1> QED
  BY <1>02, <1>03, <1>1, <1>2, <1>3, <1>4, <1>5, <1>6, <1>7, <1>8, <1>9, <1>10 DEF q, Behind

(* It is a key, which is kept behind those taken before.                   *)
LEMMA DueKey ==
  ASSUME NEW d \in Seq(PkPieces), NEW ks \in Seq(PkPieces), NEW t \in Seq(PkValues),
         NEW r, NEW z, NEW c \in Nat, NEW e \in 0..2,
         Due(d, 1, ks, t, r, c, e, z), c > 0
  PROVE  Head(d).kind = "key" /\ Due(Tail(d), 0, Append(ks, Head(d)), t, r, c - 1, e, z)
<1> DEFINE q == Tail(d)
           m == Append(ks, Head(d))
<1>1. /\ d # <<>> /\ q \in Seq(PkPieces) /\ Len(q) = 2 * (c + e) - 2
      /\ \A j \in 1..(c + e - 1) : q[2 * j - 1] = Length
      /\ \A j \in 1..(c - 1) : q[2 * j] = Body("key", r, t[Len(t) - c + (j + 1)])
      /\ e = 2 => q[2 * c] = Body("unexpected", 0, 0)
      /\ e > 0 => q[Len(q)].kind \in z /\ q[Len(q)].n = r
      /\ Head(d) = Body("key", r, t[Len(t) - c + 1])
  <2>1. Behind(d, t, r, c, e, z)
    BY DueRest
  <2>2. e > 0 => c + e > 1
    OBVIOUS
  <2> HIDE DEF m
  <2> QED
    BY <2>1, <2>2, c > 0 DEF Behind
<1>2. /\ m \in Seq(PkPieces) /\ Len(m) = Len(ks) + 1 /\ m[Len(ks) + 1] = Head(d)
      /\ \A i \in 1..Len(ks) : m[i] = ks[i]
      /\ Len(ks) \in Nat /\ Len(t) \in Nat
  <2>1. Head(d) \in PkPieces
    BY <1>1, HeadTailProperties
  <2> QED
    BY <2>1, AppendProperties
<1>3. /\ c + Len(ks) <= Len(t)
      /\ \A i \in 1..Len(ks) : ks[i] = Body("key", r, t[Len(t) - c - Len(ks) + i])
  BY DEF Due
<1> HIDE DEF q, m
<1>4. ASSUME NEW j \in 1..((c - 1) + e) PROVE q[2 * j - 1 - 0] = Length
  <2>1. j \in 1..(c + e - 1) /\ 2 * j - 1 - 0 = 2 * j - 1
    OBVIOUS
  <2> QED
    BY <1>1, <2>1
<1>5. ASSUME NEW j \in 1..(c - 1) PROVE q[2 * j - 0] = Body("key", r, t[Len(t) - (c - 1) + j])
  <2>1. 2 * j - 0 = 2 * j /\ Len(t) - c + (j + 1) = Len(t) - (c - 1) + j
    BY <1>2
  <2> QED
    BY <1>1, <2>1
<1>6. ASSUME NEW i \in 1..Len(m)
      PROVE  m[i] = Body("key", r, t[Len(t) - (c - 1) - Len(m) + i])
  <2>1. CASE i = Len(m)
    <3>1. /\ i = Len(ks) + 1 /\ Len(t) - (c - 1) - Len(m) + i = Len(t) - c + 1
      BY <1>2, <2>1
    <3> QED
      BY <1>1, <1>2, <3>1
  <2>2. CASE i # Len(m)
    <3>1. i \in 1..Len(ks) /\ Len(t) - (c - 1) - Len(m) + i = Len(t) - c - Len(ks) + i
      BY <1>2, <2>2
    <3> QED
      BY <1>2, <1>3, <3>1
  <2> QED
    BY <2>1, <2>2
<1>7. /\ (c - 1) + Len(m) <= Len(t) /\ Len(q) = 2 * ((c - 1) + e) - 0
      /\ 2 * ((c - 1) + 1) - 0 = 2 * c
  BY <1>1, <1>2, <1>3
<1>8. Due(q, 0, m, t, r, c - 1, e, z)
  BY <1>1, <1>4, <1>5, <1>6, <1>7 DEF Due
<1>9. Head(d).kind = "key"
  BY <1>1 DEF Body
<1> QED
  BY <1>8, <1>9 DEF q, m

(* It is an unexpected one, which is skipped, or the last.                 *)
LEMMA DueEnd ==
  ASSUME NEW d \in Seq(PkPieces), NEW ks \in Seq(PkPieces), NEW t \in Seq(PkValues),
         NEW r, NEW z, NEW e \in 0..2,
         Due(d, 1, ks, t, r, 0, e, z)
  PROVE  \/ e = 2 /\ Head(d).kind = "unexpected" /\ Due(Tail(d), 0, ks, t, r, 0, 1, z)
         \/ e = 1 /\ Head(d).kind \in z /\ Head(d).n = r /\ Tail(d) = <<>>
<1> DEFINE q == Tail(d)
<1>1. /\ d # <<>> /\ q \in Seq(PkPieces) /\ Len(q) = 2 * e - 2 /\ e >= 1
      /\ \A j \in 1..(e - 1) : q[2 * j - 1] = Length
      /\ e = 2 => q[Len(q)].kind \in z /\ q[Len(q)].n = r
      /\ e = 2 => Head(d) = Body("unexpected", 0, 0)
      /\ e = 1 => Head(d).kind \in z /\ Head(d).n = r
  <2>1. Behind(d, t, r, 0, e, z)
    BY DueRest
  <2>2. 0 + e = e
    OBVIOUS
  <2>3. /\ d # <<>> /\ q \in Seq(PkPieces)
        /\ Len(q) = 2 * (0 + e) - 2 /\ 0 + e >= 1
        /\ \A j \in 1..(0 + e - 1) : q[2 * j - 1] = Length
        /\ e > 0 /\ 0 + e > 1 => q[Len(q)].kind \in z /\ q[Len(q)].n = r
        /\ e = 2 => Head(d) = Body("unexpected", 0, 0)
        /\ e = 1 => Head(d).kind \in z /\ Head(d).n = r
    BY <2>1 DEF Behind
  <2> HIDE DEF q
  <2> QED
    BY <2>2, <2>3
<1> HIDE DEF q
<1>2. CASE e = 1
  <2>1. q = <<>>
    BY <1>1, <1>2, EmptySeq
  <2> QED
    BY <1>1, <1>2, <2>1 DEF q
<1>3. CASE e = 2
  <2>1. Len(q) = 2 /\ q[1] = Length /\ q[2].kind \in z /\ q[2].n = r
    <3>1. Len(q) = 2 /\ 1 \in 1..(e - 1) /\ 2 * 1 - 1 = 1
      BY <1>1, <1>3
    <3> QED
      BY <1>1, <1>3, <3>1
  <2>2. /\ 0 + Len(ks) <= Len(t)
        /\ \A i \in 1..Len(ks) : ks[i] = Body("key", r, t[Len(t) - 0 - Len(ks) + i])
    BY DEF Due
  <2>3. ASSUME NEW j \in 1..(0 + 1) PROVE q[2 * j - 1 - 0] = Length
    <3>1. 2 * j - 1 - 0 = 1
      OBVIOUS
    <3> QED
      BY <2>1, <3>1
  <2>4. Due(q, 0, ks, t, r, 0, 1, z)
    BY <2>1, <2>2, <2>3 DEF Due
  <2>5. Head(d).kind = "unexpected"
    BY <1>1, <1>3 DEF Body
  <2> QED
    BY <1>3, <2>4, <2>5 DEF q
<1> QED
  BY <1>1, <1>2, <1>3

(* Nothing has been said yet.                                              *)
LEMMA DueNothing ==
  ASSUME NEW t \in Seq(PkValues), NEW r, NEW z
  PROVE  Due(<<>>, 0, <<>>, t, r, 0, 0, z)
<1>1. Len(<<>>) = 0 /\ Len(t) \in Nat /\ 1..0 = {} /\ 0 + 0 = 0 /\ 2 * 0 - 0 = 0
  OBVIOUS
<1> QED
  BY <1>1 DEF Due

(* All that was said is taken; the keys may be forgotten.                  *)
LEMMA DueTaken ==
  ASSUME NEW cut \in 0..1, NEW ks \in Seq(PkPieces), NEW t \in Seq(PkValues),
         NEW r, NEW z, NEW c \in Nat, NEW e \in 0..2,
         Due(<<>>, cut, ks, t, r, c, e, z)
  PROVE  cut = 0 /\ c = 0 /\ e = 0
<1>1. 0 = 2 * (c + e) - cut
  BY DEF Due
<1> QED
  BY <1>1

(* The keys of a list are said, each with its length.                      *)
LEMMA DueList ==
  ASSUME NEW t \in Seq(PkValues), NEW r, NEW z
  PROVE  Due([i \in 1..2 * Len(t) |->
                IF i % 2 = 1 THEN Length ELSE Body("key", r, t[i \div 2])],
             0, <<>>, t, r, Len(t), 0, z)
<1> DEFINE d == [i \in 1..2 * Len(t) |->
                   IF i % 2 = 1 THEN Length ELSE Body("key", r, t[i \div 2])]
<1>1. Len(t) \in Nat /\ Len(<<>>) = 0
  OBVIOUS
<1>2. Len(d) = 2 * Len(t)
  BY <1>1
<1>3. ASSUME NEW j \in 1..Len(t)
      PROVE  d[2 * j - 1] = Length /\ d[2 * j] = Body("key", r, t[j])
  <2>1. /\ 2 * j - 1 \in 1..2 * Len(t) /\ 2 * j \in 1..2 * Len(t)
        /\ (2 * j - 1) % 2 = 1 /\ (2 * j) % 2 = 0 /\ (2 * j) \div 2 = j
    BY <1>1
  <2> QED
    BY <2>1
<1> HIDE DEF d
<1>4. ASSUME NEW j \in 1..(Len(t) + 0) PROVE d[2 * j - 1 - 0] = Length
  <2>1. j \in 1..Len(t) /\ 2 * j - 1 - 0 = 2 * j - 1
    BY <1>1
  <2> QED
    BY <1>3, <2>1
<1>5. ASSUME NEW j \in 1..Len(t) PROVE d[2 * j - 0] = Body("key", r, t[Len(t) - Len(t) + j])
  <2>1. 2 * j - 0 = 2 * j /\ Len(t) - Len(t) + j = j
    BY <1>1
  <2> QED
    BY <1>3, <2>1
<1>6. /\ Len(t) + 0 <= Len(t) /\ 2 * (Len(t) + 0) - 0 = 2 * Len(t) /\ 1..0 = {}
  BY <1>1
<1>7. Due(d, 0, <<>>, t, r, Len(t), 0, z)
  BY <1>1, <1>2, <1>4, <1>5, <1>6 DEF Due
<1> QED
  BY <1>7 DEF d

(* One more response is said.                                              *)
LEMMA DueMore ==
  ASSUME NEW d \in Seq(PkPieces), NEW cut \in 0..1, NEW ks \in Seq(PkPieces),
         NEW t \in Seq(PkValues), NEW r, NEW z, NEW c \in Nat,
         Due(d, cut, ks, t, r, c, 0, z),
         NEW x \in Seq(PkPieces), NEW e \in 1..2,
         Len(x) = 2 * e, \A j \in 1..e : x[2 * j - 1] = Length,
         e = 2 => x[2] = Body("unexpected", 0, 0),
         x[2 * e].kind \in z, x[2 * e].n = r
  PROVE  d \o x \in Seq(PkPieces) /\ Due(d \o x, cut, ks, t, r, c, e, z)
<1> DEFINE q == d \o x
<1>1. /\ q \in Seq(PkPieces) /\ Len(q) = Len(d) + Len(x) /\ Len(d) \in Nat
      /\ \A i \in 1..Len(d) : q[i] = d[i]
      /\ \A i \in 1..Len(x) : q[Len(d) + i] = x[i]
  <2>1. /\ q \in Seq(PkPieces) /\ Len(q) = Len(d) + Len(x) /\ Len(d) \in Nat /\ Len(x) \in Nat
        /\ \A i \in 1..(Len(d) + Len(x)) : q[i] = IF i <= Len(d) THEN d[i] ELSE x[i - Len(d)]
    BY ConcatProperties
  <2> HIDE DEF q
  <2>2. ASSUME NEW i \in 1..Len(d) PROVE q[i] = d[i]
    BY <2>1
  <2>3. ASSUME NEW i \in 1..Len(x) PROVE q[Len(d) + i] = x[i]
    <3>1. /\ Len(d) + i \in 1..(Len(d) + Len(x)) /\ ~(Len(d) + i <= Len(d))
          /\ (Len(d) + i) - Len(d) = i
      BY <2>1
    <3> QED
      BY <2>1, <3>1
  <2> QED
    BY <2>1, <2>2, <2>3
<1>2. /\ Len(d) = 2 * (c + 0) - cut
      /\ \A j \in 1..(c + 0) : 2 * j - 1 > cut => d[2 * j - 1 - cut] = Length
      /\ \A j \in 1..c : d[2 * j - cut] = Body("key", r, t[Len(t) - c + j])
      /\ c + Len(ks) <= Len(t)
      /\ \A i \in 1..Len(ks) : ks[i] = Body("key", r, t[Len(t) - c - Len(ks) + i])
  BY DEF Due
<1>3. Len(x) = 2 * e /\ \A j \in 1..e : x[2 * j - 1] = Length
  OBVIOUS
<1> HIDE DEF q
<1>4. Len(d) = 2 * c - cut /\ Len(q) = 2 * (c + e) - cut
  BY <1>1, <1>2, <1>3
<1>5. ASSUME NEW j \in 1..(c + e), 2 * j - 1 > cut PROVE q[2 * j - 1 - cut] = Length
  <2>1. CASE j <= c
    <3>1. 2 * j - 1 - cut \in 1..Len(d) /\ j \in 1..(c + 0)
      BY <1>4, <1>5, <2>1
    <3>2. q[2 * j - 1 - cut] = d[2 * j - 1 - cut]
      BY <1>1, <3>1
    <3> QED
      BY <1>2, <1>5, <3>1, <3>2
  <2>2. CASE j > c
    <3>1. /\ j - c \in 1..e /\ 2 * (j - c) - 1 \in 1..(2 * e)
          /\ (2 * c - cut) + (2 * (j - c) - 1) = 2 * j - 1 - cut
      BY <2>2
    <3>2. q[Len(d) + (2 * (j - c) - 1)] = x[2 * (j - c) - 1]
      BY <1>1, <1>3, <3>1
    <3>3. x[2 * (j - c) - 1] = Length
      BY <1>3, <3>1
    <3> QED
      BY <1>4, <3>1, <3>2, <3>3
  <2> QED
    BY <2>1, <2>2
<1>6. ASSUME NEW j \in 1..c PROVE q[2 * j - cut] = Body("key", r, t[Len(t) - c + j])
  <2>1. 2 * j - cut \in 1..Len(d)
    BY <1>4
  <2> QED
    BY <1>1, <1>2, <2>1
<1>7. ASSUME e = 2 PROVE q[2 * (c + 1) - cut] = Body("unexpected", 0, 0)
  <2>1. 2 \in 1..(2 * e) /\ (2 * c - cut) + 2 = 2 * (c + 1) - cut
    BY <1>7
  <2>2. q[Len(d) + 2] = x[2]
    BY <1>1, <1>3, <2>1
  <2> QED
    BY <1>4, <1>7, <2>1, <2>2
<1>8. q[Len(q)].kind \in z /\ q[Len(q)].n = r
  <2>1. 2 * e \in 1..(2 * e) /\ (2 * c - cut) + 2 * e = 2 * (c + e) - cut
    OBVIOUS
  <2>2. q[Len(d) + 2 * e] = x[2 * e]
    BY <1>1, <1>3, <2>1
  <2> QED
    BY <1>4, <2>1, <2>2
<1>9. Due(q, cut, ks, t, r, c, e, z)
  BY <1>2, <1>4, <1>5, <1>6, <1>7, <1>8 DEF Due
<1> QED
  BY <1>1, <1>9 DEF q

LEMMA Tuples ==
  ASSUME NEW S, NEW a \in S, NEW b \in S, NEW c \in S
  PROVE  <<a>> \in Seq(S) /\ <<a, b>> \in Seq(S) /\ <<a, b, c>> \in Seq(S)
  OBVIOUS

LEMMA PieceTyped ==
  ASSUME NEW k \in PkKinds, NEW n \in Nat, NEW v \in PkValues
  PROVE  Body(k, n, v) \in PkPieces
  BY DEF Body, PkPieces

LEMMA PiecesTyped ==
  /\ Length \in PkPieces /\ Half \in PkPieces /\ Body("unexpected", 0, 0) \in PkPieces
  /\ Body("unknown", 0, 0) \in PkPieces
<1>1. /\ "length" \in PkKinds /\ "half" \in PkKinds /\ "unexpected" \in PkKinds
      /\ "unknown" \in PkKinds
  BY DEF PkKinds
<1>2. 0 \in Nat /\ 0 \in PkValues
  BY DEF PkValues
<1> QED
  BY <1>1, <1>2, PieceTyped DEF Length, Half

(* A response is said: what was due, an unexpected response or none, and b. *)
LEMMA DueSays ==
  ASSUME PkTroubles = {}, pkDown \in Seq(PkPieces), NEW b \in PkPieces, Says(b),
         NEW cut \in 0..1, NEW ks \in Seq(PkPieces), NEW t \in Seq(PkValues),
         NEW z, NEW c \in Nat, Due(pkDown, cut, ks, t, b.n, c, 0, z), b.kind \in z
  PROVE  \E e \in 1..2 : Due(pkDown', cut, ks, t, b.n, c, e, z)
<1> DEFINE a == Body("unexpected", 0, 0)
           x1 == <<Length, b>>
           x2 == <<Length, a, Length, b>>
<1>1. Length \in PkPieces /\ a \in PkPieces
  BY PiecesTyped
<1> HIDE DEF a
<1>2. pkDown' = (pkDown \o <<>>) \o <<Length, b>> \/ pkDown' = (pkDown \o <<Length, a>>) \o <<Length, b>>
  BY DEF Says, Odd, Response, a
<1>3. CASE pkDown' = (pkDown \o <<>>) \o <<Length, b>>
  <2>1. pkDown' = pkDown \o x1
    BY <1>3, NothingFirst
  <2>2. /\ x1 \in Seq(PkPieces) /\ Len(x1) = 2 * 1 /\ x1[1] = Length /\ x1[2] = b
    BY <1>1
  <2> HIDE DEF x1
  <2>3. \A j \in 1..1 : x1[2 * j - 1] = Length
    <3>1. \A j \in 1..1 : 2 * j - 1 = 1
      OBVIOUS
    <3> QED
      BY <2>2, <3>1
  <2>4. x1[2 * 1] = b
    BY <2>2
  <2>41. 1 \in 1..2 /\ 1 # 2
    OBVIOUS
  <2>5. Due(pkDown \o x1, cut, ks, t, b.n, c, 1, z)
    BY <2>2, <2>3, <2>4, <2>41, DueMore
  <2> QED
    BY <2>1, <2>5
<1>4. CASE pkDown' = (pkDown \o <<Length, a>>) \o <<Length, b>>
  <2>1. pkDown' = pkDown \o x2
    <3>1. <<Length, a>> \in Seq(PkPieces) /\ <<Length, b>> \in Seq(PkPieces)
      BY <1>1
    <3>2. (pkDown \o <<Length, a>>) \o <<Length, b>> = pkDown \o (<<Length, a>> \o <<Length, b>>)
      BY <3>1, ConcatAssociative
    <3>3. <<Length, a>> \o <<Length, b>> = x2
      <4> DEFINE u == <<Length, a>>
                 w == <<Length, b>>
      <4>1. /\ u \in Seq(PkPieces) /\ Len(u) = 2 /\ u[1] = Length /\ u[2] = a
            /\ w \in Seq(PkPieces) /\ Len(w) = 2 /\ w[1] = Length /\ w[2] = b
        BY <1>1
      <4>2. /\ x2 \in Seq(PkPieces) /\ Len(x2) = 4
            /\ x2[1] = Length /\ x2[2] = a /\ x2[3] = Length /\ x2[4] = b
        BY <1>1
      <4> HIDE DEF u, w, x2
      <4> DEFINE s == u \o w
      <4>30. /\ s \in Seq(PkPieces) /\ Len(s) = Len(u) + Len(w)
             /\ \A i \in 1..(Len(u) + Len(w)) :
                  s[i] = IF i <= Len(u) THEN u[i] ELSE w[i - Len(u)]
        BY <4>1, ConcatProperties
      <4> HIDE DEF s
      <4>31. s \in Seq(PkPieces) /\ Len(s) = 4
        BY <4>1, <4>30
      <4>32. s[1] = Length /\ s[2] = a
        BY <4>1, <4>30
      <4>33. s[3] = w[3 - 2] /\ s[4] = w[4 - 2] /\ 3 - 2 = 1 /\ 4 - 2 = 2
        BY <4>1, <4>30
      <4>3. s[3] = Length /\ s[4] = b
        BY <4>1, <4>33
      <4>4. \A i \in 1..4 : s[i] = x2[i]
        BY <4>2, <4>32, <4>3
      <4>5. s = x2
        BY <4>2, <4>31, <4>4, SeqEqual
      <4> QED
        BY <4>5 DEF s, u, w
    <3> QED
      BY <1>4, <3>2, <3>3
  <2>2. /\ x2 \in Seq(PkPieces) /\ Len(x2) = 2 * 2
        /\ x2[1] = Length /\ x2[2] = a /\ x2[3] = Length /\ x2[4] = b
    BY <1>1
  <2> HIDE DEF x2
  <2>3. \A j \in 1..2 : x2[2 * j - 1] = Length
    <3>1. \A j \in 1..2 : 2 * j - 1 = 1 \/ 2 * j - 1 = 3
      OBVIOUS
    <3> QED
      BY <2>2, <3>1
  <2>4. x2[2 * 2] = b
    BY <2>2
  <2>41. 2 \in 1..2 /\ x2[2] = Body("unexpected", 0, 0)
    BY <2>2 DEF a
  <2>5. Due(pkDown \o x2, cut, ks, t, b.n, c, 2, z)
    BY <2>2, <2>3, <2>4, <2>41, DueMore
  <2> QED
    BY <2>1, <2>5
<1> QED
  BY <1>2, <1>3, <1>4

----------------------------------------------------------------------------
(* The fields keep their types.                                            *)

LEMMA SaysTyped ==
  ASSUME pkDown \in Seq(PkPieces), NEW b \in PkPieces, Says(b)
  PROVE  pkDown' \in Seq(PkPieces)
<1>1. /\ Length \in PkPieces /\ Half \in PkPieces /\ Body("unexpected", 0, 0) \in PkPieces
      /\ Body("unknown", 0, 0) \in PkPieces
  BY PiecesTyped
<1>2. PICK r \in Response(b), odd \in Odd : pkDown' = pkDown \o odd \o r
  BY DEF Says
<1>3. odd \in Seq(PkPieces)
  <2>1. odd = <<>> \/ odd = <<Length, Body("unexpected", 0, 0)>> \/ odd = <<Length, Body("unknown", 0, 0)>>
    BY DEF Odd
  <2>2. <<>> \in Seq(PkPieces)
    OBVIOUS
  <2> QED
    BY <1>1, <2>1, <2>2, Tuples
<1>4. r \in Seq(PkPieces)
  <2>1. r = <<Length, b>> \/ r = <<Length, Half, b>>
    BY DEF Response
  <2> QED
    BY <1>1, <2>1, Tuples
<1>5. pkDown \o odd \in Seq(PkPieces)
  BY <1>3
<1> QED
  BY <1>2, <1>4, <1>5

(* The keys of a list are told in a sequence without gaps.                 *)
LEMMA KeysTyped ==
  ASSUME NEW S \in SUBSET PkValues, IsFiniteSet(S), NEW s \in SetToSeqs(S)
  PROVE  s \in Seq(PkValues)
<1>1. Cardinality(S) \in Nat
  BY FS_CardinalityType
<1>2. s \in [1..Cardinality(S) -> S]
  BY DEF SetToSeqs
<1>3. s \in [1..Cardinality(S) -> PkValues]
  BY <1>2
<1> QED
  BY <1>1, <1>3, SeqDef

LEMMA ListTyped ==
  ASSUME NEW s \in Seq(PkValues), NEW r \in Nat
  PROVE  [i \in 1..2 * Len(s) |-> IF i % 2 = 1 THEN Length ELSE Body("key", r, s[i \div 2])]
           \in Seq(PkPieces)
<1> DEFINE d == [i \in 1..2 * Len(s) |-> IF i % 2 = 1 THEN Length ELSE Body("key", r, s[i \div 2])]
<1>1. Len(s) \in Nat /\ 2 * Len(s) \in Nat
  OBVIOUS
<1>2. ASSUME NEW i \in 1..2 * Len(s)
      PROVE  (IF i % 2 = 1 THEN Length ELSE Body("key", r, s[i \div 2])) \in PkPieces
  <2>1. CASE i % 2 = 1
    BY <2>1, PiecesTyped
  <2>2. CASE i % 2 # 1
    <3>1. i \div 2 \in 1..Len(s)
      BY <1>1, <2>2
    <3>2. s[i \div 2] \in PkValues
      BY <3>1
    <3>3. "key" \in PkKinds
      BY DEF PkKinds
    <3>4. Body("key", r, s[i \div 2]) \in PkPieces
      BY <3>2, <3>3, PieceTyped
    <3> QED
      BY <2>2, <3>4
  <2> QED
    BY <2>1, <2>2
<1>3. d \in [1..2 * Len(s) -> PkPieces]
  BY <1>2
<1> QED
  BY <1>1, <1>3, SeqDef

(* A step changes no field of the request.                                 *)
Alike(p, q) ==
  /\ DOMAIN q = PkFields /\ q.init = p.init /\ q.handle = p.handle /\ q.failed = p.failed
  /\ q.op = p.op /\ q.req = p.req /\ q.key = p.key /\ q.n = p.n /\ q.result = p.result

LEMMA FreeFields ==
  ASSUME NEW p, DOMAIN p = PkFields
  PROVE  /\ Alike(p, FreePacket(p))
         /\ FreePacket(p).recv = p.recv /\ FreePacket(p).keys = p.keys
  BY DEF FreePacket, PkFields, Alike

LEMMA RecvFields ==
  ASSUME NEW p, DOMAIN p = PkFields, NEW r, NEW x
  PROVE  LET q == [p EXCEPT !.recv = r, !.packet = x]
         IN  Alike(p, q) /\ q.recv = r /\ q.keys = p.keys
  BY DEF PkFields, Alike

LEMMA FailedFields ==
  ASSUME NEW p, DOMAIN p = PkFields
  PROVE  LET q == InitFailed(p)
         IN  /\ DOMAIN q = PkFields /\ q.init = "sent4" /\ q.recv = p.recv /\ q.keys = p.keys
             /\ q.op = p.op /\ q.req = p.req /\ q.key = p.key /\ q.n = p.n /\ q.result = p.result
  BY DEF InitFailed, PkFields

LEMMA FinishedFields ==
  ASSUME NEW p, PkTyped(p), NEW o \in PkOps, NEW b
  PROVE  LET q == Finished(p, o, b)
         IN  /\ DOMAIN q = PkFields /\ q.init = p.init /\ q.handle = p.handle /\ q.failed = p.failed
             /\ DOMAIN q.op = PkOps /\ q.op[o] = "idle"
             /\ \A x \in PkOps : x # o => q.op[x] = p.op[x]
             /\ q.recv = p.recv /\ q.req = p.req /\ q.key = p.key /\ q.n = p.n /\ q.keys = p.keys
             /\ q.result = [op |-> o, req |-> p.req[o], ans |-> b.n, ok |-> b.v = 0,
                            keys |-> IF o = "list" /\ b.v = 0 THEN p.keys ELSE <<>>]
<1> DEFINE r == [op |-> o, req |-> p.req[o], ans |-> b.n, ok |-> b.v = 0,
                 keys |-> IF o = "list" /\ b.v = 0 THEN p.keys ELSE <<>>]
           l == o = "list" /\ b.v = 0 /\ p.keys # <<>>
           q == [p EXCEPT !.op[o] = "idle", !.result = r, !.listed = l]
<1>1. Finished(p, o, b) = q
  BY DEF Finished
<1> HIDE DEF r, l
<1>2. /\ DOMAIN q = PkFields /\ q.init = p.init /\ q.handle = p.handle /\ q.failed = p.failed
      /\ q.recv = p.recv /\ q.req = p.req /\ q.key = p.key /\ q.n = p.n /\ q.keys = p.keys
      /\ q.result = r /\ q.op = [p.op EXCEPT ![o] = "idle"]
  BY DEF PkTyped, PkFields
<1>3. DOMAIN p.op = PkOps
  BY DEF PkTyped
<1> HIDE DEF q
<1>4. DOMAIN q.op = PkOps /\ q.op[o] = "idle" /\ \A x \in PkOps : x # o => q.op[x] = p.op[x]
  BY <1>2, <1>3
<1> QED
  BY <1>1, <1>2, <1>4 DEF r

(* The last result stays true, or is gone.                                 *)
LEMMA VerdictKept ==
  ASSUME VerdictIsOwn, pk'.result = pk.result, pkServer'.told = pkServer.told
  PROVE  VerdictIsOwn'
  BY DEF VerdictIsOwn

LEMMA VerdictNone ==
  ASSUME pk'.result = NoResult
  PROVE  VerdictIsOwn'
  BY DEF VerdictIsOwn, NoResult

Hellos == {"version", "status", "unknown"}

----------------------------------------------------------------------------
(* libssh2_publickey_init()                                                *)

(* The steps before the version is sent, and the exit.                     *)
LEMMA GreetingGoesOn ==
  ASSUME PkTroubles = {}, PkShape, Greeting,
         PkStart \/ PkOpen \/ PkStartup \/ PkAllocate \/ PkInitExit
  PROVE  PkShape' /\ Greeting'
<1>1. PkTyped(pk) /\ DOMAIN pk = PkFields
  BY DEF PkShape, PkTyped
<1>2. UNCHANGED <<pkServer, pkUp, pkDown>>
  BY DEF PkStart, PkOpen, PkStartup, PkAllocate, PkInitExit
<1>3. /\ DOMAIN pk' = PkFields /\ pk'.recv = pk.recv /\ pk'.keys = pk.keys
      /\ pk'.op = pk.op /\ pk'.req = pk.req /\ pk'.key = pk.key /\ pk'.n = pk.n
      /\ pk'.result = pk.result
      /\ \/ pk.init = "idle" /\ ~pk.failed /\ pk'.init = "allocated"
         \/ pk.init = "allocated" /\ pk'.init = "sent"
         \/ pk.init = "sent" /\ pk'.init = "sent1"
         \/ pk.init = "sent1" /\ pk'.init = "sent2" /\ pk'.handle = TRUE /\ pk'.sent = 0
         \/ pk'.init = "sent4"
         \/ pk'.init = "idle" /\ pk'.handle = FALSE /\ pk'.failed = TRUE
  <2>1. CASE PkStart
    BY <1>1, <2>1 DEF PkStart, PkFields
  <2>2. CASE PkOpen
    <3>1. CASE pk' = [pk EXCEPT !.init = "sent", !.chan = "open"]
      BY <1>1, <2>2, <3>1 DEF PkOpen, PkFields
    <3>2. CASE pk' = InitFailed(pk)
      BY <1>1, <3>2, FailedFields
    <3> QED
      BY <2>2, <3>1, <3>2 DEF PkOpen
  <2>3. CASE PkStartup
    <3>1. CASE pk' = [pk EXCEPT !.init = "sent1"]
      BY <1>1, <2>3, <3>1 DEF PkStartup, PkFields
    <3>2. CASE pk' = InitFailed(pk)
      BY <1>1, <3>2, FailedFields
    <3> QED
      BY <2>3, <3>1, <3>2 DEF PkStartup
  <2>4. CASE PkAllocate
    BY <1>1, <2>4 DEF PkAllocate, PkFields
  <2>5. CASE PkInitExit
    BY <1>1, <2>5 DEF PkInitExit, PkFields
  <2> QED
    BY <2>1, <2>2, <2>3, <2>4, <2>5
<1>4. PkShape'
  <2>1. PkTyped(pk')
    BY <1>1, <1>3 DEF PkTyped
  <2> QED
    BY <1>2, <2>1 DEF PkShape
<1>5. AllIdle' /\ pk'.result = NoResult /\ ~Ready'
  BY <1>3 DEF Greeting, AllIdle, Settled, Ready
<1>6. \/ pk'.init \in {"sent4", "idle"} /\ (pk'.init = "idle" => pk'.failed)
      \/ /\ pk'.init \in {"idle", "allocated", "sent", "sent1", "sent2"}
         /\ pkUp' = <<>> /\ Still'
         /\ (pk'.init = "sent2" => pk'.handle /\ pk'.sent = 0)
  BY <1>2, <1>3 DEF Greeting, Still
<1> QED
  BY <1>4, <1>5, <1>6 DEF Greeting

LEMMA GreetingSends ==
  ASSUME PkTroubles = {}, PkShape, Greeting, PkVersion
  PROVE  PkShape' /\ Greeting'
<1>1. PkTyped(pk) /\ DOMAIN pk = PkFields
  BY DEF PkShape, PkTyped
<1>2. /\ pk.init = "sent2" /\ pkUp = <<>> /\ Still /\ pk.handle /\ pk.sent = 0
      /\ AllIdle /\ pk.result = NoResult /\ UNCHANGED <<pkServer, pkDown>>
  BY DEF PkVersion, Greeting
<1>3. CASE pk' = InitFailed(pk) /\ UNCHANGED pkUp
  <2>1. /\ DOMAIN pk' = PkFields /\ pk'.init = "sent4" /\ pk'.recv = pk.recv /\ pk'.keys = pk.keys
        /\ pk'.op = pk.op /\ pk'.req = pk.req /\ pk'.key = pk.key /\ pk'.n = pk.n
        /\ pk'.result = pk.result
    BY <1>1, <1>3, FailedFields
  <2>2. PkTyped(pk')
    BY <1>1, <2>1 DEF PkTyped
  <2> QED
    BY <1>2, <1>3, <2>1, <2>2 DEF PkShape, Greeting, AllIdle, Settled, Ready
<1>4. CASE /\ pk' = [pk EXCEPT !.sent = 2, !.init = "sent3"]
           /\ pkUp' = pkUp \o [i \in 1..(2 - pk.sent) |-> Body("hello", i, 0)]
  <2>1. /\ DOMAIN pk' = PkFields /\ pk'.init = "sent3" /\ pk'.handle = pk.handle
        /\ pk'.recv = pk.recv /\ pk'.keys = pk.keys
        /\ pk'.op = pk.op /\ pk'.req = pk.req /\ pk'.key = pk.key /\ pk'.n = pk.n
        /\ pk'.result = pk.result
    BY <1>1, <1>4 DEF PkFields
  <2>2. PkTyped(pk')
    BY <1>1, <2>1 DEF PkTyped
  <2> DEFINE h == [i \in 1..(2 - pk.sent) |-> Body("hello", i, 0)]
             w == <<Body("hello", 1, 0), Body("hello", 2, 0)>>
  <2>3. /\ w \in Seq(PkPieces) /\ Len(w) = 2
        /\ w[1] = Body("hello", 1, 0) /\ w[2] = Body("hello", 2, 0)
    <3>1. "hello" \in PkKinds /\ 0 \in PkValues /\ 1 \in Nat /\ 2 \in Nat
      BY DEF PkKinds, PkValues
    <3>2. Body("hello", 1, 0) \in PkPieces /\ Body("hello", 2, 0) \in PkPieces
      BY <3>1, PieceTyped
    <3> QED
      BY <3>2
  <2>4. h = w
    <3>1. 1..(2 - pk.sent) = 1..2
      BY <1>2
    <3>2. h = [i \in 1..2 |-> Body("hello", i, 0)]
      BY <3>1
    <3> HIDE DEF h
    <3>3. DOMAIN h = 1..2 /\ h[1] = Body("hello", 1, 0) /\ h[2] = Body("hello", 2, 0)
      BY <3>2
    <3>4. h = [i \in 1..2 |-> h[i]]
      BY <3>2
    <3>5. w = [i \in 1..2 |-> w[i]]
      OBVIOUS
    <3> HIDE DEF w
    <3>6. \A i \in 1..2 : h[i] = w[i]
      BY <2>3, <3>3
    <3> QED
      BY <3>4, <3>5, <3>6
  <2> HIDE DEF h, w
  <2>5. pkUp' = w
    <3>1. pkUp' = <<>> \o w
      BY <1>2, <1>4, <2>4 DEF h
    <3> QED
      BY <2>3, <3>1, NothingFirst
  <2>6. PkShape'
    BY <1>2, <2>2, <2>3, <2>5 DEF PkShape
  <2>7. Still'
    BY <1>2, <2>1 DEF Still
  <2>8. AllIdle' /\ ~Ready'
    BY <1>2, <2>1 DEF AllIdle, Settled, Ready
  <2> QED
    BY <1>2, <2>1, <2>5, <2>6, <2>7, <2>8 DEF Greeting, w
<1> QED
  BY <1>3, <1>4 DEF PkVersion

(* Where the version is awaited.                                           *)
LEMMA Awaited ==
  ASSUME PkShape, Greeting, pk.init = "sent3", pkUp = <<>> \/ pkDown # <<>> \/ pk.recv = "sent"
  PROVE  /\ pkUp = <<>> /\ pk.handle /\ AllIdle /\ pk.result = NoResult
         /\ \E e \in 0..2 : Due(pkDown, Ahead, <<>>, <<>>, 0, 0, e, Hellos)
<1>1. <<Body("hello", 1, 0), Body("hello", 2, 0)>> # <<>>
  OBVIOUS
<1> QED
  BY <1>1 DEF Greeting, Still, Hellos

LEMMA GreetingHears ==
  ASSUME PkTroubles = {}, PkShape, Greeting, PkAgree
  PROVE  PkShape' /\ (Greeting' \/ Resting')
<1>1. PkTyped(pk) /\ DOMAIN pk = PkFields /\ pkDown \in Seq(PkPieces) /\ pk.init = "sent3"
  BY DEF PkShape, PkTyped, PkAgree
<1>2. UNCHANGED <<pkServer, pkUp>>
  BY DEF PkAgree, PkReceiveLength, PkReceiveBody, PkReceiveError
<1>3. pkDown # <<>> => Tail(pkDown) \in Seq(PkPieces) /\ Head(pkDown) \in PkPieces
  BY <1>1, HeadTailProperties
<1>4. <<>> \in Seq(PkPieces) /\ <<>> \in Seq(PkValues) /\ 0 \in Nat
  OBVIOUS
<1>5. ASSUME PkTyped(pk'), pkDown' \in Seq(PkPieces) PROVE PkShape'
  BY <1>2, <1>5 DEF PkShape
<1>6. CASE PkReceiveLength
  <2>1. /\ pk.recv = "idle" /\ pkDown # <<>> /\ pkDown' = Tail(pkDown)
        /\ pk' = [pk EXCEPT !.recv = "sent", !.packet = "held"]
    BY <1>6 DEF PkReceiveLength
  <2>2. Alike(pk, pk') /\ pk'.recv = "sent" /\ pk'.keys = pk.keys
    BY <1>1, <2>1 DEF Alike, PkFields
  <2>3. PkShape'
    BY <1>1, <1>3, <1>5, <2>1, <2>2 DEF Alike, PkTyped
  <2>4. PICK e \in 0..2 : Due(pkDown, Ahead, <<>>, <<>>, 0, 0, e, Hellos)
    BY <1>1, <2>1, Awaited
  <2>5. Due(Tail(pkDown), 1, <<>>, <<>>, 0, 0, e, Hellos)
    <3>1. Due(pkDown, 0, <<>>, <<>>, 0, 0, e, Hellos)
      BY <2>1, <2>4 DEF Ahead
    <3> QED
      BY <1>1, <1>4, <2>1, <3>1, DueLength
  <2>6. Ahead' = 1
    BY <2>2 DEF Ahead
  <2>7. AllIdle' /\ pk'.result = NoResult /\ ~Ready' /\ pk'.init = "sent3" /\ pk'.handle /\ pkUp' = <<>>
    BY <1>1, <1>2, <2>1, <2>2, Awaited DEF Alike, AllIdle, Settled, Ready
  <2> QED
    BY <2>1, <2>3, <2>5, <2>6, <2>7 DEF Greeting, Hellos
<1>7. CASE PkReceiveBody(pk, InitTake)
  <2> DEFINE p == [pk EXCEPT !.recv = "idle", !.packet = "given"]
             b == Head(pkDown)
  <2>1. /\ pk.recv = "sent" /\ pkDown # <<>> /\ pkDown' = Tail(pkDown) /\ pk' = InitTake(p, b)
    BY <1>7 DEF PkReceiveBody
  <2>2. Alike(pk, p) /\ p.recv = "idle" /\ p.keys = pk.keys /\ DOMAIN p = PkFields
    BY <1>1, RecvFields DEF Alike
  <2> HIDE DEF p
  <2>3. PICK e \in 0..2 : Due(pkDown, Ahead, <<>>, <<>>, 0, 0, e, Hellos)
    BY <1>1, <2>1, Awaited
  <2>4. Due(pkDown, 1, <<>>, <<>>, 0, 0, e, Hellos)
    BY <2>1, <2>3 DEF Ahead
  <2>50. \/ e = 2 /\ Head(pkDown).kind = "unexpected"
            /\ Due(Tail(pkDown), 0, <<>>, <<>>, 0, 0, 1, Hellos)
         \/ e = 1 /\ Head(pkDown).kind \in Hellos /\ Head(pkDown).n = 0 /\ Tail(pkDown) = <<>>
    BY <1>1, <1>4, <2>4, DueEnd
  <2>5. \/ e = 2 /\ b.kind = "unexpected" /\ Due(Tail(pkDown), 0, <<>>, <<>>, 0, 0, 1, Hellos)
        \/ e = 1 /\ b.kind \in Hellos /\ Tail(pkDown) = <<>>
    BY <2>50
  <2> HIDE DEF b
  <2>6. AllIdle /\ pk.result = NoResult /\ pk.handle /\ pkUp' = <<>>
    BY <1>1, <1>2, <2>1, Awaited
  <2>7. CASE b.kind = "unexpected" /\ Due(Tail(pkDown), 0, <<>>, <<>>, 0, 0, 1, Hellos)
    <3>1. pk' = FreePacket(p)
      BY <2>1, <2>7 DEF InitTake
    <3>2. Alike(p, pk') /\ pk'.recv = "idle" /\ pk'.keys = pk.keys
      BY <2>2, <3>1, FreeFields
    <3>3. Alike(pk, pk')
      BY <2>2, <3>2 DEF Alike
    <3>4. PkShape'
      BY <1>1, <1>3, <1>5, <2>1, <3>2, <3>3 DEF Alike, PkTyped
    <3>5. Ahead' = 0
      BY <3>2 DEF Ahead
    <3>6. AllIdle' /\ pk'.result = NoResult /\ ~Ready' /\ pk'.init = "sent3" /\ pk'.handle
      BY <1>1, <2>6, <3>3 DEF Alike, AllIdle, Settled, Ready
    <3> QED
      BY <2>1, <2>6, <2>7, <3>4, <3>5, <3>6 DEF Greeting, Hellos
  <2>8. CASE b.kind = "version" /\ Tail(pkDown) = <<>>
    <3> DEFINE f == FreePacket(p)
               v == IF b.v > 2 THEN 2 ELSE b.v
    <3>1. pk' = [f EXCEPT !.init = "idle", !.version = v]
      BY <2>1, <2>8 DEF InitTake
    <3>2. Alike(p, f) /\ f.recv = "idle" /\ f.keys = pk.keys
      BY <2>2, FreeFields
    <3> HIDE DEF f, v
    <3>3. /\ DOMAIN pk' = PkFields /\ pk'.init = "idle" /\ pk'.handle = f.handle /\ pk'.recv = f.recv
          /\ pk'.op = f.op /\ pk'.req = f.req /\ pk'.key = f.key /\ pk'.n = f.n /\ pk'.keys = f.keys
          /\ pk'.result = f.result
      BY <3>1, <3>2 DEF Alike, PkFields
    <3>4. /\ pk'.handle = pk.handle /\ pk'.recv = "idle" /\ pk'.op = pk.op /\ pk'.req = pk.req
          /\ pk'.key = pk.key /\ pk'.n = pk.n /\ pk'.keys = pk.keys /\ pk'.result = pk.result
      BY <2>2, <3>2, <3>3 DEF Alike
    <3>5. PkShape'
      BY <1>1, <1>3, <1>5, <2>1, <3>3, <3>4 DEF PkTyped
    <3>6. VerdictIsOwn'
      BY <2>6, <3>4, VerdictNone
    <3> QED
      BY <2>1, <2>6, <2>8, <3>3, <3>4, <3>5, <3>6 DEF Resting, AllIdle, Settled, Still
  <2>9. CASE b.kind \in {"status", "unknown"}
    <3> DEFINE f == FreePacket(p)
    <3>1. pk' = InitFailed(f)
      BY <2>1, <2>9 DEF InitTake
    <3>2. Alike(p, f) /\ f.recv = "idle" /\ f.keys = pk.keys
      BY <2>2, FreeFields
    <3> HIDE DEF f
    <3>3. /\ DOMAIN pk' = PkFields /\ pk'.init = "sent4" /\ pk'.recv = f.recv
          /\ pk'.op = f.op /\ pk'.req = f.req /\ pk'.key = f.key /\ pk'.n = f.n /\ pk'.keys = f.keys
          /\ pk'.result = f.result
      BY <3>1, <3>2, FailedFields DEF Alike
    <3>4. /\ pk'.recv = "idle" /\ pk'.op = pk.op /\ pk'.req = pk.req
          /\ pk'.key = pk.key /\ pk'.n = pk.n /\ pk'.keys = pk.keys /\ pk'.result = pk.result
      BY <2>2, <3>2, <3>3 DEF Alike
    <3>5. PkShape'
      BY <1>1, <1>3, <1>5, <2>1, <3>3, <3>4 DEF PkTyped
    <3> QED
      BY <2>6, <3>3, <3>4, <3>5 DEF Greeting, AllIdle, Settled, Ready
  <2> QED
    BY <2>5, <2>7, <2>8, <2>9 DEF Hellos
<1>8. CASE PkReceiveError(InitFailed)
  <2>1. PICK p : /\ pk' = InitFailed(p) /\ Alike(pk, p) /\ p.keys = pk.keys
                 /\ p.recv \in {"idle", "sent"}
    <3>1. CASE pk' = InitFailed(pk)
      BY <1>1, <3>1 DEF Alike, PkTyped
    <3>2. ASSUME NEW x, pk' = InitFailed([pk EXCEPT !.recv = "idle", !.packet = x])
          PROVE  \E p : /\ pk' = InitFailed(p) /\ Alike(pk, p) /\ p.keys = pk.keys
                        /\ p.recv \in {"idle", "sent"}
      <4> DEFINE p == [pk EXCEPT !.recv = "idle", !.packet = x]
      <4>1. Alike(pk, p) /\ p.keys = pk.keys /\ p.recv = "idle"
        BY <1>1 DEF Alike, PkFields
      <4>2. pk' = InitFailed(p)
        BY <3>2
      <4> QED
        BY <4>1, <4>2
    <3> QED
      BY <1>8, <3>1, <3>2 DEF PkReceiveError
  <2>2. pkDown' = pkDown \/ (pkDown # <<>> /\ pkDown' = Tail(pkDown))
    BY <1>8 DEF PkReceiveError
  <2>4. /\ DOMAIN pk' = PkFields /\ pk'.init = "sent4" /\ pk'.recv = p.recv
        /\ pk'.op = pk.op /\ pk'.req = pk.req /\ pk'.key = pk.key /\ pk'.n = pk.n
        /\ pk'.keys = pk.keys /\ pk'.result = pk.result
    BY <2>1, FailedFields DEF Alike
  <2>5. PkShape'
    <3>1. PkTyped(pk')
      BY <1>1, <2>1, <2>4 DEF PkTyped
    <3>2. pkDown' \in Seq(PkPieces)
      BY <1>1, <1>3, <2>2
    <3> QED
      BY <1>5, <3>1, <3>2
  <2> QED
    BY <2>4, <2>5 DEF Greeting, AllIdle, Settled, Ready
<1> QED
  BY <1>6, <1>7, <1>8 DEF PkAgree

----------------------------------------------------------------------------
(* add, remove and list                                                    *)

(* The stages exclude each other.                                          *)
LEMMA Staged ==
  ASSUME PkInv, Ready
  PROVE  /\ AllIdle => Resting
         /\ \A o \in PkOps : pk.op[o] = "created" => Asking(o)
         /\ \A o \in PkOps : pk.op[o] = "sent" => Waiting(o)
<1>1. ~Greeting
  BY DEF Greeting
<1>2. Resting => AllIdle
  BY DEF Resting
<1>3. ASSUME NEW x \in PkOps, Asking(x)
      PROVE  pk.op[x] = "created" /\ \A o \in PkOps : o # x => pk.op[o] \in {"idle", "lost"}
  BY <1>3 DEF Asking, OnlyOne, Settled
<1>4. ASSUME NEW x \in PkOps, Waiting(x)
      PROVE  pk.op[x] = "sent" /\ \A o \in PkOps : o # x => pk.op[o] \in {"idle", "lost"}
  BY <1>4 DEF Waiting, OnlyOne, Settled
<1>5. Resting \/ \E x \in PkOps : Asking(x) \/ Waiting(x)
  BY <1>1 DEF PkInv
<1>6. CASE Resting
  BY <1>2, <1>6 DEF AllIdle, Settled
<1>7. ASSUME NEW x \in PkOps, Asking(x)
      PROVE  /\ AllIdle => Resting
             /\ \A o \in PkOps : pk.op[o] = "created" => Asking(o)
             /\ \A o \in PkOps : pk.op[o] = "sent" => Waiting(o)
  BY <1>3, <1>7 DEF AllIdle, Settled
<1>8. ASSUME NEW x \in PkOps, Waiting(x)
      PROVE  /\ AllIdle => Resting
             /\ \A o \in PkOps : pk.op[o] = "created" => Asking(o)
             /\ \A o \in PkOps : pk.op[o] = "sent" => Waiting(o)
  BY <1>4, <1>8 DEF AllIdle, Settled
<1> QED
  BY <1>5, <1>6, <1>7, <1>8

LEMMA Requests ==
  ASSUME PkTroubles = {}, PkInv, NEW o \in PkOps, NEW k \in PkKeys, PkRequest(o, k)
  PROVE  PkInv'
<1>1. PkShape /\ PkTyped(pk) /\ DOMAIN pk = PkFields /\ Ready /\ AllIdle
  BY DEF PkInv, PkShape, PkTyped, PkRequest, AllIdle, Settled
<1>2. Resting
  BY <1>1, Staged
<1>3. /\ DOMAIN pk' = PkFields /\ pk'.init = pk.init /\ pk'.handle = pk.handle /\ pk'.recv = pk.recv
      /\ pk'.op = [pk.op EXCEPT ![o] = "created"] /\ pk'.key = [pk.key EXCEPT ![o] = k]
      /\ pk'.keys = <<>> /\ pk'.n = pk.n + 1 /\ pk'.req = [pk.req EXCEPT ![o] = pk.n + 1]
      /\ pk'.result = NoResult
  BY <1>1 DEF PkRequest, PkFields
<1>4. UNCHANGED <<pkServer, pkUp, pkDown>>
  BY DEF PkRequest
<1>5. PkTyped(pk')
  <2>1. k \in PkValues
    BY DEF PkValues
  <2>2. /\ pk.recv \in {"idle", "sent"} /\ DOMAIN pk.op = PkOps /\ DOMAIN pk.req = PkOps
        /\ DOMAIN pk.key = PkOps /\ pk.n \in Nat
        /\ \A x \in PkOps : pk.req[x] \in Nat /\ pk.key[x] \in PkValues
    BY <1>1 DEF PkTyped
  <2>3. DOMAIN pk'.op = PkOps /\ DOMAIN pk'.req = PkOps /\ DOMAIN pk'.key = PkOps
    BY <1>3, <2>2
  <2>4. pk.n + 1 \in Nat
    BY <2>2
  <2>5. \A x \in PkOps : pk'.req[x] \in Nat /\ pk'.key[x] \in PkValues
    BY <1>3, <2>1, <2>2, <2>4
  <2>6. <<>> \in Seq(PkPieces)
    OBVIOUS
  <2> QED
    BY <1>3, <2>2, <2>3, <2>4, <2>5, <2>6 DEF PkTyped
<1>6. OnlyOne(o, "created")'
  <2>1. DOMAIN pk.op = PkOps
    BY <1>1 DEF PkTyped
  <2>2. pk'.op[o] = "created" /\ \A x \in PkOps : x # o => pk'.op[x] \in {"idle", "lost"}
    BY <1>1, <1>3, <2>1 DEF AllIdle, Settled
  <2> QED
    BY <1>1, <1>3, <2>2 DEF OnlyOne, Settled, Ready
<1>7. Asking(o)'
  BY <1>2, <1>3, <1>4, <1>6 DEF Asking, Resting, Still
<1> QED
  BY <1>1, <1>4, <1>5, <1>7 DEF PkInv, PkShape

(* The request is written.                                                 *)
LEMMA Sent ==
  ASSUME PkTroubles = {}, PkInv, NEW o \in PkOps, PkSend(o),
         pk' = [pk EXCEPT !.op[o] = "sent"],
         pkUp' = Append(pkUp, Body(o, pk.req[o], pk.key[o]))
  PROVE  PkInv'
<1>1. PkShape /\ PkTyped(pk) /\ DOMAIN pk = PkFields /\ Ready /\ pk.op[o] = "created"
  BY DEF PkInv, PkShape, PkTyped, PkSend
<1>2. Asking(o)
  BY <1>1, Staged
<1>3. /\ pk' = [pk EXCEPT !.op[o] = "sent"] /\ pkUp' = Append(pkUp, Body(o, pk.req[o], pk.key[o]))
      /\ UNCHANGED <<pkServer, pkDown>>
  BY DEF PkSend
<1>4. /\ DOMAIN pk' = PkFields /\ pk'.init = pk.init /\ pk'.handle = pk.handle /\ pk'.recv = pk.recv
      /\ pk'.op = [pk.op EXCEPT ![o] = "sent"] /\ pk'.key = pk.key
      /\ pk'.keys = pk.keys /\ pk'.n = pk.n /\ pk'.req = pk.req
      /\ pk'.result = pk.result
  BY <1>1, <1>3 DEF PkFields
<1>5. DOMAIN pk.op = PkOps
  BY <1>1 DEF PkTyped
<1>6. DOMAIN pk'.op = PkOps /\ pk'.op[o] = "sent" /\ \A x \in PkOps : x # o => pk'.op[x] = pk.op[x]
  BY <1>4, <1>5
<1> DEFINE b == Body(o, pk.req[o], pk.key[o])
<1>7. b \in PkPieces
  <2>1. o \in PkKinds
    BY DEF PkOps, PkKinds
  <2>2. pk.req[o] \in Nat /\ pk.key[o] \in PkValues
    BY <1>1 DEF PkTyped
  <2> QED
    BY <2>1, <2>2, PieceTyped
<1> HIDE DEF b
<1>8. PkShape'
  <2>1. PkTyped(pk')
    BY <1>1, <1>4, <1>6 DEF PkTyped
  <2>2. pkUp' \in Seq(PkPieces)
    BY <1>1, <1>3, <1>7, AppendProperties DEF PkShape, b
  <2> QED
    BY <1>1, <1>3, <2>1, <2>2 DEF PkShape
<1>9. OnlyOne(o, "sent")'
  BY <1>2, <1>4, <1>6 DEF Asking, OnlyOne, Settled, Ready
<1>10. pkServer'.eof \/ pkUp' = <<Body(o, pk'.req[o], pk'.key[o])>>
  <2>1. CASE pkUp = <<>>
    BY <1>3, <1>4, <2>1, One
  <2> QED
    BY <1>2, <1>3, <2>1 DEF Asking
<1>11. Due(pkDown', Ahead', pk'.keys, pkServer'.told, pk'.req[o], 0, 0, {"status"})
  <2>1. pkDown' = <<>> /\ pk'.keys = <<>> /\ pk'.recv = "idle"
    BY <1>2, <1>3, <1>4 DEF Asking, Still
  <2>2. Ahead' = 0
    BY <2>1 DEF Ahead
  <2>3. pkServer'.told \in Seq(PkValues)
    BY <1>8 DEF PkShape
  <2> QED
    BY <2>1, <2>2, <2>3, DueNothing
<1>12. 0 \in 0..Len(pkServer'.told) /\ 0 \in 0..2
  <2>1. pkServer'.told \in Seq(PkValues)
    BY <1>8 DEF PkShape
  <2>2. Len(pkServer'.told) \in Nat
    BY <2>1
  <2> QED
    BY <2>2
<1>13. pk'.keys = <<>>
  BY <1>2, <1>4 DEF Asking
<1>14. Waiting(o)'
  BY <1>9, <1>10, <1>11, <1>12, <1>13 DEF Waiting
<1> QED
  BY <1>8, <1>14 DEF PkInv

(* It is written, or the write fails.                                      *)
LEMMA Sends ==
  ASSUME PkTroubles = {}, PkInv, NEW o \in PkOps, PkSend(o)
  PROVE  PkInv'
<1>1. PkShape /\ PkTyped(pk) /\ DOMAIN pk = PkFields /\ Ready /\ pk.op[o] = "created"
  BY DEF PkInv, PkShape, PkTyped, PkSend
<1>2. Asking(o)
  BY <1>1, Staged
<1>15. CASE pk' = SendFails(pk, o) /\ pkUp' = pkUp
  <2>1. /\ DOMAIN pk' = PkFields /\ pk'.init = pk.init /\ pk'.handle = pk.handle
        /\ pk'.recv = pk.recv /\ pk'.key = pk.key /\ pk'.keys = pk.keys /\ pk'.n = pk.n
        /\ pk'.req = pk.req /\ pk'.result = NoResult
        /\ pk'.op = [pk.op EXCEPT ![o] = IF o = "add" THEN "lost" ELSE "idle"]
    BY <1>1, <1>15 DEF SendFails, PkFields
  <2>2. DOMAIN pk.op = PkOps
    BY <1>1 DEF PkTyped
  <2>3. /\ DOMAIN pk'.op = PkOps /\ pk'.op[o] \in {"idle", "lost"}
        /\ \A x \in PkOps : x # o => pk'.op[x] = pk.op[x]
    BY <2>1, <2>2
  <2>4. UNCHANGED <<pkServer, pkDown>>
    BY DEF PkSend
  <2>5. PkTyped(pk')
    BY <1>1, <2>1, <2>3 DEF PkTyped
  <2>6. PkShape'
    BY <1>1, <1>15, <2>4, <2>5 DEF PkShape
  <2>7. AllIdle'
    BY <1>2, <2>3 DEF Asking, OnlyOne, AllIdle, Settled
  <2>8. Still' /\ (pkServer'.eof \/ pkUp' = <<>>) /\ pk'.init = "idle" /\ pk'.handle
    BY <1>1, <1>2, <1>15, <2>1, <2>4 DEF Asking, Still, Ready
  <2>9. VerdictIsOwn'
    BY <2>1 DEF VerdictIsOwn, NoResult
  <2> QED
    BY <2>6, <2>7, <2>8, <2>9 DEF PkInv, Resting
<1>16. CASE /\ pk' = [pk EXCEPT !.op[o] = "sent"]
            /\ pkUp' = Append(pkUp, Body(o, pk.req[o], pk.key[o]))
  BY <1>16, Sent
<1> QED
  BY <1>15, <1>16 DEF PkSend

LEMMA Shuts ==
  ASSUME PkTroubles = {}, PkInv, PkShutdown
  PROVE  PkInv'
<1>1. PkShape /\ PkTyped(pk) /\ DOMAIN pk = PkFields /\ Ready /\ AllIdle
  BY DEF PkInv, PkShape, PkTyped, PkShutdown, AllIdle, Settled
<1>2. Resting
  BY <1>1, Staged
<1>3. /\ DOMAIN pk' = PkFields /\ pk'.init = pk.init /\ pk'.failed = TRUE /\ pk'.recv = pk.recv
      /\ pk'.op = pk.op /\ pk'.key = pk.key
      /\ pk'.keys = pk.keys /\ pk'.n = pk.n /\ pk'.req = pk.req
      /\ pk'.result = pk.result
  BY <1>1 DEF PkShutdown, PkFields
<1>4. UNCHANGED <<pkServer, pkUp, pkDown>>
  BY DEF PkShutdown
<1>5. PkShape'
  <2>1. PkTyped(pk')
    BY <1>1, <1>3 DEF PkTyped
  <2> QED
    BY <1>1, <1>4, <2>1 DEF PkShape
<1>6. VerdictIsOwn'
  BY <1>2, <1>3, <1>4, VerdictKept DEF Resting
<1> QED
  BY <1>2, <1>3, <1>4, <1>5, <1>6 DEF PkInv, Resting, AllIdle, Settled, Still

LEMMA FreesList ==
  ASSUME PkTroubles = {}, PkInv, PkListFree
  PROVE  PkInv'
<1>1. PkShape /\ PkTyped(pk) /\ DOMAIN pk = PkFields /\ Ready
  BY DEF PkInv, PkShape, PkTyped, PkListFree
<1>2. Alike(pk, pk') /\ pk'.recv = pk.recv /\ pk'.keys = pk.keys
  BY <1>1 DEF PkListFree, PkFields, Alike
<1>3. UNCHANGED <<pkServer, pkUp, pkDown>>
  BY DEF PkListFree
<1>4. PkShape'
  <2>1. PkTyped(pk')
    BY <1>1, <1>2 DEF PkTyped, Alike
  <2> QED
    BY <1>1, <1>3, <2>1 DEF PkShape
<1>5. Ready' /\ Ahead' = Ahead /\ (Still => Still') /\ (AllIdle => AllIdle')
  BY <1>1, <1>2, <1>3 DEF Ready, Ahead, Still, AllIdle, Settled, Alike
<1>6. ASSUME Resting PROVE Resting'
  <2>1. VerdictIsOwn'
    BY <1>2, <1>3, <1>6, VerdictKept DEF Resting, Alike
  <2> QED
    BY <1>2, <1>3, <1>5, <1>6, <2>1 DEF Resting, Alike
<1>7. ASSUME NEW o \in PkOps, NEW st, OnlyOne(o, st) PROVE OnlyOne(o, st)'
  BY <1>2, <1>5, <1>7 DEF OnlyOne, Settled, Alike
<1>8. ASSUME NEW o \in PkOps, Asking(o) PROVE Asking(o)'
  BY <1>2, <1>3, <1>5, <1>7, <1>8 DEF Asking
<1>9. ASSUME NEW o \in PkOps, Waiting(o) PROVE Waiting(o)'
  <2>1. pk'.req = pk.req /\ pk'.key = pk.key
    BY <1>2 DEF Alike
  <2>2. OnlyOne(o, "sent")'
    BY <1>7, <1>9 DEF Waiting
  <2> QED
    BY <1>2, <1>3, <1>5, <1>9, <2>1, <2>2 DEF Waiting
<1>10. Resting \/ \E o \in PkOps : Asking(o) \/ Waiting(o)
  BY <1>1 DEF PkInv, Greeting
<1> QED
  BY <1>4, <1>6, <1>8, <1>9, <1>10 DEF PkInv

(* What a call that waits for its response relies on.                      *)
Owed(o, c, e) ==
  /\ Due(pkDown, Ahead, pk.keys, pkServer.told, pk.req[o], c, e, {"status"})
  /\ o # "list" => c = 0
  /\ \/ pkServer.eof
     \/ e > 0 /\ pkUp = <<>>
     \/ /\ e = 0 /\ c = 0 /\ pk.keys = <<>>
        /\ pkUp = <<Body(o, pk.req[o], pk.key[o])>>
     \/ /\ e = 0 /\ o = "list"
        /\ pkUp = <<Body("listed", pk.req[o], 0)>>

LEMMA Waits ==
  ASSUME NEW o \in PkOps
  PROVE  Waiting(o) <=> /\ OnlyOne(o, "sent")
                        /\ \E c \in 0..Len(pkServer.told), e \in 0..2 : Owed(o, c, e)
  BY DEF Waiting, Owed

(* The response is over: o is idle again.                                  *)
LEMMA Finishes ==
  ASSUME PkShape, NEW o \in PkOps, OnlyOne(o, "sent"),
         NEW p, PkTyped(p), p.init = pk.init, p.handle = pk.handle, p.recv = "idle",
         p.op = pk.op, p.req = pk.req, p.key = pk.key, p.n = pk.n,
         NEW b, NEW f, f = Finished(p, o, b), b.n = pk.req[o],
         b.v = 0 /\ o = "list" =>
           /\ Len(p.keys) <= Len(pkServer.told)
           /\ \A i \in 1..Len(p.keys) :
                p.keys[i] = Body("key", pk.req[o],
                                 pkServer.told[Len(pkServer.told) - Len(p.keys) + i]),
         Alike(f, pk'), pk'.recv = f.recv, pk'.keys = f.keys,
         pkDown' = <<>>, UNCHANGED <<pkServer, pkUp>>, pkServer.eof \/ pkUp = <<>>
  PROVE  PkInv'
<1>1. /\ DOMAIN f = PkFields /\ f.init = p.init /\ f.handle = p.handle /\ f.failed = p.failed
      /\ DOMAIN f.op = PkOps /\ f.op[o] = "idle"
      /\ \A x \in PkOps : x # o => f.op[x] = p.op[x]
      /\ f.recv = p.recv /\ f.req = p.req /\ f.key = p.key /\ f.n = p.n /\ f.keys = p.keys
      /\ f.result = [op |-> o, req |-> p.req[o], ans |-> b.n, ok |-> b.v = 0,
                     keys |-> IF o = "list" /\ b.v = 0 THEN p.keys ELSE <<>>]
  <2> DEFINE q == Finished(p, o, b)
  <2>1. /\ DOMAIN q = PkFields /\ q.init = p.init /\ q.handle = p.handle /\ q.failed = p.failed
        /\ DOMAIN q.op = PkOps /\ q.op[o] = "idle"
        /\ \A x \in PkOps : x # o => q.op[x] = p.op[x]
        /\ q.recv = p.recv /\ q.req = p.req /\ q.key = p.key /\ q.n = p.n /\ q.keys = p.keys
        /\ q.result = [op |-> o, req |-> p.req[o], ans |-> b.n, ok |-> b.v = 0,
                       keys |-> IF o = "list" /\ b.v = 0 THEN p.keys ELSE <<>>]
    BY FinishedFields
  <2>2. f = q
    OBVIOUS
  <2> HIDE DEF q
  <2> QED
    BY <2>1, <2>2
<1>2. /\ DOMAIN pk' = PkFields /\ pk'.init = f.init /\ pk'.handle = f.handle
      /\ pk'.op = f.op /\ pk'.req = f.req /\ pk'.key = f.key /\ pk'.n = f.n /\ pk'.result = f.result
  BY DEF Alike
<1>3. PkTyped(pk')
  BY <1>1, <1>2 DEF PkTyped
<1>4. PkShape'
  <2>1. pkDown' \in Seq(PkPieces)
    OBVIOUS
  <2> QED
    BY <1>3, <2>1 DEF PkShape
<1>5. AllIdle'
  BY <1>1, <1>2 DEF AllIdle, OnlyOne, Settled
<1>6. VerdictIsOwn'
  <2> DEFINE r == pk'.result
             t == pkServer.told
  <2>1. r.op = o /\ r.req = pk.req[o] /\ r.ans = pk.req[o] /\ r.ok = (b.v = 0)
    BY <1>1, <1>2
  <2>2. r.keys = IF o = "list" /\ b.v = 0 THEN p.keys ELSE <<>>
    BY <1>1, <1>2
  <2>3. pkServer'.told = t
    OBVIOUS
  <2> HIDE DEF r, t
  <2>4. ASSUME r.op = "list", r.ok
        PROVE  /\ Len(r.keys) <= Len(t)
               /\ \A i \in 1..Len(r.keys) : r.keys[i] = Body("key", r.req, t[Len(t) - Len(r.keys) + i])
    <3>1. r.keys = p.keys /\ b.v = 0 /\ o = "list"
      BY <2>1, <2>2, <2>4
    <3>2. /\ Len(p.keys) <= Len(t)
          /\ \A i \in 1..Len(p.keys) : p.keys[i] = Body("key", pk.req[o], t[Len(t) - Len(p.keys) + i])
      BY <3>1 DEF t
    <3>3. r.req = pk.req[o]
      BY <2>1
    <3> QED
      BY ONLY <3>1, <3>2, <3>3
  <2> QED
    BY <2>1, <2>3, <2>4 DEF VerdictIsOwn, r
<1> QED
  BY <1>1, <1>2, <1>4, <1>5, <1>6 DEF PkInv, Resting, Still, OnlyOne, Settled, Ready

LEMMA HearsLength ==
  ASSUME PkTroubles = {}, PkInv, NEW o \in PkOps, Ready, pk.op[o] = "sent", PkReceiveLength
  PROVE  PkInv'
<1>1. PkShape /\ PkTyped(pk) /\ DOMAIN pk = PkFields /\ pkDown \in Seq(PkPieces)
  BY DEF PkInv, PkShape, PkTyped
<1>2. Waiting(o)
  BY Staged
<1>3. PICK c \in 0..Len(pkServer.told), e \in 0..2 : Owed(o, c, e)
  BY <1>2, Waits
<1>4. /\ pk.recv = "idle" /\ pkDown # <<>> /\ pkDown' = Tail(pkDown)
      /\ pk' = [pk EXCEPT !.recv = "sent", !.packet = "held"] /\ UNCHANGED <<pkServer, pkUp>>
  BY DEF PkReceiveLength
<1>5. Alike(pk, pk') /\ pk'.recv = "sent" /\ pk'.keys = pk.keys
  BY <1>1, <1>4 DEF Alike, PkFields
<1>6. PkShape'
  <2>1. PkTyped(pk')
    BY <1>1, <1>5 DEF PkTyped, Alike
  <2>2. pkDown' \in Seq(PkPieces)
    BY <1>1, <1>4, HeadTailProperties
  <2> QED
    BY <1>1, <1>4, <2>1, <2>2 DEF PkShape
<1>7. Due(pkDown', 1, pk.keys, pkServer.told, pk.req[o], c, e, {"status"})
  <2>1. Due(pkDown, 0, pk.keys, pkServer.told, pk.req[o], c, e, {"status"})
    BY <1>3, <1>4 DEF Owed, Ahead
  <2>2. pk.keys \in Seq(PkPieces) /\ pkServer.told \in Seq(PkValues)
    BY <1>1 DEF PkShape, PkTyped
  <2>3. c \in Nat
    BY <2>2
  <2> QED
    BY <1>1, <1>4, <2>1, <2>2, <2>3, DueLength
<1>8. Ahead' = 1 /\ pk'.req = pk.req /\ pk'.key = pk.key
  BY <1>5 DEF Ahead, Alike
<1>9. Owed(o, c, e)'
  BY <1>3, <1>4, <1>5, <1>7, <1>8 DEF Owed
<1>10. OnlyOne(o, "sent")'
  BY <1>2, <1>5 DEF Waiting, OnlyOne, Settled, Alike, Ready
<1>11. Waiting(o)'
  BY <1>4, <1>9, <1>10 DEF Waiting, Owed
<1> QED
  BY <1>6, <1>11 DEF PkInv

LEMMA HearsBody ==
  ASSUME PkTroubles = {}, PkInv, NEW o \in PkOps, Ready, pk.op[o] = "sent",
         pk.recv = "sent", pkDown # <<>>, pkDown' = Tail(pkDown), UNCHANGED <<pkServer, pkUp>>,
         pk' = IF o = "list"
               THEN ListTake([pk EXCEPT !.recv = "idle", !.packet = "given"], Head(pkDown))
               ELSE SuccessTake([pk EXCEPT !.recv = "idle", !.packet = "given"], o, Head(pkDown))
  PROVE  PkInv'
<1> DEFINE p == [pk EXCEPT !.recv = "idle", !.packet = "given"]
           b == Head(pkDown)
<1>1. PkShape /\ PkTyped(pk) /\ DOMAIN pk = PkFields /\ pkDown \in Seq(PkPieces)
  BY DEF PkInv, PkShape, PkTyped
<1>2. Waiting(o)
  BY Staged
<1>3. PICK c \in 0..Len(pkServer.told), e \in 0..2 : Owed(o, c, e)
  BY <1>2, Waits
<1>4. /\ pk.recv = "sent" /\ pkDown # <<>> /\ pkDown' = Tail(pkDown) /\ UNCHANGED <<pkServer, pkUp>>
      /\ pk' = IF o = "list" THEN ListTake(p, b) ELSE SuccessTake(p, o, b)
  OBVIOUS
<1>5. Alike(pk, p) /\ p.recv = "idle" /\ p.keys = pk.keys /\ DOMAIN p = PkFields
  BY <1>1 DEF Alike, PkFields
<1> HIDE DEF p
<1>6. PkTyped(p)
  BY <1>1, <1>5 DEF PkTyped, Alike
<1>7. Tail(pkDown) \in Seq(PkPieces) /\ b \in PkPieces
  BY <1>1, <1>4, HeadTailProperties
<1>8. /\ pk.keys \in Seq(PkPieces) /\ pkServer.told \in Seq(PkValues) /\ Len(pkServer.told) \in Nat
      /\ c \in Nat /\ c <= Len(pkServer.told)
  <2>1. pk.keys \in Seq(PkPieces) /\ pkServer.told \in Seq(PkValues)
    BY <1>1 DEF PkShape, PkTyped
  <2>2. Len(pkServer.told) \in Nat
    BY <2>1
  <2> QED
    BY <2>1, <2>2
<1>9. Due(pkDown, 1, pk.keys, pkServer.told, pk.req[o], c, e, {"status"})
  BY <1>3, <1>4 DEF Owed, Ahead
<1>10. ASSUME PkTyped(pk') PROVE PkShape'
  BY <1>1, <1>4, <1>7, <1>10 DEF PkShape
<1>11. ASSUME Alike(p, pk') PROVE OnlyOne(o, "sent")' /\ pk'.req = pk.req /\ pk'.key = pk.key
  <2>1. /\ pk'.init = pk.init /\ pk'.handle = pk.handle /\ pk'.op = pk.op /\ pk'.req = pk.req
        /\ pk'.key = pk.key /\ pk'.result = pk.result
    BY <1>5, <1>11 DEF Alike
  <2>2. OnlyOne(o, "sent")
    BY <1>2 DEF Waiting
  <2> QED
    BY <2>1, <2>2 DEF OnlyOne, Settled, Ready
<1>12. CASE c > 0
  <2> DEFINE ks == Append(pk.keys, Head(pkDown))
  <2>1. /\ Head(pkDown).kind = "key"
        /\ Due(Tail(pkDown), 0, ks, pkServer.told, pk.req[o], c - 1, e, {"status"})
    BY <1>1, <1>8, <1>9, <1>12, DueKey
  <2>2. ks \in Seq(PkPieces)
    BY <1>7, <1>8, AppendProperties
  <2>3. o = "list"
    BY <1>3, <1>12 DEF Owed
  <2>4. pk' = [p EXCEPT !.keys = Append(p.keys, b)]
    BY <1>4, <2>1, <2>3 DEF ListTake
  <2>5. pk' = [p EXCEPT !.keys = ks]
    BY <1>5, <2>4
  <2> HIDE DEF ks
  <2>6. Alike(p, pk') /\ pk'.keys = ks /\ pk'.recv = p.recv
    BY <1>5, <2>5 DEF Alike, PkFields
  <2>7. PkTyped(pk')
    BY <1>5, <1>6, <2>2, <2>6 DEF PkTyped, Alike
  <2>8. Ahead' = 0
    BY <1>5, <2>6 DEF Ahead
  <2>9. Due(pkDown', Ahead', pk'.keys, pkServer'.told, pk'.req[o], c - 1, e, {"status"})
    BY <1>4, <1>11, <2>1, <2>6, <2>8
  <2>10. pkServer.eof \/ (e > 0 /\ pkUp = <<>>) \/ (e = 0 /\ pkUp = <<Body("listed", pk.req[o], 0)>>)
    BY <1>3, <1>12 DEF Owed
  <2>11. Owed(o, c - 1, e)'
    BY <1>4, <1>11, <2>3, <2>6, <2>9, <2>10 DEF Owed
  <2>12. c - 1 \in 0..Len(pkServer'.told)
    BY <1>4, <1>8, <1>12
  <2>13. Waiting(o)'
    BY <1>11, <2>6, <2>11, <2>12 DEF Waiting, Owed
  <2> QED
    BY <1>10, <2>7, <2>13 DEF PkInv
<1>13. CASE c = 0
  <2>1. \/ e = 2 /\ Head(pkDown).kind = "unexpected"
           /\ Due(Tail(pkDown), 0, pk.keys, pkServer.told, pk.req[o], 0, 1, {"status"})
        \/ e = 1 /\ Head(pkDown).kind \in {"status"} /\ Head(pkDown).n = pk.req[o]
           /\ Tail(pkDown) = <<>>
    <3>1. Due(pkDown, 1, pk.keys, pkServer.told, pk.req[o], 0, e, {"status"})
      BY <1>9, <1>13
    <3> QED
      BY <1>1, <1>8, <3>1, DueEnd
  <2>2. e > 0 /\ (pkServer.eof \/ pkUp = <<>>)
    BY <1>3, <2>1 DEF Owed
  <2>3. CASE /\ Head(pkDown).kind = "unexpected"
             /\ Due(Tail(pkDown), 0, pk.keys, pkServer.told, pk.req[o], 0, 1, {"status"})
    <3>1. pk' = FreePacket(p)
      BY <1>4, <2>3 DEF ListTake, SuccessTake
    <3>2. Alike(p, pk') /\ pk'.keys = pk.keys /\ pk'.recv = p.recv
      BY <1>5, <3>1, FreeFields
    <3>3. PkTyped(pk')
      BY <1>5, <1>6, <1>8, <3>2 DEF PkTyped, Alike
    <3>4. Ahead' = 0
      BY <1>5, <3>2 DEF Ahead
    <3>5. Owed(o, 0, 1)'
      BY <1>4, <1>11, <2>2, <2>3, <3>2, <3>4 DEF Owed
    <3>6. 0 \in 0..Len(pkServer'.told) /\ 1 \in 0..2
      BY <1>4, <1>8
    <3>7. Waiting(o)'
      BY <1>11, <3>2, <3>5, <3>6 DEF Waiting, Owed
    <3> QED
      BY <1>10, <3>3, <3>7 DEF PkInv
  <2>4. CASE Head(pkDown).kind = "status" /\ Head(pkDown).n = pk.req[o] /\ Tail(pkDown) = <<>>
    <3> DEFINE f == Finished(p, o, b)
    <3>1. pk' = FreePacket(f)
      BY <1>4, <2>4 DEF ListTake, SuccessTake
    <3>2. DOMAIN Finished(p, o, b) = PkFields
      BY <1>6 DEF Finished, PkTyped
    <3>3. Alike(f, pk') /\ pk'.recv = f.recv /\ pk'.keys = f.keys
      BY <3>1, <3>2, FreeFields
    <3>4. /\ Len(p.keys) <= Len(pkServer.told)
          /\ \A i \in 1..Len(p.keys) :
               p.keys[i] = Body("key", pk.req[o], pkServer.told[Len(pkServer.told) - Len(p.keys) + i])
      <4>1. /\ c + Len(pk.keys) <= Len(pkServer.told)
            /\ \A i \in 1..Len(pk.keys) :
                 pk.keys[i] = Body("key", pk.req[o],
                                   pkServer.told[Len(pkServer.told) - c - Len(pk.keys) + i])
        BY <1>9 DEF Due
      <4>2. Len(pk.keys) \in Nat
        BY <1>8
      <4>3. c + Len(pk.keys) = Len(pk.keys) /\ Len(pkServer.told) - c = Len(pkServer.told)
        BY <1>8, <1>13, <4>2
      <4> QED
        BY <1>5, <4>1, <4>3
    <3>5. OnlyOne(o, "sent")
      BY <1>2 DEF Waiting
    <3>6. pkDown' = <<>> /\ b.n = pk.req[o]
      BY <1>4, <2>4
    <3>7. /\ p.init = pk.init /\ p.handle = pk.handle /\ p.op = pk.op /\ p.req = pk.req
          /\ p.key = pk.key /\ p.n = pk.n
      BY <1>5 DEF Alike
    <3> QED
      BY <1>1, <1>4, <1>5, <1>6, <2>2, <3>3, <3>4, <3>5, <3>6, <3>7, Finishes
  <2> QED
    BY <2>1, <2>3, <2>4
<1> QED
  BY <1>8, <1>12, <1>13

(* No piece is taken for another: the first is a length when one is due,   *)
(* and a body, whole, when one is due.                                     *)
LEMMA NoNoise ==
  ASSUME PkInv, NEW o \in PkOps, Ready, pk.op[o] = "sent", pkDown # <<>>
  PROVE  /\ pk.recv = "idle" => Head(pkDown) = Length
         /\ pk.recv = "sent" => Head(pkDown) # Half
<1>1. PkShape /\ pkDown \in Seq(PkPieces)
  BY DEF PkInv, PkShape
<1>2. PICK c \in 0..Len(pkServer.told), e \in 0..2 : Owed(o, c, e)
  BY Staged, Waits
<1>3. pk.keys \in Seq(PkPieces) /\ pkServer.told \in Seq(PkValues)
  BY <1>1 DEF PkShape, PkTyped
<1>4. Len(pkServer.told) \in Nat
  BY <1>3
<1>5. c \in Nat
  BY <1>4
<1>6. ASSUME pk.recv = "idle" PROVE Head(pkDown) = Length
  <2>1. Due(pkDown, 0, pk.keys, pkServer.told, pk.req[o], c, e, {"status"})
    BY <1>2, <1>6 DEF Owed, Ahead
  <2> QED
    BY <1>1, <1>3, <1>5, <2>1, DueLength
<1>7. ASSUME pk.recv = "sent" PROVE Head(pkDown) # Half
  <2>1. Due(pkDown, 1, pk.keys, pkServer.told, pk.req[o], c, e, {"status"})
    BY <1>2, <1>7 DEF Owed, Ahead
  <2>2. Head(pkDown).kind \in {"key", "unexpected", "status"}
    <3>1. CASE c > 0
      BY <1>1, <1>3, <1>5, <2>1, <3>1, DueKey
    <3>2. CASE c = 0
      <4>1. Due(pkDown, 1, pk.keys, pkServer.told, pk.req[o], 0, e, {"status"})
        BY <2>1, <3>2
      <4> QED
        BY <1>1, <1>3, <4>1, DueEnd
    <3> QED
      BY <1>5, <3>1, <3>2
  <2> QED
    BY <2>2 DEF Half, Body
<1> QED
  BY <1>6, <1>7

LEMMA Loses ==
  ASSUME PkTroubles = {}, PkInv, NEW o \in PkOps, Ready, pk.op[o] = "sent",
         pkDown = <<>>, pkServer.eof, UNCHANGED <<pkServer, pkUp, pkDown>>,
         NEW x, pk' = Gave([pk EXCEPT !.recv = "idle", !.packet = x], o)
  PROVE  PkInv'
<1> DEFINE p == [pk EXCEPT !.recv = "idle", !.packet = x]
           b == Body("status", p.req[o], 1)
           f == Finished(p, o, b)
<1>1. PkShape /\ PkTyped(pk) /\ DOMAIN pk = PkFields
  BY DEF PkInv, PkShape, PkTyped
<1>2. Alike(pk, p) /\ p.recv = "idle" /\ p.keys = pk.keys
  BY <1>1 DEF Alike, PkFields
<1>3. pk' = Finished(p, o, Body("status", p.req[o], 1))
  BY DEF Gave
<1> HIDE DEF p
<1>4. PkTyped(p)
  BY <1>1, <1>2 DEF PkTyped, Alike
<1>5. /\ p.init = pk.init /\ p.handle = pk.handle /\ p.op = pk.op /\ p.req = pk.req
      /\ p.key = pk.key /\ p.n = pk.n
  BY <1>2 DEF Alike
<1>6. b.n = pk.req[o] /\ b.v # 0
  BY <1>5 DEF Body
<1> HIDE DEF b
<1>7. pk' = f
  BY <1>3 DEF b
<1>8. DOMAIN Finished(p, o, b) = PkFields
  BY <1>4 DEF Finished, PkTyped
<1>9. Alike(f, pk') /\ pk'.recv = f.recv /\ pk'.keys = f.keys
  BY <1>7, <1>8 DEF Alike
<1>10. OnlyOne(o, "sent")
  BY Staged DEF Waiting
<1>11. pkDown' = <<>>
  OBVIOUS
<1> QED
  BY <1>1, <1>2, <1>4, <1>5, <1>6, <1>9, <1>10, <1>11, Finishes

LEMMA Hears ==
  ASSUME PkTroubles = {}, PkInv, NEW o \in PkOps, PkAnswer(o)
  PROVE  PkInv'
<1>1. Ready /\ pk.op[o] = "sent"
  BY DEF PkAnswer
<1>2. \/ PkReceiveLength
      \/ /\ pk.recv = "sent" /\ pkDown # <<>> /\ pkDown' = Tail(pkDown) /\ UNCHANGED <<pkServer, pkUp>>
         /\ pk' = IF o = "list"
                  THEN ListTake([pk EXCEPT !.recv = "idle", !.packet = "given"], Head(pkDown))
                  ELSE SuccessTake([pk EXCEPT !.recv = "idle", !.packet = "given"], o, Head(pkDown))
      \/ pk.recv = "idle" /\ pkDown # <<>> /\ Head(pkDown) # Length
      \/ pk.recv = "sent" /\ pkDown # <<>> /\ Head(pkDown) = Half
      \/ /\ pkDown = <<>> /\ pkServer.eof /\ UNCHANGED <<pkServer, pkUp, pkDown>>
         /\ pk' = Gave([pk EXCEPT !.recv = "idle", !.packet =
                          IF pk.recv = "sent" THEN "null" ELSE pk.packet], o)
  BY DEF PkAnswer, PkReceiveBody, PkReceiveError
<1> QED
  BY <1>1, <1>2, HearsLength, HearsBody, NoNoise, Loses

LEMMA Forgets ==
  ASSUME PkTroubles = {}, PkInv, PkWouldBlock
  PROVE  PkInv'
<1> DEFINE o == "list"
<1>1. PkShape /\ PkTyped(pk) /\ DOMAIN pk = PkFields /\ Ready /\ pk.op[o] = "sent" /\ o \in PkOps
  BY DEF PkInv, PkShape, PkTyped, PkWouldBlock, PkOps
<1> HIDE DEF o
<1>2. Waiting(o)
  BY <1>1, Staged
<1>3. PICK c \in 0..Len(pkServer.told), e \in 0..2 : Owed(o, c, e)
  BY <1>1, <1>2, Waits
<1>4. /\ pkDown = <<>> /\ pk.keys # <<>> /\ pk' = [pk EXCEPT !.keys = <<>>]
      /\ UNCHANGED <<pkServer, pkUp, pkDown>>
  BY DEF PkWouldBlock
<1>5. Alike(pk, pk') /\ pk'.keys = <<>> /\ pk'.recv = pk.recv
  BY <1>1, <1>4 DEF Alike, PkFields
<1>6. PkShape'
  <2>1. <<>> \in Seq(PkPieces)
    OBVIOUS
  <2>2. PkTyped(pk')
    BY <1>1, <1>5, <2>1 DEF PkTyped, Alike
  <2> QED
    BY <1>1, <1>4, <2>2 DEF PkShape
<1>7. pk.keys \in Seq(PkPieces) /\ pkServer.told \in Seq(PkValues) /\ Len(pkServer.told) \in Nat
  <2>1. pk.keys \in Seq(PkPieces) /\ pkServer.told \in Seq(PkValues)
    BY <1>1 DEF PkShape, PkTyped
  <2> QED
    BY <2>1
<1>8. Ahead = 0 /\ c = 0 /\ e = 0
  <2>1. Due(<<>>, Ahead, pk.keys, pkServer.told, pk.req[o], c, e, {"status"})
    BY <1>3, <1>4 DEF Owed
  <2>2. Ahead \in 0..1 /\ c \in Nat
    BY <1>7 DEF Ahead
  <2> QED
    BY <1>7, <2>1, <2>2, DueTaken
<1>9. Ahead' = 0 /\ pk'.req = pk.req /\ pk'.key = pk.key
  BY <1>5, <1>8 DEF Ahead, Alike
<1>10. Due(<<>>, 0, <<>>, pkServer.told, pk.req[o], 0, 0, {"status"})
  BY <1>7, DueNothing
<1>11. Owed(o, 0, 0)'
  BY <1>3, <1>4, <1>5, <1>8, <1>9, <1>10 DEF Owed
<1>12. 0 \in 0..Len(pkServer'.told) /\ 0 \in 0..2
  BY <1>4, <1>7
<1>13. OnlyOne(o, "sent")'
  BY <1>2, <1>5 DEF Waiting, OnlyOne, Settled, Alike, Ready
<1>14. Waiting(o)'
  BY <1>11, <1>12, <1>13 DEF Waiting, Owed
<1> QED
  BY <1>1, <1>6, <1>14 DEF PkInv

----------------------------------------------------------------------------
(* The subsystem                                                           *)

(* It only speaks when it was asked.                                       *)
LEMMA Asked ==
  ASSUME PkInv, ~pkServer.eof, pkUp # <<>>
  PROVE  \/ Greeting
         \/ \E o \in PkOps : /\ OnlyOne(o, "sent") /\ pk.req[o] \in Nat
                             /\ \/ /\ Owed(o, 0, 0) /\ pkUp = <<Body(o, pk.req[o], pk.key[o])>>
                                   /\ pkDown = <<>> /\ Ahead = 0 /\ pk.keys = <<>>
                                \/ /\ o = "list" /\ pkUp = <<Body("listed", pk.req[o], 0)>>
                                   /\ \E c \in 0..Len(pkServer.told) : Owed(o, c, 0)
<1>1. ~Resting /\ \A o \in PkOps : ~Asking(o)
  BY DEF Resting, Asking
<1>2. ASSUME NEW o \in PkOps, Waiting(o)
      PROVE  /\ OnlyOne(o, "sent") /\ pk.req[o] \in Nat
             /\ \/ /\ Owed(o, 0, 0) /\ pkUp = <<Body(o, pk.req[o], pk.key[o])>>
                   /\ pkDown = <<>> /\ Ahead = 0 /\ pk.keys = <<>>
                \/ /\ o = "list" /\ pkUp = <<Body("listed", pk.req[o], 0)>>
                   /\ \E c \in 0..Len(pkServer.told) : Owed(o, c, 0)
  <2>1. OnlyOne(o, "sent") /\ pk.req[o] \in Nat
    BY <1>2 DEF PkInv, PkShape, PkTyped, Waiting
  <2>2. PICK c \in 0..Len(pkServer.told), e \in 0..2 : Owed(o, c, e)
    BY <1>2, Waits
  <2>3. \/ e = 0 /\ c = 0 /\ pk.keys = <<>> /\ pkUp = <<Body(o, pk.req[o], pk.key[o])>>
        \/ e = 0 /\ o = "list" /\ pkUp = <<Body("listed", pk.req[o], 0)>>
    BY <2>2 DEF Owed
  <2>4. CASE e = 0 /\ c = 0 /\ pk.keys = <<>> /\ pkUp = <<Body(o, pk.req[o], pk.key[o])>>
    <3>1. Owed(o, 0, 0)
      BY <2>2, <2>4
    <3>2. Len(pkDown) = 2 * (0 + 0) - Ahead
      BY <3>1 DEF Owed, Due
    <3>3. pkDown \in Seq(PkPieces) /\ Len(pkDown) \in Nat
      <4>1. pkDown \in Seq(PkPieces)
        BY DEF PkInv, PkShape
      <4> QED
        BY <4>1
    <3>31. Ahead = 0 \/ Ahead = 1
      BY DEF Ahead
    <3>4. Ahead = 0 /\ Len(pkDown) = 0
      BY <3>2, <3>3, <3>31
    <3>5. pkDown = <<>>
      BY <3>3, <3>4, EmptySeq
    <3> QED
      BY <2>1, <2>4, <3>1, <3>4, <3>5
  <2>5. CASE e = 0 /\ o = "list" /\ pkUp = <<Body("listed", pk.req[o], 0)>>
    BY <2>1, <2>2, <2>5
  <2> QED
    BY <2>3, <2>4, <2>5
<1> QED
  BY <1>1, <1>2 DEF PkInv

(* A response that ends the request is said.                               *)
LEMMA SaysStatus ==
  ASSUME PkTroubles = {}, PkInv, NEW o \in PkOps, OnlyOne(o, "sent"),
         NEW c \in 0..Len(pkServer.told), Owed(o, c, 0),
         NEW v \in PkValues, Says(Body("status", pk.req[o], v)),
         pk' = pk, pkUp' = <<>>, DOMAIN pkServer' = {"keys", "eof", "hello", "told"},
         pkServer'.told = pkServer.told, pkServer'.keys \in SUBSET PkValues,
         IsFiniteSet(pkServer'.keys)
  PROVE  PkInv'
<1> DEFINE b == Body("status", pk.req[o], v)
<1>1. PkShape /\ pkDown \in Seq(PkPieces) /\ pk.keys \in Seq(PkPieces)
      /\ pkServer.told \in Seq(PkValues) /\ pk.req[o] \in Nat
  BY DEF PkInv, PkShape, PkTyped
<1>2. b \in PkPieces
  <2>1. "status" \in PkKinds
    BY DEF PkKinds
  <2> QED
    BY <1>1, <2>1, PieceTyped
<1>3. b.kind = "status" /\ b.n = pk.req[o]
  BY DEF Body
<1>4. Says(b)
  OBVIOUS
<1> HIDE DEF b
<1>5. pkDown' \in Seq(PkPieces)
  BY <1>1, <1>2, <1>4, SaysTyped
<1>6. Len(pkServer.told) \in Nat
  BY <1>1
<1>7. PICK e \in 1..2 : Due(pkDown', Ahead, pk.keys, pkServer.told, pk.req[o], c, e, {"status"})
  <2>1. Due(pkDown, Ahead, pk.keys, pkServer.told, b.n, c, 0, {"status"})
    BY <1>3 DEF Owed
  <2>2. Ahead \in 0..1 /\ c \in Nat
    BY <1>6 DEF Ahead
  <2>3. \E e \in 1..2 : Due(pkDown', Ahead, pk.keys, pkServer.told, b.n, c, e, {"status"})
    BY <1>1, <1>2, <1>3, <1>4, <2>1, <2>2, DueSays
  <2> QED
    BY <1>3, <2>3
<1>8. Ahead' = Ahead
  BY DEF Ahead
<1>9. Owed(o, c, e)'
  <2>1. o # "list" => c = 0
    BY DEF Owed
  <2>2. e > 0
    OBVIOUS
  <2> QED
    BY <1>7, <1>8, <2>1, <2>2 DEF Owed
<1>10. PkShape'
  <2>1. <<>> \in Seq(PkPieces)
    OBVIOUS
  <2> QED
    BY <1>1, <1>5, <2>1 DEF PkShape
<1>11. OnlyOne(o, "sent")'
  BY DEF OnlyOne, Settled, Ready
<1>12. e \in 0..2 /\ c \in 0..Len(pkServer'.told)
  OBVIOUS
<1>13. Waiting(o)'
  BY <1>9, <1>11, <1>12 DEF Waiting, Owed
<1> QED
  BY <1>10, <1>13 DEF PkInv

(* Before there is a handle, and once the start has failed, what the       *)
(* subsystem says changes nothing.                                         *)
LEMMA GreetingKept ==
  ASSUME Greeting, pk' = pk, pk.init = "sent4" \/ (pk.init = "idle" /\ pk.failed)
  PROVE  Greeting'
  BY DEF Greeting, AllIdle, Settled, Ready

LEMMA OnlyHello ==
  ASSUME Greeting, pkUp # <<>>
  PROVE  \/ pk.init = "sent4" \/ (pk.init = "idle" /\ pk.failed)
         \/ /\ pk.init = "sent3" /\ pk.handle /\ Still
            /\ pkUp = <<Body("hello", 1, 0), Body("hello", 2, 0)>>
  BY DEF Greeting

LEMMA Greets ==
  ASSUME PkTroubles = {}, PkInv, ~pkServer.eof, ServerHello
  PROVE  PkInv'
<1>1. PkShape /\ pkDown \in Seq(PkPieces) /\ pkUp \in Seq(PkPieces)
  BY DEF PkInv, PkShape
<1>2. /\ pkUp # <<>> /\ Head(pkUp).kind = "hello" /\ Len(pkUp) >= 2 /\ pkUp' = Tail(Tail(pkUp))
      /\ pkServer' = [pkServer EXCEPT !.hello = <<pkUp[1], pkUp[2]>>] /\ pk' = pk
  BY DEF ServerHello
<1>3. PICK b \in PkPieces : Says(b) /\ b.kind \in Hellos /\ b.n = 0
  <2>1. ASSUME NEW k \in Hellos, NEW v \in Nat, Says(Body(k, 0, v))
        PROVE  \E b \in PkPieces : Says(b) /\ b.kind \in Hellos /\ b.n = 0
    <3>1. k \in PkKinds /\ v \in PkValues
      BY <2>1 DEF Hellos, PkKinds, PkValues
    <3>2. Body(k, 0, v) \in PkPieces
      BY <3>1, PieceTyped
    <3>3. Body(k, 0, v).kind = k /\ Body(k, 0, v).n = 0
      BY DEF Body
    <3> QED
      BY <2>1, <3>2, <3>3
  <2>2. "version" \in Hellos /\ "status" \in Hellos /\ "unknown" \in Hellos
    BY DEF Hellos
  <2>3. \E k \in Hellos, v \in Nat : Says(Body(k, 0, v))
    <3>1. CASE \E v \in 1..3 : Says(Body("version", 0, v))
      BY <2>2, <3>1
    <3>2. CASE Says(Body("status", 0, 1))
      BY <2>2, <3>2
    <3>3. CASE Says(Body("unknown", 0, 0))
      BY <2>2, <3>3
    <3> QED
      BY <3>1, <3>2, <3>3 DEF ServerHello
  <2> QED
    BY <2>1, <2>3
<1>4. PkShape'
  <2>1. pkDown' \in Seq(PkPieces)
    BY <1>1, <1>3, SaysTyped
  <2>2. Tail(Tail(pkUp)) \in Seq(PkPieces)
    <3>1. Tail(pkUp) \in Seq(PkPieces) /\ Len(Tail(pkUp)) = Len(pkUp) - 1 /\ Len(pkUp) \in Nat
      BY <1>1, <1>2, HeadTailProperties
    <3>2. Tail(pkUp) # <<>>
      <4> DEFINE q == Tail(pkUp)
      <4>1. Len(q) # 0
        BY <1>2, <3>1
      <4> HIDE DEF q
      <4>2. q # <<>>
        BY <4>1
      <4> QED
        BY <4>2 DEF q
    <3> QED
      BY <3>1, <3>2, HeadTailProperties
  <2>3. /\ DOMAIN pkServer' = {"keys", "eof", "hello", "told"}
        /\ pkServer'.keys = pkServer.keys /\ pkServer'.told = pkServer.told
    BY <1>1, <1>2 DEF PkShape
  <2> QED
    BY <1>1, <1>2, <2>1, <2>2, <2>3 DEF PkShape
<1>5. Greeting
  <2>1. ASSUME NEW o \in PkOps, pkUp = <<Body(o, pk.req[o], pk.key[o])>> PROVE FALSE
    <3>1. Head(pkUp) = Body(o, pk.req[o], pk.key[o])
      BY <2>1, One
    <3> QED
      BY <1>2, <3>1 DEF Body, PkOps
  <2>2. ASSUME NEW n, pkUp = <<Body("listed", n, 0)>> PROVE FALSE
    <3>1. Head(pkUp) = Body("listed", n, 0)
      BY <2>2, One
    <3> QED
      BY <1>2, <3>1 DEF Body
  <2> QED
    BY <1>2, <2>1, <2>2, Asked
<1>6. CASE pk.init = "sent4" \/ (pk.init = "idle" /\ pk.failed)
  BY <1>2, <1>4, <1>5, <1>6, GreetingKept DEF PkInv
<1>7. CASE /\ pk.init = "sent3" /\ pk.handle /\ Still
           /\ pkUp = <<Body("hello", 1, 0), Body("hello", 2, 0)>>
  <2>1. pkUp' = <<>>
    BY <1>2, <1>7, Two, One
  <2>2. <<>> \in Seq(PkPieces) /\ <<>> \in Seq(PkValues) /\ 0 \in Nat
    OBVIOUS
  <2>3. Due(pkDown, 0, <<>>, <<>>, 0, 0, 0, Hellos)
    BY <1>7, <2>2, DueNothing DEF Still
  <2>4. PICK e \in 1..2 : Due(pkDown', 0, <<>>, <<>>, 0, 0, e, Hellos)
    <3>1. Due(pkDown, 0, <<>>, <<>>, b.n, 0, 0, Hellos) /\ 0 \in 0..1
      BY <1>3, <2>3
    <3>2. \E e \in 1..2 : Due(pkDown', 0, <<>>, <<>>, b.n, 0, e, Hellos)
      BY <1>1, <1>3, <2>2, <3>1, DueSays
    <3> QED
      BY <1>3, <3>2
  <2>5. Ahead' = 0
    BY <1>2, <1>7 DEF Ahead, Still
  <2>6. AllIdle' /\ pk'.result = NoResult /\ ~Ready'
    BY <1>2, <1>5, <1>7 DEF Greeting, AllIdle, Settled, Ready
  <2>7. e \in 0..2
    OBVIOUS
  <2>8. Greeting'
    BY <1>2, <1>7, <2>1, <2>4, <2>5, <2>6, <2>7 DEF Greeting, Hellos
  <2> QED
    BY <1>4, <2>8 DEF PkInv
<1> QED
  BY <1>2, <1>5, <1>6, <1>7, OnlyHello

(* A request among the pieces is that of the call, or comes too late.      *)
LEMMA AnswersOne ==
  ASSUME PkTroubles = {}, PkInv, ~pkServer.eof, ServerAnswers
  PROVE  PkInv'
<1> DEFINE b == Head(pkUp)
           ok == (b.kind = "add") # (b.v \in pkServer.keys)
           v == IF ok THEN 0 ELSE 1
           K == IF ~ok THEN pkServer.keys
                ELSE IF b.kind = "add" THEN pkServer.keys \cup {b.v} ELSE pkServer.keys \ {b.v}
<1>1. PkShape /\ pkDown \in Seq(PkPieces) /\ pkUp \in Seq(PkPieces)
  BY DEF PkInv, PkShape
<1>2. /\ pkUp # <<>> /\ b.kind \in {"add", "remove"} /\ pkUp' = Tail(pkUp) /\ pk' = pk
      /\ pkServer' = [pkServer EXCEPT !.keys = K] /\ Says(Body("status", b.n, v))
  BY DEF ServerAnswers
<1>3. Tail(pkUp) \in Seq(PkPieces) /\ b \in PkPieces
  BY <1>1, <1>2, HeadTailProperties
<1>4. v \in PkValues /\ b.n \in Nat /\ b.v \in PkValues
  BY <1>3 DEF PkPieces, PkValues
<1> HIDE DEF b, v
<1>5. K \in SUBSET PkValues /\ IsFiniteSet(K)
  <2>1. pkServer.keys \in SUBSET PkValues /\ IsFiniteSet(pkServer.keys)
    BY <1>1 DEF PkShape
  <2>2. IsFiniteSet(pkServer.keys \cup {b.v}) /\ IsFiniteSet(pkServer.keys \ {b.v})
    BY <2>1, FS_AddElement, FS_RemoveElement
  <2> QED
    BY <1>4, <2>1, <2>2
<1> HIDE DEF K
<1>6. /\ DOMAIN pkServer' = {"keys", "eof", "hello", "told"} /\ pkServer'.keys = K
      /\ pkServer'.told = pkServer.told
  BY <1>1, <1>2 DEF PkShape
<1>7. CASE Greeting
  <2>1. pk.init = "sent4" \/ (pk.init = "idle" /\ pk.failed)
    <3>1. ASSUME pkUp = <<Body("hello", 1, 0), Body("hello", 2, 0)>> PROVE FALSE
      <4>1. b = Body("hello", 1, 0)
        BY <3>1, Two DEF b
      <4> QED
        BY <1>2, <4>1 DEF Body
    <3> QED
      BY <1>2, <1>7, <3>1, OnlyHello
  <2>2. Body("status", b.n, v) \in PkPieces
    <3>1. "status" \in PkKinds
      BY DEF PkKinds
    <3> QED
      BY <1>4, <3>1, PieceTyped
  <2>3. pkDown' \in Seq(PkPieces)
    BY <1>1, <1>2, <2>2, SaysTyped
  <2>4. PkShape'
    BY <1>1, <1>2, <1>3, <1>5, <1>6, <2>3 DEF PkShape
  <2> QED
    BY <1>2, <1>7, <2>1, <2>4, GreetingKept DEF PkInv
<1>8. ASSUME NEW o \in PkOps, OnlyOne(o, "sent"), Owed(o, 0, 0),
             pkUp = <<Body(o, pk.req[o], pk.key[o])>>
      PROVE  PkInv'
  <2>1. b = Body(o, pk.req[o], pk.key[o]) /\ Tail(pkUp) = <<>>
    BY <1>8, One DEF b
  <2>2. b.n = pk.req[o]
    BY <2>1 DEF Body
  <2>3. Says(Body("status", pk.req[o], v)) /\ pkUp' = <<>>
    BY <1>2, <2>1, <2>2
  <2>4. 0 \in 0..Len(pkServer.told)
    <3>1. Len(pkServer.told) \in Nat
      BY <1>1 DEF PkShape
    <3> QED
      BY <3>1
  <2> QED
    BY <1>2, <1>4, <1>5, <1>6, <1>8, <2>3, <2>4, SaysStatus
<1>9. ASSUME NEW n, pkUp = <<Body("listed", n, 0)>> PROVE FALSE
  <2>1. b = Body("listed", n, 0)
    BY <1>9, One DEF b
  <2> QED
    BY <1>2, <2>1 DEF Body
<1> QED
  BY <1>2, <1>7, <1>8, <1>9, Asked

LEMMA Lists ==
  ASSUME PkTroubles = {}, PkInv, ~pkServer.eof, ServerLists
  PROVE  PkInv'
<1> DEFINE b == Head(pkUp)
<1>1. /\ PkShape /\ pkDown \in Seq(PkPieces) /\ pkUp \in Seq(PkPieces)
      /\ pkServer.keys \in SUBSET PkValues /\ IsFiniteSet(pkServer.keys)
  BY DEF PkInv, PkShape
<1>2. /\ pkUp # <<>> /\ b.kind = "list" /\ SaysKeys(b.n, pkServer.keys) /\ pk' = pk
      /\ pkUp' = <<Body("listed", b.n, 0)>> \o Tail(pkUp)
  BY DEF ServerLists
<1>3. Tail(pkUp) \in Seq(PkPieces) /\ b \in PkPieces
  BY <1>1, <1>2, HeadTailProperties
<1>4. b.n \in Nat
  BY <1>3 DEF PkPieces
<1> HIDE DEF b
<1>5. PICK s \in SetToSeqs(pkServer.keys) :
        /\ pkDown' = pkDown \o
             [i \in 1..2 * Len(s) |-> IF i % 2 = 1 THEN Length ELSE Body("key", b.n, s[i \div 2])]
        /\ pkServer' = [pkServer EXCEPT !.told = s]
  BY <1>2 DEF SaysKeys
<1>6. s \in Seq(PkValues)
  BY <1>1, KeysTyped
<1> DEFINE d == [i \in 1..2 * Len(s) |-> IF i % 2 = 1 THEN Length ELSE Body("key", b.n, s[i \div 2])]
<1>7. d \in Seq(PkPieces) /\ Due(d, 0, <<>>, s, b.n, Len(s), 0, {"status"})
  BY <1>4, <1>6, ListTyped, DueList
<1>8. pkDown' = pkDown \o d
  BY <1>5
<1> HIDE DEF d
<1>9. /\ DOMAIN pkServer' = {"keys", "eof", "hello", "told"} /\ pkServer'.keys = pkServer.keys
      /\ pkServer'.told = s
  BY <1>1, <1>5 DEF PkShape
<1>10. Body("listed", b.n, 0) \in PkPieces
  <2>1. "listed" \in PkKinds /\ 0 \in PkValues
    BY DEF PkKinds, PkValues
  <2> QED
    BY <1>4, <2>1, PieceTyped
<1>11. PkShape'
  <2>1. pkDown' \in Seq(PkPieces)
    BY <1>1, <1>7, <1>8
  <2>2. pkUp' \in Seq(PkPieces)
    BY <1>2, <1>3, <1>10
  <2> QED
    BY <1>1, <1>2, <1>6, <1>9, <2>1, <2>2 DEF PkShape
<1>12. CASE Greeting
  <2>1. pk.init = "sent4" \/ (pk.init = "idle" /\ pk.failed)
    <3>1. ASSUME pkUp = <<Body("hello", 1, 0), Body("hello", 2, 0)>> PROVE FALSE
      <4>1. b = Body("hello", 1, 0)
        BY <3>1, Two DEF b
      <4> QED
        BY <1>2, <4>1 DEF Body
    <3> QED
      BY <1>2, <1>12, <3>1, OnlyHello
  <2> QED
    BY <1>2, <1>11, <1>12, <2>1, GreetingKept DEF PkInv
<1>13. ASSUME NEW o \in PkOps, OnlyOne(o, "sent"), pkUp = <<Body(o, pk.req[o], pk.key[o])>>,
              pkDown = <<>>, Ahead = 0, pk.keys = <<>>
       PROVE  PkInv'
  <2>1. b = Body(o, pk.req[o], pk.key[o]) /\ Tail(pkUp) = <<>>
    BY <1>13, One DEF b
  <2>2. b.n = pk.req[o] /\ o = "list"
    BY <1>2, <2>1 DEF Body
  <2>3. pkUp' = <<Body("listed", pk'.req[o], 0)>>
    <3>1. pkUp' = <<Body("listed", b.n, 0)>> \o <<>>
      BY <1>2, <2>1
    <3>2. <<Body("listed", b.n, 0)>> \in Seq(PkPieces)
      BY <1>10
    <3>3. pkUp' = <<Body("listed", b.n, 0)>>
      BY <3>1, <3>2, NothingFirst
    <3> QED
      BY <1>2, <2>2, <3>3
  <2>4. pkDown' = d
    BY <1>7, <1>8, <1>13, NothingFirst
  <2>5. Ahead' = 0
    BY <1>2, <1>13 DEF Ahead
  <2>6. Due(pkDown', Ahead', pk'.keys, pkServer'.told, pk'.req[o], Len(s), 0, {"status"})
    BY <1>2, <1>7, <1>9, <1>13, <2>2, <2>4, <2>5
  <2>7. Owed(o, Len(s), 0)'
    BY <2>2, <2>3, <2>6 DEF Owed
  <2>8. OnlyOne(o, "sent")'
    BY <1>2, <1>13 DEF OnlyOne, Settled, Ready
  <2>9. Len(s) \in 0..Len(pkServer'.told) /\ 0 \in 0..2
    <3>1. Len(s) \in Nat
      BY <1>6
    <3> QED
      BY <1>9, <3>1
  <2>10. Waiting(o)'
    BY <2>7, <2>8, <2>9 DEF Waiting, Owed
  <2> QED
    BY <1>11, <2>10 DEF PkInv
<1>14. ASSUME NEW n, pkUp = <<Body("listed", n, 0)>> PROVE FALSE
  <2>1. b = Body("listed", n, 0)
    BY <1>14, One DEF b
  <2> QED
    BY <1>2, <2>1 DEF Body
<1> QED
  BY <1>2, <1>12, <1>13, <1>14, Asked

LEMMA Listed ==
  ASSUME PkTroubles = {}, PkInv, ~pkServer.eof, ServerListed
  PROVE  PkInv'
<1> DEFINE b == Head(pkUp)
<1>1. /\ PkShape /\ pkDown \in Seq(PkPieces) /\ pkUp \in Seq(PkPieces)
  BY DEF PkInv, PkShape
<1>2. /\ pkUp # <<>> /\ b.kind = "listed" /\ Says(Body("status", b.n, 0)) /\ pk' = pk
      /\ pkUp' = Tail(pkUp) /\ pkServer' = pkServer
  BY DEF ServerListed
<1>3. Tail(pkUp) \in Seq(PkPieces) /\ b \in PkPieces
  BY <1>1, <1>2, HeadTailProperties
<1>4. b.n \in Nat /\ 0 \in PkValues
  BY <1>3 DEF PkPieces, PkValues
<1> HIDE DEF b
<1>5. CASE Greeting
  <2>1. pk.init = "sent4" \/ (pk.init = "idle" /\ pk.failed)
    <3>1. ASSUME pkUp = <<Body("hello", 1, 0), Body("hello", 2, 0)>> PROVE FALSE
      <4>1. b = Body("hello", 1, 0)
        BY <3>1, Two DEF b
      <4> QED
        BY <1>2, <4>1 DEF Body
    <3> QED
      BY <1>2, <1>5, <3>1, OnlyHello
  <2>2. Body("status", b.n, 0) \in PkPieces
    <3>1. "status" \in PkKinds
      BY DEF PkKinds
    <3> QED
      BY <1>4, <3>1, PieceTyped
  <2>3. pkDown' \in Seq(PkPieces)
    BY <1>1, <1>2, <2>2, SaysTyped
  <2>4. PkShape'
    BY <1>1, <1>2, <1>3, <2>3 DEF PkShape
  <2> QED
    BY <1>2, <1>5, <2>1, <2>4, GreetingKept DEF PkInv
<1>6. ASSUME NEW o \in PkOps, OnlyOne(o, "sent"), pkUp = <<Body("listed", pk.req[o], 0)>>,
             NEW c \in 0..Len(pkServer.told), Owed(o, c, 0)
      PROVE  PkInv'
  <2>1. b = Body("listed", pk.req[o], 0) /\ Tail(pkUp) = <<>>
    BY <1>6, One DEF b
  <2>2. b.n = pk.req[o]
    BY <2>1 DEF Body
  <2>3. Says(Body("status", pk.req[o], 0)) /\ pkUp' = <<>>
    BY <1>2, <2>1, <2>2
  <2>4. /\ DOMAIN pkServer' = {"keys", "eof", "hello", "told"} /\ pkServer'.told = pkServer.told
        /\ pkServer'.keys \in SUBSET PkValues /\ IsFiniteSet(pkServer'.keys)
    BY <1>1, <1>2 DEF PkShape
  <2> QED
    BY <1>2, <1>4, <1>6, <2>3, <2>4, SaysStatus
<1>7. ASSUME NEW o \in PkOps, pkUp = <<Body(o, pk.req[o], pk.key[o])>> PROVE FALSE
  <2>1. b = Body(o, pk.req[o], pk.key[o])
    BY <1>7, One DEF b
  <2> QED
    BY <1>2, <2>1 DEF Body, PkOps
<1> QED
  BY <1>2, <1>5, <1>6, <1>7, Asked

LEMMA Goes ==
  ASSUME PkTroubles = {}, PkInv, ServerGone
  PROVE  PkInv'
<1>1. PkShape /\ pk' = pk /\ pkDown' = pkDown /\ pkUp' = <<>>
      /\ pkServer' = [pkServer EXCEPT !.eof = TRUE]
  BY DEF PkInv, ServerGone
<1>2. /\ DOMAIN pkServer' = {"keys", "eof", "hello", "told"} /\ pkServer'.keys = pkServer.keys
      /\ pkServer'.told = pkServer.told /\ pkServer'.eof = TRUE
  BY <1>1 DEF PkShape
<1>3. PkShape'
  <2>1. <<>> \in Seq(PkPieces)
    OBVIOUS
  <2> QED
    BY <1>1, <1>2, <2>1 DEF PkShape
<1>4. Ahead' = Ahead /\ (Still => Still') /\ (AllIdle => AllIdle') /\ (Ready <=> Ready')
  BY <1>1 DEF Ahead, Still, AllIdle, Settled, Ready
<1>5. CASE Greeting
  <2>1. CASE /\ pk.init = "sent3" /\ pk.handle /\ Still
    <3>1. <<>> \in Seq(PkValues) /\ 0 \in 0..2
      OBVIOUS
    <3>2. Due(<<>>, 0, <<>>, <<>>, 0, 0, 0, {"version", "status", "unknown"})
      BY <3>1, DueNothing
    <3>3. pkDown' = <<>> /\ Ahead' = 0
      BY <1>1, <1>4, <2>1 DEF Still, Ahead
    <3>4. Greeting'
      BY <1>1, <1>4, <1>5, <2>1, <3>1, <3>2, <3>3 DEF Greeting
    <3> QED
      BY <1>3, <3>4 DEF PkInv
  <2>2. CASE ~(pk.init = "sent3" /\ pk.handle /\ Still)
    <3>1. Greeting'
      BY <1>1, <1>4, <1>5, <2>2 DEF Greeting
    <3> QED
      BY <1>3, <3>1 DEF PkInv
  <2> QED
    BY <2>1, <2>2
<1>6. CASE Resting
  <2>1. VerdictIsOwn'
    BY <1>1, <1>2, <1>6, VerdictKept DEF Resting
  <2>2. Resting'
    BY <1>1, <1>2, <1>4, <1>6, <2>1 DEF Resting
  <2> QED
    BY <1>3, <2>2 DEF PkInv
<1>7. ASSUME NEW o \in PkOps, Asking(o) PROVE Asking(o)'
  BY <1>1, <1>2, <1>4, <1>7 DEF Asking, OnlyOne, Settled
<1>8. ASSUME NEW o \in PkOps, Waiting(o) PROVE Waiting(o)'
  <2>1. OnlyOne(o, "sent")'
    BY <1>1, <1>4, <1>8 DEF Waiting, OnlyOne, Settled
  <2> QED
    BY <1>1, <1>2, <1>4, <1>8, <2>1 DEF Waiting
<1> QED
  BY <1>3, <1>5, <1>6, <1>7, <1>8 DEF PkInv

LEMMA PkBegins == PkInit => PkInv
<1> SUFFICES ASSUME PkInit PROVE PkInv
  OBVIOUS
<1>1. DOMAIN pk = PkFields
  BY DEF PkInit, PkFields
<1>2. /\ pk.init = "idle" /\ pk.handle = FALSE /\ pk.recv = "idle" /\ pk.op = [o \in PkOps |-> "idle"]
      /\ pk.req = [o \in PkOps |-> 0] /\ pk.key = [o \in PkOps |-> 0] /\ pk.keys = <<>> /\ pk.n = 0
      /\ pk.result = NoResult
  BY DEF PkInit
<1>3. 0 \in PkValues /\ <<>> \in Seq(PkPieces) /\ <<>> \in Seq(PkValues)
  BY DEF PkValues
<1>4. PkTyped(pk)
  BY <1>1, <1>2, <1>3 DEF PkTyped
<1>5. /\ DOMAIN pkServer = {"keys", "eof", "hello", "told"} /\ pkServer.keys = {}
      /\ pkServer.told = <<>> /\ pkUp = <<>> /\ pkDown = <<>>
  BY DEF PkInit
<1>6. IsFiniteSet({})
  BY FS_EmptySet
<1>7. PkShape
  BY <1>3, <1>4, <1>5, <1>6 DEF PkShape
<1>8. Greeting
  BY <1>2, <1>5 DEF Greeting, AllIdle, Settled, Still, Ready
<1> QED
  BY <1>7, <1>8 DEF PkInv

(* The verdict a request returns is the server's verdict on that request,  *)
(* and the keys that libssh2_publickey_list_fetch() returns are the last   *)
(* of those told for this list, in order: for any keys and any number of   *)
(* requests, unexpected responses in between, an end of the channel at any *)
(* moment and EAGAIN wherever a read finds nothing (publickey.c:133-290,   *)
(* 585-1210).  One request at a time, written whole and answered in whole  *)
(* packets: publickey_packet_receive() takes a short read for an error and *)
(* what follows for the next length, and nothing in a response says which  *)
(* request it answers (publickey.c:171, 398).                              *)
THEOREM VerdictsAreOwn == PkTroubles = {} => (PkSpec => []VerdictIsOwn)
<1> SUFFICES ASSUME PkTroubles = {} PROVE PkSpec => []VerdictIsOwn
  OBVIOUS
<1>1. PkInit => PkInv
  BY PkBegins
<1>2. PkInv /\ [PkNext]_pkVars => PkInv'
  <2>1. ASSUME PkInv, PkInitStep PROVE PkInv'
    <3>1. PkShape
      BY <2>1 DEF PkInv
    <3>2. Greeting
      <4>1. ~Ready
        BY <2>1 DEF PkInitStep, PkStart, PkOpen, PkStartup, PkAllocate, PkVersion, PkAgree,
                    PkInitExit, Ready
      <4>2. ~Resting
        BY <2>1 DEF PkInitStep, PkStart, PkOpen, PkStartup, PkAllocate, PkVersion, PkAgree,
                    PkInitExit, Resting
      <4> QED
        BY <2>1, <4>1, <4>2 DEF PkInv, Asking, Waiting, OnlyOne, Settled
    <3> QED
      BY <2>1, <3>1, <3>2, GreetingGoesOn, GreetingSends, GreetingHears DEF PkInitStep, PkInv
  <2>2. ASSUME PkInv, PkOpStep PROVE PkInv'
    BY <2>2, Sends, Hears, Forgets DEF PkOpStep
  <2>3. ASSUME PkInv, PkServerStep PROVE PkInv'
    BY <2>3, Greets, AnswersOne, Lists, Listed DEF PkServerStep
  <2>4. ASSUME PkInv, UNCHANGED pkVars PROVE PkInv'
    <3>1. UNCHANGED <<pk, pkServer, pkUp, pkDown>>
      BY <2>4 DEF pkVars
    <3>2. VerdictIsOwn => VerdictIsOwn'
      BY <3>1, VerdictKept
    <3> QED
      BY <2>4, <3>1, <3>2 DEF PkInv, PkShape, Greeting, Resting, Asking, Waiting, OnlyOne, AllIdle, Settled,
                              Still, Ahead, Ready
  <2> QED
    BY <2>1, <2>2, <2>3, <2>4, Requests, FreesList, Shuts, Goes DEF PkNext
<1>3. PkInv => VerdictIsOwn
  <2>1. pk.result = NoResult => VerdictIsOwn
    BY DEF VerdictIsOwn, NoResult
  <2> QED
    BY <2>1 DEF PkInv, Greeting, Resting, Asking, Waiting, OnlyOne, Settled
<1> QED
  BY <1>1, <1>2, <1>3, PTL DEF PkSpec

----------------------------------------------------------------------------
(* Known hosts                                                             *)

(* A set of numbers has a least one: what SelectInSeq() returns.           *)
LEMMA HasLeast ==
  ASSUME NEW S, S \subseteq Nat, S # {}
  PROVE  Min(S) \in S /\ \A y \in S : Min(S) <= y
<1> DEFINE R == {ss \in Nat \X Nat : ss[1] < ss[2]}
<1>1. IsWellFoundedOn(R, Nat)
  BY NatLessThanWellFounded, Zenon DEF OpToRel
<1>2. \E x \in S : \A y \in S : <<y, x>> \notin R
  <2> HIDE DEF R
  <2> QED
    BY <1>1, WFMin, Zenon
<1>3. PICK x \in S : \A y \in S : <<y, x>> \notin R
  BY <1>2
<1>4. ASSUME NEW y \in S
      PROVE  x <= y
  <2>1. x \in Nat /\ y \in Nat
    OBVIOUS
  <2>2. CASE y < x
    <3>1. <<y, x>> \in R
      BY <2>1, <2>2
    <3> QED
      BY <3>1, <1>3
  <2> QED
    BY <2>1, <2>2
<1> QED
  BY <1>3, <1>4 DEF Min

(* A list, of whatever elements.                                           *)
IsList(s) == \E S : s \in Seq(S)

(* The two results of one pass over the list: each is set if and only if   *)
(* there is such an entry.                                                 *)
Hit(e, type, n, kt) == NameMatches(e, type, n) /\ TypeMatches(e, kt)
Finds(hs, type, n, kt, k) ==
  /\ Pass(hs, type, n, kt, k).match # 0 <=>
       \E i \in DOMAIN hs : Hit(hs[i], type, n, kt) /\ hs[i].key = k
  /\ Pass(hs, type, n, kt, k).bad # 0 <=>
       \E i \in DOMAIN hs : Hit(hs[i], type, n, kt) /\ hs[i].key # k

LEMMA PassFinds ==
  ASSUME NEW hs, IsList(hs), NEW type, NEW n, NEW kt, NEW k
  PROVE  Finds(hs, type, n, kt, k)
<1> DEFINE p == Pass(hs, type, n, kt, k)
           M == {i \in 1..Len(hs) : /\ NameMatches(hs[i], type, n)
                                    /\ TypeMatches(hs[i], kt) /\ hs[i].key = k}
           B == {i \in 1..Len(hs) : /\ NameMatches(hs[i], type, n)
                                    /\ TypeMatches(hs[i], kt) /\ hs[i].key # k}
<1>1. DOMAIN hs = 1..Len(hs) /\ Len(hs) \in Nat
  BY DEF IsList
<1>2. /\ p.match = IF M # {} THEN Min(M) ELSE 0
      /\ p.bad = IF B # {} THEN Min(B) ELSE 0
  BY Zenon DEF Pass, SelectInSeq
<1>3. M \subseteq Nat /\ B \subseteq Nat /\ 0 \notin M /\ 0 \notin B
  BY <1>1
<1>4. (p.match # 0 <=> M # {}) /\ (p.bad # 0 <=> B # {})
  <2> HIDE DEF p, M, B
  <2>1. M # {} => Min(M) \in M
    BY <1>3, HasLeast
  <2>2. B # {} => Min(B) \in B
    BY <1>3, HasLeast
  <2> QED
    BY <1>2, <1>3, <2>1, <2>2
<1>5. M # {} <=> \E i \in DOMAIN hs : Hit(hs[i], type, n, kt) /\ hs[i].key = k
  BY <1>1, Zenon DEF Hit
<1>6. B # {} <=> \E i \in DOMAIN hs : Hit(hs[i], type, n, kt) /\ hs[i].key # k
  BY <1>1, Zenon DEF Hit
<1> QED
  BY <1>4, <1>5, <1>6, Zenon DEF Finds

(* Two passes, of which the second may be left out, give the verdict that  *)
(* one look at all the entries gives.                                      *)
LEMMA CheckMeans ==
  ASSUME NEW hs, IsList(hs), NEW q
  PROVE  Answer(hs, q) = Meaning(hs, q)
<1> DEFINE n1 == IF q.port = 0 THEN Plain(q.host) ELSE Ported(q.host, q.port)
           p1 == Pass(hs, q.type, n1, q.kt, q.key)
           pp == Pass(hs, q.type, Plain(q.host), q.kt, q.key)
           p2 == IF q.port = 0 \/ p1.match # 0 THEN p1 ELSE pp
           names == {Plain(q.host)} \cup
                    (IF q.port = 0 THEN {} ELSE {Ported(q.host, q.port)})
           mine == {i \in DOMAIN hs : TypeMatches(hs[i], q.kt) /\
                      \E n \in names : NameMatches(hs[i], q.type, n)}
           hit(i, n) == Hit(hs[i], q.type, n, q.kt)
<1>1. /\ p1.match # 0 <=> \E i \in DOMAIN hs : hit(i, n1) /\ hs[i].key = q.key
      /\ p1.bad # 0 <=> \E i \in DOMAIN hs : hit(i, n1) /\ hs[i].key # q.key
  <2> HIDE DEF n1
  <2>1. Finds(hs, q.type, n1, q.kt, q.key)
    BY PassFinds
  <2> QED
    BY <2>1, Zenon DEF Finds
<1>2. /\ pp.match # 0 <=>
           \E i \in DOMAIN hs : hit(i, Plain(q.host)) /\ hs[i].key = q.key
      /\ pp.bad # 0 <=>
           \E i \in DOMAIN hs : hit(i, Plain(q.host)) /\ hs[i].key # q.key
  <2>1. Finds(hs, q.type, Plain(q.host), q.kt, q.key)
    BY PassFinds
  <2> QED
    BY <2>1, Zenon DEF Finds
<1>3. Answer(hs, q) = IF p2.match # 0 THEN "match"
                      ELSE IF p1.bad # 0 \/ p2.bad # 0 THEN "mismatch"
                      ELSE "notfound"
  <2> DEFINE bad == IF p1.bad # 0 THEN p1.bad ELSE p2.bad
  <2>1. Check(hs, q.type, q.host, q.port, q.kt, q.key) =
          IF p2.match # 0 THEN [rc |-> "match", at |-> p2.match]
          ELSE IF bad # 0 THEN [rc |-> "mismatch", at |-> bad]
          ELSE [rc |-> "notfound", at |-> 0]
    BY Zenon DEF Check
  <2>2. bad # 0 <=> p1.bad # 0 \/ p2.bad # 0
    BY Zenon
  <2> HIDE DEF p1, p2, bad
  <2> QED
    BY <2>1, <2>2 DEF Answer
<1>4. Meaning(hs, q) = IF \E i \in mine : hs[i].key = q.key THEN "match"
                       ELSE IF mine # {} THEN "mismatch" ELSE "notfound"
  BY Zenon DEF Meaning
<1>5. p2.match # 0 <=> \E i \in mine : hs[i].key = q.key
  <2>1. CASE q.port = 0
    <3>1. p2 = p1 /\ n1 = Plain(q.host) /\ names = {Plain(q.host)}
      BY <2>1
    <3> QED
      BY <3>1, <1>1, Zenon DEF Hit
  <2>2. CASE q.port # 0
    <3>1. p2.match # 0 <=> p1.match # 0 \/ pp.match # 0
      BY <2>2, Zenon
    <3>2. n1 = Ported(q.host, q.port)
          /\ names = {Plain(q.host), Ported(q.host, q.port)}
      BY <2>2
    <3> QED
      BY <3>1, <3>2, <1>1, <1>2, Zenon DEF Hit
  <2> QED
    BY <2>1, <2>2
<1>6. ASSUME p2.match = 0
      PROVE  p1.bad # 0 \/ p2.bad # 0 <=> mine # {}
  <2>1. CASE q.port = 0
    <3>1. p2 = p1 /\ n1 = Plain(q.host) /\ names = {Plain(q.host)}
      BY <2>1
    <3> QED
      BY <3>1, <1>1, <1>6, Zenon DEF Hit
  <2>2. CASE q.port # 0
    <3>1. p2 = pp /\ p1.match = 0 /\ pp.match = 0
      BY <2>2, <1>6, Zenon
    <3>2. n1 = Ported(q.host, q.port)
          /\ names = {Plain(q.host), Ported(q.host, q.port)}
      BY <2>2
    <3> QED
      BY <3>1, <3>2, <1>1, <1>2, Zenon DEF Hit
  <2> QED
    BY <2>1, <2>2
<1> HIDE DEF p1, p2, mine
<1> QED
  BY <1>3, <1>4, <1>5, <1>6

LEMMA HasGreatest ==
  ASSUME NEW n \in Nat, NEW S, S \subseteq 1..n, S # {}
  PROVE  Max(S) \in S
<1> DEFINE T == {n - x : x \in S}
<1>1. T \subseteq Nat /\ T # {}
  <2>1. \A x \in 1..n : n - x \in Nat
    OBVIOUS
  <2>2. \A x \in S : n - x \in Nat
    BY <2>1, Zenon
  <2> QED
    BY <2>2, Zenon
<1>2. Min(T) \in T /\ \A y \in T : Min(T) <= y
  <2> HIDE DEF T
  <2> QED
    BY <1>1, HasLeast
<1>3. PICK x \in S : Min(T) = n - x
  BY <1>2
<1>4. ASSUME NEW y \in S
      PROVE  x >= y
  <2>1. n - y \in T /\ x \in Nat /\ y \in Nat
    OBVIOUS
  <2>2. n - x <= n - y
    BY <1>2, <1>3, <2>1
  <2> QED
    BY <2>1, <2>2
<1>5. \A y \in S : x >= y
  BY <1>4
<1> QED
  BY <1>5, Zenon DEF Max

LEMMA ListedConcat ==
  ASSUME NEW s, NEW t, IsList(s), IsList(t)
  PROVE  IsList(s \o t)
<1>1. PICK S : s \in Seq(S)
  BY DEF IsList
<1>2. PICK T : t \in Seq(T)
  BY DEF IsList
<1>3. s \in Seq(S \cup T) /\ t \in Seq(S \cup T)
  BY <1>1, <1>2
<1>4. s \o t \in Seq(S \cup T)
  BY <1>3
<1> QED
  BY <1>4 DEF IsList

LEMMA ListedFew ==
  /\ IsList(<<>>)
  /\ \A a : IsList(<<a>>)
<1>1. <<>> \in Seq({})
  OBVIOUS
<1>2. ASSUME NEW a
      PROVE  <<a>> \in Seq({a})
  OBVIOUS
<1> QED
  BY <1>1, <1>2, Zenon DEF IsList

(* A line adds entries, none, one or several; a line of a file this code   *)
(* wrote has one name.                                                     *)
LEMMA EntriesListed ==
  ASSUME NEW l, Len(l.field.names) \in Nat
  PROVE  IsList(Entries(l))
<1> DEFINE k == ParseKey(l.words)
           e(type, n) == Entry(type, n, k.keytype, k.typename, k.key, k.comment)
           ns == l.field.names
           f == [i \in 1..Len(ns) |-> e("plain", ns[i])]
           S == {e("plain", ns[i]) : i \in 1..Len(ns)}
<1>1. Entries(l) = IF l.field.hash THEN <<e("sha1", ns[1])>>
        ELSE IF Len(ns) = 1 /\ ns[1].port = 0 /\ ns[1].name \in KhShort THEN <<>>
        ELSE Reverse(f)
  BY Zenon DEF Entries
<1>2. IsList(Reverse(f))
  <2> HIDE DEF e, ns
  <2>1. f \in Seq(S) /\ Len(f) = Len(ns)
    BY DEF ns
  <2>2. Reverse(f) \in Seq(S)
    <3> HIDE DEF f, S
    <3>1. \A i \in 1..Len(f) : (Len(f) - i) + 1 \in 1..Len(f)
      BY <2>1
    <3> QED
      BY <2>1, <3>1 DEF Reverse
  <2> QED
    BY <2>2 DEF IsList
<1> HIDE DEF f, e, ns
<1> QED
  BY <1>1, <1>2, ListedFew, Zenon

(* So does one that is refused at a name that is too long.                 *)
LEMMA FitsNumber ==
  ASSUME NEW l, Len(l.field.names) \in Nat
  PROVE  Fits(l) \in Nat
<1> DEFINE ns == l.field.names
           I == {i \in 1..Len(ns) : TooLong(ns[i])}
           last == IF I # {} THEN Max(I) ELSE 0
<1>1. Fits(l) = IF TooShort(l.words) THEN 0 ELSE Len(ns) - last
  BY Zenon DEF Fits, SelectLastInSeq
<1>2. I # {} => Max(I) \in 1..Len(ns)
  <2>1. I \subseteq 1..Len(ns)
    OBVIOUS
  <2> HIDE DEF I
  <2> QED
    BY <2>1, HasGreatest
<1> HIDE DEF I
<1> QED
  BY <1>1, <1>2

LEMMA AddsListed ==
  ASSUME NEW l, Len(l.field.names) \in Nat
  PROVE  IsList(Adds(l))
<1> DEFINE s == Entries(l)
           n == Fits(l)
<1>1. IsList(s)
  BY EntriesListed
<1>2. n \in Nat
  BY FitsNumber
<1> HIDE DEF s, n
<1>3. [i \in 1..n |-> s[i]] \in Seq({s[i] : i \in 1..n})
  BY <1>2
<1>4. IsList([i \in 1..n |-> s[i]])
  BY <1>3 DEF IsList
<1> QED
  BY <1>1, <1>4, Zenon DEF Adds, s, n

(* The inductive invariant: the collection and the file are lists, and     *)
(* every line in the file is one that WriteFile wrote, with one name.      *)
OneName(fl) == \A i \in 1..Len(fl) : Len(fl[i].field.names) = 1
KhLists == IsList(hosts) /\ IsList(file) /\ OneName(file)

LEMMA ListedLen ==
  ASSUME NEW s, IsList(s)
  PROVE  /\ Len(s) \in Nat /\ DOMAIN s = 1..Len(s)
         /\ s # <<>> => /\ Len(s) \in Nat \ {0} /\ Head(s) = s[1]
                        /\ IsList(Tail(s)) /\ Len(Tail(s)) = Len(s) - 1
                        /\ \A i \in 1..Len(Tail(s)) : Tail(s)[i] = s[i + 1]
<1>1. PICK S : s \in Seq(S)
  BY DEF IsList
<1>2. Len(s) \in Nat /\ DOMAIN s = 1..Len(s)
  BY <1>1
<1>3. ASSUME s # <<>>
      PROVE  /\ Len(s) \in Nat \ {0} /\ Head(s) = s[1]
             /\ Tail(s) \in Seq(S) /\ Len(Tail(s)) = Len(s) - 1
             /\ \A i \in 1..Len(Tail(s)) : Tail(s)[i] = s[i + 1]
  BY <1>1, <1>3
<1>4. s # <<>> => IsList(Tail(s))
  BY <1>3 DEF IsList
<1> QED
  BY <1>2, <1>3, <1>4

(* The first lines of the file that WriteFile makes.                       *)
FileLines(hs, n) == [i \in 1..n |-> Line(hs[i])]

LEMMA LinesListed ==
  ASSUME NEW hs, NEW n \in Nat
  PROVE  /\ IsList(FileLines(hs, n)) /\ Len(FileLines(hs, n)) = n
         /\ OneName(FileLines(hs, n))
         /\ \A i \in 1..n : FileLines(hs, n)[i] = Line(hs[i])
<1> DEFINE fl == FileLines(hs, n)
           S == {Line(hs[i]) : i \in 1..n}
<1>1. fl \in Seq(S) /\ Len(fl) = n /\ \A i \in 1..n : fl[i] = Line(hs[i])
  BY DEF FileLines
<1>2. ASSUME NEW i \in 1..n
      PROVE  Len(Line(hs[i]).field.names) = 1
  BY DEF Line
<1> HIDE DEF fl, S
<1>3. IsList(fl)
  BY <1>1 DEF IsList
<1>4. OneName(fl)
  BY <1>1, <1>2 DEF OneName
<1>5. IsList(fl) /\ Len(fl) = n /\ OneName(fl)
      /\ \A i \in 1..n : fl[i] = Line(hs[i])
  BY <1>1, <1>3, <1>4
<1> QED
  BY <1>5 DEF fl

LEMMA Pruned ==
  ASSUME NEW s, IsList(s), NEW i \in 1..Len(s)
  PROVE  IsList(RemoveAt(s, i))
<1>1. PICK S : s \in Seq(S)
  BY DEF IsList
<1>2. Len(s) \in Nat /\ i \in Nat /\ 1 <= i /\ i <= Len(s)
  BY <1>1
<1>3. SubSeq(s, 1, i - 1) \in Seq(S) /\ SubSeq(s, i + 1, Len(s)) \in Seq(S)
  BY <1>1, <1>2
<1>4. RemoveAt(s, i) \in Seq(S)
  BY <1>3 DEF RemoveAt
<1> QED
  BY <1>4 DEF IsList

(* Where writing stops.                                                    *)
Written(hs) == LET bad == SelectInSeq(hs, LAMBDA e : ~Writable(e))
               IN  IF bad = 0 THEN Len(hs) ELSE bad - 1
LEMMA WrittenLen ==
  ASSUME NEW hs, IsList(hs)
  PROVE  Written(hs) \in Nat
<1> DEFINE B == {i \in 1..Len(hs) : ~Writable(hs[i])}
           bad == IF B # {} THEN Min(B) ELSE 0
<1>1. Len(hs) \in Nat
  BY ListedLen
<1>2. Written(hs) = IF bad = 0 THEN Len(hs) ELSE bad - 1
  BY Zenon DEF Written, SelectInSeq
<1>3. B \subseteq Nat /\ 0 \notin B
  BY <1>1
<1>4. B # {} => Min(B) \in Nat \ {0}
  <2> HIDE DEF B
  <2> QED
    BY <1>3, HasLeast
<1> HIDE DEF B
<1> QED
  BY <1>1, <1>2, <1>4

LEMMA NoLines == OneName(<<>>)
  BY DEF OneName

LEMMA ForeignListed ==
  ASSUME NEW l \in ForeignLines
  PROVE  IsList(Adds(l))
<1>1. Len(l.field.names) \in Nat
  BY DEF ForeignLines, Remark
<1> QED
  BY <1>1, AddsListed

LEMMA KhListsStep ==
  ASSUME KhLists, [KhNext]_khVars
  PROVE  KhLists'
<1>e. IsList(<<>>) /\ OneName(<<>>)
  BY ListedFew, NoLines
<1>1. ASSUME NEW e \in Addable, Add(e)
      PROVE  KhLists'
  <2>1. Append(hosts, e) = hosts \o <<e>>
    <3>1. PICK S : hosts \in Seq(S)
      BY DEF KhLists, IsList
    <3> QED
      BY <3>1
  <2>2. IsList(hosts \o <<e>>)
    BY ListedFew, ListedConcat DEF KhLists
  <2> QED
    BY <1>1, <1>e, <2>1, <2>2, Zenon DEF Add, Edited, KhLists
<1>2. ASSUME NEW l \in ForeignLines, ReadLine(l)
      PROVE  KhLists'
  <2>1. IsList(hosts \o Adds(l))
    BY ForeignListed, ListedConcat DEF KhLists
  <2> QED
    BY <1>2, <1>e, <2>1, Zenon DEF ReadLine, Edited, KhLists
<1>3. ASSUME NEW i \in 1..KhMax, Del(i)
      PROVE  KhLists'
  <2>1. IsList(RemoveAt(hosts, i))
    BY <1>3, Pruned DEF KhLists, Del
  <2> QED
    BY <1>3, <1>e, <2>1, Zenon DEF Del, Edited, KhLists
<1>4. CASE WriteFile
  <2>1. file' = FileLines(hosts, Written(hosts)) /\ hosts' = hosts
    BY <1>4, Zenon DEF WriteFile, FileLines, Written
  <2>2. Written(hosts) \in Nat
    BY WrittenLen DEF KhLists
  <2>3. IsList(FileLines(hosts, Written(hosts))) /\ OneName(FileLines(hosts, Written(hosts)))
    BY <2>2, LinesListed
  <2> QED
    BY <2>1, <2>3, Zenon DEF KhLists
<1>5. CASE OpenFile
  BY <1>5, <1>e, Zenon DEF OpenFile, KhLists
<1>6. CASE NextLine
  <2>1. /\ hosts' = hosts \o Adds(Head(file)) /\ file' = Tail(file)
        /\ file # <<>> /\ IsList(file)
    BY <1>6 DEF NextLine, KhLists
  <2>2. /\ Len(file) \in Nat \ {0} /\ Head(file) = file[1] /\ IsList(Tail(file))
        /\ Len(Tail(file)) = Len(file) - 1
        /\ \A i \in 1..Len(Tail(file)) : Tail(file)[i] = file[i + 1]
    BY <2>1, ListedLen
  <2>3. Len(Head(file).field.names) \in Nat
    BY <2>2 DEF KhLists, OneName
  <2>4. IsList(hosts \o Adds(Head(file)))
    BY <2>3, AddsListed, ListedConcat DEF KhLists
  <2>5. OneName(Tail(file))
    <3>1. \A i \in 1..Len(file) : Len(file[i].field.names) = 1
      BY DEF KhLists, OneName
    <3> QED
      BY <2>2, <3>1 DEF OneName
  <2> QED
    BY <2>1, <2>2, <2>4, <2>5, Zenon DEF KhLists
<1>7. CASE CloseFile
  BY <1>7, Zenon DEF CloseFile, KhLists
<1>8. CASE UNCHANGED khVars
  BY <1>8, Zenon DEF khVars, KhLists
<1> QED
  BY <1>1, <1>2, <1>3, <1>4, <1>5, <1>6, <1>7, <1>8, Zenon DEF KhNext, ReadFile

(* A check of a host key (libssh2_knownhost_check, checkp) gives the       *)
(* verdict the collection means, for collections of every size, with       *)
(* entries of every kind.                                                  *)
THEOREM VerdictsAreMeant == KhSpec => []VerdictIsMeant
<1>1. KhInit => KhLists
  <2>1. IsList(<<>>) /\ OneName(<<>>)
    BY ListedFew, NoLines
  <2> QED
    BY <2>1, Zenon DEF KhInit, KhLists
<1>2. KhLists /\ [KhNext]_khVars => KhLists'
  BY KhListsStep
<1>3. KhLists => VerdictIsMeant
  <2> SUFFICES ASSUME KhLists, NEW q \in Queries
               PROVE  Answer(hosts, q) = Meaning(hosts, q)
    BY Zenon DEF VerdictIsMeant
  <2> QED
    BY CheckMeans, Zenon DEF KhLists
<1> QED
  BY <1>1, <1>2, <1>3, PTL DEF KhSpec

(* An entry that its line gives back.                                      *)
Kept(e) == ~Refused(Line(e)) /\ Entries(Line(e)) = <<e>>
AllKept(s) == \A i \in 1..Len(s) : Kept(s[i])

Parsed(kt, tn, k, c) ==
  [keytype |-> kt, typename |-> tn, key |-> k, comment |-> c]

(* It does if its words are parsed into what they were written from, its   *)
(* name is not taken for a hash, and no word has a length that is refused. *)
Sound(n) == ~(n.port = 0 /\ n.name \in KhShort) /\ ~TooLong(n)
LEMMA KeptIf ==
  ASSUME NEW type \in {"plain", "sha1"}, NEW n, NEW kt, NEW tn, NEW k, NEW c,
         ~TooLong(n), type = "plain" => Sound(n),
         ~TooShort(Line(Entry(type, n, kt, tn, k, c)).words),
         ParseKey(Line(Entry(type, n, kt, tn, k, c)).words) = Parsed(kt, tn, k, c)
  PROVE  Kept(Entry(type, n, kt, tn, k, c))
<1> DEFINE e0 == Entry(type, n, kt, tn, k, c)
           l == Line(e0)
           p == ParseKey(l.words)
           e(ty, m) == Entry(ty, m, p.keytype, p.typename, p.key, p.comment)
           ns == l.field.names
<1>0. Len(<<n>>) = 1 /\ <<n>>[1] = n
  OBVIOUS
<1>1. l.field.hash = (type = "sha1") /\ Len(ns) = 1 /\ ns[1] = n
  BY <1>0, Zenon DEF Line, Entry
<1>2. p.keytype = kt /\ p.typename = tn /\ p.key = k /\ p.comment = c
  BY DEF Parsed
<1>3. Entries(l) = IF l.field.hash THEN <<e("sha1", ns[1])>>
        ELSE IF Len(ns) = 1 /\ ns[1].port = 0 /\ ns[1].name \in KhShort THEN <<>>
        ELSE Reverse([i \in 1..Len(ns) |-> e("plain", ns[i])])
  BY Zenon DEF Entries
<1>4. \A ty, m : e(ty, m) = Entry(ty, m, kt, tn, k, c)
  BY <1>2, Zenon
<1>r. ~Refused(l)
  <2>1. DOMAIN <<n>> = {1} /\ <<n>>[1] = n
    OBVIOUS
  <2>2. l.field.names = <<n>>
    BY Zenon DEF Line, Entry
  <2> QED
    BY <2>1, <2>2, Zenon DEF Refused
<1> HIDE DEF l, p
<1>5. CASE type = "sha1"
  <2>1. Entries(l) = <<e("sha1", n)>>
    BY <1>1, <1>3, <1>5, Zenon
  <2> QED
    BY <2>1, <1>4, <1>5, <1>r, Zenon DEF Kept, l
<1>6. CASE type = "plain"
  <2>0. "plain" # "sha1"
    OBVIOUS
  <2>1. Len(ns) = 1 /\ ns[1] = n /\ ~l.field.hash
    BY <2>0, <1>1, <1>6, Zenon
  <2>2. Entries(l) = Reverse([i \in 1..1 |-> e("plain", ns[i])])
    BY <2>1, <1>3, <1>6, Zenon DEF Sound
  <2>3. [i \in 1..1 |-> e("plain", ns[i])] = <<e("plain", n)>>
    <3> DEFINE x == e("plain", n)
    <3>1. \A i \in 1..1 : e("plain", ns[i]) = x
      <4>1. \A i \in 1..1 : i = 1
        OBVIOUS
      <4> QED
        BY <4>1, <2>1, Zenon
    <3>2. [i \in 1..1 |-> e("plain", ns[i])] = [i \in 1..1 |-> x]
      BY <3>1, Zenon
    <3> HIDE DEF x
    <3>3. [i \in 1..1 |-> x] = <<x>>
      OBVIOUS
    <3> QED
      BY <3>2, <3>3, Zenon DEF x
  <2>4. \A x : Reverse(<<x>>) = <<x>>
    BY DEF Reverse
  <2>5. Entries(l) = <<e("plain", n)>>
    BY <2>2, <2>3, <2>4, Zenon
  <2> QED
    BY <2>5, <1>4, <1>6, <1>r, Zenon DEF Kept, l
<1> QED
  BY <1>5, <1>6

LEMMA Words ==
  ASSUME NEW a, NEW b, NEW d
  PROVE  /\ <<a>> \o <<b>> = <<a, b>>
         /\ <<a, b>> \o <<d>> = <<a, b, d>>
         /\ <<a, b>> \o <<>> = <<a, b>>
         /\ <<>> \o <<a, b>> = <<a, b>>
         /\ SubSeq(<<a, b, d>>, 3, 3) = <<d>>
<1> DEFINE S == {a, b, d}
<1>1. /\ <<>> \in Seq(S) /\ Len(<<>>) = 0
      /\ <<a>> \in Seq(S) /\ Len(<<a>>) = 1 /\ <<a>>[1] = a
      /\ <<b>> \in Seq(S) /\ Len(<<b>>) = 1 /\ <<b>>[1] = b
      /\ <<d>> \in Seq(S) /\ Len(<<d>>) = 1 /\ <<d>>[1] = d
      /\ <<a, b>> \in Seq(S) /\ Len(<<a, b>>) = 2
      /\ <<a, b>>[1] = a /\ <<a, b>>[2] = b
      /\ <<a, b, d>> \in Seq(S) /\ Len(<<a, b, d>>) = 3
      /\ <<a, b, d>>[1] = a /\ <<a, b, d>>[2] = b /\ <<a, b, d>>[3] = d
  OBVIOUS
<1> HIDE DEF S
<1>2. <<a>> \o <<b>> = <<a, b>>
  <2> DEFINE s == <<a>> \o <<b>>
             t == <<a, b>>
  <2>1. s \in Seq(S) /\ Len(s) = 2 /\ s[1] = a /\ s[2] = b
    BY <1>1, ConcatProperties
  <2>2. t \in Seq(S) /\ Len(t) = 2 /\ t[1] = a /\ t[2] = b
    BY <1>1
  <2> HIDE DEF s, t
  <2>3. Len(s) = Len(t) /\ \A i \in 1..Len(s) : s[i] = t[i]
    BY <2>1, <2>2
  <2>4. s = t
    BY <2>1, <2>2, <2>3, SeqEqual
  <2> QED
    BY <2>4 DEF s, t
<1>3. <<a, b>> \o <<d>> = <<a, b, d>>
  <2> DEFINE s == <<a, b>> \o <<d>>
             t == <<a, b, d>>
  <2>1. s \in Seq(S) /\ Len(s) = 3 /\ s[1] = a /\ s[2] = b /\ s[3] = d
    BY <1>1, ConcatProperties
  <2>2. t \in Seq(S) /\ Len(t) = 3 /\ t[1] = a /\ t[2] = b /\ t[3] = d
    BY <1>1
  <2> HIDE DEF s, t
  <2>3. Len(s) = Len(t) /\ \A i \in 1..Len(s) : s[i] = t[i]
    BY <2>1, <2>2
  <2>4. s = t
    BY <2>1, <2>2, <2>3, SeqEqual
  <2> QED
    BY <2>4 DEF s, t
<1>4. <<a, b>> \o <<>> = <<a, b>> /\ <<>> \o <<a, b>> = <<a, b>>
  BY <1>1, NothingFirst
<1>5. SubSeq(<<a, b, d>>, 3, 3) = <<d>>
  <2> DEFINE s == SubSeq(<<a, b, d>>, 3, 3)
             t == <<d>>
  <2>1. s \in Seq(S) /\ Len(s) = 1 /\ s[1] = d
    BY <1>1, SubSeqProperties
  <2>2. t \in Seq(S) /\ Len(t) = 1 /\ t[1] = d
    BY <1>1
  <2> HIDE DEF s, t
  <2>3. Len(s) = Len(t) /\ \A i \in 1..Len(s) : s[i] = t[i]
    BY <2>1, <2>2
  <2>4. s = t
    BY <2>1, <2>2, <2>3, SeqEqual
  <2> QED
    BY <2>4 DEF s, t
<1> QED
  BY <1>2, <1>3, <1>4, <1>5

(* What is written of a comment.                                           *)
Said(c) == IF c = NoComment THEN <<>> ELSE IF c = <<>> THEN <<"">> ELSE c

(* A key type with a name, or one that the file named, comes back with the *)
(* key and the comment.                                                    *)
LEMMA TypedParse ==
  ASSUME NEW w, w # "bits", NEW k, NEW c \in Comments
  PROVE  /\ ParseKey(<<w>> \o <<k>> \o Said(c)) =
              Parsed(IF w \in NamedTypes THEN w ELSE "unknown",
                     IF w \in NamedTypes THEN None ELSE w, <<k>>, c)
         /\ k # Tiny => ~TooShort(<<w>> \o <<k>> \o Said(c))
<1>1. c = NoComment \/ c = <<>> \/ c = <<"comment">>
  BY DEF Comments
<1>2. <<>> # NoComment /\ <<"comment">> # NoComment /\ <<"comment">> # <<>>
  BY DEF NoComment
<1>3. CASE c = NoComment
  <2>0. Said(c) = <<>> /\ <<w>> \o <<k>> = <<w, k>>
    BY <1>3, Words, Zenon DEF Said
  <2>1. <<w>> \o <<k>> \o Said(c) = <<w, k>>
    BY <2>0, Words, Zenon
  <2>2. /\ <<w, k>>[1] = w /\ <<w, k>>[2] = k /\ Len(<<w, k>>) = 2 /\ 2 # 1
        /\ 2 <= 2 /\ <<w, k>> # <<>>
    OBVIOUS
  <2> QED
    BY <2>1, <2>2, <1>3, Zenon DEF ParseKey, Parsed, TooShort
<1>4. CASE c = <<>>
  <2>0. Said(c) = <<"">>
    BY <1>2, <1>4, Zenon DEF Said
  <2>a. <<w>> \o <<k>> = <<w, k>> /\ <<w, k>> \o <<"">> = <<w, k, "">>
    BY Words
  <2>1. <<w>> \o <<k>> \o Said(c) = <<w, k, "">>
    BY <2>0, <2>a, Zenon
  <2>2. /\ <<w, k, "">>[1] = w /\ <<w, k, "">>[2] = k
        /\ <<w, k, "">>[3] = "" /\ Len(<<w, k, "">>) = 3 /\ 3 # 2 /\ 3 # 1
        /\ ~(3 <= 2) /\ <<w, k, "">> # <<>>
    OBVIOUS
  <2> QED
    BY <2>1, <2>2, <1>4, Zenon DEF ParseKey, Parsed, TooShort
<1>5. CASE c = <<"comment">>
  <2> DEFINE t == <<w, k, "comment">>
  <2>0. Said(c) = <<"comment">>
    BY <1>2, <1>5, Zenon DEF Said
  <2>a. <<w>> \o <<k>> = <<w, k>> /\ <<w, k>> \o <<"comment">> = t
    BY Words
  <2>1. <<w>> \o <<k>> \o Said(c) = t
    BY <2>0, <2>a, Zenon
  <2>2. /\ t[1] = w /\ t[2] = k /\ t[3] # "" /\ Len(t) = 3 /\ 3 # 2 /\ 3 # 1
        /\ ~(3 <= 2) /\ t # <<>>
    OBVIOUS
  <2>3. SubSeq(t, 3, 3) = <<"comment">>
    BY Words, Zenon
  <2> QED
    BY <2>1, <2>2, <2>3, <1>5, Zenon DEF ParseKey, Parsed, TooShort
<1> QED
  BY <1>1, <1>3, <1>4, <1>5

LEMMA NamedKept ==
  ASSUME NEW type \in {"plain", "sha1"}, NEW n, NEW kt \in NamedTypes, NEW k,
         NEW c \in Comments, k # Tiny, ~TooLong(n), type = "plain" => Sound(n)
  PROVE  Kept(Entry(type, n, kt, None, <<k>>, c))
<1>1. kt # "rsa1" /\ kt # "unknown" /\ kt # "bits"
  BY DEF NamedTypes
<1>2. Line(Entry(type, n, kt, None, <<k>>, c)).words = <<kt>> \o <<k>> \o Said(c)
  BY <1>1, Zenon DEF Line, Entry, Said
<1>3. /\ ParseKey(<<kt>> \o <<k>> \o Said(c)) = Parsed(kt, None, <<k>>, c)
      /\ ~TooShort(<<kt>> \o <<k>> \o Said(c))
  BY <1>1, TypedParse, Zenon
<1> QED
  BY <1>2, <1>3, KeptIf, Zenon

LEMMA Rsa1Kept ==
  ASSUME NEW n, NEW k, k # Tiny, Sound(n)
  PROVE  Kept(Entry("plain", n, "rsa1", None, KeyWords("rsa1", k), NoComment))
<1> DEFINE ws == <<"bits", k>>
<1>1. KeyWords("rsa1", k) = ws
  BY Zenon DEF KeyWords
<1>2. Line(Entry("plain", n, "rsa1", None, ws, NoComment)).words = <<>> \o ws \o <<>>
  BY Zenon DEF Line, Entry
<1>3. <<>> \o ws \o <<>> = ws
  BY Words, Zenon
<1>4. ws[1] = "bits" /\ ws[2] = k /\ ws # <<>>
  OBVIOUS
<1>t. ~TooShort(ws) /\ ~TooLong(n)
  BY <1>4, Zenon DEF TooShort, Sound
<1>5. ParseKey(ws) = Parsed("rsa1", None, ws, NoComment)
  BY <1>4, Zenon DEF ParseKey, Parsed
<1> HIDE DEF ws
<1>6. Kept(Entry("plain", n, "rsa1", None, ws, NoComment))
  BY <1>2, <1>3, <1>5, <1>t, KeptIf, Zenon
<1> QED
  BY <1>1, <1>6, Zenon

(* The key types of somebody else's lines.                                 *)
ForeignTypes == {"ssh-rsa", "ssh-other"}

LEMMA ForeignKept ==
  ASSUME NEW n, Sound(n), NEW k, k # Tiny,
         NEW w \in ForeignTypes
  PROVE  Kept(Entry("plain", n, IF w \in NamedTypes THEN w ELSE "unknown",
                    IF w \in NamedTypes THEN None ELSE w, <<k>>, NoComment))
<1>0. NoComment \in Comments /\ ~TooLong(n)
  BY DEF Comments, Sound
<1>1. CASE w = "ssh-rsa"
  <2>1. w \in NamedTypes
    BY <1>1 DEF NamedTypes
  <2> QED
    BY <1>0, <2>1, NamedKept, Zenon
<1>2. CASE w = "ssh-other"
  <2>1. w \notin NamedTypes /\ w # "bits" /\ "unknown" # "rsa1"
    BY <1>2 DEF NamedTypes
  <2>2. Line(Entry("plain", n, "unknown", w, <<k>>, NoComment)).words =
          <<w>> \o <<k>> \o Said(NoComment)
    BY <2>1, Zenon DEF Line, Entry, Said
  <2>3. /\ ParseKey(<<w>> \o <<k>> \o Said(NoComment)) =
               Parsed("unknown", w, <<k>>, NoComment)
        /\ ~TooShort(<<w>> \o <<k>> \o Said(NoComment))
    BY <1>0, <2>1, TypedParse, Zenon
  <2>4. Kept(Entry("plain", n, "unknown", w, <<k>>, NoComment))
    BY <1>0, <2>2, <2>3, KeptIf, Zenon
  <2> QED
    BY <2>1, <2>4, Zenon
<1> QED
  BY <1>1, <1>2 DEF ForeignTypes

(* Every entry that is added, or read from somebody else's line, is kept,  *)
(* the kinds of KhFormats aside.                                           *)
LEMMA AddableKept ==
  ASSUME KhFormats = {}, NEW e \in Addable
  PROVE  Kept(e)
<1> DEFINE A == {Entry("plain", n, kt, None, KeyWords(kt, k), c) :
                   n \in Names, kt \in NamedTypes, k \in KhKeys, c \in Comments}
           B == {Entry("sha1", Hashed("salt", n), kt, None, KeyWords(kt, k), NoComment) :
                   n \in Names, kt \in {"ssh-rsa"}, k \in KhKeys}
           C == {Entry("plain", n, "rsa1", None, KeyWords("rsa1", k), NoComment) :
                   n \in Names, k \in KhKeys}
<1>1. ASSUME NEW n \in Names
      PROVE  Sound(n) /\ ~TooLong(n) /\ ~TooLong(Hashed("salt", n))
  BY KhAssumption DEF Names, Plain, Ported, Hashed, Sound, TooLong, None, LongSalt
<1>k. \A k \in KhKeys : k # Tiny
  BY KhAssumption
<1>2. e \in A \/ e \in B \/ e \in C
  <2>1. e \in Ordinary
    BY Zenon DEF Addable
  <2> QED
    BY <2>1 DEF Ordinary
<1>3. ASSUME NEW kt \in NamedTypes, NEW k
      PROVE  KeyWords(kt, k) = <<k>>
  <2>1. kt # "rsa1"
    BY DEF NamedTypes
  <2> QED
    BY <2>1, Zenon DEF KeyWords
<1>4. CASE e \in A
  <2>1. PICK n \in Names, kt \in NamedTypes, k \in KhKeys, c \in Comments :
          e = Entry("plain", n, kt, None, KeyWords(kt, k), c)
    BY <1>4
  <2>2. e = Entry("plain", n, kt, None, <<k>>, c)
    BY <2>1, <1>3, Zenon
  <2> QED
    BY <2>2, <1>1, <1>k, NamedKept, Zenon
<1>5. CASE e \in B
  <2>1. PICK n \in Names, kt \in {"ssh-rsa"}, k \in KhKeys :
          e = Entry("sha1", Hashed("salt", n), kt, None, KeyWords(kt, k), NoComment)
    BY <1>5
  <2>2. kt \in NamedTypes /\ NoComment \in Comments /\ "sha1" # "plain"
    BY DEF NamedTypes, Comments
  <2>3. e = Entry("sha1", Hashed("salt", n), kt, None, <<k>>, NoComment)
    BY <2>1, <2>2, <1>3, Zenon
  <2> QED
    BY <2>2, <2>3, <1>1, <1>k, NamedKept, Zenon
<1>6. CASE e \in C
  <2>1. PICK n \in Names, k \in KhKeys :
          e = Entry("plain", n, "rsa1", None, KeyWords("rsa1", k), NoComment)
    BY <1>6
  <2> QED
    BY <2>1, <1>1, <1>k, Rsa1Kept, Zenon
<1> QED
  BY <1>2, <1>4, <1>5, <1>6

(* A line of plain names, and the entry it adds for one of them.           *)
PlainLine(ns, ws) == [field |-> [hash |-> FALSE, names |-> ns], words |-> ws]
Added(n, t, k) ==
  Entry("plain", n, IF t \in NamedTypes THEN t ELSE "unknown",
        IF t \in NamedTypes THEN None ELSE t, <<k>>, NoComment)

LEMMA TwoNames ==
  ASSUME NEW n1, NEW n2, NEW t \in ForeignTypes, NEW k
  PROVE  /\ Entries(PlainLine(<<n1, n2>>, <<t, k>>)) \in Seq({Added(n1, t, k), Added(n2, t, k)})
         /\ Len(Entries(PlainLine(<<n1, n2>>, <<t, k>>))) = 2
         /\ Entries(PlainLine(<<n1, n2>>, <<t, k>>))[1] = Added(n2, t, k)
         /\ Entries(PlainLine(<<n1, n2>>, <<t, k>>))[2] = Added(n1, t, k)
<1> DEFINE l == PlainLine(<<n1, n2>>, <<t, k>>)
           ns == <<n1, n2>>
           kt == IF t \in NamedTypes THEN t ELSE "unknown"
           tn == IF t \in NamedTypes THEN None ELSE t
           x(n) == Added(n, t, k)
           f == [i \in 1..2 |-> x(ns[i])]
<1>2. Len(ns) = 2 /\ ns[1] = n1 /\ ns[2] = n2 /\ 2 # 1
  OBVIOUS
<1>3. ParseKey(<<t, k>>) = Parsed(kt, tn, <<k>>, NoComment)
  <2>1. /\ <<t, k>>[1] = t /\ <<t, k>>[2] = k /\ Len(<<t, k>>) = 2 /\ t # "bits"
        /\ 2 # 1 /\ 2 <= 2
    BY DEF ForeignTypes
  <2> QED
    BY <2>1, Zenon DEF ParseKey, Parsed
<1>4. Entries(l) = Reverse(f)
  <2> DEFINE p == ParseKey(l.words)
             e(type, n) == Entry(type, n, p.keytype, p.typename, p.key, p.comment)
             nn == l.field.names
  <2>1. Entries(l) = IF l.field.hash THEN <<e("sha1", nn[1])>>
          ELSE IF Len(nn) = 1 /\ nn[1].port = 0 /\ nn[1].name \in KhShort THEN <<>>
          ELSE Reverse([i \in 1..Len(nn) |-> e("plain", nn[i])])
    BY Zenon DEF Entries
  <2>2. ~l.field.hash /\ nn = ns /\ l.words = <<t, k>>
    BY DEF PlainLine
  <2>3. p = Parsed(kt, tn, <<k>>, NoComment)
    BY <2>2, <1>3, Zenon
  <2>4. p.keytype = kt /\ p.typename = tn /\ p.key = <<k>> /\ p.comment = NoComment
    <3> HIDE DEF kt, tn, p
    <3> QED
      BY <2>3 DEF Parsed
  <2>5. \A n : e("plain", n) = x(n)
    BY <2>4, Zenon DEF Added
  <2> HIDE DEF nn, x, e
  <2>6. Entries(l) = Reverse([i \in 1..Len(nn) |-> e("plain", nn[i])])
    BY <2>1, <2>2, <1>2, Zenon
  <2>7. [i \in 1..Len(nn) |-> e("plain", nn[i])] = f
    BY <2>2, <2>5, <1>2, Zenon
  <2> QED
    BY <2>6, <2>7, Zenon
<1> HIDE DEF x, l
<1>6. f \in Seq({x(n1), x(n2)}) /\ Len(f) = 2 /\ f[1] = x(n1) /\ f[2] = x(n2)
  BY <1>2
<1> HIDE DEF f
<1>7. Reverse(f) \in Seq({x(n1), x(n2)}) /\ Len(Reverse(f)) = 2
      /\ Reverse(f)[1] = f[2] /\ Reverse(f)[2] = f[1]
  BY <1>6 DEF Reverse
<1>8. Entries(l) \in Seq({x(n1), x(n2)}) /\ Len(Entries(l)) = 2
      /\ Entries(l)[1] = x(n2) /\ Entries(l)[2] = x(n1)
  BY <1>4, <1>6, <1>7
<1> QED
  BY <1>8, Zenon DEF x, l

(* What somebody else's line adds is kept: two entries, one before a name  *)
(* that is too long is met, or none.                                       *)
LEMMA ForeignKeeps ==
  ASSUME NEW l \in ForeignLines
  PROVE  AllKept(Adds(l))
<1> DEFINE hs == KhHosts \ KhShort
<1>0. \/ \E h \in hs, t \in ForeignTypes, k \in KhKeys :
            l = PlainLine(<<Plain(h), Ported(h, 22)>>, <<t, k>>)
      \/ \E h \in hs, k \in KhKeys : l = PlainLine(<<Plain(Long), Plain(h)>>, <<"ssh-rsa", k>>)
      \/ \E h \in hs, ws \in {<<>>, <<"ssh-rsa", Tiny>>} : l = PlainLine(<<Plain(h)>>, ws)
      \/ l = Remark
  BY DEF ForeignLines, PlainLine, ForeignTypes
<1>s. ASSUME NEW h \in hs
      PROVE  /\ Sound(Plain(h)) /\ Sound(Ported(h, 22))
             /\ ~TooLong(Plain(h)) /\ ~TooLong(Ported(h, 22))
  BY KhAssumption DEF Plain, Ported, Sound, TooLong, None, LongSalt
<1>k. ASSUME NEW t \in ForeignTypes, NEW k \in KhKeys
      PROVE  k # Tiny /\ ~TooShort(<<t, k>>)
  <2>1. k # Tiny /\ <<t, k>> # <<>> /\ <<t, k>>[2] = k
    BY KhAssumption
  <2> QED
    BY <2>1, Zenon DEF TooShort
<1>1. ASSUME NEW h \in hs, NEW t \in ForeignTypes, NEW k \in KhKeys,
             l = PlainLine(<<Plain(h), Ported(h, 22)>>, <<t, k>>)
      PROVE  AllKept(Adds(l))
  <2> DEFINE a == Plain(h)
             b == Ported(h, 22)
  <2>1. Sound(a) /\ Sound(b) /\ ~TooLong(a) /\ ~TooLong(b) /\ k # Tiny
        /\ ~TooShort(<<t, k>>)
    BY <1>s, <1>k
  <2> HIDE DEF a, b
  <2>2. Kept(Added(a, t, k)) /\ Kept(Added(b, t, k))
    BY <2>1, ForeignKept, Zenon DEF Added
  <2>3. ~Refused(l)
    <3>1. /\ l.words = <<t, k>> /\ l.field.names = <<a, b>>
          /\ DOMAIN <<a, b>> = {1, 2} /\ <<a, b>>[1] = a /\ <<a, b>>[2] = b
      BY <1>1 DEF a, b, PlainLine
    <3> QED
      BY <2>1, <3>1, Zenon DEF Refused
  <2>4. Len(Entries(l)) = 2 /\ Entries(l)[1] = Added(b, t, k) /\ Entries(l)[2] = Added(a, t, k)
    <3> DEFINE m == PlainLine(<<a, b>>, <<t, k>>)
    <3>0. t \in ForeignTypes
      OBVIOUS
    <3>1. /\ Entries(m) \in Seq({Added(a, t, k), Added(b, t, k)})
          /\ Len(Entries(m)) = 2
          /\ Entries(m)[1] = Added(b, t, k) /\ Entries(m)[2] = Added(a, t, k)
      BY <3>0, TwoNames
    <3>2. l = m
      BY <1>1, Zenon DEF a, b
    <3> HIDE DEF m
    <3> QED
      BY <3>1, <3>2
  <2>5. \A i \in 1..2 : i = 1 \/ i = 2
    OBVIOUS
  <2> QED
    BY <2>2, <2>3, <2>4, <2>5, Zenon DEF Adds, AllKept
<1>2. ASSUME NEW h \in hs, NEW k \in KhKeys,
             l = PlainLine(<<Plain(Long), Plain(h)>>, <<"ssh-rsa", k>>)
      PROVE  AllKept(Adds(l))
  <2> DEFINE a == Plain(Long)
             b == Plain(h)
             t == "ssh-rsa"
             s == Entries(l)
  <2>0. t \in ForeignTypes
    BY DEF ForeignTypes
  <2>1. Sound(b) /\ ~TooLong(b) /\ k # Tiny /\ ~TooShort(<<t, k>>) /\ TooLong(a)
    BY <2>0, <1>s, <1>k DEF TooLong, Plain
  <2> HIDE DEF a, b
  <2>2. Kept(Added(b, t, k))
    BY <2>0, <2>1, ForeignKept, Zenon DEF Added
  <2>3. /\ l.words = <<t, k>> /\ l.field.names = <<a, b>> /\ Len(<<a, b>>) = 2
        /\ DOMAIN <<a, b>> = {1, 2} /\ <<a, b>>[1] = a /\ <<a, b>>[2] = b
        /\ <<a, b>> # <<>>
    BY <1>2 DEF a, b, PlainLine
  <2>4. Refused(l)
    <3>1. l # Remark
      BY <2>3 DEF Remark
    <3> QED
      BY <2>1, <2>3, <3>1, Zenon DEF Refused
  <2>5. Fits(l) = 1
    <3> DEFINE I == {i \in 1..2 : TooLong(<<a, b>>[i])}
    <3>1. I = {1}
      BY <2>1, <2>3
    <3>2. Max({1}) = 1
      BY DEF Max
    <3>3. SelectLastInSeq(l.field.names, TooLong) = IF I # {} THEN Max(I) ELSE 0
      BY <2>3, Zenon DEF SelectLastInSeq
    <3>4. Fits(l) = Len(l.field.names) - SelectLastInSeq(l.field.names, TooLong)
      BY <2>1, <2>3, Zenon DEF Fits
    <3>5. SelectLastInSeq(l.field.names, TooLong) = 1
      BY <3>1, <3>2, <3>3, Zenon
    <3> QED
      BY <2>3, <3>4, <3>5
  <2>6. s \in Seq({Added(a, t, k), Added(b, t, k)}) /\ Len(s) = 2 /\ s[1] = Added(b, t, k)
    <3> DEFINE m == PlainLine(<<a, b>>, <<t, k>>)
    <3> HIDE DEF t
    <3>1. /\ Entries(m) \in Seq({Added(a, t, k), Added(b, t, k)})
          /\ Len(Entries(m)) = 2 /\ Entries(m)[1] = Added(b, t, k)
      BY <2>0, TwoNames
    <3>2. l = m
      BY <1>2, Zenon DEF a, b, t
    <3> HIDE DEF m
    <3> QED
      BY <3>1, <3>2
  <2> HIDE DEF s
  <2>7. /\ Adds(l) = [i \in 1..1 |-> s[i]]
        /\ \A i \in 1..1 : i = 1
    BY <2>4, <2>5 DEF Adds, s
  <2>8. Len([i \in 1..1 |-> s[i]]) = 1 /\ [i \in 1..1 |-> s[i]][1] = s[1]
    OBVIOUS
  <2> QED
    BY <2>2, <2>6, <2>7, <2>8, Zenon DEF AllKept
<1>3. ASSUME NEW h \in hs, NEW ws \in {<<>>, <<"ssh-rsa", Tiny>>}, l = PlainLine(<<Plain(h)>>, ws)
      PROVE  AllKept(Adds(l))
  <2>1. TooShort(ws)
    BY DEF TooShort
  <2>2. l.words = ws /\ l # Remark
    BY <1>3 DEF Remark, PlainLine
  <2>3. Refused(l) /\ Fits(l) = 0
    BY <2>1, <2>2, Zenon DEF Refused, Fits
  <2>4. Adds(l) = [i \in 1..0 |-> Entries(l)[i]]
    BY <2>3, Zenon DEF Adds
  <2>5. Len([i \in 1..0 |-> Entries(l)[i]]) = 0
    OBVIOUS
  <2> QED
    BY <2>4, <2>5 DEF AllKept
<1>4. CASE l = Remark
  <2> DEFINE p == ParseKey(l.words)
             e(type, n) == Entry(type, n, p.keytype, p.typename, p.key, p.comment)
             nn == l.field.names
             f == [i \in 1..Len(nn) |-> e("plain", nn[i])]
  <2>1. Entries(l) = IF l.field.hash THEN <<e("sha1", nn[1])>>
          ELSE IF Len(nn) = 1 /\ nn[1].port = 0 /\ nn[1].name \in KhShort THEN <<>>
          ELSE Reverse(f)
    BY Zenon DEF Entries
  <2>2. ~l.field.hash /\ Len(nn) = 0 /\ 0 # 1
    BY <1>4 DEF Remark
  <2> HIDE DEF e, nn
  <2>3. Len(f) = 0
    BY <2>2
  <2> HIDE DEF f
  <2>4. Entries(l) = Reverse(f)
    BY <2>1, <2>2, Zenon
  <2>5. Len(Reverse(f)) = 0
    BY <2>3 DEF Reverse
  <2>6. Adds(l) = Entries(l)
    BY <1>4, Zenon DEF Adds, Refused
  <2> QED
    BY <2>4, <2>5, <2>6 DEF AllKept
<1> HIDE DEF hs
<1> QED
  BY <1>0, <1>1, <1>2, <1>3, <1>4, Zenon

(* While the file is read the collection is the beginning of the one that  *)
(* was written, and the lines that are left are those of its rest.         *)
FileInv ==
  /\ AllKept(hosts)
  /\ khState \in {"written", "reading", "loaded"} => IsList(saved) /\ AllKept(saved)
  /\ khState = "written" =>
       /\ Len(file) = Len(saved)
       /\ \A i \in 1..Len(file) : file[i] = Line(saved[i])
  /\ khState = "reading" =>
       /\ Len(hosts) + Len(file) = Len(saved)
       /\ \A i \in 1..Len(hosts) : hosts[i] = saved[i]
       /\ \A i \in 1..Len(file) : file[i] = Line(saved[Len(hosts) + i])
  /\ khState = "loaded" => hosts = saved
  /\ khState # "refused"

LEMMA ConcatKept ==
  ASSUME NEW s, NEW t, IsList(s), IsList(t), AllKept(s), AllKept(t)
  PROVE  AllKept(s \o t)
<1>1. PICK S : s \in Seq(S)
  BY DEF IsList
<1>2. PICK T : t \in Seq(T)
  BY DEF IsList
<1>3. s \in Seq(S \cup T) /\ t \in Seq(S \cup T)
  BY <1>1, <1>2
<1>4. /\ Len(s \o t) = Len(s) + Len(t) /\ Len(s) \in Nat /\ Len(t) \in Nat
      /\ \A i \in 1..Len(s) + Len(t) :
           (s \o t)[i] = IF i <= Len(s) THEN s[i] ELSE t[i - Len(s)]
  BY <1>3, ConcatProperties
<1> SUFFICES ASSUME NEW i \in 1..Len(s) + Len(t)
             PROVE  Kept((s \o t)[i])
  BY <1>4 DEF AllKept
<1>5. CASE i <= Len(s)
  <2>1. i \in 1..Len(s) /\ (s \o t)[i] = s[i]
    BY <1>4, <1>5
  <2> QED
    BY <2>1 DEF AllKept
<1>6. CASE ~(i <= Len(s))
  <2>1. i - Len(s) \in 1..Len(t) /\ (s \o t)[i] = t[i - Len(s)]
    BY <1>4, <1>6
  <2> QED
    BY <2>1 DEF AllKept
<1> QED
  BY <1>5, <1>6

LEMMA PartKept ==
  ASSUME NEW s, IsList(s), AllKept(s), NEW a \in 1..Len(s) + 1, NEW b \in 0..Len(s)
  PROVE  IsList(SubSeq(s, a, b)) /\ AllKept(SubSeq(s, a, b))
<1>1. PICK S : s \in Seq(S)
  BY DEF IsList
<1>2. Len(s) \in Nat
  BY <1>1
<1>3. /\ SubSeq(s, a, b) \in Seq(S)
      /\ Len(SubSeq(s, a, b)) = IF a <= b THEN b - a + 1 ELSE 0
      /\ \A i \in 1..(b - a + 1) : SubSeq(s, a, b)[i] = s[a + i - 1]
  BY <1>1, <1>2, SubSeqProperties
<1>4. ASSUME NEW i \in 1..Len(SubSeq(s, a, b))
      PROVE  Kept(SubSeq(s, a, b)[i])
  <2>1. i \in 1..(b - a + 1) /\ a + i - 1 \in 1..Len(s)
    BY <1>2, <1>3
  <2>2. SubSeq(s, a, b)[i] = s[a + i - 1]
    BY <1>3, <2>1
  <2> QED
    BY <2>1, <2>2 DEF AllKept
<1> QED
  BY <1>3, <1>4 DEF IsList, AllKept

LEMMA FileInvStep ==
  ASSUME KhFormats = {}, KhLists, FileInv, [KhNext]_khVars
  PROVE  FileInv'
<1>h. IsList(hosts) /\ AllKept(hosts) /\ Len(hosts) \in Nat
  BY ListedLen DEF KhLists, FileInv
<1>e. AllKept(<<>>)
  BY DEF AllKept
<1>f. ASSUME khState' = "edited", AllKept(hosts')
      PROVE  FileInv'
  BY <1>f DEF FileInv
<1>1. ASSUME NEW e \in Addable, Add(e)
      PROVE  FileInv'
  <2>1. Append(hosts, e) = hosts \o <<e>>
    <3>1. PICK S : hosts \in Seq(S)
      BY <1>h DEF IsList
    <3> QED
      BY <3>1
  <2>2. AllKept(<<e>>) /\ IsList(<<e>>)
    <3>1. Kept(e)
      BY AddableKept
    <3>2. Len(<<e>>) = 1 /\ <<e>>[1] = e /\ \A i \in 1..1 : i = 1
      OBVIOUS
    <3>3. AllKept(<<e>>)
      BY <3>1, <3>2, Zenon DEF AllKept
    <3> QED
      BY <3>3, ListedFew
  <2>3. AllKept(hosts \o <<e>>)
    BY <1>h, <2>2, ConcatKept
  <2>4. hosts' = hosts \o <<e>> /\ khState' = "edited"
    BY <1>1, <2>1 DEF Add, Edited
  <2> QED
    BY <2>3, <2>4, <1>f, Zenon
<1>2. ASSUME NEW l \in ForeignLines, ReadLine(l)
      PROVE  FileInv'
  <2>1. AllKept(Adds(l)) /\ IsList(Adds(l))
    BY ForeignKeeps, ForeignListed
  <2>2. AllKept(hosts \o Adds(l))
    BY <1>h, <2>1, ConcatKept
  <2>3. hosts' = hosts \o Adds(l) /\ khState' = "edited"
    BY <1>2 DEF ReadLine, Edited
  <2> QED
    BY <2>2, <2>3, <1>f, Zenon
<1>3. ASSUME NEW i \in 1..KhMax, Del(i)
      PROVE  FileInv'
  <2>1. i \in 1..Len(hosts) /\ hosts' = RemoveAt(hosts, i) /\ khState' = "edited"
    BY <1>3 DEF Del, Edited
  <2>2. /\ 1 \in 1..Len(hosts) + 1 /\ i - 1 \in 0..Len(hosts)
        /\ i + 1 \in 1..Len(hosts) + 1 /\ Len(hosts) \in 0..Len(hosts)
    BY <1>h, <2>1
  <2>3. /\ IsList(SubSeq(hosts, 1, i - 1)) /\ AllKept(SubSeq(hosts, 1, i - 1))
    BY <1>h, <2>2, PartKept
  <2>4. /\ IsList(SubSeq(hosts, i + 1, Len(hosts)))
        /\ AllKept(SubSeq(hosts, i + 1, Len(hosts)))
    BY <1>h, <2>2, PartKept
  <2>5. AllKept(RemoveAt(hosts, i))
    BY <2>3, <2>4, ConcatKept DEF RemoveAt
  <2> QED
    BY <2>1, <2>5, <1>f, Zenon
<1>4. CASE WriteFile
  <2>1. /\ file' = FileLines(hosts, Written(hosts)) /\ hosts' = hosts /\ saved' = hosts
        /\ khState' \in {"written", "broken"}
        /\ khState' = "written" => Written(hosts) = Len(hosts)
    <3> DEFINE bad == SelectInSeq(hosts, LAMBDA e : ~Writable(e))
    <3>1. Written(hosts) = IF bad = 0 THEN Len(hosts) ELSE bad - 1
      BY Zenon DEF Written
    <3>2. /\ file' = [i \in 1..(IF bad = 0 THEN Len(hosts) ELSE bad - 1) |-> Line(hosts[i])]
          /\ khState' = IF bad = 0 THEN "written" ELSE "broken"
          /\ saved' = hosts /\ hosts' = hosts
      BY <1>4, Zenon DEF WriteFile
    <3>3. file' = FileLines(hosts, Written(hosts))
      BY <3>1, <3>2, Zenon DEF FileLines
    <3> HIDE DEF bad
    <3> QED
      BY <3>1, <3>2, <3>3
  <2>2. CASE khState' = "written"
    <3>1. /\ Len(file') = Len(hosts)
          /\ \A i \in 1..Len(hosts) : file'[i] = Line(hosts[i])
      BY <1>h, <2>1, <2>2, LinesListed
    <3> QED
      BY <1>h, <2>1, <2>2, <3>1 DEF FileInv
  <2>3. CASE khState' = "broken"
    BY <1>h, <2>1, <2>3 DEF FileInv
  <2> QED
    BY <2>1, <2>2, <2>3
<1>5. CASE OpenFile
  <2>1. /\ hosts' = <<>> /\ khState' = "reading" /\ file' = file /\ saved' = saved
        /\ khState = "written"
    BY <1>5 DEF OpenFile
  <2>2. Len(file) \in Nat
    BY ListedLen DEF KhLists
  <2> QED
    BY <1>e, <2>1, <2>2 DEF FileInv
<1>6. CASE NextLine
  <2> DEFINE n == Len(hosts)
             x == saved[n + 1]
  <2>1. /\ hosts' = hosts \o Adds(Head(file)) /\ file' = Tail(file)
        /\ file # <<>> /\ IsList(file) /\ khState = "reading"
        /\ saved' = saved
        /\ khState' = IF Refused(Head(file)) THEN "refused" ELSE "reading"
    BY <1>6 DEF NextLine, KhLists
  <2>2. /\ Len(file) \in Nat \ {0} /\ Head(file) = file[1] /\ IsList(Tail(file))
        /\ Len(Tail(file)) = Len(file) - 1
        /\ \A i \in 1..Len(Tail(file)) : Tail(file)[i] = file[i + 1]
    BY <2>1, ListedLen
  <2>3. /\ n + Len(file) = Len(saved)
        /\ \A i \in 1..n : hosts[i] = saved[i]
        /\ \A i \in 1..Len(file) : file[i] = Line(saved[n + i])
        /\ AllKept(saved)
    BY <2>1 DEF FileInv
  <2>4. n + 1 \in 1..Len(saved)
    BY <1>h, <2>2, <2>3
  <2>5. Kept(x)
    BY <2>3, <2>4 DEF AllKept
  <2>6. Adds(Head(file)) = <<x>> /\ khState' = "reading"
    <3>1. Head(file) = Line(x)
      BY <2>2, <2>3
    <3> QED
      BY <3>1, <2>1, <2>5, Zenon DEF Kept, Adds
  <2> HIDE DEF x
  <2>7. /\ Len(hosts \o <<x>>) = n + 1
        /\ \A i \in 1..n : (hosts \o <<x>>)[i] = hosts[i]
        /\ (hosts \o <<x>>)[n + 1] = x
    <3>1. PICK S : hosts \in Seq(S)
      BY <1>h DEF IsList
    <3>2. hosts \in Seq(S \cup {x}) /\ <<x>> \in Seq(S \cup {x}) /\ Len(<<x>>) = 1
          /\ <<x>>[1] = x
      BY <3>1
    <3> QED
      BY <1>h, <3>2, ConcatProperties
  <2>8. /\ Len(hosts') = n + 1 /\ Len(file') = Len(file) - 1
        /\ \A i \in 1..n : hosts'[i] = saved[i]
        /\ hosts'[n + 1] = saved[n + 1]
        /\ \A i \in 1..Len(file) - 1 : file'[i] = file[i + 1]
    BY <2>1, <2>2, <2>3, <2>6, <2>7 DEF x
  <2>9. \A i \in 1..Len(hosts') : hosts'[i] = saved[i]
    <3>1. \A i \in 1..n + 1 : i \in 1..n \/ i = n + 1
      BY <1>h
    <3> QED
      BY <2>8, <3>1
  <2>10. \A i \in 1..Len(file') : file'[i] = Line(saved[Len(hosts') + i])
    <3> SUFFICES ASSUME NEW i \in 1..Len(file) - 1
                 PROVE  file'[i] = Line(saved[n + 1 + i])
      BY <2>8
    <3>1. i + 1 \in 1..Len(file) /\ n + (i + 1) = n + 1 + i
      BY <1>h, <2>2
    <3>2. file[i + 1] = Line(saved[n + (i + 1)])
      BY <2>3, <3>1
    <3> QED
      BY <2>8, <3>1, <3>2
  <2>11. AllKept(hosts')
    <3>1. Len(hosts') <= Len(saved) /\ Len(hosts') \in Nat /\ Len(saved) \in Nat
      BY <1>h, <2>2, <2>3, <2>8
    <3> QED
      BY <2>3, <2>9, <3>1 DEF AllKept
  <2>12. Len(hosts') + Len(file') = Len(saved)
    <3>1. Len(hosts') = n + 1 /\ Len(file') = Len(file) - 1
      BY <2>8
    <3>2. n \in Nat /\ Len(file) \in Nat /\ n + Len(file) = Len(saved)
      BY <1>h, <2>2, <2>3
    <3> HIDE DEF n
    <3> QED
      BY ONLY <3>1, <3>2
  <2>13. IsList(saved)
    BY <2>1 DEF FileInv
  <2> QED
    BY <2>1, <2>3, <2>6, <2>9, <2>10, <2>11, <2>12, <2>13 DEF FileInv
<1>7. CASE CloseFile
  <2>1. /\ hosts' = hosts /\ file' = file /\ saved' = saved
        /\ khState = "reading" /\ khState' = "loaded" /\ file = <<>>
    BY <1>7 DEF CloseFile
  <2>2. /\ Len(hosts) = Len(saved) /\ \A i \in 1..Len(hosts) : hosts[i] = saved[i]
        /\ IsList(saved) /\ AllKept(saved)
    BY <1>h, <2>1 DEF FileInv
  <2>3. hosts = saved
    <3>1. PICK S : hosts \in Seq(S)
      BY <1>h DEF IsList
    <3>2. PICK T : saved \in Seq(T)
      BY <2>2 DEF IsList
    <3>3. hosts \in Seq(S \cup T) /\ saved \in Seq(S \cup T)
      BY <3>1, <3>2
    <3> QED
      BY <2>2, <3>3, SeqEqual
  <2> QED
    BY <1>h, <2>1, <2>2, <2>3 DEF FileInv
<1>8. CASE UNCHANGED khVars
  <2>1. hosts' = hosts /\ file' = file /\ saved' = saved /\ khState' = khState
    BY <1>8 DEF khVars
  <2> QED
    BY <2>1, Zenon DEF FileInv
<1> QED
  BY <1>1, <1>2, <1>3, <1>4, <1>5, <1>6, <1>7, <1>8, Zenon DEF KhNext, ReadFile

(* A collection that libssh2_knownhost_writefile() wrote and               *)
(* libssh2_knownhost_readfile() reads back gives every check the verdict   *)
(* it gave before, for collections of every size, if none of its entries   *)
(* is of the formats in KhFormats.                                         *)
THEOREM FileIsFaithful ==
  ASSUME KhFormats = {}
  PROVE  KhSpec => []FileKeepsVerdicts
<1>1. KhInit => KhLists /\ FileInv
  <2>1. IsList(<<>>) /\ OneName(<<>>) /\ AllKept(<<>>)
    BY ListedFew, NoLines DEF AllKept
  <2>2. KhInit => KhLists
    BY <2>1, Zenon DEF KhInit, KhLists
  <2>3. KhInit => FileInv
    BY <2>1 DEF KhInit, FileInv
  <2> QED
    BY <2>2, <2>3
<1>2. KhLists /\ FileInv /\ [KhNext]_khVars => KhLists' /\ FileInv'
  BY KhListsStep, FileInvStep
<1>3. FileInv => FileKeepsVerdicts
  BY Zenon DEF FileInv, FileKeepsVerdicts
<1> QED
  BY <1>1, <1>2, <1>3, PTL DEF KhSpec

=============================================================================
