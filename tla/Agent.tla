------------------------------- MODULE Agent -------------------------------
(***************************************************************************)
(* Authentication with an ssh-agent (src/libssh2/src/agent.c) and the      *)
(* functions of src/ssh2/agent.pyx that drive it: connect to the agent's   *)
(* socket, list its identities, and sign with them one after the other     *)
(* until the SSH server accepts one.                                       *)
(*                                                                         *)
(* The agent's socket is a blocking one.  A request and a response are a   *)
(* length and a body, written and read in four steps (agent_transact_unix) *)
(* over one connection that every transaction of the handle shares.  The   *)
(* number of the file descriptor is kept apart from what it denotes, since *)
(* a number that was closed is soon given to another file of the process.  *)
(*                                                                         *)
(* The agent and the SSH server are external.                              *)
(***************************************************************************)
EXTENDS Integers, Sequences, FiniteSets

CONSTANTS
  AgentKeys,     \* the keys the agent may hold
  AgentTroubles  \* "refused": nobody listens at the socket; "signal": a
                 \* signal interrupts a read; "old": the agent knows no
                 \* rsa-sha2 signatures; "forgets": it drops a key; "dies":
                 \* it closes the connection

ASSUME AgentAssumption ==
  AgentTroubles \subseteq {"refused", "signal", "old", "forgets", "dies"}

VARIABLES
  ag,        \* the LIBSSH2_AGENT and its transaction
  auth,      \* what libssh2_agent_userauth() keeps in the session
  fd,        \* what the number of the descriptor denotes
  agProc,    \* the agent: the keys it holds, and whether it has closed
  toAgent,   \* pieces on their way to the agent
  fromAgent  \* pieces on their way back

agVars == <<ag, auth, fd, agProc, toAgent, fromAgent>>

Nobody == "nobody"
Message(kind, k, m, n, ids) ==
  [kind |-> kind, key |-> k, method |-> m, n |-> n, ids |-> ids]
Request(kind, k, m, n) == Message(kind, k, m, n, <<>>)
NoRequest == Request("none", Nobody, "none", 0)
LengthOf == Request("length", Nobody, "none", 0)

NoAuth == [st |-> "idle", key |-> Nobody, method |-> "none", n |-> 0,
           attempt |-> 0, sig |-> NoRequest, verdict |-> "none"]

AgentInit ==
  /\ ag = [handle |-> FALSE, fdset |-> FALSE, ops |-> FALSE, st |-> "init",
           request |-> NoRequest, response |-> NoRequest, ids |-> <<>>,
           listed |-> FALSE, closedOther |-> FALSE]
  /\ auth = NoAuth
  /\ fd = "free"
  /\ agProc = [keys |-> AgentKeys, gone |-> FALSE]
  /\ toAgent = <<>>
  /\ fromAgent = <<>>

----------------------------------------------------------------------------
(* libssh2_agent_init(), libssh2_agent_connect(), disconnect and free      *)

AgentOpen ==
  /\ ~ag.handle /\ ~ag.closedOther
  /\ ag' = [ag EXCEPT !.handle = TRUE, !.fdset = FALSE, !.ops = FALSE,
                      !.st = "init", !.ids = <<>>, !.listed = FALSE]
  /\ UNCHANGED <<auth, fd, agProc, toAgent, fromAgent>>

(* A connection that is refused closes the descriptor and leaves its       *)
(* number in the handle.                                                   *)
AgentConnect ==
  /\ ag.handle /\ ~ag.fdset /\ fd = "free"
  /\ \/ /\ ag' = [ag EXCEPT !.ops = TRUE, !.fdset = TRUE]
        /\ fd' = "agent"
     \/ /\ "refused" \in AgentTroubles
        /\ ag' = [ag EXCEPT !.ops = TRUE, !.fdset = TRUE]
        /\ UNCHANGED fd
  /\ UNCHANGED <<auth, agProc, toAgent, fromAgent>>

(* Another thread of the process opens a file and is given the number.     *)
OtherOpens ==
  /\ fd = "free" /\ ag.handle /\ ag.fdset
  /\ fd' = "other"
  /\ UNCHANGED <<ag, auth, agProc, toAgent, fromAgent>>

NoTransaction(a) == [a EXCEPT !.st = "init", !.request = NoRequest,
                              !.response = NoRequest]

(* clear_agent(): libssh2_agent_disconnect() and libssh2_agent_free() close *)
(* the descriptor while its number is set.                                 *)
ClearAgent ==
  /\ ag' = [NoTransaction(ag) EXCEPT !.handle = FALSE, !.fdset = FALSE,
                      !.ids = <<>>, !.listed = FALSE,
                      !.closedOther = ag.fdset /\ fd = "other"]
  /\ fd' = IF ag.fdset THEN "free" ELSE fd
  /\ toAgent' = <<>>
  /\ fromAgent' = <<>>
  /\ UNCHANGED agProc

----------------------------------------------------------------------------
(* agent_transact_unix()                                                   *)

(* A read at the end of the connection returns 0, and _recv_all() asks     *)
(* again for ever: there is no step for it.                                *)
Transact(r) ==
  /\ ag.request = r /\ ag.ops
  /\ \/ /\ ag.st = "created" /\ ~agProc.gone
        /\ ag' = [ag EXCEPT !.st = "length_sent"]
        /\ toAgent' = Append(toAgent, LengthOf)
        /\ UNCHANGED fromAgent
     \/ /\ ag.st = "length_sent" /\ ~agProc.gone
        /\ ag' = [ag EXCEPT !.st = "request_sent"]
        /\ toAgent' = Append(toAgent, r)
        /\ UNCHANGED fromAgent
     \/ /\ ag.st = "request_sent" /\ fromAgent # <<>>
        /\ ag' = [ag EXCEPT !.st = "response_length"]
        /\ fromAgent' = Tail(fromAgent)
        /\ UNCHANGED toAgent
     \/ /\ ag.st = "response_length" /\ fromAgent # <<>>
        /\ ag' = [ag EXCEPT !.st = "response_received", !.response = Head(fromAgent)]
        /\ fromAgent' = Tail(fromAgent)
        /\ UNCHANGED toAgent
  /\ UNCHANGED <<auth, fd, agProc>>

(* A read that fails, for example for a signal, ends the transaction; the  *)
(* rest of the response stays in the socket.  A write fails once the agent *)
(* has closed its end.                                                     *)
TransactFails ==
  \/ /\ "signal" \in AgentTroubles
     /\ ag.st \in {"request_sent", "response_length"}
  \/ agProc.gone /\ ag.st \in {"created", "length_sent"}

----------------------------------------------------------------------------
(* libssh2_agent_list_identities(): the last list is freed, the            *)
(* transaction begun anew                                                  *)

ListIdentities ==
  /\ ag.handle /\ ag.ops /\ fd = "agent" /\ ag.st = "init" /\ ~ag.listed
  /\ ag' = [ag EXCEPT !.ids = <<>>, !.st = "created",
                      !.request = Request("list", Nobody, "none", 0)]
  /\ UNCHANGED <<auth, fd, agProc, toAgent, fromAgent>>

ListTransact == Transact(Request("list", Nobody, "none", 0))

(* The answer is taken apart; anything else is an error, and the caller    *)
(* (agent_auth) gives the agent up.                                        *)
ListDone ==
  /\ ag.request.kind = "list"
  /\ \/ /\ ag.st = "response_received" /\ ag.response.kind = "identities"
        /\ ag' = [NoTransaction(ag) EXCEPT !.ids = ag.response.ids, !.listed = TRUE]
        /\ UNCHANGED <<auth, fd, agProc, toAgent, fromAgent>>
     \/ /\ \/ ag.st = "response_received" /\ ag.response.kind # "identities"
           \/ TransactFails
        /\ ClearAgent
        /\ auth' = [NoAuth EXCEPT !.verdict = "failed"]

----------------------------------------------------------------------------
(* libssh2_agent_userauth() on the next identity                           *)

(* With no request of its own under way the transaction is cleared.  The   *)
(* probe asks the server whether the key would do.                         *)
Userauth ==
  /\ ag.handle /\ ag.listed /\ auth.st = "idle" /\ auth.verdict = "none"
  /\ ag.ids # <<>>
  /\ ag' = NoTransaction(ag)
  /\ auth' = [auth EXCEPT !.st = "probe", !.key = Head(ag.ids), !.n = @ + 1,
                          !.attempt = 1, !.method = "sha2"]
  /\ UNCHANGED <<fd, agProc, toAgent, fromAgent>>

NextIdentity ==
  /\ ag' = [NoTransaction(ag) EXCEPT !.ids = Tail(@)]
  /\ auth' = [auth EXCEPT !.st = "idle", !.sig = NoRequest]
  /\ UNCHANGED <<fd, agProc, toAgent, fromAgent>>

(* The server's answer to the probe: it would do; it will not; or the user *)
(* is let in at once.  The number of the attempt is a local variable,      *)
(* which begins anew when the wait for the answer was left with EAGAIN.    *)
Probe ==
  /\ auth.st = "probe"
  /\ \/ /\ \E a \in {1, auth.attempt} :
             auth' = [auth EXCEPT !.st = "sign", !.attempt = a]
        /\ ag' = [ag EXCEPT !.st = "created",
                            !.request = Request("sign", auth.key, auth.method, auth.n)]
        /\ UNCHANGED <<fd, agProc, toAgent, fromAgent>>
     \/ NextIdentity
     \/ /\ auth' = [auth EXCEPT !.st = "idle", !.verdict = "authenticated"]
        /\ ClearAgent

SignTransact == auth.st = "sign" /\ Transact(ag.request)

(* A bug: the signing gives up when the length of the answer has come.     *)
HastySignDone ==
  /\ auth.st = "sign" /\ ag.st = "response_length"
  /\ NextIdentity

(* agent_sign(): a signature made with another method than the one that    *)
(* was announced to the server is refused; the first time the whole        *)
(* request is made again with the key's own method.                        *)
SignDone ==
  /\ auth.st = "sign"
  /\ \/ /\ ag.st = "response_received" /\ ag.response.kind = "signature"
        /\ ag.response.method = auth.method
        /\ ag' = NoTransaction(ag)
        /\ auth' = [auth EXCEPT !.st = "signed", !.sig = ag.response]
        /\ UNCHANGED <<fd, agProc, toAgent, fromAgent>>
     \/ /\ ag.st = "response_received" /\ ag.response.kind = "signature"
        /\ ag.response.method # auth.method /\ auth.attempt = 1
        /\ ag' = NoTransaction(ag)
        /\ auth' = [auth EXCEPT !.st = "probe", !.attempt = 2, !.method = "own",
                                !.n = @ + 1]
        /\ UNCHANGED <<fd, agProc, toAgent, fromAgent>>
     \/ /\ \/ ag.st = "response_received" /\ ag.response.kind # "signature"
           \/ /\ ag.st = "response_received" /\ ag.response.kind = "signature"
              /\ ag.response.method # auth.method /\ auth.attempt = 2
           \/ TransactFails
        /\ NextIdentity

(* The server's answer to the signature.                                   *)
Verdict ==
  /\ auth.st = "signed"
  /\ \/ /\ auth' = [auth EXCEPT !.st = "idle", !.verdict = "authenticated"]
        /\ ClearAgent
     \/ NextIdentity

(* agent_auth(), auth_identity(): the last identity was tried.             *)
NoMoreIdentities ==
  /\ ag.handle /\ ag.listed /\ auth.st = "idle" /\ ag.ids = <<>>
  /\ auth' = [auth EXCEPT !.verdict = "failed"]
  /\ ClearAgent

(* init_connect_agent() that was refused frees the agent.                  *)
ConnectFailed ==
  /\ ag.handle /\ ag.fdset /\ fd # "agent"
  /\ auth' = [auth EXCEPT !.verdict = "failed"]
  /\ ClearAgent

----------------------------------------------------------------------------
(* The agent: a length, a body, an answer                                  *)

Orders(S) == {s \in [1..Cardinality(S) -> S] : \A i, j \in DOMAIN s : i # j => s[i] # s[j]}

AgentAnswers ==
  /\ toAgent # <<>> /\ ~agProc.gone
  /\ toAgent' = Tail(toAgent)
  /\ LET r == Head(toAgent)
     IN  \/ /\ r.kind = "length" /\ UNCHANGED <<fromAgent, agProc>>
         \/ /\ r.kind = "list" /\ UNCHANGED agProc
            /\ \E s \in Orders(agProc.keys) :
                 fromAgent' = fromAgent \o
                   <<LengthOf, Message("identities", Nobody, "none", 0, s)>>
         \/ /\ r.kind = "sign" /\ UNCHANGED agProc
            /\ \E m \in {r.method} \cup (IF "old" \in AgentTroubles THEN {"own"} ELSE {}) :
                 fromAgent' = fromAgent \o <<LengthOf,
                   IF r.key \in agProc.keys THEN Request("signature", r.key, m, r.n)
                   ELSE Request("failure", Nobody, "none", r.n)>>
  /\ UNCHANGED <<ag, auth, fd>>

AgentForgets ==
  /\ "forgets" \in AgentTroubles
  /\ \E k \in agProc.keys : agProc' = [agProc EXCEPT !.keys = @ \ {k}]
  /\ UNCHANGED <<ag, auth, fd, toAgent, fromAgent>>

(* Nothing that was not read is lost to the client, but no more comes.     *)
AgentDies ==
  /\ "dies" \in AgentTroubles /\ ~agProc.gone /\ fd = "agent"
  /\ agProc' = [agProc EXCEPT !.gone = TRUE]
  /\ toAgent' = <<>>
  /\ UNCHANGED <<ag, auth, fd, fromAgent>>

----------------------------------------------------------------------------
AgentStep ==
  \/ ListIdentities \/ ListTransact \/ ListDone
  \/ Userauth \/ Probe \/ SignTransact \/ SignDone \/ Verdict
  \/ NoMoreIdentities \/ ConnectFailed
  \/ AgentAnswers

AgentNext ==
  \/ (auth.verdict = "none" /\ (AgentOpen \/ AgentConnect))
  \/ OtherOpens
  \/ AgentStep
  \/ AgentForgets
  \/ AgentDies

AgentFairness == WF_agVars(AgentStep)

AgentSpec == AgentInit /\ [][AgentNext]_agVars /\ AgentFairness

----------------------------------------------------------------------------
(* The signature that is sent to the server was made with the identity and *)
(* the method this attempt announced, over this attempt's data: not one    *)
(* that answers an earlier attempt on the same connection.  For that,      *)
(* nothing is left in the agent's socket between two transactions.         *)
SignatureIsAsked ==
  /\ auth.st = "signed" =>
       /\ auth.sig.key = auth.key
       /\ auth.sig.method = auth.method
       /\ auth.sig.n = auth.n
  /\ ag.handle /\ ag.st = "init" => toAgent = <<>> /\ fromAgent = <<>>

(* Freeing an agent closes its own connection and no other file of the     *)
(* process.                                                                *)
ClosesOwnSocket == ~ag.closedOther

(* The agent has closed the connection while a response was awaited, and   *)
(* _recv_all() (agent.c:133-147) reads nothing again and again.            *)
Spinning ==
  /\ agProc.gone /\ fromAgent = <<>>
  /\ ag.st \in {"request_sent", "response_length"}

(* Trying the agent's identities comes to a verdict, unless the agent      *)
(* closes the connection when it owes a response: then the call never      *)
(* returns.                                                                *)
AuthenticationEnds ==
  (ag.handle /\ ag.fdset) ~> (auth.verdict # "none" \/ Spinning)
============================================================================
