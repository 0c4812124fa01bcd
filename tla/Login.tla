------------------------------- MODULE Login -------------------------------
(***************************************************************************)
(* User authentication (userauth.c) on a session whose keys are exchanged  *)
(* by module Kex, and the end of the session (disconnect).  One function   *)
(* of userauth.c runs at a time; the server (external) may answer late,    *)
(* send a banner first, or ask for new keys in the middle of any of them.  *)
(***************************************************************************)
EXTENDS Kex

CONSTANTS
    Methods,    \* the authentication functions that the program uses
    MaxRequests \* authentication requests per session (bound)

ASSUME LoginAssumption ==
    /\ Methods \subseteq {"list", "pswd", "host", "pblc", "kybd"}
    /\ MaxRequests \in Nat

VARIABLES
    reqs,       \* number of requests sent so far: the identity of the last
    own,        \* for every function the identity of its last request
    pswd,       \* userauth_pswd_data: "null", "reply" or "packet"
    pblc,       \* the key in use, userauth_pblc_method, the name in the packet,
                \* the one in the signature, auth_attempts of this entry
    result,     \* how the last call ended
    nullread    \* a NULL pointer was read

authVars == <<reqs, own, pswd, pblc, kybd, result, nullread>>
vars == <<kexVars, authVars>>

Functions == Methods \cup {"handshake", "disconnect"}
NoResult == [f |-> None, rc |-> None, answer |-> 0, own |-> 0]

Ended(f, rc, answer) ==
    result' = [f |-> f, rc |-> rc, answer |-> answer, own |-> own[f]]
To(f, state) == st' = [st EXCEPT ![f] = state]
Rest == <<offer, sock, toSrv, toCli, srv, garbled>>

(* Steps of a function f that has reached a state; the transport is not     *)
(* used while a key exchange is under way.                                  *)
At(f, state) == call = f /\ st[f] = state
Free(f, state) == At(f, state) /\ ~c.exch

(* packet_requirev: the reply codes of f, in the order they are asked for.  *)
Codes(f) ==
    CASE f = "list" -> <<"SUCCESS", "FAILURE", "BANNER">>
      [] f \in {"pswd", "pblc", "kybd"} -> <<"SUCCESS", "FAILURE", "M60">>
      [] f = "host" -> <<"SUCCESS", "FAILURE">>
Final == <<"SUCCESS", "FAILURE">>
Awaits(f) ==
    CASE st[f] = "sent" -> Codes(f)
      [] f = "list" /\ st[f] = "banner" -> Final
      [] f = "pblc" /\ st[f] = "sent3" -> Final
      [] OTHER -> <<>>

(* The codes returned: for a refusal the list of methods that can go on,    *)
(* LIBSSH2_ERROR_AUTHENTICATION_FAILED or PUBLICKEY_UNVERIFIED.  Host based, *)
(* public key and keyboard-interactive logins return these two also when    *)
(* the transport fails while they wait for the reply.                       *)
Refusals == {"methods", "failed", "unverified"}
RefusalCode(f, state) ==
    CASE f = "list" -> "methods"
      [] f = "host" \/ (f = "pblc" /\ state = "sent3") -> "unverified"
      [] OTHER -> "failed"
TransportError(f) ==
    CASE f = "handshake" -> "kex"
      [] f \in {"host", "pblc"} /\ Awaits(f) # <<>> -> "unverified"
      [] f = "kybd" /\ Awaits(f) # <<>> -> "failed"
      [] OTHER -> "socket"

(* A socket error makes the function idle and frees what it had allocated.  *)
NoKey == [alg |-> None, key |-> None, body |-> None, signed |-> None,
          attempt |-> 0]
NoMethod(f) == pblc' = IF f = "pblc" THEN NoKey ELSE pblc
SocketFails(f) ==
    /\ sock = "down"
    /\ call' = None /\ To(f, "idle") /\ NoMethod(f) /\ pswd' = "null"
    /\ Ended(f, TransportError(f), 0)
    /\ UNCHANGED <<c, queue, Rest, reqs, own, kybd, nullread>>

(* The send of a request, common to the functions: EAGAIN keeps the state,  *)
(* an error makes it idle.                                                  *)
SendRequest(f, state, next, p) ==
    /\ Free(f, state)
    /\ \/ /\ Send("REQUEST", p)
          /\ To(f, next)
          /\ reqs' = reqs + 1 /\ own' = [own EXCEPT ![f] = reqs + 1]
          /\ UNCHANGED <<call, c, pswd, pblc, kybd, result, nullread>>
       \/ WouldBlock /\ UNCHANGED authVars
       \/ SocketFails(f)

(* The reply is not there yet: read on, return EAGAIN, or fail. *)
ReadReply(f) ==
    /\ call = f /\ f \in Methods /\ ~c.exch
    /\ Awaits(f) # <<>> /\ AskV(Awaits(f)) = 0
    /\ \/ Receive /\ UNCHANGED authVars
       \/ NothingYet /\ UNCHANGED authVars
       \/ SocketFails(f)

(* Mutant: packet_askv() leaves the packet in the queue. *)
ReplyKept(f, state, t) ==
    /\ At(f, state) /\ AskV(Awaits(f)) # 0
    /\ queue[AskV(Awaits(f))].t = t
    /\ UNCHANGED <<Rest, reqs, own, queue>>
Reply(f, state, t) ==
    /\ At(f, state) /\ AskV(Awaits(f)) # 0
    /\ queue[AskV(Awaits(f))].t = t
    /\ queue' = RemoveAt(queue, AskV(Awaits(f)))
    /\ UNCHANGED <<Rest, reqs, own>>
Answer(f) == queue[AskV(Awaits(f))].p

(* SUCCESS and FAILURE end every function in the same way. *)
Success(f, state) ==
    /\ Reply(f, state, "SUCCESS")
    /\ c' = [c EXCEPT !.auth = TRUE]
    /\ call' = None /\ To(f, "idle") /\ Ended(f, "ok", Answer(f))
    /\ UNCHANGED <<kybd, nullread>>
    /\ NoMethod(f) /\ pswd' = "null"
Failure(f, state) ==
    /\ Reply(f, state, "FAILURE")
    /\ call' = None /\ To(f, "idle")
    /\ Ended(f, RefusalCode(f, state), Answer(f))
    /\ UNCHANGED <<c, kybd, nullread>>
    /\ NoMethod(f) /\ pswd' = "null"

-----------------------------------------------------------------------------
(* userauth_list: a "none" request, whose refusal carries the methods.      *)

userauth_list ==
    \/ /\ At("list", "idle") /\ To("list", "created")
       /\ UNCHANGED <<queue, call, c, Rest, authVars>>
    \/ SendRequest("list", "created", "sent", [kind |-> "none", id |-> reqs + 1])
    \/ Success("list", "sent") \/ Failure("list", "sent")
    \/ Success("list", "banner") \/ Failure("list", "banner")
    \/ /\ Reply("list", "sent", "BANNER") /\ To("list", "banner")
       /\ UNCHANGED <<call, c, pswd, pblc, kybd, result, nullread>>

-----------------------------------------------------------------------------
(* userauth_password, with the change of an expired password.               *)

userauth_password ==
    \/ /\ At("pswd", "idle") /\ To("pswd", "created")
       /\ pswd' = "packet"
       /\ UNCHANGED <<queue, call, c, Rest, reqs, own, pblc, kybd, result,
                      nullread>>
    \/ SendRequest("pswd", "created", "sent",
                   [kind |-> "password", id |-> reqs + 1])
    \/ Success("pswd", "sent") \/ Failure("pswd", "sent")
    \/ /\ Reply("pswd", "sent", "M60") /\ To("pswd", "sent1")
       /\ pswd' = "reply"
       /\ UNCHANGED <<call, c, pblc, kybd, result, nullread>>

NewRequestNull == "null"    \* mutant: not stored
NewRequest == "packet"

(* The first byte of userauth_pswd_data is looked at before data0. *)
passwd_change ==
    /\ At("pswd", "sent1")
    /\ nullread' = (nullread \/ pswd = "null")
    /\ \/ /\ To("pswd", "sent2")        \* the callback gives a new password
          /\ pswd' = NewRequest
          /\ UNCHANGED <<call, result>>
       \/ /\ call' = None               \* the callback gives none
          /\ pswd' = "null"
          /\ Ended("pswd", "expired", 0)
          /\ UNCHANGED st
       \/ /\ call' = None               \* no callback: the code of a refusal
          /\ pswd' = "null"
          /\ To("pswd", "idle") /\ Ended("pswd", "failed", 0)
    /\ UNCHANGED <<queue, c, Rest, reqs, own, pblc, kybd>>

(* An error here does not make the function idle. *)
passwd_send ==
    /\ Free("pswd", "sent2")
    /\ nullread' = (nullread \/ pswd = "null")
    /\ \/ /\ Send("REQUEST", [kind |-> "newpassword", id |-> reqs + 1])
          /\ To("pswd", "sent")
          /\ reqs' = reqs + 1 /\ own' = [own EXCEPT !["pswd"] = reqs + 1]
          /\ pswd' = "null"
          /\ UNCHANGED <<call, c, result>>
       \/ WouldBlock /\ UNCHANGED <<reqs, own, pswd, result>>
       \/ /\ sock = "down"
          /\ call' = None /\ Ended("pswd", "socket", 0)
          /\ pswd' = "null"
          /\ UNCHANGED <<c, queue, Rest, st, reqs, own>>
    /\ UNCHANGED <<pblc, kybd>>

-----------------------------------------------------------------------------
(* userauth_hostbased_fromfile: reads both keys, signs with the session id. *)

userauth_hostbased ==
    \/ /\ At("host", "idle")
       /\ \/ To("host", "created") /\ UNCHANGED <<call, result>>
          \/ call' = None /\ Ended("host", "keyfile", 0) /\ UNCHANGED st
       /\ UNCHANGED <<queue, c, Rest, reqs, own, pswd, pblc, kybd, nullread>>
    \/ SendRequest("host", "created", "sent",
                   [kind |-> "hostbased", id |-> reqs + 1, sid |-> c.sid])
    \/ Success("host", "sent") \/ Failure("host", "sent")

-----------------------------------------------------------------------------
(* Public keys.                                                             *)

(* The signature algorithms that a key of this kind can use; the first name *)
(* is the one its key file carries (_libssh2_supported_key_sign_algorithms). *)
DefaultAlg(kind) ==
    CASE kind = "rsa" -> "ssh-rsa" [] kind = "cert" -> "ssh-rsa-cert"
      [] kind = "ed25519" -> "ssh-ed25519"
SupportedAlgs(alg) ==
    IF alg = "ssh-rsa" THEN <<"rsa-sha2-512", "rsa-sha2-256", "ssh-rsa">>
    ELSE <<>>
AlgsOf(kind) == {DefaultAlg(kind)} \cup ToSet(SupportedAlgs(DefaultAlg(kind)))

(* _libssh2_key_sign_algorithm: the server's list filtered by what the      *)
(* crypto back end supports, then the first supported one that is left.     *)
key_sign_algorithm(alg) ==
    LET supported == SupportedAlgs(alg)
        filtered == SelectSeq(c.signAlgs, LAMBDA a : a \in ToSet(supported))
        best == FirstCommon(supported, filtered)
    IN  IF supported = <<>> \/ c.signAlgs = NoAlgs THEN alg ELSE best

plain_methodSame(alg) == alg    \* mutant: a certificate signs under its name
(* plain_method_len: the signature of a certificate names the plain key.   *)
plain_method(alg) == IF alg = "ssh-rsa-cert" THEN "ssh-rsa" ELSE alg

(* Where a key comes from decides how its public part is read and how it    *)
(* signs.  A public key names its method in its first word (None: it cannot *)
(* be read); for a callback the program passes the public key itself.       *)
memory_read_publickey(key) == {DefaultAlg(key.kind), None}
file_read_publickey(key) == {DefaultAlg(key.kind), None}
sk_pub_keyfilememory(key) == {DefaultAlg(key.kind), None}

(* read_privatekey looks for the method in the table of host key methods.   *)
read_privatekey_memory(alg) == {"error"} \cup {"key" : a \in {alg} \ {None}}
read_privatekey_file(alg) == {"error"} \cup {"key" : a \in {alg} \ {None}}
sign_frommemory(alg) ==
    {IF k = "key" THEN "signed" ELSE k : k \in read_privatekey_memory(alg)}
sign_fromfile(alg) ==
    {IF k = "key" THEN "signed" ELSE k : k \in read_privatekey_file(alg)}
(* A token that signs nothing leaves an empty signature and no error. *)
sign_sk(alg) == {"signed", "empty", "again", "error"}
sign_callback(alg) == {"signed", "again", "unsupported", "error"}

userauth_publickey_frommemory(key) == [reads |-> memory_read_publickey(key),
                                       signs |-> sign_frommemory(pblc.alg)]
userauth_publickey_fromfile(key) == [reads |-> file_read_publickey(key),
                                     signs |-> sign_fromfile(pblc.alg)]
userauth_publickey_sk(key) == [reads |-> sk_pub_keyfilememory(key),
                               signs |-> sign_sk(pblc.alg)]
(* The callback variant keeps a method name that is still there. *)
publickey_callback(key) ==
    [reads |-> {IF pblc.alg = None THEN DefaultAlg(key.kind) ELSE pblc.alg},
     signs |-> sign_callback(pblc.alg)]
Source(key) ==
    CASE key.from = "memory" -> userauth_publickey_frommemory(key)
      [] key.from = "file" -> userauth_publickey_fromfile(key)
      [] key.from = "sk" -> userauth_publickey_sk(key)
      [] key.from = "callback" -> publickey_callback(key)

(* Entry with userauth_pblc_state idle; alg is what was read. *)
pblc_start(key, alg, attempt) ==
    LET up == IF attempt = 1 THEN key_sign_algorithm(alg) ELSE alg
    IN  /\ At("pblc", "idle")
        /\ CASE alg = None ->
                  /\ call' = None /\ Ended("pblc", "keyfile", 0)
                  /\ UNCHANGED <<st, pblc>>
             [] alg # None /\ up = None ->
                  /\ call' = None /\ Ended("pblc", "noalg", 0)
                  /\ pblc' = [pblc EXCEPT !.alg = alg, !.key = key]
                  /\ UNCHANGED st
             [] OTHER ->
                  /\ To("pblc", "created")
                  /\ pblc' = [pblc EXCEPT !.alg = up, !.key = key,
                                          !.body = up, !.attempt = attempt]
                  /\ UNCHANGED <<call, result>>
        /\ UNCHANGED <<queue, c, Rest, reqs, own, pswd, kybd, nullread>>

userauth_publickey ==
    \/ /\ pblc.attempt = 0
       /\ \E key \in offer.keys : \E alg \in Source(key).reads :
            pblc_start(key, alg, 1)
    \/ /\ pblc.attempt > 0             \* again, with the key's own method
       /\ pblc_start(pblc.key, DefaultAlg(pblc.key.kind), pblc.attempt)
    \/ SendRequest("pblc", "created", "sent",
                   [kind |-> "probe", id |-> reqs + 1, alg |-> pblc.body,
                    key |-> pblc.key.kind])
    \/ Success("pblc", "sent") \/ Failure("pblc", "sent")
    \/ /\ Reply("pblc", "sent", "M60") /\ To("pblc", "sent1")
       /\ UNCHANGED <<call, c, pswd, pblc, kybd, result, nullread>>
    \/ SendRequest("pblc", "sent2", "sent3",
                   [kind |-> "signed", id |-> reqs + 1, alg |-> pblc.body, sid |-> c.sid,
                    signed |-> pblc.signed, key |-> pblc.key.kind])
    \/ Success("pblc", "sent3") \/ Failure("pblc", "sent3")

(* Signing: a signature; not yet (an agent); this algorithm cannot be used, *)
(* which starts again with the key's own one, once per entry; or an error,  *)
(* for which the code of a refused signature is returned.                   *)
Signs(outcome) == outcome \in Source(pblc.key).signs
pblc_sign ==
    /\ At("pblc", "sent1")
    /\ \/ \E outcome \in {"signed", "empty"} :
             /\ Signs(outcome)
             /\ To("pblc", "sent2")
             /\ pblc' = [pblc EXCEPT !.alg = None, !.signed =
                    IF outcome = "signed" THEN plain_method(pblc.alg) ELSE None]
             /\ UNCHANGED <<call, result>>
       \/ Signs("again") /\ call' = None /\ UNCHANGED <<st, pblc, result>>
       \/ /\ Signs("unsupported") /\ pblc.attempt = 1
          /\ pblc.alg # DefaultAlg(pblc.key.kind) \/ "unsupported" \in Troubles
          /\ To("pblc", "idle")
          /\ pblc' = [pblc EXCEPT !.alg = None, !.attempt = 2]
          /\ UNCHANGED <<call, result>>
       \/ /\ Signs("error")
          /\ To("pblc", "idle") /\ call' = None
          /\ NoMethod("pblc")
          /\ Ended("pblc", "unverified", 0)
    /\ UNCHANGED <<queue, c, Rest, reqs, own, pswd, kybd, nullread>>

-----------------------------------------------------------------------------
(* userauth_keyboard_interactive: rounds of questions and answers.          *)

userauth_kybd ==
    \/ /\ At("kybd", "idle") /\ To("kybd", "created")
       /\ kybd' = TRUE
       /\ UNCHANGED <<queue, call, c, Rest, reqs, own, pswd, pblc, result,
                      nullread>>
    \/ SendRequest("kybd", "created", "sent",
                   [kind |-> "kybd", id |-> reqs + 1])
    \/ Success("kybd", "sent") \/ Failure("kybd", "sent")
    \/ /\ Reply("kybd", "sent", "M60")
       /\ \/ To("kybd", "sent1") /\ UNCHANGED <<call, result>>
          \/ /\ kybd \/ "badinfo" \in Troubles  \* the request does not decode
             /\ IF kybd THEN /\ To("kybd", "idle") /\ call' = None
                             /\ Ended("kybd", "decode", 0)
                ELSE UNCHANGED <<st, call, result>>
       /\ UNCHANGED <<c, pswd, pblc, kybd, nullread>>

kybd_send ==
    /\ Free("kybd", "sent1")
    /\ \/ /\ Send("REQUEST", [kind |-> "answers", id |-> reqs + 1])
          /\ To("kybd", "sent") /\ kybd' = FALSE
          /\ reqs' = reqs + 1 /\ own' = [own EXCEPT !["kybd"] = reqs + 1]
          /\ UNCHANGED <<call, c, pswd, pblc, result, nullread>>
       \/ WouldBlock /\ UNCHANGED authVars
       \/ /\ sock = "down"              \* cleanup: goes back to waiting when
          /\ IF kybd                    \* an answer was sent before
             THEN /\ call' = None /\ To("kybd", "idle")
                  /\ Ended("kybd", "socket", 0)
             ELSE To("kybd", "sent") /\ UNCHANGED <<call, result>>
          /\ UNCHANGED <<c, queue, Rest, reqs, own, pswd, pblc, kybd, nullread>>

-----------------------------------------------------------------------------
(* The program's calls.  By contract it repeats a call that returned EAGAIN *)
(* until that call ends, and gives up after a handshake that failed.        *)

(* userauth_password() has ended with an error but is not idle. *)
HalfEnded == call = None /\ st["pswd"] \in {"sent1", "sent2"}
             /\ pswd = "null"
Busy(f) == st[f] # "idle" /\ ~(f = "pswd" /\ HalfEnded)
MayCall(f) ==
    CASE f = "handshake" ->
           /\ ~c.ready /\ st["disconnect"] = "idle"
           /\ result.f # "handshake" \/ "retry" \in Troubles
      [] f = "disconnect" -> TRUE
      [] OTHER ->
           /\ c.ready /\ ~c.auth /\ st["disconnect"] = "idle"
           /\ (\A g \in Functions \ {f} : ~Busy(g)) \/ "abandon" \in Troubles
           /\ Busy(f) \/ reqs < MaxRequests
           /\ st[f] = "idle" \/ Busy(f) \/ "expired" \in Troubles

Call(f) ==
    /\ call = None /\ ~c.closed /\ MayCall(f)
    /\ call' = f
    /\ CASE f = "handshake" ->
              /\ st' = [st EXCEPT ![f] = IF @ = "idle" THEN "created" ELSE @]
              /\ c' = IF st[f] = "sent1" /\ c.kst = "idle"
                      THEN KexBegin(c, FALSE) ELSE c
              /\ UNCHANGED pblc
         [] f = "disconnect" ->      \* drops EXCHANGING_KEYS
              /\ c' = [c EXCEPT !.exch = FALSE]
              /\ To(f, "created") /\ UNCHANGED pblc
         [] f = "list" ->
              /\ To(f, IF st[f] = "banner" THEN "sent" ELSE st[f])
              /\ UNCHANGED <<c, pblc>>
         [] f = "pblc" ->
              /\ pblc' = [pblc EXCEPT !.attempt = IF st[f] = "idle" THEN 0
                                                  ELSE 1]
              /\ UNCHANGED <<c, st>>
         [] OTHER -> UNCHANGED <<c, st, pblc>>
    /\ UNCHANGED <<queue, Rest, reqs, own, pswd, kybd, result, nullread>>

(* session_disconnect: any outcome but EAGAIN ends it. *)
session_disconnect ==
    /\ At("disconnect", "created")
    /\ \/ /\ Send("DISCONNECT", 0)
          /\ call' = None /\ To("disconnect", "idle")
          /\ c' = [c EXCEPT !.closed = TRUE] /\ UNCHANGED result
       \/ WouldBlock /\ UNCHANGED result
       \/ /\ sock = "down" /\ call' = None /\ To("disconnect", "idle")
          /\ c' = [c EXCEPT !.closed = TRUE]
          /\ UNCHANGED <<queue, Rest, result>>
    /\ UNCHANGED <<reqs, own, pswd, pblc, kybd, nullread>>

-----------------------------------------------------------------------------
(* The server's answers (external). *)

SignatureGood(p) ==
    /\ p.sid = srv.sid
    /\ p.kind = "signed" =>
         /\ p.alg \in AlgsOf(p.key)
         /\ p.signed = IF p.key = "cert" THEN "ssh-rsa" ELSE p.alg
(* An empty signature is the token's doing. *)
Signed(p) == p.kind = "signed" => p.signed # None
Outcomes(p) ==
    LET more == IF reqs < MaxRequests \/ (p.kind = "answers" /\ reqs = MaxRequests)
                THEN {"M60"} ELSE {}
    IN  IF p.kind \in {"hostbased", "signed"}
        THEN {IF SignatureGood(p) THEN "SUCCESS" ELSE "FAILURE"}
        ELSE {"FAILURE"} \cup (IF p.kind = "probe" THEN {} ELSE {"SUCCESS"})
                         \cup (IF p.kind = "none" THEN {} ELSE more)

SrvAnswer ==
    /\ sock = "up" /\ srv.phase = "open" /\ srv.todo # <<>>
    /\ LET m == Head(srv.todo)
           Put(ms) == toCli' = toCli \o SrvSeals(ms, srv.out, srv.auth)
       IN  CASE m.t = "SERVICE_REQUEST" ->
                  /\ Put(<<<<"SERVICE_ACCEPT", 0>>>>)
                  /\ srv' = [srv EXCEPT !.service = TRUE, !.todo = Tail(@)]
                  /\ UNCHANGED sock
             [] m.t = "DISCONNECT" ->
                  /\ sock' = "down" /\ UNCHANGED <<toCli, srv>>
             [] m.t = "REQUEST" /\ ~srv.auth ->
                  \E a \in Outcomes(m.p), b \in BOOLEAN :
                    /\ b => ~srv.bannered
                    /\ Put((IF b THEN <<<<"BANNER", 0>>>> ELSE <<>>)
                           \o <<<<a, m.p.id>>>>)
                    /\ srv' = [srv EXCEPT
                         !.todo = Tail(@), !.bannered = @ \/ b,
                         !.auth = a = "SUCCESS",
                         !.accepted = IF a = "SUCCESS" THEN m.p.id ELSE @,
                         !.refused = IF a = "FAILURE" THEN @ \cup {m.p.id}
                                     ELSE @,
                         !.asked = IF a = "M60" THEN @ \cup {m.p.id} ELSE @]
                    /\ UNCHANGED sock
             [] OTHER -> srv' = [srv EXCEPT !.todo = Tail(@)]
                         /\ UNCHANGED <<toCli, sock>>
    /\ UNCHANGED <<offer, toSrv, queue, call, st, c, garbled>>

-----------------------------------------------------------------------------
StartupStep ==
    /\ Startup
    /\ result' = IF call' = None /\ (sock = "down" \/ c'.ready)
                 THEN [NoResult EXCEPT !.f = "handshake"] ELSE result
    /\ UNCHANGED <<reqs, own, pswd, pblc, kybd, nullread>>
KeyExchange ==
    /\ KexStep
    /\ IF call' = None /\ ~c'.exch        \* the exchange failed
       THEN Ended(call, TransportError(call), 0) /\ NoMethod(call) /\ pswd' = "null"
       ELSE UNCHANGED <<result, pblc, pswd>>
    /\ UNCHANGED <<reqs, own, kybd, nullread>>
Authenticate ==
    \/ userauth_list \/ userauth_password \/ passwd_change \/ passwd_send
    \/ userauth_hostbased \/ userauth_publickey \/ pblc_sign
    \/ userauth_kybd \/ kybd_send
    \/ \E f \in Methods : ReadReply(f)
Server == SrvKexInit \/ SrvRead \/ SrvAnswer
Environment == (Server \/ ConnectionLost) /\ UNCHANGED authVars

(* Once nothing can be done any more the session stays as it is. *)
Finished ==
    /\ call = None /\ \A f \in Functions : ~MayCall(f) \/ c.closed
    /\ UNCHANGED vars

Next ==
    \/ \E f \in Functions : Call(f)
    \/ StartupStep \/ KeyExchange \/ Authenticate \/ session_disconnect
    \/ Environment \/ Finished

Init ==
    /\ KexStart(Functions)
    /\ reqs = 0 /\ own = [f \in Functions |-> 0]
    /\ pswd = "null"
    /\ pblc = NoKey
    /\ kybd = TRUE /\ result = NoResult /\ nullread = FALSE

Spec == Init /\ [][Next]_vars

-----------------------------------------------------------------------------
(* What a session promises.                                                 *)

(* In every exchange the same ciphers, MACs and compression are agreed on.  *)
Steady ==
    \A l \in Lists \ {"kex", "hostkey"} :
        Rfc(offer.cli, offer.later)[l] = Rfc(offer.cli, offer.srv)[l]

(* Whichever exchange of keys is under way, and whichever side has changed  *)
(* over already, every packet is opened with the cipher, MAC, compression   *)
(* and keys that it was sent with (kex.c's key states, transport.c), as     *)
(* long as all exchanges agree on the same ciphers, MACs and compression:   *)
(* kex_agree_methods() puts a new one to use before NEWKEYS.                *)
SealsAgree == Steady => ~garbled

(* The methods that kex_agree_methods() stored are the ones RFC 4253 names, *)
(* the server's own choice, in every exchange of a session; but where the   *)
(* server's choice is a certificate as host key, the client takes another.  *)
MethodsAgree ==
    c.exch /\ c.kst = "sent2" =>
        /\ c.kex = SrvAgreed.kex
        /\ SrvAgreed.hostkey \notin Certificates =>
             c.hostkey = SrvAgreed.hostkey
        /\ c.local.crypt = SrvAgreed.crypt_cs
        /\ c.remote.crypt = SrvAgreed.crypt_sc
        /\ c.local.mac = SrvAgreed.mac_cs /\ c.remote.mac = SrvAgreed.mac_sc
        /\ c.local.comp = SrvAgreed.comp_cs
        /\ c.remote.comp = SrvAgreed.comp_sc

(* The packets on their way to the server and those it has not handled yet. *)
Waiting == toSrv \o srv.todo

(* Every signature of a login (public key, host based) is one the server    *)
(* can verify: over the session id of the FIRST exchange, however many have *)
(* followed, with an algorithm of the key that signs.                       *)
SignaturesVerify ==
    \A i \in DOMAIN Waiting :
        LET p == Waiting[i].p
        IN  /\ Waiting[i].t = "REQUEST" /\ p.kind \in {"hostbased", "signed"}
            /\ Signed(p)
            => SignatureGood(p)

(* A login request, with whatever secret it carries, leaves only under the  *)
(* keys of a finished exchange.                                             *)
SecretsSealed ==
    \A i \in DOMAIN Waiting :
        Waiting[i].t = "REQUEST" => Waiting[i].seal.keys # NoKeys

(* A call returns the verdict on its own request: success only when the     *)
(* server accepted that request; the code of a refusal only when the server *)
(* refused it, or when no verdict can come any more: the connection is lost *)
(* or an exchange of keys has failed, or the server asked for more (another *)
(* password, a signature) and the program could not give it.  This holds    *)
(* across banners, late answers and exchanges of keys; and the session      *)
(* believes itself logged in only when the server does.                     *)
TrueVerdict ==
    /\ result.rc = "ok" => result.answer = result.own /\
                           srv.accepted = result.own
    /\ result.rc \in Refusals =>
         \/ result.answer = result.own /\ result.own \in srv.refused
         \/ /\ result.answer = 0
            /\ \/ sock = "down" \/ c.failed
               \/ result.f \in {"pswd", "pblc"} /\ result.own \in srv.asked
    /\ c.auth => srv.auth

(* userauth_password() never looks at its reply after it has freed it.      *)
NoNullRead == ~nullread

=============================================================================
