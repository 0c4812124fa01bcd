-------------------------------- MODULE Kex --------------------------------
(***************************************************************************)
(* Session startup and the SSH key exchange of libssh2 (kex.c, the startup *)
(* part of session.c, the packet_require/packet_burn part of packet.c).    *)
(*                                                                         *)
(* A packet carries a "seal": the cipher, MAC and compression it was sent  *)
(* with and the keys they were given.  The server (external, RFC 4253)     *)
(* opens a packet with the seal it holds itself; a packet whose seal is    *)
(* another one cannot be read by the peer, which is recorded in garbled.   *)
(* An API call runs while call # "none"; EAGAIN ends the call and leaves   *)
(* the state of the interrupted function as it is.                         *)
(***************************************************************************)
EXTENDS Integers, Sequences, FiniteSets, SequencesExt

CONSTANTS
    Offers,     \* choices of [cli, srv, later, algs, keys]: the name lists of
                \* the client, of the server in the first and in later
                \* exchanges, the server-sig-algs it announces, and the key
                \* pairs [kind, from] of the user
    MaxKex,     \* key exchanges per session (bound)
    Troubles    \* what the environment may do beyond its contract

None == "nil"
NoKeys == <<>>
NoAlgs == <<None>>      \* the server has sent no server-sig-algs
Plain == [crypt |-> None, mac |-> None, z |-> None, keys |-> NoKeys]
Group == [key |-> "group", h |-> <<>>]
Guess == [key |-> "guess", h |-> <<>>]  \* the first packet of another method
Lists == {"kex", "hostkey", "crypt_cs", "crypt_sc", "mac_cs", "mac_sc",
          "comp_cs", "comp_sc"}

VARIABLES
    offer,      \* the name lists of this behaviour
    sock,       \* "up" or "down"
    toSrv, toCli, \* the two directions of the connection
    queue,      \* session->packets
    call,       \* the API call that is running
    st,         \* the state variable of every resumable function
    c,          \* the fields of LIBSSH2_SESSION that the key exchange uses
    srv,        \* the server
    garbled,    \* a packet reached a peer that cannot open it
    kybd        \* userauth_kybd_auth_failure

kexVars == <<offer, sock, toSrv, toCli, queue, call, st, c, srv, garbled>>

-----------------------------------------------------------------------------
(* The key exchange methods: what each of them puts into the exchange hash, *)
(* which packets it exchanges, and whether it burns a wrong guess.          *)

dh(group, hash) ==
    [fam |-> "dh", group |-> group, hash |-> hash, request |-> FALSE,
     init |-> "INIT", reply |-> "T31", burns |-> TRUE]

group1_sha1 == dh("group1", "sha1")
group14(hash) == dh("group14", hash)
group14_sha1 == group14("sha1")
group14_sha256 == group14("sha256")
group16_sha512 == dh("group16", "sha512")
group18_sha512 == dh("group18", "sha512")
gex_sha1 ==
    [dh("asked", "sha1") EXCEPT !.request = TRUE, !.init = "GEX_INIT",
                                !.reply = "T33"]
gex_sha256 ==
    [dh("asked", "sha256") EXCEPT !.request = TRUE, !.init = "GEX_INIT",
                                  !.reply = "T33"]

curve_type == [nistp256 |-> "sha256", nistp384 |-> "sha384",
               nistp521 |-> "sha512"]
ecdh(curve) ==
    [fam |-> "ecdh", group |-> curve, hash |-> curve_type[curve],
     request |-> FALSE, init |-> "INIT", reply |-> "T31", burns |-> FALSE]
curve25519 ==
    [fam |-> "curve", group |-> "x25519", hash |-> "sha256",
     request |-> FALSE, init |-> "INIT", reply |-> "T31", burns |-> FALSE]

kex_methods ==
    [curve25519_sha256 |-> curve25519,
     curve25519_libssh |-> curve25519,
     ecdh_nistp256 |-> ecdh("nistp256"), ecdh_nistp384 |-> ecdh("nistp384"),
     ecdh_nistp521 |-> ecdh("nistp521"), gex_sha256 |-> gex_sha256,
     group16_sha512 |-> group16_sha512, group18_sha512 |-> group18_sha512,
     group14_sha256 |-> group14_sha256, group14_sha1 |-> group14_sha1,
     group1_sha1 |-> group1_sha1, gex_sha1 |-> gex_sha1]

(* The name lists hold names, ours only methods of the table.               *)
ASSUME KexAssumption ==
    \A o \in Offers :
        /\ \A l \in Lists : \A s \in {o.cli[l], o.srv[l], o.later[l]} :
             s \in Seq(STRING \ {None})
        /\ ToSet(o.cli.kex) \subseteq DOMAIN kex_methods

(* The same table as the standards give it, for the server (external):      *)
(* RFC 4253, 4419, 5656, 8268, 8731.                                        *)
Standard ==
    [curve25519_sha256 |-> <<"x25519", "sha256", "Qc", "Qs">>,
     curve25519_libssh |-> <<"x25519", "sha256", "Qc", "Qs">>,
     ecdh_nistp256 |-> <<"nistp256", "sha256", "Qc", "Qs">>,
     ecdh_nistp384 |-> <<"nistp384", "sha384", "Qc", "Qs">>,
     ecdh_nistp521 |-> <<"nistp521", "sha512", "Qc", "Qs">>,
     gex_sha256 |-> <<"asked", "sha256", "e", "f">>,
     group16_sha512 |-> <<"group16", "sha512", "e", "f">>,
     group18_sha512 |-> <<"group18", "sha512", "e", "f">>,
     group14_sha256 |-> <<"group14", "sha256", "e", "f">>,
     group14_sha1 |-> <<"group14", "sha1", "e", "f">>,
     group1_sha1 |-> <<"group1", "sha1", "e", "f">>,
     gex_sha1 |-> <<"asked", "sha1", "e", "f">>]

(* Host key methods: none of libssh2's table encrypts, and the certificates *)
(* (of RSA and ECDSA keys) have no sig_verify, though they are announced;   *)
(* every key exchange method asks for signatures only.                      *)
Certificates == {"rsa_cert", "ecdsa_cert"}
HostkeyCan(m) == IF m \in Certificates THEN {} ELSE {"sign"}
KexRequires == {"sign"}

-----------------------------------------------------------------------------
(* Negotiation.  list is the method list we prefer, theirs the server's.    *)

agree_instr(theirs, name) == SelectInSeq(theirs, LAMBDA m : m = name)

(* Mutant: the server's order decides. *)
FirstCommonTheirs(list, theirs) ==
    LET i == SelectInSeq(theirs, LAMBDA m : \E j \in DOMAIN list : list[j] = m)
    IN  IF i = 0 THEN None ELSE theirs[i]

(* The first method of ours that the server names too, or None. *)
FirstCommon(list, theirs) ==
    LET i == SelectInSeq(list, LAMBDA m : agree_instr(theirs, m) # 0)
    IN  IF i = 0 THEN None ELSE list[i]

(* The first of ours that the server names too and that can do what the key *)
(* exchange requires: the others are skipped.                               *)
agree_hostkey(list, theirs) ==
    LET i == SelectInSeq(list, LAMBDA m :
                agree_instr(theirs, m) # 0 /\ KexRequires \subseteq HostkeyCan(m))
    IN  IF i = 0 THEN None ELSE list[i]

(* The first key exchange of ours that the server names and for which a     *)
(* host key is agreed; guess: the server's first choice is not this one.    *)
agree_kex_hostkey(ours, theirs, follows) ==
    LET key == agree_hostkey(ours.hostkey, theirs.hostkey)
        i == SelectInSeq(ours.kex, LAMBDA m :
                            agree_instr(theirs.kex, m) # 0 /\ key # None)
    IN  IF i = 0 THEN [kex |-> None, hostkey |-> None, burn |-> follows]
        ELSE [kex |-> ours.kex[i], hostkey |-> key,
              burn |-> follows /\ agree_instr(theirs.kex, ours.kex[i]) # 1]

agree_crypt(ours, theirs) ==
    [cs |-> FirstCommon(ours.crypt_cs, theirs.crypt_cs),
     sc |-> FirstCommon(ours.crypt_sc, theirs.crypt_sc)]
agree_mac(ours, theirs) ==
    [cs |-> FirstCommon(ours.mac_cs, theirs.mac_cs),
     sc |-> FirstCommon(ours.mac_sc, theirs.mac_sc)]
agree_comp(ours, theirs) ==
    [cs |-> FirstCommon(ours.comp_cs, theirs.comp_cs),
     sc |-> FirstCommon(ours.comp_sc, theirs.comp_sc)]

(* A pair of methods, p, stored as the field f of both directions as far as *)
(* it is agreed.                                                            *)
Stored(s, f, p) ==
    [s EXCEPT !.local[f] = IF p.cs # None THEN p.cs ELSE @,
              !.remote[f] = IF p.cs # None /\ p.sc # None THEN p.sc ELSE @,
              !.agreed = p.cs # None /\ p.sc # None]

(* kex_agree_methods: stores each method as soon as it is agreed, stops at  *)
(* the first that is not.  s is the session, theirs the server's KEXINIT.   *)
agree_methods(s, ours, theirs, follows) ==
    LET k == agree_kex_hostkey(ours, theirs, follows)
        start == [s EXCEPT !.burn = k.burn, !.agreed = k.kex # None,
                           !.kex = IF k.kex # None THEN k.kex ELSE @,
                           !.hostkey = IF k.kex # None THEN k.hostkey ELSE @]
        Then(t, f, p) == IF t.agreed THEN Stored(t, f, p) ELSE t
    IN  Then(Then(Then(start, "crypt", agree_crypt(ours, theirs)),
                  "mac", agree_mac(ours, theirs)),
             "comp", agree_comp(ours, theirs))

(* RFC 4253, 7.1, as a reference: the best-placed name of the client's list *)
(* among those the server lists too.                                        *)
Best(ours, theirs) ==
    LET both == {i \in DOMAIN ours : \E j \in DOMAIN theirs : ours[i] = theirs[j]}
    IN  IF both = {} THEN None
        ELSE ours[CHOOSE i \in both : \A j \in both : i <= j]
Rfc(ours, theirs) == [l \in Lists |-> Best(ours[l], theirs[l])]

-----------------------------------------------------------------------------
(* Seals.  transport.c asks local.comp whether either direction compresses; *)
(* a received packet is expanded only once remote.comp has been set up.     *)

Zips(comp, auth) == comp = "zlib" \/ (comp = "delayed" /\ auth)
LocalSeal ==
    IF ~c.newkeys THEN Plain
    ELSE [crypt |-> c.local.crypt, mac |-> c.local.mac, keys |-> c.local.keys,
          z |-> IF Zips(c.local.comp, c.auth) THEN c.local.comp ELSE None]
RemoteSeal ==
    IF ~c.newkeys THEN Plain
    ELSE [crypt |-> c.remote.crypt, mac |-> c.remote.mac,
          keys |-> c.remote.keys,
          z |-> IF Zips(c.local.comp, c.auth) /\ c.remote.comp # None
                THEN c.remote.comp ELSE None]

(* The server's seal in one direction, from what it agreed to and derived.  *)
SrvSeal(e, auth) ==
    IF e = Plain THEN Plain
    ELSE [crypt |-> e.crypt, mac |-> e.mac, keys |-> e.keys,
          z |-> IF Zips(e.comp, auth) THEN e.comp ELSE None]

(* _libssh2_transport_send of a whole packet; EAGAIN leaves the call.       *)
Send(t, p) ==
    /\ sock = "up"
    /\ toSrv' = Append(toSrv, [t |-> t, p |-> p, seal |-> LocalSeal])
    /\ UNCHANGED <<offer, sock, toCli, queue, srv, garbled>>
WouldBlock ==
    /\ sock = "up"
    /\ call' = None
    /\ c' = [c EXCEPT !.inAdd = FALSE]
    /\ UNCHANGED <<offer, sock, toSrv, toCli, queue, st, srv, garbled>>

Ask(t) == SelectInSeq(queue, LAMBDA m : m.t = t)
AskV(codes) ==
    LET hit == SelectInSeq(codes, LAMBDA t : Ask(t) # 0)
    IN  IF hit = 0 THEN 0 ELSE Ask(codes[hit])

-----------------------------------------------------------------------------
(* The key exchange.                                                        *)

(* _libssh2_kex_exchange entered with key_state idle. *)
KexBegin(s, reexchange) ==
    LET k == IF reexchange THEN [s EXCEPT !.kex = None, !.hostkey = None]
             ELSE s
    IN  [k EXCEPT !.exch = TRUE,
                  !.kst = IF k.kex = None \/ k.hostkey = None THEN "sent"
                          ELSE "sent2",
                  !.low = IF k.kex = None \/ k.hostkey = None THEN "idle"
                          ELSE "init"]

(* Its end: buffers freed, both flags cleared, key_state idle. *)
KexEnd(s) ==
    [s EXCEPT !.exch = FALSE, !.kst = "idle", !.low = "idle", !.lkex = 0,
              !.rkex = 0, !.inAdd = FALSE]

(* A failed exchange ends the call that ran into it, but packet_add() drops *)
(* the error and the call carries on.  The function is idle then, except    *)
(* startup, a password change, and a keyboard-interactive login that has    *)
(* sent answers before: that one waits for a reply again.                   *)
Resumes == call = "kybd" /\ st[call] = "sent1" /\ ~kybd
AfterError ==
    CASE call = "handshake" \/ (call = "pswd" /\ st[call] = "sent2") -> st[call]
      [] Resumes -> "sent"
      [] OTHER -> "idle"
KexFail(s) ==
    /\ c' = [KexEnd(s) EXCEPT !.failed = TRUE]
    /\ IF c.inAdd THEN UNCHANGED <<call, st>>
       ELSE /\ call' = IF Resumes THEN call ELSE None
            /\ st' = [st EXCEPT ![call] = AfterError]

M == kex_methods[c.kex]

(* The reply of the server, [key, h]: its host key and its signature of the *)
(* exchange hash.  Each family of methods has code of its own for the hash, *)
(* for taking the reply apart and for deriving the keys.                    *)
dh_hash(key) == <<M.group, M.hash, "e", "f", c.lkex, c.rkex, key>>
ecdh_hash(key) == <<M.group, M.hash, "Qc", "Qs", c.lkex, c.rkex, key>>
curve_hash(key) == <<"x25519", "sha256", "Qc", "Qs", c.lkex, c.rkex, key>>

(* hostkey->init() takes a key of the agreed kind only; sig_verify(). *)
dh_reply(p) == p.key = c.hostkey /\ p.h = dh_hash(p.key)
ecdh_reply(p) == p.key = c.hostkey /\ p.h = ecdh_hash(p.key)
curve_reply(p) == p.key = c.hostkey /\ p.h = curve_hash(p.key)
GoodReply(p) ==
    CASE M.fam = "dh" -> dh_reply(p) [] M.fam = "ecdh" -> ecdh_reply(p)
      [] M.fam = "curve" -> curve_reply(p)

(* Keys: a hash over K, H, a letter and the session id (RFC 4253, 7.2). *)
value_hash(letters, h, sid) == <<letters, h, sid>>
dh_keys(h, sid) == [local |-> value_hash("ACE", h, sid),
                    remote |-> value_hash("BDF", h, sid)]
ecdh_keys(h, sid) == [local |-> value_hash("ACE", h, sid),
                      remote |-> value_hash("BDF", h, sid)]
curve_keys(h, sid) == [local |-> value_hash("ACE", h, sid),
                       remote |-> value_hash("BDF", h, sid)]
NewKeys(h, sid) ==
    CASE M.fam = "dh" -> dh_keys(h, sid) [] M.fam = "ecdh" -> ecdh_keys(h, sid)
      [] M.fam = "curve" -> curve_keys(h, sid)

KexRunning == call # None /\ c.exch
LowSends == [request |-> "GEX_REQUEST", init |-> M.init,
             sendnew |-> "NEWKEYS"]
LowNext == [request |-> "waitgroup",
            init |-> IF M.burns /\ c.burn THEN "burn" ELSE "waitreply",
            sendnew |-> "waitnew"]

kexinit ==
    /\ KexRunning /\ c.kst = "sent"
    /\ \/ /\ Send("KEXINIT", c.nkex + 1)
          /\ c' = [c EXCEPT !.kst = "sent1", !.nkex = @ + 1,
                            !.lkex = c.nkex + 1]
          /\ UNCHANGED <<call, st>>
       \/ WouldBlock
       \/ /\ sock = "down" /\ KexFail(c)
          /\ UNCHANGED <<offer, sock, toSrv, toCli, queue, srv, garbled>>

(* The packets that a key exchange method sends. *)
KexSend ==
    /\ KexRunning /\ c.kst = "sent2" /\ c.low \in DOMAIN LowNext
    /\ \/ /\ Send(LowSends[c.low], 0)
          /\ c' = [c EXCEPT !.low = LowNext[c.low]]
          /\ UNCHANGED <<call, st>>
       \/ WouldBlock
       \/ /\ sock = "down" /\ KexFail(c)
          /\ UNCHANGED <<offer, sock, toSrv, toCli, queue, srv, garbled>>

(* packet_burn: takes the lowest packet type that is queued. *)
Rank(t) == CASE t = "KEXINIT" -> 20 [] t = "NEWKEYS" -> 21 [] t = "T31" -> 31
             [] t = "T33" -> 33 [] t = "FAILURE" -> 51 [] t = "SUCCESS" -> 52
             [] t = "BANNER" -> 53 [] t = "M60" -> 60 [] OTHER -> 6
Burnt ==
    IF queue = <<>> THEN 0
    ELSE CHOOSE i \in DOMAIN queue : \A j \in DOMAIN queue :
            \/ Rank(queue[i].t) < Rank(queue[j].t)
            \/ Rank(queue[i].t) = Rank(queue[j].t) /\ i <= j

(* The queued packet that the exchange waits for, 0: it must read on. *)
KexWaits == c.kst = "sent1" \/ c.low \in {"waitgroup", "burn", "waitreply",
                                          "waitnew"}
KexFound ==
    CASE c.kst = "sent1" -> Ask("KEXINIT")
      [] c.low = "waitgroup" -> Ask("T31")
      [] c.low = "burn" -> Burnt
      [] c.low = "waitreply" -> Ask(M.reply)
      [] c.low = "waitnew" -> Ask("NEWKEYS")
      [] OTHER -> 0

(* NEWKEYS has come: both directions change over at once; the hash of the   *)
(* first exchange is the session id.                                        *)
Install(s, sid, flag) ==
    [s EXCEPT !.newkeys = flag, !.sid = sid,
              !.local.keys = NewKeys(s.h, sid).local,
              !.remote.keys = NewKeys(s.h, sid).remote]
FirstHash(s) == IF s.sid = NoKeys THEN s.h ELSE s.sid

InstalledNewId(s) == Install(s, s.h, TRUE)  \* mutant: a new id every time
InstalledUnflagged(s) ==                    \* mutant: STATE_NEWKEYS is not set
    Install(s, FirstHash(s), s.newkeys)
Installed(s) == Install(s, FirstHash(s), TRUE)

KexTake ==
    /\ KexRunning /\ KexWaits /\ KexFound # 0
    /\ LET m == queue[KexFound]
           ours == offer.cli
           s == agree_methods(c, ours, m.p.lists, m.p.follows)
       IN  /\ queue' = RemoveAt(queue, KexFound)
           /\ CASE c.kst = "sent1" /\ s.agreed ->
                     c' = [s EXCEPT !.kst = "sent2", !.rkex = m.p.n,
                             !.low = IF kex_methods[s.kex].request
                                     THEN "request" ELSE "init"]
                     /\ UNCHANGED <<call, st>>
                [] c.kst = "sent1" /\ ~s.agreed -> KexFail(s)
                [] c.low = "waitgroup" /\ m.p = Group ->
                     c' = [c EXCEPT !.low = "init"] /\ UNCHANGED <<call, st>>
                [] c.low = "burn" ->
                     c' = [c EXCEPT !.low = "waitreply", !.burn = FALSE]
                     /\ UNCHANGED <<call, st>>
                [] c.low = "waitreply" /\ GoodReply(m.p) ->
                     c' = [c EXCEPT !.low = "sendnew", !.h = m.p.h]
                     /\ UNCHANGED <<call, st>>
                [] c.low = "waitnew" ->
                     /\ c' = KexEnd(Installed(c))
                     /\ st' = [st EXCEPT !["handshake"] =
                                  IF @ = "sent1" THEN "sent2" ELSE @]
                     /\ UNCHANGED call
                [] OTHER -> KexFail(c)
           /\ UNCHANGED <<offer, sock, toSrv, toCli, srv, garbled>>

-----------------------------------------------------------------------------
(* _libssh2_transport_read: one packet, handed to packet_add.               *)

Receive ==
    LET m == Head(toCli)
    IN  /\ sock = "up" /\ toCli # <<>>
        /\ toCli' = Tail(toCli)
        /\ garbled' = (garbled \/ m.seal # RemoteSeal)
        /\ IF m.t = "EXT_INFO"
           THEN c' = [c EXCEPT !.signAlgs = m.p] /\ UNCHANGED queue
           ELSE /\ queue' = Append(queue, m)
                /\ c' = IF m.t = "KEXINIT" /\ ~c.exch
                        THEN [KexBegin(c, TRUE) EXCEPT !.inAdd = TRUE]
                        ELSE c
        /\ UNCHANGED <<offer, sock, toSrv, call, st, srv>>

(* Nothing to read: EAGAIN. *)
NothingYet == toCli = <<>> /\ WouldBlock

KexRead ==
    /\ KexRunning /\ KexWaits /\ KexFound = 0
    /\ \/ Receive
       \/ NothingYet
       \/ /\ sock = "down" /\ KexFail(c)
          /\ UNCHANGED <<offer, sock, toSrv, toCli, queue, srv, garbled>>

KexStep == kexinit \/ KexSend \/ KexTake \/ KexRead

-----------------------------------------------------------------------------
(* session_startup: banners, first key exchange, the userauth service.      *)

InStartup(state) == call = "handshake" /\ st["handshake"] = state /\ ~c.exch
StartupTo(state) == st' = [st EXCEPT !["handshake"] = state]
(* An error leaves startup_state as it is; only the end makes it idle. *)
StartupFails ==
    /\ sock = "down" /\ call' = None
    /\ UNCHANGED <<offer, sock, toSrv, toCli, queue, st, c, srv, garbled>>

BannerSend ==
    /\ InStartup("created")
    /\ \/ Send("IDENT", 0) /\ StartupTo("sent") /\ UNCHANGED <<call, c>>
       \/ WouldBlock
       \/ StartupFails

(* Lines that do not start with SSH- are passed over. *)
BannerReceive ==
    /\ InStartup("sent")
    /\ \/ /\ sock = "up" /\ toCli # <<>>
          /\ toCli' = Tail(toCli)
          /\ IF Head(toCli).t = "SSH"
             THEN StartupTo("sent1") /\ c' = KexBegin(c, FALSE)
             ELSE UNCHANGED <<st, c>>
          /\ UNCHANGED <<offer, sock, toSrv, queue, call, srv, garbled>>
       \/ NothingYet
       \/ StartupFails

ServiceRequest ==
    /\ InStartup("sent2")
    /\ \/ Send("SERVICE_REQUEST", 0) /\ StartupTo("sent4")
          /\ UNCHANGED <<call, c>>
       \/ WouldBlock
       \/ StartupFails

ServiceAccept ==
    /\ InStartup("sent4")
    /\ \/ /\ Ask("SERVICE_ACCEPT") # 0
          /\ queue' = RemoveAt(queue, Ask("SERVICE_ACCEPT"))
          /\ StartupTo("idle") /\ call' = None
          /\ c' = [c EXCEPT !.ready = TRUE]
          /\ UNCHANGED <<offer, sock, toSrv, toCli, srv, garbled>>
       \/ Ask("SERVICE_ACCEPT") = 0 /\ (Receive \/ NothingYet \/ StartupFails)

Startup == BannerSend \/ BannerReceive \/ ServiceRequest \/ ServiceAccept

-----------------------------------------------------------------------------
(* The server (external): RFC 4253 as the client relies on it.  A           *)
(* DISCONNECT that it cannot open ends the connection all the same.         *)

SrvLists == IF srv.n <= 1 THEN offer.srv ELSE offer.later
SrvAgreed == Rfc(offer.cli, SrvLists)
SrvHash == Standard[SrvAgreed.kex] \o <<srv.ck, srv.n, SrvAgreed.hostkey>>
SrvEnd(dir, letters) ==
    LET sid == IF srv.sid = NoKeys THEN SrvHash ELSE srv.sid
    IN  [crypt |-> SrvAgreed["crypt_" \o dir], mac |-> SrvAgreed["mac_" \o dir],
         comp |-> SrvAgreed["comp_" \o dir],
         keys |-> <<letters, SrvHash, sid>>]
SrvSeals(ms, e, auth) ==
    [i \in DOMAIN ms |-> [t |-> ms[i][1], p |-> ms[i][2],
                          seal |-> SrvSeal(e, auth)]]

(* A wrong guess is one whose method is not the one that is agreed. *)
MayGuess(lists) ==
    LET k == Rfc(offer.cli, lists).kex
    IN  /\ k # None /\ k # lists.kex[1]
        /\ \/ "guess" \in Troubles
           \/ srv.n = 0 /\ kex_methods[k].burns /\ ~kex_methods[k].request

SrvKexInit ==
    /\ sock = "up" /\ srv.phase = "open" /\ srv.n < MaxKex
    /\ srv.n = 0 \/ srv.service
    /\ LET lists == IF srv.n = 0 THEN offer.srv ELSE offer.later
       IN  \E follows \in {FALSE} \cup {MayGuess(lists)} :
             toCli' = toCli \o SrvSeals(
                <<<<"KEXINIT", [n |-> srv.n + 1, lists |-> lists,
                                follows |-> follows]>>>>
                \o (IF follows THEN <<<<"T31", Guess>>>> ELSE <<>>),
                srv.out, srv.auth)
    /\ srv' = [srv EXCEPT !.n = @ + 1, !.phase = "kex"]
    /\ UNCHANGED <<offer, sock, toSrv, queue, call, st, c, garbled>>

SrvReply ==
    <<<<IF Head(toSrv).t = "INIT" THEN "T31" ELSE "T33",
       [key |-> SrvAgreed.hostkey, h |-> SrvHash]>>,
      <<"NEWKEYS", 0>>>>

SrvRead ==
    LET m == Head(toSrv)
        new == SrvEnd("sc", "BDF")
    IN  /\ toSrv # <<>> /\ sock = "up"
        /\ m.t = "KEXINIT" => srv.phase = "kex"
        /\ toSrv' = Tail(toSrv)
        /\ garbled' = (garbled \/ (m.t # "DISCONNECT" /\
                                   m.seal # SrvSeal(srv.in, srv.auth)))
        /\ CASE m.t = "IDENT" -> UNCHANGED <<srv, toCli, sock>>
             [] m.t = "KEXINIT" ->
                  /\ srv' = [srv EXCEPT !.phase = "init", !.ck = m.p]
                  /\ sock' = IF \E l \in Lists : SrvAgreed[l] = None
                             THEN "down" ELSE sock
                  /\ UNCHANGED toCli
             [] m.t = "GEX_REQUEST" ->
                  /\ toCli' = toCli \o SrvSeals(<<<<"T31", Group>>>>,
                                                srv.out, srv.auth)
                  /\ UNCHANGED <<srv, sock>>
             [] m.t \in {"INIT", "GEX_INIT"} ->
                  /\ toCli' = toCli \o SrvSeals(SrvReply, srv.out, srv.auth)
                       \o SrvSeals(IF srv.n = 1 /\ offer.algs # NoAlgs
                                   THEN <<<<"EXT_INFO", offer.algs>>>>
                                   ELSE <<>>, new, srv.auth)
                  /\ srv' = [srv EXCEPT !.phase = "newkeys", !.out = new,
                               !.sid = IF @ = NoKeys THEN SrvHash ELSE @]
                  /\ UNCHANGED sock
             [] m.t = "NEWKEYS" ->
                  /\ srv' = [srv EXCEPT !.phase = "open",
                               !.in = SrvEnd("cs", "ACE")]
                  /\ UNCHANGED <<toCli, sock>>
             [] OTHER ->
                  /\ srv' = [srv EXCEPT !.todo = Append(@, m)]
                  /\ UNCHANGED <<toCli, sock>>
        /\ UNCHANGED <<offer, queue, call, st, c>>

ConnectionLost ==
    /\ sock = "up" /\ "loss" \in Troubles
    /\ sock' = "down"
    /\ UNCHANGED <<offer, toSrv, toCli, queue, call, st, c, srv, garbled>>

NoEnd == [crypt |-> None, mac |-> None, comp |-> None, keys |-> NoKeys]

KexStart(functions) ==
    /\ offer \in Offers
    /\ sock = "up" /\ toSrv = <<>> /\ queue = <<>> /\ call = None
    /\ toCli \in {SrvSeals(ms, Plain, FALSE) :
                    ms \in {<<<<"SSH", 0>>>>, <<<<"LINE", 0>>, <<"SSH", 0>>>>}}
    /\ st = [f \in functions |-> "idle"]
    /\ c = [kst |-> "idle", low |-> "idle", kex |-> None, hostkey |-> None,
            local |-> NoEnd, remote |-> NoEnd, newkeys |-> FALSE,
            exch |-> FALSE, burn |-> FALSE, sid |-> NoKeys, auth |-> FALSE,
            nkex |-> 0, lkex |-> 0, rkex |-> 0, h |-> NoKeys, inAdd |-> FALSE,
            agreed |-> FALSE, ready |-> FALSE, closed |-> FALSE,
            signAlgs |-> NoAlgs, failed |-> FALSE]
    /\ srv = [n |-> 0, phase |-> "open", ck |-> 0, out |-> Plain, in |-> Plain,
              sid |-> NoKeys, auth |-> FALSE, service |-> FALSE, todo |-> <<>>,
              bannered |-> FALSE, accepted |-> 0, refused |-> {},
              asked |-> {}]
    /\ garbled = FALSE

=============================================================================
