# TLA+ models of ssh2-python3

`src/` is the Python package `ssh2`: Cython classes (`src/ssh2/*.pyx`) over a
modified copy of libssh2 (`src/libssh2/src/*.c`), built with the OpenSSL back
end. The wrapper adds little logic of its own; the state machines are in the C
code. This directory models them, checks them with TLC and proves the main
safety properties with TLAPS.

## 1. The system

### Components

| Part | Sources | State | Operations |
|---|---|---|---|
| Channel | `channel.c` | `LIBSSH2_CHANNEL`: the two windows, `read_avail`, EOF/CLOSE flags of both sides, one `*_state` and saved packet per call that can be interrupted | read, write, flush, window adjust, extended data mode, send_eof, close, free, wait_eof, wait_closed |
| Packet dispatch | `packet.c` | `session->packets`, `packAdd_state` | `packet_add`, `ask`, `require` |
| Transport | `transport.c` | `session->packet`: the packet being read, `odata/olen/osent`: the packet being sent | `transport_read`, `transport_send`, `send_existing` |
| Channel opening | `channel.c`, `packet.c` | channel list, `next_channel`, listeners and their queues | open, direct-tcpip, forward listen / accept / cancel, `queue_listener`, `x11_open` |
| Session | `session.c`, `keepalive.c` | blocking mode, time limit, socket state, handshake state | startup, disconnect, free, `wait_socket`, `BLOCK_ADJUST`, keepalive |
| Key exchange | `kex.c` | `LIBSSH2_STATE_EXCHANGING_KEYS`, `startup_key_state`, `exchange_state`, keys of both directions | negotiation, the three families of methods, NEWKEYS, re-exchange |
| User authentication | `userauth.c` | one `*_state` per method | password, public key, hostbased, keyboard-interactive |
| SFTP | `sftp.c` | request ids, received packets, pipelined requests of a handle, zombie requests | open, read, write, readdir, stat, close ... |
| SCP | `scp.c` | `scpRecv_state`, `scpSend_state` | recv, send |
| Agent, known hosts, public key subsystem | `agent.c`, `knownhost.c`, `publickey.c` | list of identities, list of hosts, subsystem channel | connect / list / sign, add / check / read / write, add / remove / list |
| Python objects | `ssh2/*.pyx` | owning pointers, references between objects, `closed` flags | method per C function, write loops, `__dealloc__` |
| Crypto, compression | `openssl.c`, `crypt.c`, `mac.c`, `comp.c`, `pem.c`, `misc.c`, `hostkey.c` | contexts | pure computation |

### How the parts interact

The library is single threaded. Every exported function that can wait is wrapped
in `BLOCK_ADJUST`: the function runs until it is done or gets
`LIBSSH2_ERROR_EAGAIN`; then the blocking mode waits for the socket (up to
`api_timeout`) and enters the function *again from the top*, and the
non-blocking mode returns. Each function therefore keeps a state field and
finds its way back to where it was. Between two entries the application may
make any other call on any object of the session, and any call that reads
the socket delivers the packets of *all* channels through `packet_add()`.
At most one packet is half sent at a time; `send_existing()` recognises it by the
address and length of its buffer and refuses every other send with
`LIBSSH2_ERROR_BAD_USE` until it is out.

Channels call the transport (send, read), the transport calls packet dispatch,
which changes channels and may itself send (replies, refunds of ignored data)
and start a key exchange. A key exchange suspends both directions for everybody
else.

### What is hard

1. **Re-entry after EAGAIN.** What a function recomputes on re-entry has to agree
   with the packet it built the first time.
2. **Interleaving of calls.** A call that is interrupted can be followed by
   another one on the same channel (a close in the middle of a write).
3. **Accounting of two windows** between two ends that see each other's
   messages late, in 32-bit counters, with data queued for two streams.
4. **Termination**: a peer that waits for credit while the client waits for data; a
   close that waits for the peer.
5. **Failures**: a lost connection, a refused packet or a time limit in the middle
   of any call.

`PROJECT.json` lists these as hazards, each at the line where it bites.

### What makes each part correct

* Channel: the receive window is the one the peer counts; no byte is lost, repeated
  or reordered; the end of a stream is reported at its end only; writes stay in
  the peer's window; nothing follows EOF and CLOSE; a closed channel said so; close
  returns; a reader keeps its peer fed.
* Transport: what goes in comes out, whole and in order, however `send()` and
  `recv()` cut it; a half-sent packet is always completed by somebody.
* Channel opening: ids of live channels differ; every channel the peer confirmed has
  one owner; the queue of a listener never exceeds its limit.
* Session and key exchange: both ends choose the same methods and open every packet with
  the keys it was sealed with; a re-exchange ends.
* User authentication: no request leaves before the keys are in force; signatures are over
  the first session id and of the announced algorithm; a call returns the verdict on
  its own request.
* SFTP: data of pipelined requests is assembled in file order; what is reported as
  written is in the file; each reply goes to its request, and none is kept that nobody wants.
* SCP, agent, public key subsystem: the file that is named is the one transferred; a
  response answers the request that takes it; every exchange ends.
* Known hosts: the verdict does not depend on the order of the list and survives the file.
* Python objects: no wrapper uses a C object that is freed, none is leaked.

## 2. Modules

| Module | Contents |
|---|---|
| `Channel` | One open channel, `packet_add()` for its packets, the transport as its callers see it, the peer; the properties |
| `ChannelInv` | The inductive invariants of the proofs, and the discipline some of them need |
| `MCChannel`, `MCChannelLive` | The instances for TLC; two applications side by side for the liveness properties |
| `ChannelProofs`, `ChannelSafety` | Type correctness and writes within the peer's window; the receive window is exact and nothing is dropped; a closed channel said so, no data after EOF, streams are in order, a read of 0 means the end; `read_avail` is what is queued |
| `Connection` | The session's channels, listeners, queued connections, channel and global requests, replies and keepalives; the properties |
| `MCConnection` | Two applications side by side on a connection, for TLC |
| `ConnectionProofs` | Ids are distinct; queues of listeners are bounded; a reply decides its own request; a half-sent packet has an owner |
| `Wire` | What the transport promises: two queues of whole messages. Abstract |
| `Transport`, `MCTransport` | The binary packet protocol over a stream that is cut anywhere, with the changes of keys; implements `Wire` |
| `TransportProofs` | The invariant of the stream; no packet is garbled or stays hidden, and the steps of `Transport` are steps of `Wire` |
| `Kex` | Session startup and key exchange, against a server |
| `Login`, `MCLogin` | User authentication and disconnect on top of `Kex`; the offers of both ends for TLC |
| `LoginProofs` | Both ends choose the same methods; logins are sealed; the verdict a login returns is its own; a freed reply to a password is not read |
| `Sftp` | The SFTP client, against a server that answers in any order |
| `SftpProofs` | Answers have one owner each; written bytes land, read bytes are the file's, listings are in order, who waits for an answer can get it |
| `PyObjects` | The life times of the Python objects and the C structures they free |
| `PyObjectsProofs` | No C structure is used or freed after it was freed, none is left behind |
| `MCSftp` | `Sftp` and `PyObjects` for TLC |
| `Scp`, `Publickey`, `Agent`, `Knownhost` | The services above a channel |
| `ServicesProofs` | A response of the agent or of the public key subsystem belongs to the request; scp hands its channel over at the first byte; known hosts are found as meant, also after a file |
| `MCServices` | These four for TLC |

`MCChannel` extends `ChannelInv`, which extends `Channel`; the proof modules extend
`ChannelInv` and one another in the order of the table. `Channel` and `Connection`
look at the same C code from two sides: one channel with its bytes and windows, and many
channels with their identity and the requests made on them. Both use the transport as
`Wire` describes it; `Transport` shows that it is so. `Login` extends `Kex`, because a key
exchange may begin in the middle of a login. The modules that `MCServices` and `MCSftp` join
share nothing but the session they run on; a behaviour of those instances uses one of
them, chosen at the start (`using`).

### Channel: how state and actions correspond to the code

The variables of the first groups carry the names of the C fields
(`remote_window_size` is `channel->remote.window_size`, `odata` is
`session->packet.odata` with the packet it points to, `packAdd` is
`packAdd_state` with what is saved for it). `pc` is where the one thread
stands (`app` when no call is running), `call` holds the arguments, `ret` the last result.

A call begins with `Call...` and goes on in steps; each step is a stretch of C that
ends at the next socket operation or loop turn:

| Action | Code |
|---|---|
| `CallRead`, `ReadWiden` | `libssh2_channel_read_ex()`: the forced adjustment for a buffer larger than the window; its result is ignored |
| `ReadExpand` | `_libssh2_channel_read()`: expand the window if it is too narrow, or resume at `channel_read` jump point 1 |
| `ReadDrain`, `ReadCopy`, `ReadReturn` | the drain loop, a turn of the copy loop over the queue, the return |
| `CallWrite`, `WriteDrain`, `WriteFit`, `WriteSend` | `_libssh2_channel_write()` |
| `CallFlush`, `FlushScan`, `FlushRefund` | `_libssh2_channel_flush()` |
| `CallAdjust`, `AdjustStep` | `libssh2_channel_receive_window_adjust2()` |
| `ReceiveWindowAdjust` | `_libssh2_channel_receive_window_adjust()`, used by read, flush, adjust and `packet_add()` |
| `EofStep`, `SendEof` | `channel_send_eof()` |
| `CloseEnter`, `CloseSend`, `CloseWait`, `CloseDone`, `FreeStep` | `_libssh2_channel_close()`, `_libssh2_channel_free()` |
| `WaitEof`, `WaitClosed` | the two waits |
| `PacketAdd`, `PacketAddResume` | `_libssh2_packet_add()` and its jump points 1 and 4 |
| `TransportSend`, `TransportRead` | `_libssh2_transport_send()`, `_libssh2_transport_read()` |
| `Again` | `BLOCK_ADJUST` with `_libssh2_wait_socket()` |
| `Pump` | a call on another channel that reads the socket |

The peer sends data within the window it was given, grants credit, ends its
stream, sends channel requests that want a reply, starts a key re-exchange; the
connection may be lost between any two steps.

### Connection: how state and actions correspond to the code

| Variable | Code |
|---|---|
| `channels`, `next_channel`, `listeners` | the lists and the counter of `LIBSSH2_SESSION` |
| `queue`, `queue_size` | `listener->queue`, `listener->queue_size`, per bound port |
| `brigade` | `session->packets`, the replies in it |
| `packAdd` | `packAdd_state` (jump point 2) with `packAdd_Qlstn_state` |
| `exchange` | state and packet of each request: `open_state`, `fwdLstn_state`, and per channel `setenv_state`, `reqPTY_state`, `reqX11_state`, `req_auth_agent_state`, `process_state` |
| `agent_try`, `chanFwdCncl_state`, `close_state`, `odata` | the fields of those names |

| Action | Code |
|---|---|
| `CallOpen`, `CallListen`, `CallRequest`, then `Build`, `SendRequest`, `Ask`, `ReadReply`, `Fail` | `_libssh2_channel_open()`, `channel_forward_listen()` and the channel requests. All have the same three states (build, send, wait for the reply); one record per C function (`Open`, `Listen`, `Setenv`, `Pty`, `X11`, `Agent`, `Process`) says in what they differ |
| `Ask`, `ReadReply` | `_libssh2_packet_requirev()`: look in the queue, then read until a packet of a wanted type comes |
| `Leave` | the second name that `libssh2_channel_request_auth_agent()` tries |
| `CallResize`, `Resize` | `channel_request_pty_size()`, which has no state of its own |
| `QueueListener` with `Admit`, `AdmitResumed`, `Confirm`, `Refuse` | `packet_queue_listener()`; any call that reads may run it |
| `AcceptRead`, `AcceptTake` | `channel_forward_accept()` |
| `CancelSend`, `CancelNext`, `CancelEnd` | `_libssh2_channel_forward_cancel()`, with the free of each queued channel between them |
| `CallFree`, `CloseSend`, `CloseWait`, `Unlink` | `_libssh2_channel_free()` of a channel |
| `WaitSocket`, `CallKeepalive` | `_libssh2_wait_socket()` and `libssh2_keepalive_send()` |

The peer answers each request, in order, with either answer; it forwards
connections to the ports that are bound. `answer` records which reply (`got`)
decided the result of which request (`asked`), by their tags; no action of the client
reads a tag.

Two parameters describe the application. `Ops` is what it calls; a call that
returned EAGAIN may be made again, with the same arguments, or left.
`OneRequest` says that it finishes a request on any channel before it begins another one.

Abstractions of this module: payloads and windows are left out; EOF and CLOSE,
which free sends one after the other, are one message; a request has one
kind of reply packet per outcome; `next_channel` is a number and not a `uint32_t`, so the
ids do not come round again after 2^32 channels; memory allocation does not fail; the connection is not
lost (for that see `Channel`). A half-sent packet belongs to one buffer, which
`SameBuffer` compares as `send_existing()` compares address and length. The peer's x11
connections are left out: the package sets no x11 callback, so
`packet_x11_open()` refuses them all.

### Abstractions of Channel

* A payload is its length. Each message carries its sender's running totals
  (bytes sent, credit granted); each queued packet the position of its last byte in its
  stream. No action of the client reads these: they are there so that the
  invariants can say where a message stands, without sums over sequences.
* `granted`, `written`, `received`, `dropped`, `arrived`, `taken`, `onWire` are
  history variables: only properties read them.
* `adjust_adjust` and `write_bufwrite` are set to 0 once their packet is sent or
  given up; the code leaves the old bytes in a buffer that is rebuilt before it is read.
* The wires are FIFO; framing, encryption and partial `send()`s are inside
  `TransportSend`, which either takes the packet or leaves it half sent in `odata`.
* `CHANNEL_FAILURE` and EOF packets are built on the stack of their function. A
  repeated call may find them at another address and be refused, so for these
  both outcomes are possible (`StackPackets`). That one such packet takes the
  place of the other, at the same address and of the same length, is not modelled.
* The key re-exchange is one interval: from the KEXINIT until `KexDone` sends and reads
  get EAGAIN. It does not end within the call that received the KEXINIT, and
  it does not begin while a packet is half sent (`RekeyAssumption`): that collision
  is the subject of the run `RekeyLost` of `Transport`.
* `exit-status` and `exit-signal` requests set two fields that nothing else reads; they
  are left out. A request stands for any that wants a reply.
* After a lost connection the last read gets an error of `recv()`, or the peer's
  DISCONNECT, which also sets `socket_state`.
* Memory allocation does not fail.
* 32-bit arithmetic is `U32` / `Sub32` with a parameter `Modulus`, so that a
  small instance can wrap.
* A packet of type 0, after which a read with an empty queue returns 0 (channel.c:2129), is left out.

### Transport and Wire

`outSent`, `outGot`, `inSent` and `inGot` are the messages handed over and opened in each
direction; they are the variables of `Wire`, and `broken` is `sock = "down"`. The stream is
a sequence of cells; a cell knows its packet and its place in it, and a packet the keys
and the sequence number it was sealed with. Decrypting a cell that is not of the MAC with the
right keys gives it back, anything else puts the end that did it into `garbled`.

| Action | Code |
|---|---|
| `UserSend`, `UserSendFails`, `TransportSend` | `_libssh2_transport_send()`, `send_existing()` |
| `UserRead`, `TransportRead`, `Begin`, `Portion`, `Collect`, `FullPacket` | `_libssh2_transport_read()`: fill the buffer, take the first block and the lengths, then decrypt and copy round by round, then `fullpacket()` |
| `UserResumes`, `ReadResumes` | jump point 1, for a packet whose answer got EAGAIN |
| `PacketAdd`, `Answer` | `packet_add()` for a global request (answered) and KEXINIT |
| `KexSend`, `KexRead`, `KexTakes`, `KexGivesUp`, `KexReadFails` | `_libssh2_kex_exchange()` as far as it sends, waits and changes keys |

Abstractions: one cell of header, a block of 2 cells; compression is left out; of the key
exchange only KEXINIT and NEWKEYS are messages (the rest is `Kex`).

### Kex and Login

Every packet carries a *seal*: cipher, MAC, compression and keys. Keys are the hash of what
went into the exchange: name lists, group, values and session id, so that ends which
hashed different things have different keys. `st` holds the state of every resumable function,
`call` the one that is running; EAGAIN ends a call and keeps its state. The key exchange
methods are records (`dh`, `gex_*`, `ecdh`, `curve25519`) that differ as the C functions do.
The login functions have their C names (`userauth_password`, `passwd_change`,
`userauth_hostbased`, `pblc_start`, `pblc_sign`, `userauth_kybd`, ...); those that send a
request and wait share `SendRequest` and `ReadReply`. The server is external: it follows RFC 4253
and 4252, may guess the first packet wrongly, send a banner, answer late, ask for new keys at any
point and refuse anything. `MethodsAgree` compares the C code's negotiation with the rule of RFC 4253.
A result is the code the function returns: `RefusalCode` for a refusal, and `TransportError` for a lost connection or
a failed exchange, which for hostbased, public key and keyboard-interactive logins is the same code. A failed exchange does not
make every function idle (`AfterError`): a password change stays where it was, and a keyboard-interactive login that has sent answers waits again.

`Troubles` is what the environment may do beyond its contract. `"loss"` is in the run. `"guess"` (a wrong guess that the method does not burn, or in
a later exchange), `"unsupported"` (a signer that refuses the default algorithm too) and `"badinfo"` (a later request for answers that does not decode) leave the six properties true when added to `Login.cfg`,
one at a time; they are left out to keep it short. `"retry"`, `"expired"` and `"abandon"` do not: see below. A login that is
called in place of an interrupted handshake is not tried (`MayCall` asks for `c.ready`).

### Sftp

`packets`, `zombies`, `read_state`, `write_state`, `request_id` and `file[f]` with its list of
chunks, `offset` and `offset_sent` are the C fields. `ReadSome`, `ReadSend`, `ReadRecv`, `ReadReturn`
are the states of `sftp_read()`, `CallWrite`, `WriteSend`, `WriteAck` those of `sftp_write()`.
All other requests have one shape (build, send, wait for a reply of some types); a
record per C function says in what they differ, `OpSend` and `OpWait` run it. `Write` is `_libssh2_channel_write()`: it takes
the request, or a part of it that the window has room for, or says EAGAIN, with nothing taken or with the packet half sent
(`stuck`). A packet that is half sent is finished by the next call that writes, which is told that its own request went out;
"the caller must call this function again with the SAME input arguments" (channel.c:2244). `MixCalls` is whether the application keeps to
that: with `FALSE` it repeats the call before it makes any other that sends, and does not seek. A scene is what the
application does besides reading; a mood is how server and channel behave: `plain`, `odd` (errors,
short data, early EOF), `tight` (a channel that takes part of a packet). The byte at offset `o` of
file `f` is `<<f, o>>`, so a byte in the wrong place is seen. Seeks are made between reads, with read-ahead outstanding; libssh2_sftp_seek64.3:23 says
"You MUST NOT seek during writing or reading a file with SFTP, as the internals use outstanding packets", which the model takes to mean a read or a
write that got EAGAIN and data not yet acknowledged: between two reads packets are always outstanding, and the code gives them up.
Not modelled: that a smaller request which finishes a larger one is told it wrote more than it asked for, and that a packet is
begun before a key exchange and finished after it.

### Scp, Publickey, Agent, Knownhost

`Scp` follows the states of `scp_recv()` and `scp_send()`; `ShellQuotearg` is the quoting of the path and
`ShellWord` the shell's reading of it. `Publickey` keeps the one receive state and packet
pointer that all requests share, with writes that fail on a channel that is gone (an add is then `lost`: its state stays at `created`, its packet is
freed, and a next add would write from NULL, publickey.c:706) and responses of unknown names (`PkTroubles`); `Agent` the four steps of a transaction and the number of
the descriptor apart from what it denotes, with `agent_auth()` of `agent.pyx` as its
application. `Knownhost` has the collection, `Check` with its two passes, `Line` and `ParseKey` for
the file, whose lines `ReadFile` reads one by one, and `Meaning`, the verdict said without the list. Comments, lines without a key, keys that
are too short and names or salts that are too long (`Remark`, `TooShort`, `TooLong`) are words of their own; what the code compares by `strncmp()` is compared
whole, and a line is a record, not a text. In `Scp` a read that fails is the step `ScpError`, which has the same exit; a step of its own that is always enabled
would end every transfer by fairness.

### PyObjects

An object has a kind, a state, the object it holds a reference to, the number of its C structure and whether the
application still holds it. `Make` and its uses are the constructors, `Dealloc` is `__dealloc__`, which
frees what the C function it calls frees (`SessionFrees`, `ChannelFrees`, `CloseFrees`) if that call can finish
(`mode` is `patient`, or the connection is lost) and drops the pointer in any case. `libssh2_publickey_shutdown()` has no `BLOCK_ADJUST` and
may fail to finish in any mode (`ShutdownUnfinished`). `PyHabits` is what an
application does that the package does not survive.

## 3. Runs

Passing runs. Deadlock is allowed where an application may stop calling or the peer may
have nothing to say (all runs but `Login`, where a session that can go no further is
an action of its own); where something must happen it is a liveness property.

| Run | Shows |
|---|---|
| `ChannelReceive` | Blocking mode, a key re-exchange in the middle of any call. Reads of both streams in two sizes, stderr merged or not, send_eof, close, free. The two ends agree on the window, streams are in order, 0 means the end, closed means said. (The same on a full socket is a theorem) |
| `ChannelCalls` | Non-blocking mode on a socket that always takes a packet: any mixture of reads, flushes, forced and queued adjustments, ignored stderr, deliveries by other channels drops nothing that the peer was allowed to send, and `read_avail` is what is queued. A flush of short packets wraps its refund in this run: from then on the peer counts a whole modulus more than the client (`Overdrawn`), the window of the client fills up and data is dropped; `NoDataDropped` says that nothing is dropped before that |
| `ChannelSend` | Non-blocking mode, socket full or lost, requests with replies: types, writes in the window, no data after EOF, though any call may be abandoned half way for another |
| `ChannelLive` | Liveness: a reader keeps its peer fed (full socket, two sizes of reads); with a time limit, channel requests and a re-exchange, close and free return |
| `ConnShared` | Blocking mode with time limit, full socket, keepalives, two listeners: opens, listens, accepts, cancels, frees and requests in any order, each of which may fail half way. Ids stay distinct, queues within their limit |
| `ConnCalls` | Two applications. Blocking, on a full socket: a half-sent packet always has a call that will complete it, and every call but accept returns. Non-blocking, one channel request at a time, no cancel, socket never full: the reply that decides a result is the reply to that request, and each channel the peer holds open is known to the client or being closed |
| `Transport` | Framing over a stream cut anywhere, two sets of keys, a request of the peer that is answered: no packet is garbled, no whole packet stays hidden in the buffer after EAGAIN, and `Wire` is implemented, its liveness included |
| `Login` | Startup and two exchanges with each family of methods, or no common method; every login function twice; banners, lost connections: both ends agree on methods (a certificate as host key is skipped by the client) and, while later exchanges keep the ciphers, MACs and compression, on seals; requests are sealed, signatures verify, success is the server's verdict on that request and so is a refusal, unless no verdict can come any more, no freed reply is read |
| `Sftp` | Two files read and written through a pipeline, every other request in between, seeks, closes, requests half sent; answers in any order: bytes and positions are right, replies belong to somebody, what is written lands, the code's "never reached" is not reached, listings are in order. And the Python objects: nothing is used after it was freed, and when the calls could finish nothing leaks but the spare agent and the `LIBSSH2_PUBLICKEY` of an unfinished shutdown |
| `Services` | scp starts on the named file and hands over its channel at the first byte; responses of the public key subsystem and of the agent belong to the request; known hosts give the verdict that is meant, also after their file was written and read; all exchanges end, unless the agent closes its socket while it owes a response |

Bounds of `Channel`. Sizes are chosen around the thresholds of the code: a window of 1 to 4
bytes; reads below and above the window (`ReadWiden`) and below and above 3/4 of it
(`TooNarrow`); writes larger than the window and than a packet; `MinAdjust` 1 or 2, so
that an adjustment is queued and later sent; data in two sizes so that packets are
read in part. Two packets per direction let messages cross and queue;
the peer sends 4 to 6 bytes, more than one window. `Modulus` is 64, far from the
sums in these runs, except where a subtraction goes below zero, which wraps at any
modulus: `ChannelCalls` has data of 1 byte against a `HeadSlack` of 2, where the refund of a flush wraps, and of 3, where it is only short. `MaxWire`, `MaxSent`, `MaxWindow`, `MaxPeerGranted`, `MaxRequests` and
`MaxRekeys` are guards of the peer, of `TransportSend` and of `CallAdjust`; they keep runs finite and do
not occur in any other guard. The theorems hold for all their values.

Bounds of `Connection`. `MaxTags` (requests and keepalives the client builds: 4, or 2 in `ConnShared`)
and `MaxForwards` (connections the peer forwards: 1 or 2) bound the behaviour and
nothing else. Four tags are an open, a request on its channel and two more that
can meet its reply: a second channel, a second request, a listener, or a keepalive. With `QueueMax`
1 and two forwarded connections the queue is full when the second comes. `ConnShared`
has two ports and two connections, so that both queues and the channel list hold ids at once.

Bounds of the others. `Transport`: a buffer of 3 cells with blocks of 2 and a MAC of 3 makes every
packet longer than the buffer, block and MAC straddle its end, and a packet begins anywhere in it; payloads do and
do not fill their last block; sequence numbers wrap at 4; two key exchanges. `Login`: two
exchanges, so that one falls into a login and the second session id differs; two requests,
so that the answer to one can be met by the other; six offers, one per family, one with a certificate first, one whose later exchanges agree on another MAC, and one
with nothing in common; in later exchanges the curve, the order of the MACs or the host key changes. `Sftp`: a file of 3 bytes in chunks of 2 through buffers of 1 and 2 gives
answers that are larger than a buffer, short, and past the end; five requests of files, or four where other
kinds are mixed in; one seek. `PyObjects`: three objects besides socket and session, enough for a handle
of an SFTP and one more of any kind. `Services`: paths of up to two of all five
classes of characters of the quoting and three of the three that change its state; four
requests of the public key subsystem and two keys, so that two lists of two keys follow each other, told in
different orders; two identities; two entries and two hosts, one with a short name.

### Where the code differs from what it says

Each of these runs is expected to be violated; the counterexample is what the code
does, the property what a comment says. `findings` quotes the lines.

| Run | What the trace shows |
|---|---|
| `ReaderStalls` | Non-blocking: an interrupted expansion is resumed with another amount; the counter runs ahead, the window is never refilled |
| `RekeyLost` | A KEXINIT that is read while a packet is half sent: the transport refuses the packets of the exchange, `packet_add()` drops the error, the peer waits for ever |

More differences of the same kind, which the models contain, and how to see each. The
passing runs are without the setting in the last column.

| Difference | Property | How to see it |
|---|---|---|
| A flush that gets EAGAIN takes the flushed bytes off `read_avail` and the window again on re-entry (channel.c:1660) | `ReadAvailIsQueued` | `Ops = {"read", "flush", "pump"}`, non-blocking, `MayBlock` |
| A queued adjustment is in the packet but, after EAGAIN, not in the counter: bytes within the granted window are dropped (channel.c:1842) | `NoDataDropped`, `Undropped` | `Ops = {"read", "adjust_queued"}`, blocking, `MayBlock`, `AdjustSizes = {1, 3}`, `MaxSent = 12` |
| A flush takes a 13-byte header off DATA packets that have 9 (channel.c:1644): the refund is 4 bytes short, and for less than 4 bytes of data it wraps, so that the peer is granted nearly 2^32 bytes the client does not count; what it sends of them is dropped | `Undropped` | `ChannelCalls` with `Undropped` in place of `NoDataDropped` |
| A close made while another packet is half sent is refused by the transport, and the channel is marked closed all the same (channel.c:2626) | `ClosedIsSent` | `Ops = {"read", "close"}`, non-blocking, `MayBlock` |
| A write interrupted by a key exchange is taken up after EOF was sent (channel.c:2349) | `NoDataAfterEof` | `Ops = {"write", "eof", "pump"}`, non-blocking, `MaxRekeys = 1` |
| Close stops waiting for the peer's CLOSE at any packet (channel.c:2621) | `local_close => remote_close` | `Ops = {"close"}`, blocking, with data from the peer |
| The confirmation of a forwarded connection that gets EAGAIN is completed without its channel, which is then in no list (packet.c:152) | `ConfirmedIsOwned` | `Ops = {"listen", "accept"}`, blocking, `MayBlock` |
| The answer to a keepalive with `want_reply` decides the next `tcpip-forward` request (channel.c:533) | `AnswerIsOwn` | `Ops = {"listen", "keepalive"}`, blocking, `WantReply` |
| An auth-agent request goes on after EAGAIN; nobody completes its packet, and every other send is refused (channel.c:1085) | `PendingHasOwner` | `Ops = {"open", "request"}`, `Kinds = {"agent"}`, blocking, `MayBlock` |
| Cancel reads the next queued channel before it frees the first; one that is queued meanwhile is lost (channel.c:699) | `ConfirmedIsOwned` | `Patient` of `MCConnection` with `"cancel"` in `Ops`, `QueueMax <- 2` and `MaxForwards <- 2` (a queue limited to 1 is full, and refuses it) |
| A resize made while a pty request waits uses its state (channel.c:1241) | `AnswerIsOwn` | `Patient` with `OneRequest <- FALSE` |
| A keepalive that gets EAGAIN is forgotten half sent (keepalive.c:80) | `PendingHasOwner` | `ConnCalls` with `"keepalive"` in `Ops` |
| A read of a second SFTP file made before a read that got EAGAIN is finished comes to the code "should never reach this point", because `read_state` belongs to the SFTP session (sftp.c:1724); or it passes over what the first file has left, fails at an "unexpected offset", and a chunk waits for an answer that was taken | `NeverReached`, `RepliesOwned` | `Sftp` with `MixHandles = TRUE` |
| A close, a stat or another request that is made after a read or write got EAGAIN with its packet half sent finishes that packet and thinks it was its own: the handle is freed with `chunk->sent` 0, no zombie is made (sftp.c:464), the reply to the old request is kept for nobody, and the new one was never sent (channel.c:2346, transport.c:918) | `RepliesOwned`, `ListingInOrder` | `Sftp` with `MixCalls = TRUE` |
| A read of 0 bytes from stdout, ended with unread stderr, counts as no end: `scp_recv()` gives the channel back in the middle of the header (scp.c:752) | `ChannelAtData` | `Services` with `ScpStderr = TRUE` |
| A shutdown of the public key subsystem frees the packet that the receiver freed (publickey.c:1255) | `FreedOnce` | add it to `Services` |
| A response in two packets, a request made while another waits, a request cut by the window (publickey.c:171, 398) | `VerdictIsOwn`, `RequestEnds` | `PkTroubles` of `"split"`, `"mix"`, `"short"` |
| A response whose name `publickey_response_codes` lacks, such as `attribute`, ends the request with an error while its status is still to come, which then answers the next request (publickey.c:58, 279, 882) | `VerdictIsOwn` | `PkTroubles` of `"unknown"` |
| An agent that closes its socket while it owes a response makes `_recv_all()` read 0 bytes for ever (agent.c:137) | `AuthenticationEnds` without `Spinning` | `Services` |
| The methods of an exchange are stored, and a new cipher, MAC or compression used, when they are agreed on and not at NEWKEYS (kex.c:3569, 3583, 3636, 3690): a later exchange that agrees on others garbles what comes in between | `~garbled` | `Login` (the offer `Macs`; the other properties hold in it) |
| Certificate methods are announced as host keys but have no `sig_verify`, and `kex_agree_hostkey()` skips them (hostkey.c:457, 998, kex.c:3418, 3444): where they are the server's choice by RFC 4253 the client goes on with another | `MethodsAgree` without its exception | `Login` (the offer `Cert`) |
| A lost connection, a failed exchange of keys and a password or signature the program did not give have the code of a refusal (userauth.c:1202, 1773, 2100, 536) | `TrueVerdict` without its last disjunct | `Login` |
| A handshake that is repeated after the negotiation failed half way finds `session->kex` set and goes on with the methods stored so far (kex.c:3847) | `MethodsAgree` | `Login` with `"retry"` in `Troubles` |
| `userauth_password()` called again after the callback gave no new password looks at the reply it has freed (userauth.c:420) | `NoNullRead` | `Login` with `"expired"` in `Troubles` |
| A login function that got EAGAIN is dropped for another one: replies carry no identity and `packet_askv()` asks for their types only, so the second takes the verdict on the first one's request (packet.c:1203) | `TrueVerdict` | `Login` with `"abandon"` in `Troubles` |
| A refused connection to the agent leaves the number of a closed descriptor, which is closed again (agent.c:127) | `ClosesOwnSocket` | add it to `Services` |
| A signal in the middle of a transaction leaves half of a response in the agent's socket (agent.c:221) | `SignatureIsAsked` | `AgentTroubles` with `"signal"` |
| Known hosts of a custom type, an RSA1 key with a comment or given raw (knownhost.c:205), a name of one or two characters, and those whose line the reader refuses, a key that is too short (749), a name (641) or a salt (691) that is too long, do not survive their file; a refused line also ends the reading of the rest | `FileKeepsVerdicts` | `KhFormats` with `"custom"`, `"rsa1comment"`, `"rsa1raw"`, `"short"`, `"tiny"`, `"long"`, `"longsalt"` |
| A key type without a name makes `libssh2_knownhost_writefile()` fail half way (knownhost.c:1051): the entries after it are not in the file | `khState # "broken"` | `KhFormats` with `"unnamed"` |
| `SFTP.get_channel()` ("Get new channel from the SFTP session", sftp.pyx:166) gives a second owner to one channel | `NoUseAfterFree` | `PyHabits = {"channel_of"}` |
| `libssh2_publickey_shutdown()` returns EAGAIN in blocking mode too when the peer has not closed the channel, and `__dealloc__` drops the pointer: the `LIBSSH2_PUBLICKEY` is leaked (publickey.c:1272, publickey.pyx:135) | `NothingLeaks` without `"publickey"` in `Abandoned` | `Sftp` |
| `PublicKeySystem.shutdown()` and `__dealloc__` both free (publickey.pyx:188) | `NoUseAfterFree` | `{"shutdown"}` |
| `Session.startup()` keeps no reference to its socket (session.pyx:102) | `NoUseAfterFree` | `{"startup"}` |
| A closed `SFTPHandle` or cancelled `Listener` still calls into its freed structure | `NoUseAfterFree` | `{"late"}` |
| A `PublicKey` of an agent points into the agent's list | `NoUseAfterFree` | `{"keys"}` |
| Only `Channel` is `no_gc` (channel.pyx:36): for the other objects the cycle collector may clear the reference to the session before they are deallocated, the fault that Changelog.rst calls fixed | `NoUseAfterFree` | `{"cycle"}` |

Some differences are single statements and need no run: the size that
`receive_window_adjust2()` stores is the one before the adjustment (channel.c:1794, the
comment at 1889 says the new one); `window_read_ex()` returns the window without taking off
what is queued (2881, against 2830); `Session.agent_init()` makes two agents and wraps one (agent.pyx:94); the answer to a global request that is read while a packet is half sent is
refused and forgotten (packet.c:712).

### Fairness

* `WF(Steps)`: the thread goes on with a call it has begun; in blocking mode
  `_libssh2_wait_socket()` wakes it when the socket is ready.
* `SF(Sends)`: a socket that is written to again and again takes a packet in the
  end. Weak fairness is not enough, since an EAGAIN is a step too.
* `WF(PeerReceive)`, `WF(PeerAnswersClose)`, `WF(KexDone)`: the peer reads, answers
  CLOSE with CLOSE (RFC 4254 5.3) and completes a key exchange. Without them close
  waits for ever, by design.
* The reader of `MCChannelLive` and `ReadingSpec` reads on (`SF`, since each call disables
  `CallRead` while it runs) and its peer has data. Nothing is assumed about time:
  where `MayTimeout` holds, a wait may end in TIMEOUT at any moment.
* `FairSpec` of `Connection`: `WF(Steps)` as above, `SF` of completing a half-sent
  packet (the socket takes it in the end), `WF(PeerReceive)` (the peer reads and
  answers). The application is not assumed to call anything.
* `TrSpec`: the application repeats a call that got EAGAIN, and reads; the socket takes and
  gives something in the end; the peer reads and answers a key exchange.
* `MCServices`: a call that was begun is made again after EAGAIN, which is what the blocking mode and
  the Python callers do; remote program, subsystem and agent answer what is asked (failing is never owed).

## 4. Proofs

All theorems are for every value of the constants that satisfies the named assumptions:
`ConstantsAssumption` and `RekeyAssumption` of `Channel`, `ConnectionAssumption` of
`Connection`, `TransportAssumption` and `FitAssumption` of `Transport`, `SftpAssumption` of `Sftp`, `PyAssumption` of `PyObjects`,
`AgentAssumption` of `Agent`, `ScpAssumption` of `Scp`, `PkAssumption` of `Publickey`, `KhAssumption` of `Knownhost`,
`KexAssumption` of `Kex` (the name lists hold names, ours only methods of the table), `LoginAssumption` of `Login`.

| Theorem | Statement | Needs |
|---|---|---|
| `TypeCorrect` | `Spec => []TypeOK` | - |
| `WritesWithinWindow` | `Spec => []WriteWithinWindow` | - |
| `ReceiveWindowExact` | `Spec => [](WindowAgreement /\ Undropped)` | `Disciplined` |
| `NothingDropped` | `Spec => []NoDataDropped` | `Disciplined` |
| `ClosedChannelSaidSo` | `Spec => []ClosedIsSent` | `Disciplined` |
| `EofIsLast` | `Spec => NoDataAfterEof` | `Disciplined` |
| `StreamsInOrder` | `Spec => []StreamInOrder` | - |
| `ZeroMeansEnd` | `Spec => []ZeroReadIsEnd` | - |
| `AvailIsQueued` | `Spec => []ReadAvailIsQueued` | `FlushesAtOnce` |
| `IdsStayDistinct` | `Spec => []IdsDistinct` | - |
| `QueuesStayBounded` | `Spec => []QueueBounded` | - |
| `AnswersAreOwn` | `Spec => []AnswerIsOwn` | `Orderly` |
| `HalfSentHasOwner` | `Spec => []PendingHasOwner` | `Strict` |
| `NothingGarbled` | `TrSpec => []NeverGarbled` | - |
| `NothingStaysHidden` | `TrSpec => []NothingHidden` | - |
| `Implements` | `TrSpec => IsWireSafely` | - |
| `SignaturesAnswer` | `AgentSpec => []SignatureIsAsked` | `"signal" \notin AgentTroubles` |
| `HandedOverAtData` | `ScpSpec => []ChannelAtData` | `~ScpStderr` |
| `VerdictsAreOwn` | `PkSpec => []VerdictIsOwn` | `PkTroubles = {}` |
| `VerdictsAreMeant` | `KhSpec => []VerdictIsMeant` | - |
| `FileIsFaithful` | `KhSpec => []FileKeepsVerdicts` | `KhFormats = {}` |
| `ChoicesAgree` | `Spec => []MethodsAgree` | `"retry" \notin Troubles` |
| `LoginsAreSealed` | `Spec => []SecretsSealed` | `"retry" \notin Troubles` |
| `VerdictsAreTrue` | `Spec => []TrueVerdict` | `"retry" \notin Troubles`, `"abandon" \notin Troubles` |
| `PasswordNotFreed` | `Spec => []NoNullRead` | `"retry" \notin Troubles`, `"expired" \notin Troubles` |
| `BaseHolds` | `Spec => []Base`: who an answer belongs to | `~MixCalls` |
| `WritesLanded` | `Spec => []WritesLand` | `~MixCalls` |
| `ListedInOrder` | `Spec => []ListingInOrder` | `~MixCalls` |
| `ReadsFile` | `Spec => []ReadsAreFile` | `~MixHandles`, `~MixCalls` |
| `FaultsNever` | `Spec => []NeverReached` | `~MixHandles`, `~MixCalls` |
| `RepliesAreOwned` | `Spec => []RepliesOwned` | `~MixHandles`, `~MixCalls` |
| `PyObjectsSafe` | `PySpec => []NoUseAfterFree` | `PyHabits = {}` |
| `PyObjectsFreed` | `PySpec => []NothingLeaks` | `PyHabits = {}` |

`Disciplined` is the use of the library under which these are true: blocking
mode without a time limit, no flush, no queued adjustment, stderr not ignored, no
channel request that wants a reply, sizes that fit in 32 bits. It is not decoration:
the run `ReaderStalls` and the first five rows of the table of further differences
show what is lost without one or the other of its parts. `Orderly` is blocking mode
without a time limit and without keepalives; `Strict` also excludes `accept()` and agent
forwarding. Their parts, too, have rows in that table: the answer to a keepalive decides
somebody else's request, a keepalive and an auth-agent request are left half sent. `accept()`
returns a queued connection although the answer to the next one is half sent, and only
another call that reads will finish it.

**Writes.** `WriteWithinWindow` (written <= granted by the peer) says nothing
about the messages under way. `GrantStamps` does: what is written, plus the window
we count down, plus the credit of the first message under way, is at most that
message's stamp, the stamps grow by at least each message's credit, and the
last is at most what the peer granted. `WriteHeld` adds that an interrupted write
keeps both its packet (`odata.n = write_bufwrite`) and the room for it. Both hold in
every mode, so this theorem has no condition.

**Receive window.** `WindowAgreement` is an equation between both ends' counters,
preserved only if each WINDOW_ADJUST grows the counter by what its packet grants.
`AdjustHeld` says that an interrupted adjustment belongs to the call that is running
and carries the amount which that call computes again on re-entry (for the expansion of a
read this needs that `ExpandBy` does not change, which is why the window must not
move in between). `CreditStamps` and `DataStamps` chain the stamps of the two
wires, so that a DATA packet at the head of the wire fits in the window;
`QueueStamps` keeps `read_avail` at the bytes between `taken` and `arrived`, so that
the subtraction in a read does not wrap; `PendingHeld` ties the half-sent packet
to the running call, so that no send is refused; `Running` rules out the calls the
discipline excludes.

**End.** `CloseInv` says, while the connection is up: every state from which close will set
`local.close` has CLOSE on the wire; EOF or CLOSE on the wire means `local.eof`; and an
interrupted write belongs to the running call, so none is taken up after EOF.

**Order.** `StreamInOrder` relates neighbours in a stream (`Leads`, `Follows`, `Trails`) and not sums, so it is
inductive together with the types: a packet that is appended follows the last of its stream, one that is taken
was the first of it, a part that is read moves `taken` and `left` by the same amount. It holds in
every mode and for every loss, flush and interruption.

**A read of 0.** What a read says about the end depends on what is still under way. `EndIsLast` says that on the wire
the peer's EOF or CLOSE has no data behind it, so once it has arrived (`Ended`) no data comes; `SaidZero` says that
the last result is still true: after the read, nothing can be queued for the stream. Only a read that stands at one of
the places of `Reading` may say 0, after its drain loop found nothing more and the flags are set.

**The count of the queue.** `read_avail` grows in `packet_add()`, shrinks only at the end of a read or a flush, and is what
`packet_add()` compares with the window; in the middle of a call it is not the number of bytes queued. `Counted` says what it
is: the bytes queued, those the read under way has copied and those the flush under way has removed but not yet refunded.
A flush subtracts in unsigned 32-bit arithmetic, so `Widths` bounds the counters and each packet, and `NothingHeld` and `CallsWhole` say
that the flush is not entered again half done: after EAGAIN it takes its bytes off a second time, which is the first row of the further differences.
Hence the condition `FlushesAtOnce`, which asks nothing of a channel that is never flushed: a channel that is flushed is on a
socket that is never full, without a key exchange, and its sizes fit in 32 bits. Reads, ignored streams, adjustments and
lost connections are unrestricted. The sum of the queue is a recursive function; that appending a packet adds its bytes
and that removing or cutting one takes them off (`QueuedAppend`, `QueuedLess`, `QueuedCut`) follow from partial sums
(`Sums`), whose existence and uniqueness are shown by the least index at which they fail.

**Ids and queues.** `_libssh2_channel_nextid()` looks at the session's channels only, so
`IdsDistinct` is not inductive: a queued channel could have any id. `SessionInv` adds
that every id in use, queued ones included, is below `next_channel`, so that `NextId` is
`next_channel` (lemma `NextIdIsNext`) and fresh. `QueueBounded` speaks of the queue, the
code compares `queue_size`; `SessionInv` says that the queue is no longer than `queue_size`
(a cancel shortens the one and not the other) and that `queue_size` is within the
limit. `CallInv` says that a cancel which frees a queued channel has one to free,
although connections arrive meanwhile: reading can only lengthen a queue (`Grows`). One
lemma per way in which a step changes the session (`SessionAdmit`, `SessionOpen`,
`SessionDrop`, `SessionTake`, `SessionTail`) is cited from the actions that do so.

**Replies.** `_libssh2_packet_askv()` takes any reply of the right type and channel, so `AnswerIsOwn` rests on
what may be on the wire. `OneMessage` says that of requests and replies there is at most one, in one
direction, and that it belongs to the call that waits for it: an exchange under way is the one of the running
call (`OneExchange`), its packet goes out once, and the peer turns it into one reply. That the reply comes in is
not enough: a call that gives up leaves a reply for the next one of its type. So it must not give up, and
`HalfSent` says why it does not: `transport_read()` fails only when the answer to a forwarded connection meets a
half-sent packet, and a call that waits for its reply has either its own request there, whose
reply cannot come, or an answer that the next read can finish (`Coherent`). `IdsLeft` keeps the ids of channels
within `Ids`, over which the exchanges are indexed: each open and each connection under way has one left.

**Half-sent packets.** `PendingHasOwner` is not inductive: the owner it names may be a call that has returned.
`OwnerInv` says that the owner is the running call, and where it stands: at its own request (`OwnRequest`), waiting and
having met a forwarded connection (`OwnAnswer`), at its cancel or its close (`OwnCancel`, `OwnClose`). So nothing is half
sent between calls, no send of a call is ever refused, and freeing a channel does not stop at a packet that leaves another
one behind: a read that left an answer half sent says EAGAIN, and the wait for CLOSE goes on.

**Transport.** `NeverGarbled` says that no end has met a packet it cannot open, which says nothing of the cells that are under
way. `TrInv` does: what is in the stream, in the buffers and half sent is a chain of packets, each sealed for the place after the one
before it (sequence number and keys), cut at both ends at a known place (`Begins`, `Ends`); the packet that
`transport_read()` has collected in part is the first of the chain (`Piece`), and what it has decrypted so far agrees with its lengths.
A change of keys is a place in the chain: each phase of the exchange (`Normal`, `Offer`, `Peer`, `Newkeys`, `Await`, and
`Refused`, `Dead` where it ends) says which messages are still to come before it, and `PeerOrder` the same for the peer. `Woken` says where
the reader stands after EAGAIN, from which `NothingHidden` follows. With `TrInv` every step moves the four
sequences of `Wire` as one of its actions does, or not at all; the proof goes through the steps one by one.

**Services.** The agent, scp and the public key subsystem talk over a stream whose pieces carry no request number, so that
what a piece belongs to follows from what both sides have done. The properties speak of the last result only; `AgentInv`,
`ScpInv` and `PkInv` list the combinations of the caller's state, the other side's state and the pieces under
way in both directions that can occur. For the agent (`UnderWay`, `Begun`) there is one transaction at a time, and
what is in the socket are the pieces of its request or of an answer to it. For scp (`RecvTalk`, `SendTalk`) each state of
`scp_recv()` and `scp_send()` knows which lines are still to come, and `RecvGot` what is in its buffer. For
the public key subsystem `Due` says what is still to be read of the responses: so many keys, which with those already taken
are the last of those the server told, then perhaps an unexpected response, then the status; all cut after a length or
not, as `receive_state` says. Nothing is under way between requests (`Resting`), unless the channel has ended. The conditions are rows of the table of further
differences: a signal leaves half of an answer in the agent's socket, unread stderr denies the end of scp's channel, and
a response in two packets or of an unknown name, two requests at once or a request cut by the window put responses and requests out of step. An
add whose write failed is `lost`, and waits for nothing.

**Known hosts.** `CheckMeans` is a fact about lists, with no state in it: a pass stops at the first entry with the key and remembers the
first with another, `PassFinds` says when it finds either (a set of numbers that is not empty has a least one, `HasLeast`, from
`NatLessThanWellFounded` of the library), and the cases of the two passes are those of `Meaning`. Needed of the state is only
that the collection is a list (`KhLists`). For the file, `FileInv` says that while it is read the
collection is the beginning of the one that was written and each line that is left is the line of an entry of its rest; and that
every entry is one its line gives back and does not refuse (`Kept`), which `NamedKept`, `Rsa1Kept` and `ForeignKept` show for the ordinary ones. The
other formats have their rows in the table of further differences.

**Key exchange and logins.** `KexInv` is one invariant for the four theorems. That the code searches as RFC 4253 says is a fact about
lists (`FirstIsBest`, `KexHostkey`, with `HasLeast`), for lists of any length; that the stages of `kex_agree_methods()` leave all of them
stored when the last is reached, one about its records. What remains is which KEXINIT was compared: `MethodsAgree` means the lists of the latest one (`SrvLists`), which depends on how many
the server has sent by now, so the invariant follows the packets. `FlowOK` says that every KEXINIT under way is one of the server's, with
its lists of that exchange, and that the first is there at most once; `Exchange` that the methods are those of
the KEXINIT that was taken; `Service` that the server begins a second exchange only after it was asked for the
service, which `session_startup()` does once the first exchange is over and nothing of it is left (`FirstDone`). `Progress` ties the states of
`session_startup()`, of the exchange and of the running call together: a login runs only in a session that is ready, and there the
keys are in place (`HasKeys`), also while they are being changed, so `Mail` holds for what waits for the server. Every step is
of one of a few classes (`Calm`, `Local`, `Begun`, `Over`, `Adds`), and for each class there is one lemma. `PasswordNotFreed` adds to it that the reply
is there in the states that look at it. `VerdictsAreTrue` adds `VerdictInv`. An answer to a login names no request, so the theorem rests on there never being two to
choose from, and four parts say why. `Truth`: an answer under way says what the server decided. `Owed`: of a request and its answers one packet is under way at most, on whichever of
the four lists (`One`), it belongs to the last request, and a function is waiting for it (`Owner`); an M60, which means three different things, is
owed only to a function that asks for it (`MayAsk`). `Alone`: that function is the only one under way, and has sent the last request. `Turns`: exchanges of keys
and answers do not overtake one another, because the server answers nothing between its KEXINIT and our NEWKEYS; so when an exchange fails half way and the
function that waited is made idle, the answer it waited for has not come and never will (`Stuck`), and the next function cannot take it. A password change that failed leaves its state behind
(`Half`), which waits for nothing. The code of a refusal that is no refusal is returned with no answer taken (`answer` 0), and then one of the excuses of
`TrueVerdict` holds: the connection is lost or an exchange has failed for good, or the server's question (`asked`) was about this very request. The steps of the login functions are of four kinds (`Quietly`, `Asks`, `Takes`, `Skips`), with one lemma each.
Of the three conditions each has its row in the table of further differences; for
`SecretsSealed` and `TrueVerdict`, `"retry"` is excluded because `KexInv` needs it (TLC finds no violation without it).

**SFTP.** The five properties need six layers, each on top of those before it. `Base` is about ids, in every mood: an id that was given out is that
of one chunk of one handle, of the one request of another kind, or a zombie, never of two (`Distinct`); and a request or an answer
under the id of a chunk is that chunk's own, with the bytes and the outcome that belong to it (`Matched`, `Fits`; `OpMatched` for the
other kinds). `sftp_packet_require()` compares ids only, so everything else rests on this. A request that is half sent is in no list of the server's, and
the next write finishes it, whoever makes it; `Mine` says that this is the request its caller takes it for: the first unsent chunk of the handle whose read or write
is to be repeated (`OfFile`), or the request of another kind that is under way (`OfOp`), which is where `~MixCalls` enters. `Wrote` follows the positions: the chunks of a file that is written
follow one another from the last acknowledged byte (`Chain`), each holds the bytes of its place, and `acked` is what was acknowledged and not reported, so
bytes that are passed again are not sent again; whatever is refused, the position goes back to where the application thinks it is. `Reads` says the same of
reading: what is in `buf`, in `data` and asked for is one run of bytes, and `offset` is the application's position plus what the running call has
taken. A call that got EAGAIN comes back with `read_state` set and skips the leftover bytes of its handle, so `Resume` says
that such a state belongs to the handle it will be called with, which is where `~MixHandles` enters. `Once`: a server that is not odd answers each request once, so an
answer that was taken does not come again. `Named` counts the names of a directory through the server's cursor, the one answer with names, and the list
the application has not seen. `Follows` says that in a file that is read the requests follow one another or all lie behind its end, after which `sftp_read()` cannot meet
an answer at an unexpected offset (`NeverBad`): it would take that answer and leave the chunk waiting. `Plain` then is the equation of `RepliesOwned` for every id
(`Even`), with what makes it inductive: no request is half sent, and nothing is garbled. Its steps are one lemma each: a chunk is sent, an answer received, an answer
taken, a list flushed, where answers that have come are dropped and the ids of those to come become zombies.
`Total`, the sum of a list, is an induction over data that the prover cannot do by the library's theorem; `SumsExist` does it with a least
counterexample (`HasLeast`), and from then on sums are compared step by step. `RepliesOwned` and `NeverReached` are violated without `~MixHandles`, `RepliesOwned` and `ListingInOrder` without `~MixCalls` (see the
table of further differences); the other theorems have `~MixCalls` from `Base`. For `ReadsAreFile` the condition `~MixHandles` comes from `Resume`, and TLC finds no violation without it.

**Python objects.** That nothing was misused so far says nothing of the next call. `PyInv` adds why:
an object that is alive holds the object it came from, up to the session and, once there is a connection,
the socket (`Referring`, `Connected`), so a parent is not deallocated first; and the structures behind
an object that is alive are allocated (`Backed`). The session is freed when all objects are gone
but what their unfinished calls left behind is not: `Paired` says that the channel of an SFTP is never
left without its SFTP structure, so that `libssh2_session_free()`, which frees the two together, frees each once.
`StepGone` is the one lemma that all cases of `Dealloc` cite. The condition on `PyHabits` cannot be
dropped: each habit has its row in the table of further differences. `OwnedInv`, for `NothingLeaks`, says the
converse of `Backed`: as long as the calls can finish and the connection lives, every structure that is allocated has an object
that is alive and will free it, its own or, for channels and listeners, the session, or is one of `Abandoned`; and only a channel that is no SFTP's is shut early,
so that the close of an SFTP's channel still frees it.

The proofs have one lemma per operator that several actions share (`SendCases`,
`AdjustTyped`, `ReadTyped`, ...), one step per action, and combine them with PTL.

Only model-checked: the liveness properties, the fairness of `Wire` with them (`Implements` is the safety part of the
refinement that the run `Transport` checks in full; fairness is out of the prover's reach); `AnswerIsOwn` in non-blocking mode with one request at a time; `PatientOwnsAll`; `NamedFile` (what a quoted path is read back as is an induction over
the path); `SealsAgree` and `SignaturesVerify` of `Login` (what both
ends hash and sign: further invariants over the same packets).

## 5. Not modelled, and the plan

* **Cryptography and compression** (`openssl.c`, `crypt.c`, `mac.c`, `comp.c`, `pem.c`, `bcrypt_pbkdf.c`,
  `blowfish.c`): computation without interaction. `Kex` and `Transport` treat them as functions of
  their inputs. The other back ends (`wincng.c`, `mbedtls.c`, `libgcrypt.c`, `os400qc3.c`) are not built by
  the package.
* **Parsing** of key files, SFTP attributes and packets: input and output of bytes; in the
  models a packet that does not parse is an outcome of the peer where the code has a branch for it.
* **Session**: `libssh2_poll()`, getters, callbacks and allocation failures.
* **Channel**: `exit-status`, `exit-signal`, `signal`, x11 channels of the peer and streamlocal forwarding.
* **Agent**: Pageant and the OpenSSH pipe of Windows.
* **Python**: conversion of arguments and of error codes; generated C.
* **Time**: a time limit may end any wait at any moment; how long is not modelled (`requirev_start` of
  `sftp.c` is shared by all requests of a session, and so measures from the wrong moment).

Next, in this order: `SealsAgree` of `Login` as a theorem; `ConfirmedIsOwned` on a socket that is never full; streamlocal forwarding in `Connection`.
