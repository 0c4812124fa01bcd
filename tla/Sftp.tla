-------------------------------- MODULE Sftp --------------------------------
(***************************************************************************)
(* The SFTP client of libssh2 (sftp.c): many requests outstanding on one   *)
(* channel, answered in any order, and the calls that make them.           *)
(*                                                                         *)
(* Everything in a LIBSSH2_SFTP is shared by its handles: the counter of   *)
(* request ids, the replies received (packets), the ids whose reply nobody *)
(* wants any more (zombies), the states of reading and of writing, and one *)
(* state for every other kind of request.  A call that gets EAGAIN returns *)
(* and is entered again; the application may make another call first.     *)
(*                                                                         *)
(* The byte at offset o of the file of handle f is <<f, o>>, read or       *)
(* written: a byte that arrives somewhere else is seen.                    *)
(***************************************************************************)
EXTENDS Integers, Sequences, FiniteSets, SequencesExt

CONSTANTS
    Handles,      \* the files that are open
    Buffers,      \* the sizes of the application's buffers
    FileSize,     \* bytes in a file that is read
    Stream,       \* bytes the application writes
    MaxChunk,     \* MAX_SFTP_READ_SIZE and MAX_SFTP_OUTGOING_SIZE
    Entries,      \* names in a directory
    Scenes,       \* what the application does, see AllScenes
    MixHandles,   \* another handle is read, or moved, before a read that got EAGAIN is finished
    MixCalls,     \* another call sends, or a seek is made, while a request is half sent
    Moods,        \* "plain" servers and channels, "odd" servers, "tight" channels
    MaxRequests,  \* bounds: requests made of files
    MaxOthers,    \* requests made where other kinds are mixed with reading
    MaxSeeks      \* and changes of position

(* How each kind of request differs.  replies: the types it asks for; good: those that make
   it succeed, where a STATUS counts if it says FX_OK; version: the protocol it needs;
   short: a short write is an "error", or counts as EAGAIN and the packet is sent "again" from
   its first byte, or the "rest" is sent by the next call; timed: sftp_packet_requirev()
   waits, not longer than a minute. *)
Kind(replies, good, version, short) ==
    [replies |-> replies, good |-> good, version |-> version, short |-> short,
     timed |-> replies # {"STATUS"}]

Open == Kind({"HANDLE", "STATUS"}, {"HANDLE"}, 0, "rest")
Readdir == Kind({"NAME", "STATUS"}, {"NAME"}, 0, "error")
Fsync == Kind({"STATUS"}, {"STATUS"}, 0, "again")
Fstat == Kind({"ATTRS", "STATUS"}, {"ATTRS", "STATUS"}, 0, "error")
Unlink == Kind({"STATUS"}, {"STATUS"}, 0, "error")
Rename == Kind({"STATUS"}, {"STATUS"}, 2, "error")
Fstatvfs == Kind({"EXTENDED", "STATUS"}, {"EXTENDED"}, 0, "again")
Statvfs == Kind({"EXTENDED", "STATUS"}, {"EXTENDED"}, 0, "again")
Mkdir == Kind({"STATUS"}, {"STATUS"}, 0, "error")
Rmdir == Kind({"STATUS"}, {"STATUS"}, 0, "error")
Stat == Kind({"ATTRS", "STATUS"}, {"ATTRS", "STATUS"}, 0, "error")
Symlink == Kind({"NAME", "STATUS"}, {"NAME", "STATUS"}, 3, "error")
Realpath == Kind({"NAME", "STATUS"}, {"NAME", "STATUS"}, 0, "error")
CloseHandle == Kind({"STATUS"}, {"STATUS"}, 0, "error")

AllKinds == [open |-> Open, readdir |-> Readdir, fsync |-> Fsync, fstat |-> Fstat,
             unlink |-> Unlink, rename |-> Rename, fstatvfs |-> Fstatvfs,
             statvfs |-> Statvfs, mkdir |-> Mkdir, rmdir |-> Rmdir, stat |-> Stat,
             symlink |-> Symlink, realpath |-> Realpath, close |-> CloseHandle]

AllScenes == {"read", "write"} \cup DOMAIN AllKinds

AllMoods == {"plain", "odd", "tight"}

ASSUME SftpAssumption ==
    /\ MixHandles \in BOOLEAN /\ MixCalls \in BOOLEAN
    /\ Scenes \subseteq AllScenes /\ Moods \subseteq AllMoods
    /\ FileSize \in Nat /\ Stream \in Nat /\ Entries \in Nat
    /\ MaxChunk \in Nat \ {0} /\ Buffers \subseteq Nat \ {0}
    /\ MaxRequests \in Nat /\ MaxOthers \in Nat /\ MaxSeeks \in Nat
    /\ Handles \subseteq Nat \ {0} /\ 1 \in Handles

VARIABLES
    \* the LIBSSH2_SFTP
    request_id, packets, zombies, read_state, write_state, version,
    \* the state of sftp_init(), of the requests of other kinds, and the handles
    init_state, op, file,
    \* the running call: where it stands, its handle, its buffer, what it has read
    pc, at, size, buf,
    \* what the application knows: its position in each file, the entries it was given,
    \* the handle whose read or write got EAGAIN
    pos, listed, names, owed,
    \* the request the server has a part of, whether another followed it, the packet the
    \* transport has not got rid of, requests the server works on, what was written, how much
    \* of the directory it has listed
    half, garbled, stuck, pending, written, cursor,
    \* what this behaviour is about, and the changes of position made
    scene, mood, seeks

sftpVars == <<request_id, packets, zombies, read_state, write_state, version>>
stateVars == <<init_state, op, file>>
callVars == <<pc, at, size, buf>>
bookVars == <<pos, listed, names, seeks>>
appVars == <<bookVars, owed>>
wireVars == <<half, garbled, stuck, pending>>
serverVars == <<written, cursor>>
recvVars == <<packets, zombies, pending, serverVars>>
worldVars == <<scene, mood>>
vars == <<sftpVars, stateVars, callVars, appVars, wireVars, serverVars, worldVars>>

\* A chunk of a pipelined read or write: sent is 0, 1 (in part) or 2; from is where in the
\* file the bytes the application passed belong.
Chunk(id, offset, len, from) == [id |-> id, offset |-> offset, len |-> len, from |-> from, sent |-> 0]

Bytes(f, o, n) == [i \in 1..n |-> <<f, o + i - 1>>]
Total(list) ==
    LET sum[i \in 0..Len(list)] == IF i = 0 THEN 0 ELSE sum[i - 1] + list[i].len
    IN  sum[Len(list)]
Fresh == [open |-> TRUE, offset |-> 0, offset_sent |-> 0, acked |-> 0,
          data |-> <<>>, eof |-> FALSE, list |-> <<>>]
Limit == IF scene \in {"read", "write"} THEN MaxRequests ELSE MaxOthers
IdleOp == [state |-> "idle", id |-> 0, f |-> 0]

Min2(a, b) == IF a < b THEN a ELSE b
Max2(a, b) == IF a < b THEN b ELSE a

----------------------------------------------------------------------------
(* Sending: _libssh2_channel_write() of a request, or of the rest of one *)

WriteResults == {"all", "EAGAIN", "part"}

\* A packet that is made: all of the request (or of what was left of it), or, when the window
\* has no room for it, a part.
Packet(r, rest, whole) == [r |-> r, rest |-> rest, whole |-> whole]
Packets(r, rest) ==
    {Packet(r, rest, whole) : whole \in IF mood = "tight" /\ ~rest THEN BOOLEAN ELSE {TRUE}}

\* What the caller is told when it has gone out.
Told(t) == IF t.whole THEN "all" ELSE "part"

\* It reaches the server, which cannot make sense of what follows a request not finished.
Leaves(t) ==
    LET clash == half # 0 /\ ~(t.rest /\ half = t.r.id)
    IN  /\ pending' = IF ~t.whole \/ clash \/ garbled THEN pending ELSE pending \cup {t.r}
        /\ half' = IF t.whole THEN 0 ELSE t.r.id
        /\ garbled' = (garbled \/ clash)

\* EAGAIN: the window is closed, or the transport keeps the packet and sends the rest of it
\* when it is called again, whoever calls: "the caller must call this function again with the
\* SAME input arguments" (channel.c:2244).  Another request is then taken for sent.
Write(r, rest, rc) ==
    \/ /\ stuck = {} /\ UNCHANGED stuck
       /\ \E t \in Packets(r, rest) : rc = Told(t) /\ Leaves(t)
    \/ /\ rc = "EAGAIN" /\ UNCHANGED <<half, garbled, pending>>
       /\ \/ UNCHANGED stuck
          \/ stuck = {} /\ \E t \in Packets(r, rest) : stuck' = {t}
    \/ /\ rc # "EAGAIN" /\ stuck' = {}
       /\ \E t \in stuck : Leaves(t) /\ (t.r.id = r.id => rc = Told(t))

----------------------------------------------------------------------------
(* Receiving: sftp_packet_read(), sftp_packet_add(), sftp_packet_ask() *)

\* sftp_packet_add(): a late reply to a request that was given up is dropped.
PacketAdd(p) ==
    IF p.id \in zombies /\ p.type \in {"STATUS", "DATA"}
    THEN zombies' = zombies \ {p.id} /\ UNCHANGED packets
    ELSE packets' = packets \cup {p} /\ UNCHANGED zombies

----------------------------------------------------------------------------
(* The server answers in any order.  Its step is the moment the client reads the answer:  *)
(* until then the request is on its way, at work, or the answer is.                       *)

Reply(id, type, code, bytes, short) ==
    [id |-> id, type |-> type, code |-> code, bytes |-> bytes, short |-> short]

\* A read gets what there is; an odd server sends less, an answer cut short, or one that
\* claims to hold more bytes than it does or than were asked for.
ServeRead(r) ==
    LET n == Max2(Min2(r.len, FileSize - r.offset), 0)
        odd == mood = "odd" /\ scene = "read"
    IN  /\ r.kind = "read"
        /\ \/ \E k \in 1..n : /\ k = n \/ odd
                             /\ PacketAdd(Reply(r.id, "DATA", "OK", Bytes(r.f, r.offset, k), FALSE))
           \/ n = 0 /\ PacketAdd(Reply(r.id, "STATUS", "EOF", <<>>, FALSE))
           \/ odd /\ PacketAdd(Reply(r.id, "STATUS", "FAILURE", <<>>, FALSE))
           \/ odd /\ PacketAdd(Reply(r.id, "STATUS", "OK", <<>>, TRUE))
           \/ odd /\ PacketAdd(Reply(r.id, "DATA", "BAD", <<>>, FALSE))
        /\ UNCHANGED <<written, cursor>>

ServeWrite(r) ==
    /\ r.kind = "write"
    /\ \/ /\ written' = written \cup {<<r.f, r.offset + i, r.from + i>> : i \in 0..(r.len - 1)}
          /\ PacketAdd(Reply(r.id, "STATUS", "OK", <<>>, FALSE))
       \/ /\ mood = "odd"
          /\ \E short \in BOOLEAN : PacketAdd(Reply(r.id, "STATUS", "FAILURE", <<>>, short))
          /\ UNCHANGED written
    /\ UNCHANGED cursor

ServeDir(r) ==
    /\ r.kind = "readdir"
    /\ \/ \E k \in 1..(Entries - cursor) :
             /\ PacketAdd(Reply(r.id, "NAME", "OK", [i \in 1..k |-> cursor + i], FALSE))
             /\ cursor' = cursor + k
       \/ /\ cursor = Entries
          /\ PacketAdd(Reply(r.id, "STATUS", "EOF", <<>>, FALSE))
          /\ UNCHANGED cursor
    /\ UNCHANGED written

ServeOp(r) ==
    /\ r.kind \in DOMAIN AllKinds \ {"readdir"}
    /\ \/ \E t \in AllKinds[r.kind].good : PacketAdd(Reply(r.id, t, "OK", <<>>, FALSE))
       \/ PacketAdd(Reply(r.id, "STATUS", "FAILURE", <<>>, FALSE))
       \/ mood = "odd" /\ PacketAdd(Reply(r.id, "STATUS", "OK", <<>>, TRUE))
    /\ UNCHANGED <<written, cursor>>

\* Some servers say FX_OK to an open and send the HANDLE as a second answer.
ServeTwice(r) ==
    /\ r.kind = "open" /\ mood = "odd" /\ r.offset = 0
    /\ PacketAdd(Reply(r.id, "STATUS", "OK", <<>>, FALSE))
    /\ pending' = (pending \ {r}) \cup {[r EXCEPT !.offset = 1]}
    /\ UNCHANGED <<written, cursor>>

Serve(r) ==
    \/ /\ pending' = pending \ {r}
       /\ ServeRead(r) \/ ServeWrite(r) \/ ServeDir(r) \/ ServeOp(r)
    \/ ServeTwice(r)

\* sftp_packet_ask()
Answers(id, types) == {p \in packets : p.id = id /\ p.type \in types}

\* sftp_packet_read() takes the next answer from the channel, whatever it answers and
\* whoever began to read it: the partial packet is kept in the LIBSSH2_SFTP.
PacketRead == \E r \in pending : Serve(r)

\* or gets EAGAIN: nothing is there, or a part of a packet (packet_state
\* libssh2_NB_state_sent1), or it cannot open the window for it (libssh2_NB_state_sent).
PacketReadAgain == UNCHANGED recvVars

\* sftp_packet_require(), sftp_packet_requirev(): no answer yet, another packet is read
RequireMore(id, types) == Answers(id, types) = {} /\ PacketRead

\* Mutant: a request that was sent but not answered is forgotten.
PacketlistFlushForgets(list, ps) ==
    /\ packets' = {p \in ps : p.id \notin {c.id : c \in Range(list)}}
    /\ UNCHANGED zombies

\* sftp_packetlist_flush(): answers that have come are dropped, those to come are zombies.
PacketlistFlush(list, ps) ==
    LET came == {p \in ps : p.type \in {"STATUS", "DATA"} /\ \E c \in Range(list) : c.id = p.id}
        sent == {c.id : c \in {d \in Range(list) : d.sent > 0}}
    IN  /\ packets' = ps \ came
        /\ zombies' = zombies \cup (sent \ {p.id : p \in came})

Back == pc' = "app" /\ buf' = <<>> /\ at' = 1 /\ size' = 0
Return == Back /\ UNCHANGED owed
ReturnAgain == Back /\ owed' = at
Stay(where) == pc' = where /\ UNCHANGED <<at, size, buf, owed>>

\* The application finishes a read or a write that got EAGAIN before it starts another.
MayUse(f) == MixHandles \/ \A g \in Handles \ {f} : owed = g => ~file[g].open

\* A call whose request is half sent is made again before any other that sends.
MaySend(f, kind) == MixCalls \/ \A t \in stuck : t.r.f = f /\ t.r.kind = kind

----------------------------------------------------------------------------
(* sftp_read() *)

\* The requests that bring what is asked for to four times the buffer.
ReadAhead(f, b) == Max2(4 * b - (file[f].offset_sent - file[f].offset), 0)

Requests(count) == (count + MaxChunk - 1) \div MaxChunk

ReadChunks(f, b) ==
    LET count == ReadAhead(f, b)
        n == Requests(count)
        Size(i) == IF i < n THEN MaxChunk
                            ELSE Min2(Max2(count - (n - 1) * MaxChunk, b), MaxChunk)
    IN  [i \in 1..n |-> Chunk(request_id + i - 1, file[f].offset_sent + (i - 1) * MaxChunk, Size(i), 0)]

\* What did not fit into the buffer of an earlier call is returned before anything else.
ReadLeft(f, b) ==
    LET n == Min2(b, Len(file[f].data))
    IN  /\ file[f].data # <<>>
        /\ buf' = SubSeq(file[f].data, 1, n)
        /\ file' = [file EXCEPT ![f].data = SubSeq(@, n + 1, Len(@)), ![f].offset = @ + n]
        /\ pc' = "rreturn"
        /\ UNCHANGED request_id

ReadBuild(f, b) ==
    LET new == ReadChunks(f, b)
    IN  /\ file[f].data = <<>> /\ ~file[f].eof
        /\ request_id + Len(new) <= Limit + 1
        /\ request_id' = request_id + Len(new)
        /\ file' = [file EXCEPT ![f].list = @ \o new, ![f].offset_sent = @ + Total(new)]
        /\ pc' = "rsend"
        /\ buf' = <<>>

CallRead(f, b) ==
    /\ pc = "app" /\ init_state = "up" /\ scene # "write" /\ file[f].open
    /\ MayUse(f) /\ MaySend(f, "read")
    /\ at' = f /\ size' = b /\ owed' = 0
    /\ read_state' = "idle"
    /\ \/ read_state = "idle" /\ ReadLeft(f, b)
       \/ read_state = "idle" /\ ReadBuild(f, b)
       \/ /\ read_state = "sent" /\ pc' = "rsend"
          /\ buf' = <<>> /\ UNCHANGED <<file, request_id>>
       \/ /\ read_state = "sent2" /\ pc' = "rrecv"
          /\ buf' = <<>> /\ UNCHANGED <<file, request_id>>
    /\ UNCHANGED <<packets, zombies, write_state, version, init_state, op,
                   pos, listed, names, seeks, wireVars, serverVars, worldVars>>

\* The first request of a list is sent: its answer may be waited for.
Ready(list) == list # <<>> /\ list[1].sent = 2
Unsent(list) == {i \in DOMAIN list : list[i].sent < 2}
NextUnsent(list) == CHOOSE i \in Unsent(list) : \A j \in Unsent(list) : i <= j
Request(kind, f, c) == [id |-> c.id, kind |-> kind, f |-> f, offset |-> c.offset,
                        len |-> c.len, from |-> c.from]

ReadSend ==
    LET list == file[at].list
        i == NextUnsent(list)
    IN  /\ pc = "rsend"
        /\ \/ /\ Unsent(list) = {}
              /\ Stay("rrecv")
              /\ UNCHANGED <<file, read_state, wireVars>>
           \/ /\ Unsent(list) # {}
              /\ \E rc \in WriteResults :
                    /\ Write(Request("read", at, list[i]), list[i].sent = 1, rc)
                    /\ \/ /\ rc = "EAGAIN" /\ ReturnAgain
                          /\ read_state' = "sent"
                          /\ UNCHANGED file
                       \/ /\ rc = "all" /\ Stay("rsend")
                          /\ file' = [file EXCEPT ![at].list[i].sent = 2]
                          /\ UNCHANGED read_state
                       \/ /\ rc = "part" /\ Stay(IF i = 1 THEN "rsend" ELSE "rrecv")
                          /\ file' = [file EXCEPT ![at].list[i].sent = 1]
                          /\ UNCHANGED read_state
        /\ UNCHANGED <<request_id, packets, zombies, write_state, version,
                       init_state, op, bookVars, serverVars, worldVars>>

\* A DATA reply to the first request of the list.
\* Mutant: the place in the file is not compared.
ReadDataAnywhere(c, p) ==
    LET n == Min2(Len(p.bytes), size - Len(buf))
    IN  /\ file' = [file EXCEPT ![at].offset_sent = @ - (c.len - Len(p.bytes)),
                                ![at].offset = @ + n, ![at].list = Tail(@),
                                ![at].data = SubSeq(p.bytes, n + 1, Len(p.bytes))]
        /\ buf' = buf \o SubSeq(p.bytes, 1, n)
        /\ pc' = IF Len(buf) + n < size THEN "rrecv" ELSE "rreturn"

ReadData(c, p) ==
    LET n == Min2(Len(p.bytes), size - Len(buf))
    IN  \/ /\ \/ c.offset # file[at].offset  \* "Read Packet At Unexpected Offset"
              \/ p.code = "BAD"              \* "SFTP Protocol badness", "response too big"
           /\ pc' = "error" /\ UNCHANGED <<buf, file>>
        \/ /\ c.offset = file[at].offset /\ p.code # "BAD"
           /\ file' = [file EXCEPT ![at].offset_sent = @ - (c.len - Len(p.bytes)),
                                   ![at].offset = @ + n, ![at].list = Tail(@),
                                   ![at].data = SubSeq(p.bytes, n + 1, Len(p.bytes))]
           /\ buf' = buf \o SubSeq(p.bytes, 1, n)
           /\ pc' = IF Len(buf) + n < size THEN "rrecv" ELSE "rreturn"

\* A STATUS reply: the end of the file or an error, and all other requests are given up.
ReadStatus(c, p) ==
    /\ PacketlistFlush(Tail(file[at].list), packets \ {p})
    /\ file' = [file EXCEPT ![at].list = <<>>, ![at].eof = @ \/ p.code = "EOF"]
    /\ pc' = IF p.code = "EOF" THEN "rreturn" ELSE "error"
    /\ UNCHANGED buf

\* Nothing more is to be had: what there is is returned.  The code says of the other case
\* "we should never reach this point".
ReadEnd == pc' = (IF buf = <<>> THEN "fault" ELSE "rreturn") /\ UNCHANGED buf

ReadRecv ==
    LET list == file[at].list
        came == Answers(list[1].id, {"DATA", "STATUS"})
    IN  /\ pc = "rrecv"
        /\ \/ /\ ~Ready(list)
              /\ ReadEnd
              /\ UNCHANGED <<recvVars, read_state, file, at, size, owed>>
           \/ /\ Ready(list)
              /\ \/ /\ RequireMore(list[1].id, {"DATA", "STATUS"})
                    /\ UNCHANGED <<file, callVars, read_state, owed>>
                 \/ /\ came = {} /\ PacketReadAgain
                    /\ \/ buf # <<>> /\ Stay("rreturn") /\ UNCHANGED read_state
                       \/ buf = <<>> /\ ReturnAgain /\ read_state' = "sent2"
                    /\ UNCHANGED file
                 \/ \E p \in came :
                       /\ \/ /\ p.short        \* "Response too small"
                             /\ pc' = "error"
                             /\ packets' = packets \ {p} /\ UNCHANGED <<zombies, file, buf>>
                          \/ /\ ~p.short /\ p.type = "DATA" /\ ReadData(list[1], p)
                             /\ packets' = packets \ {p} /\ UNCHANGED zombies
                          \/ ~p.short /\ p.type = "STATUS" /\ ReadStatus(list[1], p)
                       /\ UNCHANGED <<read_state, pending, serverVars, at, size, owed>>
        /\ UNCHANGED <<request_id, write_state, version, init_state, op, bookVars, half, garbled,
                       stuck, worldVars>>

\* The application takes what it got; after an error it asks where it is, with
\* libssh2_sftp_tell64().
Tell(f) == file[f].offset

ReadReturn ==
    /\ pc \in {"rreturn", "error", "fault"}
    /\ pos' = [pos EXCEPT ![at] = IF pc = "rreturn" THEN @ + Len(buf) ELSE Tell(at)]
    /\ Return
    /\ UNCHANGED <<sftpVars, stateVars, listed, names, seeks, wireVars, serverVars, worldVars>>

----------------------------------------------------------------------------
(* sftp_write() *)

\* Mutant: what is acknowledged but not reported yet is written again.
AlreadyUnacked(f) == file[f].offset_sent - file[f].offset

\* Bytes of the application's buffer that are requests already or were acknowledged.
Already(f) == file[f].offset_sent - file[f].offset + file[f].acked

WriteChunks(f, n) ==
    LET count == Max2(n - Already(f), 0)
        k == Requests(count)
        Size(i) == Min2(MaxChunk, count - (i - 1) * MaxChunk)
    IN  [i \in 1..k |-> Chunk(request_id + i - 1, file[f].offset_sent + (i - 1) * MaxChunk,
                              Size(i), pos[f] + Already(f) + (i - 1) * MaxChunk)]

CallWrite(f, n) ==
    LET new == WriteChunks(f, n)
    IN  /\ pc = "app" /\ init_state = "up" /\ scene = "write" /\ file[f].open
        /\ pos[f] + n <= Stream
        /\ MayUse(f) /\ MaySend(f, "write")
        /\ at' = f /\ size' = n /\ owed' = 0
        /\ write_state' = "idle"
        /\ \/ /\ write_state = "idle"
              /\ request_id + Len(new) <= Limit + 1
              /\ request_id' = request_id + Len(new)
              /\ file' = [file EXCEPT ![f].list = @ \o new, ![f].offset_sent = @ + Total(new)]
              /\ pc' = "wsend"
           \/ /\ write_state = "sent"
              /\ pc' = "wack"
              /\ UNCHANGED <<request_id, file>>
        /\ UNCHANGED <<packets, zombies, read_state, version, init_state, op, buf,
                       bookVars, wireVars, serverVars, worldVars>>

WriteSend ==
    LET list == file[at].list
        i == NextUnsent(list)
    IN  /\ pc = "wsend"
        /\ \/ Unsent(list) = {} /\ Stay("wack") /\ UNCHANGED <<file, wireVars>>
           \/ /\ Unsent(list) # {}
              /\ \E rc \in WriteResults :
                    /\ Write(Request("write", at, list[i]), list[i].sent = 1, rc)
                    /\ \/ rc = "EAGAIN" /\ ReturnAgain /\ UNCHANGED file
                       \/ /\ rc = "all" /\ Stay("wsend")
                          /\ file' = [file EXCEPT ![at].list[i].sent = 2]
                       \/ /\ rc = "part" /\ Stay("wack")
                          /\ file' = [file EXCEPT ![at].list[i].sent = 1]
        /\ UNCHANGED <<sftpVars, init_state, op, bookVars, serverVars, worldVars>>

\* acked bytes are reported, but not more than this call was about.
Report(acked, list, offset) ==
    LET ret == Min2(acked, size)
    IN  /\ file' = [file EXCEPT ![at].acked = acked - ret, ![at].list = list, ![at].offset = offset]
        /\ pos' = [pos EXCEPT ![at] = @ + ret]
        /\ Return

\* The server refused a chunk: the rest is given up.
WriteFail(p) ==
    LET back == file[at].offset - file[at].acked
    IN  /\ PacketlistFlush(file[at].list, packets \ {p})
        /\ file' = [file EXCEPT ![at].list = <<>>, ![at].offset = back,
                                ![at].offset_sent = back, ![at].acked = 0]
        /\ Return /\ UNCHANGED pos

WriteAck ==
    LET list == file[at].list
        c == list[1]
        came == Answers(c.id, {"STATUS"})
    IN  /\ pc = "wack"
        /\ \/ /\ ~Ready(list)
              /\ Report(file[at].acked, list, file[at].offset)
              /\ UNCHANGED <<recvVars, write_state>>
           \/ /\ Ready(list)
              /\ \/ /\ RequireMore(c.id, {"STATUS"}) /\ Stay("wack")
                    /\ UNCHANGED <<write_state, file, pos>>
                 \/ /\ came = {} /\ PacketReadAgain /\ ReturnAgain
                    /\ write_state' = "sent"
                    /\ UNCHANGED <<file, pos>>
                 \/ \E p \in came :
                       /\ \/ /\ p.short /\ packets' = packets \ {p}
                             /\ Return /\ UNCHANGED <<zombies, file, pos>>
                          \/ /\ ~p.short /\ p.code = "OK" /\ packets' = packets \ {p}
                             /\ Report(file[at].acked + c.len, Tail(list), file[at].offset + c.len)
                             /\ UNCHANGED zombies
                          \/ ~p.short /\ p.code # "OK" /\ WriteFail(p)
                       /\ UNCHANGED <<write_state, pending, serverVars>>
        /\ UNCHANGED <<request_id, read_state, version, init_state, op, listed, names, seeks,
                       half, garbled, stuck, worldVars>>

----------------------------------------------------------------------------
(* libssh2_sftp_seek64().  The manual says "You MUST NOT seek during writing or reading a  *)
(* file with SFTP, as the internals use outstanding packets" (libssh2_sftp_seek64.3:23):   *)
(* so not while data that was written is on its way, nor while a call got EAGAIN.  Between *)
(* two reads packets are outstanding too, the read-ahead, and seeking is what the call is  *)
(* for: the code gives them up, and the model lets it.                                     *)

Seek(f, o) ==
    /\ pc = "app" /\ init_state = "up" /\ file[f].open /\ seeks < MaxSeeks
    /\ scene \in {"read", "write"} /\ (owed = 0 \/ MixHandles)
    /\ MixCalls \/ \A t \in stuck : t.r.kind = "close"
    /\ scene = "write" => file[f].list = <<>> /\ file[f].acked = 0
    /\ file[f].offset # o \/ file[f].offset_sent # o
    /\ PacketlistFlush(file[f].list, packets)
    /\ file' = [file EXCEPT ![f].offset = o, ![f].offset_sent = o, ![f].list = <<>>,
                            ![f].data = <<>>, ![f].eof = FALSE]
    /\ pos' = [pos EXCEPT ![f] = o]
    /\ seeks' = seeks + 1
    /\ UNCHANGED <<request_id, read_state, write_state, version, init_state, op,
                   callVars, listed, names, owed, wireVars, serverVars, worldVars>>

----------------------------------------------------------------------------
(* Requests of the other kinds, and closing a handle *)

OpKind == IF scene \in {"read", "write"} THEN "close" ELSE scene
K == AllKinds[OpKind]

\* Entering the function: the packet is built, or an earlier call is continued.
CallOp(f) ==
    /\ pc = "app" /\ init_state = "up" /\ file[f].open
    /\ K.version <= version /\ MaySend(f, OpKind)
    /\ OpKind = "readdir" => names = <<>>
    /\ buf' = <<>> /\ at' = f /\ UNCHANGED size
    /\ \/ /\ op.state = "idle"
          /\ request_id <= Limit
          /\ op' = [state |-> "created", id |-> request_id, f |-> f]
          /\ request_id' = request_id + 1
          /\ pc' = "osend"
       \/ /\ op.state # "idle" /\ op.f = f
          /\ pc' = IF op.state = "created" THEN "osend" ELSE "owait"
          /\ UNCHANGED <<op, request_id>>
    /\ UNCHANGED <<packets, zombies, read_state, write_state, version, init_state,
                   file, appVars, wireVars, serverVars, worldVars>>

\* What sftp_close_handle() does in the end, whatever the server answered.
\* Mutant: the state of reading survives the handle.
DropHandleOnly(f, ps) ==
    /\ PacketlistFlush(file[f].list, ps)
    /\ file' = [file EXCEPT ![f].open = FALSE, ![f].list = <<>>, ![f].data = <<>>]
    /\ UNCHANGED read_state

Drop(f, ps) ==
    /\ PacketlistFlush(file[f].list, ps)
    /\ file' = [file EXCEPT ![f].open = FALSE, ![f].list = <<>>, ![f].data = <<>>]
    /\ read_state' = "idle"

\* open_packet_sent is not zero: a part of the packet of an open has left.
OpRest == K.short = "rest" /\ half = op.id

OpSend ==
    /\ pc = "osend"
    /\ \E rc \in WriteResults :
          /\ Write([id |-> op.id, kind |-> OpKind, f |-> at, offset |-> 0, len |-> 0, from |-> 0],
                   OpRest, rc)
          /\ \/ /\ rc = "all" /\ Stay("owait")
                /\ op' = [op EXCEPT !.state = "sent"]
                /\ UNCHANGED <<packets, zombies, file, read_state>>
             \/ /\ rc = "EAGAIN" \/ (rc = "part" /\ K.short # "error")
                /\ Return
                /\ UNCHANGED <<op, packets, zombies, file, read_state>>
             \/ /\ rc = "part" /\ K.short = "error" /\ Return
                /\ op' = IdleOp
                /\ IF OpKind = "close" THEN Drop(at, packets)
                   ELSE UNCHANGED <<packets, zombies, file, read_state>>
    /\ UNCHANGED <<request_id, write_state, version, init_state, bookVars,
                   serverVars, worldVars>>

\* The reply is there.  One that is too short leaves the state as it is (not that of an
\* open); a STATUS that says FX_OK to an open is followed by the HANDLE.
OpAnswer(p) ==
    \/ /\ OpKind = "close"
       /\ Drop(at, packets \ {p}) /\ op' = IdleOp
       /\ Return /\ UNCHANGED names
    \/ /\ OpKind # "close"
       /\ packets' = packets \ {p}
       /\ \/ /\ p.short /\ Return /\ UNCHANGED names
             /\ op' = IF OpKind = "open" THEN IdleOp ELSE op
          \/ /\ ~p.short /\ OpKind = "open" /\ p.code = "OK" /\ p.type = "STATUS"
             /\ Stay("owait") /\ UNCHANGED <<op, names>>
          \/ /\ ~p.short /\ ~(OpKind = "open" /\ p.code = "OK" /\ p.type = "STATUS")
             /\ op' = IdleOp /\ Return
             /\ names' = IF OpKind = "readdir" THEN p.bytes ELSE names
       /\ UNCHANGED <<zombies, file, read_state>>

OpWait ==
    LET came == Answers(op.id, K.replies)
    IN  /\ pc = "owait"
        /\ \/ /\ RequireMore(op.id, K.replies) /\ Stay("owait")
              /\ UNCHANGED <<op, names, file, read_state>>
           \/ /\ came = {} /\ PacketReadAgain /\ Return
              /\ UNCHANGED <<op, names, file, read_state>>
           \/ /\ came = {} /\ K.timed /\ mood = "odd"     \* LIBSSH2_READ_TIMEOUT has passed
              /\ op' = IdleOp /\ Return
              /\ UNCHANGED <<recvVars, names, file, read_state>>
           \/ /\ \E p \in came : OpAnswer(p)
              /\ UNCHANGED <<pending, serverVars>>
        /\ UNCHANGED <<request_id, write_state, version, init_state, pos, listed, seeks,
                       half, garbled, stuck, worldVars>>

\* Mutant: a name that does not fit into the buffer is gone.
ReaddirPopSkips ==
    /\ pc = "app" /\ init_state = "up" /\ names # <<>> /\ op.state = "idle"
    /\ listed' \in {listed, names[1]}
    /\ names' = Tail(names)
    /\ UNCHANGED <<sftpVars, stateVars, callVars, pos, seeks, owed, wireVars, serverVars, worldVars>>

\* sftp_readdir() hands out a name it has; one that does not fit into the buffer stays.
ReaddirPop ==
    /\ pc = "app" /\ init_state = "up" /\ names # <<>> /\ op.state = "idle"
    /\ listed' = names[1]
    /\ names' = Tail(names)
    /\ UNCHANGED <<sftpVars, stateVars, callVars, pos, seeks, owed, wireVars, serverVars, worldVars>>

----------------------------------------------------------------------------
(* sftp_init() and sftp_shutdown() *)

InitOrder == <<"idle", "created", "sent", "sent1", "sent2", "sent3", "up">>

\* SSH_FXP_VERSION: ours is 3.
SftpVersion(v) == Min2(v, 3)

\* A step of sftp_init() succeeds: the channel is open, the subsystem runs, its stderr is
\* ignored, SSH_FXP_INIT is sent, SSH_FXP_VERSION has come.
SftpInit ==
    /\ init_state \in Range(InitOrder) \ {"up"}
    /\ \E i \in 1..6 : InitOrder[i] = init_state /\ init_state' = InitOrder[i + 1]
    /\ IF init_state = "sent3" THEN \E v \in {1, 6} : version' = SftpVersion(v) ELSE UNCHANGED version
    /\ UNCHANGED <<request_id, packets, zombies, read_state, write_state, op, file,
                   callVars, appVars, wireVars, serverVars, worldVars>>

\* It fails: everything is freed and the next call starts again.
SftpInitError ==
    /\ init_state \in Range(InitOrder) \ {"idle", "up"}
    /\ init_state' = "idle"
    /\ UNCHANGED <<sftpVars, op, file, callVars, appVars, wireVars, serverVars, worldVars>>

\* The packets of all states, the replies and the zombies go; the handles do not.
Shutdown ==
    /\ pc = "app" /\ init_state = "up"
    /\ init_state' = "down"
    /\ packets' = {} /\ zombies' = {} /\ op' = IdleOp
    /\ UNCHANGED <<request_id, read_state, write_state, version, file, callVars,
                   appVars, wireVars, serverVars, worldVars>>

----------------------------------------------------------------------------
Init ==
    /\ scene \in Scenes /\ mood \in Moods
    /\ request_id = 1 /\ packets = {} /\ zombies = {} /\ version = 0
    /\ read_state = "idle" /\ write_state = "idle"
    /\ init_state = "idle" /\ op = IdleOp
    /\ file = [f \in Handles |-> [Fresh EXCEPT !.open = f = 1 \/ (scene = "read" /\ mood # "odd")]]
    /\ pc = "app" /\ at = 1 /\ size = 0 /\ buf = <<>>
    /\ pos = [f \in Handles |-> 0] /\ listed = 0 /\ names = <<>> /\ seeks = 0 /\ owed = 0
    /\ half = 0 /\ garbled = FALSE /\ stuck = {} /\ pending = {} /\ written = {} /\ cursor = 0

ReadSome(f) == \E b \in IF scene = "read" THEN Buffers ELSE {1} : CallRead(f, b)
Step == ReadSend \/ ReadRecv \/ ReadReturn \/ WriteSend \/ WriteAck \/ OpSend \/ OpWait

Next ==
    \/ \E f \in Handles : ReadSome(f)
    \/ \E f \in Handles, n \in Buffers : CallWrite(f, n)
    \/ \E f \in Handles, o \in {0, 1} : Seek(f, o)
    \/ \E f \in Handles : CallOp(f)
    \/ ReadSend \/ ReadRecv \/ ReadReturn \/ WriteSend \/ WriteAck \/ OpSend \/ OpWait
    \/ ReaddirPop \/ SftpInit \/ SftpInitError \/ Shutdown

Spec == Init /\ [][Next]_vars

----------------------------------------------------------------------------
\* What libssh2_sftp_read() puts into the buffer are the bytes of that file that follow the
\* position of the application, in order, though requests are pipelined, answers come in any
\* order, short or as EOF, a buffer is smaller than an answer, and a seek or a close gives
\* requests up. And the library and the application agree on the position in every file, with
\* what was acknowledged and not reported yet; what was asked for is on its way or kept.
ReadsAreFile ==
    /\ buf = Bytes(at, pos[at], Len(buf))
    /\ \A f \in Handles : file[f].open =>
        /\ pc \notin {"rrecv", "rreturn", "error"} => file[f].offset = pos[f] + file[f].acked
        /\ mood = "plain" /\ ~file[f].eof =>
               file[f].offset_sent = file[f].offset + Len(file[f].data) + Total(file[f].list)

Waiting ==
    {c.id : c \in {d \in UNION {Range(file[f].list) : f \in Handles} : d.sent = 2}}
    \cup (IF op.state = "sent" THEN {op.id} ELSE {}) \cup zombies

OnTheWay == {r.id : r \in pending} \cup {p.id : p \in packets}

\* Whoever waits for an answer can still get it, and no answer is kept that nobody wants:
\* the requests chunks, calls and zombies stand for are those the server has or has answered.
\* (Of servers that answer as expected, on a channel that takes whole packets, though not
\* always at once.  With MixCalls it fails: a close made while a read's request is half sent
\* finishes that request, thinks it was its own, and frees a chunk that was never marked.)
RepliesOwned == mood = "plain" /\ init_state = "up" => Waiting = OnTheWay

\* A byte is written where it belongs, whatever sizes the application passes from call to
\* call and whatever the server refuses, and what libssh2_sftp_write() reported as written is
\* in the file.
WritesLand ==
    /\ \A w \in written : w[2] = w[3]
    /\ scene = "write" /\ seeks = 0 =>
        \A f \in Handles : \A o \in 0..(pos[f] - 1) : <<f, o, o>> \in written

\* libssh2_sftp_readdir() hands out every entry once and in the server's order.
ListingInOrder == mood # "odd" /\ names # <<>> => names[1] = listed + 1

\* sftp_read() does not come to the places its comments say are never reached (unless a
\* server fails a read: the position of the next request is not taken back then).
NeverReached == mood # "odd" => pc # "fault"
=============================================================================
