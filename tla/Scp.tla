-------------------------------- MODULE Scp --------------------------------
(***************************************************************************)
(* File transfer with scp (src/libssh2/src/scp.c): libssh2_scp_recv2() and *)
(* libssh2_scp_send64() open a channel, start the remote program, exchange *)
(* the header lines of the scp protocol and hand the channel over at the   *)
(* first byte of the file.                                                 *)
(*                                                                         *)
(* Both functions keep their state in the session and may be left with     *)
(* EAGAIN at every call of the channel layer; the next call goes on in the *)
(* same state.  A step of the client is one of these states; "would block" *)
(* is the step not being enabled yet.  A line of the protocol is two       *)
(* pieces, its first byte and the rest ("bad" where the rest does not      *)
(* parse); a path is a sequence of characters, since the quoting of the    *)
(* command is part of what is checked.                                     *)
(*                                                                         *)
(* The remote shell and the remote scp program are external.               *)
(***************************************************************************)
EXTENDS Integers, Sequences, SequencesExt

CONSTANTS
  ScpPaths,      \* the paths that are asked for: sequences of characters
  ScpStderr      \* TRUE: the remote program also writes to stderr

ASSUME ScpAssumption ==
  /\ \A p \in ScpPaths : Len(p) > 0
  /\ ScpStderr \in BOOLEAN

VARIABLES
  scp,       \* the client: scpRecv_* or scpSend_* of the session
  remote,    \* the remote program
  up,        \* pieces on their way to the remote program
  down       \* pieces on their way to the client, stdout of the channel

scpVars == <<scp, remote, up, down>>

Apostrophe == "'"
Bang == "!"
Quotation == "\""
Backslash == "\\"

ScpIdle == [st |-> "idle", dir |-> "none", times |-> FALSE, path |-> <<>>,
            chan |-> "none", cmd |-> FALSE, line |-> 0, got |-> {},
            ret |-> "none"]

RemoteNone == [st |-> "none", path |-> <<>>, times |-> FALSE, told |-> {},
               eof |-> FALSE, stderr |-> FALSE]

ScpInit ==
  /\ scp = ScpIdle
  /\ remote = RemoteNone
  /\ up = <<>>
  /\ down = <<>>

----------------------------------------------------------------------------
(* The quoting of the path                                                 *)

(* The state a character leaves: "u" unquoted, "s" in apostrophes, "q" in  *)
(* quotation marks.                                                        *)
QuoteState(c) == CASE c = Apostrophe -> "q" [] c = Bang -> "u" [] OTHER -> "s"

(* A bug: a quoted run is not ended before the escaped mark.               *)
BadQuoteLead(c) ==
  IF c = Bang THEN [u |-> <<Backslash>>, q |-> <<Backslash>>, s |-> <<Backslash>>]
              ELSE [u |-> <<Apostrophe>>, q |-> <<Quotation, Apostrophe>>,
                    s |-> <<>>]

(* What a character puts in front of itself in each of the states.         *)
QuoteLead(c) ==
  CASE c = Apostrophe -> [u |-> <<Quotation>>, q |-> <<>>,
                          s |-> <<Apostrophe, Quotation>>]
    [] c = Bang       -> [u |-> <<Backslash>>, q |-> <<Quotation, Backslash>>,
                          s |-> <<Apostrophe, Backslash>>]
    [] OTHER          -> [u |-> <<Apostrophe>>, q |-> <<Quotation, Apostrophe>>,
                          s |-> <<>>]

(* The quoted path, or nothing where it does not fit the buffer.           *)
ShellQuotearg(path, bufsize) ==
  LET state(i) == IF i = 0 THEN "u" ELSE QuoteState(path[i])
      out == FlattenSeq([i \in 1..Len(path) |->
                           QuoteLead(path[i])[state(i - 1)] \o <<path[i]>>])
             \o [u |-> <<>>, q |-> <<Quotation>>, s |-> <<Apostrophe>>][state(Len(path))]
  IN  IF Len(out) + 1 >= bufsize THEN <<>> ELSE out

(* The room there is for it: the buffer is _libssh2_shell_quotedsize()     *)
(* and the size of the command, of which the command takes all but the     *)
(* terminating zero.                                                       *)
CommandRoom(path) == (3 * Len(path) + 2) + 1

(* The shell's states: as above, "b" after a backslash, "x" in trouble (a  *)
(* mark that is not escaped is history to the C shell).                    *)
ShellNext(c) ==
  CASE c = Apostrophe -> [u |-> "s", s |-> "u", q |-> "q", b |-> "u", x |-> "x"]
    [] c = Quotation  -> [u |-> "q", s |-> "s", q |-> "u", b |-> "u", x |-> "x"]
    [] c = Backslash  -> [u |-> "b", s |-> "s", q |-> "b", b |-> "u", x |-> "x"]
    [] c = Bang       -> [u |-> "x", s |-> "x", q |-> "x", b |-> "u", x |-> "x"]
    [] OTHER          -> [u |-> "u", s |-> "s", q |-> "q", b |-> "u", x |-> "x"]

(* The word the shell passes to the remote program: the characters that    *)
(* change no state, and the escaped ones; <<>> where there is no word.     *)
ShellWord(command) ==
  LET st[i \in 0..Len(command)] ==
        IF i = 0 THEN "u" ELSE ShellNext(command[i])[st[i - 1]]
      kept(i) == st[i - 1] = "b" \/ st[i] = st[i - 1]
  IN  IF st[Len(command)] # "u" THEN <<>>
      ELSE FlattenSeq([i \in 1..Len(command) |->
                         IF kept(i) THEN <<command[i]>> ELSE <<>>])

----------------------------------------------------------------------------
(* Leaving the functions                                                   *)

(* scp_recv_error, scp_send_error: the channel is freed whatever it takes. *)
ScpError ==
  /\ scp' = [scp EXCEPT !.st = "idle", !.chan = "freed", !.cmd = FALSE,
                        !.ret = "null"]
  /\ UNCHANGED <<remote, up>>
  /\ down' = <<>>

(* scp_recv_empty_channel, scp_send_empty_channel: a read found the end.   *)
(* libssh2_channel_eof() denies it while stderr holds unread data, and the *)
(* channel is returned in the state the transfer is in.                    *)
ScpEmpty ==
  /\ remote.eof /\ down = <<>>
  /\ IF remote.stderr
     THEN /\ scp' = [scp EXCEPT !.ret = "channel"]
          /\ UNCHANGED <<remote, up, down>>
     ELSE ScpError

(* One byte is read: nothing to read is EAGAIN, the end an empty channel.  *)
ScpRead(Take(_)) ==
  \/ /\ down # <<>>
     /\ Take(Head(down))
  \/ ScpEmpty

(* Writing a line: it is sent whole, or an error or a short write ends the *)
(* transfer.                                                               *)
ScpWrite(piece, s) ==
  \/ /\ up' = Append(up, piece)
     /\ scp' = s
     /\ UNCHANGED <<remote, down>>
  \/ ScpError

----------------------------------------------------------------------------
(* The steps both directions begin with                                    *)

ScpStart(dir, path, times) ==
  /\ scp.st = "idle" /\ scp.ret = "none"
  /\ scp' = [scp EXCEPT !.st = "created", !.dir = dir, !.times = times,
                        !.path = path, !.cmd = TRUE]
  /\ UNCHANGED <<remote, up, down>>

ScpOpen ==
  /\ scp.st = "created"
  /\ \/ scp' = [scp EXCEPT !.st = "sent", !.chan = "open"]
     \/ scp' = [scp EXCEPT !.st = "idle", !.cmd = FALSE, !.ret = "null"]
  /\ UNCHANGED <<remote, up, down>>

ScpStartup ==
  /\ scp.st = "sent"
  /\ \/ /\ scp' = [scp EXCEPT !.st = "sent1", !.cmd = FALSE]
        /\ remote' = [remote EXCEPT
             !.st = "start", !.times = scp.times,
             !.path = ShellWord(ShellQuotearg(scp.path, CommandRoom(scp.path)))]
        /\ UNCHANGED <<up, down>>
     \/ ScpError

----------------------------------------------------------------------------
(* scp_recv()                                                              *)

(* A bug: the header is awaited before the wakeup is sent.                 *)
NoRecvWakeup ==
  /\ scp.st = "sent1" /\ scp.dir = "recv"
  /\ scp' = [scp EXCEPT !.line = 0,
                        !.st = IF scp.times THEN "sent2" ELSE "sent5"]
  /\ UNCHANGED <<remote, up, down>>

RecvWakeup ==
  /\ scp.st = "sent1" /\ scp.dir = "recv"
  /\ ScpWrite("0", [scp EXCEPT !.line = 0,
                               !.st = IF scp.times THEN "sent2" ELSE "sent5"])

(* A bug: the first byte of the line is not looked at.                     *)
AnyRecvByte(lead, rest, next, b) ==
  \/ /\ scp.line = 0
     /\ scp' = [scp EXCEPT !.line = 1]
     /\ down' = Tail(down)
     /\ UNCHANGED <<remote, up>>
  \/ /\ scp.line = 1
     /\ scp' = [scp EXCEPT !.line = 0, !.got = @ \cup {rest}, !.st = next]
     /\ down' = Tail(down)
     /\ UNCHANGED <<remote, up>>

(* A line that must begin with lead: any other first byte, and a rest that *)
(* does not parse, end the transfer; the whole line is acknowledged next.  *)
RecvByte(lead, rest, next, b) ==
  \/ /\ scp.line = 0 /\ b = lead
     /\ scp' = [scp EXCEPT !.line = 1]
     /\ down' = Tail(down)
     /\ UNCHANGED <<remote, up>>
  \/ /\ scp.line = 1 /\ b = rest
     /\ scp' = [scp EXCEPT !.line = 0, !.got = @ \cup {rest}, !.st = next]
     /\ down' = Tail(down)
     /\ UNCHANGED <<remote, up>>
  \/ /\ b # IF scp.line = 0 THEN lead ELSE rest
     /\ ScpError

RecvTimes ==
  /\ scp.st = "sent2" /\ scp.dir = "recv"
  /\ ScpRead(LAMBDA b : RecvByte("T", "times", "sent3", b))

RecvTimesAck ==
  /\ scp.st = "sent3" /\ scp.dir = "recv"
  /\ ScpWrite("0", [scp EXCEPT !.st = "sent5"])

RecvSize ==
  /\ scp.st = "sent5" /\ scp.dir = "recv"
  /\ ScpRead(LAMBDA b : RecvByte("C", "size", "sent6", b))

RecvSizeAck ==
  /\ scp.st = "sent6" /\ scp.dir = "recv"
  /\ ScpWrite("0", [scp EXCEPT !.st = "idle", !.ret = "channel"])

----------------------------------------------------------------------------
(* scp_send()                                                              *)

(* An acknowledgement is a zero; anything else is an error message.        *)
SendAck(next, b) ==
  IF b = "0" THEN /\ scp' = next
                  /\ down' = Tail(down)
                  /\ UNCHANGED <<remote, up>>
             ELSE ScpError

SendReady ==
  /\ scp.st = "sent1" /\ scp.dir = "send"
  /\ ScpRead(LAMBDA b : SendAck([scp EXCEPT
       !.st = IF scp.times THEN "sent2" ELSE "sent5"], b))

SendTimes ==
  /\ scp.st = "sent2" /\ scp.dir = "send"
  /\ ScpWrite("T", [scp EXCEPT !.st = "sent3"])

SendTimesAck ==
  /\ scp.st = "sent3" /\ scp.dir = "send"
  /\ ScpRead(LAMBDA b : SendAck([scp EXCEPT !.st = "sent5"], b))

SendSize ==
  /\ scp.st = "sent5" /\ scp.dir = "send"
  /\ ScpWrite("C", [scp EXCEPT !.st = "sent6"])

SendSizeAck ==
  /\ scp.st = "sent6" /\ scp.dir = "send"
  /\ ScpRead(LAMBDA b : SendAck([scp EXCEPT !.st = "idle", !.ret = "channel"], b))

----------------------------------------------------------------------------
(* The remote program: scp -f sends a file, scp -t takes one               *)

RemoteSays(pieces, r) ==
  /\ down' = IF scp.chan = "freed" THEN <<>> ELSE down \o pieces
  /\ remote' = r
  /\ UNCHANGED scp

(* It gives up: with a message on stdout, with one on stderr, or silently; *)
(* or it sends a line that does not parse.                                 *)
RemoteFails ==
  /\ remote.st \notin {"none", "dead", "data"}
  /\ UNCHANGED up
  /\ \/ RemoteSays(<<"1", "message">>, [remote EXCEPT !.st = "dead", !.eof = TRUE])
     \/ RemoteSays(<<>>, [remote EXCEPT !.st = "dead", !.eof = TRUE])
     \/ /\ ScpStderr
        /\ RemoteSays(<<>>, [remote EXCEPT !.st = "dead", !.eof = TRUE,
                                           !.stderr = TRUE])
     \/ /\ remote.st \in {"times", "size"}
        /\ RemoteSays(<<IF remote.st = "times" THEN "T" ELSE "C", "bad">>,
                      [remote EXCEPT !.st = "dead"])

(* It is handed a byte it waits for.                                       *)
RemoteTakes(piece, pieces, r) ==
  /\ up # <<>> /\ Head(up) = piece
  /\ up' = Tail(up)
  /\ RemoteSays(pieces, r)

RemoteSends ==
  /\ scp.dir = "recv"
  /\ \/ /\ remote.st = "start"
        /\ RemoteTakes("0", <<>>, [remote EXCEPT
             !.st = IF remote.times THEN "times" ELSE "size"])
     \/ /\ remote.st \in {"times", "size"}
        /\ UNCHANGED up
        /\ RemoteSays(IF remote.st = "times" THEN <<"T", "times">>
                                             ELSE <<"C", "size">>,
                      [remote EXCEPT !.st = IF @ = "times" THEN "timed" ELSE "sized",
                                     !.told = @ \cup {remote.st}])
     \/ /\ remote.st = "timed"
        /\ RemoteTakes("0", <<>>, [remote EXCEPT !.st = "size"])
     \/ /\ remote.st = "sized"
        /\ RemoteTakes("0", <<"data">>, [remote EXCEPT !.st = "data"])

RemoteReceives ==
  /\ scp.dir = "send"
  /\ \/ /\ remote.st = "start"
        /\ UNCHANGED up
        /\ RemoteSays(<<"0">>, [remote EXCEPT !.st = "header"])
     \/ /\ remote.st = "header"
        /\ \/ RemoteTakes("T", <<"0">>, [remote EXCEPT !.told = @ \cup {"times"}])
           \/ RemoteTakes("C", <<"0">>, [remote EXCEPT !.told = @ \cup {"size"},
                                                       !.st = "data"])

(* The channel is closed under a program that is still running.            *)
RemoteHangup ==
  /\ scp.chan = "freed" /\ remote.st \notin {"none", "dead"}
  /\ remote' = [remote EXCEPT !.st = "dead", !.eof = TRUE]
  /\ UNCHANGED <<scp, up, down>>

----------------------------------------------------------------------------
ScpStep ==
  \/ ScpOpen \/ ScpStartup
  \/ RecvWakeup \/ RecvTimes \/ RecvTimesAck \/ RecvSize \/ RecvSizeAck
  \/ SendReady \/ SendTimes \/ SendTimesAck \/ SendSize \/ SendSizeAck

(* What a healthy remote program does; failing is never owed.              *)
RemoteWorks == RemoteSends \/ RemoteReceives \/ RemoteHangup
RemoteStep == RemoteWorks \/ RemoteFails

ScpNext ==
  \/ \E dir \in {"recv", "send"}, p \in ScpPaths, t \in BOOLEAN : ScpStart(dir, p, t)
  \/ ScpStep
  \/ RemoteStep

ScpFairness == WF_scpVars(ScpStep) /\ WF_scpVars(RemoteWorks)

ScpSpec == ScpInit /\ [][ScpNext]_scpVars /\ ScpFairness

----------------------------------------------------------------------------
(* The remote program is started on the very file the caller names,        *)
(* whatever apostrophes and exclamation marks the name holds, and with a   *)
(* buffer of 3n + 3 bytes the quoted name always fits (scp.c:44-262).      *)
NamedFile == remote.st # "none" => remote.path = scp.path

(* A channel is handed to the caller exactly at the first byte of the      *)
(* file: every header line was taken and answered, nothing of the header   *)
(* is left in the channel in either direction, and what the caller asked   *)
(* about the file (or told about it) has arrived.                          *)
ChannelAtData ==
  scp.ret = "channel" =>
    /\ scp.st = "idle" /\ scp.chan = "open"
    /\ scp.dir = "recv" =>
         /\ scp.got = IF scp.times THEN {"times", "size"} ELSE {"size"}
         /\ scp.got \subseteq remote.told
         /\ down \in {<<>>, <<"data">>} \/ remote.st = "dead"
    /\ scp.dir = "send" =>
         /\ remote.told = IF scp.times THEN {"times", "size"} ELSE {"size"}
         /\ up = <<>> /\ down = <<>>

(* Setting up a transfer comes to an end: the two sides never both wait    *)
(* for the other's next line.                                              *)
SetupEnds == (scp.st # "idle") ~> (scp.ret # "none")
============================================================================
