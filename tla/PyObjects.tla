----------------------------- MODULE PyObjects -----------------------------
(***************************************************************************)
(* The life times of the Python objects of src/ssh2 and of the C           *)
(* structures behind them.  A Python object holds one pointer to a C       *)
(* structure and one reference to the object it was made from: a Channel,  *)
(* an SFTP, a Listener, a PublicKeySystem and an Agent to their Session, an *)
(* SFTPHandle to its SFTP, a Session to its socket.  It is deallocated when *)
(* nobody refers to it, and its __dealloc__ then calls libssh2 once and    *)
(* drops the pointer, whatever the call returned.                          *)
(*                                                                         *)
(* libssh2 frees on its own account as well: libssh2_session_free() frees  *)
(* every channel and listener of the session, and an SFTP's structure goes *)
(* with the close of its channel (libssh2_sftp_dtor).  A C structure is    *)
(* named by its type and the Python object it was made for.                *)
(*                                                                         *)
(* Deallocations cascade, each a step of its own: libssh2 runs without the *)
(* interpreter's lock, so other threads may use their objects in between.  *)
(***************************************************************************)
EXTENDS Integers, FiniteSets

CONSTANTS
  PyKinds,   \* the objects the application makes
  PyHabits,  \* what it does that the package does not survive: "channel_of"
             \* calls SFTP.get_channel(), "shutdown" PublicKeySystem.shutdown(),
             \* "startup" Session.startup(), "late" uses a closed SFTPHandle
             \* or a cancelled Listener, "keys" keeps a PublicKey of an agent,
             \* "cycle" leaves its objects to the cycle collector
  PyMax      \* bound on the objects it makes besides socket and session

ASSUME PyAssumption ==
  /\ PyKinds \subseteq {"channel", "sftp", "handle", "listener", "publickey", "agent"}
  /\ PyHabits \subseteq {"channel_of", "shutdown", "startup", "late", "keys", "cycle"}
  /\ PyMax \in Nat

Sock == 0
Ses == 1
PyIds == 0..PyMax + 1
NoObj == -1

VARIABLES
  obj,        \* the Python objects
  live,       \* the C structures that are allocated
  shut,       \* the channels whose local.close is set
  collecting, \* the cycle collector has found the application's objects
  mode,       \* "patient": blocking without a time limit, or "hasty"
  link,       \* the connection: "new", "up" or "lost"
  misused     \* C structures used or freed after they were freed

pyVars == <<obj, live, shut, collecting, mode, link, misused>>

(* c: the number of the C structure, of: that of the SFTP of a handle.      *)
PyObject(kind, parent, c, of) ==
  [kind |-> kind, st |-> "alive", parent |-> parent, c |-> c, of |-> of,
   held |-> TRUE, closed |-> FALSE]
NotMade == [PyObject("none", NoObj, NoObj, NoObj) EXCEPT !.st = "none", !.held = FALSE]

Alive(o) == obj[o].st = "alive"
Held(o, kind) == Alive(o) /\ obj[o].kind = kind /\ obj[o].held /\ ~collecting
(* The next object to make, if there may be one more.                      *)
Unmade == {o \in PyIds : obj[o].st = "none" /\ \A p \in 0..o - 1 : obj[p].st # "none"}
Unreferenced(o) ==
  Alive(o) /\ ~obj[o].held /\ \A p \in PyIds : Alive(p) => obj[p].parent # o

----------------------------------------------------------------------------
(* libssh2, as far as it allocates and frees                               *)

Session1 == <<"session", Ses>>
FdInUse == IF link = "up" THEN {<<"fd", Sock>>} ELSE {}
Of(kind) == {x \in live : x[1] = kind}
Dangling(S) == misused' = misused \cup (S \ live)
Frees(F, S) == live' = live \ F /\ Dangling(F \cup S)

(* What a call through the pointer of an object reads.                     *)
Reads(o) ==
  LET kind == obj[o].kind  c == obj[o].c  of == obj[o].of
  IN IF kind = "key" THEN {<<"identity", c>>}
     ELSE {<<kind, c>>, Session1}
          \cup (IF kind \in {"sftp", "publickey"} THEN {<<"channel", c>>} ELSE {})
          \cup (IF kind = "handle" THEN {<<"sftp", of>>, <<"channel", of>>} ELSE {})
          \cup (IF kind = "agent" THEN {} ELSE FdInUse)

(* A mutant: libssh2_sftp_dtor() is not installed.                          *)
CloseFreesNone(n) == {}

(* _libssh2_channel_close() calls libssh2_sftp_dtor() for the channel of an *)
(* SFTP, once and only while there is a connection to close it on.         *)
CloseFrees(n) ==
  IF link = "up" /\ n \notin shut /\ obj[n].kind = "sftp" THEN {<<"sftp", n>>} ELSE {}

ChannelFrees(n) == {<<"channel", n>>} \cup CloseFrees(n)

(* libssh2_session_free(): the channels, the listeners, the rest.          *)
SessionFrees(channels) == UNION {ChannelFrees(x[2]) : x \in channels}

(* The call of libssh2 in __dealloc__, when it runs to its end.            *)
DeallocFrees(o) ==
  LET kind == obj[o].kind  c == obj[o].c
  IN IF kind = "session"
     THEN SessionFrees(Of("channel")) \cup Of("listener") \cup {Session1}
     ELSE (IF kind \in {"channel", "sftp", "publickey"} THEN ChannelFrees(c) ELSE {})
          \cup (IF \/ kind \in {"fd", "publickey", "agent"}
                   \/ kind = "handle" /\ ~obj[o].closed
                THEN {<<kind, c>>} ELSE {})
          \cup (IF kind = "agent" THEN {x \in Of("identity") : x[2] = c} ELSE {})

DeallocReads(o) ==
  IF \/ obj[o].kind \in {"fd", "listener", "key"}
     \/ obj[o].kind = "handle" /\ obj[o].closed
  THEN {}
  ELSE IF obj[o].kind = "session"
  THEN {Session1} \cup (IF Of("channel") \cup Of("listener") = {} THEN {} ELSE FdInUse)
  ELSE Reads(o)

----------------------------------------------------------------------------
(* What the application does with its objects                              *)

(* Session.handshake() keeps the socket, Session.startup() does not.       *)
KeepsSocket == obj' = [obj EXCEPT ![Ses].parent = Sock]

Handshake ==
  /\ Held(Ses, "session") /\ Held(Sock, "fd") /\ link = "new"
  /\ link' = "up"
  /\ \/ KeepsSocket
     \/ "startup" \in PyHabits /\ UNCHANGED obj
  /\ UNCHANGED <<live, shut, collecting, mode, misused>>

(* A mutant: a new object that does not refer to the one it came from.      *)
WrapsAlone(n, kind, parent, c, of) == obj' = [obj EXCEPT ![n] = PyObject(kind, NoObj, c, of)]

(* PyChannel(), PySFTP(), PyListener() ...: the new object and its parent. *)
Wraps(n, kind, parent, c, of) == obj' = [obj EXCEPT ![n] = PyObject(kind, parent, c, of)]

Structures(kind, n) ==
  {<<kind, n>>} \cup (IF kind \in {"sftp", "publickey"} THEN {<<"channel", n>>} ELSE {})
                \cup (IF kind = "agent" THEN {<<"spare", n>>} ELSE {})

(* A method that returns a new object; when libssh2 returns NULL none is   *)
(* made.  Session.agent_init() makes two agents and wraps the first.       *)
Make(n, kind) ==
  /\ n \in Unmade /\ kind \in PyKinds
  /\ link = "up"
  /\ live' = live \cup Structures(kind, n)
  /\ UNCHANGED <<shut, collecting, mode, link>>

OpenOnSession ==
  \E n \in Unmade, kind \in PyKinds \ {"handle"} :
    /\ Held(Ses, "session")
    /\ Make(n, kind)
    /\ Wraps(n, kind, Ses, n, NoObj)
    /\ Dangling(Reads(Ses))

OpenHandle ==
  \E n \in Unmade, s \in PyIds :
    /\ Held(s, "sftp")
    /\ Make(n, "handle")
    /\ Wraps(n, "handle", s, n, obj[s].c)
    /\ Dangling(Reads(s))

ForwardAccept ==
  \E n \in Unmade, l \in PyIds :
    /\ Held(l, "listener") /\ ~obj[l].closed
    /\ Make(n, "channel")
    /\ Wraps(n, "channel", Ses, n, NoObj)
    /\ Dangling(Reads(l))

(* SFTP.get_channel() wraps the channel the SFTP lives on.                 *)
GetChannel ==
  \E n \in Unmade, s \in PyIds :
    /\ "channel_of" \in PyHabits
    /\ Held(s, "sftp")
    /\ Wraps(n, "channel", obj[s].parent, obj[s].c, NoObj)
    /\ Dangling(Reads(s))
    /\ UNCHANGED <<live, shut, collecting, mode, link>>

(* Agent.get_identities(): once for each agent.                            *)
GetIdentities ==
  \E a \in PyIds :
    /\ Held(a, "agent") /\ <<"identity", a>> \notin live
    /\ live' = live \cup {<<"identity", a>>}
    /\ \/ UNCHANGED obj
       \/ "keys" \in PyHabits /\ \E n \in Unmade : Wraps(n, "key", NoObj, a, NoObj)
    /\ Dangling(Reads(a))
    /\ UNCHANGED <<shut, collecting, mode, link>>

(* Any other method.                                                       *)
Use(o) ==
  /\ Alive(o) /\ Held(o, obj[o].kind) /\ obj[o].kind # "fd"
  /\ obj[o].closed => "late" \in PyHabits
  /\ Dangling(Reads(o))
  /\ UNCHANGED <<obj, live, shut, collecting, mode, link>>

(* A call may return before it is done, with EAGAIN or a timeout.          *)
Unfinished == mode = "hasty" /\ link = "up"

(* libssh2_publickey_shutdown() does not wait in blocking mode either: it  *)
(* returns EAGAIN as long as the peer has not closed the channel.          *)
ShutdownUnfinished == link = "up"

(* Channel.close()                                                         *)
ChannelClose(o) ==
  /\ Held(o, "channel")
  /\ \/ /\ Frees(CloseFrees(obj[o].c), Reads(o))
        /\ shut' = shut \cup {obj[o].c}
     \/ Unfinished /\ Dangling(Reads(o)) /\ UNCHANGED <<live, shut>>
  /\ UNCHANGED <<obj, collecting, mode, link>>

(* SFTPHandle.close() marks the handle closed whatever the call returned.  *)
HandleClose(o) ==
  /\ Held(o, "handle") /\ ~obj[o].closed
  /\ \/ Frees({<<"handle", obj[o].c>>}, Reads(o))
     \/ Unfinished /\ Dangling(Reads(o)) /\ UNCHANGED live
  /\ obj' = [obj EXCEPT ![o].closed = TRUE]
  /\ UNCHANGED <<shut, collecting, mode, link>>

(* Listener.forward_cancel() and PublicKeySystem.shutdown() leave the      *)
(* pointer as it is.  Field closed notes that the call was completed.      *)
ForwardCancel(o) ==
  /\ Held(o, "listener") /\ (obj[o].closed => "late" \in PyHabits)
  /\ \/ /\ Frees({<<"listener", obj[o].c>>}, Reads(o))
        /\ obj' = [obj EXCEPT ![o].closed = TRUE]
     \/ Unfinished /\ Dangling(Reads(o)) /\ UNCHANGED <<obj, live>>
  /\ UNCHANGED <<shut, collecting, mode, link>>

PkShutdown(o) ==
  /\ "shutdown" \in PyHabits
  /\ Held(o, "publickey") /\ ~obj[o].closed
  /\ \/ /\ Frees(ChannelFrees(obj[o].c) \cup {<<"publickey", obj[o].c>>}, Reads(o))
        /\ obj' = [obj EXCEPT ![o].closed = TRUE]
     \/ ShutdownUnfinished /\ Dangling(Reads(o)) /\ UNCHANGED <<obj, live>>
  /\ UNCHANGED <<shut, collecting, mode, link>>

(* Session.set_blocking(False) or Session.set_timeout()                    *)
BeHasty ==
  /\ Held(Ses, "session") /\ mode = "patient"
  /\ mode' = "hasty"
  /\ UNCHANGED <<obj, live, shut, collecting, link, misused>>

LoseConnection ==
  /\ link = "up"
  /\ link' = "lost"
  /\ UNCHANGED <<obj, live, shut, collecting, mode, misused>>

----------------------------------------------------------------------------
(* The interpreter                                                         *)

(* The application, or the clearing of its dictionary, lets go of o.       *)
LetGo(o) ==
  /\ Alive(o) /\ obj[o].held
  /\ obj' = [obj EXCEPT ![o].held = FALSE]
  /\ UNCHANGED <<live, shut, collecting, mode, link, misused>>

(* The end of o; its reference to its parent goes with it.                 *)
Gone(o) == obj' = [obj EXCEPT ![o].st = "gone", ![o].parent = NoObj]

(* A call of libssh2 that does not finish frees nothing, but for the       *)
(* channels that libssh2_session_free() came to before.                    *)
Dealloc(o) ==
  /\ Unreferenced(o)
  /\ Gone(o)
  /\ \/ Frees(DeallocFrees(o), DeallocReads(o))
     \/ /\ \/ Unfinished /\ obj[o].kind \in {"channel", "sftp", "handle"}
           \/ ShutdownUnfinished /\ obj[o].kind = "publickey"
        /\ Dangling(DeallocReads(o)) /\ UNCHANGED live
     \/ /\ Unfinished /\ obj[o].kind = "session"
        /\ \E S \in SUBSET Of("channel") :
             S # Of("channel") /\ Frees(SessionFrees(S), DeallocReads(o))
  /\ UNCHANGED <<shut, collecting, mode, link>>

(* The collector finds that the objects are held by a cycle only, and      *)
(* clears the references of those it tracks in any order; Channel is       *)
(* declared no_gc and not tracked.                                         *)
Collect ==
  /\ "cycle" \in PyHabits /\ ~collecting
  /\ collecting' = TRUE
  /\ UNCHANGED <<obj, live, shut, mode, link, misused>>

Tracked == {"session", "sftp", "handle", "listener", "publickey", "agent"}

Clear(o) ==
  /\ collecting /\ Alive(o) /\ obj[o].kind \in Tracked /\ obj[o].parent # NoObj
  /\ obj' = [obj EXCEPT ![o].parent = NoObj]
  /\ UNCHANGED <<live, shut, collecting, mode, link, misused>>

----------------------------------------------------------------------------
PyInit ==
  /\ obj = [o \in PyIds |-> IF o = Sock THEN PyObject("fd", NoObj, Sock, NoObj)
                           ELSE IF o = Ses THEN PyObject("session", NoObj, Ses, NoObj)
                           ELSE NotMade]
  /\ live = {<<"fd", Sock>>, Session1}
  /\ shut = {}
  /\ collecting = FALSE
  /\ mode = "patient"
  /\ link = "new"
  /\ misused = {}

PyMakes == OpenOnSession \/ OpenHandle \/ ForwardAccept \/ GetChannel \/ GetIdentities

PyCalls ==
  \E o \in PyIds : Use(o) \/ ChannelClose(o) \/ HandleClose(o) \/ ForwardCancel(o) \/ PkShutdown(o)

PyInterpreter == (\E o \in PyIds : LetGo(o) \/ Dealloc(o) \/ Clear(o)) \/ Collect

PyNext ==
  misused = {} /\ (Handshake \/ PyMakes \/ PyCalls \/ BeHasty \/ LoseConnection \/ PyInterpreter)

PySpec == PyInit /\ [][PyNext]_pyVars

----------------------------------------------------------------------------
(* No method and no __dealloc__ reaches a C structure after it was freed,  *)
(* and none is freed twice: whatever the order in which the application    *)
(* lets go of its objects, whichever calls of libssh2 do not finish, and   *)
(* whether or not the connection is lost on the way, the references to the *)
(* parents and the pointers keep the structures alive that are still used. *)
NoUseAfterFree == misused = {}

(* What is left behind even so: the second agent of Session.agent_init(),  *)
(* which nobody holds, and the LIBSSH2_PUBLICKEY of a PublicKeySystem      *)
(* whose __dealloc__ dropped the pointer on EAGAIN (publickey.pyx:135-137, *)
(* publickey.c:1272-1274).                                                 *)
Abandoned == {"spare", "publickey"}

(* Once every object is gone nothing of the connection is left behind      *)
(* besides, channels of abandoned structures included, if the session      *)
(* blocked without a time limit and the connection held.                   *)
NothingLeaks ==
  /\ mode = "patient" /\ link # "lost"
  /\ \A o \in PyIds : ~Alive(o)
  => \A x \in live : x[1] \in Abandoned
=============================================================================
