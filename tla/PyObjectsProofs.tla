-------------------------- MODULE PyObjectsProofs --------------------------
(***************************************************************************)
(* The Python objects of an application without the habits of PyHabits     *)
(* never reach a C structure that was freed, however many objects it makes *)
(* and in whatever order they are let go of.                               *)
(***************************************************************************)
EXTENDS PyObjects, TLAPS

AnyKind == {"channel", "sftp", "handle", "listener", "publickey", "agent"}
AnyId == PyIds \cup {NoObj}

Objects ==
  [kind : AnyKind \cup {"fd", "session", "none"}, st : {"none", "alive", "gone"},
   parent : AnyId, c : AnyId, of : AnyId, held : BOOLEAN, closed : BOOLEAN]

(* The shape of the state, and the objects that are there from the start.  *)
Shape ==
  /\ obj \in [PyIds -> Objects]
  /\ live \subseteq (AnyKind \cup {"fd", "session", "spare", "identity"}) \X PyIds
  /\ collecting = FALSE
  /\ obj[Sock].kind = "fd" /\ obj[Sock].c = Sock
  /\ obj[Ses].kind = "session" /\ obj[Ses].c = Ses

(* Every other object has a C structure of its own number, and holds the   *)
(* object it came from.                                                    *)
Referring ==
  \A o \in PyIds \ {Sock, Ses} : Alive(o) =>
    /\ obj[o].kind \in AnyKind /\ obj[o].c = o
    /\ obj[o].kind # "handle" => obj[o].parent = Ses /\ Alive(Ses)
    /\ obj[o].kind = "handle" =>
         /\ obj[o].of \in PyIds \ {Sock, Ses} /\ obj[o].parent = obj[o].of
         /\ Alive(obj[o].of) /\ obj[obj[o].of].kind = "sftp"

(* The structures behind an object that is alive are allocated.            *)
Backed ==
  /\ Alive(Sock) => <<"fd", Sock>> \in live
  /\ Alive(Ses) => Session1 \in live
  /\ \A o \in PyIds \ {Sock, Ses} : Alive(o) =>
       /\ obj[o].kind \in {"sftp", "publickey"} => <<"channel", o>> \in live
       /\ ~obj[o].closed \/ obj[o].kind \notin {"handle", "listener"} =>
            <<obj[o].kind, o>> \in live

(* The session keeps the socket of its connection.                         *)
Connected == link = "up" /\ Alive(Ses) => obj[Ses].parent = Sock /\ Alive(Sock)

(* The channel of an SFTP is not freed before the SFTP: what is left of    *)
(* both when a session is freed is freed once.                             *)
Paired == \A n \in PyIds : obj[n].kind = "sftp" /\ <<"channel", n>> \in live =>
                             <<"sftp", n>> \in live

PyInv == Shape /\ Referring /\ Backed /\ Connected /\ Paired /\ NoUseAfterFree

----------------------------------------------------------------------------
(* The numbers of the socket and the session.                              *)
LEMMA Ids == Sock \in PyIds /\ Ses \in PyIds /\ Sock # Ses /\ NoObj \notin PyIds
  BY PyAssumption DEF PyIds, Sock, Ses, NoObj

(* While there is a session the descriptor of its connection is open.      *)
LEMMA FdLive == ASSUME PyInv, Alive(Ses) PROVE FdInUse \subseteq live
  BY DEF PyInv, Connected, Backed, FdInUse

(* Whatever is alive, its session is.                                      *)
LEMMA SessionAlive ==
  ASSUME PyInv, NEW o \in PyIds, Alive(o), o # Sock
  PROVE  Alive(Ses)
  BY Ids DEF PyInv, Referring, Shape

(* What a call through an object reads is allocated, unless the structure  *)
(* was given up by the call that closed it.                                *)
LEMMA ReadsLive ==
  ASSUME PyInv, NEW o \in PyIds, Alive(o), o # Sock,
         ~obj[o].closed \/ obj[o].kind \notin {"handle", "listener"}
  PROVE  Reads(o) \subseteq live
<1>1. Alive(Ses) /\ Session1 \in live /\ FdInUse \subseteq live
  BY SessionAlive, FdLive DEF PyInv, Backed
<1>2. CASE o = Ses
  BY <1>1, <1>2 DEF PyInv, Shape, Reads, Session1
<1>3. CASE o # Ses
  <2>1. /\ obj[o].kind \in AnyKind /\ obj[o].c = o
        /\ <<obj[o].kind, o>> \in live
        /\ obj[o].kind \in {"sftp", "publickey"} => <<"channel", o>> \in live
    BY <1>3 DEF PyInv, Referring, Backed
  <2>2. CASE obj[o].kind = "handle"
    <3> DEFINE s == obj[o].of
    <3>1. s \in PyIds \ {Sock, Ses} /\ Alive(s) /\ obj[s].kind = "sftp"
      BY <1>3, <2>2 DEF PyInv, Referring
    <3>2. <<"sftp", s>> \in live /\ <<"channel", s>> \in live
      BY <3>1 DEF PyInv, Backed
    <3> QED
      BY <1>1, <2>1, <2>2, <3>2 DEF Reads
  <2>3. CASE obj[o].kind \in {"sftp", "publickey"}
    BY <1>1, <2>1, <2>3 DEF Reads
  <2>4. CASE obj[o].kind = "agent"
    BY <1>1, <2>1, <2>4 DEF Reads
  <2>5. CASE obj[o].kind \in {"channel", "listener"}
    BY <1>1, <2>1, <2>5 DEF Reads
  <2> QED
    BY <2>1, <2>2, <2>3, <2>4, <2>5 DEF AnyKind
<1> QED
  BY <1>2, <1>3

----------------------------------------------------------------------------
(* The ways in which a step changes objects and structures.                *)

LEMMA StepNothing ==
  ASSUME PyInv, UNCHANGED <<obj, live, collecting, misused>>, link' = link \/ link' # "up"
  PROVE  PyInv'
  BY DEF PyInv, Shape, Referring, Backed, Connected, Paired, NoUseAfterFree, Alive, Session1

(* A new object, with its structures and the object it came from.          *)
LEMMA StepWraps ==
  ASSUME PyInv, NEW n \in Unmade, NEW kind \in AnyKind, NEW parent, NEW of,
         Make(n, kind), Wraps(n, kind, parent, n, of), misused' = misused,
         Alive(Ses),
         \/ kind # "handle" /\ parent = Ses /\ of = NoObj
         \/ /\ kind = "handle" /\ parent = of
            /\ of \in PyIds \ {Sock, Ses} /\ Alive(of) /\ obj[of].kind = "sftp"
  PROVE  PyInv'
<1>1. n \in PyIds \ {Sock, Ses} /\ ~Alive(n)
  BY DEF PyInv, Connected, Make, Unmade, Alive
<1> DEFINE new == PyObject(kind, parent, n, of)
<1>2. /\ obj \in [PyIds -> Objects]
      /\ obj' = [obj EXCEPT ![n] = new]
      /\ \A p \in PyIds : p # n => obj'[p] = obj[p]
      /\ obj'[n] = new
  BY <1>1 DEF PyInv, Shape, Wraps
<1>3. /\ live' = live \cup Structures(kind, n) /\ live \subseteq live'
      /\ UNCHANGED <<collecting, link>>
  BY DEF Make
<1>4. /\ new.kind = kind /\ new.st = "alive" /\ new.parent = parent /\ new.c = n
      /\ new.of = of /\ new.closed = FALSE
  BY DEF PyObject
<1>5. Shape'
  <2>1. new \in Objects
    BY <1>1, Ids DEF PyObject, AnyId, Objects
  <2>2. Structures(kind, n) \subseteq (AnyKind \cup {"fd", "session", "spare", "identity"}) \X PyIds
    BY <1>1 DEF Structures, AnyKind
  <2>3. obj' \in [PyIds -> Objects]
    BY <1>1, <1>2, <2>1
  <2> QED
    BY <1>1, <1>2, <1>3, <2>2, <2>3, Ids DEF PyInv, Shape, AnyId, PyIds
<1>6. Referring'
  BY <1>1, <1>2, <1>4, Ids DEF PyInv, Referring, Alive, PyIds
<1>7. Backed'
  BY <1>1, <1>2, <1>3, <1>4, Ids DEF PyInv, Backed, Alive, Session1, Structures, PyIds
<1>8. Connected' /\ NoUseAfterFree'
  BY <1>1, <1>2, <1>3, Ids DEF PyInv, Connected, NoUseAfterFree, Alive
<1>9. Paired'
  BY <1>1, <1>2, <1>3, <1>4 DEF PyInv, Paired, Structures, PyIds, AnyKind
<1> QED
  BY <1>5, <1>6, <1>7, <1>8, <1>9 DEF PyInv

(* An object that is closed, with the structure it gives up.               *)
LEMMA StepCloses ==
  ASSUME PyInv, NEW o \in PyIds \ {Sock, Ses}, Alive(o), obj[o].kind \in {"handle", "listener"},
         obj' = [obj EXCEPT ![o].closed = TRUE],
         live' = live \/ live' = live \ {<<obj[o].kind, o>>},
         UNCHANGED <<collecting, link, misused>>
  PROVE  PyInv'
<1>1. /\ \A p \in PyIds : p # o => obj'[p] = obj[p]
      /\ obj'[o].kind = obj[o].kind /\ obj'[o].c = obj[o].c /\ obj'[o].of = obj[o].of
      /\ obj'[o].st = obj[o].st /\ obj'[o].parent = obj[o].parent /\ obj'[o].closed = TRUE
  BY DEF PyInv, Shape, Objects
<1>2. \A p \in PyIds : Alive(p)' <=> Alive(p)
  BY <1>1 DEF Alive
<1>3. Shape'
  <2>1. [obj[o] EXCEPT !.closed = TRUE] \in Objects
    <3>1. obj[o] \in Objects
      BY DEF PyInv, Shape
    <3> QED
      BY ONLY <3>1 DEF Objects
  <2>2. obj' \in [PyIds -> Objects]
    BY <2>1 DEF PyInv, Shape
  <2> QED
    BY <1>1, <2>2, Ids DEF PyInv, Shape
<1>4. Referring'
  <2> SUFFICES ASSUME NEW p \in PyIds \ {Sock, Ses}, Alive(p)'
               PROVE  /\ obj'[p].kind \in AnyKind /\ obj'[p].c = p
                      /\ obj'[p].kind # "handle" => obj'[p].parent = Ses /\ Alive(Ses)'
                      /\ obj'[p].kind = "handle" =>
                           /\ obj'[p].of \in PyIds \ {Sock, Ses} /\ obj'[p].parent = obj'[p].of
                           /\ Alive(obj[p].of)' /\ obj'[obj'[p].of].kind = "sftp"
    BY DEF Referring, Alive
  <2> QED
    BY <1>1, <1>2, Ids DEF PyInv, Referring, Alive
<1>5. Backed'
  <2>1. \A x : x # <<obj[o].kind, o>> /\ x \in live => x \in live'
    OBVIOUS
  <2> QED
    BY <1>1, <1>2, <2>1, Ids DEF PyInv, Backed, Session1
<1>6. Connected' /\ NoUseAfterFree'
  BY <1>1, <1>2, Ids DEF PyInv, Connected, NoUseAfterFree
<1>7. Paired'
  BY <1>1 DEF PyInv, Paired
<1> QED
  BY <1>3, <1>4, <1>5, <1>6, <1>7 DEF PyInv

(* An object that is gone, with structures that nobody else needs.         *)
LEMMA StepGone ==
  ASSUME PyInv, NEW o \in PyIds, Unreferenced(o), Gone(o), NEW F, live' = live \ F,
         \A p \in PyIds : p # o /\ Alive(p) => <<obj[p].kind, p>> \notin F,
         \A p \in PyIds \ {Sock, Ses} : p # o /\ Alive(p) => <<"channel", p>> \notin F,
         \A n \in PyIds : <<"sftp", n>> \in F => <<"channel", n>> \in F,
         UNCHANGED <<collecting, link, misused>>
  PROVE  PyInv'
<1>1. /\ \A p \in PyIds : p # o => obj'[p] = obj[p]
      /\ obj'[o].kind = obj[o].kind /\ obj'[o].c = obj[o].c
      /\ obj'[o].st = "gone"
  BY DEF PyInv, Shape, Objects, Gone
<1>2. \A p \in PyIds : Alive(p)' <=> Alive(p) /\ p # o
  BY <1>1 DEF Alive
<1>3. Shape'
  <2>0. [obj[o] EXCEPT !.st = "gone"] \in Objects /\ NoObj \in AnyId
    BY DEF PyInv, Shape, Objects, AnyId
  <2>1. [obj[o] EXCEPT !.st = "gone", !.parent = NoObj] \in Objects
    BY <2>0 DEF PyInv, Shape, Objects
  <2>2. obj' \in [PyIds -> Objects]
    BY <2>1 DEF PyInv, Shape, Objects, Gone
  <2> QED
    BY <1>1, <2>2, Ids DEF PyInv, Shape
<1>4. Referring'
  <2> SUFFICES ASSUME NEW p \in PyIds \ {Sock, Ses}, Alive(p)'
               PROVE  /\ obj'[p].kind \in AnyKind /\ obj'[p].c = p
                      /\ obj'[p].kind # "handle" => obj'[p].parent = Ses /\ Alive(Ses)'
                      /\ obj'[p].kind = "handle" =>
                           /\ obj'[p].of \in PyIds \ {Sock, Ses} /\ obj'[p].parent = obj'[p].of
                           /\ Alive(obj[p].of)' /\ obj'[obj'[p].of].kind = "sftp"
    BY <1>1, <1>2 DEF Referring, Alive
  <2>1. p # o /\ Alive(p) /\ obj'[p] = obj[p] /\ obj[p].parent # o
    BY <1>1, <1>2 DEF Unreferenced
  <2> QED
    BY <1>1, <1>2, <2>1, Ids DEF PyInv, Referring
<1>5. Backed'
  BY <1>1, <1>2, Ids DEF PyInv, Shape, Backed, Session1
<1>6. Connected' /\ NoUseAfterFree'
  BY <1>1, <1>2, Ids DEF PyInv, Connected, NoUseAfterFree, Unreferenced
<1>7. Paired'
  BY <1>1 DEF PyInv, Paired
<1> QED
  BY <1>3, <1>4, <1>5, <1>6, <1>7 DEF PyInv

----------------------------------------------------------------------------
(* The cases of Dealloc.                                                   *)

(* An object other than the session: it gives up structures of its own.    *)
LEMMA StepDeallocOne ==
  ASSUME PyInv, NEW o \in PyIds \ {Sock, Ses}, Unreferenced(o), Gone(o),
         UNCHANGED <<collecting, link>>,
         \/ Frees(DeallocFrees(o), DeallocReads(o))
         \/ Dangling(DeallocReads(o)) /\ UNCHANGED live
  PROVE  PyInv'
<1>1. /\ Alive(o) /\ obj[o].kind \in AnyKind /\ obj[o].c = o
      /\ \A p \in PyIds : Alive(p) => obj[p].parent # o
  BY DEF PyInv, Referring, Unreferenced
<1>2. DeallocReads(o) \subseteq live
  BY <1>1, ReadsLive DEF DeallocReads, AnyKind
<1>3. /\ DeallocFrees(o) \subseteq live
      /\ \A x \in DeallocFrees(o) : x[2] = o
      /\ <<"sftp", o>> \in DeallocFrees(o) => <<"channel", o>> \in DeallocFrees(o)
  <2>1. /\ obj[o].kind \in {"channel", "sftp", "publickey"} => <<"channel", o>> \in live
        /\ obj[o].kind \in {"sftp", "publickey", "agent"} => <<obj[o].kind, o>> \in live
        /\ obj[o].kind = "handle" /\ ~obj[o].closed => <<obj[o].kind, o>> \in live
    BY <1>1 DEF PyInv, Backed
  <2>2. obj[o].kind # "session" /\ obj[o].kind # "fd"
    BY <1>1 DEF AnyKind
  <2>3. DeallocFrees(o) =
          (IF obj[o].kind \in {"channel", "sftp", "publickey"} THEN ChannelFrees(o) ELSE {})
          \cup (IF \/ obj[o].kind \in {"publickey", "agent"}
                   \/ obj[o].kind = "handle" /\ ~obj[o].closed
                THEN {<<obj[o].kind, o>>} ELSE {})
          \cup (IF obj[o].kind = "agent" THEN {x \in Of("identity") : x[2] = o} ELSE {})
    BY <1>1, <2>2 DEF DeallocFrees
  <2>4. CASE obj[o].kind = "sftp"
    <3>1. DeallocFrees(o) = {<<"channel", o>>} \cup CloseFrees(o)
      BY <2>3, <2>4 DEF ChannelFrees
    <3>2. CloseFrees(o) \in {{}, {<<"sftp", o>>}}
      BY DEF CloseFrees
    <3> QED
      BY <2>1, <2>4, <3>1, <3>2
  <2>5. CASE obj[o].kind \in {"channel", "publickey"}
    <3>1. ChannelFrees(o) = {<<"channel", o>>}
      BY <2>5 DEF ChannelFrees, CloseFrees
    <3>2. CASE obj[o].kind = "channel"
      <4>1. DeallocFrees(o) = {<<"channel", o>>}
        BY <2>3, <3>1, <3>2
      <4> QED
        BY <2>1, <3>2, <4>1
    <3>3. CASE obj[o].kind = "publickey"
      <4>1. DeallocFrees(o) = {<<"channel", o>>, <<"publickey", o>>}
        BY <2>3, <3>1, <3>3
      <4> QED
        BY <2>1, <3>3, <4>1
    <3> QED
      BY <2>5, <3>2, <3>3
  <2>6. CASE obj[o].kind = "agent"
    <3>1. DeallocFrees(o) = {<<"agent", o>>} \cup {x \in Of("identity") : x[2] = o}
      BY <2>3, <2>6
    <3>2. \A x \in Of("identity") : x \in live /\ x # <<"sftp", o>>
      BY DEF Of
    <3> QED
      BY <2>1, <2>6, <3>1, <3>2
  <2>7. CASE obj[o].kind = "handle"
    <3>1. DeallocFrees(o) = IF obj[o].closed THEN {} ELSE {<<"handle", o>>}
      BY <2>3, <2>7
    <3> QED
      BY <2>1, <2>7, <3>1
  <2>8. CASE obj[o].kind = "listener"
    <3>1. DeallocFrees(o) = {}
      BY <2>3, <2>8
    <3> QED
      BY <3>1
  <2> QED
    BY <1>1, <2>4, <2>5, <2>6, <2>7, <2>8 DEF AnyKind
<1>4. CASE Frees(DeallocFrees(o), DeallocReads(o))
  <2> DEFINE F == DeallocFrees(o)
  <2>1. live' = live \ F /\ misused' = misused
    BY <1>2, <1>3, <1>4 DEF Frees, Dangling
  <2>2. \A p, k : p # o => <<k, p>> \notin F
    BY <1>3
  <2>3. \A n \in PyIds : <<"sftp", n>> \in F => <<"channel", n>> \in F
    BY <1>3, <2>2
  <2> HIDE DEF F
  <2> QED
    BY <2>1, <2>2, <2>3, StepGone
<1>5. CASE Dangling(DeallocReads(o)) /\ UNCHANGED live
  <2> DEFINE F == {}
  <2>1. live' = live \ F /\ misused' = misused
    BY <1>2, <1>5 DEF Dangling
  <2>2. \A x : x \notin F
    OBVIOUS
  <2> HIDE DEF F
  <2> QED
    BY <2>1, <2>2, StepGone
<1> QED
  BY <1>4, <1>5

(* The socket.                                                             *)
LEMMA StepDeallocSock ==
  ASSUME PyInv, Unreferenced(Sock), Gone(Sock), UNCHANGED <<collecting, link>>,
         Frees(DeallocFrees(Sock), DeallocReads(Sock))
  PROVE  PyInv'
<1> DEFINE F == {<<"fd", Sock>>}
<1>1. DeallocFrees(Sock) = F /\ DeallocReads(Sock) = {}
  BY Ids DEF PyInv, Shape, DeallocFrees, DeallocReads
<1>2. live' = live \ F /\ misused' = misused
  BY <1>1 DEF PyInv, Backed, Unreferenced, Frees, Dangling
<1>3. Sock \in PyIds
  BY Ids
<1>4. \A p \in PyIds : p # Sock /\ Alive(p) => <<obj[p].kind, p>> \notin F
  OBVIOUS
<1>5. \A p \in PyIds \ {Sock, Ses} : p # Sock /\ Alive(p) => <<"channel", p>> \notin F
  OBVIOUS
<1>6. \A n \in PyIds : <<"sftp", n>> \in F => <<"channel", n>> \in F
  OBVIOUS
<1> HIDE DEF F
<1> QED
  BY <1>2, <1>3, <1>4, <1>5, <1>6, StepGone

(* The session, when libssh2_session_free() came to the channels of S: an  *)
(* SFTP among them is freed with its channel and not a second time.        *)
LEMMA StepDeallocSession ==
  ASSUME PyInv, Unreferenced(Ses), Gone(Ses), UNCHANGED <<collecting, link>>,
         NEW S \in SUBSET Of("channel"),
         NEW R \in SUBSET (Of("listener") \cup {Session1}),
         Frees(SessionFrees(S) \cup R, DeallocReads(Ses))
  PROVE  PyInv'
<1> DEFINE F == SessionFrees(S) \cup R
<1>1. /\ Alive(Ses) /\ Session1 \in live /\ FdInUse \subseteq live /\ Ses \in PyIds
      /\ \A p \in PyIds : Alive(p) => p \in {Sock, Ses}
  <2>1. Alive(Ses)
    BY DEF Unreferenced
  <2>2. \A p \in PyIds \ {Sock, Ses} : Alive(p) => \E q \in PyIds : Alive(q) /\ obj[q].parent = Ses
    BY DEF PyInv, Referring
  <2> QED
    BY <2>1, <2>2, FdLive, Ids DEF PyInv, Backed, Unreferenced
<1>2. \A x \in S : x = <<"channel", x[2]>> /\ x[2] \in PyIds /\ x \in live
  BY DEF PyInv, Shape, Of
<1>3. \A x \in R : x \in live /\ x[1] \in {"listener", "session"}
  BY <1>1 DEF Of, Session1
<1>4. \A n : CloseFrees(n) \subseteq {<<"sftp", n>>}
             /\ (CloseFrees(n) # {} => obj[n].kind = "sftp")
  BY DEF CloseFrees
<1>5. \A y : y \in SessionFrees(S) <=>
               \E x \in S : y = <<"channel", x[2]>> \/ y \in CloseFrees(x[2])
  BY DEF SessionFrees, ChannelFrees
<1>6. \A y \in F : y \in live /\ y[1] \in {"channel", "sftp", "listener", "session"}
  <2>1. \A y \in SessionFrees(S) : y \in live /\ y[1] \in {"channel", "sftp"}
    <3> SUFFICES ASSUME NEW y \in SessionFrees(S)
                 PROVE  y \in live /\ y[1] \in {"channel", "sftp"}
      OBVIOUS
    <3>1. PICK x \in S : y = <<"channel", x[2]>> \/ y \in CloseFrees(x[2])
      BY <1>5
    <3>2. CASE y = <<"channel", x[2]>>
      BY <1>2, <3>2
    <3>3. CASE y \in CloseFrees(x[2])
      <4>1. y = <<"sftp", x[2]>> /\ obj[x[2]].kind = "sftp"
        BY <1>4, <3>3
      <4> QED
        BY <1>2, <4>1 DEF PyInv, Paired
    <3> QED
      BY <3>1, <3>2, <3>3
  <2> QED
    BY <1>3, <2>1
<1>7. \A n \in PyIds : <<"sftp", n>> \in F => <<"channel", n>> \in F
  <2> SUFFICES ASSUME NEW n \in PyIds, <<"sftp", n>> \in F PROVE <<"channel", n>> \in F
    OBVIOUS
  <2>1. <<"sftp", n>> \in SessionFrees(S)
    BY <1>3
  <2>2. PICK x \in S : <<"sftp", n>> = <<"channel", x[2]>> \/ <<"sftp", n>> \in CloseFrees(x[2])
    BY <1>5, <2>1
  <2>3. x[2] = n
    BY <1>4, <2>2
  <2> QED
    BY <1>5, <2>3
<1>8. DeallocReads(Ses) \subseteq live
  BY <1>1 DEF DeallocReads, PyInv, Shape
<1>9. live' = live \ F /\ misused' = misused
  BY <1>6, <1>8 DEF Frees, Dangling
<1>10. \A p \in PyIds : p # Ses /\ Alive(p) => <<obj[p].kind, p>> \notin F
  <2>1. \A p \in PyIds : p # Ses /\ Alive(p) => obj[p].kind = "fd"
    BY <1>1 DEF PyInv, Shape
  <2> QED
    BY <1>6, <2>1
<1>11. \A p \in PyIds \ {Sock, Ses} : p # Ses /\ Alive(p) => <<"channel", p>> \notin F
  BY <1>1
<1>12. Ses \in PyIds
  BY Ids
<1> HIDE DEF F
<1> QED
  BY <1>7, <1>9, <1>10, <1>11, <1>12, StepGone

----------------------------------------------------------------------------
(* A session and its socket, not connected.                                *)
LEMMA InvInit == PyInit => PyInv
<1> SUFFICES ASSUME PyInit PROVE PyInv
  OBVIOUS
<1>1. /\ obj[Sock] = PyObject("fd", NoObj, Sock, NoObj)
      /\ obj[Ses] = PyObject("session", NoObj, Ses, NoObj)
      /\ \A o \in PyIds \ {Sock, Ses} : obj[o] = NotMade
  BY Ids DEF PyInit
<1>2. \A o \in PyIds : obj[o] \in Objects
  <2>1. PyObject("fd", NoObj, Sock, NoObj) \in Objects
    BY Ids DEF PyObject, Objects, AnyId
  <2>2. PyObject("session", NoObj, Ses, NoObj) \in Objects
    BY Ids DEF PyObject, Objects, AnyId
  <2>3. PyObject("none", NoObj, NoObj, NoObj) \in Objects
    BY DEF PyObject, Objects, AnyId
  <2>4. NotMade \in Objects
    BY <2>3 DEF NotMade, Objects
  <2> QED
    BY <1>1, <2>1, <2>2, <2>4
<1>3. Shape
  <2>1. /\ obj[Sock].kind = "fd" /\ obj[Sock].c = Sock
        /\ obj[Ses].kind = "session" /\ obj[Ses].c = Ses
    BY <1>1 DEF PyObject
  <2>2. live \subseteq (AnyKind \cup {"fd", "session", "spare", "identity"}) \X PyIds
    BY Ids DEF PyInit, Session1
  <2>3. obj \in [PyIds -> Objects] /\ collecting = FALSE
    <3>1. obj = [o \in PyIds |-> obj[o]]
      BY DEF PyInit
    <3> QED
      BY <1>2, <3>1 DEF PyInit
  <2> QED
    BY <2>1, <2>2, <2>3 DEF Shape
<1>4. \A o \in PyIds \ {Sock, Ses} : ~Alive(o)
  BY <1>1 DEF Alive, NotMade, PyObject
<1>5. Referring /\ Backed /\ Connected /\ NoUseAfterFree
  BY <1>4 DEF PyInit, Referring, Backed, Connected, NoUseAfterFree
<1>6. Paired
  BY DEF PyInit, Paired, Session1
<1> QED
  BY <1>3, <1>5, <1>6 DEF PyInv

(* One step for each action.                                               *)
LEMMA InvStep == ASSUME PyHabits = {}, PyInv, PyNext PROVE PyInv'
<1> USE DEF NoUseAfterFree
<1>0. misused = {} /\ collecting = FALSE
  BY DEF PyInv, Shape
<1>1. CASE Handshake
  <2>1. /\ obj' = [obj EXCEPT ![Ses].parent = Sock] /\ Alive(Ses) /\ Alive(Sock)
        /\ UNCHANGED <<live, collecting, misused>>
    BY <1>1 DEF Handshake, KeepsSocket, Held
  <2>2. [obj[Ses] EXCEPT !.parent = Sock] \in Objects
    BY Ids DEF PyInv, Shape, Objects, AnyId
  <2>3. /\ obj' \in [PyIds -> Objects]
        /\ \A p \in PyIds : p # Ses => obj'[p] = obj[p]
        /\ obj'[Ses].kind = obj[Ses].kind /\ obj'[Ses].st = obj[Ses].st
        /\ obj'[Ses].c = obj[Ses].c /\ obj'[Ses].parent = Sock
    BY <2>1, <2>2, Ids DEF PyInv, Shape, Objects
  <2>4. \A p \in PyIds : Alive(p)' <=> Alive(p)
    BY <2>3 DEF Alive
  <2>5. Shape'
    BY <2>1, <2>3, Ids DEF PyInv, Shape
  <2>6. Referring'
    <3> SUFFICES ASSUME NEW p \in PyIds \ {Sock, Ses}, Alive(p)'
                 PROVE  /\ obj'[p].kind \in AnyKind /\ obj'[p].c = p
                        /\ obj'[p].kind # "handle" => obj'[p].parent = Ses /\ Alive(Ses)'
                        /\ obj'[p].kind = "handle" =>
                             /\ obj'[p].of \in PyIds \ {Sock, Ses} /\ obj'[p].parent = obj'[p].of
                             /\ Alive(obj[p].of)' /\ obj'[obj'[p].of].kind = "sftp"
      BY <2>3 DEF Referring, Alive
    <3> QED
      BY <2>3, <2>4, Ids DEF PyInv, Referring
  <2>7. Backed'
    BY <2>1, <2>3, <2>4, Ids DEF PyInv, Backed, Session1
  <2>8. Connected' /\ Paired' /\ misused' = {}
    BY <1>0, <2>1, <2>3, <2>4, Ids DEF Connected, PyInv, Paired
  <2> QED
    BY <2>5, <2>6, <2>7, <2>8 DEF PyInv
<1>2. CASE OpenOnSession
  <2>1. PICK n \in Unmade, kind \in PyKinds \ {"handle"} :
          /\ Held(Ses, "session") /\ Make(n, kind) /\ Wraps(n, kind, Ses, n, NoObj)
          /\ Dangling(Reads(Ses))
    BY <1>2 DEF OpenOnSession
  <2>2. Alive(Ses) /\ Reads(Ses) \subseteq live
    BY <2>1, ReadsLive, Ids DEF Held
  <2>3. misused' = misused /\ kind \in AnyKind
    BY <2>1, <2>2, PyAssumption DEF Dangling, AnyKind
  <2> QED
    BY <2>1, <2>2, <2>3, StepWraps
<1>3. CASE OpenHandle
  <2>1. PICK n \in Unmade, s \in PyIds :
          /\ Held(s, "sftp") /\ Make(n, "handle") /\ Wraps(n, "handle", s, n, obj[s].c)
          /\ Dangling(Reads(s))
    BY <1>3 DEF OpenHandle
  <2>2. Alive(s) /\ s \in PyIds \ {Sock, Ses} /\ obj[s].kind = "sftp" /\ obj[s].c = s
    BY <2>1 DEF Held, PyInv, Shape, Referring
  <2>3. Alive(Ses) /\ Reads(s) \subseteq live
    BY <2>2, ReadsLive, SessionAlive
  <2>4. misused' = misused /\ "handle" \in AnyKind
    BY <2>1, <2>3 DEF Dangling, AnyKind
  <2> QED
    BY <2>1, <2>2, <2>3, <2>4, StepWraps
<1>4. CASE ForwardAccept
  <2>1. PICK n \in Unmade, l \in PyIds :
          /\ Held(l, "listener") /\ ~obj[l].closed
          /\ Make(n, "channel") /\ Wraps(n, "channel", Ses, n, NoObj)
          /\ Dangling(Reads(l))
    BY <1>4 DEF ForwardAccept
  <2>2. Alive(l) /\ l # Sock
    BY <2>1 DEF Held, PyInv, Shape
  <2>3. Alive(Ses) /\ Reads(l) \subseteq live
    BY <2>1, <2>2, ReadsLive, SessionAlive
  <2>4. misused' = misused /\ "channel" \in AnyKind
    BY <2>1, <2>3 DEF Dangling, AnyKind
  <2> QED
    BY <2>1, <2>3, <2>4, StepWraps
<1>5. CASE GetChannel
  BY <1>5 DEF GetChannel
<1>6. CASE GetIdentities
  <2>1. PICK a \in PyIds :
          /\ Held(a, "agent") /\ live' = live \cup {<<"identity", a>>} /\ UNCHANGED obj
          /\ Dangling(Reads(a)) /\ UNCHANGED <<collecting, link>>
    BY <1>6 DEF GetIdentities
  <2>2. Alive(a) /\ a # Sock /\ obj[a].kind = "agent"
    BY <2>1 DEF Held, PyInv, Shape
  <2>3. Reads(a) \subseteq live
    BY <2>2, ReadsLive
  <2>4. misused' = misused
    BY <2>1, <2>3 DEF Dangling
  <2> QED
    BY <2>1, <2>4 DEF PyInv, Shape, Referring, Backed, Connected, Paired, Alive, Session1
<1>7. ASSUME NEW o \in PyIds, Use(o) PROVE PyInv'
  <2>1. Alive(o) /\ o # Sock /\ ~obj[o].closed
    BY <1>7 DEF Use, PyInv, Shape
  <2>2. misused' = misused
    BY <1>7, <2>1, ReadsLive DEF Use, Dangling
  <2> QED
    BY <1>7, <2>2, StepNothing DEF Use
<1>8. ASSUME NEW o \in PyIds, ChannelClose(o) PROVE PyInv'
  <2>1. Alive(o) /\ o \in PyIds \ {Sock, Ses} /\ obj[o].kind = "channel" /\ obj[o].c = o
    BY <1>8 DEF ChannelClose, Held, PyInv, Shape, Referring
  <2>2. Reads(o) \subseteq live
    BY <2>1, ReadsLive
  <2>3. CloseFrees(obj[o].c) = {}
    BY <2>1 DEF CloseFrees
  <2>4. misused' = misused /\ live' = live
    BY <1>8, <2>2, <2>3 DEF ChannelClose, Frees, Dangling
  <2> QED
    BY <1>8, <2>4, StepNothing DEF ChannelClose
<1>9. ASSUME NEW o \in PyIds, HandleClose(o) PROVE PyInv'
  <2>1. /\ Alive(o) /\ o \in PyIds \ {Sock, Ses} /\ obj[o].kind = "handle"
        /\ obj[o].c = o /\ ~obj[o].closed
    BY <1>9 DEF HandleClose, Held, PyInv, Shape, Referring
  <2>2. Reads(o) \subseteq live /\ <<"handle", o>> \in live
    BY <2>1, ReadsLive DEF PyInv, Backed
  <2>3. misused' = misused /\ (live' = live \/ live' = live \ {<<"handle", o>>})
    BY <1>9, <2>1, <2>2 DEF HandleClose, Frees, Dangling
  <2> QED
    BY <1>9, <2>1, <2>3, StepCloses DEF HandleClose
<1>10. ASSUME NEW o \in PyIds, ForwardCancel(o) PROVE PyInv'
  <2>1. /\ Alive(o) /\ o \in PyIds \ {Sock, Ses} /\ obj[o].kind = "listener"
        /\ obj[o].c = o /\ ~obj[o].closed
    BY <1>10 DEF ForwardCancel, Held, PyInv, Shape, Referring
  <2>2. Reads(o) \subseteq live /\ <<"listener", o>> \in live
    BY <2>1, ReadsLive DEF PyInv, Backed
  <2>3. misused' = misused /\ UNCHANGED <<collecting, link>>
    BY <1>10, <2>2, <2>1 DEF ForwardCancel, Frees, Dangling
  <2>4. \/ obj' = [obj EXCEPT ![o].closed = TRUE] /\ live' = live \ {<<"listener", o>>}
        \/ UNCHANGED <<obj, live>>
    BY <1>10, <2>1 DEF ForwardCancel, Frees
  <2>5. CASE UNCHANGED <<obj, live>>
    BY <2>3, <2>5, StepNothing
  <2> QED
    <3>1. CASE obj' = [obj EXCEPT ![o].closed = TRUE] /\ live' = live \ {<<"listener", o>>}
      BY <2>1, <2>3, <3>1, StepCloses
    <3> QED
      BY ONLY <2>4, <2>5, <3>1
<1>11. ASSUME NEW o \in PyIds, PkShutdown(o) PROVE PyInv'
  BY <1>11 DEF PkShutdown
<1>12. CASE BeHasty
  BY <1>12, StepNothing DEF BeHasty
<1>13. CASE LoseConnection
  BY <1>13, StepNothing DEF LoseConnection
<1>14. ASSUME NEW o \in PyIds, LetGo(o) PROVE PyInv'
  <2>1. obj' = [obj EXCEPT ![o].held = FALSE] /\ UNCHANGED <<live, collecting, link, misused>>
    BY <1>14 DEF LetGo
  <2>2. [obj[o] EXCEPT !.held = FALSE] \in Objects
    <3>1. obj[o] \in Objects
      BY DEF PyInv, Shape
    <3> QED
      BY ONLY <3>1 DEF Objects
  <2>3. obj' \in [PyIds -> Objects]
    BY <2>1, <2>2 DEF PyInv, Shape
  <2>4. \A p \in PyIds :
          /\ obj'[p].kind = obj[p].kind /\ obj'[p].st = obj[p].st /\ obj'[p].c = obj[p].c
          /\ obj'[p].parent = obj[p].parent /\ obj'[p].of = obj[p].of
          /\ obj'[p].closed = obj[p].closed
    BY <2>1 DEF PyInv, Shape, Objects
  <2>5. \A p \in PyIds : Alive(p)' <=> Alive(p)
    BY <2>4 DEF Alive
  <2>6. Shape'
    BY <2>1, <2>3, <2>4, Ids DEF PyInv, Shape
  <2>7. Referring'
    BY <2>4, <2>5, Ids DEF PyInv, Referring, Alive
  <2>8. Backed' /\ Connected' /\ Paired'
    BY <2>1, <2>4, <2>5, Ids DEF PyInv, Backed, Connected, Paired, Session1
  <2> QED
    BY <2>1, <2>6, <2>7, <2>8 DEF PyInv
<1>15. ASSUME NEW o \in PyIds, Dealloc(o) PROVE PyInv'
  <2>1. Unreferenced(o) /\ Gone(o) /\ UNCHANGED <<collecting, link>>
    BY <1>15 DEF Dealloc
  <2>2. CASE o = Sock
    <3>1. obj[o].kind = "fd"
      BY <2>2 DEF PyInv, Shape
    <3>2. Frees(DeallocFrees(o), DeallocReads(o))
      BY <1>15, <3>1 DEF Dealloc
    <3> QED
      BY <2>1, <2>2, <3>2, StepDeallocSock
  <2>3. CASE o = Ses
    <3>1. obj[Ses].kind = "session"
      BY DEF PyInv, Shape
    <3>2. CASE Frees(DeallocFrees(Ses), DeallocReads(Ses))
      <4> DEFINE S == Of("channel")
                 R == Of("listener") \cup {Session1}
      <4>1. DeallocFrees(Ses) = SessionFrees(S) \cup R
        BY <3>1 DEF DeallocFrees
      <4>2. S \in SUBSET Of("channel") /\ R \in SUBSET (Of("listener") \cup {Session1})
        OBVIOUS
      <4> HIDE DEF S, R
      <4> QED
        BY <2>1, <2>3, <3>2, <4>1, <4>2, StepDeallocSession
    <3>3. CASE \E S \in SUBSET Of("channel") : Frees(SessionFrees(S), DeallocReads(Ses))
      <4>1. PICK S \in SUBSET Of("channel") : Frees(SessionFrees(S), DeallocReads(Ses))
        BY <3>3
      <4> DEFINE R == {}
      <4>2. SessionFrees(S) = SessionFrees(S) \cup R
        OBVIOUS
      <4>3. R \in SUBSET (Of("listener") \cup {Session1})
        OBVIOUS
      <4> HIDE DEF R
      <4> QED
        BY <2>1, <2>3, <4>1, <4>2, <4>3, StepDeallocSession
    <3> QED
      BY <1>15, <2>3, <3>1, <3>2, <3>3 DEF Dealloc
  <2>4. CASE o \in PyIds \ {Sock, Ses}
    <3>1. obj[o].kind # "session"
      BY <2>1, <2>4 DEF Unreferenced, PyInv, Referring, AnyKind
    <3>2. \/ Frees(DeallocFrees(o), DeallocReads(o))
          \/ Dangling(DeallocReads(o)) /\ UNCHANGED live
      BY <1>15, <3>1 DEF Dealloc
    <3> QED
      BY <2>1, <2>4, <3>2, StepDeallocOne
  <2> QED
    BY <2>2, <2>3, <2>4
<1>16. ASSUME NEW o \in PyIds, Clear(o) PROVE PyInv'
  BY <1>0, <1>16 DEF Clear
<1>17. CASE Collect
  BY <1>17 DEF Collect
<1> QED
  BY <1>1, <1>2, <1>3, <1>4, <1>5, <1>6, <1>7, <1>8, <1>9, <1>10, <1>11, <1>12, <1>13,
     <1>14, <1>15, <1>16, <1>17
  DEF PyNext, PyMakes, PyCalls, PyInterpreter

(* An application that keeps off the habits listed at PyHabits never makes *)
(* libssh2 touch or free a structure a second time, whatever the number of *)
(* its objects, the order in which it lets go of them, the calls of        *)
(* __dealloc__ that do not finish and the moment the connection is lost.   *)
THEOREM PyObjectsSafe == ASSUME PyHabits = {} PROVE PySpec => []NoUseAfterFree
<1>1. PyInit => PyInv
  BY InvInit
<1>2. PyInv /\ [PyNext]_pyVars => PyInv'
  <2>1. PyInv /\ UNCHANGED pyVars => PyInv'
    BY StepNothing DEF pyVars
  <2> QED
    BY <2>1, InvStep
<1>3. PyInv => NoUseAfterFree
  BY DEF PyInv
<1> QED
  BY <1>1, <1>2, <1>3, PTL DEF PySpec

----------------------------------------------------------------------------
(* What is allocated has somebody alive who will free it: its own object,  *)
(* or the session, whose libssh2_session_free() frees channels, listeners  *)
(* and itself.                                                             *)
Owned(x) ==
  \/ x[1] \in Abandoned
  \/ x = <<"fd", Sock>> /\ Alive(Sock)
  \/ x = Session1 /\ Alive(Ses)
  \/ x[1] \in {"channel", "listener"} /\ Alive(Ses)
  \/ x[1] \in {"sftp", "agent"} /\ Alive(x[2]) /\ obj[x[2]].kind = x[1]
  \/ x[1] = "handle" /\ Alive(x[2]) /\ obj[x[2]].kind = "handle" /\ ~obj[x[2]].closed
  \/ x[1] = "identity" /\ Alive(x[2]) /\ obj[x[2]].kind = "agent"

(* As long as the calls of libssh2 can finish.  Only a channel that is no  *)
(* SFTP's is shut early, so the close of an SFTP's channel still frees it. *)
OwnedInv ==
  mode = "patient" /\ link # "lost" =>
    /\ \A x \in live : Owned(x)
    /\ link # "up" => \A o \in PyIds \ {Sock, Ses} : ~Alive(o)
    /\ \A n \in shut : n \in PyIds /\ obj[n].kind = "channel" /\ obj[n].st # "none"

(* A call that frees nothing but what nobody owns.                         *)
LEMMA OwnedSame ==
  ASSUME PyInv, OwnedInv, live' \subseteq live,
         \A p \in PyIds : /\ obj'[p].kind = obj[p].kind /\ obj'[p].st = obj[p].st
                          /\ obj[p].kind = "handle" => obj'[p].closed = obj[p].closed,
         \A n \in shut' : n \in shut \/ (n \in PyIds /\ obj[n].kind = "channel" /\ Alive(n)),
         mode' = "patient" => mode = "patient",
         link' # "lost" => link # "lost", link' # "up" => link' = link \/ link' = "lost"
  PROVE  OwnedInv'
<1> SUFFICES ASSUME mode' = "patient", link' # "lost"
             PROVE  /\ \A x \in live' : Owned(x)'
                    /\ link' # "up" => \A o \in PyIds \ {Sock, Ses} : ~Alive(o)'
                    /\ \A n \in shut' : n \in PyIds /\ obj'[n].kind = "channel" /\ obj'[n].st # "none"
  BY DEF OwnedInv, PyIds, Sock, Ses
<1>1. \A p \in PyIds : Alive(p)' <=> Alive(p)
  BY DEF Alive
<1>2. \A x \in live : Owned(x) /\ x[2] \in PyIds
  BY DEF OwnedInv, PyInv, Shape
<1>3. \A x \in live' : Owned(x)'
  BY <1>1, <1>2, Ids DEF Owned, Abandoned, Session1
<1> QED
  BY <1>1, <1>3 DEF OwnedInv, Alive

(* A new object owns the structures that are made for it.                  *)
LEMMA OwnedMake ==
  ASSUME PyInv, OwnedInv, NEW n \in Unmade, NEW kind \in AnyKind, NEW parent, NEW of,
         Make(n, kind), Wraps(n, kind, parent, n, of), Alive(Ses)
  PROVE  OwnedInv'
<1> DEFINE new == PyObject(kind, parent, n, of)
<1>1. /\ n \in PyIds \ {Sock, Ses} /\ ~Alive(n) /\ obj[n].st = "none"
      /\ link = "up"
  BY DEF PyInv, Connected, Make, Unmade, Alive
<1>2. /\ live' = live \cup Structures(kind, n) /\ UNCHANGED <<shut, mode, link>>
  BY DEF Make
<1>3. /\ \A p \in PyIds : p # n => obj'[p] = obj[p]
      /\ obj'[n].kind = kind /\ obj'[n].st = "alive" /\ obj'[n].closed = FALSE
  <2>1. obj' = [obj EXCEPT ![n] = new]
    BY DEF Wraps
  <2>2. new.kind = kind /\ new.st = "alive" /\ new.closed = FALSE
    BY DEF PyObject
  <2> HIDE DEF new
  <2> QED
    BY <1>1, <2>1, <2>2 DEF PyInv, Shape
<1> SUFFICES ASSUME mode = "patient"
             PROVE  /\ \A x \in live' : Owned(x)'
                    /\ \A m \in shut : m \in PyIds /\ obj'[m].kind = "channel" /\ obj'[m].st # "none"
  BY <1>1, <1>2 DEF OwnedInv
<1>4. \A p \in PyIds : Alive(p)' <=> Alive(p) \/ p = n
  BY <1>1, <1>3 DEF Alive
<1>5. \A x \in live : Owned(x) /\ x[2] \in PyIds
  BY <1>1 DEF OwnedInv, PyInv, Shape
<1>6. \A x \in live : Owned(x)'
  BY <1>1, <1>3, <1>4, <1>5, Ids DEF Owned, Abandoned, Session1
<1>7. \A x \in Structures(kind, n) : Owned(x)'
  <2>1. Alive(Ses)' /\ Alive(n)'
    BY <1>1, <1>4, Ids
  <2>2. \A x \in Structures(kind, n) :
          \/ x = <<kind, n>>
          \/ x = <<"channel", n>>
          \/ x = <<"spare", n>>
    BY DEF Structures
  <2>3. Owned(<<"channel", n>>)' /\ Owned(<<"spare", n>>)'
    BY <2>1 DEF Owned, Abandoned
  <2>4. Owned(<<kind, n>>)'
    BY <1>3, <2>1 DEF Owned, Abandoned, AnyKind
  <2> QED
    BY <2>2, <2>3, <2>4
<1>8. \A m \in shut : m # n
  BY <1>1 DEF OwnedInv
<1> QED
  BY <1>1, <1>2, <1>3, <1>6, <1>7, <1>8 DEF OwnedInv

(* An object that goes frees what nobody else owns.                        *)
LEMMA OwnedGone ==
  ASSUME PyInv, OwnedInv, NEW o \in PyIds, Gone(o), UNCHANGED <<shut, mode, link>>,
         mode = "patient" /\ link # "lost" =>
           /\ live' \subseteq live
           /\ \A x \in live' : x[2] = o => x[1] \in {"spare", "publickey", "channel", "listener"}
           /\ o = Ses => \A x \in live' : x[1] \notin {"channel", "listener"}
  PROVE  OwnedInv'
<1>1. /\ \A p \in PyIds : p # o => obj'[p] = obj[p]
      /\ obj'[o].kind = obj[o].kind /\ obj'[o].st = "gone"
  BY DEF PyInv, Shape, Objects, Gone
<1>2. \A p \in PyIds : Alive(p)' <=> Alive(p) /\ p # o
  BY <1>1 DEF Alive
<1> SUFFICES ASSUME mode = "patient", link # "lost"
             PROVE  /\ \A x \in live' : Owned(x)'
                    /\ link # "up" => \A p \in PyIds \ {Sock, Ses} : ~Alive(p)'
                    /\ \A m \in shut : m \in PyIds /\ obj'[m].kind = "channel" /\ obj'[m].st # "none"
  BY DEF OwnedInv, PyIds, Sock, Ses
<1>3. \A x \in live' : Owned(x)'
  <2> SUFFICES ASSUME NEW x \in live' PROVE Owned(x)'
    OBVIOUS
  <2>1. Owned(x) /\ x[2] \in PyIds
    BY DEF OwnedInv, PyInv, Shape
  <2>2. x[2] = o => x[1] \in {"spare", "publickey", "channel", "listener"}
    OBVIOUS
  <2>3. CASE x = <<"fd", Sock>> /\ Alive(Sock)
    BY <1>2, <2>2, <2>3, Ids DEF Owned, Abandoned
  <2>4. CASE x = Session1 /\ Alive(Ses)
    BY <1>2, <2>2, <2>4, Ids DEF Owned, Abandoned, Session1
  <2>5. CASE x[1] \in {"channel", "listener"} /\ Alive(Ses)
    BY <1>2, <2>5, Ids DEF Owned, Abandoned
  <2>6. CASE x[1] \in {"sftp", "agent", "handle", "identity"}
    BY <1>1, <1>2, <2>1, <2>2, <2>6 DEF Owned, Abandoned, Session1
  <2>7. CASE x[1] \in Abandoned
    BY <2>7 DEF Owned, Abandoned
  <2> QED
    BY <2>1, <2>3, <2>4, <2>5, <2>6, <2>7 DEF Owned, Abandoned
<1> QED
  BY <1>1, <1>2, <1>3 DEF OwnedInv

(* The cases of Dealloc: whatever has the number of the object is freed    *)
(* with it, but for a listener, which waits for its session.               *)
LEMMA OwnedDealloc ==
  ASSUME PyInv, OwnedInv, NEW o \in PyIds, Dealloc(o)
  PROVE  OwnedInv'
<1>1. Alive(o) /\ Gone(o) /\ UNCHANGED <<shut, mode, link>>
  BY DEF Dealloc, Unreferenced
<1> SUFFICES ASSUME mode = "patient", link # "lost"
             PROVE  /\ live' \subseteq live
                    /\ \A x \in live' : x[2] = o => x[1] \in {"spare", "publickey", "channel", "listener"}
                    /\ o = Ses => \A x \in live' : x[1] \notin {"channel", "listener"}
  BY <1>1, OwnedGone
<1>0. CASE /\ ShutdownUnfinished /\ obj[o].kind = "publickey"
           /\ Dangling(DeallocReads(o)) /\ UNCHANGED live
  <2>1. o \in PyIds \ {Sock, Ses}
    BY <1>0, Ids DEF PyInv, Shape
  <2>2. \A x \in live : x[2] = o => x[1] \in {"spare", "publickey", "channel", "listener"}
    BY <1>0, <2>1, Ids DEF OwnedInv, Owned, Abandoned, Session1
  <2> QED
    BY <1>0, <2>1, <2>2, Ids
<1> SUFFICES ASSUME ~(/\ ShutdownUnfinished /\ obj[o].kind = "publickey"
                      /\ Dangling(DeallocReads(o)) /\ UNCHANGED live)
             PROVE  /\ live' \subseteq live
                    /\ \A x \in live' : x[2] = o => x[1] \in {"spare", "publickey", "channel", "listener"}
                    /\ o = Ses => \A x \in live' : x[1] \notin {"channel", "listener"}
  BY <1>0
<1>2. live' = live \ DeallocFrees(o)
  BY DEF Dealloc, Unfinished, Frees
<1>3. \A x \in live : /\ Owned(x) /\ x = <<x[1], x[2]>> /\ x[2] \in PyIds
                      /\ x[1] \in AnyKind \cup {"fd", "session", "spare", "identity"}
  BY DEF OwnedInv, PyInv, Shape
<1>4. CASE o = Sock
  <2>1. <<"fd", Sock>> \in DeallocFrees(o) /\ obj[o].kind = "fd"
    BY <1>4, Ids DEF DeallocFrees, PyInv, Shape
  <2> QED
    BY <1>2, <1>3, <1>4, <2>1, Ids DEF Owned, Abandoned, Session1
<1>5. CASE o = Ses
  <2>1. /\ obj[o].kind = "session"
        /\ DeallocFrees(o) = SessionFrees(Of("channel")) \cup Of("listener") \cup {Session1}
    BY <1>5 DEF DeallocFrees, PyInv, Shape
  <2>2. \A x \in live : x[1] = "channel" => x \in SessionFrees(Of("channel"))
    <3> SUFFICES ASSUME NEW x \in live, x[1] = "channel"
                 PROVE  x \in SessionFrees(Of("channel"))
      OBVIOUS
    <3>1. x \in Of("channel") /\ x \in ChannelFrees(x[2])
      BY <1>3 DEF Of, ChannelFrees
    <3> QED
      BY <3>1 DEF SessionFrees
  <2>3. \A x \in live : x[1] = "listener" => x \in Of("listener")
    BY DEF Of
  <2> QED
    BY <1>2, <1>3, <1>5, <2>1, <2>2, <2>3, Ids DEF Owned, Abandoned, Session1
<1>6. CASE o \in PyIds \ {Sock, Ses}
  <2>1. obj[o].kind \in AnyKind /\ obj[o].c = o /\ link = "up"
    BY <1>1, <1>6 DEF OwnedInv, PyInv, Referring
  <2>2. SUFFICES ASSUME NEW x \in live, x[2] = o, x[1] \notin {"spare", "publickey", "channel", "listener"}
                 PROVE  x \in DeallocFrees(o)
    BY <1>2, <1>6
  <2>3. \/ x[1] \in {"sftp", "agent"} /\ obj[o].kind = x[1]
        \/ x[1] = "handle" /\ obj[o].kind = "handle" /\ ~obj[o].closed
        \/ x[1] = "identity" /\ obj[o].kind = "agent"
    BY <1>3, <1>6, <2>2 DEF Owned, Abandoned, Session1
  <2>4. x = <<x[1], o>>
    BY <1>3, <2>2
  <2>5. CASE x[1] = "sftp" /\ obj[o].kind = "sftp"
    <3>1. o \notin shut
      BY <2>5 DEF OwnedInv
    <3>2. x \in ChannelFrees(o)
      BY <2>1, <2>4, <2>5, <3>1 DEF ChannelFrees, CloseFrees
    <3> QED
      BY <2>1, <2>5, <3>2 DEF DeallocFrees
  <2>6. CASE x[1] = "agent" /\ obj[o].kind = x[1]
    BY <2>1, <2>4, <2>6 DEF DeallocFrees
  <2>7. CASE x[1] = "handle" /\ obj[o].kind = "handle" /\ ~obj[o].closed
    BY <2>1, <2>4, <2>7 DEF DeallocFrees
  <2>8. CASE x[1] = "identity" /\ obj[o].kind = "agent"
    BY <2>1, <2>2, <2>8 DEF DeallocFrees, Of
  <2> QED
    BY <2>3, <2>5, <2>6, <2>7, <2>8
<1> QED
  BY <1>4, <1>5, <1>6

(* One step for each action.                                               *)
LEMMA OwnedStep == ASSUME PyHabits = {}, PyInv, OwnedInv, PyNext PROVE OwnedInv'
<1>0. /\ collecting = FALSE /\ obj \in [PyIds -> Objects]
      /\ PyKinds \subseteq AnyKind
  BY PyAssumption DEF PyInv, Shape, AnyKind
<1>1. CASE Handshake
  <2>1. /\ obj' = [obj EXCEPT ![Ses].parent = Sock] /\ UNCHANGED <<live, shut, mode>>
        /\ link' = "up" /\ link = "new"
    BY <1>1 DEF Handshake, KeepsSocket
  <2>2. \A p \in PyIds : /\ obj'[p].kind = obj[p].kind /\ obj'[p].st = obj[p].st
                         /\ obj'[p].closed = obj[p].closed
    BY <1>0, <2>1 DEF Objects
  <2> QED
    BY <2>1, <2>2, OwnedSame
<1>2. CASE OpenOnSession
  <2>1. PICK n \in Unmade, kind \in PyKinds \ {"handle"} :
          Held(Ses, "session") /\ Make(n, kind) /\ Wraps(n, kind, Ses, n, NoObj)
    BY <1>2 DEF OpenOnSession
  <2> QED
    BY <1>0, <2>1, OwnedMake DEF Held
<1>3. CASE OpenHandle
  <2>1. PICK n \in Unmade, s \in PyIds :
          Held(s, "sftp") /\ Make(n, "handle") /\ Wraps(n, "handle", s, n, obj[s].c)
    BY <1>3 DEF OpenHandle
  <2>2. Alive(Ses) /\ "handle" \in AnyKind
    BY <2>1, SessionAlive DEF Held, PyInv, Shape, AnyKind
  <2> QED
    BY <2>1, <2>2, OwnedMake
<1>4. CASE ForwardAccept
  <2>1. PICK n \in Unmade, l \in PyIds :
          Held(l, "listener") /\ Make(n, "channel") /\ Wraps(n, "channel", Ses, n, NoObj)
    BY <1>4 DEF ForwardAccept
  <2>2. Alive(Ses) /\ "channel" \in AnyKind
    BY <2>1, SessionAlive DEF Held, PyInv, Shape, AnyKind
  <2> QED
    BY <2>1, <2>2, OwnedMake
<1>5. CASE GetChannel
  BY <1>5 DEF GetChannel
<1>6. CASE GetIdentities
  <2>1. PICK a \in PyIds :
          /\ Held(a, "agent") /\ live' = live \cup {<<"identity", a>>}
          /\ UNCHANGED <<obj, shut, mode, link>>
    BY <1>6 DEF GetIdentities
  <2>2. Owned(<<"identity", a>>)
    BY <2>1 DEF Owned, Abandoned, Held
  <2>3. \A x : Owned(x)' <=> Owned(x)
    BY <2>1 DEF Owned, Abandoned, Alive, Session1
  <2> QED
    BY <2>1, <2>2, <2>3 DEF OwnedInv, Alive
<1>7. ASSUME NEW o \in PyIds, Use(o) PROVE OwnedInv'
  BY <1>7, OwnedSame DEF Use
<1>8. ASSUME NEW o \in PyIds, ChannelClose(o) PROVE OwnedInv'
  <2>1. Alive(o) /\ obj[o].kind = "channel" /\ obj[o].c = o
    BY <1>8 DEF ChannelClose, Held, PyInv, Shape, Referring
  <2>2. /\ live' \subseteq live /\ \A n \in shut' : n \in shut \/ n = o
        /\ UNCHANGED <<obj, mode, link>>
    BY <1>8, <2>1 DEF ChannelClose, Frees
  <2> QED
    BY <2>1, <2>2, OwnedSame
<1>9. ASSUME NEW o \in PyIds, HandleClose(o) PROVE OwnedInv'
  <2>1. /\ Alive(o) /\ o \in PyIds \ {Sock, Ses} /\ obj[o].kind = "handle" /\ obj[o].c = o
        /\ obj' = [obj EXCEPT ![o].closed = TRUE] /\ UNCHANGED <<shut, mode, link>>
    BY <1>9 DEF HandleClose, Held, PyInv, Shape, Referring
  <2>2. /\ \A p \in PyIds : p # o => obj'[p] = obj[p]
        /\ obj'[o].kind = "handle" /\ obj'[o].st = obj[o].st
    BY <1>0, <2>1 DEF Objects
  <2>3. \A p \in PyIds : Alive(p)' <=> Alive(p)
    BY <2>2 DEF Alive
  <2> SUFFICES ASSUME mode = "patient", link # "lost"
               PROVE  \A x \in live' : Owned(x)'
    BY <2>1, <2>2, <2>3 DEF OwnedInv
  <2>4. live' = live \ {<<"handle", o>>}
    BY <1>9, <2>1 DEF HandleClose, Frees, Unfinished
  <2> SUFFICES ASSUME NEW x \in live' PROVE Owned(x)'
    OBVIOUS
  <2>5. Owned(x) /\ x[2] \in PyIds /\ x = <<x[1], x[2]>> /\ x # <<"handle", o>>
    BY <2>4 DEF OwnedInv, PyInv, Shape
  <2>6. CASE x[2] # o
    BY <2>2, <2>3, <2>5, <2>6, Ids DEF Owned, Abandoned, Session1
  <2>7. CASE x[2] = o
    BY <2>1, <2>2, <2>3, <2>5, <2>7, Ids DEF Owned, Abandoned, Session1
  <2> QED
    BY <2>6, <2>7
<1>10. ASSUME NEW o \in PyIds, ForwardCancel(o) PROVE OwnedInv'
  <2>1. /\ obj[o].kind = "listener" /\ live' \subseteq live /\ UNCHANGED <<shut, mode, link>>
        /\ obj' = [obj EXCEPT ![o].closed = TRUE] \/ UNCHANGED obj
    BY <1>10 DEF ForwardCancel, Held, Frees
  <2>2. \A p \in PyIds : /\ obj'[p].kind = obj[p].kind /\ obj'[p].st = obj[p].st
                         /\ obj[p].kind = "handle" => obj'[p].closed = obj[p].closed
    BY <1>0, <2>1 DEF Objects
  <2> QED
    BY <2>1, <2>2, OwnedSame
<1>11. ASSUME NEW o \in PyIds, PkShutdown(o) PROVE OwnedInv'
  BY <1>11 DEF PkShutdown
<1>12. CASE BeHasty
  BY <1>12, OwnedSame DEF BeHasty
<1>13. CASE LoseConnection
  BY <1>13, OwnedSame DEF LoseConnection
<1>14. ASSUME NEW o \in PyIds, LetGo(o) PROVE OwnedInv'
  <2>1. obj' = [obj EXCEPT ![o].held = FALSE] /\ UNCHANGED <<live, shut, mode, link>>
    BY <1>14 DEF LetGo
  <2>2. \A p \in PyIds : /\ obj'[p].kind = obj[p].kind /\ obj'[p].st = obj[p].st
                         /\ obj'[p].closed = obj[p].closed
    BY <1>0, <2>1 DEF Objects
  <2> QED
    BY <2>1, <2>2, OwnedSame
<1>15. ASSUME NEW o \in PyIds, Dealloc(o) PROVE OwnedInv'
  BY <1>15, OwnedDealloc
<1>16. ASSUME NEW o \in PyIds, Clear(o) PROVE OwnedInv'
  BY <1>0, <1>16 DEF Clear
<1>17. CASE Collect
  BY <1>17 DEF Collect
<1> QED
  BY <1>1, <1>2, <1>3, <1>4, <1>5, <1>6, <1>7, <1>8, <1>9, <1>10, <1>11, <1>12, <1>13,
     <1>14, <1>15, <1>16, <1>17
  DEF PyNext, PyMakes, PyCalls, PyInterpreter

(* The same application, blocking and with its connection up to the end,   *)
(* leaves nothing behind when its objects are gone, in whatever order that *)
(* happened: what a __dealloc__ does not free is the session's to free.    *)
(* The exceptions are the second agent of Session.agent_init() and the     *)
(* LIBSSH2_PUBLICKEY of a PublicKeySystem, which libssh2_publickey_        *)
(* shutdown() leaves to nobody when the peer has not closed its channel.   *)
THEOREM PyObjectsFreed == ASSUME PyHabits = {} PROVE PySpec => []NothingLeaks
<1>1. PyInit => PyInv /\ OwnedInv
  <2> SUFFICES ASSUME PyInit PROVE OwnedInv
    BY InvInit
  <2>1. /\ obj[Sock] = PyObject("fd", NoObj, Sock, NoObj)
        /\ obj[Ses] = PyObject("session", NoObj, Ses, NoObj)
        /\ \A o \in PyIds \ {Sock, Ses} : obj[o] = NotMade
    BY Ids DEF PyInit
  <2>2. Alive(Sock) /\ Alive(Ses) /\ \A o \in PyIds \ {Sock, Ses} : ~Alive(o)
    <3>1. \A k, c : PyObject(k, NoObj, c, NoObj).st = "alive"
      BY DEF PyObject
    <3>2. NotMade.st # "alive"
      BY DEF NotMade, PyObject
    <3> QED
      BY <2>1, <3>1, <3>2 DEF Alive
  <2> QED
    BY <2>2 DEF PyInit, OwnedInv, Owned, Abandoned
<1>2. PyInv /\ OwnedInv /\ [PyNext]_pyVars => PyInv' /\ OwnedInv'
  <2>1. PyInv /\ OwnedInv /\ UNCHANGED pyVars => PyInv' /\ OwnedInv'
    BY StepNothing, OwnedSame DEF pyVars
  <2> QED
    BY <2>1, InvStep, OwnedStep
<1>3. PyInv /\ OwnedInv => NothingLeaks
  <2> SUFFICES ASSUME PyInv, OwnedInv, mode = "patient", link # "lost",
                      \A o \in PyIds : ~Alive(o), NEW x \in live
               PROVE  x[1] \in Abandoned
    BY DEF NothingLeaks
  <2>1. Owned(x) /\ x[2] \in PyIds
    BY DEF OwnedInv, PyInv, Shape
  <2> QED
    BY <2>1, Ids DEF Owned, Abandoned
<1> QED
  BY <1>1, <1>2, <1>3, PTL DEF PySpec

============================================================================
