-------------------------- MODULE ConnectionProofs --------------------------
(***************************************************************************)
(* What is proved of Connection for every value of its constants.  Ids are *)
(* never shared and a listener's queue never exceeds its limit.  In        *)
(* blocking mode without timeouts and keepalives (Orderly) a result is     *)
(* always decided by the reply to its own request; if also no connection   *)
(* is accepted and no agent forwarded (Strict), whoever left a packet half *)
(* sent comes back to finish it.                                           *)
(***************************************************************************)
EXTENDS Connection, TLAPS

\* The session: types, the ids given out so far, and queue_size, which is never less than
\* what waits in the queue.
SessionInv ==
    /\ next_channel \in Nat
    /\ channels \subseteq Nat
    /\ listeners \subseteq Ports
    /\ queue \in [Ports -> Seq(Nat)]
    /\ queue_size \in [Ports -> Nat]
    /\ \A i \in channels : i < next_channel
    /\ \A p \in Ports : \A n \in DOMAIN queue[p] : queue[p][n] < next_channel
    /\ IdsDistinct
    /\ \A p \in Ports : Len(queue[p]) <= queue_size[p]
    /\ QueueMax # 0 => \A p \in Ports : queue_size[p] <= QueueMax

\* The running call: what it works on, and a cancel that frees a channel has one to free.
CallInv ==
    /\ call.op \in AllOps \cup {"none"}
    /\ call.op \in {"accept", "cancel", "listen"} => call.at \in Ports
    /\ pc \in {"accept", "accept_eagain", "accept_error"} => call.op = "accept"
    /\ pc \in {"cancel", "cancel_end", "close"} => call.op = "cancel"
    /\ pc = "free" => call.op = "free"
    /\ pc \in {"close", "close_wait", "unlink"} /\ call.op = "cancel" => queue[call.at] # <<>>

ConnectionInv == SessionInv /\ CallInv

----------------------------------------------------------------------------
(* The ways in which a step changes the session. *)

\* Nothing is lost from a queue.
Grows == \A p \in Ports : Len(queue'[p]) >= Len(queue[p])

\* _libssh2_channel_nextid() returns next_channel: no channel has a higher id.
LEMMA NextIdIsNext == ASSUME SessionInv PROVE NextId = next_channel
<1>1. next_channel \in channels \cup {next_channel}
  OBVIOUS
<1>2. \A j \in channels \cup {next_channel} : j <= next_channel
  BY DEF SessionInv
<1>3. NextId \in channels \cup {next_channel} /\ \A j \in channels \cup {next_channel} : j <= NextId
  BY <1>1, <1>2 DEF NextId
<1>4. QED
  BY <1>2, <1>3 DEF SessionInv

\* A step that leaves the session alone keeps its invariant.
LEMMA SessionSame == ASSUME SessionInv, UNCHANGED sessVars PROVE SessionInv' /\ Grows
<1>1. queue' = queue /\ queue_size' = queue_size /\ channels' = channels
      /\ next_channel' = next_channel /\ listeners' = listeners
  BY DEF sessVars
<1>2. SessionInv'
  BY <1>1 DEF SessionInv, IdsDistinct
<1>3. \A p \in Ports : Len(queue[p]) \in Nat
  BY DEF SessionInv
<1>4. QED
  BY <1>1, <1>2, <1>3 DEF Grows

\* A new id goes to the end of a queue that has room.
LEMMA SessionAdmit ==
    ASSUME SessionInv, NEW p \in listeners, ~QueueFull(p),
           next_channel' = next_channel + 1, UNCHANGED <<channels, listeners>>,
           queue' = [queue EXCEPT ![p] = @ \o <<next_channel>>],
           queue_size' = [queue_size EXCEPT ![p] = @ + 1]
    PROVE  SessionInv' /\ Grows
<1>p. p \in Ports /\ queue[p] \in Seq(Nat) /\ next_channel \in Nat
  BY DEF SessionInv
<1>1. queue'[p] = queue[p] \o <<next_channel>> /\ \A q \in Ports \ {p} : queue'[q] = queue[q]
  BY <1>p DEF SessionInv
<1>2. /\ queue'[p] \in Seq(Nat) /\ Len(queue'[p]) = Len(queue[p]) + 1
      /\ \A n \in 1..Len(queue[p]) : queue'[p][n] = queue[p][n]
      /\ queue'[p][Len(queue[p]) + 1] = next_channel
  BY <1>1, <1>p
<1>3. \A q \in Ports : queue[q] \in Seq(Nat) /\ DOMAIN queue[q] = 1..Len(queue[q])
  BY DEF SessionInv
<1>4. DOMAIN queue'[p] = 1..(Len(queue[p]) + 1)
  BY <1>2
<1>5. \A q \in Ports : \A n \in DOMAIN queue'[q] :
        \/ n \in DOMAIN queue[q] /\ queue'[q][n] = queue[q][n]
        \/ q = p /\ n = Len(queue[p]) + 1 /\ queue'[q][n] = next_channel
  <2> SUFFICES ASSUME NEW q \in Ports, NEW n \in DOMAIN queue'[q]
               PROVE  \/ n \in DOMAIN queue[q] /\ queue'[q][n] = queue[q][n]
                      \/ q = p /\ n = Len(queue[p]) + 1 /\ queue'[q][n] = next_channel
    OBVIOUS
  <2>1. CASE q # p
    BY <2>1, <1>1
  <2>2. CASE q = p
    <3>1. n \in 1..(Len(queue[p]) + 1) /\ Len(queue[p]) \in Nat
      BY <2>2, <1>4, <1>p
    <3>2. n \in 1..Len(queue[p]) \/ n = Len(queue[p]) + 1
      BY <3>1
    <3>3. QED
      BY <3>2, <2>2, <1>2, <1>3, <1>p
  <2>3. QED
    BY <2>1, <2>2
<1>6. queue' \in [Ports -> Seq(Nat)]
  BY <1>1, <1>2, <1>3, <1>p DEF SessionInv
<1>7. \A q \in Ports : queue_size'[q] = IF q = p THEN queue_size[q] + 1 ELSE queue_size[q]
  BY <1>p DEF SessionInv
<1>8. queue_size' \in [Ports -> Nat]
  BY <1>7 DEF SessionInv
<1>9. /\ \A i \in channels' : i < next_channel'
      /\ \A q \in Ports : \A n \in DOMAIN queue'[q] : queue'[q][n] < next_channel'
  <2>1. \A i \in channels : i \in Nat /\ i < next_channel
    BY DEF SessionInv
  <2>2. \A q \in Ports : \A n \in DOMAIN queue[q] : queue[q][n] \in Nat /\ queue[q][n] < next_channel
    BY <1>3 DEF SessionInv
  <2>3. QED
    BY <2>1, <2>2, <1>5, <1>p
<1>10. IdsDistinct'
  <2>1. \A q \in Ports : \A n \in DOMAIN queue'[q] : queue'[q][n] \notin channels'
    <3>1. next_channel \notin channels
      BY <1>p DEF SessionInv
    <3>2. QED
      BY <3>1, <1>5 DEF SessionInv, IdsDistinct
  <2>2. \A q \in Ports : \A n \in DOMAIN queue[q] : queue[q][n] # next_channel
    BY <1>p, <1>3 DEF SessionInv
  <2>3. \A q, r \in Ports : \A m \in DOMAIN queue'[q], n \in DOMAIN queue'[r] :
          queue'[q][m] = queue'[r][n] => q = r /\ m = n
    <3> SUFFICES ASSUME NEW q \in Ports, NEW r \in Ports, NEW m \in DOMAIN queue'[q],
                        NEW n \in DOMAIN queue'[r], queue'[q][m] = queue'[r][n]
                 PROVE  q = r /\ m = n
      OBVIOUS
    <3> DEFINE Old(t, k) == k \in DOMAIN queue[t] /\ queue'[t][k] = queue[t][k]
               New(t, k) == t = p /\ k = Len(queue[p]) + 1 /\ queue'[t][k] = next_channel
    <3>0. (Old(q, m) \/ New(q, m)) /\ (Old(r, n) \/ New(r, n))
      BY <1>5
    <3>1. CASE Old(q, m) /\ Old(r, n)
      <4>1. queue[q][m] = queue[r][n] /\ m \in DOMAIN queue[q] /\ n \in DOMAIN queue[r]
        BY <3>1
      <4>2. QED
        BY <4>1 DEF SessionInv, IdsDistinct
    <3>2. CASE New(q, m) /\ New(r, n)
      BY <3>2
    <3>3. ~(Old(q, m) /\ New(r, n)) /\ ~(New(q, m) /\ Old(r, n))
      BY <2>2
    <3>4. QED
      BY <3>0, <3>1, <3>2, <3>3
  <2>4. QED
    BY <2>1, <2>3 DEF IdsDistinct
<1>11. \A q \in Ports : Len(queue'[q]) <= queue_size'[q]
  <2>1. \A q \in Ports : Len(queue[q]) \in Nat /\ queue_size[q] \in Nat /\ Len(queue[q]) <= queue_size[q]
    BY <1>3 DEF SessionInv
  <2>2. QED
    BY <2>1, <1>7, <1>2, <1>1
<1>12. QueueMax # 0 => \A q \in Ports : queue_size'[q] <= QueueMax
  BY <1>7, <1>p, ConnectionAssumption DEF SessionInv, QueueFull
<1>13. Grows
  <2>1. \A q \in Ports : Len(queue[q]) \in Nat
    BY <1>3
  <2>2. QED
    BY <2>1, <1>1, <1>2 DEF Grows
<1>14. QED
  BY <1>6, <1>8, <1>9, <1>10, <1>11, <1>12, <1>13, <1>p DEF SessionInv

\* The id of a channel that is being opened: no queue has it.
LEMMA SessionOpen ==
    ASSUME SessionInv, channels' = channels \cup {next_channel},
           next_channel' = next_channel + 1, UNCHANGED <<listeners, queue, queue_size>>
    PROVE  SessionInv' /\ Grows
<1>1. \A p \in Ports : /\ Len(queue[p]) \in Nat
                        /\ \A n \in DOMAIN queue[p] :
                             queue[p][n] \in Nat /\ queue[p][n] < next_channel
  BY DEF SessionInv
<1>2. IdsDistinct'
  <2>1. \A p \in Ports : \A n \in DOMAIN queue[p] : queue[p][n] \notin channels'
    BY <1>1 DEF SessionInv, IdsDistinct
  <2>2. QED
    BY <2>1 DEF SessionInv, IdsDistinct
<1>3. \A i \in channels' : i < next_channel'
  BY DEF SessionInv
<1>4. \A p \in Ports : \A n \in DOMAIN queue'[p] : queue'[p][n] < next_channel'
  BY <1>1 DEF SessionInv
<1>5. SessionInv'
  BY <1>2, <1>3, <1>4 DEF SessionInv
<1>6. QED
  BY <1>1, <1>5 DEF Grows

\* Channels go, a listener comes or goes, and a queue may be emptied with its counter.
LEMMA SessionDrop ==
    ASSUME SessionInv, channels' \subseteq channels, next_channel' = next_channel,
           listeners' \subseteq Ports,
           \/ UNCHANGED <<queue, queue_size>>
           \/ \E p \in Ports : /\ queue' = [queue EXCEPT ![p] = <<>>]
                               /\ queue_size' = [queue_size EXCEPT ![p] = 0]
    PROVE  SessionInv'
<1>1. CASE UNCHANGED <<queue, queue_size>>
  BY <1>1 DEF SessionInv, IdsDistinct
<1>2. ASSUME NEW p \in Ports, queue' = [queue EXCEPT ![p] = <<>>],
             queue_size' = [queue_size EXCEPT ![p] = 0]
      PROVE  SessionInv'
  <2>1. queue' \in [Ports -> Seq(Nat)] /\ queue_size' \in [Ports -> Nat]
    BY <1>2 DEF SessionInv
  <2>2. queue'[p] = <<>> /\ queue_size'[p] = 0
        /\ \A q \in Ports \ {p} : queue'[q] = queue[q] /\ queue_size'[q] = queue_size[q]
    BY <1>2 DEF SessionInv
  <2>3. DOMAIN queue'[p] = {} /\ Len(queue'[p]) = 0
    BY <2>2
  <2>4. \A q \in Ports : \A n \in DOMAIN queue'[q] : q # p /\ n \in DOMAIN queue[q]
                                                     /\ queue'[q][n] = queue[q][n]
    BY <2>2, <2>3
  <2>5. IdsDistinct'
    <3>1. IdsDistinct
      BY DEF SessionInv
    <3>2. \A q \in Ports : \A n \in DOMAIN queue'[q] : queue'[q][n] \notin channels'
      BY <3>1, <2>4 DEF IdsDistinct
    <3>3. ASSUME NEW q \in Ports, NEW r \in Ports, NEW m \in DOMAIN queue'[q],
                 NEW n \in DOMAIN queue'[r], queue'[q][m] = queue'[r][n]
          PROVE  q = r /\ m = n
      <4>1. m \in DOMAIN queue[q] /\ n \in DOMAIN queue[r] /\ queue[q][m] = queue[r][n]
        BY <2>4, <3>3
      <4>2. QED
        BY <4>1, <3>1 DEF IdsDistinct
    <3>4. QED
      BY <3>2, <3>3 DEF IdsDistinct
  <2>6. \A q \in Ports : Len(queue'[q]) <= queue_size'[q]
    BY <2>2, <2>3 DEF SessionInv
  <2>7. QueueMax # 0 => \A q \in Ports : queue_size'[q] <= QueueMax
    BY <2>2, ConnectionAssumption DEF SessionInv
  <2>8. QED
    BY <2>1, <2>4, <2>5, <2>6, <2>7 DEF SessionInv
<1>3. QED
  BY <1>1, <1>2

\* What is left of a queue without its head.
LEMMA QueueTail ==
    ASSUME SessionInv, NEW p \in Ports, queue[p] # <<>>,
           queue' = [queue EXCEPT ![p] = Tail(@)]
    PROVE  /\ queue' \in [Ports -> Seq(Nat)]
           /\ Len(queue[p]) \in Nat \ {0} /\ Len(queue'[p]) = Len(queue[p]) - 1
           /\ 1 \in DOMAIN queue[p] /\ Head(queue[p]) = queue[p][1]
           /\ \A q \in Ports \ {p} : queue'[q] = queue[q]
           /\ \A n \in DOMAIN queue'[p] : /\ n \in Nat \ {0} /\ n + 1 \in DOMAIN queue[p]
                                          /\ queue'[p][n] = queue[p][n + 1]
<1>1. queue[p] \in Seq(Nat) /\ DOMAIN queue[p] = 1..Len(queue[p]) /\ Len(queue[p]) \in Nat \ {0}
  BY DEF SessionInv
<1>2. queue'[p] = Tail(queue[p]) /\ \A q \in Ports \ {p} : queue'[q] = queue[q]
  BY DEF SessionInv
<1>3. /\ Tail(queue[p]) \in Seq(Nat) /\ Len(Tail(queue[p])) = Len(queue[p]) - 1
      /\ DOMAIN Tail(queue[p]) = 1..(Len(queue[p]) - 1)
      /\ \A n \in 1..(Len(queue[p]) - 1) : Tail(queue[p])[n] = queue[p][n + 1]
  BY <1>1
<1>4. queue' \in [Ports -> Seq(Nat)]
  BY <1>2, <1>3 DEF SessionInv
<1>5. \A n \in 1..(Len(queue[p]) - 1) : n \in Nat \ {0} /\ n + 1 \in 1..Len(queue[p])
  BY <1>1
<1>6. QED
  BY <1>1, <1>2, <1>3, <1>4, <1>5

\* The head of a queue is freed: queue_size is not told.
LEMMA SessionTail ==
    ASSUME SessionInv, NEW p \in Ports, queue[p] # <<>>,
           queue' = [queue EXCEPT ![p] = Tail(@)],
           UNCHANGED <<channels, next_channel, listeners, queue_size>>
    PROVE  SessionInv'
<1>1. \A q \in Ports : \A n \in DOMAIN queue'[q] :
        IF q = p THEN n \in Nat /\ n + 1 \in DOMAIN queue[p] /\ queue'[q][n] = queue[p][n + 1]
        ELSE n \in DOMAIN queue[q] /\ queue'[q][n] = queue[q][n]
  <2>1. \A n \in DOMAIN queue'[p] : /\ n \in Nat \ {0} /\ n + 1 \in DOMAIN queue[p]
                                    /\ queue'[p][n] = queue[p][n + 1]
    BY QueueTail
  <2>2. \A q \in Ports \ {p} : queue'[q] = queue[q]
    BY QueueTail
  <2> QED
    BY ONLY <2>1, <2>2
<1>2. \A q, r \in Ports : \A m \in DOMAIN queue'[q], n \in DOMAIN queue'[r] :
        queue'[q][m] = queue'[r][n] => q = r /\ m = n
  <2> SUFFICES ASSUME NEW q \in Ports, NEW r \in Ports, NEW m \in DOMAIN queue'[q],
                      NEW n \in DOMAIN queue'[r], queue'[q][m] = queue'[r][n]
               PROVE  q = r /\ m = n
    OBVIOUS
  <2>1. CASE q = p /\ r = p
    <3>1. m \in Nat /\ n \in Nat /\ m + 1 \in DOMAIN queue[p] /\ n + 1 \in DOMAIN queue[p]
          /\ queue[p][m + 1] = queue[p][n + 1]
      BY <2>1, <1>1
    <3>2. m + 1 = n + 1
      BY <3>1 DEF SessionInv, IdsDistinct
    <3>3. QED
      BY <3>1, <3>2, <2>1
  <2>2. CASE ~(q = p /\ r = p)
    BY <2>2, <1>1 DEF SessionInv, IdsDistinct
  <2>3. QED
    BY <2>1, <2>2
<1>3. IdsDistinct'
  <2>1. \A q \in Ports : \A n \in DOMAIN queue'[q] : queue'[q][n] \notin channels'
    BY <1>1 DEF SessionInv, IdsDistinct
  <2>2. QED
    BY <2>1, <1>2 DEF IdsDistinct
<1>4. \A q \in Ports : \A n \in DOMAIN queue'[q] : queue'[q][n] < next_channel'
  BY <1>1 DEF SessionInv
<1>5. \A q \in Ports : Len(queue'[q]) <= queue_size'[q]
  BY QueueTail DEF SessionInv
<1>6. QED
  BY <1>3, <1>4, <1>5, QueueTail DEF SessionInv

\* The head of a queue becomes a channel of the session.
LEMMA SessionTake ==
    ASSUME SessionInv, NEW p \in Ports, queue[p] # <<>>,
           channels' = channels \cup {Head(queue[p])},
           queue' = [queue EXCEPT ![p] = Tail(@)],
           queue_size' = [queue_size EXCEPT ![p] = @ - 1],
           UNCHANGED <<next_channel, listeners>>
    PROVE  SessionInv'
<1>1. \A q \in Ports : \A n \in DOMAIN queue'[q] :
        IF q = p THEN n \in Nat \ {0} /\ n + 1 \in DOMAIN queue[p] /\ queue'[q][n] = queue[p][n + 1]
        ELSE n \in DOMAIN queue[q] /\ queue'[q][n] = queue[q][n]
  <2>1. \A n \in DOMAIN queue'[p] : /\ n \in Nat \ {0} /\ n + 1 \in DOMAIN queue[p]
                                    /\ queue'[p][n] = queue[p][n + 1]
    BY QueueTail
  <2>2. \A q \in Ports \ {p} : queue'[q] = queue[q]
    BY QueueTail
  <2> QED
    BY ONLY <2>1, <2>2
<1>2. \A q, r \in Ports : \A m \in DOMAIN queue'[q], n \in DOMAIN queue'[r] :
        queue'[q][m] = queue'[r][n] => q = r /\ m = n
  <2> SUFFICES ASSUME NEW q \in Ports, NEW r \in Ports, NEW m \in DOMAIN queue'[q],
                      NEW n \in DOMAIN queue'[r], queue'[q][m] = queue'[r][n]
               PROVE  q = r /\ m = n
    OBVIOUS
  <2>1. CASE q = p /\ r = p
    <3>1. m \in Nat /\ n \in Nat /\ m + 1 \in DOMAIN queue[p] /\ n + 1 \in DOMAIN queue[p]
          /\ queue[p][m + 1] = queue[p][n + 1]
      BY <2>1, <1>1
    <3>2. m + 1 = n + 1
      BY <3>1 DEF SessionInv, IdsDistinct
    <3>3. QED
      BY <3>1, <3>2, <2>1
  <2>2. CASE ~(q = p /\ r = p)
    BY <2>2, <1>1 DEF SessionInv, IdsDistinct
  <2>3. QED
    BY <2>1, <2>2
<1>3. \A q \in Ports : \A n \in DOMAIN queue'[q] : queue'[q][n] \notin channels'
  <2> SUFFICES ASSUME NEW q \in Ports, NEW n \in DOMAIN queue'[q]
               PROVE  queue'[q][n] \notin channels /\ queue'[q][n] # queue[p][1]
    BY QueueTail
  <2>1. queue'[q][n] \notin channels
    BY <1>1 DEF SessionInv, IdsDistinct
  <2>2. 1 \in DOMAIN queue[p]
    BY QueueTail
  <2>3. CASE q = p
    <3>1. n + 1 # 1 /\ n + 1 \in DOMAIN queue[p] /\ queue'[q][n] = queue[p][n + 1]
      BY <2>3, <1>1
    <3>2. QED
      BY <3>1, <2>1, <2>2 DEF SessionInv, IdsDistinct
  <2>4. CASE q # p
    BY <2>4, <2>1, <2>2, <1>1 DEF SessionInv, IdsDistinct
  <2>5. QED
    BY <2>1, <2>3, <2>4
<1>4. \A q \in Ports : \A n \in DOMAIN queue'[q] : queue'[q][n] < next_channel'
  BY <1>1 DEF SessionInv
<1>5. Head(queue[p]) \in Nat /\ Head(queue[p]) < next_channel
  BY QueueTail DEF SessionInv
<1>6. queue_size' \in [Ports -> Nat] /\ \A q \in Ports : Len(queue'[q]) <= queue_size'[q]
  <2>1. Len(queue[p]) \in Nat \ {0} /\ Len(queue[p]) <= queue_size[p] /\ queue_size[p] \in Nat
    BY QueueTail DEF SessionInv
  <2>2. queue_size'[p] = queue_size[p] - 1 /\ \A q \in Ports \ {p} : queue_size'[q] = queue_size[q]
    BY DEF SessionInv
  <2>3. queue_size[p] - 1 \in Nat
    BY <2>1
  <2>4. queue_size' \in [Ports -> Nat]
    BY <2>3 DEF SessionInv
  <2>5. QED
    BY <2>1, <2>2, <2>4, QueueTail DEF SessionInv
<1>7. QueueMax # 0 => \A q \in Ports : queue_size'[q] <= QueueMax
  <2>1. \A q \in Ports : queue_size[q] \in Nat /\ queue_size'[q] \in {queue_size[q], queue_size[q] - 1}
    BY DEF SessionInv
  <2>2. QED
    BY <2>1, ConnectionAssumption DEF SessionInv
<1>8. IdsDistinct'
  BY <1>2, <1>3 DEF IdsDistinct
<1>9. \A i \in channels' : i \in Nat /\ i < next_channel'
  BY <1>5 DEF SessionInv
<1>10. QED
  BY <1>4, <1>6, <1>7, <1>8, <1>9, QueueTail DEF SessionInv

\* An id is given out and the channel is not linked anywhere.
LEMMA SessionSkip ==
    ASSUME SessionInv, next_channel' = next_channel + 1,
           UNCHANGED <<channels, listeners, queue, queue_size>>
    PROVE  SessionInv' /\ Grows
<1>1. \A p \in Ports : /\ Len(queue[p]) \in Nat
                        /\ \A n \in DOMAIN queue[p] :
                             queue[p][n] \in Nat /\ queue[p][n] < next_channel
  BY DEF SessionInv
<1>2. \A p \in Ports : \A n \in DOMAIN queue'[p] : queue'[p][n] < next_channel'
  BY <1>1 DEF SessionInv
<1>3. \A i \in channels' : i < next_channel'
  BY DEF SessionInv
<1>4. IdsDistinct'
  BY DEF SessionInv, IdsDistinct
<1>5. QED
  BY <1>1, <1>2, <1>3, <1>4 DEF SessionInv, Grows

\* packet_queue_listener(), fresh or entered again, confirming or refusing.
LEMMA ListenerKeeps == ASSUME SessionInv, QueueListener PROVE SessionInv' /\ Grows
<1>1. ASSUME NEW p, NEW tag, Admit(p, tag) PROVE SessionInv' /\ Grows
  <2>1. /\ p \in listeners /\ ~QueueFull(p)
        /\ next_channel' = next_channel + 1
        /\ UNCHANGED <<channels, listeners>>
        /\ \/ /\ queue' = [queue EXCEPT ![p] = @ \o <<next_channel>>]
              /\ queue_size' = [queue_size EXCEPT ![p] = @ + Len(<<next_channel>>)]
           \/ UNCHANGED <<queue, queue_size>>
    BY <1>1, NextIdIsNext DEF Admit, Confirm
  <2>2. Len(<<next_channel>>) = 1
    OBVIOUS
  <2>3. CASE UNCHANGED <<queue, queue_size>>
    BY <2>1, <2>3, SessionSkip
  <2>4. CASE /\ queue' = [queue EXCEPT ![p] = @ \o <<next_channel>>]
             /\ queue_size' = [queue_size EXCEPT ![p] = @ + Len(<<next_channel>>)]
    <3>1. queue_size' = [queue_size EXCEPT ![p] = @ + 1]
      BY <2>2, <2>4
    <3>2. QED
      BY <2>1, <2>4, <3>1, SessionAdmit
  <2>5. QED
    BY <2>1, <2>3, <2>4
<1>2. ASSUME AdmitResumed PROVE SessionInv' /\ Grows
  <2> DEFINE p == packAdd.at
  <2>1. /\ p \in listeners
        /\ UNCHANGED <<channels, listeners, next_channel>>
        /\ \/ /\ queue' = [queue EXCEPT ![p] = @ \o <<>>]
              /\ queue_size' = [queue_size EXCEPT ![p] = @ + Len(<<>>)]
           \/ UNCHANGED <<queue, queue_size>>
    BY <1>2 DEF AdmitResumed, Confirm
  <2>2. p \in Ports /\ queue[p] \in Seq(Nat) /\ queue_size[p] \in Nat
    BY <2>1 DEF SessionInv
  <2>3. queue[p] \o <<>> = queue[p]
    BY <2>2
  <2>4. queue_size[p] + Len(<<>>) = queue_size[p]
    BY <2>2
  <2>5. queue' = queue /\ queue_size' = queue_size
    BY <2>1, <2>3, <2>4 DEF SessionInv
  <2>6. QED
    BY <2>1, <2>5, SessionSame DEF sessVars
<1>3. ASSUME NEW p, NEW tag, Refuse(p, tag) PROVE SessionInv' /\ Grows
  BY <1>3, SessionSame DEF Refuse
<1>4. QED
  BY <1>1, <1>2, <1>3 DEF QueueListener

\* _libssh2_transport_read(), whatever it receives.
LEMMA ReadKeeps == ASSUME SessionInv, NEW got, TransportRead(got) PROVE SessionInv' /\ Grows
<1>1. CASE UNCHANGED sessVars
  BY <1>1, SessionSame
<1>2. CASE QueueListener
  BY <1>2, ListenerKeeps
<1>3. QED
  BY <1>1, <1>2 DEF TransportRead

\* A call that keeps its arguments keeps its invariant while no queue loses anything.
LEMMA CallKept ==
    ASSUME ConnectionInv, SessionInv', Grows, call' = call,
           pc' \in {"close", "close_wait", "unlink"} /\ call.op = "cancel" =>
             pc \in {"close", "close_wait", "unlink"},
           pc' \in {"accept", "accept_eagain", "accept_error"} => call.op = "accept",
           pc' \in {"cancel", "cancel_end", "close"} => call.op = "cancel",
           pc' = "free" => call.op = "free"
    PROVE  CallInv'
<1>1. ASSUME pc' \in {"close", "close_wait", "unlink"}, call.op = "cancel"
      PROVE  queue'[call.at] # <<>>
  <2>1. call.at \in Ports /\ queue[call.at] # <<>>
    BY <1>1 DEF ConnectionInv, CallInv
  <2>2. queue[call.at] \in Seq(Nat) /\ queue'[call.at] \in Seq(Nat)
    BY <2>1 DEF ConnectionInv, SessionInv
  <2>3. Len(queue[call.at]) > 0 /\ Len(queue'[call.at]) >= Len(queue[call.at])
    BY <2>1, <2>2 DEF Grows
  <2>4. QED
    BY <2>2, <2>3
<1>2. QED
  BY <1>1 DEF ConnectionInv, CallInv

\* A call that returns leaves nothing to say of it, and one that waits, reads or fails
\* only what it is about.
LEMMA CallMoved ==
    ASSUME CallInv,
           \/ pc' = "app" /\ call' = NoCall
           \/ pc' \in {"wait", "request", "read", "fail", "resize"} /\ call' = call
    PROVE  CallInv'
BY DEF CallInv, NoCall

\* The end of an exchange: a channel goes or a listener comes.
LEMMA OverKeeps ==
    ASSUME ConnectionInv, NEW good, NEW got, Over(good, got), Outcome(good)
    PROVE  ConnectionInv'
<1>1. SessionInv'
  <2>1. channels' \subseteq channels /\ next_channel' = next_channel
    BY DEF Outcome
  <2>2. listeners' \subseteq Ports
    BY DEF Outcome, ConnectionInv, SessionInv, CallInv
  <2>3. \/ UNCHANGED <<queue, queue_size>>
        \/ \E p \in Ports : /\ queue' = [queue EXCEPT ![p] = <<>>]
                            /\ queue_size' = [queue_size EXCEPT ![p] = 0]
    <3>1. CASE call.op = "listen" /\ good
      <4>1. call.at \in Ports
        BY <3>1 DEF ConnectionInv, CallInv
      <4>2. /\ queue' = [queue EXCEPT ![call.at] = <<>>]
            /\ queue_size' = [queue_size EXCEPT ![call.at] = 0]
        BY <3>1 DEF Outcome
      <4>3. QED
        BY <4>1, <4>2
    <3>2. CASE ~(call.op = "listen" /\ good)
      BY <3>2 DEF Outcome
    <3>3. QED
      BY <3>1, <3>2
  <2>4. QED
    BY <2>1, <2>2, <2>3, SessionDrop DEF ConnectionInv
<1>2. CallInv'
  BY CallMoved DEF Over, Leave, Return, ConnectionInv
<1>3. QED
  BY <1>1, <1>2 DEF ConnectionInv

\* A call that only starts.
LEMMA StartKeeps ==
    ASSUME ConnectionInv, NEW op \in AllOps, NEW at, NEW kind, Start(op, at, kind),
           op \in {"accept", "cancel", "listen"} => at \in Ports
    PROVE  ConnectionInv'
<1>1. SessionInv'
  BY SessionSame DEF Start, ConnectionInv
<1>2. pc' = op /\ call'.op = op /\ call'.at = at
  BY DEF Start
<1>3. CallInv'
  BY <1>2 DEF CallInv, AllOps
<1>4. QED
  BY <1>1, <1>3 DEF ConnectionInv

\* Every step keeps the invariant.
LEMMA StepKeeps == ASSUME ConnectionInv, [Next]_vars PROVE ConnectionInv'
<1> USE DEF ConnectionInv
<1>calls. ASSUME Calls PROVE ConnectionInv'
  <2>1. CASE CallOpen
    BY <2>1, StartKeeps DEF CallOpen, AllOps
  <2>2. CASE CallKeepalive
    <3>1. UNCHANGED sessVars /\ pc' = pc /\ call' = call
      BY <2>2 DEF CallKeepalive, callVars
    <3>2. SessionInv' /\ Grows
      BY <3>1, SessionSame
    <3>3. QED
      BY <3>1, <3>2, CallKept DEF CallInv
  <2>3. ASSUME NEW p \in Ports, CallListen(p) \/ CallAccept(p) \/ CallCancel(p)
        PROVE  ConnectionInv'
    BY <2>3, StartKeeps DEF CallListen, CallAccept, CallCancel, AllOps
  <2>4. ASSUME NEW c, CallFree(c) \/ CallResize(c) PROVE ConnectionInv'
    BY <2>4, StartKeeps DEF CallFree, CallResize, AllOps
  <2>5. ASSUME NEW c, NEW k, CallRequest(c, k) PROVE ConnectionInv'
    BY <2>5, StartKeeps DEF CallRequest, AllOps
  <2>6. QED
    BY <1>calls, <2>1, <2>2, <2>3, <2>4, <2>5 DEF Calls
<1>build. CASE Build
  <2>1. SessionInv' /\ Grows
    BY <1>build, NextIdIsNext, SessionOpen, SessionSame DEF Build
  <2>2. pc' = pc /\ call' = call
    BY <1>build DEF Build, callVars
  <2>3. QED
    BY <2>1, <2>2, CallKept DEF CallInv
<1>send. CASE SendRequest
  <2>1. UNCHANGED sessVars
    BY <1>send DEF SendRequest
  <2>2. \/ pc' = pc /\ call' = call
        \/ pc' \in {"wait", "fail"} /\ call' = call
        \/ pc' = "app" /\ call' = NoCall
    BY <1>send DEF SendRequest, Stay, Again, Return
  <2>3. SessionInv' /\ Grows
    BY <2>1, SessionSame
  <2>4. QED
    BY <2>2, <2>3, CallKept, CallMoved DEF CallInv
<1>ask. CASE Ask
  <2>1. ASSUME NEW good, NEW got, Over(good, got), Outcome(good) PROVE ConnectionInv'
    BY <2>1, OverKeeps
  <2>2. CASE pc' = "read" /\ UNCHANGED <<brigade, sessVars, stateVars, call, answer>>
    BY <2>2, SessionSame, CallMoved
  <2>3. QED
    BY <1>ask, <2>1, <2>2 DEF Ask
<1>read. CASE ReadReply
  <2>1. ASSUME NEW good, NEW got, Over(good, got), Outcome(good) PROVE ConnectionInv'
    BY <2>1, OverKeeps
  <2>2. ASSUME NEW got, TransportRead(got), pc = "read",
               Stay \/ Again \/ (pc' = "fail" /\ UNCHANGED <<call, answer>>)
        PROVE  ConnectionInv'
    <3>1. SessionInv'
      BY <2>2, ReadKeeps
    <3>2. \/ pc' \in {"read", "wait", "fail"} /\ call' = call
          \/ pc' = "app" /\ call' = NoCall
      BY <2>2 DEF Stay, Again, Return
    <3>3. QED
      BY <3>1, <3>2, CallMoved
  <2>3. QED
    BY <1>read, <2>1, <2>2 DEF ReadReply
<1>fail. CASE Fail
  BY <1>fail, OverKeeps DEF Fail
<1>wait. CASE WaitSocket
  <2>1. SessionInv' /\ Grows
    BY <1>wait, SessionSame DEF WaitSocket
  <2>2. \/ pc' = call.op /\ call' = call
        \/ pc' = "request" /\ call' = call
        \/ pc' = "app" /\ call' = NoCall
    BY <1>wait DEF WaitSocket, Leave, Return
  <2>3. CASE pc' = call.op /\ call' = call
    BY <2>1, <2>3, CallKept DEF CallInv, AllOps
  <2>4. QED
    BY <2>1, <2>2, <2>3, CallMoved
<1>resize. CASE Resize
  <2>1. SessionInv' /\ Grows
    BY <1>resize, SessionSame DEF Resize
  <2>2. \/ pc' \in {"resize", "wait"} /\ call' = call
        \/ pc' = "app" /\ call' = NoCall
    BY <1>resize DEF Resize, Stay, Again, Return
  <2>3. QED
    BY <2>1, <2>2, CallMoved
<1>aread. CASE AcceptRead
  <2>1. SessionInv' /\ Grows
    BY <1>aread, ReadKeeps DEF AcceptRead
  <2>2. pc' \in {"accept", "accept_eagain", "accept_error"} /\ call' = call /\ call.op = "accept"
    BY <1>aread DEF AcceptRead, CallInv
  <2>3. QED
    BY <2>1, <2>2, CallKept
<1>atake. CASE AcceptTake
  <2>1. call.op = "accept" /\ call.at \in Ports
    BY <1>atake DEF AcceptTake, CallInv
  <2>2. SessionInv'
    BY <1>atake, <2>1, SessionTake, SessionSame DEF AcceptTake
  <2>3. \/ pc' = "wait" /\ call' = call
        \/ pc' = "app" /\ call' = NoCall
    BY <1>atake DEF AcceptTake, Again, Return
  <2>4. QED
    BY <2>2, <2>3, CallMoved
<1>csend. CASE CancelSend
  <2>1. SessionInv' /\ Grows
    BY <1>csend, SessionSame DEF CancelSend
  <2>2. \/ pc' \in {"cancel", "wait"} /\ call' = call /\ call.op = "cancel"
        \/ pc' = "app" /\ call' = NoCall
    BY <1>csend DEF CancelSend, Stay, Again, Return, CallInv
  <2>3. QED
    BY <2>1, <2>2, CallKept, CallMoved
<1>cnext. CASE CancelNext
  <2>1. SessionInv' /\ Grows
    BY <1>cnext, SessionSame DEF CancelNext
  <2>2. /\ pc' = "close" /\ call' = call /\ queue' = queue
        /\ call.op = "cancel" /\ queue[call.at] # <<>>
    BY <1>cnext DEF CancelNext, CallInv, sessVars
  <2>3. QED
    BY <2>1, <2>2 DEF CallInv
<1>cend. CASE CancelEnd
  <2>1. call.op = "cancel" /\ call.at \in Ports
    BY <1>cend DEF CancelEnd, CallInv
  <2>2. SessionInv'
    <3>1. listeners' \subseteq Ports /\ channels' \subseteq channels /\ next_channel' = next_channel
      BY <1>cend DEF CancelEnd, SessionInv
    <3>2. \E p \in Ports : /\ queue' = [queue EXCEPT ![p] = <<>>]
                          /\ queue_size' = [queue_size EXCEPT ![p] = 0]
      BY <1>cend, <2>1 DEF CancelEnd
    <3>3. QED
      BY <3>1, <3>2, SessionDrop
  <2>3. pc' = "app" /\ call' = NoCall
    BY <1>cend DEF CancelEnd, Return
  <2>4. QED
    BY <2>2, <2>3, CallMoved
<1>clsend. CASE CloseSend
  <2>1. SessionInv' /\ Grows
    BY <1>clsend, SessionSame DEF CloseSend
  <2>2. \/ pc' \in {"close_wait", "wait", "unlink"} /\ call' = call
        \/ pc' = "app" /\ call' = NoCall
    BY <1>clsend DEF CloseSend, Again, Return
  <2>3. call.op = "cancel" => pc = "close"
    BY <1>clsend DEF CloseSend, CallInv
  <2>4. QED
    BY <2>1, <2>2, <2>3, CallKept, CallMoved
<1>clwait. CASE CloseWait
  <2>1. SessionInv' /\ Grows
    BY <1>clwait, SessionSame, ReadKeeps DEF CloseWait
  <2>2. \/ pc' \in {"wait", "unlink"} /\ call' = call
        \/ pc' = "app" /\ call' = NoCall
    BY <1>clwait DEF CloseWait, Again, Return
  <2>3. pc = "close_wait"
    BY <1>clwait DEF CloseWait
  <2>4. QED
    BY <2>1, <2>2, <2>3, CallKept, CallMoved
<1>unlink. CASE Unlink
  <2>1. CASE call.op = "free"
    <3>1. /\ channels' \subseteq channels /\ UNCHANGED <<next_channel, listeners, queue, queue_size>>
          /\ pc' = "app" /\ call' = NoCall
      BY <1>unlink, <2>1 DEF Unlink, Return
    <3>2. listeners' \subseteq Ports
      BY <3>1 DEF SessionInv
    <3>3. SessionInv'
      BY <3>1, <3>2, SessionDrop
    <3>4. QED
      BY <3>1, <3>3, CallMoved
  <2>2. CASE call.op = "cancel"
    <3>1. call.at \in Ports /\ queue[call.at] # <<>>
      BY <1>unlink, <2>2 DEF Unlink, CallInv
    <3>2. /\ queue' = [queue EXCEPT ![call.at] = Tail(@)]
          /\ UNCHANGED <<channels, next_channel, listeners, queue_size>>
          /\ pc' \in {"cancel", "cancel_end"} /\ call' = call
      BY <1>unlink, <2>2 DEF Unlink
    <3>3. SessionInv'
      BY <3>1, <3>2, SessionTail
    <3>4. CallInv'
      BY <3>2, <2>2 DEF CallInv
    <3>5. QED
      BY <3>3, <3>4
  <2>3. QED
    BY <1>unlink, <2>1, <2>2 DEF Unlink
<1>same. ASSUME UNCHANGED sessVars, UNCHANGED callVars PROVE ConnectionInv'
  <2>1. SessionInv' /\ Grows
    BY <1>same, SessionSame
  <2>2. pc' = pc /\ call' = call
    BY <1>same DEF callVars
  <2>3. QED
    BY <2>1, <2>2, CallKept DEF CallInv
<1>peer. CASE PeerReceive \/ \E p \in Ports : PeerForward(p)
  <2>1. UNCHANGED clientVars
    BY <1>peer DEF PeerReceive, PeerForward
  <2>2. QED
    BY <2>1, <1>same DEF clientVars
<1>stutter. CASE UNCHANGED vars
  BY <1>stutter, <1>same DEF vars
<1>steps. CASE Steps
  BY <1>steps, <1>build, <1>send, <1>ask, <1>read, <1>fail, <1>wait, <1>resize, <1>aread, <1>atake,
     <1>csend, <1>cnext, <1>cend, <1>clsend, <1>clwait, <1>unlink DEF Steps
<1>qed. QED
  BY <1>steps, <1>calls, <1>peer, <1>stutter DEF Next

\* The initial state has no channels and no listeners.
LEMMA InitHolds == Init => ConnectionInv
<1> SUFFICES ASSUME Init PROVE ConnectionInv
  OBVIOUS
<1>1. \A p \in Ports : queue[p] = <<>> /\ queue_size[p] = 0
  BY DEF Init
<1>2. \A p \in Ports : DOMAIN queue[p] = {} /\ Len(queue[p]) = 0
  BY <1>1
<1>3. queue \in [Ports -> Seq(Nat)] /\ queue_size \in [Ports -> Nat]
  BY DEF Init
<1>4. IdsDistinct
  BY <1>2 DEF IdsDistinct, Init
<1>5. SessionInv
  BY <1>1, <1>2, <1>3, <1>4, ConnectionAssumption DEF SessionInv, Init
<1>6. CallInv
  BY DEF Init, CallInv, NoCall
<1>7. QED
  BY <1>5, <1>6 DEF ConnectionInv

\* The invariant behind the two theorems.
LEMMA ConnectionInvHolds == Spec => []ConnectionInv
BY InitHolds, StepKeeps, PTL DEF Spec

\* However many channels are opened, forwarded, accepted, freed or tossed out, no two of
\* them share an id: a packet for one is never taken for a packet of the other.
THEOREM IdsStayDistinct == Spec => []IdsDistinct
<1>1. ConnectionInv => IdsDistinct
  BY DEF ConnectionInv, SessionInv
<1>2. QED
  BY <1>1, ConnectionInvHolds, PTL

\* However connections come, are accepted or tossed out, and whatever fails in between, a
\* listener's queue stays within the size it was asked for.
THEOREM QueuesStayBounded == Spec => []QueueBounded
<1>1. ConnectionInv => QueueBounded
  <2> SUFFICES ASSUME ConnectionInv, QueueMax # 0, NEW p \in Ports
               PROVE  Len(queue[p]) <= QueueMax
    BY DEF QueueBounded
  <2>1. Len(queue[p]) \in Nat /\ queue_size[p] \in Nat
        /\ Len(queue[p]) <= queue_size[p] /\ queue_size[p] <= QueueMax
    BY DEF ConnectionInv, SessionInv
  <2>2. QED
    BY <2>1, ConnectionAssumption
<1>2. QED
  BY <1>1, ConnectionInvHolds, PTL

----------------------------------------------------------------------------
(* Requests and their replies. *)

\* The use of the library under which a call is over when it returns: blocking mode
\* without a timeout, and no keepalives.
Orderly == Blocking /\ ~MayTimeout /\ "keepalive" \notin Ops

Requests == {"open", "listen", "request"}
MsgKinds == Requests \cup Replies \cup
            {"none", "resize", "cancel", "close", "closed", "confirm", "refuse", "forward"}
Packet == [kind : MsgKinds, at : Nat, tag : Nat]

Points == [point : {"idle", "jump2"}, state : {"idle", "created", "sent"}, at : Nat,
           tag : Nat, conf : Packet]

PacketsTyped ==
    /\ toPeer \in Seq(Packet) /\ toClient \in Seq(Packet) /\ odata \in Packet
    /\ exchange \in [Exchanges -> [state : {"idle", "created", "sent", "end"}, packet : Packet]]
    /\ packAdd \in Points
    /\ tags \in Nat /\ forwards \in Nat

\* Ids are given out once per open and once per forwarded connection: the bound on both
\* bounds the ids, and each connection that is still to come has one left.
IdsLeft ==
    /\ forwards <= MaxForwards
    /\ next_channel <= tags + forwards /\ next_channel <= MaxTags + forwards
    /\ \A i \in DOMAIN toClient : toClient[i].kind = "forward" =>
         /\ toClient[i].tag <= forwards
         /\ next_channel + 1 <= tags + toClient[i].tag
         /\ next_channel + 1 <= MaxTags + toClient[i].tag
    /\ \A i, j \in DOMAIN toClient :
         i < j /\ toClient[i].kind = "forward" /\ toClient[j].kind = "forward" =>
             toClient[i].tag + 1 <= toClient[j].tag

\* The call that is running, and the exchange it is about.
CallShape ==
    /\ call.op \in {"open", "listen"} => call.kind = call.op
    /\ call.op \in {"request", "resize"} => call.kind \in Kinds /\ call.at \in Ids
    /\ pc \in {"open", "listen", "request", "resize", "accept", "cancel", "free"} => pc = call.op
    /\ pc \in {"read", "fail"} => call.op \in Requests
    /\ pc \in {"close", "close_wait", "unlink"} => call.op \in {"free", "cancel"}
    /\ pc = "wait" => call.op # "none"
    /\ pc = "app" => call.op = "none"
    /\ call.op = "free" => call.at \in Nat
    /\ pc = "open" /\ Opening.state = "idle" => tags < MaxTags

Asking == call.op \in Requests \cup {"resize"}
Awaiting == call.op \in Requests /\ exchange[Mine].state = "sent"

\* Only the exchange of the running call is under way.
OneExchange ==
    /\ \A x \in Exchanges : exchange[x].state \in {"created", "sent"} =>
         /\ Asking /\ x = Mine
         /\ Asked.kind = call.op /\ Asked.tag = tags
    /\ pc = "fail" \/ (pc = "wait" /\ Asking) => exchange[Mine].state \in {"created", "sent"}
    /\ pc = "read" => Awaiting

\* Nothing of a request, and nothing of a reply, is on the wire.
NoRequest == \A i \in DOMAIN toPeer : toPeer[i].kind \notin Requests
NoReply == \A i \in DOMAIN toClient : toClient[i].kind \notin Replies

\* What is on the wire of requests and replies is the one message of the running call.
OneMessage ==
    /\ NoRequest \/ NoReply
    /\ ~(NoRequest /\ NoReply) => Awaiting /\ odata # Asked /\ pc # "fail"
    /\ \A i \in DOMAIN toPeer : toPeer[i].kind \in Requests =>
         /\ toPeer[i] = Asked
         /\ \A j \in DOMAIN toPeer : toPeer[j].kind \in Requests => i = j
    /\ \A i \in DOMAIN toClient : toClient[i].kind \in Replies =>
         /\ toClient[i].kind \in Wanted
         /\ toClient[i].at = Asked.at /\ toClient[i].tag = Asked.tag
         /\ \A j \in DOMAIN toClient : toClient[j].kind \in Replies => i = j
    /\ brigade = <<>>

\* The half-sent packet: one of a request is the last that was built or an older one that
\* nobody will finish, and the answer to a forwarded connection that a call waiting for its
\* reply has left can be finished.
Coherent == /\ packAdd.point = "jump2"
            /\ \/ odata.kind = "confirm" /\ packAdd.state = "created" /\ packAdd.at \in listeners
               \/ odata.kind = "refuse" /\ packAdd.state = "sent"
HalfWire ==
    /\ odata.kind \in Requests \cup {"resize"} => odata.tag <= tags
    /\ packAdd.point = "jump2" =>
         /\ odata.kind \in {"confirm", "refuse"}
         /\ packAdd.state = "created" => packAdd.conf.kind = "confirm"
    /\ odata.kind = "none" => odata = NoPacket
HalfSent == HalfWire /\ (Awaiting /\ odata \notin {NoPacket, Asked} => Coherent)

\* The inductive strengthening of AnswerIsOwn.
ReplyInv == /\ PacketsTyped /\ IdsLeft /\ CallShape /\ OneExchange /\ OneMessage /\ HalfSent
            /\ AnswerIsOwn

----------------------------------------------------------------------------

\* transport_send() in the absence of keepalives: sent, half sent, or refused because
\* another packet is.  Only the answers to forwarded connections share a buffer.
LEMMA SendCases ==
    ASSUME NEW m \in Packet, m.kind \notin {"none", "keepalive"}, NEW rc, TransportSend(m, rc),
           odata \in Packet
    PROVE  \/ /\ rc \in {"ok", "EAGAIN"}
              /\ odata = NoPacket \/ SameBuffer(m)
              /\ \E x \in Packet :
                   /\ x.kind = m.kind /\ (m.kind \notin {"confirm", "refuse"} => x = m)
                   /\ \/ rc = "ok" /\ toPeer' = Append(toPeer, x) /\ odata' = NoPacket
                      \/ rc = "EAGAIN" /\ toPeer' = toPeer /\ odata' = x
           \/ rc = "BAD_USE" /\ UNCHANGED <<toPeer, odata>> /\ odata # NoPacket /\ ~SameBuffer(m)
<1>1. CASE odata # NoPacket /\ rc = "BAD_USE" /\ UNCHANGED netVars /\ ~SameBuffer(m)
  BY <1>1 DEF netVars
<1>2. CASE odata = NoPacket \/ SameBuffer(m)
  <2> DEFINE x == IF odata = NoPacket THEN m ELSE odata
  <2>1. x \in Packet /\ x.kind = m.kind /\ (m.kind \notin {"confirm", "refuse"} => x = m)
    BY <1>2 DEF SameBuffer
  <2>2. \/ rc = "ok" /\ toPeer' = Append(toPeer, x) /\ odata' = NoPacket
        \/ rc = "EAGAIN" /\ toPeer' = toPeer /\ odata' = x
    BY <1>2 DEF TransportSend
  <2> HIDE DEF x
  <2> QED
    BY <1>2, <2>1, <2>2
<1> QED
  BY <1>1, <1>2 DEF TransportSend

\* No packet is NoPacket but the absence of one.
LEMMA NoPacketTyped == NoPacket \in Packet /\ NoPacket.kind = "none"
  BY DEF NoPacket, Packet, MsgKinds

\* What a step may do to the wire without a word of requests or replies.
Discreet ==
    /\ \/ toPeer' = toPeer
       \/ \E x \in Packet : x.kind \notin Requests /\ toPeer' = Append(toPeer, x)
    /\ \/ toClient' = toClient
       \/ toClient # <<>> /\ Head(toClient).kind \notin Replies /\ toClient' = Tail(toClient)
    /\ brigade' = brigade

\* What is on the wire of requests and replies stays what it was.
LEMMA DiscreetKeeps ==
    ASSUME PacketsTyped, Discreet
    PROVE  /\ toPeer' \in Seq(Packet) /\ toClient' \in Seq(Packet)
           /\ \A i \in DOMAIN toPeer' : toPeer'[i].kind \in Requests =>
                i \in DOMAIN toPeer /\ toPeer'[i] = toPeer[i]
           /\ \/ \A i \in DOMAIN toClient' : i \in DOMAIN toClient /\ toClient'[i] = toClient[i]
              \/ \A i \in DOMAIN toClient' :
                   /\ i \in Nat /\ i + 1 \in DOMAIN toClient
                   /\ toClient'[i] = toClient[i + 1]
<1>0. toPeer \in Seq(Packet) /\ toClient \in Seq(Packet)
  BY DEF PacketsTyped
<1>1. /\ toPeer' \in Seq(Packet)
      /\ \A i \in DOMAIN toPeer' : toPeer'[i].kind \in Requests =>
           i \in DOMAIN toPeer /\ toPeer'[i] = toPeer[i]
  <2>1. CASE toPeer' = toPeer
    BY <1>0, <2>1
  <2>2. ASSUME NEW x \in Packet, x.kind \notin Requests, toPeer' = Append(toPeer, x)
        PROVE  /\ toPeer' \in Seq(Packet)
               /\ \A i \in DOMAIN toPeer' : toPeer'[i].kind \in Requests =>
                    i \in DOMAIN toPeer /\ toPeer'[i] = toPeer[i]
    <3>1. /\ toPeer' \in Seq(Packet) /\ Len(toPeer) \in Nat
          /\ DOMAIN toPeer' = 1..(Len(toPeer) + 1) /\ DOMAIN toPeer = 1..Len(toPeer)
          /\ toPeer'[Len(toPeer) + 1] = x
          /\ \A i \in 1..Len(toPeer) : toPeer'[i] = toPeer[i]
      BY <1>0, <2>2
    <3>2. \A i \in 1..(Len(toPeer) + 1) : i \in 1..Len(toPeer) \/ i = Len(toPeer) + 1
      BY <3>1
    <3> QED
      BY <2>2, <3>1, <3>2
  <2> QED
    BY <2>1, <2>2 DEF Discreet
<1>2. CASE toClient' = toClient
  BY <1>0, <1>1, <1>2
<1>3. CASE toClient # <<>> /\ toClient' = Tail(toClient)
  <2>1. toClient' \in Seq(Packet)
    BY <1>0, <1>3
  <2>2. \A i \in DOMAIN toClient' : /\ i \in Nat /\ i + 1 \in DOMAIN toClient
                                    /\ toClient'[i] = toClient[i + 1]
    BY <1>0, <1>3
  <2> QED
    BY <1>1, <2>1, <2>2
<1> QED
  BY <1>2, <1>3 DEF Discreet

\* A discreet step keeps OneMessage, if the call that waits for its reply waits on.
LEMMA DiscreetOne ==
    ASSUME PacketsTyped, OneMessage, Discreet,
           ~(NoRequest /\ NoReply) =>
             /\ Awaiting' /\ call' = call /\ Asked' = Asked
             /\ odata' # Asked /\ pc' # "fail"
    PROVE  OneMessage'
<1>1. /\ \A i \in DOMAIN toPeer' : toPeer'[i].kind \in Requests =>
           i \in DOMAIN toPeer /\ toPeer'[i] = toPeer[i]
      /\ \/ \A i \in DOMAIN toClient' : i \in DOMAIN toClient /\ toClient'[i] = toClient[i]
         \/ \A i \in DOMAIN toClient' :
              /\ i \in Nat /\ i + 1 \in DOMAIN toClient
              /\ toClient'[i] = toClient[i + 1]
  BY DiscreetKeeps
<1>2. (NoRequest => NoRequest') /\ (NoReply => NoReply')
  BY <1>1 DEF NoRequest, NoReply
<1>3. brigade' = <<>>
  BY DEF Discreet, OneMessage
<1>4. ASSUME ~NoRequest \/ ~NoReply PROVE Wanted' = Wanted /\ Asked' = Asked
  BY <1>4 DEF Wanted
<1>5. ASSUME NEW i \in DOMAIN toPeer', toPeer'[i].kind \in Requests
      PROVE  /\ toPeer'[i] = Asked'
             /\ \A j \in DOMAIN toPeer' : toPeer'[j].kind \in Requests => i = j
  <2>1. i \in DOMAIN toPeer /\ toPeer'[i] = toPeer[i] /\ ~NoRequest
    BY <1>1, <1>5 DEF NoRequest
  <2> QED
    BY <1>1, <1>4, <1>5, <2>1 DEF OneMessage
<1>6. ASSUME NEW i \in DOMAIN toClient', toClient'[i].kind \in Replies
      PROVE  /\ toClient'[i].kind \in Wanted'
             /\ toClient'[i].at = Asked'.at /\ toClient'[i].tag = Asked'.tag
             /\ \A j \in DOMAIN toClient' : toClient'[j].kind \in Replies => i = j
  <2>1. CASE \A k \in DOMAIN toClient' : k \in DOMAIN toClient /\ toClient'[k] = toClient[k]
    <3>1. ~NoReply
      BY <1>6, <2>1 DEF NoReply
    <3> QED
      BY <1>4, <1>6, <2>1, <3>1 DEF OneMessage
  <2>2. CASE \A k \in DOMAIN toClient' : /\ k \in Nat /\ k + 1 \in DOMAIN toClient
                                         /\ toClient'[k] = toClient[k + 1]
    <3>1. ~NoReply
      BY <1>6, <2>2 DEF NoReply
    <3>2. /\ toClient'[i].kind \in Wanted
          /\ toClient'[i].at = Asked.at /\ toClient'[i].tag = Asked.tag
      BY <1>6, <2>2 DEF OneMessage
    <3>3. ASSUME NEW j \in DOMAIN toClient', toClient'[j].kind \in Replies PROVE i = j
      <4>1. i + 1 = j + 1 /\ i \in Nat /\ j \in Nat
        BY <1>6, <2>2, <3>3 DEF OneMessage
      <4> QED
        BY <4>1
    <3> QED
      BY <1>4, <3>1, <3>2, <3>3
  <2> QED
    BY <1>1, <2>1, <2>2
<1> QED
  BY <1>2, <1>3, <1>5, <1>6 DEF OneMessage

\* What became of an answer of kind k to a forwarded connection: sent, half sent, or given
\* up because another packet is half sent.
Answered(k) ==
    /\ \/ toPeer' = toPeer
       \/ \E x \in Packet : x.kind \notin Requests /\ toPeer' = Append(toPeer, x)
    /\ odata' \in Packet /\ packAdd' \in Points
    /\ \/ packAdd'.point = "idle" /\ odata' = NoPacket /\ odata.kind \in {"none", k}
       \/ packAdd'.point = "idle" /\ odata' = odata /\ odata.kind \notin {"none", k}
       \/ packAdd'.point = "jump2" /\ odata'.kind = k /\ odata.kind \in {"none", k}

LEMMA ConfirmAnswers ==
    ASSUME PacketsTyped, HalfWire, NEW p \in Nat, NEW conf \in Packet, conf.kind = "confirm",
           NEW linked, Confirm(p, conf, linked)
    PROVE  /\ Answered("confirm")
           /\ packAdd'.point = "jump2" =>
                packAdd'.state = "created" /\ packAdd'.at = p /\ packAdd'.conf = conf
           /\ UNCHANGED <<channels, listeners>>
<1>0. odata \in Packet /\ packAdd \in Points /\ Resting \in Points /\ Resting.point = "idle"
  BY NoPacketTyped DEF PacketsTyped, Points, Resting
<1>1. PICK s \in SendResults :
        /\ TransportSend(conf, s)
        /\ \/ s \in {"ok", "BAD_USE"} /\ packAdd' = Resting
           \/ s = "EAGAIN" /\ packAdd' = [packAdd EXCEPT !.point = "jump2", !.state = "created",
                                                         !.at = p, !.tag = conf.tag, !.conf = conf]
  BY DEF Confirm
<1>2. CASE s \in {"ok", "EAGAIN"}
  <2>1. /\ odata = NoPacket \/ SameBuffer(conf)
        /\ \E x \in Packet :
             /\ x.kind = "confirm"
             /\ \/ s = "ok" /\ toPeer' = Append(toPeer, x) /\ odata' = NoPacket
                \/ s = "EAGAIN" /\ toPeer' = toPeer /\ odata' = x
    BY <1>0, <1>1, <1>2, SendCases
  <2>2. odata.kind \in {"none", "confirm"}
    BY <2>1, NoPacketTyped DEF SameBuffer
  <2>3. CASE s = "ok"
    BY <1>0, <1>1, <2>1, <2>2, <2>3, NoPacketTyped DEF Answered, Requests, Confirm
  <2>4. CASE s = "EAGAIN"
    <3>1. /\ packAdd' \in Points /\ packAdd'.point = "jump2" /\ packAdd'.state = "created"
          /\ packAdd'.at = p /\ packAdd'.conf = conf
      <4>1. conf.tag \in Nat
        BY DEF Packet
      <4> QED
        BY <1>0, <1>1, <2>4, <4>1 DEF Points
    <3> QED
      BY <2>1, <2>2, <2>4, <3>1 DEF Answered, Confirm
  <2> QED
    BY <1>2, <2>3, <2>4
<1>3. CASE s = "BAD_USE"
  <2>1. UNCHANGED <<toPeer, odata>> /\ odata # NoPacket /\ ~SameBuffer(conf)
    BY <1>0, <1>1, <1>3, SendCases
  <2>2. odata.kind \notin {"none", "confirm"}
    BY <2>1 DEF SameBuffer, HalfWire
  <2> QED
    BY <1>0, <1>1, <1>3, <2>1, <2>2 DEF Answered, Confirm
<1> QED
  BY <1>2, <1>3 DEF SendResults

LEMMA RefuseAnswers ==
    ASSUME PacketsTyped, HalfWire, NEW p \in Nat, NEW tag \in Nat, Refuse(p, tag)
    PROVE  /\ Answered("refuse")
           /\ packAdd'.point = "jump2" => packAdd'.state = "sent"
           /\ UNCHANGED sessVars
<1> DEFINE m == [kind |-> "refuse", at |-> 0, tag |-> tag]
<1>0. /\ odata \in Packet /\ packAdd \in Points /\ Resting \in Points /\ Resting.point = "idle"
      /\ m \in Packet /\ m.kind = "refuse"
  BY NoPacketTyped DEF PacketsTyped, Points, Resting, Packet, MsgKinds
<1>1. PICK s \in SendResults :
        /\ TransportSend(m, s)
        /\ \/ s # "EAGAIN" /\ packAdd' = Resting
           \/ s = "EAGAIN" /\ packAdd' = [packAdd EXCEPT !.point = "jump2", !.state = "sent",
                                                         !.at = p, !.tag = tag]
  BY DEF Refuse
<1> HIDE DEF m
<1>2. CASE s \in {"ok", "EAGAIN"}
  <2>1. /\ odata = NoPacket \/ SameBuffer(m)
        /\ \E x \in Packet :
             /\ x.kind = "refuse"
             /\ \/ s = "ok" /\ toPeer' = Append(toPeer, x) /\ odata' = NoPacket
                \/ s = "EAGAIN" /\ toPeer' = toPeer /\ odata' = x
    BY <1>0, <1>1, <1>2, SendCases
  <2>2. odata.kind \in {"none", "refuse"}
    BY <1>0, <2>1, NoPacketTyped DEF SameBuffer
  <2>3. CASE s = "ok"
    BY <1>0, <1>1, <2>1, <2>2, <2>3, NoPacketTyped DEF Answered, Requests, Refuse
  <2>4. CASE s = "EAGAIN"
    <3>1. packAdd' \in Points /\ packAdd'.point = "jump2" /\ packAdd'.state = "sent"
      BY <1>0, <1>1, <2>4 DEF Points
    <3> QED
      BY <2>1, <2>2, <2>4, <3>1 DEF Answered, Refuse
  <2> QED
    BY <1>2, <2>3, <2>4
<1>3. CASE s = "BAD_USE"
  <2>1. UNCHANGED <<toPeer, odata>> /\ odata # NoPacket /\ ~SameBuffer(m)
    BY <1>0, <1>1, <1>3, SendCases
  <2>2. odata.kind \notin {"none", "refuse"}
    BY <1>0, <2>1 DEF SameBuffer, HalfWire
  <2> QED
    BY <1>0, <1>1, <1>3, <2>1, <2>2 DEF Answered, Refuse
<1> QED
  BY <1>2, <1>3 DEF SendResults

\* Between transport_read()s that leave nothing half sent or something that can be finished.
Tidy == \/ packAdd.point = "idle" /\ odata = NoPacket
        \/ Coherent

\* packet_queue_listener(): it finishes what it left, or leaves what it can finish; a packet
\* of someone else stays half sent.
LEMMA ListenerHalf ==
    ASSUME ConnectionInv, PacketsTyped, HalfWire, QueueListener,
           packAdd.point = "idle" => toClient # <<>>
    PROVE  /\ Answered("confirm") \/ Answered("refuse")
           /\ packAdd'.point = "jump2" /\ packAdd'.state = "created" =>
                packAdd'.conf.kind = "confirm"
           /\ Tidy => Tidy'
           /\ UNCHANGED <<channels, listeners>>
<1>0. /\ packAdd \in Points /\ toClient \in Seq(Packet) /\ listeners \subseteq Nat
      /\ packAdd.at \in Nat /\ packAdd.tag \in Nat /\ packAdd.conf \in Packet
      /\ packAdd.point \in {"idle", "jump2"}
  BY ConnectionAssumption DEF PacketsTyped, ConnectionInv, SessionInv, Points
<1>1. ASSUME NEW p \in Nat, NEW tag \in Nat, Admit(p, tag), packAdd.point = "idle"
      PROVE  /\ Answered("confirm")
             /\ packAdd'.point = "jump2" /\ packAdd'.state = "created" =>
                  packAdd'.conf.kind = "confirm"
             /\ Tidy => Tidy'
             /\ UNCHANGED <<channels, listeners>>
  <2> DEFINE conf == [kind |-> "confirm", at |-> NextId, tag |-> tag]
  <2>1. NextId \in Nat
    BY NextIdIsNext DEF ConnectionInv, SessionInv
  <2>2. conf \in Packet /\ conf.kind = "confirm" /\ Confirm(p, conf, <<NextId>>) /\ p \in listeners
    BY <1>1, <2>1 DEF Admit, Packet, MsgKinds
  <2> HIDE DEF conf
  <2>3. /\ Answered("confirm")
        /\ packAdd'.point = "jump2" =>
             packAdd'.state = "created" /\ packAdd'.at = p /\ packAdd'.conf = conf
        /\ UNCHANGED <<channels, listeners>>
    BY <2>2, ConfirmAnswers
  <2>4. ASSUME Tidy PROVE Tidy'
    <3>1. odata = NoPacket /\ odata.kind = "none"
      BY <1>1, <2>4, NoPacketTyped DEF Tidy, Coherent
    <3> QED
      BY <2>2, <2>3, <3>1 DEF Answered, Tidy, Coherent
  <2> QED
    BY <2>2, <2>3, <2>4
<1>2. ASSUME NEW p \in Nat, NEW tag \in Nat, Refuse(p, tag),
             \/ packAdd.point = "idle"
             \/ packAdd.point = "jump2" /\ (packAdd.state = "sent" \/ packAdd.at \notin listeners)
      PROVE  /\ Answered("refuse")
             /\ packAdd'.point = "jump2" /\ packAdd'.state = "created" =>
                  packAdd'.conf.kind = "confirm"
             /\ Tidy => Tidy'
             /\ UNCHANGED <<channels, listeners>>
  <2>1. /\ Answered("refuse")
        /\ packAdd'.point = "jump2" => packAdd'.state = "sent"
        /\ UNCHANGED sessVars
    BY <1>2, RefuseAnswers
  <2>2. ASSUME Tidy PROVE Tidy'
    <3>1. odata.kind \in {"none", "refuse"}
      BY <1>2, <2>2, NoPacketTyped DEF Tidy, Coherent
    <3> QED
      BY <2>1, <3>1 DEF Answered, Tidy, Coherent
  <2> QED
    BY <2>1, <2>2 DEF sessVars
<1>3. ASSUME AdmitResumed, packAdd.point = "jump2"
      PROVE  /\ Answered("confirm")
             /\ packAdd'.point = "jump2" /\ packAdd'.state = "created" =>
                  packAdd'.conf.kind = "confirm"
             /\ Tidy => Tidy'
             /\ UNCHANGED <<channels, listeners>>
  <2>1. /\ Confirm(packAdd.at, packAdd.conf, <<>>) /\ packAdd.conf.kind = "confirm"
        /\ packAdd.at \in listeners /\ packAdd.state = "created"
    BY <1>3 DEF AdmitResumed, HalfWire
  <2>2. /\ Answered("confirm")
        /\ packAdd'.point = "jump2" =>
             /\ packAdd'.state = "created" /\ packAdd'.at = packAdd.at
             /\ packAdd'.conf = packAdd.conf
        /\ UNCHANGED <<channels, listeners>>
    BY <1>0, <2>1, ConfirmAnswers
  <2>3. ASSUME Tidy PROVE Tidy'
    <3>1. odata.kind = "confirm"
      BY <1>3, <2>1, <2>3 DEF Tidy, Coherent
    <3> QED
      BY <2>1, <2>2, <3>1 DEF Answered, Tidy, Coherent
  <2> QED
    BY <2>1, <2>2, <2>3
<1>4. CASE packAdd.point = "idle"
  <2> DEFINE m == Head(toClient)
  <2>1. m.at \in Nat /\ m.tag \in Nat
    <3>1. m \in Packet
      BY <1>0, <1>4
    <3> QED
      BY <3>1 DEF Packet
  <2>2. Admit(m.at, m.tag) \/ Refuse(m.at, m.tag)
    BY <1>4 DEF QueueListener
  <2> HIDE DEF m
  <2> QED
    BY <1>1, <1>2, <1>4, <2>1, <2>2
<1>5. CASE packAdd.point = "jump2"
  BY <1>0, <1>2, <1>3, <1>5 DEF QueueListener
<1> QED
  BY <1>0, <1>4, <1>5

\* transport_read() while no reply is at the head of the wire: a call that waits for its
\* reply meets no error.
LEMMA ReadQuiet ==
    ASSUME ConnectionInv, PacketsTyped, HalfWire, NEW got, TransportRead(got), tags' = tags,
           packAdd.point = "idle" /\ toClient # <<>> => Head(toClient).kind \notin Replies
    PROVE  /\ Discreet /\ odata' \in Packet /\ packAdd' \in Points /\ HalfWire'
           /\ odata' \in {odata, NoPacket} \/ odata'.kind \in {"confirm", "refuse"}
           /\ odata.kind \notin {"none", "confirm", "refuse"} => odata' = odata
           /\ Tidy => Tidy' /\ got # "error"
           /\ got \notin Replies /\ UNCHANGED <<channels, listeners>>
<1>0. odata \in Packet /\ packAdd \in Points
  BY DEF PacketsTyped
<1>1. CASE packAdd.point = "idle" /\ toClient = <<>> /\ got = "EAGAIN"
           /\ UNCHANGED <<sessVars, recvVars, netVars>>
  <2>1. UNCHANGED <<channels, listeners, brigade, packAdd, toClient, odata, toPeer>>
    BY <1>1 DEF sessVars, recvVars, netVars
  <2> QED
    BY <1>0, <1>1, <2>1 DEF Discreet, HalfWire, Tidy, Coherent, Replies
<1>2. CASE /\ packAdd.point = "idle" /\ toClient # <<>> /\ got = Head(toClient).kind
           /\ got = "closed" /\ toClient' = Tail(toClient) /\ UNCHANGED brigade
           /\ UNCHANGED <<sessVars, netVars, packAdd>>
  <2>1. UNCHANGED <<channels, listeners, brigade, packAdd, odata, toPeer>>
    BY <1>2 DEF sessVars, netVars
  <2> QED
    BY <1>0, <1>2, <2>1 DEF Discreet, HalfWire, Tidy, Coherent, Replies
<1>3. CASE /\ \/ packAdd.point = "jump2" /\ UNCHANGED toClient
              \/ /\ packAdd.point = "idle" /\ toClient # <<>>
                 /\ Head(toClient).kind = "forward"
                 /\ toClient' = Tail(toClient)
           /\ QueueListener
           /\ got = IF packAdd'.point = "jump2" THEN "EAGAIN"
                    ELSE IF odata' = NoPacket THEN "forward" ELSE "error"
           /\ UNCHANGED <<brigade, remote_close>>
  <2>1. /\ Answered("confirm") \/ Answered("refuse")
        /\ packAdd'.point = "jump2" /\ packAdd'.state = "created" =>
             packAdd'.conf.kind = "confirm"
        /\ Tidy => Tidy'
        /\ UNCHANGED <<channels, listeners>>
    BY <1>3, ListenerHalf
  <2>2. Discreet /\ odata' \in Packet /\ packAdd' \in Points
    BY <1>3, <2>1 DEF Discreet, Answered, Replies
  <2>3. /\ odata' \in {odata, NoPacket} \/ odata'.kind \in {"confirm", "refuse"}
        /\ odata.kind \notin {"none", "confirm", "refuse"} => odata' = odata
        /\ packAdd'.point = "jump2" => odata'.kind \in {"confirm", "refuse"}
    BY <2>1 DEF Answered
  <2>4. HalfWire'
    BY <2>1, <2>3, NoPacketTyped DEF HalfWire, Requests
  <2>5. Tidy => got # "error"
    BY <1>3, <2>1 DEF Tidy, Coherent
  <2> QED
    BY <1>3, <2>1, <2>2, <2>3, <2>4, <2>5 DEF Replies
<1> QED
  BY <1>1, <1>2, <1>3 DEF TransportRead

\* cancel, close and resize ask for no reply.
LEMMA SendQuiet ==
    ASSUME PacketsTyped, HalfWire, NEW m \in Packet, m.kind \in {"cancel", "close", "resize"},
           m.kind = "resize" => m.tag <= tags, NEW rc, TransportSend(m, rc),
           UNCHANGED <<tags, packAdd, toClient, brigade>>
    PROVE  /\ Discreet /\ odata' \in Packet /\ HalfWire'
           /\ rc # "BAD_USE" => odata \in {NoPacket, m} /\ packAdd.point = "idle"
           /\ rc = "ok" => odata' = NoPacket
           /\ rc = "EAGAIN" => odata' = m
           /\ rc = "BAD_USE" => odata' = odata /\ odata \notin {NoPacket, m}
<1>0. odata \in Packet /\ packAdd \in Points /\ packAdd.point \in {"idle", "jump2"}
  BY DEF PacketsTyped, Points
<1>1. CASE rc \in {"ok", "EAGAIN"}
  <2>1. /\ odata = NoPacket \/ SameBuffer(m)
        /\ \E x \in Packet :
             /\ x = m
             /\ \/ rc = "ok" /\ toPeer' = Append(toPeer, x) /\ odata' = NoPacket
                \/ rc = "EAGAIN" /\ toPeer' = toPeer /\ odata' = x
    BY <1>0, <1>1, SendCases
  <2>2. odata \in {NoPacket, m} /\ odata.kind \notin {"confirm", "refuse"}
    BY <2>1, NoPacketTyped DEF SameBuffer
  <2>3. packAdd.point = "idle"
    BY <1>0, <2>2 DEF HalfWire
  <2>4. Discreet
    BY <2>1 DEF Discreet, Requests
  <2>5. HalfWire' /\ odata' \in Packet
    BY <2>1, <2>3, NoPacketTyped DEF HalfWire, Requests
  <2> QED
    BY <1>1, <2>1, <2>2, <2>3, <2>4, <2>5
<1>2. CASE rc = "BAD_USE"
  <2>1. UNCHANGED <<toPeer, odata>> /\ odata # NoPacket /\ ~SameBuffer(m)
    BY <1>0, <1>2, SendCases
  <2> QED
    BY <1>0, <1>2, <2>1 DEF Discreet, HalfWire, SameBuffer
<1> QED
  BY <1>0, <1>1, <1>2, SendCases

\* Connections that come one by one have an id left each.
LEMMA IdsTail ==
    ASSUME PacketsTyped, IdsLeft, toClient # <<>>, toClient' = Tail(toClient),
           UNCHANGED <<tags, forwards>>, next_channel \in Nat,
           \/ next_channel' = next_channel
           \/ next_channel' = next_channel + 1 /\ Head(toClient).kind = "forward"
    PROVE  IdsLeft'
<1>0. /\ toClient \in Seq(Packet) /\ tags \in Nat /\ forwards \in Nat /\ MaxTags \in Nat
      /\ \A i \in DOMAIN toClient : toClient[i].tag \in Nat
  <2>1. toClient \in Seq(Packet) /\ tags \in Nat /\ forwards \in Nat /\ MaxTags \in Nat
    BY ConnectionAssumption DEF PacketsTyped
  <2>2. \A i \in DOMAIN toClient : toClient[i] \in Packet
    BY <2>1
  <2> QED
    BY <2>1, <2>2 DEF Packet
<1>1. /\ 1 \in DOMAIN toClient /\ toClient[1] = Head(toClient)
      /\ \A i \in DOMAIN toClient' :
           /\ i \in Nat /\ i + 1 \in DOMAIN toClient /\ toClient'[i] = toClient[i + 1]
           /\ 1 < i + 1
      /\ \A i, j \in DOMAIN toClient' : i < j => i + 1 < j + 1
  BY <1>0
<1>2. \A i, j \in DOMAIN toClient' :
        i < j /\ toClient'[i].kind = "forward" /\ toClient'[j].kind = "forward" =>
            toClient'[i].tag + 1 <= toClient'[j].tag
  BY <1>1 DEF IdsLeft
<1>3. CASE next_channel' = next_channel
  BY <1>1, <1>2, <1>3 DEF IdsLeft
<1>4. CASE next_channel' = next_channel + 1 /\ Head(toClient).kind = "forward"
  <2>1. /\ toClient[1].tag <= forwards /\ toClient[1].tag \in Nat
        /\ next_channel + 1 <= tags + toClient[1].tag
        /\ next_channel + 1 <= MaxTags + toClient[1].tag
    BY <1>0, <1>1, <1>4 DEF IdsLeft
  <2>2. next_channel' <= tags + forwards /\ next_channel' <= MaxTags + forwards
    BY <1>0, <1>4, <2>1
  <2>3. ASSUME NEW i \in DOMAIN toClient', toClient'[i].kind = "forward"
        PROVE  /\ toClient'[i].tag <= forwards
               /\ next_channel' + 1 <= tags + toClient'[i].tag
               /\ next_channel' + 1 <= MaxTags + toClient'[i].tag
    <3>1. /\ toClient[1].tag + 1 <= toClient'[i].tag /\ toClient'[i].tag \in Nat
          /\ toClient'[i].tag <= forwards
      BY <1>0, <1>1, <1>4, <2>3 DEF IdsLeft
    <3> DEFINE a == toClient[1].tag
               b == toClient'[i].tag
    <3>2. a \in Nat /\ b \in Nat /\ a + 1 <= b
      BY <2>1, <3>1
    <3>3. next_channel + 1 <= tags + a /\ next_channel + 1 <= MaxTags + a
      BY <2>1
    <3> HIDE DEF a, b
    <3>4. (next_channel + 1) + 1 <= tags + b /\ (next_channel + 1) + 1 <= MaxTags + b
      BY <1>0, <3>2, <3>3
    <3> QED
      BY <1>4, <3>1, <3>4 DEF b
  <2> QED
    BY <1>2, <2>2, <2>3 DEF IdsLeft
<1> QED
  BY <1>3, <1>4

LEMMA IdsSame ==
    ASSUME IdsLeft, UNCHANGED <<next_channel, tags, forwards, toClient>>
    PROVE  IdsLeft'
  BY DEF IdsLeft

\* transport_read() gives out an id for a connection that it takes off the wire.
LEMMA ReadIds ==
    ASSUME ConnectionInv, PacketsTyped, IdsLeft, NEW got, TransportRead(got),
           UNCHANGED <<tags, forwards>>
    PROVE  IdsLeft'
<1>0. next_channel \in Nat
  BY DEF ConnectionInv, SessionInv
<1>1. CASE UNCHANGED <<sessVars, toClient>>
  BY <1>1, IdsSame DEF sessVars
<1>2. CASE toClient # <<>> /\ toClient' = Tail(toClient) /\ UNCHANGED sessVars
  BY <1>0, <1>2, IdsTail DEF sessVars
<1>3. CASE packAdd.point = "jump2" /\ UNCHANGED toClient /\ QueueListener
  <2>1. next_channel' = next_channel
    BY <1>3 DEF QueueListener, AdmitResumed, Refuse, sessVars
  <2> QED
    BY <1>3, <2>1, IdsSame
<1>4. CASE /\ packAdd.point = "idle" /\ toClient # <<>> /\ Head(toClient).kind = "forward"
           /\ toClient' = Tail(toClient) /\ QueueListener
  <2>1. next_channel' \in {next_channel, next_channel + 1}
    BY <1>4, NextIdIsNext DEF QueueListener, Admit, Refuse, sessVars, ConnectionInv
  <2> QED
    BY <1>0, <1>4, <2>1, IdsTail
<1> QED
  BY <1>1, <1>2, <1>3, <1>4 DEF TransportRead, recvVars

\* Every id is one of Ids.
LEMMA IdsInRange ==
    ASSUME ConnectionInv, PacketsTyped, IdsLeft
    PROVE  /\ channels \subseteq Ids
           /\ \A p \in Ports : \A n \in DOMAIN queue[p] : queue[p][n] \in Ids
<1>1. /\ MaxTags \in Nat /\ MaxForwards \in Nat /\ forwards \in Nat /\ next_channel \in Nat
      /\ next_channel <= MaxTags + forwards /\ forwards <= MaxForwards
  BY ConnectionAssumption DEF PacketsTyped, IdsLeft, ConnectionInv, SessionInv
<1>2. \A i \in Nat : i < next_channel => i \in Ids
  BY <1>1 DEF Ids
<1>3. \A p \in Ports : \A n \in DOMAIN queue[p] : queue[p][n] \in Nat
  BY DEF ConnectionInv, SessionInv
<1> QED
  BY <1>2, <1>3 DEF ConnectionInv, SessionInv

----------------------------------------------------------------------------
(* The steps. *)

\* The exchange of a call is one of the exchanges.
LEMMA MineTyped == ASSUME CallShape, Asking PROVE Mine \in Exchanges
<1>1. CASE call.op \in {"open", "listen"}
  BY <1>1 DEF CallShape, Mine, Exchanges
<1>2. CASE call.op \in {"request", "resize"}
  <2>1. call.kind \in Kinds /\ call.at \in Ids /\ call.kind \notin {"open", "listen"}
    BY <1>2, ConnectionAssumption DEF CallShape, AllKinds
  <2> QED
    BY <2>1 DEF Mine, Exchanges
<1> QED
  BY <1>1, <1>2 DEF Asking, Requests

\* The replies a call waits for.
LEMMA WantedIs ==
    ASSUME CallShape
    PROVE  /\ call.op = "open" => Wanted = {"opened", "open_failed"}
           /\ call.op = "listen" => Wanted = {"granted", "denied"}
           /\ call.op = "request" => Wanted = {"success", "failure"}
<1>1. call.op = "request" => call.kind \in AllKinds
  BY ConnectionAssumption DEF CallShape
<1> QED
  BY <1>1 DEF CallShape, Wanted, Machine, AllKinds, Open, Listen, Setenv, Pty, X11, Agent, Process

\* Nothing is on the wire unless a call waits for its reply.
LEMMA Silence == ASSUME OneMessage, ~Awaiting PROVE NoRequest /\ NoReply
  BY DEF OneMessage

LEMMA SilentOne ==
    ASSUME NoRequest', NoReply', brigade' = <<>>
    PROVE  OneMessage'
  BY DEF OneMessage, NoRequest, NoReply

\* A step between exchanges.
LEMMA OutsideKept ==
    ASSUME ReplyInv, ~Asking, ~Asking', Discreet, odata' \in Packet, packAdd' \in Points,
           HalfWire', IdsLeft', CallShape', UNCHANGED <<tags, forwards>>,
           \/ exchange' = exchange
           \/ exchange' = [x \in Exchanges |-> IF x \in Kinds \X {Victim} THEN Idle
                                                ELSE exchange[x]],
           answer' \in {answer, NoAnswer}, pc' # "fail", pc' # "read"
    PROVE  ReplyInv'
<1>0. PacketsTyped /\ OneExchange /\ OneMessage /\ AnswerIsOwn
  BY DEF ReplyInv
<1>1. ~Awaiting /\ ~Awaiting'
  BY DEF Awaiting, Asking
<1>2. /\ exchange' \in [Exchanges -> [state : {"idle", "created", "sent", "end"}, packet : Packet]]
      /\ \A x \in Exchanges : exchange'[x].state \notin {"created", "sent"}
  <2>1. Idle \in [state : {"idle", "created", "sent", "end"}, packet : Packet]
        /\ Idle.state = "idle"
    BY NoPacketTyped DEF Idle
  <2>2. \A x \in Exchanges : exchange[x].state \notin {"created", "sent"}
    BY <1>0 DEF OneExchange
  <2>3. CASE exchange' = exchange
    BY <1>0, <2>2, <2>3 DEF PacketsTyped
  <2>4. CASE exchange' = [x \in Exchanges |-> IF x \in Kinds \X {Victim} THEN Idle
                                               ELSE exchange[x]]
    <3>1. \A x \in Exchanges : exchange'[x] \in {Idle, exchange[x]}
      BY <2>4
    <3>2. \A x \in Exchanges :
            exchange[x] \in [state : {"idle", "created", "sent", "end"}, packet : Packet]
      BY <1>0 DEF PacketsTyped
    <3>3. \A x \in Exchanges :
            exchange'[x] \in [state : {"idle", "created", "sent", "end"}, packet : Packet]
      BY <2>1, <3>1, <3>2
    <3>4. exchange' \in [Exchanges -> [state : {"idle", "created", "sent", "end"},
                                       packet : Packet]]
      BY <2>4, <3>3
    <3> QED
      BY <2>1, <2>2, <3>1, <3>4
  <2> QED
    BY <2>3, <2>4
<1>3. PacketsTyped'
  BY <1>0, <1>2, DiscreetKeeps DEF PacketsTyped
<1>4. OneExchange'
  BY <1>2 DEF OneExchange
<1>5. OneMessage'
  BY <1>0, <1>1, Silence, DiscreetOne
<1>6. HalfSent'
  BY <1>1 DEF HalfSent
<1>7. AnswerIsOwn'
  BY <1>0 DEF AnswerIsOwn, NoAnswer
<1> QED
  BY <1>3, <1>4, <1>5, <1>6, <1>7 DEF ReplyInv

\* A call that starts finds no exchange under way.
LEMMA StartReplies ==
    ASSUME ReplyInv, NEW op \in AllOps, NEW at, NEW kind, Start(op, at, kind), pc = "app",
           op \in {"open", "listen"} => kind = op,
           op \in {"request", "resize"} => kind \in Kinds /\ at \in Ids,
           op = "free" => at \in Nat,
           op = "open" /\ Opening.state = "idle" => tags < MaxTags
    PROVE  ReplyInv'
<1>0. PacketsTyped /\ OneExchange /\ OneMessage /\ HalfSent /\ IdsLeft /\ call.op = "none"
  BY DEF ReplyInv, CallShape
<1>1. /\ pc' = op /\ call' = [op |-> op, at |-> at, kind |-> kind] /\ answer' = NoAnswer
      /\ UNCHANGED <<next_channel, listeners, brigade, packAdd, toClient, odata, toPeer, exchange,
                     forwards, tags>>
  BY DEF Start, sessVars, recvVars, netVars, stateVars, peerVars
<1>2. call'.op = op /\ call'.at = at /\ call'.kind = kind
  BY <1>1
<1>3. CallShape'
  BY <1>1, <1>2 DEF CallShape, Opening, AllOps
<1>4. ~Asking /\ ~Awaiting /\ NoRequest /\ NoReply
  BY <1>0, Silence DEF Asking, Awaiting, Requests
<1>5. \A x \in Exchanges : exchange[x].state \notin {"created", "sent"}
  BY <1>0, <1>4 DEF OneExchange
<1>6. ~Awaiting'
  <2>1. CASE ~Asking'
    BY <2>1 DEF Awaiting, Asking
  <2>2. CASE Asking'
    <3>1. Mine' \in Exchanges
      <4>1. CASE op \in {"open", "listen"}
        BY <1>2, <4>1 DEF Mine, Exchanges
      <4>2. CASE op \in {"request", "resize"}
        <5>1. kind \in Kinds /\ at \in Ids /\ kind \notin {"open", "listen"}
          BY <4>2, ConnectionAssumption DEF AllKinds
        <5> QED
          BY <1>2, <5>1 DEF Mine, Exchanges
      <4> QED
        BY <1>2, <2>2, <4>1, <4>2 DEF Asking, Requests
    <3> QED
      BY <1>1, <1>5, <3>1 DEF Awaiting
  <2> QED
    BY <2>1, <2>2
<1>7. PacketsTyped' /\ IdsLeft'
  BY <1>0, <1>1, IdsSame DEF PacketsTyped
<1>8. OneExchange'
  BY <1>1, <1>5 DEF OneExchange, AllOps
<1>9. OneMessage'
  BY <1>0, <1>1, <1>4, SilentOne DEF OneMessage, NoRequest, NoReply
<1>10. HalfSent' /\ AnswerIsOwn'
  BY <1>0, <1>1, <1>6 DEF HalfSent, HalfWire, AnswerIsOwn, NoAnswer
<1> QED
  BY <1>3, <1>7, <1>8, <1>9, <1>10 DEF ReplyInv

LEMMA CallsReply == ASSUME Orderly, ConnectionInv, ReplyInv, Calls PROVE ReplyInv'
<1>0. channels \subseteq Ids /\ channels \subseteq Nat
  BY IdsInRange DEF ReplyInv, ConnectionInv, SessionInv
<1>1. CASE CallOpen
  BY <1>1, StartReplies DEF CallOpen, Calling, AllOps
<1>2. CASE CallKeepalive
  BY <1>2 DEF CallKeepalive, Calling, Orderly
<1>3. ASSUME NEW p \in Ports, CallListen(p) \/ CallAccept(p) \/ CallCancel(p) PROVE ReplyInv'
  BY <1>3, StartReplies DEF CallListen, CallAccept, CallCancel, Calling, AllOps
<1>4. ASSUME NEW c \in channels, CallFree(c) PROVE ReplyInv'
  BY <1>0, <1>4, StartReplies DEF CallFree, Calling, AllOps
<1>5. ASSUME NEW c \in channels, CallResize(c) PROVE ReplyInv'
  BY <1>0, <1>5, StartReplies DEF CallResize, Calling, AllOps
<1>6. ASSUME NEW c \in channels, NEW k \in Kinds, CallRequest(c, k) PROVE ReplyInv'
  BY <1>0, <1>6, StartReplies DEF CallRequest, Calling, AllOps
<1> QED
  BY <1>1, <1>2, <1>3, <1>4, <1>5, <1>6 DEF Calls

\* The packet of a request is built: an open makes its channel.
LEMMA BuildReplies == ASSUME Orderly, ConnectionInv, ReplyInv, Build PROVE ReplyInv'
<1>0. PacketsTyped /\ CallShape /\ OneExchange /\ OneMessage /\ HalfSent /\ IdsLeft /\ AnswerIsOwn
  BY DEF ReplyInv
<1> DEFINE at == IF call.op = "open" THEN NextId ELSE call.at
           new == [kind |-> call.op, at |-> at, tag |-> tags + 1]
<1>1. /\ pc \in Requests /\ pc = call.op /\ exchange[Mine].state = "idle" /\ Mine \in Exchanges
      /\ Asking
  <2>1. pc \in Requests /\ pc = call.op
    BY <1>0 DEF Build, AtExchange, Requests, CallShape
  <2>2. Asking
    BY <2>1 DEF Asking
  <2> QED
    BY <1>0, <2>1, <2>2, MineTyped DEF Build
<1>2. /\ tags' = tags + 1 /\ exchange' = [exchange EXCEPT ![Mine] = [state |-> "created",
                                                                     packet |-> new]]
      /\ UNCHANGED <<brigade, packAdd, toClient, odata, toPeer, pc, call, answer, forwards>>
      /\ listeners' = listeners
  BY DEF Build, recvVars, netVars, callVars, peerVars, sessVars
<1>3. at \in Nat
  <2>1. NextId \in Nat
    BY NextIdIsNext DEF ConnectionInv, SessionInv
  <2>2. call.op = "listen" => call.at \in Nat
    BY ConnectionAssumption DEF ConnectionInv, CallInv
  <2>3. call.op = "request" => call.at \in Nat
    BY <1>0, ConnectionAssumption DEF CallShape, Ids
  <2> QED
    BY <1>1, <2>1, <2>2, <2>3 DEF Requests
<1>4. new \in Packet /\ new.kind = call.op /\ new.tag = tags + 1 /\ tags \in Nat
  BY <1>0, <1>1, <1>3 DEF Packet, MsgKinds, PacketsTyped
<1> HIDE DEF new, at
<1>5. /\ exchange'[Mine].state = "created" /\ exchange'[Mine].packet = new
      /\ \A x \in Exchanges : x # Mine => exchange'[x] = exchange[x]
      /\ Mine' = Mine /\ Asked' = new
  <2>1. exchange'[Mine] = [state |-> "created", packet |-> new]
        /\ \A x \in Exchanges : x # Mine => exchange'[x] = exchange[x]
    BY <1>0, <1>1, <1>2 DEF PacketsTyped
  <2>2. Mine' = Mine
    BY <1>2 DEF Mine
  <2> QED
    BY <2>1, <2>2 DEF Asked
<1>6. PacketsTyped'
  <2>1. [state |-> "created", packet |-> new] \in
          [state : {"idle", "created", "sent", "end"}, packet : Packet]
    BY <1>4
  <2>2. exchange' \in [Exchanges -> [state : {"idle", "created", "sent", "end"}, packet : Packet]]
    BY <1>0, <1>2, <2>1 DEF PacketsTyped
  <2> QED
    BY <1>0, <1>2, <1>4, <2>2 DEF PacketsTyped
<1>7. IdsLeft'
  <2>0. /\ next_channel \in Nat /\ tags \in Nat /\ forwards \in Nat /\ MaxTags \in Nat
        /\ \A i \in DOMAIN toClient : toClient[i].tag \in Nat
    <3>1. toClient \in Seq(Packet) /\ tags \in Nat /\ forwards \in Nat
      BY <1>0 DEF PacketsTyped
    <3>2. \A i \in DOMAIN toClient : toClient[i] \in Packet
      BY <3>1
    <3> QED
      BY <3>1, <3>2, ConnectionAssumption DEF Packet, ConnectionInv, SessionInv
  <2>1. CASE call.op # "open"
    <3>1. next_channel' = next_channel
      BY <2>1 DEF Build, sessVars
    <3> QED
      BY <1>0, <1>2, <2>0, <3>1 DEF IdsLeft
  <2>2. CASE call.op = "open"
    <3>1. next_channel' = next_channel + 1
      BY <2>2, NextIdIsNext DEF Build, ConnectionInv
    <3>2. tags + 1 <= MaxTags
      <4>1. Mine = <<"open", 0>>
        BY <1>0, <2>2 DEF CallShape, Mine
      <4> QED
        BY <1>0, <1>1, <2>0, <2>2, <4>1 DEF CallShape, Opening
    <3>3. next_channel + 1 <= (tags + 1) + forwards /\ next_channel + 1 <= MaxTags + forwards
      BY <1>0, <2>0, <3>2 DEF IdsLeft
    <3>4. ASSUME NEW i \in DOMAIN toClient, toClient[i].kind = "forward"
          PROVE  /\ toClient[i].tag <= forwards
                 /\ (next_channel + 1) + 1 <= (tags + 1) + toClient[i].tag
                 /\ (next_channel + 1) + 1 <= MaxTags + toClient[i].tag
      <4> DEFINE b == toClient[i].tag
      <4>1. b \in Nat /\ b <= forwards /\ next_channel + 1 <= tags + b
        BY <1>0, <2>0, <3>4 DEF IdsLeft
      <4> HIDE DEF b
      <4>2. (next_channel + 1) + 1 <= (tags + 1) + b /\ (next_channel + 1) + 1 <= MaxTags + b
        BY <2>0, <3>2, <4>1
      <4> QED
        BY <4>1, <4>2 DEF b
    <3> QED
      BY <1>0, <1>2, <3>1, <3>3, <3>4 DEF IdsLeft
  <2> QED
    BY <2>1, <2>2
<1>8. CallShape'
  <2>1. ~(pc' = "open" /\ Opening'.state = "idle")
    <3>1. pc = "open" => Mine = <<"open", 0>>
      BY <1>0, <1>1 DEF CallShape, Mine
    <3> QED
      BY <1>2, <1>5, <3>1 DEF Opening
  <2> QED
    BY <1>0, <1>2, <2>1 DEF CallShape
<1>9. OneExchange'
  <2>1. \A x \in Exchanges : x # Mine => exchange'[x].state \notin {"created", "sent"}
    BY <1>0, <1>5 DEF OneExchange
  <2>2. Asking' /\ pc' \notin {"fail", "read", "wait"}
    BY <1>1, <1>2 DEF Asking, Requests
  <2> QED
    BY <1>2, <1>4, <1>5, <2>1, <2>2 DEF OneExchange
<1>10. ~Awaiting /\ ~Awaiting'
  BY <1>1, <1>5 DEF Awaiting
<1>11. OneMessage'
  BY <1>0, <1>2, <1>10, Silence, SilentOne DEF OneMessage, NoRequest, NoReply
<1>12. HalfSent'
  <2>1. odata.kind \in Requests \cup {"resize"} => odata.tag <= tags + 1
    <3>1. odata.tag \in Nat
      BY <1>0 DEF PacketsTyped, Packet
    <3> QED
      BY <1>0, <1>4, <3>1 DEF HalfSent, HalfWire
  <2> QED
    BY <1>0, <1>2, <1>10, <2>1 DEF HalfSent, HalfWire
<1>13. AnswerIsOwn'
  BY <1>0, <1>2 DEF AnswerIsOwn
<1> QED
  BY <1>6, <1>7, <1>8, <1>9, <1>11, <1>12, <1>13 DEF ReplyInv

\* An exchange is over, and nothing of it is on the wire.
LEMMA EndKept ==
    ASSUME ReplyInv, Asking, NEW st \in {"idle", "end"},
           exchange' = [exchange EXCEPT ![Mine] = [Idle EXCEPT !.state = st]],
           \/ pc' = "app" /\ call' = NoCall
           \/ pc' = "request" /\ call.op = "request" /\ call' = call,
           NoRequest', NoReply', brigade' = <<>>, toPeer' \in Seq(Packet),
           toClient' \in Seq(Packet), odata' \in Packet, packAdd' \in Points, HalfWire',
           IdsLeft', AnswerIsOwn', UNCHANGED <<tags, forwards>>
    PROVE  ReplyInv'
<1>0. PacketsTyped /\ CallShape /\ OneExchange /\ Mine \in Exchanges
  BY MineTyped DEF ReplyInv
<1> DEFINE over == [Idle EXCEPT !.state = st]
           States == [state : {"idle", "created", "sent", "end"}, packet : Packet]
<1>1. over \in States /\ over.state = st
  BY NoPacketTyped DEF Idle
<1> HIDE DEF over
<1>2. /\ exchange' \in [Exchanges -> States] /\ exchange'[Mine] = over
      /\ \A x \in Exchanges : x # Mine => exchange'[x] = exchange[x]
  BY <1>0, <1>1 DEF PacketsTyped, over
<1>3. \A x \in Exchanges : exchange'[x].state \notin {"created", "sent"}
  <2>1. ASSUME NEW x \in Exchanges PROVE exchange'[x].state \notin {"created", "sent"}
    BY <1>0, <1>1, <1>2 DEF OneExchange
  <2> QED
    BY <2>1
<1>4. PacketsTyped'
  BY <1>0, <1>2 DEF PacketsTyped
<1>5. CallShape'
  BY <1>0 DEF CallShape, NoCall, Requests
<1>6. ~Awaiting'
  <2>1. CASE call' = NoCall
    BY <2>1 DEF Awaiting, NoCall, Requests
  <2>2. CASE call' = call
    <3>1. Mine' = Mine
      BY <2>2 DEF Mine
    <3> QED
      BY <1>0, <1>3, <3>1 DEF Awaiting
  <2> QED
    BY <2>1, <2>2
<1>7. OneExchange'
  BY <1>3 DEF OneExchange
<1>8. OneMessage'
  BY SilentOne
<1>9. HalfSent'
  BY <1>6 DEF HalfSent
<1> QED
  BY <1>4, <1>5, <1>7, <1>8, <1>9 DEF ReplyInv

\* How a request ends.
LEMMA OverReplies ==
    ASSUME ReplyInv, call.op \in Requests, NEW good, NEW got, got \in {0, Asked.tag},
           Over(good, got), NoRequest', NoReply', brigade' = <<>>, toPeer' \in Seq(Packet),
           toClient' \in Seq(Packet), UNCHANGED <<odata, packAdd, tags, forwards>>, IdsLeft'
    PROVE  ReplyInv'
<1>0. PacketsTyped /\ CallShape /\ HalfSent /\ AnswerIsOwn /\ Asking
  BY DEF ReplyInv, Asking
<1> DEFINE st == Machine(call.kind).end
<1>1. st \in {"idle", "end"}
  <2>1. call.kind \in AllKinds \cup {"open", "listen"}
    BY <1>0, ConnectionAssumption DEF CallShape, Requests
  <2> QED
    BY <2>1 DEF Machine, AllKinds, Open, Listen, Setenv, Pty, X11, Agent, Process
<1>2. exchange' = [exchange EXCEPT ![Mine] = [Idle EXCEPT !.state = st]]
  BY DEF Over
<1> HIDE DEF st
<1>3. /\ \/ pc' = "app" /\ call' = NoCall
         \/ pc' = "request" /\ call.op = "request" /\ call' = call
      /\ AnswerIsOwn'
  <2>1. CASE Return(Asked.tag, got)
    BY <2>1 DEF Return, AnswerIsOwn
  <2>2. CASE call.kind = "agent" /\ pc' = "request" /\ UNCHANGED <<call, answer>>
    BY <1>0, <2>2 DEF AnswerIsOwn, CallShape, Requests
  <2> QED
    BY <2>1, <2>2 DEF Over, Leave
<1>4. HalfWire' /\ odata' \in Packet /\ packAdd' \in Points
  BY <1>0 DEF HalfSent, HalfWire, PacketsTyped
<1> QED
  BY <1>0, <1>1, <1>2, <1>3, <1>4, EndKept

\* The request is sent, or half sent, or cannot be because another packet is.
LEMMA SendReplies == ASSUME Orderly, ConnectionInv, ReplyInv, SendRequest PROVE ReplyInv'
<1>0. PacketsTyped /\ CallShape /\ OneExchange /\ OneMessage /\ HalfSent /\ IdsLeft /\ AnswerIsOwn
  BY DEF ReplyInv
<1>1. /\ pc \in Requests /\ pc = call.op /\ exchange[Mine].state = "created" /\ Mine \in Exchanges
      /\ Asking
  <2>1. pc \in Requests /\ pc = call.op
    BY <1>0 DEF SendRequest, AtExchange, Requests, CallShape
  <2>2. Asking
    BY <2>1 DEF Asking
  <2> QED
    BY <1>0, <2>1, <2>2, MineTyped DEF SendRequest
<1>2. /\ Asked \in Packet /\ Asked.kind = call.op /\ Asked.tag = tags /\ tags \in Nat
      /\ Asked.kind \in Requests
      /\ toPeer \in Seq(Packet) /\ odata \in Packet /\ packAdd.point \in {"idle", "jump2"}
  <2>1. /\ exchange[Mine] \in [state : {"idle", "created", "sent", "end"}, packet : Packet]
        /\ packAdd \in Points
    BY <1>0, <1>1 DEF PacketsTyped
  <2>2. Asked.kind = call.op /\ Asked.tag = tags
    BY <1>0, <1>1 DEF OneExchange
  <2> QED
    BY <1>0, <1>1, <2>1, <2>2 DEF Asked, PacketsTyped, Points
<1>3. UNCHANGED <<brigade, packAdd, toClient, tags, forwards, call, answer, next_channel, listeners>>
      /\ Mine' = Mine
  <2>1. UNCHANGED <<call, answer>>
    BY DEF SendRequest, Stay, Again, Orderly
  <2> QED
    BY <2>1 DEF SendRequest, recvVars, peerVars, sessVars, Mine
<1>4. NoRequest /\ NoReply /\ brigade' = <<>> /\ ~Awaiting
  BY <1>0, <1>1, <1>3, Silence DEF Awaiting, OneMessage
<1>5. IdsLeft' /\ AnswerIsOwn'
  BY <1>0, <1>3, IdsSame DEF AnswerIsOwn
<1>6. PICK s \in SendResults :
        /\ TransportSend(Asked, s)
        /\ \/ /\ TakenAsSent(s)
              /\ exchange' = [exchange EXCEPT ![Mine].state = "sent"]
              /\ Stay
           \/ s = "EAGAIN" /\ Again /\ exchange' = exchange
           \/ s = "BAD_USE" /\ pc' = "fail" /\ exchange' = exchange
  BY DEF SendRequest, stateVars
<1>7. \/ /\ s \in {"ok", "EAGAIN"} /\ packAdd.point = "idle"
         /\ \/ s = "ok" /\ toPeer' = Append(toPeer, Asked) /\ odata' = NoPacket
            \/ s = "EAGAIN" /\ toPeer' = toPeer /\ odata' = Asked
      \/ s = "BAD_USE" /\ UNCHANGED <<toPeer, odata>>
  <2>1. \/ /\ s \in {"ok", "EAGAIN"}
           /\ odata = NoPacket \/ SameBuffer(Asked)
           /\ \E x \in Packet :
                /\ x.kind = Asked.kind /\ (Asked.kind \notin {"confirm", "refuse"} => x = Asked)
                /\ \/ s = "ok" /\ toPeer' = Append(toPeer, x) /\ odata' = NoPacket
                   \/ s = "EAGAIN" /\ toPeer' = toPeer /\ odata' = x
        \/ s = "BAD_USE" /\ UNCHANGED <<toPeer, odata>> /\ odata # NoPacket /\ ~SameBuffer(Asked)
    BY <1>2, <1>6, SendCases DEF Requests
  <2>2. Asked.kind \notin {"confirm", "refuse", "keepalive"}
    BY <1>2 DEF Requests
  <2>3. ASSUME odata = NoPacket \/ SameBuffer(Asked) PROVE packAdd.point = "idle"
    BY <1>0, <1>2, <2>2, <2>3, NoPacketTyped DEF SameBuffer, HalfSent, HalfWire
  <2> QED
    BY <2>1, <2>2, <2>3
<1>8. HalfWire' /\ odata' \in Packet /\ toPeer' \in Seq(Packet)
  <2>1. CASE s = "BAD_USE"
    BY <1>0, <1>2, <1>3, <1>7, <2>1 DEF HalfSent, HalfWire
  <2>2. CASE s # "BAD_USE"
    BY <1>0, <1>2, <1>3, <1>7, <2>2, NoPacketTyped DEF HalfWire, Requests
  <2> QED
    BY <2>1, <2>2
<1>9. CASE exchange' = exchange
  <2>2. /\ pc' \in {"wait", "fail"} /\ s \in {"EAGAIN", "BAD_USE"}
    <3>1. exchange' # [exchange EXCEPT ![Mine].state = "sent"]
      BY <1>0, <1>1, <1>9 DEF PacketsTyped
    <3> QED
      BY <1>6, <3>1 DEF Again, Orderly
  <2>3. Asked' = Asked /\ Asking' /\ ~Awaiting'
    BY <1>1, <1>3, <1>4, <1>9 DEF Asked, Asking, Awaiting
  <2>4. PacketsTyped'
    BY <1>0, <1>3, <1>8, <1>9 DEF PacketsTyped
  <2>5. CallShape'
    BY <1>0, <1>1, <1>3, <2>2 DEF CallShape, Requests
  <2>6. OneExchange'
    BY <1>0, <1>1, <1>3, <1>9, <2>2, <2>3 DEF OneExchange
  <2>7. OneMessage'
    BY <1>3, <1>4, <1>7, <2>2, SilentOne DEF NoRequest, NoReply
  <2> QED
    BY <1>5, <1>8, <2>3, <2>4, <2>5, <2>6, <2>7 DEF ReplyInv, HalfSent
<1>10. CASE /\ TakenAsSent(s) /\ exchange' = [exchange EXCEPT ![Mine].state = "sent"] /\ Stay
  <2>1. pc' = pc /\ s # "BAD_USE"
    BY <1>10 DEF Stay, TakenAsSent
  <2>2. /\ exchange'[Mine].state = "sent" /\ exchange'[Mine].packet = Asked
        /\ \A x \in Exchanges : x # Mine => exchange'[x] = exchange[x]
        /\ exchange' \in [Exchanges -> [state : {"idle", "created", "sent", "end"},
                                        packet : Packet]]
    BY <1>0, <1>1, <1>10 DEF PacketsTyped, Asked
  <2>3. Asked' = Asked /\ Asking' /\ Awaiting'
    BY <1>1, <1>3, <2>2 DEF Asked, Asking, Awaiting
  <2>4. PacketsTyped'
    BY <1>0, <1>3, <1>8, <2>2 DEF PacketsTyped
  <2>5. CallShape'
    <3>1. pc = "open" => Mine = <<"open", 0>>
      BY <1>0, <1>1 DEF CallShape, Mine
    <3>2. ~(pc' = "open" /\ Opening'.state = "idle")
      BY <2>1, <2>2, <3>1 DEF Opening
    <3> QED
      BY <1>0, <1>3, <2>1, <3>2 DEF CallShape
  <2>6. OneExchange'
    <3>1. \A x \in Exchanges : x # Mine => exchange'[x].state \notin {"created", "sent"}
      BY <1>0, <2>2 DEF OneExchange
    <3> QED
      BY <1>1, <1>2, <1>3, <2>1, <2>3, <3>1 DEF OneExchange, Requests
  <2>7. OneMessage'
    <3>1. CASE s = "EAGAIN"
      BY <1>3, <1>4, <1>7, <3>1, SilentOne DEF NoRequest, NoReply
    <3>2. CASE s = "ok"
      <4>1. toPeer' = Append(toPeer, Asked) /\ odata' = NoPacket
        BY <1>7, <3>2
      <4>2. /\ Len(toPeer) \in Nat /\ DOMAIN toPeer = 1..Len(toPeer)
            /\ DOMAIN toPeer' = 1..(Len(toPeer) + 1)
            /\ toPeer'[Len(toPeer) + 1] = Asked
            /\ \A i \in 1..Len(toPeer) : toPeer'[i] = toPeer[i]
        BY <1>2, <4>1
      <4>3. \A i \in 1..(Len(toPeer) + 1) : i \in 1..Len(toPeer) \/ i = Len(toPeer) + 1
        BY <4>2
      <4>4. \A i \in DOMAIN toPeer' : toPeer'[i].kind \in Requests =>
              i = Len(toPeer) + 1 /\ toPeer'[i] = Asked
        BY <1>4, <4>2, <4>3 DEF NoRequest
      <4>5. NoReply'
        BY <1>3, <1>4 DEF NoReply
      <4>6. odata' # Asked' /\ pc' # "fail"
        BY <1>1, <1>2, <2>1, <2>3, <4>1, NoPacketTyped DEF Requests
      <4> QED
        BY <1>4, <2>3, <4>4, <4>5, <4>6 DEF OneMessage, NoReply
    <3> QED
      BY <2>1, <3>1, <3>2 DEF SendResults
  <2>8. HalfSent'
    BY <1>7, <1>8, <2>1, <2>3 DEF HalfSent
  <2> QED
    BY <1>5, <2>4, <2>5, <2>6, <2>7, <2>8 DEF ReplyInv
<1> QED
  BY <1>6, <1>9, <1>10

\* Nothing waits in the queue of replies: the call goes on to read.
LEMMA AskReplies == ASSUME Orderly, ReplyInv, Ask PROVE ReplyInv'
<1>0. PacketsTyped /\ CallShape /\ OneExchange /\ OneMessage /\ HalfSent /\ IdsLeft /\ AnswerIsOwn
  BY DEF ReplyInv
<1>1. pc \in Requests /\ pc = call.op /\ Awaiting
  BY <1>0 DEF Ask, AtExchange, Requests, CallShape, Awaiting
<1>2. /\ pc' = "read"
      /\ UNCHANGED <<brigade, packAdd, toClient, odata, toPeer, tags, forwards, call, answer,
                     next_channel, listeners, exchange>>
  <2>1. brigade = <<>>
    BY <1>0 DEF OneMessage
  <2>2. ~ \E i \in DOMAIN brigade : Best(i)
    BY <2>1
  <2> QED
    BY <2>2 DEF Ask, sessVars, stateVars, netVars, peerVars
<1>3. Awaiting' /\ Asking' /\ Asked' = Asked /\ Wanted' = Wanted /\ Mine' = Mine
  BY <1>1, <1>2 DEF Awaiting, Asking, Asked, Wanted, Mine
<1>4. PacketsTyped' /\ IdsLeft' /\ AnswerIsOwn'
  BY <1>0, <1>2, IdsSame DEF PacketsTyped, AnswerIsOwn
<1>5. CallShape'
  BY <1>0, <1>1, <1>2 DEF CallShape, Requests
<1>6. OneExchange'
  BY <1>0, <1>2, <1>3 DEF OneExchange
<1>7. OneMessage'
  BY <1>0, <1>2, <1>3 DEF OneMessage, NoRequest, NoReply
<1>8. HalfSent'
  BY <1>0, <1>1, <1>2, <1>3 DEF HalfSent, HalfWire, Coherent
<1> QED
  BY <1>4, <1>5, <1>6, <1>7, <1>8 DEF ReplyInv

\* A request that failed left nothing on the wire.
LEMMA FailReplies == ASSUME ReplyInv, Fail PROVE ReplyInv'
<1>0. PacketsTyped /\ CallShape /\ OneMessage /\ IdsLeft
  BY DEF ReplyInv
<1>1. /\ pc = "fail" /\ Over(FALSE, 0)
      /\ UNCHANGED <<brigade, packAdd, toClient, odata, toPeer, tags, forwards, next_channel>>
  BY DEF Fail, Outcome, recvVars, netVars, peerVars
<1>2. call.op \in Requests /\ NoRequest /\ NoReply /\ brigade = <<>>
  BY <1>0, <1>1 DEF CallShape, OneMessage
<1>3. NoRequest' /\ NoReply' /\ IdsLeft' /\ toPeer' \in Seq(Packet) /\ toClient' \in Seq(Packet)
  BY <1>0, <1>1, <1>2, IdsSame DEF NoRequest, NoReply, PacketsTyped
<1> QED
  BY <1>1, <1>2, <1>3, OverReplies

\* A call that waited is entered again.
LEMMA WaitReplies == ASSUME Orderly, ConnectionInv, ReplyInv, WaitSocket PROVE ReplyInv'
<1>0. PacketsTyped /\ CallShape /\ OneExchange /\ OneMessage /\ HalfSent /\ IdsLeft /\ AnswerIsOwn
  BY DEF ReplyInv
<1>1. /\ pc = "wait" /\ pc' = call.op
      /\ UNCHANGED <<brigade, packAdd, toClient, odata, toPeer, tags, forwards, call, answer,
                     next_channel, listeners, exchange>>
  BY DEF WaitSocket, Orderly, sessVars, recvVars, netVars, peerVars
<1>2. pc' \in AllOps
  BY <1>0, <1>1 DEF CallShape, ConnectionInv, CallInv
<1>3. /\ Awaiting' <=> Awaiting 
      /\ Asking' <=> Asking
      /\ Asked' = Asked /\ Wanted' = Wanted /\ Mine' = Mine
  BY <1>1 DEF Awaiting, Asking, Asked, Wanted, Mine
<1>4. PacketsTyped' /\ IdsLeft' /\ AnswerIsOwn'
  BY <1>0, <1>1, IdsSame DEF PacketsTyped, AnswerIsOwn
<1>5. CallShape'
  <2>1. ASSUME call.op = "open" PROVE Opening.state # "idle"
    <3>1. Asking /\ Mine = <<"open", 0>>
      BY <1>0, <2>1 DEF Asking, Requests, CallShape, Mine
    <3> QED
      BY <1>0, <1>1, <3>1 DEF OneExchange, Opening
  <2>2. ~(pc' = "open" /\ Opening'.state = "idle")
    BY <1>1, <2>1 DEF Opening
  <2> QED
    BY <1>0, <1>1, <1>2, <2>2 DEF CallShape, AllOps
<1>6. OneExchange'
  BY <1>0, <1>1, <1>2, <1>3 DEF OneExchange, AllOps
<1>7. OneMessage'
  BY <1>0, <1>1, <1>2, <1>3 DEF OneMessage, NoRequest, NoReply, AllOps
<1>8. HalfSent'
  BY <1>0, <1>1, <1>3 DEF HalfSent, HalfWire, Coherent
<1> QED
  BY <1>4, <1>5, <1>6, <1>7, <1>8 DEF ReplyInv

\* Nothing of requests or replies appears in a discreet step.
LEMMA QuietWire ==
    ASSUME PacketsTyped, Discreet, NoRequest, NoReply
    PROVE  NoRequest' /\ NoReply' /\ toPeer' \in Seq(Packet) /\ toClient' \in Seq(Packet)
<1>1. /\ \A i \in DOMAIN toPeer' : toPeer'[i].kind \in Requests =>
           i \in DOMAIN toPeer /\ toPeer'[i] = toPeer[i]
      /\ \/ \A i \in DOMAIN toClient' : i \in DOMAIN toClient /\ toClient'[i] = toClient[i]
         \/ \A i \in DOMAIN toClient' :
              /\ i \in Nat /\ i + 1 \in DOMAIN toClient
              /\ toClient'[i] = toClient[i + 1]
      /\ toPeer' \in Seq(Packet) /\ toClient' \in Seq(Packet)
  BY DiscreetKeeps
<1> QED
  BY <1>1 DEF NoRequest, NoReply

\* A call that waits for its reply reads: the reply is its own.
LEMMA ReadReplies == ASSUME Orderly, ConnectionInv, ReplyInv, ReadReply PROVE ReplyInv'
<1>0. PacketsTyped /\ CallShape /\ OneExchange /\ OneMessage /\ HalfSent /\ IdsLeft /\ AnswerIsOwn
  BY DEF ReplyInv
<1>1. /\ pc = "read" /\ call.op \in Requests /\ Awaiting /\ Asking /\ Mine \in Exchanges
      /\ Asked.kind = call.op
  <2>1. pc = "read" /\ call.op \in Requests /\ Awaiting /\ Asking
    BY <1>0 DEF ReadReply, CallShape, OneExchange, Asking
  <2>2. Mine \in Exchanges
    BY <1>0, <2>1, MineTyped
  <2> QED
    BY <1>0, <2>1, <2>2 DEF OneExchange, Awaiting
<1>2. toClient \in Seq(Packet) /\ toPeer \in Seq(Packet) /\ odata \in Packet /\ next_channel \in Nat
      /\ UNCHANGED <<tags, forwards>>
  BY <1>0 DEF PacketsTyped, ConnectionInv, SessionInv, ReadReply, peerVars
<1>3. ASSUME toClient # <<>>
      PROVE  1 \in DOMAIN toClient /\ toClient[1] = Head(toClient)
  BY <1>2, <1>3
<1>4. CASE packAdd.point = "idle" /\ toClient # <<>> /\ Matches(Head(toClient))
  <2> DEFINE m == Head(toClient)
  <2>1. /\ toClient' = Tail(toClient) /\ Over(m.kind = Good, m.tag)
        /\ UNCHANGED <<brigade, packAdd, odata, toPeer, next_channel>>
    BY <1>4 DEF ReadReply, Outcome, netVars
  <2>2. m.kind \in Replies /\ m.tag = Asked.tag /\ ~NoReply
    <3>1. m.kind \in Replies
      BY <1>0, <1>1, <1>4, WantedIs DEF Matches, Requests, Replies
    <3> QED
      BY <1>0, <1>3, <1>4, <3>1 DEF OneMessage, NoReply
  <2>3. NoRequest
    BY <1>0, <2>2 DEF OneMessage
  <2>4. NoReply'
    <3>1. \A i \in DOMAIN toClient' : /\ i \in Nat /\ i + 1 \in DOMAIN toClient
                                      /\ toClient'[i] = toClient[i + 1] /\ i + 1 # 1
      BY <1>2, <1>4, <2>1
    <3> QED
      BY <1>0, <1>3, <1>4, <2>2, <3>1 DEF OneMessage, NoReply
  <2>5. IdsLeft'
    BY <1>0, <1>2, <1>4, <2>1, IdsTail
  <2>6. /\ NoRequest' /\ brigade' = <<>> /\ toPeer' \in Seq(Packet)
        /\ toClient' \in Seq(Packet)
    BY <1>0, <1>2, <1>4, <2>1, <2>3 DEF NoRequest, OneMessage
  <2> HIDE DEF m
  <2> QED
    BY <1>1, <1>2, <2>1, <2>2, <2>4, <2>5, <2>6, OverReplies
<1>5. CASE ~(packAdd.point = "idle" /\ toClient # <<>> /\ Matches(Head(toClient)))
  <2>1. PICK got \in ReadResults :
          /\ TransportRead(got)
          /\ \/ got \notin Wanted \cup {"EAGAIN", "error"} /\ Stay
             \/ got = "EAGAIN" /\ Again
             \/ /\ \/ got \in Wanted \cup {"error"}
                   \/ got = "EAGAIN" /\ MayTimeout
                /\ pc' = "fail" /\ UNCHANGED <<call, answer>>
    BY <1>5 DEF ReadReply
  <2>2. exchange' = exchange
    BY <1>5 DEF ReadReply, stateVars
  <2>3. packAdd.point = "idle" /\ toClient # <<>> => Head(toClient).kind \notin Replies
    BY <1>0, <1>3, <1>5 DEF OneMessage, Matches
  <2>4. /\ Discreet /\ odata' \in Packet /\ packAdd' \in Points /\ HalfWire'
        /\ odata' \in {odata, NoPacket} \/ odata'.kind \in {"confirm", "refuse"}
        /\ odata.kind \notin {"none", "confirm", "refuse"} => odata' = odata
        /\ Tidy => Tidy' /\ got # "error"
        /\ got \notin Replies /\ UNCHANGED <<channels, listeners>>
    BY <1>0, <1>2, <2>1, <2>3, ReadQuiet DEF HalfSent
  <2>5. /\ UNCHANGED <<call, answer>>
        /\ \/ pc' \in {"read", "wait"}
           \/ pc' = "fail" /\ got = "error"
    <3>1. got \notin Wanted
      BY <1>0, <1>1, <2>4, WantedIs DEF Requests, Replies
    <3> QED
      BY <1>1, <2>1, <3>1 DEF Stay, Again, Orderly
  <2>6. Awaiting' /\ Asking' /\ Asked' = Asked /\ Mine' = Mine
    BY <1>1, <2>2, <2>5 DEF Awaiting, Asking, Asked, Mine
  <2>7. ASSUME odata # Asked PROVE Tidy /\ got # "error"
    <3>1. packAdd.point \in {"idle", "jump2"}
      BY <1>0 DEF PacketsTyped, Points
    <3>2. Tidy
      BY <1>0, <1>1, <2>7, <3>1, NoPacketTyped DEF HalfSent, HalfWire, Tidy
    <3> QED
      BY <2>4, <3>2
  <2>8. OneMessage'
    <3>1. ASSUME odata # Asked PROVE odata' # Asked /\ pc' # "fail"
      BY <1>1, <2>4, <2>5, <2>7, <3>1, NoPacketTyped DEF Requests
    <3> QED
      BY <1>0, <2>4, <2>5, <2>6, <3>1, DiscreetOne DEF OneMessage
  <2>9. HalfSent'
    <3>1. CASE odata = Asked
      BY <1>1, <2>4, <2>6, <3>1 DEF HalfSent, Requests
    <3>2. CASE odata # Asked
      BY <2>4, <2>7, <3>2 DEF HalfSent, Tidy
    <3> QED
      BY <3>1, <3>2
  <2>10. PacketsTyped'
    BY <1>0, <1>2, <2>2, <2>4, DiscreetKeeps DEF PacketsTyped
  <2>11. IdsLeft'
    BY <1>0, <1>2, <2>1, ReadIds
  <2>12. CallShape'
    BY <1>0, <1>1, <2>5 DEF CallShape, Requests
  <2>13. OneExchange'
    BY <1>0, <1>1, <1>2, <2>2, <2>5, <2>6 DEF OneExchange, Awaiting
  <2>14. AnswerIsOwn'
    BY <1>0, <2>5 DEF AnswerIsOwn
  <2> QED
    BY <2>8, <2>9, <2>10, <2>11, <2>12, <2>13, <2>14 DEF ReplyInv
<1> QED
  BY <1>4, <1>5

\* Changing the size of a terminal asks for no reply.
LEMMA ResizeReplies == ASSUME Orderly, ConnectionInv, ReplyInv, Resize PROVE ReplyInv'
<1>0. PacketsTyped /\ CallShape /\ OneExchange /\ OneMessage /\ HalfSent /\ IdsLeft /\ AnswerIsOwn
  BY DEF ReplyInv
<1>1. /\ pc = "resize" /\ call.op = "resize" /\ Asking /\ Mine \in Exchanges /\ ~Awaiting
      /\ call.at \in Nat
  <2>1. pc = "resize" /\ call.op = "resize"
    BY <1>0 DEF Resize, CallShape
  <2>2. Asking /\ ~Awaiting /\ call.at \in Nat
    BY <1>0, <2>1, ConnectionAssumption DEF Asking, Awaiting, Requests, CallShape, Ids
  <2> QED
    BY <1>0, <2>1, <2>2, MineTyped
<1>2. NoRequest /\ NoReply /\ brigade = <<>>
  BY <1>0, <1>1, Silence DEF OneMessage
<1>3. /\ UNCHANGED <<brigade, packAdd, toClient, forwards, next_channel, listeners>>
      /\ packAdd' \in Points /\ toClient' \in Seq(Packet)
  BY <1>0 DEF Resize, sessVars, recvVars, peerVars, PacketsTyped
<1>4. Idle = [Idle EXCEPT !.state = "idle"]
  BY DEF Idle
<1>5. CASE /\ exchange[Mine].state = "idle" /\ tags' = tags + 1
           /\ exchange' = [exchange EXCEPT ![Mine] =
                [state |-> "created",
                 packet |-> [kind |-> "resize", at |-> call.at, tag |-> tags']]]
           /\ Stay /\ UNCHANGED netVars
  <2> DEFINE new == [kind |-> "resize", at |-> call.at, tag |-> tags + 1]
  <2>1. new \in Packet /\ new.kind = "resize" /\ new.tag = tags + 1 /\ tags \in Nat
    BY <1>0, <1>1 DEF PacketsTyped, Packet, MsgKinds
  <2>2. exchange' = [exchange EXCEPT ![Mine] = [state |-> "created", packet |-> new]]
    BY <1>5
  <2> HIDE DEF new
  <2>3. /\ exchange'[Mine].state = "created" /\ exchange'[Mine].packet = new
        /\ \A x \in Exchanges : x # Mine => exchange'[x] = exchange[x]
        /\ exchange' \in [Exchanges -> [state : {"idle", "created", "sent", "end"},
                                        packet : Packet]]
    BY <1>0, <1>1, <2>1, <2>2 DEF PacketsTyped
  <2>4. UNCHANGED <<pc, call, answer, odata, toPeer>> /\ Mine' = Mine /\ Asked' = new
    <3>1. UNCHANGED <<pc, call, answer, odata, toPeer>>
      BY <1>5 DEF Stay, netVars
    <3> QED
      BY <2>3, <3>1 DEF Mine, Asked
  <2>5. PacketsTyped'
    BY <1>0, <1>3, <1>5, <2>1, <2>3, <2>4 DEF PacketsTyped
  <2>6. IdsLeft'
    <3>1. /\ next_channel \in Nat /\ forwards \in Nat
          /\ \A i \in DOMAIN toClient : toClient[i].tag \in Nat
      <4>1. toClient \in Seq(Packet) /\ forwards \in Nat
        BY <1>0 DEF PacketsTyped
      <4>2. \A i \in DOMAIN toClient : toClient[i] \in Packet
        BY <4>1
      <4> QED
        BY <4>1, <4>2 DEF Packet, ConnectionInv, SessionInv
    <3> QED
      BY <1>0, <1>3, <1>5, <2>1, <3>1 DEF IdsLeft
  <2>7. CallShape'
    BY <1>0, <1>1, <2>4 DEF CallShape
  <2>8. OneExchange'
    <3>1. \A x \in Exchanges : x # Mine => exchange'[x].state \notin {"created", "sent"}
      BY <1>0, <2>3 DEF OneExchange
    <3>2. Asking'
      BY <1>1, <2>4 DEF Asking
    <3> QED
      BY <1>1, <1>5, <2>1, <2>3, <2>4, <3>1, <3>2 DEF OneExchange
  <2>9. ~Awaiting'
    BY <2>3, <2>4 DEF Awaiting
  <2>10. OneMessage'
    BY <1>2, <1>3, <2>4, SilentOne DEF NoRequest, NoReply
  <2>11. HalfSent'
    <3>1. odata.kind \in Requests \cup {"resize"} => odata.tag <= tags + 1
      <4>1. odata.tag \in Nat
        BY <1>0 DEF PacketsTyped, Packet
      <4> QED
        BY <1>0, <2>1, <4>1 DEF HalfSent, HalfWire
    <3> QED
      BY <1>0, <1>3, <1>5, <2>4, <2>9, <3>1 DEF HalfSent, HalfWire
  <2>12. AnswerIsOwn'
    BY <1>0, <2>4 DEF AnswerIsOwn
  <2> QED
    BY <2>5, <2>6, <2>7, <2>8, <2>10, <2>11, <2>12 DEF ReplyInv
<1>6. ASSUME NEW s \in SendResults, exchange[Mine].state = "created",
             TransportSend(Asked, s), UNCHANGED tags,
             \/ s = "EAGAIN" /\ Again /\ UNCHANGED exchange
             \/ /\ s # "EAGAIN" /\ exchange' = [exchange EXCEPT ![Mine] = Idle]
                /\ Return(0, 0)
      PROVE  ReplyInv'
  <2>1. Asked \in Packet /\ Asked.kind = "resize" /\ Asked.tag = tags /\ tags \in Nat
    BY <1>0, <1>1, <1>6 DEF OneExchange, PacketsTyped, Asked
  <2>2. Discreet /\ odata' \in Packet /\ HalfWire'
    BY <1>0, <1>3, <1>6, <2>1, SendQuiet DEF HalfSent
  <2>3. /\ NoRequest' /\ NoReply' /\ brigade' = <<>>
        /\ toPeer' \in Seq(Packet) /\ toClient' \in Seq(Packet)
    BY <1>0, <1>2, <1>3, <2>2, QuietWire
  <2>4. IdsLeft'
    BY <1>0, <1>3, <1>6, IdsSame
  <2>5. CASE Again /\ UNCHANGED exchange
    <3>1. pc' = "wait" /\ UNCHANGED <<call, answer>>
      BY <2>5 DEF Again, Orderly
    <3>2. Mine' = Mine /\ Asked' = Asked /\ Asking' /\ ~Awaiting'
      BY <1>1, <2>5, <3>1 DEF Mine, Asked, Asking, Awaiting
    <3>3. PacketsTyped'
      BY <1>0, <1>3, <1>6, <2>2, <2>3, <2>5 DEF PacketsTyped
    <3>4. CallShape'
      BY <1>0, <1>1, <3>1 DEF CallShape
    <3>5. OneExchange'
      BY <1>0, <1>1, <1>6, <2>5, <3>1, <3>2 DEF OneExchange
    <3>6. OneMessage'
      BY <2>3, SilentOne
    <3>7. HalfSent' /\ AnswerIsOwn'
      BY <1>0, <2>2, <3>1, <3>2 DEF HalfSent, AnswerIsOwn
    <3> QED
      BY <2>4, <3>3, <3>4, <3>5, <3>6, <3>7 DEF ReplyInv
  <2>6. CASE exchange' = [exchange EXCEPT ![Mine] = Idle] /\ Return(0, 0)
    BY <1>1, <1>3, <1>4, <1>6, <2>2, <2>3, <2>4, <2>6, EndKept DEF Return, AnswerIsOwn
  <2> QED
    BY <1>6, <2>5, <2>6
<1>7. CASE /\ exchange' = [exchange EXCEPT ![Mine] = Idle] /\ Return(0, 0)
           /\ UNCHANGED <<netVars, tags>>
  <2>1. UNCHANGED <<odata, toPeer, tags>>
    BY <1>7 DEF netVars
  <2>2. /\ NoRequest' /\ NoReply' /\ brigade' = <<>>
        /\ toPeer' \in Seq(Packet) /\ odata' \in Packet /\ HalfWire' /\ IdsLeft'
    BY <1>0, <1>2, <1>3, <2>1, IdsSame DEF NoRequest, NoReply, PacketsTyped, HalfSent, HalfWire
  <2> QED
    BY <1>1, <1>3, <1>4, <1>7, <2>1, <2>2, EndKept DEF Return, AnswerIsOwn
<1> QED
  BY <1>5, <1>6, <1>7 DEF Resize

\* The steps of accept(), of cancelling a listener and of freeing a channel, which wait for
\* no reply.
LEMMA OtherReplies ==
    ASSUME Orderly, ConnectionInv, ReplyInv,
           \/ AcceptRead \/ AcceptTake \/ CancelSend \/ CancelNext \/ CancelEnd
           \/ CloseSend \/ CloseWait \/ Unlink
    PROVE  ReplyInv'
<1>0. PacketsTyped /\ CallShape /\ OneMessage /\ HalfWire /\ IdsLeft /\ CallInv
  BY DEF ReplyInv, HalfSent, ConnectionInv
<1>1. /\ UNCHANGED <<tags, forwards>>
      /\ \/ exchange' = exchange
         \/ exchange' = [x \in Exchanges |-> IF x \in Kinds \X {Victim} THEN Idle
                                              ELSE exchange[x]]
  BY DEF AcceptRead, AcceptTake, CancelSend, CancelNext, CancelEnd, CloseSend, CloseWait, Unlink,
         stateVars, peerVars
<1>2. call.op \in {"accept", "cancel", "free"}
  BY <1>0 DEF AcceptRead, AcceptTake, CancelSend, CancelNext, CancelEnd, CloseSend, CloseWait,
              Unlink, CallInv, CallShape
<1>3. ~Asking /\ ~Awaiting /\ NoRequest /\ NoReply
  <2>1. ~Asking /\ ~Awaiting
    BY <1>2 DEF Asking, Awaiting, Requests
  <2> QED
    BY <1>0, <2>1, Silence
<1>4. /\ packAdd.point = "idle" /\ toClient # <<>> => Head(toClient).kind \notin Replies
  <2>1. toClient # <<>> => 1 \in DOMAIN toClient /\ Head(toClient) = toClient[1]
    BY <1>0 DEF PacketsTyped
  <2> QED
    BY <1>3, <2>1 DEF NoReply
\* where the call goes on
<1>5. ASSUME pc' = "app" /\ call' = NoCall PROVE CallShape' /\ ~Asking'
  BY <1>5 DEF CallShape, Asking, NoCall, Requests
<1>6. ASSUME pc' = "wait", call' = call PROVE CallShape' /\ ~Asking'
  BY <1>0, <1>2, <1>3, <1>6 DEF CallShape, Asking
<1>7. ASSUME call' = call,
             pc' \in {"accept", "accept_eagain", "accept_error", "cancel", "cancel_end"} \cup
                     {"close", "close_wait", "unlink"},
             pc' \in {"accept", "cancel"} => call.op = pc',
             pc' \in {"close", "close_wait", "unlink"} => call.op \in {"free", "cancel"}
      PROVE  CallShape' /\ ~Asking'
  BY <1>0, <1>3, <1>7 DEF CallShape, Asking
<1>8. ASSUME Again PROVE pc' = "wait" /\ call' = call /\ answer' = answer
  BY <1>8 DEF Again, Orderly
<1>9. ASSUME Return(0, 0) PROVE pc' = "app" /\ call' = NoCall /\ answer' = NoAnswer
  BY <1>9 DEF Return, NoAnswer
\* what happens on the wire
<1>10. ASSUME UNCHANGED <<brigade, packAdd, toClient, odata, toPeer>>
       PROVE  Discreet /\ odata' \in Packet /\ packAdd' \in Points /\ HalfWire'
  BY <1>0, <1>1, <1>10 DEF Discreet, PacketsTyped, HalfWire
<1>11. ASSUME NEW got, TransportRead(got)
       PROVE  /\ Discreet /\ odata' \in Packet /\ packAdd' \in Points /\ HalfWire'
              /\ IdsLeft'
  BY <1>0, <1>1, <1>4, <1>11, ReadQuiet, ReadIds
<1>12. ASSUME NEW m \in Packet, m.kind \in {"cancel", "close"}, NEW s, TransportSend(m, s),
              UNCHANGED <<brigade, packAdd, toClient>>
       PROVE  Discreet /\ odata' \in Packet /\ packAdd' \in Points /\ HalfWire'
  BY <1>0, <1>1, <1>12, SendQuiet DEF PacketsTyped
\* the steps
<1>13. CASE AcceptRead
  <2>1. PICK got \in ReadResults :
          /\ TransportRead(got)
          /\ pc' = CASE got = "EAGAIN" -> "accept_eagain" [] got = "error" -> "accept_error"
                     [] OTHER -> "accept"
    BY <1>13 DEF AcceptRead
  <2>2. call' = call /\ answer' = answer /\ call.op = "accept"
    BY <1>0, <1>13 DEF AcceptRead, CallInv
  <2>3. pc' \in {"accept", "accept_eagain", "accept_error"}
    BY <2>1
  <2> QED
    BY <1>1, <1>3, <1>7, <1>11, <2>1, <2>2, <2>3, OutsideKept
<1>14. CASE AcceptTake
  <2>1. UNCHANGED <<brigade, packAdd, toClient, odata, toPeer, next_channel>>
    BY <1>14 DEF AcceptTake, recvVars, netVars, sessVars
  <2>2. Again \/ Return(0, 0)
    BY <1>14 DEF AcceptTake
  <2>3. CallShape' /\ ~Asking' /\ answer' \in {answer, NoAnswer} /\ pc' \notin {"read", "fail"}
    BY <1>5, <1>6, <1>8, <1>9, <2>2
  <2> QED
    BY <1>0, <1>1, <1>3, <1>10, <2>1, <2>3, IdsSame, OutsideKept
<1>15. CASE CancelSend
  <2>1. PICK s \in SendResults : TransportSend([kind |-> "cancel", at |-> call.at, tag |-> 0], s)
    BY <1>15 DEF CancelSend
  <2>2. [kind |-> "cancel", at |-> call.at, tag |-> 0] \in Packet /\ call.op = "cancel"
    BY <1>0, <1>15, ConnectionAssumption DEF CancelSend, CallInv, Packet, MsgKinds
  <2>3. UNCHANGED <<brigade, packAdd, toClient, next_channel>>
    BY <1>15 DEF CancelSend, recvVars, sessVars
  <2>4. Again \/ (pc' = "cancel" /\ call' = call /\ answer' = answer)
    BY <1>15 DEF CancelSend, Stay
  <2>5. CallShape' /\ ~Asking' /\ answer' \in {answer, NoAnswer} /\ pc' \notin {"read", "fail"}
    BY <1>6, <1>7, <1>8, <2>2, <2>4
  <2>6. Discreet /\ odata' \in Packet /\ packAdd' \in Points /\ HalfWire'
    BY <1>12, <2>1, <2>2, <2>3
  <2> QED
    BY <1>0, <1>1, <1>3, <2>3, <2>5, <2>6, IdsSame, OutsideKept
<1>16. CASE CancelNext \/ CancelEnd
  <2>1. UNCHANGED <<brigade, packAdd, toClient, odata, toPeer, next_channel>>
    BY <1>16 DEF CancelNext, CancelEnd, recvVars, netVars, sessVars
  <2>2. Return(0, 0) \/ (pc' = "close" /\ call' = call /\ answer' = answer /\ call.op = "cancel")
    BY <1>0, <1>16 DEF CancelNext, CancelEnd, CallInv
  <2>3. CallShape' /\ ~Asking' /\ answer' \in {answer, NoAnswer} /\ pc' \notin {"read", "fail"}
    BY <1>5, <1>7, <1>9, <2>2
  <2> QED
    BY <1>0, <1>1, <1>3, <1>10, <2>1, <2>3, IdsSame, OutsideKept
<1>17. CASE CloseSend
  <2>1. UNCHANGED <<brigade, packAdd, toClient, next_channel>> /\ call.op \in {"free", "cancel"}
    BY <1>0, <1>17 DEF CloseSend, recvVars, sessVars, CallInv
  <2>2. \/ Again
        \/ pc' \in {"close_wait", "unlink"} /\ call' = call /\ answer' = answer
    BY <1>17 DEF CloseSend
  <2>3. CallShape' /\ ~Asking' /\ answer' \in {answer, NoAnswer} /\ pc' \notin {"read", "fail"}
    BY <1>6, <1>7, <1>8, <2>1, <2>2
  <2>4. Victim \in Nat
    <3>1. CASE call.op = "free"
      BY <1>0, <3>1 DEF Victim, CallShape
    <3>2. CASE call.op = "cancel"
      <4>1. queue[call.at] # <<>> /\ call.at \in Ports
        BY <1>0, <1>17, <3>2 DEF CallInv, CloseSend
      <4>2. queue[call.at] \in Seq(Nat)
        BY <4>1 DEF ConnectionInv, SessionInv
      <4> QED
        BY <3>2, <4>1, <4>2 DEF Victim
    <3> QED
      BY <2>1, <3>1, <3>2
  <2>5. Discreet /\ odata' \in Packet /\ packAdd' \in Points /\ HalfWire'
    <3> DEFINE m == [kind |-> "close", at |-> Victim, tag |-> 0]
    <3>1. m \in Packet /\ m.kind = "close"
      BY <2>4 DEF Packet, MsgKinds
    <3>2. UNCHANGED netVars \/ \E s \in SendResults : TransportSend(m, s)
      BY <1>17 DEF CloseSend
    <3> HIDE DEF m
    <3> QED
      BY <1>10, <1>12, <2>1, <3>1, <3>2 DEF netVars
  <2> QED
    BY <1>0, <1>1, <1>3, <2>1, <2>3, <2>5, IdsSame, OutsideKept
<1>18. CASE CloseWait
  <2>1. call.op \in {"free", "cancel"}
    BY <1>0, <1>18 DEF CloseWait, CallShape
  <2>2. /\ \/ UNCHANGED <<sessVars, recvVars, netVars>>
           \/ \E got \in ReadResults : TransportRead(got)
        /\ \/ Again
           \/ pc' = "unlink" /\ call' = call /\ answer' = answer
    BY <1>18 DEF CloseWait
  <2>3. CallShape' /\ ~Asking' /\ answer' \in {answer, NoAnswer} /\ pc' \notin {"read", "fail"}
    BY <1>6, <1>7, <1>8, <2>1, <2>2
  <2>4. Discreet /\ odata' \in Packet /\ packAdd' \in Points /\ HalfWire' /\ IdsLeft'
    <3>1. CASE UNCHANGED <<sessVars, recvVars, netVars>>
      BY <1>0, <1>1, <1>10, <3>1, IdsSame DEF sessVars, recvVars, netVars
    <3>2. CASE \E got \in ReadResults : TransportRead(got)
      BY <1>11, <3>2
    <3> QED
      BY <2>2, <3>1, <3>2
  <2> QED
    BY <1>1, <1>3, <2>3, <2>4, OutsideKept
<1>19. CASE Unlink
  <2>1. UNCHANGED <<brigade, packAdd, toClient, odata, toPeer, next_channel>>
    BY <1>19 DEF Unlink, netVars
  <2>2. \/ Return(0, 0)
        \/ pc' \in {"cancel", "cancel_end"} /\ call' = call /\ answer' = answer
           /\ call.op = "cancel"
    BY <1>19 DEF Unlink
  <2>3. CallShape' /\ ~Asking' /\ answer' \in {answer, NoAnswer} /\ pc' \notin {"read", "fail"}
    BY <1>5, <1>7, <1>9, <2>2
  <2> QED
    BY <1>0, <1>1, <1>3, <1>10, <2>1, <2>3, IdsSame, OutsideKept
<1> QED
  BY <1>13, <1>14, <1>15, <1>16, <1>17, <1>18, <1>19

----------------------------------------------------------------------------
(* The peer. *)

\* The peer leaves the client alone.
LEMMA PeerKept ==
    ASSUME ReplyInv, UNCHANGED clientVars, toPeer' \in Seq(Packet), toClient' \in Seq(Packet),
           forwards' \in Nat, IdsLeft', OneMessage'
    PROVE  ReplyInv'
<1>0. PacketsTyped /\ CallShape /\ OneExchange /\ HalfSent /\ AnswerIsOwn
  BY DEF ReplyInv
<1>1. UNCHANGED <<packAdd, odata, listeners, exchange, pc, call, answer, tags>>
  BY DEF clientVars, sessVars, stateVars, callVars
<1>2. /\ Mine' = Mine /\ Asked' = Asked
      /\ Asking' <=> Asking
      /\ Awaiting' <=> Awaiting
  BY <1>1 DEF Mine, Asked, Asking, Awaiting
<1>3. PacketsTyped' /\ CallShape' /\ AnswerIsOwn'
  BY <1>0, <1>1 DEF PacketsTyped, CallShape, AnswerIsOwn, Opening
<1>4. OneExchange'
  BY <1>0, <1>1, <1>2 DEF OneExchange
<1>5. HalfSent'
  BY <1>0, <1>1, <1>2 DEF HalfSent, HalfWire, Coherent
<1> QED
  BY <1>3, <1>4, <1>5 DEF ReplyInv

\* One more packet for the client.
LEMMA Arrives ==
    ASSUME PacketsTyped, NEW x \in Packet, toClient' = Append(toClient, x)
    PROVE  /\ toClient' \in Seq(Packet) /\ Len(toClient) \in Nat
           /\ DOMAIN toClient = 1..Len(toClient) /\ DOMAIN toClient' = 1..(Len(toClient) + 1)
           /\ \A i \in DOMAIN toClient' :
                \/ i \in DOMAIN toClient /\ toClient'[i] = toClient[i]
                \/ i = Len(toClient) + 1 /\ toClient'[i] = x
<1>1. toClient \in Seq(Packet)
  BY DEF PacketsTyped
<1>2. /\ toClient' \in Seq(Packet) /\ Len(toClient) \in Nat
      /\ DOMAIN toClient = 1..Len(toClient) /\ DOMAIN toClient' = 1..(Len(toClient) + 1)
      /\ toClient'[Len(toClient) + 1] = x
      /\ \A i \in 1..Len(toClient) : toClient'[i] = toClient[i]
  BY <1>1
<1>3. \A i \in 1..(Len(toClient) + 1) : i \in 1..Len(toClient) \/ i = Len(toClient) + 1
  BY <1>2
<1> QED
  BY <1>2, <1>3

\* A forwarded connection has an id left; no other packet needs one.
LEMMA IdsArrive ==
    ASSUME PacketsTyped, IdsLeft, next_channel \in Nat, NEW x \in Packet,
           toClient' = Append(toClient, x), UNCHANGED <<next_channel, tags>>,
           \/ x.kind # "forward" /\ forwards' = forwards
           \/ /\ x.kind = "forward" /\ x.tag = forwards + 1 /\ forwards' = forwards + 1
              /\ forwards < MaxForwards
    PROVE  IdsLeft' /\ forwards' \in Nat
<1>1. /\ tags \in Nat /\ forwards \in Nat /\ MaxTags \in Nat /\ MaxForwards \in Nat
      /\ forwards' \in Nat /\ forwards <= forwards'
  BY ConnectionAssumption DEF PacketsTyped
<1>2. /\ toClient \in Seq(Packet) /\ Len(toClient) \in Nat
      /\ DOMAIN toClient = 1..Len(toClient) /\ DOMAIN toClient' = 1..(Len(toClient) + 1)
      /\ \A i \in DOMAIN toClient' :
           \/ i \in DOMAIN toClient /\ toClient'[i] = toClient[i]
           \/ i = Len(toClient) + 1 /\ toClient'[i] = x
  BY Arrives DEF PacketsTyped
<1>3. \A i \in DOMAIN toClient : toClient[i].tag \in Nat
  <2>1. \A i \in DOMAIN toClient : toClient[i] \in Packet
    BY <1>2
  <2> QED
    BY <2>1 DEF Packet
<1>4. /\ forwards' <= MaxForwards
      /\ next_channel <= tags + forwards' /\ next_channel <= MaxTags + forwards'
  <2>1. /\ forwards <= MaxForwards
        /\ next_channel <= tags + forwards /\ next_channel <= MaxTags + forwards
    BY DEF IdsLeft
  <2>2. forwards' <= MaxForwards
    BY <1>1, <2>1
  <2> DEFINE f == forwards'
  <2>3. f \in Nat /\ forwards <= f /\ next_channel \in Nat
    BY <1>1
  <2> HIDE DEF f
  <2>4. next_channel <= tags + f /\ next_channel <= MaxTags + f
    BY ONLY <1>1, <2>1, <2>3
  <2> QED
    BY <2>2, <2>4 DEF f
<1>5. ASSUME NEW i \in DOMAIN toClient', toClient'[i].kind = "forward"
      PROVE  /\ toClient'[i].tag <= forwards'
             /\ next_channel + 1 <= tags + toClient'[i].tag
             /\ next_channel + 1 <= MaxTags + toClient'[i].tag
  <2>1. CASE i \in DOMAIN toClient /\ toClient'[i] = toClient[i]
    <3>1. /\ toClient[i].tag <= forwards
          /\ next_channel + 1 <= tags + toClient[i].tag
          /\ next_channel + 1 <= MaxTags + toClient[i].tag
      BY <1>5, <2>1 DEF IdsLeft
    <3> QED
      BY <1>1, <1>3, <2>1, <3>1
  <2>2. CASE i = Len(toClient) + 1 /\ toClient'[i] = x
    <3>1. x.kind = "forward" /\ x.tag = forwards + 1 /\ forwards' = forwards + 1
      BY <1>5, <2>2
    <3>2. /\ next_channel + 1 <= tags + (forwards + 1)
          /\ next_channel + 1 <= MaxTags + (forwards + 1)
      BY <1>1 DEF IdsLeft
    <3> QED
      BY <1>1, <2>2, <3>1, <3>2
  <2> QED
    BY <1>2, <2>1, <2>2
<1>6. ASSUME NEW i \in DOMAIN toClient', NEW j \in DOMAIN toClient', i < j,
             toClient'[i].kind = "forward", toClient'[j].kind = "forward"
      PROVE  toClient'[i].tag + 1 <= toClient'[j].tag
  <2>1. i \in DOMAIN toClient /\ toClient'[i] = toClient[i]
    BY <1>2, <1>6
  <2>2. CASE j \in DOMAIN toClient /\ toClient'[j] = toClient[j]
    BY <1>6, <2>1, <2>2 DEF IdsLeft
  <2>3. CASE toClient'[j] = x
    <3>1. x.tag = forwards + 1 /\ toClient[i].tag <= forwards /\ toClient[i].tag \in Nat
      BY <1>3, <1>6, <2>1, <2>3 DEF IdsLeft
    <3>2. toClient[i].tag + 1 <= forwards + 1
      BY <1>1, <3>1
    <3> QED
      BY <2>1, <2>3, <3>1, <3>2
  <2> QED
    BY <1>2, <2>2, <2>3
<1> QED
  BY <1>1, <1>4, <1>5, <1>6 DEF IdsLeft

\* The peer takes a packet that is no request, or none, and sends one that is no reply, or
\* none.
LEMMA PeerQuiet ==
    ASSUME PacketsTyped, OneMessage, UNCHANGED clientVars,
           \/ toPeer' = toPeer
           \/ toPeer # <<>> /\ Head(toPeer).kind \notin Requests /\ toPeer' = Tail(toPeer),
           \/ toClient' = toClient
           \/ \E x \in Packet : x.kind \notin Replies /\ toClient' = Append(toClient, x)
    PROVE  OneMessage' /\ toPeer' \in Seq(Packet) /\ toClient' \in Seq(Packet)
<1>0. toPeer \in Seq(Packet) /\ toClient \in Seq(Packet)
  BY DEF PacketsTyped
<1>1. UNCHANGED <<odata, exchange, pc, call, brigade>>
  BY DEF clientVars, stateVars, callVars
<1>2. /\ Asked' = Asked /\ Wanted' = Wanted
      /\ Awaiting' <=> Awaiting
  BY <1>1 DEF Mine, Asked, Wanted, Awaiting
<1>3. /\ toPeer' \in Seq(Packet)
      /\ \/ \A i \in DOMAIN toPeer' : i \in DOMAIN toPeer /\ toPeer'[i] = toPeer[i]
         \/ \A i \in DOMAIN toPeer' : /\ i \in Nat /\ i + 1 \in DOMAIN toPeer
                                      /\ toPeer'[i] = toPeer[i + 1]
  <2>1. CASE toPeer' = toPeer
    BY <1>0, <2>1
  <2>2. CASE toPeer # <<>> /\ toPeer' = Tail(toPeer)
    <3>1. toPeer' \in Seq(Packet)
      BY <1>0, <2>2
    <3>2. \A i \in DOMAIN toPeer' : /\ i \in Nat /\ i + 1 \in DOMAIN toPeer
                                    /\ toPeer'[i] = toPeer[i + 1]
      BY <1>0, <2>2
    <3> QED
      BY <3>1, <3>2
  <2> QED
    BY <2>1, <2>2
<1>4. /\ toClient' \in Seq(Packet)
      /\ \A i \in DOMAIN toClient' : toClient'[i].kind \in Replies =>
           i \in DOMAIN toClient /\ toClient'[i] = toClient[i]
  <2>1. CASE toClient' = toClient
    BY <1>0, <2>1
  <2>2. ASSUME NEW x \in Packet, x.kind \notin Replies, toClient' = Append(toClient, x)
        PROVE  /\ toClient' \in Seq(Packet)
               /\ \A i \in DOMAIN toClient' : toClient'[i].kind \in Replies =>
                    i \in DOMAIN toClient /\ toClient'[i] = toClient[i]
    BY <2>2, Arrives
  <2> QED
    BY <2>1, <2>2
<1>5. (NoRequest => NoRequest') /\ (NoReply => NoReply')
  BY <1>3, <1>4 DEF NoRequest, NoReply
<1>6. ASSUME NEW i \in DOMAIN toPeer', toPeer'[i].kind \in Requests
      PROVE  /\ toPeer'[i] = Asked
             /\ \A j \in DOMAIN toPeer' : toPeer'[j].kind \in Requests => i = j
  <2>1. CASE \A k \in DOMAIN toPeer' : k \in DOMAIN toPeer /\ toPeer'[k] = toPeer[k]
    BY <1>6, <2>1 DEF OneMessage
  <2>2. CASE \A k \in DOMAIN toPeer' : /\ k \in Nat /\ k + 1 \in DOMAIN toPeer
                                       /\ toPeer'[k] = toPeer[k + 1]
    <3>1. toPeer'[i] = Asked
      BY <1>6, <2>2 DEF OneMessage
    <3>2. ASSUME NEW j \in DOMAIN toPeer', toPeer'[j].kind \in Requests PROVE i = j
      <4>1. i + 1 = j + 1 /\ i \in Nat /\ j \in Nat
        BY <1>6, <2>2, <3>2 DEF OneMessage
      <4> QED
        BY <4>1
    <3> QED
      BY <3>1, <3>2
  <2> QED
    BY <1>3, <2>1, <2>2
<1>7. ASSUME NEW i \in DOMAIN toClient', toClient'[i].kind \in Replies
      PROVE  /\ toClient'[i].kind \in Wanted
             /\ toClient'[i].at = Asked.at /\ toClient'[i].tag = Asked.tag
             /\ \A j \in DOMAIN toClient' : toClient'[j].kind \in Replies => i = j
  BY <1>4, <1>7 DEF OneMessage
<1>8. brigade' = <<>>
  BY <1>1 DEF OneMessage
<1>9. ~(NoRequest' /\ NoReply') => Awaiting' /\ odata' # Asked' /\ pc' # "fail"
  BY <1>1, <1>2, <1>5 DEF OneMessage
<1>10. NoRequest' \/ NoReply'
  BY <1>5 DEF OneMessage
<1>11. OneMessage'
  BY <1>2, <1>6, <1>7, <1>8, <1>9, <1>10 DEF OneMessage
<1> QED
  BY <1>3, <1>4, <1>11

LEMMA PeerReplies ==
    ASSUME ConnectionInv, ReplyInv, PeerReceive \/ \E p \in Ports : PeerForward(p)
    PROVE  ReplyInv'
<1>0. PacketsTyped /\ CallShape /\ OneExchange /\ OneMessage /\ IdsLeft
  BY DEF ReplyInv
<1>1. /\ toPeer \in Seq(Packet) /\ toClient \in Seq(Packet) /\ next_channel \in Nat
      /\ forwards \in Nat
  BY <1>0 DEF PacketsTyped, ConnectionInv, SessionInv
<1>2. ASSUME NEW p \in Ports, PeerForward(p) PROVE ReplyInv'
  <2> DEFINE x == [kind |-> "forward", at |-> p, tag |-> forwards + 1]
  <2>1. /\ forwards < MaxForwards /\ forwards' = forwards + 1 /\ toPeer' = toPeer
        /\ toClient' = Append(toClient, x)
        /\ UNCHANGED clientVars
    BY <1>2 DEF PeerForward
  <2>2. x \in Packet /\ x.kind = "forward" /\ x.tag = forwards + 1 /\ x.kind \notin Replies
    BY <1>1, ConnectionAssumption DEF Packet, MsgKinds, Replies
  <2> HIDE DEF x
  <2>3. UNCHANGED <<next_channel, tags>>
    BY <2>1 DEF clientVars, sessVars
  <2>4. IdsLeft' /\ forwards' \in Nat
    BY <1>0, <1>1, <2>1, <2>2, <2>3, IdsArrive
  <2>5. OneMessage' /\ toPeer' \in Seq(Packet) /\ toClient' \in Seq(Packet)
    BY <1>0, <2>1, <2>2, PeerQuiet
  <2> QED
    BY <2>1, <2>4, <2>5, PeerKept
<1>3. CASE PeerReceive
  <2> DEFINE m == Head(toPeer)
  <2>1. /\ toPeer # <<>> /\ toPeer' = Tail(toPeer) /\ UNCHANGED <<clientVars, forwards>>
    BY <1>3 DEF PeerReceive
  <2>2. PICK reply \in Answers(m) : toClient' = toClient \o reply
    BY <1>3 DEF PeerReceive
  <2>3. m \in Packet /\ 1 \in DOMAIN toPeer /\ toPeer[1] = m
    BY <1>1, <2>1
  <2>4. UNCHANGED <<next_channel, tags, brigade, odata, exchange, pc, call>>
    BY <2>1 DEF clientVars, sessVars, stateVars, callVars
  <2> HIDE DEF m
  <2>5. CASE m.kind \notin Requests
    <3>1. \/ reply = <<>>
          \/ \E x \in Packet : x.kind = "closed" /\ reply = <<x>>
      <4>1. m.kind # "keepalive"
        BY <2>3 DEF Packet, MsgKinds, Requests, Replies
      <4>2. reply = <<>> \/ reply = <<[m EXCEPT !.kind = "closed"]>>
        BY <2>2, <2>5, <4>1 DEF Answers, Requests
      <4>3. [m EXCEPT !.kind = "closed"] \in Packet /\ [m EXCEPT !.kind = "closed"].kind = "closed"
        BY <2>3 DEF Packet, MsgKinds
      <4> QED
        BY <4>2, <4>3
    <3>2. \/ toClient' = toClient
          \/ \E x \in Packet : x.kind = "closed" /\ toClient' = Append(toClient, x)
      <4>1. CASE reply = <<>>
        BY <1>1, <2>2, <4>1
      <4>2. ASSUME NEW x \in Packet, x.kind = "closed", reply = <<x>>
            PROVE  toClient' = Append(toClient, x)
        BY <1>1, <2>2, <4>2
      <4> QED
        BY <3>1, <4>1, <4>2
    <3>3. OneMessage' /\ toPeer' \in Seq(Packet) /\ toClient' \in Seq(Packet)
      BY <1>0, <2>1, <2>5, <3>2, PeerQuiet DEF m, Replies
    <3>4. IdsLeft' /\ forwards' \in Nat
      BY <1>0, <1>1, <2>1, <2>4, <3>2, IdsSame, IdsArrive
    <3> QED
      BY <2>1, <3>3, <3>4, PeerKept
  <2>6. CASE m.kind \in Requests
    <3>1. m = Asked /\ ~NoRequest
      BY <1>0, <2>3, <2>6 DEF OneMessage, NoRequest
    <3>2. Awaiting /\ odata # Asked /\ pc # "fail" /\ NoReply
      BY <1>0, <3>1 DEF OneMessage
    <3>3. Asked.kind = call.op /\ call.op \in Requests
      <4>1. Asking
        BY <3>2 DEF Awaiting, Asking
      <4>2. Mine \in Exchanges
        BY <1>0, <4>1, MineTyped
      <4> QED
        BY <1>0, <3>2, <4>2 DEF OneExchange, Awaiting
    <3>4. PICK x \in Packet : /\ x.kind \in Wanted /\ x.at = Asked.at /\ x.tag = Asked.tag
                              /\ x.kind # "forward" /\ reply = <<x>>
      <4>1. PICK k \in Wanted : k \in Replies /\ reply = <<[m EXCEPT !.kind = k]>>
        BY <1>0, <2>2, <3>1, <3>3, WantedIs DEF Answers, Requests, Replies
      <4> DEFINE x == [m EXCEPT !.kind = k]
      <4>2. x \in Packet /\ x.kind = k /\ x.at = m.at /\ x.tag = m.tag
        BY <2>3, <4>1 DEF Packet, MsgKinds
      <4>3. k # "forward"
        BY <4>1 DEF Replies
      <4> QED
        BY <3>1, <4>1, <4>2, <4>3
    <3>5. toClient' = Append(toClient, x)
      BY <1>1, <2>2, <3>4
    <3>6. IdsLeft' /\ forwards' \in Nat
      BY <1>0, <1>1, <2>1, <2>4, <3>4, <3>5, IdsArrive
    <3>7. /\ toClient' \in Seq(Packet)
          /\ \A i \in DOMAIN toClient' : toClient'[i].kind \in Replies =>
               i = Len(toClient) + 1 /\ toClient'[i] = x
      BY <1>0, <3>2, <3>5, Arrives DEF NoReply
    <3>8. NoRequest' /\ toPeer' \in Seq(Packet)
      <4>1. /\ toPeer' \in Seq(Packet)
            /\ \A i \in DOMAIN toPeer' : /\ i \in Nat /\ i + 1 \in DOMAIN toPeer
                                         /\ toPeer'[i] = toPeer[i + 1] /\ i + 1 # 1
        BY <1>1, <2>1
      <4> QED
        BY <1>0, <2>3, <2>6, <4>1 DEF OneMessage, NoRequest
    <3>9. Asked' = Asked /\ Wanted' = Wanted /\ Awaiting'
      BY <2>4, <3>2 DEF Mine, Asked, Wanted, Awaiting
    <3>10. OneMessage'
      BY <1>0, <2>4, <3>2, <3>4, <3>7, <3>8, <3>9 DEF OneMessage, NoRequest
    <3> QED
      BY <2>1, <3>6, <3>7, <3>8, <3>10, PeerKept
  <2> QED
    BY <2>5, <2>6
<1> QED
  BY <1>2, <1>3

----------------------------------------------------------------------------

LEMMA InitReplies == ASSUME Init PROVE ReplyInv
<1>1. /\ odata = NoPacket /\ packAdd = Resting /\ toPeer = <<>> /\ toClient = <<>>
      /\ brigade = <<>> /\ exchange = [x \in Exchanges |-> Idle] /\ tags = 0 /\ forwards = 0
      /\ next_channel = 0 /\ pc = "app" /\ call = NoCall /\ answer = NoAnswer
  BY DEF Init
<1>2. PacketsTyped
  <2>1. Idle \in [state : {"idle", "created", "sent", "end"}, packet : Packet]
    BY NoPacketTyped DEF Idle
  <2>2. Resting \in Points
    BY NoPacketTyped DEF Points, Resting
  <2> QED
    BY <1>1, <2>1, <2>2, NoPacketTyped DEF PacketsTyped
<1>3. IdsLeft
  BY <1>1, ConnectionAssumption DEF IdsLeft
<1>4. CallShape
  BY <1>1 DEF CallShape, NoCall
<1>5. \A x \in Exchanges : exchange[x].state \notin {"created", "sent"}
  BY <1>1 DEF Idle
<1>6. OneExchange
  BY <1>1, <1>5 DEF OneExchange
<1>7. OneMessage
  BY <1>1 DEF OneMessage, NoRequest, NoReply
<1>8. HalfSent
  BY <1>1, NoPacketTyped DEF HalfSent, HalfWire, Awaiting, NoCall, Resting, Requests
<1>9. AnswerIsOwn
  BY <1>1 DEF AnswerIsOwn, NoAnswer
<1> QED
  BY <1>2, <1>3, <1>4, <1>6, <1>7, <1>8, <1>9 DEF ReplyInv

LEMMA NextReplies == ASSUME Orderly, ConnectionInv, ReplyInv, [Next]_vars PROVE ReplyInv'
<1>1. CASE UNCHANGED vars
  <2>1. UNCHANGED clientVars /\ UNCHANGED <<toPeer, toClient, forwards, next_channel, tags>>
    BY <1>1 DEF vars, clientVars, sessVars, recvVars, netVars, stateVars, callVars, peerVars
  <2>2. PacketsTyped /\ OneMessage /\ IdsLeft
    BY DEF ReplyInv
  <2>3. OneMessage' /\ toPeer' \in Seq(Packet) /\ toClient' \in Seq(Packet)
    BY <2>1, <2>2, PeerQuiet
  <2>4. IdsLeft' /\ forwards' \in Nat
    BY <2>1, <2>2, IdsSame DEF PacketsTyped
  <2> QED
    BY <2>1, <2>3, <2>4, PeerKept
<1>2. CASE Steps
  BY <1>2, BuildReplies, SendReplies, AskReplies, ReadReplies, FailReplies, WaitReplies,
     ResizeReplies, OtherReplies DEF Steps
<1> QED
  BY <1>1, <1>2, CallsReply, PeerReplies DEF Next

LEMMA ReplyInvariant == Orderly => (Spec => []ReplyInv)
<1> SUFFICES ASSUME Orderly PROVE Spec => []ReplyInv
  OBVIOUS
<1>1. Init => ReplyInv
  BY InitReplies
<1>2. ConnectionInv /\ ReplyInv /\ [Next]_vars => ReplyInv'
  BY NextReplies
<1> QED
  BY <1>1, <1>2, ConnectionInvHolds, PTL DEF Spec

\* In blocking mode without timeouts and keepalives, whatever channels, listeners and
\* requests share the session and whenever the socket is full, a result that a reply decided
\* was decided by the reply to that very request (_libssh2_packet_askv()).
THEOREM AnswersAreOwn == Orderly => (Spec => []AnswerIsOwn)
<1> SUFFICES ASSUME Orderly PROVE Spec => []AnswerIsOwn
  OBVIOUS
<1>1. ReplyInv => AnswerIsOwn
  BY DEF ReplyInv
<1> QED
  BY <1>1, ReplyInvariant, PTL

----------------------------------------------------------------------------
(* Who finishes a half-sent packet. *)

\* The same use of the library, without accept(), which may return while the answer to
\* another connection is half sent, and without agent forwarding, which takes a packet that
\* is half sent for sent.
Strict == Orderly /\ "agent" \notin Kinds /\ "accept" \notin Ops

\* A channel is being closed, by the application or with the queue of its listener.
Closing == /\ call.op \in {"free", "cancel"}
           /\ pc \in {"free", "cancel", "close", "close_wait", "wait"}
           /\ call.op = "cancel" => /\ chanFwdCncl_state[call.at] = "sent"
                                    /\ queue[call.at] # <<>>

\* How far a channel that is being closed and a listener that is being cancelled are.
EndShape ==
    /\ call.op \in Ops \cup {"none"}
    /\ chanFwdCncl_state \in [Ports -> {"idle", "created", "sent"}]
    /\ close_state \in [Ids -> {"idle", "created", "sent"}]
    /\ call.op = "free" => call.at \in channels
    /\ pc \in {"close", "close_wait", "unlink", "cancel_end"} /\ call.op = "cancel" =>
         chanFwdCncl_state[call.at] = "sent"
    /\ pc = "close_wait" => close_state[Victim] = "sent"

\* The half-sent packet is the request of the running call, an answer to a forwarded
\* connection that the call met while it waited, its cancel, or its close.
OwnRequest == /\ Asking /\ exchange[Mine].state = "created" /\ odata = Asked
              /\ pc \in {call.op, "wait"}
OwnAnswer == /\ Coherent
             /\ \/ Awaiting /\ pc \in {call.op, "read", "wait"}
                \/ Closing /\ close_state[Victim] = "sent" /\ Victim \notin remote_close
OwnCancel == /\ odata = [kind |-> "cancel", at |-> call.at, tag |-> 0]
             /\ call.op = "cancel" /\ pc \in {"cancel", "wait"}
             /\ chanFwdCncl_state[call.at] = "created"
OwnClose == /\ odata = [kind |-> "close", at |-> Victim, tag |-> 0]
            /\ Closing /\ pc # "close_wait" /\ close_state[Victim] = "created"

\* The inductive strengthening of PendingHasOwner.
OwnerInv ==
    /\ EndShape
    /\ odata # NoPacket => OwnRequest \/ OwnAnswer \/ OwnCancel \/ OwnClose

\* Nothing is half sent between calls, and no call finds a stranger's packet.
LEMMA Strangers ==
    ASSUME OwnerInv, CallShape, odata # NoPacket
    PROVE  /\ pc # "app" /\ pc \notin {"fail", "unlink", "cancel_end"}
           /\ Asking /\ ~Awaiting => OwnRequest
           /\ Awaiting => Coherent
           /\ ~Asking => OwnAnswer \/ OwnCancel \/ OwnClose
<1>1. OwnRequest \/ OwnAnswer \/ OwnCancel \/ OwnClose
  BY DEF OwnerInv
<1>2. /\ Awaiting => Asking
      /\ Closing => ~Asking
      /\ OwnCancel => ~Asking
      /\ OwnRequest => Asking /\ ~Awaiting
  BY DEF Awaiting, Asking, Closing, OwnCancel, OwnRequest, Requests
<1>3. pc # "app"
  BY <1>1 DEF CallShape, OwnRequest, OwnAnswer, OwnCancel, OwnClose, Asking, Awaiting, Closing,
              Requests
<1>4. pc \notin {"fail", "unlink", "cancel_end"}
  BY <1>1 DEF OwnRequest, OwnAnswer, OwnCancel, OwnClose, Asking, Awaiting, Closing, Requests
<1> QED
  BY <1>1, <1>2, <1>3, <1>4 DEF OwnAnswer, OwnClose

\* A step that touches neither a channel that is being closed nor its listener.
LEMMA EndKeeps ==
    ASSUME EndShape, UNCHANGED <<chanFwdCncl_state, close_state>>,
           \/ call' = call
           \/ /\ call'.op \in Ops \cup {"none"}
              /\ call'.op = "free" => call'.at \in channels',
           call.op = "free" => channels \subseteq channels',
           pc' \notin {"close", "close_wait", "unlink", "cancel_end"}
    PROVE  EndShape'
  BY DEF EndShape

\* What transport_read() does to a channel that is being closed: nothing; if it leaves an
\* answer half sent it says EAGAIN and has met no CHANNEL_CLOSE.
LEMMA ReadCloses ==
    ASSUME ConnectionInv, NEW got, TransportRead(got), call' = call,
           call.op \in {"free", "cancel"},
           call.op = "cancel" => call.at \in Ports /\ queue[call.at] # <<>>
    PROVE  /\ call.op = "cancel" => queue'[call.at] # <<>>
           /\ Victim' = Victim
           /\ packAdd'.point = "jump2" => got = "EAGAIN"
           /\ got = "EAGAIN" => remote_close' = remote_close
<1>1. /\ packAdd'.point = "jump2" => got = "EAGAIN"
      /\ got = "EAGAIN" => remote_close' = remote_close
  BY DEF TransportRead, recvVars, Replies
<1>2. CASE call.op # "cancel"
  BY <1>1, <1>2 DEF Victim
<1>3. CASE call.op = "cancel"
  <2>0. queue[call.at] \in Seq(Nat) /\ queue[call.at] # <<>> /\ call.at \in Ports
    BY <1>3 DEF ConnectionInv, SessionInv
  <2>1. \/ queue' = queue
        \/ \E p, s : queue' = [queue EXCEPT ![p] = @ \o s] /\ s \in Seq(Nat)
    <3>1. NextId \in Nat
      BY NextIdIsNext DEF ConnectionInv, SessionInv
    <3>2. <<>> \in Seq(Nat) /\ <<NextId>> \in Seq(Nat)
      BY <3>1
    <3>3. ASSUME NEW p, NEW conf, NEW s \in Seq(Nat), Confirm(p, conf, s)
          PROVE  queue' = queue \/ queue' = [queue EXCEPT ![p] = @ \o s]
      BY <3>3 DEF Confirm
    <3>4. ASSUME NEW p, NEW tag, Refuse(p, tag) PROVE queue' = queue
      BY <3>4 DEF Refuse, sessVars
    <3>5. ASSUME QueueListener
          PROVE  \/ queue' = queue
                 \/ \E p, s : queue' = [queue EXCEPT ![p] = @ \o s] /\ s \in Seq(Nat)
      BY <3>2, <3>3, <3>4, <3>5 DEF QueueListener, Admit, AdmitResumed
    <3> QED
      BY <3>5 DEF TransportRead, sessVars
  <2>2. queue'[call.at] # <<>> /\ Head(queue'[call.at]) = Head(queue[call.at])
    <3>1. CASE queue' = queue
      BY <2>0, <3>1
    <3>2. ASSUME NEW p, NEW s \in Seq(Nat), queue' = [queue EXCEPT ![p] = @ \o s]
          PROVE  queue'[call.at] # <<>> /\ Head(queue'[call.at]) = Head(queue[call.at])
      <4>1. queue'[call.at] = queue[call.at] \/ queue'[call.at] = queue[call.at] \o s
        BY <2>0, <3>2 DEF ConnectionInv, SessionInv
      <4>2. /\ queue[call.at] \o s # <<>> 
            /\ Head(queue[call.at] \o s) = Head(queue[call.at])
        BY <2>0
      <4> QED
        BY <2>0, <4>1, <4>2
    <3> QED
      BY <2>1, <3>1, <3>2
  <2> QED
    BY <1>1, <1>3, <2>2 DEF Victim
<1> QED
  BY <1>2, <1>3

\* The steps of a request and of a resize.
LEMMA AskOwners ==
    ASSUME Strict, ConnectionInv, ReplyInv, OwnerInv,
           \/ Build \/ SendRequest \/ Ask \/ ReadReply \/ Fail \/ Resize
    PROVE  OwnerInv'
<1>0. /\ PacketsTyped /\ CallShape /\ OneExchange /\ OneMessage /\ HalfSent /\ EndShape /\ Orderly
      /\ odata \in Packet /\ packAdd.point \in {"idle", "jump2"}
  <2>1. PacketsTyped /\ CallShape /\ OneExchange /\ OneMessage /\ HalfSent /\ EndShape /\ Orderly
    BY DEF ReplyInv, OwnerInv, Strict
  <2> QED
    BY <2>1 DEF PacketsTyped, Points
<1>1. Asking /\ Mine \in Exchanges /\ call.op # "free" /\ call.op # "none"
  <2>1. Asking
    BY <1>0 DEF Build, SendRequest, Ask, ReadReply, Fail, Resize, AtExchange, CallShape, Asking,
                Requests
  <2> QED
    BY <1>0, <2>1, MineTyped DEF Asking, Requests
<1>2. UNCHANGED <<chanFwdCncl_state, close_state>>
  BY DEF Build, SendRequest, Ask, ReadReply, Fail, Resize, Over, stateVars
<1>3. ASSUME call' \in {call, NoCall}, pc' \notin {"close", "close_wait", "unlink", "cancel_end"}
      PROVE  EndShape'
  BY <1>0, <1>1, <1>2, <1>3, EndKeeps DEF NoCall
<1>4. ASSUME Again PROVE pc' = "wait" /\ call' = call
  BY <1>0, <1>4 DEF Again, Orderly
\* a packet of one's own is sent, or half sent
<1>5. ASSUME exchange[Mine].state = "created", NEW s \in SendResults, TransportSend(Asked, s)
      PROVE  /\ s \in {"ok", "EAGAIN"}
             /\ s = "ok" => odata' = NoPacket
             /\ s = "EAGAIN" => odata' = Asked
  <2>1. Asked \in Packet /\ Asked.kind \in Requests \cup {"resize"}
    BY <1>0, <1>1, <1>5 DEF PacketsTyped, Asked, OneExchange, Asking
  <2>2. odata \in {NoPacket, Asked}
    BY <1>0, <1>1, <1>5, Strangers DEF Awaiting, OwnRequest
  <2> QED
    BY <1>0, <1>5, <2>1, <2>2, SendCases, NoPacketTyped DEF SameBuffer, Requests, SendResults
<1>6. ASSUME exchange[Mine].state \notin {"created", "sent"} PROVE odata = NoPacket
  BY <1>0, <1>1, <1>6, Strangers DEF OwnRequest, Awaiting
<1>7. CASE Build
  <2>1. UNCHANGED <<odata, call, pc>> /\ pc \in Requests
    BY <1>7 DEF Build, netVars, callVars, AtExchange, Requests
  <2> QED
    BY <1>3, <1>6, <1>7, <2>1 DEF OwnerInv, Build, Requests
<1>8. CASE SendRequest
  <2>1. exchange[Mine].state = "created" /\ pc \in Requests /\ pc = call.op
    BY <1>0, <1>8 DEF SendRequest, AtExchange, CallShape, Requests
  <2>2. PICK s \in SendResults :
          /\ TransportSend(Asked, s)
          /\ \/ TakenAsSent(s) /\ Stay
             \/ s = "EAGAIN" /\ Again /\ exchange' = exchange
             \/ s = "BAD_USE"
    BY <1>8 DEF SendRequest, stateVars
  <2>3. TakenAsSent(s) => s = "ok"
    <3>1. call.kind \in (AllKinds \ {"agent"}) \cup {"open", "listen"}
      BY <1>0, <2>1, ConnectionAssumption DEF CallShape, Strict, Requests
    <3> QED
      BY <3>1 DEF TakenAsSent, Machine, AllKinds, Open, Listen, Setenv, Pty, X11, Process
  <2>4. CASE s = "ok"
    <3>1. pc' = pc /\ call' = call
      BY <2>2, <2>4 DEF Stay
    <3> QED
      BY <1>3, <1>5, <2>1, <2>2, <2>4, <3>1 DEF OwnerInv, Requests
  <2>5. CASE s = "EAGAIN"
    <3>1. pc' = "wait" /\ call' = call /\ exchange' = exchange
      BY <1>4, <2>2, <2>3, <2>5
    <3>2. odata' = Asked
      BY <1>5, <2>1, <2>2, <2>5
    <3>3. OwnRequest'
      BY <1>1, <2>1, <3>1, <3>2 DEF OwnRequest, Asking, Mine, Asked
    <3> QED
      BY <1>3, <3>1, <3>3 DEF OwnerInv
  <2> QED
    BY <1>5, <2>1, <2>2, <2>4, <2>5
<1>9. CASE Ask
  <2>1. pc \in Requests /\ pc = call.op /\ Awaiting
    BY <1>0, <1>9 DEF Ask, AtExchange, Requests, CallShape, Awaiting
  <2>2. pc' = "read" /\ UNCHANGED <<packAdd, odata, call, listeners, exchange>>
    <3>1. ~ \E i \in DOMAIN brigade : Best(i)
      BY <1>0 DEF OneMessage
    <3> QED
      BY <1>9, <3>1 DEF Ask, sessVars, stateVars, netVars
  <2>3. odata' # NoPacket => OwnAnswer'
    BY <1>0, <2>1, <2>2, Strangers DEF OwnAnswer, Awaiting, Coherent, Mine
  <2> QED
    BY <1>3, <2>2, <2>3 DEF OwnerInv
<1>10. CASE ReadReply
  <2>1. pc = "read" /\ call.op \in Requests /\ Awaiting
    BY <1>0, <1>10 DEF ReadReply, CallShape, OneExchange
  <2>2. CASE packAdd.point = "idle" /\ toClient # <<>> /\ Matches(Head(toClient))
    <3>1. odata' = NoPacket
      <4>1. odata = NoPacket
        BY <1>0, <2>1, <2>2, Strangers DEF Coherent
      <4> QED
        BY <1>10, <2>2, <4>1 DEF ReadReply, netVars
    <3>2. call' \in {call, NoCall} /\ pc' \in {"app", "request"}
      BY <1>10, <2>2 DEF ReadReply, Over, Leave, Return
    <3> QED
      BY <1>3, <3>1, <3>2 DEF OwnerInv
  <2>3. CASE ~(packAdd.point = "idle" /\ toClient # <<>> /\ Matches(Head(toClient)))
    <3>1. PICK got \in ReadResults :
            /\ TransportRead(got)
            /\ \/ Stay
               \/ got = "EAGAIN" /\ Again
               \/ got \in Wanted \cup {"error"} \/ (got = "EAGAIN" /\ MayTimeout)
      BY <1>10, <2>3 DEF ReadReply
    <3>2. exchange' = exchange /\ tags' = tags
      BY <1>10, <2>3 DEF ReadReply, stateVars
    <3>3. packAdd.point = "idle" /\ toClient # <<>> => Head(toClient).kind \notin Replies
      <4>1. toClient # <<>> => 1 \in DOMAIN toClient /\ toClient[1] = Head(toClient)
        BY <1>0 DEF PacketsTyped
      <4> QED
        BY <1>0, <2>3, <4>1 DEF OneMessage, Matches
    <3>4. Tidy
      BY <1>0, <2>1, Strangers, NoPacketTyped DEF Tidy, HalfSent, HalfWire
    <3>5. Tidy' /\ got # "error" /\ got \notin Replies
      BY <1>0, <3>1, <3>2, <3>3, <3>4, ReadQuiet DEF HalfSent
    <3>6. pc' \in {"read", "wait"} /\ call' = call
      <4>1. got \notin Wanted
        BY <1>0, <2>1, <3>5, WantedIs DEF Requests, Replies
      <4> QED
        BY <1>0, <1>4, <2>1, <3>1, <3>5, <4>1 DEF Stay, Orderly
    <3>7. odata' # NoPacket => OwnAnswer'
      BY <2>1, <3>2, <3>5, <3>6 DEF OwnAnswer, Awaiting, Tidy, Mine
    <3> QED
      BY <1>3, <3>6, <3>7 DEF OwnerInv
  <2> QED
    BY <2>2, <2>3
<1>11. CASE Fail
  <2>1. odata' = NoPacket
    BY <1>0, <1>11, Strangers DEF Fail, netVars
  <2>2. call' \in {call, NoCall} /\ pc' \in {"app", "request"}
    BY <1>11 DEF Fail, Over, Leave, Return
  <2> QED
    BY <1>3, <2>1, <2>2 DEF OwnerInv
<1>12. CASE Resize
  <2>1. pc = "resize" /\ call.op = "resize" /\ ~Awaiting
    BY <1>0, <1>12 DEF Resize, CallShape, Awaiting, Requests
  <2>2. CASE exchange[Mine].state = "idle" /\ Stay /\ UNCHANGED netVars
    BY <1>3, <1>6, <2>1, <2>2 DEF OwnerInv, Stay, netVars
  <2>3. ASSUME NEW s \in SendResults, exchange[Mine].state = "created",
               TransportSend(Asked, s),
               \/ s = "EAGAIN" /\ Again /\ UNCHANGED exchange
               \/ s # "EAGAIN" /\ Return(0, 0)
        PROVE  OwnerInv'
    <3>1. CASE s = "EAGAIN"
      <4>1. pc' = "wait" /\ call' = call /\ exchange' = exchange /\ odata' = Asked
        BY <1>4, <1>5, <2>3, <3>1
      <4>2. OwnRequest'
        BY <1>1, <2>3, <4>1 DEF OwnRequest, Asking, Mine, Asked
      <4> QED
        BY <1>3, <4>1, <4>2 DEF OwnerInv
    <3>2. CASE s = "ok"
      BY <1>3, <1>5, <2>3, <3>2 DEF OwnerInv, Return
    <3> QED
      BY <1>5, <2>3, <3>1, <3>2
  <2>4. CASE exchange[Mine].state = "sent" /\ Return(0, 0) /\ UNCHANGED netVars
    <3>1. odata = NoPacket
      BY <1>0, <1>1, <2>1, <2>4, Strangers DEF OwnRequest
    <3> QED
      BY <1>3, <2>4, <3>1 DEF OwnerInv, Return, netVars
  <2> QED
    BY <1>12, <2>2, <2>3, <2>4 DEF Resize
<1> QED
  BY <1>7, <1>8, <1>9, <1>10, <1>11, <1>12

\* The steps of cancelling a listener and of freeing a channel.
LEMMA EndOwners ==
    ASSUME Strict, ConnectionInv, ReplyInv, OwnerInv,
           \/ CancelSend \/ CancelNext \/ CancelEnd \/ CloseSend \/ CloseWait \/ Unlink
    PROVE  OwnerInv'
<1>0. /\ PacketsTyped /\ CallShape /\ OneMessage /\ HalfWire /\ EndShape /\ Orderly /\ IdsLeft
      /\ CallInv /\ odata \in Packet /\ packAdd.point \in {"idle", "jump2"}
  <2>1. PacketsTyped /\ CallShape /\ OneMessage /\ HalfWire /\ EndShape /\ Orderly /\ IdsLeft
        /\ CallInv
    BY DEF ReplyInv, OwnerInv, Strict, HalfSent, ConnectionInv
  <2> QED
    BY <2>1 DEF PacketsTyped, Points
<1>1. call.op \in {"cancel", "free"} /\ ~Asking /\ ~Awaiting
  <2>1. call.op \in {"cancel", "free"}
    BY <1>0 DEF CancelSend, CancelNext, CancelEnd, CloseSend, CloseWait, Unlink, CallInv, CallShape
  <2> QED
    BY <2>1 DEF Asking, Awaiting, Requests
<1>2. /\ call.op \in Ops /\ UNCHANGED tags
      /\ call.op = "cancel" => call.at \in Ports /\ call.at \in Nat
      /\ call.op = "free" => call.at \in channels
  BY <1>0, <1>1, ConnectionAssumption
     DEF EndShape, CallInv, CancelSend, CancelNext, CancelEnd, CloseSend, CloseWait, Unlink
<1>3. odata # NoPacket => OwnAnswer \/ OwnCancel \/ OwnClose
  BY <1>0, <1>1, Strangers
<1>4. ASSUME Again PROVE pc' = "wait" /\ call' = call
  BY <1>0, <1>4 DEF Again, Orderly
<1>5. ASSUME call.op = "cancel" => queue[call.at] # <<>> PROVE Victim \in Ids /\ Victim \in Nat
  <2>0. channels \subseteq Ids /\ \A p \in Ports : \A n \in DOMAIN queue[p] : queue[p][n] \in Ids
    BY <1>0, IdsInRange
  <2>i. Ids \subseteq Nat
    BY ConnectionAssumption DEF Ids
  <2>1. CASE call.op = "free"
    BY <1>2, <2>0, <2>i, <2>1 DEF Victim
  <2>2. CASE call.op = "cancel"
    <3>1. queue[call.at] \in Seq(Nat) /\ queue[call.at] # <<>> /\ call.at \in Ports
      BY <1>2, <1>5, <2>2 DEF ConnectionInv, SessionInv
    <3>2. 1 \in DOMAIN queue[call.at] /\ Head(queue[call.at]) = queue[call.at][1]
      BY <3>1
    <3>3. Victim = queue[call.at][1]
      BY <2>2, <3>2 DEF Victim
    <3> QED
      BY <2>0, <2>i, <3>1, <3>2, <3>3
  <2> QED
    BY <1>1, <2>1, <2>2
\* a packet of one's own is sent, or half sent
<1>6. ASSUME NEW m \in Packet, m.kind \in {"cancel", "close"}, odata \in {NoPacket, m},
             NEW s \in SendResults, TransportSend(m, s), UNCHANGED <<packAdd, toClient, brigade>>
      PROVE  /\ s \in {"ok", "EAGAIN"}
             /\ s = "ok" => odata' = NoPacket
             /\ s = "EAGAIN" => odata' = m
  BY <1>0, <1>2, <1>6, SendQuiet DEF SendResults
<1>7. CASE CancelSend
  <2> DEFINE m == [kind |-> "cancel", at |-> call.at, tag |-> 0]
  <2>1. /\ pc = "cancel" /\ call.op = "cancel" /\ chanFwdCncl_state[call.at] # "sent"
        /\ UNCHANGED <<packAdd, toClient, brigade, close_state>>
    BY <1>0, <1>7 DEF CancelSend, CallInv, recvVars
  <2>2. m \in Packet /\ m.kind = "cancel"
    BY <1>2, <2>1 DEF Packet, MsgKinds
  <2>3. odata \in {NoPacket, m}
    BY <1>1, <1>3, <2>1 DEF OwnAnswer, OwnClose, OwnCancel, Closing
  <2>4. PICK s \in SendResults :
          /\ TransportSend(m, s)
          /\ chanFwdCncl_state' = [chanFwdCncl_state EXCEPT ![call.at] =
                                     IF s = "EAGAIN" THEN "created" ELSE "sent"]
          /\ IF s = "EAGAIN" THEN Again ELSE Stay
    BY <1>7 DEF CancelSend
  <2>5. /\ s \in {"ok", "EAGAIN"}
        /\ s = "ok" => odata' = NoPacket
        /\ s = "EAGAIN" => odata' = m
    BY <1>6, <2>1, <2>2, <2>3, <2>4
  <2>6. pc' \in {"cancel", "wait"} /\ call' = call
    BY <1>4, <2>1, <2>4 DEF Stay
  <2>7. /\ chanFwdCncl_state' \in [Ports -> {"idle", "created", "sent"}]
        /\ s = "EAGAIN" => chanFwdCncl_state'[call.at] = "created"
    BY <1>0, <1>2, <2>1, <2>4 DEF EndShape
  <2>8. EndShape'
    BY <1>0, <2>1, <2>6, <2>7 DEF EndShape
  <2>9. s = "EAGAIN" => OwnCancel'
    BY <2>1, <2>5, <2>6, <2>7 DEF OwnCancel
  <2> QED
    BY <2>5, <2>8, <2>9 DEF OwnerInv
<1>8. CASE CancelNext
  <2>1. /\ pc = "cancel" /\ call.op = "cancel" /\ chanFwdCncl_state[call.at] = "sent"
        /\ queue[call.at] # <<>> /\ pc' = "close"
        /\ UNCHANGED <<call, odata, packAdd, listeners, queue, remote_close, chanFwdCncl_state,
                       close_state>>
    BY <1>0, <1>8 DEF CancelNext, CallInv, sessVars, recvVars, netVars, stateVars
  <2>2. EndShape'
    BY <1>0, <2>1 DEF EndShape
  <2>3. Victim' = Victim /\ Closing'
    BY <2>1 DEF Victim, Closing
  <2>4. /\ OwnAnswer => OwnAnswer'
        /\ OwnClose => OwnClose'
        /\ ~OwnCancel
    BY <1>1, <2>1, <2>3 DEF OwnAnswer, OwnClose, OwnCancel, Coherent
  <2> QED
    BY <1>3, <2>1, <2>2, <2>4 DEF OwnerInv
<1>9. CASE CancelEnd
  <2>1. odata = NoPacket
    <3>1. CASE pc = "cancel_end"
      BY <1>0, <3>1, Strangers
    <3>2. CASE chanFwdCncl_state[call.at] = "sent" /\ queue[call.at] = <<>> /\ call.op = "cancel"
      BY <1>1, <1>3, <3>2 DEF OwnAnswer, OwnClose, OwnCancel, Closing
    <3> QED
      BY <1>0, <1>9, <3>1, <3>2 DEF CancelEnd, CallInv
  <2>2. /\ odata' = NoPacket /\ call' = NoCall /\ pc' = "app" /\ close_state' = close_state
        /\ chanFwdCncl_state' = [chanFwdCncl_state EXCEPT ![call.at] = "idle"]
    BY <1>9, <2>1 DEF CancelEnd, Return, netVars
  <2>3. EndShape'
    BY <1>0, <2>2 DEF EndShape, NoCall
  <2> QED
    BY <2>2, <2>3 DEF OwnerInv
<1>10. CASE CloseSend
  <2>1. /\ pc \in {"free", "close"} /\ (pc = "free" => call.op = "free")
        /\ pc = "close" => /\ call.op = "cancel" /\ queue[call.at] # <<>>
                           /\ chanFwdCncl_state[call.at] = "sent"
        /\ UNCHANGED <<packAdd, toClient, brigade, remote_close, channels, listeners, queue,
                       chanFwdCncl_state>>
    BY <1>0, <1>10 DEF CloseSend, CallInv, EndShape, sessVars, recvVars
  <2>2. Closing /\ Victim \in Ids /\ Victim \in Nat
    BY <1>1, <1>5, <2>1 DEF Closing
  <2>3. ASSUME call' = call PROVE Victim' = Victim
    BY <2>1, <2>3 DEF Victim
  <2>4. CASE /\ close_state[Victim] = "sent" /\ pc' = "close_wait"
             /\ UNCHANGED <<netVars, close_state, call, answer>>
    <3>1. EndShape'
      BY <1>0, <2>1, <2>3, <2>4 DEF EndShape
    <3>2. Closing'
      BY <2>1, <2>2, <2>4 DEF Closing
    <3>3. OwnAnswer => OwnAnswer'
      BY <1>1, <2>1, <2>3, <2>4, <3>2 DEF OwnAnswer, Coherent, netVars
    <3>4. ~OwnClose /\ ~OwnCancel
      BY <2>1, <2>4 DEF OwnClose, OwnCancel
    <3> QED
      BY <1>3, <2>4, <3>1, <3>3, <3>4 DEF OwnerInv, netVars
  <2>5. CASE close_state[Victim] # "sent"
    <3> DEFINE m == [kind |-> "close", at |-> Victim, tag |-> 0]
    <3>1. m \in Packet /\ m.kind = "close"
      BY <2>2 DEF Packet, MsgKinds
    <3>2. odata \in {NoPacket, m}
      BY <1>1, <1>3, <2>1, <2>5 DEF OwnAnswer, OwnCancel, OwnClose
    <3>3. PICK s \in SendResults :
            /\ TransportSend(m, s)
            /\ close_state' = [close_state EXCEPT ![Victim] =
                                 IF s = "ok" THEN "sent" ELSE "created"]
            /\ \/ s = "ok" /\ pc' = "close_wait" /\ UNCHANGED <<call, answer>>
               \/ s = "EAGAIN" /\ Again
               \/ s = "BAD_USE" /\ pc' = "unlink" /\ UNCHANGED <<call, answer>>
      BY <1>10, <2>5 DEF CloseSend
    <3>4. /\ s \in {"ok", "EAGAIN"}
          /\ s = "ok" => odata' = NoPacket
          /\ s = "EAGAIN" => odata' = m
      BY <1>6, <2>1, <3>1, <3>2, <3>3
    <3>5. /\ call' = call /\ (s = "ok" => pc' = "close_wait") /\ (s = "EAGAIN" => pc' = "wait")
      BY <1>4, <3>3, <3>4
    <3>6. /\ close_state' \in [Ids -> {"idle", "created", "sent"}]
          /\ close_state'[Victim] = IF s = "ok" THEN "sent" ELSE "created"
      BY <1>0, <2>2, <3>3 DEF EndShape
    <3>7. EndShape'
      BY <1>0, <2>1, <2>3, <3>4, <3>5, <3>6 DEF EndShape
    <3>8. s = "EAGAIN" => OwnClose'
      <4>1. ASSUME s = "EAGAIN" PROVE Closing'
        BY <1>1, <2>1, <2>2, <3>5, <4>1 DEF Closing
      <4> QED
        BY <2>3, <3>4, <3>5, <3>6, <4>1 DEF OwnClose
    <3> QED
      BY <3>4, <3>7, <3>8 DEF OwnerInv
  <2> QED
    BY <1>10, <2>4, <2>5 DEF CloseSend
<1>11. CASE CloseWait
  <2>1. /\ pc = "close_wait" /\ close_state[Victim] = "sent"
        /\ UNCHANGED <<chanFwdCncl_state, close_state>>
        /\ call.op = "cancel" => /\ call.at \in Ports /\ queue[call.at] # <<>>
                                 /\ chanFwdCncl_state[call.at] = "sent"
    BY <1>0, <1>2, <1>11 DEF CloseWait, EndShape, CallInv, stateVars
  <2>2. odata # NoPacket => Coherent /\ Victim \notin remote_close
    BY <1>1, <1>3, <2>1 DEF OwnAnswer, OwnCancel, OwnClose
  <2>3. CASE /\ Victim \in remote_close /\ pc' = "unlink"
             /\ UNCHANGED <<sessVars, recvVars, netVars, call, answer>>
    <3>1. odata' = NoPacket /\ channels' = channels
      BY <2>2, <2>3 DEF netVars, sessVars
    <3>2. EndShape'
      BY <1>0, <2>1, <2>3, <3>1 DEF EndShape
    <3> QED
      BY <3>1, <3>2 DEF OwnerInv
  <2>4. ASSUME NEW got \in ReadResults, TransportRead(got), Victim \notin remote_close,
               \/ got = "EAGAIN" /\ Again
               \/ got # "EAGAIN" /\ pc' = "unlink" /\ UNCHANGED <<call, answer>>
        PROVE  OwnerInv'
    <3>1. call' = call /\ (got = "EAGAIN" => pc' = "wait") /\ (got # "EAGAIN" => pc' = "unlink")
      BY <1>4, <2>4
    <3>2. packAdd.point = "idle" /\ toClient # <<>> => Head(toClient).kind \notin Replies
      <4>1. toClient # <<>> => 1 \in DOMAIN toClient /\ Head(toClient) = toClient[1]
        BY <1>0 DEF PacketsTyped
      <4>2. NoReply
        BY <1>0, <1>1, Silence
      <4> QED
        BY <4>1, <4>2 DEF NoReply
    <3>3. Tidy
      BY <1>0, <2>2, NoPacketTyped DEF Tidy, HalfWire
    <3>4. Tidy' /\ channels' = channels /\ packAdd'.point \in {"idle", "jump2"}
      BY <1>0, <1>2, <2>4, <3>2, <3>3, ReadQuiet DEF Points
    <3>5. /\ call.op = "cancel" => queue'[call.at] # <<>>
          /\ Victim' = Victim
          /\ packAdd'.point = "jump2" => got = "EAGAIN"
          /\ got = "EAGAIN" => remote_close' = remote_close
      BY <1>1, <2>1, <2>4, <3>1, ReadCloses
    <3>6. EndShape'
      BY <1>0, <2>1, <3>1, <3>4 DEF EndShape
    <3>7. ASSUME odata' # NoPacket PROVE OwnAnswer'
      <4>1. Coherent' /\ got = "EAGAIN"
        BY <3>4, <3>5, <3>7 DEF Tidy, Coherent
      <4>2. Closing'
        BY <1>1, <2>1, <3>1, <3>5, <4>1 DEF Closing
      <4> QED
        BY <2>1, <2>4, <3>5, <4>1, <4>2 DEF OwnAnswer
    <3> QED
      BY <3>6, <3>7 DEF OwnerInv
  <2> QED
    BY <1>11, <2>3, <2>4 DEF CloseWait
<1>12. CASE Unlink
  <2>1. /\ odata' = NoPacket
    BY <1>0, <1>12, Strangers DEF Unlink, netVars
  <2>2. /\ close_state' \in [Ids -> {"idle", "created", "sent"}]
        /\ chanFwdCncl_state' = chanFwdCncl_state
    BY <1>0, <1>12 DEF Unlink, EndShape
  <2>3. \/ call' = NoCall /\ pc' = "app"
        \/ /\ call.op = "cancel" /\ call' = call /\ pc' \in {"cancel", "cancel_end"}
           /\ chanFwdCncl_state[call.at] = "sent"
    BY <1>0, <1>12 DEF Unlink, Return, EndShape
  <2>4. EndShape'
    BY <1>0, <2>2, <2>3 DEF EndShape, NoCall
  <2> QED
    BY <2>1, <2>4 DEF OwnerInv
<1> QED
  BY <1>7, <1>8, <1>9, <1>10, <1>11, <1>12

LEMMA WaitOwners ==
    ASSUME Strict, ReplyInv, OwnerInv, WaitSocket PROVE OwnerInv'
<1>0. CallShape /\ EndShape /\ OwnerInv
  BY DEF ReplyInv, OwnerInv
<1>1. /\ pc = "wait" /\ pc' = call.op
      /\ UNCHANGED <<packAdd, odata, call, channels, listeners, queue, remote_close, exchange,
                     chanFwdCncl_state, close_state>>
  BY DEF WaitSocket, Strict, Orderly, sessVars, recvVars, netVars
<1>2. /\ Victim' = Victim /\ Mine' = Mine /\ Asked' = Asked
      /\ Awaiting' <=> Awaiting
      /\ Asking' <=> Asking
      /\ Coherent' <=> Coherent
  BY <1>1 DEF Victim, Mine, Asked, Awaiting, Asking, Coherent
<1>3. pc' \in AllOps \cup {"none"}
  BY <1>0, <1>1, ConnectionAssumption DEF EndShape
<1>4. EndShape'
  BY <1>0, <1>1, <1>2, <1>3 DEF EndShape, AllOps
<1>5. Closing => Closing' /\ pc' # "close_wait"
  BY <1>1 DEF Closing
<1>6. OwnRequest => OwnRequest'
  BY <1>1, <1>2 DEF OwnRequest
<1>7. OwnAnswer => OwnAnswer'
  BY <1>1, <1>2, <1>5 DEF OwnAnswer
<1>8. OwnCancel => OwnCancel'
  BY <1>1 DEF OwnCancel
<1>9. OwnClose => OwnClose'
  BY <1>1, <1>2, <1>5 DEF OwnClose
<1> QED
  BY <1>0, <1>1, <1>4, <1>6, <1>7, <1>8, <1>9 DEF OwnerInv

LEMMA CallOwners == ASSUME Strict, ConnectionInv, ReplyInv, OwnerInv, Calls PROVE OwnerInv'
<1>0. CallShape /\ EndShape /\ Orderly
  BY DEF ReplyInv, OwnerInv, Strict
<1>1. ASSUME NEW op \in Ops, NEW at, NEW kind, Start(op, at, kind), pc = "app",
             op = "free" => at \in channels
      PROVE  OwnerInv'
  <2>1. /\ pc' = op /\ call' = [op |-> op, at |-> at, kind |-> kind]
        /\ UNCHANGED <<channels, odata, chanFwdCncl_state, close_state>>
    BY <1>1 DEF Start, sessVars, netVars, stateVars
  <2>2. call'.op = op /\ call'.at = at /\ call.op = "none" /\ op \in AllOps
    BY <1>0, <1>1, <2>1, ConnectionAssumption DEF CallShape
  <2>3. odata = NoPacket
    BY <1>0, <1>1, Strangers
  <2>4. EndShape'
    BY <1>0, <1>1, <2>1, <2>2, EndKeeps DEF AllOps
  <2> QED
    BY <2>1, <2>3, <2>4 DEF OwnerInv
<1>2. CASE CallOpen
  BY <1>1, <1>2 DEF CallOpen, Calling
<1>3. CASE CallKeepalive
  BY <1>0, <1>3 DEF CallKeepalive, Calling, Orderly
<1>4. ASSUME NEW p \in Ports, CallListen(p) \/ CallAccept(p) \/ CallCancel(p) PROVE OwnerInv'
  BY <1>1, <1>4 DEF CallListen, CallAccept, CallCancel, Calling
<1>5. ASSUME NEW c \in channels, CallFree(c) PROVE OwnerInv'
  BY <1>1, <1>5 DEF CallFree, Calling
<1>6. ASSUME NEW c \in channels, CallResize(c) PROVE OwnerInv'
  BY <1>1, <1>6 DEF CallResize, Calling
<1>7. ASSUME NEW c \in channels, NEW k \in Kinds, CallRequest(c, k) PROVE OwnerInv'
  BY <1>1, <1>7 DEF CallRequest, Calling
<1> QED
  BY <1>2, <1>3, <1>4, <1>5, <1>6, <1>7 DEF Calls

\* The peer, and steps that change nothing.
LEMMA PeerOwners == ASSUME OwnerInv, UNCHANGED clientVars PROVE OwnerInv'
<1>1. UNCHANGED <<packAdd, odata, call, pc, channels, listeners, queue, remote_close, exchange,
                  chanFwdCncl_state, close_state>>
  BY DEF clientVars, sessVars, stateVars, callVars
<1>2. /\ Victim' = Victim /\ Mine' = Mine /\ Asked' = Asked
      /\ Awaiting' <=> Awaiting
      /\ Asking' <=> Asking
      /\ Coherent' <=> Coherent
      /\ Closing' <=> Closing
  BY <1>1 DEF Victim, Mine, Asked, Awaiting, Asking, Coherent, Closing
<1>3. EndShape'
  BY <1>1, <1>2 DEF OwnerInv, EndShape
<1>4. odata # NoPacket => OwnRequest' \/ OwnAnswer' \/ OwnCancel' \/ OwnClose'
  BY <1>1, <1>2 DEF OwnerInv, OwnRequest, OwnAnswer, OwnCancel, OwnClose
<1> QED
  BY <1>1, <1>3, <1>4 DEF OwnerInv

LEMMA NextOwners ==
    ASSUME Strict, ConnectionInv, ReplyInv, OwnerInv, [Next]_vars PROVE OwnerInv'
<1>1. CASE UNCHANGED vars
  <2>1. UNCHANGED clientVars
    BY <1>1 DEF vars, clientVars, sessVars, recvVars, netVars, stateVars, callVars
  <2> QED
    BY <2>1, PeerOwners
<1>2. CASE PeerReceive \/ \E p \in Ports : PeerForward(p)
  <2>1. UNCHANGED clientVars
    BY <1>2 DEF PeerReceive, PeerForward
  <2> QED
    BY <2>1, PeerOwners
<1>3. ~AcceptRead /\ ~AcceptTake
  BY DEF AcceptRead, AcceptTake, ConnectionInv, CallInv, OwnerInv, EndShape, Strict
<1>4. CASE Steps
  BY <1>3, <1>4, AskOwners, WaitOwners, EndOwners DEF Steps
<1> QED
  BY <1>1, <1>2, <1>4, CallOwners DEF Next

LEMMA OwnerInvariant == Strict => (Spec => []OwnerInv)
<1> SUFFICES ASSUME Strict PROVE Spec => []OwnerInv
  OBVIOUS
<1>1. Init => OwnerInv
  BY DEF Init, OwnerInv, EndShape, NoCall
<1>2. ConnectionInv /\ ReplyInv /\ OwnerInv /\ [Next]_vars => OwnerInv'
  BY NextOwners
<1>3. Orderly
  BY DEF Strict
<1> QED
  BY <1>1, <1>2, <1>3, ConnectionInvHolds, ReplyInvariant, PTL DEF Spec

\* In the same use of the library without accept() and agent forwarding, whoever left a
\* packet half sent comes back to send the rest: no other packet waits behind one that
\* nobody will finish (send_existing(), transport.c).
THEOREM HalfSentHasOwner == Strict => (Spec => []PendingHasOwner)
<1> SUFFICES ASSUME Strict PROVE Spec => []PendingHasOwner
  OBVIOUS
<1>1. ReplyInv /\ OwnerInv => PendingHasOwner
  <2> SUFFICES ASSUME ReplyInv, OwnerInv, odata # NoPacket
               PROVE  \/ \E x \in Exchanges : /\ exchange[x].state = "created"
                                              /\ exchange[x].packet = odata
                      \/ packAdd.point = "jump2" /\ odata.kind \in {"confirm", "refuse"}
                      \/ odata.kind = "cancel" /\ chanFwdCncl_state[odata.at] = "created"
                      \/ odata.kind = "close" /\ close_state[odata.at] = "created"
    BY DEF PendingHasOwner
  <2>1. CASE OwnRequest
    <3>1. Mine \in Exchanges
      BY <2>1, MineTyped DEF OwnRequest, ReplyInv
    <3> QED
      BY <2>1, <3>1 DEF OwnRequest, Asked
  <2>2. CASE OwnAnswer
    BY <2>2 DEF OwnAnswer, Coherent
  <2>3. CASE OwnCancel
    BY <2>3 DEF OwnCancel
  <2>4. CASE OwnClose
    BY <2>4 DEF OwnClose
  <2> QED
    BY <2>1, <2>2, <2>3, <2>4 DEF OwnerInv
<1>2. Orderly
  BY DEF Strict
<1> QED
  BY <1>1, <1>2, OwnerInvariant, ReplyInvariant, PTL
=============================================================================
