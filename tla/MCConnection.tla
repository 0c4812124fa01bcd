---------------------------- MODULE MCConnection ----------------------------
(***************************************************************************)
(* Connection for TLC, with two applications.  One, of the constants of    *)
(* the configuration, makes blocking calls on a socket that may be full;   *)
(* the other, Patient below, is non-blocking: it leaves a call that got    *)
(* EAGAIN for another and comes back to it, but finishes a request on a    *)
(* channel before the next.                                                *)
(***************************************************************************)
EXTENDS Connection

VARIABLE using

Patient == INSTANCE Connection WITH
  Ports <- {1}, QueueMax <- 1, Kinds <- {"pty", "process", "agent"},
  Ops <- {"open", "listen", "request", "resize", "accept", "free", "keepalive"},
  Blocking <- FALSE, MayBlock <- FALSE, MayTimeout <- FALSE, OneRequest <- TRUE,
  WantReply <- FALSE, MaxTags <- 4, MaxForwards <- 1

allVars == <<vars, using>>

Either(A, B) == /\ \/ using = "blocking" /\ A
                   \/ using = "patient" /\ B
                /\ UNCHANGED using

MCInit == \/ using = "blocking" /\ Init
          \/ using = "patient" /\ Patient!Init

MCNext == \/ using = "blocking" /\ Next /\ UNCHANGED using
          \/ using = "patient" /\ Patient!Next /\ UNCHANGED using

(* The fairness of FairSpec; the patient application owes no call.         *)
MCSpec ==
  /\ MCInit /\ [][MCNext]_allVars
  /\ WF_allVars(Either(Steps, FALSE))
  /\ SF_allVars(Either(Steps /\ odata # NoPacket /\ odata' = NoPacket, FALSE))
  /\ WF_allVars(Either(PeerReceive, FALSE))

(* Every blocking call but accept() returns (BLOCK_ADJUST,                 *)
(* _libssh2_wait_socket(), _libssh2_packet_requirev()).                    *)
BlockingCallsReturn == using = "blocking" => CallsReturn

(* Each channel the peer was told is open is known to the client or being  *)
(* closed, though the call that opens it may be left and made again        *)
(* (packet_queue_listener(), _libssh2_channel_open()).                     *)
PatientOwnsAll == using = "patient" => ConfirmedIsOwned
=============================================================================
