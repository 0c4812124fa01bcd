--------------------------- MODULE MCChannelLive ---------------------------
(***************************************************************************)
(* Channel for TLC, with two applications that a peer waits for.  One, of  *)
(* the constants of the configuration, keeps reading on a socket that may  *)
(* be full; the other, Closing below, has a time limit for its calls, is   *)
(* met by channel requests and key re-exchanges, and closes and frees.     *)
(***************************************************************************)
EXTENDS Channel

VARIABLE using

Closing == INSTANCE Channel WITH
  Initial <- 1, PeerInitial <- 1, PacketSize <- 2, MinAdjust <- 1, HeadSlack <- 1,
  Modulus <- 64, ReadSizes <- {1}, WriteSizes <- {2}, AdjustSizes <- {},
  DataSizes <- {1}, GrantSizes <- {}, Modes <- {}, ReadStreams <- {0},
  PeerStreams <- {0}, Ops <- {"write", "read", "close", "free"},
  Blocking <- TRUE, MayTimeout <- TRUE, MayBlock <- FALSE, MayDrop <- FALSE,
  MaxWire <- 2, MaxSent <- 1, MaxWindow <- 0, MaxPeerGranted <- 1,
  MaxRequests <- 1, MaxRekeys <- 1

allVars == <<vars, using>>

Either(A, B) == /\ \/ using = "reading" /\ A
                   \/ using = "closing" /\ B
                /\ UNCHANGED using

MCInit == \/ using = "reading" /\ Init
          \/ using = "closing" /\ Closing!Init

MCNext == \/ using = "reading" /\ Next /\ UNCHANGED using
          \/ using = "closing" /\ Closing!Next /\ UNCHANGED using

(* The fairness of FairSpec for both, that of ReadingSpec for the reader.  *)
MCSpec ==
  /\ MCInit /\ [][MCNext]_allVars
  /\ WF_allVars(Either(Steps, Closing!Steps))
  /\ SF_allVars(Either(Sends, Closing!Sends))
  /\ WF_allVars(Either(PeerReceive, Closing!PeerReceive))
  /\ WF_allVars(Either(PeerAnswersClose, Closing!PeerAnswersClose))
  /\ WF_allVars(Either(KexDone, Closing!KexDone))
  /\ SF_allVars(Either(\E s \in ReadStreams, n \in ReadSizes : CallRead(s, n), FALSE))
  /\ WF_allVars(Either(\E s \in PeerStreams, n \in DataSizes : PeerData(s, n), FALSE))

(* An application that keeps reading never leaves a peer with data waiting *)
(* for window credit, whatever the sizes of its reads and however often    *)
(* the WINDOW_ADJUST of _libssh2_channel_read() is interrupted.            *)
ReaderIsFed == using = "reading" => ReaderFeedsPeer
============================================================================
