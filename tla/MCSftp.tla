------------------------------- MODULE MCSftp ------------------------------
(***************************************************************************)
(* For TLC: an SFTP session at work, and the Python objects an application *)
(* makes of a connection.  A behaviour is of one of the two; the other     *)
(* stays in its initial state.                                             *)
(***************************************************************************)
EXTENDS Sftp, PyObjects

VARIABLE using

allVars == <<vars, pyVars, using>>

MCInit ==
  /\ Init /\ PyInit
  /\ \/ using = "sftp"
     \/ using = "objects" /\ scene = "close" /\ mood = "plain"

SftpAtWork == using = "sftp" /\ Next /\ UNCHANGED <<pyVars, using>>
Objects == using = "objects" /\ PyNext /\ UNCHANGED <<vars, using>>

MCNext == SftpAtWork \/ Objects

MCSpec == MCInit /\ [][MCNext]_allVars
============================================================================
