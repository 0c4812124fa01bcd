-------------------------------- MODULE Wire --------------------------------
(***************************************************************************)
(* What the transport layer promises to the code above it: two queues of   *)
(* whole messages, one in each direction.  Nothing is lost, repeated,      *)
(* reordered or made up, and while the connection lasts whatever one end   *)
(* has handed over reaches the other.  Framing, padding, MACs, sequence    *)
(* numbers, partial reads and writes and changes of keys cannot be seen.   *)
(***************************************************************************)
EXTENDS Naturals, Sequences

CONSTANT Messages

VARIABLES
    outSent, outGot,    \* from the library to its peer: handed over, arrived
    inSent, inGot,      \* from the peer to the library
    broken              \* the connection is lost

wireVars == <<outSent, outGot, inSent, inGot, broken>>

WireInit ==
  /\ outSent = <<>> /\ outGot = <<>>
  /\ inSent = <<>> /\ inGot = <<>>
  /\ broken = FALSE

Send(m) ==
  /\ outSent' = Append(outSent, m)
  /\ UNCHANGED <<outGot, inSent, inGot, broken>>

Arrive ==
  /\ Len(outGot) < Len(outSent)
  /\ outGot' = Append(outGot, outSent[Len(outGot) + 1])
  /\ UNCHANGED <<outSent, inSent, inGot, broken>>

Post(m) ==
  /\ inSent' = Append(inSent, m)
  /\ UNCHANGED <<outSent, outGot, inGot, broken>>

(* Taking a message may make the library answer it at once.                *)
Deliver ==
  /\ Len(inGot) < Len(inSent)
  /\ inGot' = Append(inGot, inSent[Len(inGot) + 1])
  /\ \/ UNCHANGED outSent
     \/ \E m \in Messages : outSent' = Append(outSent, m)
  /\ UNCHANGED <<outGot, inSent, broken>>

Break ==
  /\ broken' = TRUE
  /\ UNCHANGED <<outSent, outGot, inSent, inGot>>

WireNext ==
  \/ \E m \in Messages : Send(m) \/ Post(m)
  \/ Arrive \/ Deliver \/ Break

WireSafety == WireInit /\ [][WireNext]_wireVars

WireSpec ==
  /\ WireSafety
  /\ WF_wireVars(~broken /\ Arrive) /\ WF_wireVars(~broken /\ Deliver)
============================================================================
