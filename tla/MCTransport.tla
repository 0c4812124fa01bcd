---------------------------- MODULE MCTransport ----------------------------
(* Transport for TLC: payloads that do and do not fill their last block.   *)
EXTENDS Transport

Lengths ==
  [m \in {"KEXINIT", "NEWKEYS", "REQUEST", "FAILURE", "m1", "m2", "d1"} |->
     CASE m \in {"m1", "KEXINIT"} -> 2
       [] m \in {"m2", "d1"} -> 3
       [] OTHER -> 1]
============================================================================
