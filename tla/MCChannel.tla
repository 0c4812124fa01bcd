----------------------------- MODULE MCChannel -----------------------------
(* Channel for TLC, with the invariants that the proofs rest on.           *)
EXTENDS ChannelInv
============================================================================
