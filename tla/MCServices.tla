---------------------------- MODULE MCServices -----------------------------
(***************************************************************************)
(* The services above a channel, for TLC: scp, the public key subsystem,   *)
(* the agent and the known hosts.  They share nothing but the session, so  *)
(* a behaviour uses one of them; the others stay in their initial state.   *)
(***************************************************************************)
EXTENDS Scp, Publickey, Agent, Knownhost

VARIABLE using

vars == <<scpVars, pkVars, agVars, khVars, using>>

Only(name, others, A) == using = name /\ A /\ UNCHANGED <<others, using>>

Scp1(A) == Only("scp", <<pkVars, agVars, khVars>>, A)
Pk1(A) == Only("publickey", <<scpVars, agVars, khVars>>, A)
Agent1(A) == Only("agent", <<scpVars, pkVars, khVars>>, A)
Kh1(A) == Only("knownhosts", <<scpVars, pkVars, agVars>>, A)

Init ==
  /\ ScpInit /\ PkInit /\ AgentInit /\ KhInit
  /\ using \in {"scp", "publickey", "agent", "knownhosts"}

Next ==
  \/ Scp1(ScpNext)
  \/ Pk1(PkNext)
  \/ Agent1(AgentNext)
  \/ Kh1(KhNext)

(* Both ends of a channel make progress; the application calls again after *)
(* EAGAIN, which is what both blocking mode and the Python callers do.     *)
Fairness ==
  /\ WF_vars(Scp1(ScpStep)) /\ WF_vars(Scp1(RemoteWorks))
  /\ WF_vars(Pk1(PkInitStep)) /\ WF_vars(Pk1(PkOpStep)) /\ WF_vars(Pk1(PkServerStep))
  /\ WF_vars(Agent1(AgentStep))

Spec == Init /\ [][Next]_vars /\ Fairness

(* Whichever of them is used, what it has begun comes to an end: neither   *)
(* side of scp's, the subsystem's or the agent's exchange waits for what   *)
(* the other does not send (scp.c:366-955, publickey.c:130-290,            *)
(* agent.c:166-229).                                                       *)
ServicesEnd == SetupEnds /\ RequestEnds /\ AuthenticationEnds

(* Every character class of shell_quotearg() before and after every other. *)
Paths ==
  UNION {[1..n -> {"a", Apostrophe, Bang, Quotation, Backslash}] : n \in 1..2}
  \cup [1..3 -> {"a", Apostrophe, Bang}]
============================================================================
