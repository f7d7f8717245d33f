----------------------------- MODULE MCChronicle -----------------------------
(***************************************************************************)
(* The audit trail, for TLC.  A behaviour takes one of two parts: the      *)
(* Chronicle itself, or the anomaly detector that wraps the audit sink.    *)
(***************************************************************************)
EXTENDS Chronicle, Anomaly, TLC

CONSTANTS p1, p2, s1, s2, e1, e2

VARIABLE part

MCProcess == {p1, p2}
MCSession == {s1, s2}

MCEvent(tool, host, verdict) == [tool |-> tool, host |-> host, verdict |-> verdict]

\* Every threshold is one: the second event of a kind crosses it.
MCEvents ==
  {MCEvent("shell", "", "allow"), MCEvent("shell", "", "deny"),
   MCEvent("net", "x", "allow"), MCEvent("net", "y", "allow")}

allVars == <<vars, part, detVars>>

MCInit == part \in {"chronicle", "detector"} /\ Init /\ DetInit

MCNext ==
  /\ \/ part = "chronicle" /\ Next /\ UNCHANGED detVars
     \/ part = "detector" /\ DetNext /\ UNCHANGED vars
  /\ UNCHANGED part

MCSpec == MCInit /\ [][MCNext]_allVars

Symmetry == Permutations(MCProcess) \cup Permutations({e1, e2})
=============================================================================
