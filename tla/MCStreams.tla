------------------------------ MODULE MCStreams ------------------------------
(***************************************************************************)
(* What a control plane streams, for TLC.  A behaviour takes one of three  *)
(* parts: an agent session and the clients on its output; the conversation *)
(* of a Citadel and its observers; the audit sinks and their collectors.   *)
(***************************************************************************)
EXTENDS AgentSessions, Conversation, Sinks, TLC

CONSTANTS a1, a2, k1, o1, o2, p1, p2

VARIABLE part

allVars == <<vars, part, convVars, sinkVars>>

MCConfigs == {{"webhook"}, {"otlp", "file"}}

MCInit ==
  /\ part \in {"agents", "conversation", "sinks"}
  /\ Init /\ ConvInit /\ SinkInit
  /\ part # "sinks" => sinks = FromEnv({})

InAgents(A) == part = "agents" /\ A /\ UNCHANGED <<part, convVars, sinkVars>>
InConversation(A) == part = "conversation" /\ A /\ UNCHANGED <<part, vars, sinkVars>>
InSinks(A) == part = "sinks" /\ A /\ UNCHANGED <<part, vars, convVars>>

MCNext == InAgents(Next) \/ InConversation(ConvNext) \/ InSinks(SinkNext)

MCSpec == MCInit /\ [][MCNext]_allVars

\* The fairness of the parts: AgentSessions!Fairness, ConvFairness, SinkFairness.
MCFairSpec ==
  /\ MCSpec
  /\ \A a \in Agent : WF_vars(InAgents(Thread(a))) /\ WF_vars(InAgents(Return(a) /\ a \in canceled))
  /\ WF_vars(InAgents(CloseReturn)) /\ WF_vars(InAgents(KillRemove))
  /\ WF_convVars(InConversation(Forget))
  /\ \A o \in {o1, o2} : WF_convVars(InConversation(Serve(o)))
  /\ WF_sinkVars(InSinks(WorkersStep)) /\ WF_sinkVars(InSinks(CloseStep))

Symmetry == Permutations(Agent) \cup Permutations({o1, o2}) \cup Permutations({p1, p2})

\* What is being shut down comes to an end.  A canceled session ends however its
\* clients read; Manager.Close returns, once every command it could not cancel
\* has ended, and however the collectors behave; a kill releases every observer
\* of the conversation, wherever it meets them.
ShutdownEnds ==
  /\ part = "agents" => CanceledEnds /\ CloseReturns
  /\ part = "conversation" => ObserversAreReleased
  /\ part = "sinks" => CloseEnds
=============================================================================
