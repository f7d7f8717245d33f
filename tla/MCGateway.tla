----------------------------- MODULE MCGateway ------------------------------
(***************************************************************************)
(* What stands between a request and the control plane, for TLC.  A        *)
(* behaviour takes one of three parts: the HTTP API with its tickets and   *)
(* sessions and the MCP tools beside it; the key set of the OIDC verifier; *)
(* the admission webhook.                                                  *)
(***************************************************************************)
EXTENDS MCP, OIDCKeys, Admission, TLC

CONSTANTS w1, w2, c1, c2, n1, k1, t1, i1, b1

VARIABLE part

allVars == <<part, mcpVars, oidcVars, admVars>>

\* Two tenants; Bob reviews one Charter; Root is an administrator.
Alice == [name |-> "alice", tenant |-> "a", profiles |-> {"x"}, approve |-> FALSE, reviews |-> {}, admin |-> FALSE]
Bob == [name |-> "bob", tenant |-> "b", profiles |-> {"x", "y"}, approve |-> TRUE, reviews |-> {"y"}, admin |-> FALSE]
Root == [name |-> "root", tenant |-> "r", profiles |-> {}, approve |-> FALSE, reviews |-> {}, admin |-> TRUE]
None == [name |-> "", tenant |-> "", profiles |-> {}, approve |-> FALSE, reviews |-> {}, admin |-> FALSE]

MCPrincipals == {Alice, Bob, Root}

\* HTTP, and standard input with and without a principal.
MCTransports == {[by |-> "http", who |-> None]} \cup [by : {"stdio"}, who : {None, Bob}]

\* The endpoints that meet: tickets, the IDE, approvals, snapshots, Cohorts; then
\* those that meet the tools.
MCWorkloads ==
  {{"create", "ticket", "terminal", "stream", "read"},
   {"ticket", "read", "export"},
   {"create", "grant", "terminal", "kill"},
   {"create", "ideGrant", "ide", "kill"},
   {"create", "tool", "approve", "kill"},
   {"create", "snapshot", "restore", "run", "agent"},
   {"createCohort", "task", "killCohort", "tool"},
   {"create", "list", "snapshot"},
   {"createCohort", "list", "tool"},
   {"create_citadel", "shell", "show", "approve"},
   {"create_citadel", "file", "show", "kill_citadel"},
   {"create", "kill", "browser_open", "browser_act", "browser_close"},
   {"create_citadel", "snapshot_citadel", "restore", "show"},
   {"create", "browser", "publish_conversation", "list_conversation", "report_usage", "export_evidence"},
   {"create_cohort", "list_tasks", "use_task", "kill_cohort", "killCohort"},
   {"createCohort", "show", "readiness", "verify_chronicle", "whoami"}}

-----------------------------------------------------------------------------
\* The provider adds a key, then retires one and adds another.
MCKeySets == <<{"a"}, {"a", "b"}, {"b", "c"}>>

\* A policy set that wants a profile, a namespace and a label; one that denies one
\* profile; one whose default its other policy denies.
MCPolicy(allowed, denied, namespaces, labels, default) ==
  [AllowedProfiles |-> allowed, DeniedProfiles |-> denied, AllowedNamespaces |-> namespaces,
   RequiredLabels |-> labels, DefaultProfile |-> default]

MCPolicySets ==
  << <<MCPolicy({{"dev", "ci"}}, {}, {}, {}, ""), MCPolicy({}, {}, {{"team"}}, {"owner"}, "dev")>>,
     <<MCPolicy({}, {{"root"}}, {}, {}, "")>>,
     <<MCPolicy({}, {{"dev"}}, {}, {}, ""), MCPolicy({}, {}, {}, {}, "dev")>> >>

MCObjects ==
  {[namespace |-> "team", labels |-> {"owner"}, profile |-> ""],
   [namespace |-> "", labels |-> {}, profile |-> "dev"]}

-----------------------------------------------------------------------------
(* The parts that do not move rest in one of their initial states.  A server *)
(* that asks for no credentials never looks at a ticket.                     *)

MCInit ==
  /\ part \in {"gateway", "oidc", "admission"}
  /\ MCPInit /\ ("ticket" \in workload => mode # "open")
  /\ part # "gateway" => mode = "open" /\ "run" \in workload /\ transport.by = "http"
  /\ OIDCInit
  /\ AdmInit /\ (part # "admission" => \A w \in Worker : adm[w].obj.profile = "")

MCNext ==
  /\ \/ part = "gateway" /\ MCPNext /\ UNCHANGED <<oidcVars, admVars>>
     \/ part = "oidc" /\ OIDCNext /\ UNCHANGED <<mcpVars, admVars>>
     \/ part = "admission" /\ AdmNext /\ UNCHANGED <<mcpVars, oidcVars>>
  /\ UNCHANGED part

MCSpec == MCInit /\ [][MCNext]_allVars

Symmetry == Permutations(Worker) \cup Permutations(Citadel)
=============================================================================
