----------------------------- MODULE MCCitadels -----------------------------
(***************************************************************************)
(* A Citadel from the session table down to the kernel, for TLC.  A        *)
(* behaviour takes one of four parts: the sessions and Runs of the control *)
(* plane; the backends that start, stop and snapshot sandboxes; the egress *)
(* proxies; the packet filter under them.                                  *)
(***************************************************************************)
EXTENDS Backends, Citadels, Egress, Redirect, TLC

CONSTANTS s1, s2, n1, r1, r2, k1, k2, x1, x2

VARIABLE part

allVars == <<part, vars, citadelVars, egressVars, redirVars>>

\* Each kind of egress, with and without the later steps.
MCSpecs ==
  {[egress |-> "none", seed |-> TRUE, files |-> FALSE, ide |-> FALSE],
   [egress |-> "cooperative", seed |-> FALSE, files |-> TRUE, ide |-> FALSE],
   [egress |-> "strict", seed |-> FALSE, files |-> FALSE, ide |-> TRUE]}

-----------------------------------------------------------------------------
(* Egress: two policies, one that opens a domain but for one host and one    *)
(* that opens an address; names that both list differently.                  *)

EgressRule(wild, labels, cidr, v) == [wild |-> wild, labels |-> labels, cidr |-> cidr, verdict |-> v]

MCPolicies ==
  {[rules |-> <<EgressRule(FALSE, <<"api", "ex">>, {}, "deny"), EgressRule(TRUE, <<"ex">>, {}, "allow"),
                EgressRule(FALSE, <<>>, {"v6"}, "deny")>>,
    default |-> "allow"],
   [rules |-> <<EgressRule(FALSE, <<>>, {"a1"}, "allow"), EgressRule(FALSE, <<"ex">>, {}, "allow")>>,
    default |-> "deny"]}

Ask(kind_, name, addr) == [kind |-> kind_, auth |-> TRUE, name |-> name, addr |-> addr]

MCRequests ==
  {Ask(k, n, "none") : k \in {"connect", "http"}, n \in {<<"ex">>, <<"www", "ex">>}}
  \cup {Ask("transparent", n, a) : n \in {<<>>, <<"api", "ex">>, <<"www", "ex">>}, a \in {"a1", "a2"}}
  \cup {Ask("connect", <<>>, "v6"), Ask("http", <<>>, "v6"), [Ask("http", <<"ex">>, "none") EXCEPT !.auth = FALSE]}

MCAnswers == [n \in {<<"ex">>, <<"api", "ex">>, <<"www", "ex">>} |-> {<<>>, <<"v6", "a1">>, <<"v6">>}]

MCResolverLists == {<<>>, <<"d1">>, <<"d1", "d2">>}

-----------------------------------------------------------------------------
(* The parts that do not move rest in one of their initial states. *)

MCInit ==
  /\ part \in {"citadels", "backends", "egress", "redirect"}
  /\ IF part = "backends" THEN Init ELSE Init /\ kind # "k8s"
  /\ CitadelInit
  /\ EgressInit
  /\ part # "egress" =>
       /\ policy = CHOOSE p \in MCPolicies : p.default = "deny"
       /\ \A x \in {x1, x2} : conn[x].req = Ask("http", <<"ex">>, "none")
  /\ RedirInit
  /\ part # "redirect" => resolvers = <<>>

MCNext ==
  /\ \/ part = "citadels" /\ CitadelNext /\ UNCHANGED <<vars, egressVars, redirVars>>
     \/ part = "backends" /\ Next /\ UNCHANGED <<citadelVars, egressVars, redirVars>>
     \/ part = "egress" /\ EgressNext /\ UNCHANGED <<vars, citadelVars, redirVars>>
     \/ part = "redirect" /\ RedirNext /\ UNCHANGED <<vars, citadelVars, egressVars>>
  /\ UNCHANGED part

MCSpec == MCInit /\ [][MCNext]_allVars

Symmetry == Permutations(Sandbox)
=============================================================================
