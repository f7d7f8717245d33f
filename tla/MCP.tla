-------------------------------- MODULE MCP ---------------------------------
(***************************************************************************)
(* The MCP server (internal/mcp) beside the HTTP API: both act on one      *)
(* manager.  A tool call resolves its caller by itself, authorizes the     *)
(* Citadel or the Cohort it names, and then calls the manager; in between  *)
(* a request of either surface may have changed what was looked at.  On    *)
(* standard input there is no other surface and one caller.                *)
(***************************************************************************)
EXTENDS Gateway

CONSTANTS
  Driver,      \* identifiers of browser sessions; each is given once
  Transports   \* how the server is reached: by "http", or by "stdio" with a principal

VARIABLES
  transport,   \* the transport, and principalResolver's stdioPrincipal
  browsers     \* Session.browsers of all Citadels: where each driver runs, and if it is listed

mcpVars == <<vars, transport, browsers>>

Absent == [on |-> "none", listed |-> FALSE]

\* newPrincipalResolver: the token of standard input is identified once, when the
\* server starts; without one there is no principal.
MCPInit ==
  /\ Init
  /\ transport \in Transports
  /\ transport.by = "stdio" => mode # "token" /\ (transport.who # Nobody => mode = "rbac")
  /\ browsers = [b \in Driver |-> Absent]

-----------------------------------------------------------------------------
(* Tools *)

GovernedTools == {"shell", "browser", "file"}
ObservingTools == {"publish_conversation", "list_conversation", "report_usage", "export_evidence"}
BrowserTools == {"browser_open", "browser_act", "browser_close"}
CitadelTools == GovernedTools \cup ObservingTools \cup BrowserTools \cup {"kill_citadel", "snapshot_citadel"}
BoardTools == {"list_tasks", "use_task"}
CohortTools == BoardTools \cup {"kill_cohort"}
LaunchTools == {"readiness", "create_citadel", "create_cohort"}
FreeTools == {"whoami", "verify_chronicle"}

Registered ==
  [op : CitadelTools, on : Citadel] \cup [op : CohortTools, on : Cohort]
    \cup [op : LaunchTools, on : Charters] \cup [op : {"show"}, on : Lists]
    \cup [op : FreeTools, on : {"self"}]

Tools == {x \in Registered : x.op \in workload}

-----------------------------------------------------------------------------
(* principalResolver and the authorizations *)

\* Over HTTP every call brings a bearer token, also where the outer server asks
\* for none; parseBearerToken refuses everything else.
Bearers ==
  IF transport.by = "stdio" THEN {[by |-> "stdio", id |-> transport.who]}
  ELSE {c \in Credentials : c.by \in {"nothing", "token"}}

\* resolve; with a store, standard input needs a principal.
Resolves(c) == c.by # "nothing" /\ (mode = "rbac" => c.id # Nobody)
Resolved(c) == IF mode = "rbac" THEN c.id ELSE Nobody

\* The owner of what a call makes: one name for all who share a token, and not
\* the empty name that the HTTP API uses for them.
Owner(p) == IF p # Nobody THEN p.tenant ELSE IF transport.by = "http" THEN "mcp-http" ELSE "mcp-stdio"

MayLaunch(p, charter) == p = Nobody \/ CanLaunch(p, charter)
MayReview(p) == p = Nobody \/ MayApprove(p)

AuthorizeSandbox(p, c) ==
  citadel[c].live /\ (p = Nobody \/ p.admin \/ citadel[c].owner = Owner(p))

AuthorizeFleet(p, k) ==
  cohort[k].live /\ (p = Nobody \/ p.admin \/ cohort[k].owner = Owner(p))

Authorized(p, x) ==
  /\ x.op \in CitadelTools => AuthorizeSandbox(p, x.on)
  /\ x.op \in CohortTools => AuthorizeFleet(p, x.on)
  /\ x.op \in LaunchTools => MayLaunch(p, x.on)
  /\ x.op = "show" /\ x.on = "approvals" => MayReview(p)

\* The caller and what the call names are looked up before the manager is called;
\* a call that is refused changes nothing.
CallTool(w) ==
  /\ req[w].pc \in {"idle", "served"} /\ sent < MaxRequests
  /\ \E x \in Tools, c \in Bearers :
       /\ Resolves(c) /\ Authorized(Resolved(c), x)
       /\ req' = [req EXCEPT ![w] = [pc |-> "handle", target |-> x, cred |-> c, who |-> Resolved(c), at |-> 0]]
  /\ sent' = sent + 1
  /\ UNCHANGED <<setting, clock, objects, stores, transport, browsers>>

-----------------------------------------------------------------------------
(* The calls of the manager *)

quiet == <<setting, clock, sent, stores, transport>>

CreateCitadel(w) ==
  /\ Serving(w, {"create_citadel"})
  /\ \E c \in Citadel : New(c, Owner(Caller(w)), On(w))
  /\ Ok(w)
  /\ UNCHANGED <<quiet, snap, cohort, pending, browsers>>

\* Shell, python and node, one page of a browser, files: decided by the policy,
\* at times left waiting for approval, which the answer says.
Exec(w) ==
  /\ Serving(w, GovernedTools)
  /\ citadel[On(w)].live
  /\ pending' \in {pending, pending \cup {On(w)}}
  /\ Ok(w)
  /\ UNCHANGED <<quiet, citadel, snap, cohort, browsers>>

Observe(w) ==
  /\ Serving(w, ObservingTools)
  /\ citadel[On(w)].live
  /\ Ok(w)
  /\ UNCHANGED <<quiet, objects, browsers>>

\* BrowserOpen: the driver is started, or waits for approval, ...
BrowserOpen(w) ==
  /\ Serving(w, {"browser_open"})
  /\ citadel[On(w)].live
  /\ \/ \E b \in Driver :
          /\ browsers[b] = Absent
          /\ browsers' = [browsers EXCEPT ![b].on = On(w)]
          /\ req' = [req EXCEPT ![w] = [pc |-> "ready", target |-> req[w].target, cred |-> req[w].cred,
                                        who |-> Caller(w), at |-> 0, driver |-> b]]
          /\ UNCHANGED pending
     \/ pending' = pending \cup {On(w)} /\ Ok(w) /\ UNCHANGED browsers
  /\ UNCHANGED <<quiet, citadel, snap, cohort>>

\* ... and is listed once it answers; the session it is listed in may have ended.
BrowserReady(w) ==
  /\ req[w].pc = "ready"
  /\ browsers' = [browsers EXCEPT ![req[w].driver].listed = TRUE]
  /\ Ok(w)
  /\ UNCHANGED <<quiet, objects>>

\* browserWaitReady gives up; the driver, if it runs, is in no list.
BrowserUnready(w) ==
  /\ req[w].pc = "ready"
  /\ req' = [req EXCEPT ![w] = Idle]
  /\ UNCHANGED <<quiet, objects, browsers>>

\* The sessions of a Citadel are looked up in it alone.
Listed(c) == {b \in Driver : browsers[b].listed /\ browsers[b].on = c}

BrowserAct(w) ==
  /\ Serving(w, {"browser_act"})
  /\ citadel[On(w)].live
  /\ \E b \in Listed(On(w)) : req' = [req EXCEPT ![w] = Answer({b})]
  /\ pending' \in {pending, pending \cup {On(w)}}
  /\ UNCHANGED <<quiet, citadel, snap, cohort, browsers>>

BrowserClose(w) ==
  /\ Serving(w, {"browser_close"})
  /\ citadel[On(w)].live
  /\ \E b \in Listed(On(w)) :
       /\ browsers' = [browsers EXCEPT ![b].listed = FALSE]
       /\ req' = [req EXCEPT ![w] = Answer({b})]
  /\ UNCHANGED <<quiet, objects>>

KillCitadel(w) ==
  /\ Serving(w, {"kill_citadel"})
  /\ citadel[On(w)].live
  /\ citadel' = [citadel EXCEPT ![On(w)].live = FALSE]
  /\ Ok(w)
  /\ UNCHANGED <<quiet, snap, cohort, pending, browsers>>

SnapshotCitadel(w) ==
  /\ Serving(w, {"snapshot_citadel"})
  /\ citadel[On(w)].live
  /\ \E n \in Snap : snap[n] = Lifeless /\ snap' = [snap EXCEPT ![n] = citadel[On(w)]]
  /\ Ok(w)
  /\ UNCHANGED <<quiet, citadel, cohort, pending, browsers>>

CreateCohort(w) ==
  /\ Serving(w, {"create_cohort"})
  /\ \E c \in Citadel, k \in Cohort :
       /\ cohort[k] = Lifeless
       /\ New(c, Owner(Caller(w)), On(w))
       /\ cohort' = [cohort EXCEPT ![k] = [owner |-> Owner(Caller(w)), charter |-> On(w), live |-> TRUE, member |-> c]]
  /\ Ok(w)
  /\ UNCHANGED <<quiet, snap, pending, browsers>>

\* Claims and what follows them act in the name of the caller.
UseBoard(w) ==
  /\ Serving(w, BoardTools)
  /\ cohort[On(w)].live
  /\ Ok(w)
  /\ UNCHANGED <<quiet, objects, browsers>>

KillCohort(w) ==
  /\ Serving(w, {"kill_cohort"})
  /\ cohort[On(w)].live
  /\ cohort' = [cohort EXCEPT ![On(w)].live = FALSE]
  /\ citadel' = [citadel EXCEPT ![cohort[On(w)].member].live = FALSE]
  /\ Ok(w)
  /\ UNCHANGED <<quiet, snap, pending, browsers>>

\* Who the caller is, whether a Charter is ready, whether the Chronicle verifies.
Inform(w) ==
  /\ Serving(w, FreeTools \cup {"readiness"})
  /\ Ok(w)
  /\ UNCHANGED <<quiet, objects, browsers>>

\* As in the HTTP API, but a Cohort is listed with its owner.
ToolShows(p, list, i) ==
  IF list = "cohorts" THEN cohort[i].owner = Owner(p) ELSE Visible(p, list, i)

ListTool(w) ==
  /\ Serving(w, {"show"})
  /\ req' = [req EXCEPT ![w] =
               IF Caller(w) = Nobody \/ Caller(w).admin THEN Answer(All(On(w)))
               ELSE [pc |-> "filter", target |-> req[w].target, cred |-> req[w].cred, who |-> Caller(w),
                     at |-> 0, items |-> All(On(w))]]
  /\ UNCHANGED <<quiet, objects, browsers>>

FilterTool(w) ==
  /\ req[w].pc = "filter" /\ req[w].target.op = "show"
  /\ req' = [req EXCEPT ![w] = Answer({i \in req[w].items : ToolShows(Caller(w), On(w), i)})]
  /\ UNCHANGED <<quiet, objects, browsers>>

Tool(w) ==
  \/ CallTool(w) \/ CreateCitadel(w) \/ Exec(w) \/ Observe(w) \/ BrowserOpen(w) \/ BrowserReady(w)
  \/ BrowserUnready(w) \/ BrowserAct(w) \/ BrowserClose(w) \/ KillCitadel(w) \/ SnapshotCitadel(w)
  \/ CreateCohort(w) \/ UseBoard(w) \/ KillCohort(w) \/ Inform(w) \/ ListTool(w) \/ FilterTool(w)

\* On standard input nothing but tools is served.
Serve(w) == (transport.by = "http" /\ Authenticate(w)) \/ Handle(w)

MCPNext ==
  \/ (Tick \/ \E w \in Worker : Serve(w)) /\ UNCHANGED <<transport, browsers>>
  \/ \E w \in Worker : Tool(w)

MCPSpec == MCPInit /\ [][MCPNext]_mcpVars

-----------------------------------------------------------------------------
(* Properties *)

\* The right that a tool asks for, as the request of the HTTP API with the same
\* effect.
AsRequest(x) ==
  CASE x.op \in CitadelTools -> [op |-> "tool", on |-> x.on]
    [] x.op \in CohortTools -> [op |-> "task", on |-> x.on]
    [] x.op \in LaunchTools -> [op |-> "create", on |-> x.on]
    [] x.op \in {"show"} \cup FreeTools -> [op |-> "list", on |-> x.on]
    [] OTHER -> x

\* No request and no tool call is served unless its credential leads back to a
\* principal who has the right to it: the Citadels, Cohorts, snapshots and runs
\* of another tenant, Charters and approvals outside the principal's lists and
\* the export of the Chronicle stay out of reach by token, by ticket, by IDE
\* cookie and on standard input, whichever surface made them; no list shows
\* them; and a browser action reaches a driver in the Citadel it named.
OnlyEntitled ==
  [][\A w \in Worker :
       req[w].pc \notin {"idle", "served"} /\ req'[w].pc = "served" =>
         LET x == req[w].target IN
         IF x.op \in BrowserTools
         THEN /\ WithinRights(w, AsRequest(x), {})
              /\ \A b \in req'[w].shows : browsers[b].on = x.on
         ELSE WithinRights(w, AsRequest(x), req'[w].shows)]_mcpVars
=============================================================================
