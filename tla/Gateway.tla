------------------------------ MODULE Gateway -------------------------------
(***************************************************************************)
(* The HTTP surface of the control plane (internal/server, internal/authz):*)
(* authenticate with bearer tokens, one-shot tickets and IDE cookies;      *)
(* ownershipGuard; and the handlers, by what each asks of the caller       *)
(* before it calls the manager.  Requests are served concurrently, so what *)
(* one of them has checked another may have changed.  A request that is    *)
(* refused on the way to its handler changes nothing but the ticket or the *)
(* sessions it touched, and is no step otherwise (csrfGuard, which only    *)
(* refuses, is left out).                                                  *)
(***************************************************************************)
EXTENDS Integers, FiniteSets

CONSTANTS
  Worker,        \* requests that can be in progress together
  Principals,    \* the principals: records of authz.Principal
  Charters,      \* names of Charters
  Citadel, Snap, Cohort, Ticket, Cookie,   \* identifiers; each is given once
  Nobody,        \* the nil principal of open and single-token mode
  Modes,         \* authentication schemes in use: "open", "token", "rbac"
  TicketTTL,     \* lifetime of a ticket
  SessionTTL,    \* ideSessionTTL
  Workloads,     \* the endpoints that the clients of one behaviour use
  MaxClock, MaxRequests   \* bounds

\* The nil principal holds no token, and a Charter has a name.
ASSUME GatewayAssumption ==
  /\ TicketTTL \in Nat /\ SessionTTL \in Nat
  /\ Nobody \notin Principals /\ "none" \notin Charters

VARIABLES
  mode,      \* the authentication scheme of this server
  workload,  \* the endpoints in use
  clock,
  sent,      \* requests that reached their handler so far
  req,       \* req[w]: the request that worker w serves
  citadel,   \* citadel[c]: its session's owner and Charter, and whether it lives
  snap,      \* snap[n]: owner and Charter of a registered snapshot
  cohort,    \* cohort[k]: owner and member of a Cohort
  pending,   \* Citadels with an action that waits for approval
  tickets,   \* Server.tickets
  sessions,  \* Server.ideSessions
  issued,    \* history: what each ticket was issued for
  uses,      \* history: how often each ticket was accepted
  origin     \* history: the ticket that each cookie came from

vars == <<mode, workload, clock, sent, req, citadel, snap, cohort, pending, tickets, sessions, issued, uses, origin>>
objects == <<citadel, snap, cohort, pending>>
setting == <<mode, workload>>
stores == <<tickets, sessions, issued, uses, origin>>

-----------------------------------------------------------------------------
(* authz.go *)

TenantID(p) == IF p = Nobody THEN "" ELSE p.tenant
CanLaunch(p, charter) == p.admin \/ charter \in p.profiles
MayApprove(p) == p.admin \/ p.approve

\* An approver without approval_profiles reviews everything.
CanApproveProfile(p, charter) ==
  MayApprove(p) /\ (p.admin \/ p.reviews = {} \/ charter \in p.reviews)

-----------------------------------------------------------------------------
(* Requests *)

CitadelOps == {"tool", "read", "terminal", "stream", "ide", "kill", "snapshot", "grant", "ideGrant"}
CohortOps == {"task", "killCohort"}
Safe == {"read", "terminal", "stream", "export", "run", "agent", "list"}    \* GET
Lists == {"charters", "citadels", "runs", "snapshots", "cohorts", "approvals"}

Endpoints ==
  [op : CitadelOps \cup {"run", "agent", "approve", "ticket"}, on : Citadel]
    \cup [op : {"create", "createCohort"}, on : Charters]
    \cup [op : {"restore"}, on : Snap]
    \cup [op : CohortOps, on : Cohort]
    \cup [op : {"export"}, on : {"bundle"}]
    \cup [op : {"list"}, on : Lists]

Targets == {x \in Endpoints : x.op \in workload}

Idle == [pc |-> "idle"]
Answer(shown) == [pc |-> "served", shows |-> shown]
Served == Answer({})
Lifeless == [owner |-> "", charter |-> "none", live |-> FALSE]
NoTicket == [kind |-> "none", path |-> [op |-> "none", on |-> "none"], who |-> Nobody, expires |-> -1]
NoSession == [on |-> "none", who |-> Nobody, expires |-> -1]

Init ==
  /\ mode \in Modes /\ workload \in Workloads
  /\ clock = 0 /\ sent = 0
  /\ req = [w \in Worker |-> Idle]
  /\ citadel = [c \in Citadel |-> Lifeless]
  /\ snap = [n \in Snap |-> Lifeless]
  /\ cohort = [k \in Cohort |-> Lifeless]
  /\ pending = {}
  /\ tickets = [t \in Ticket |-> NoTicket]
  /\ sessions = [k \in Cookie |-> NoSession]
  /\ issued = tickets
  /\ uses = [t \in Ticket |-> 0]
  /\ origin = [k \in Cookie |-> "none"]

\* The client presents nothing, a token, a ticket or a cookie that it was given.
Credentials ==
  {[by |-> "nothing", id |-> "none"]}
    \cup [by : {"token"}, id : IF mode = "rbac" THEN Principals ELSE {CHOOSE p \in Principals : TRUE}]
    \cup [by : {"ticket"}, id : {t \in Ticket : issued[t] # NoTicket}]
    \cup [by : {"cookie"}, id : {k \in Cookie : origin[k] # "none"}]

-----------------------------------------------------------------------------
(* ownershipGuard *)

\* Mutant of OwnershipGuard: Cohorts are not looked at.
OwnershipGuardNoCohorts(p, x) ==
  \/ p = Nobody \/ p.admin
  \/ /\ x.op \in CitadelOps => citadel[x.on].live /\ citadel[x.on].owner = TenantID(p)
     /\ x.op = "restore" => snap[x.on].live /\ snap[x.on].owner = TenantID(p)
     /\ x.op # "export"
     /\ x.op = "approve" => MayApprove(p)

\* What is not the caller's looks as if it were not there.
OwnershipGuard(p, x) ==
  \/ p = Nobody \/ p.admin
  \/ /\ x.op \in CitadelOps => citadel[x.on].live /\ citadel[x.on].owner = TenantID(p)
     /\ x.op \in CohortOps => cohort[x.on].live /\ cohort[x.on].owner = TenantID(p)
     /\ x.op = "restore" => snap[x.on].live /\ snap[x.on].owner = TenantID(p)
     /\ x.op # "export"
     /\ x.op = "approve" => MayApprove(p)

-----------------------------------------------------------------------------
(* authenticate *)

\* consumeRequestTicket: the kind of ticket that a path asks for.
KindFor(op) ==
  CASE op = "stream" -> "conversation" [] op = "terminal" -> "terminal"
    [] op = "ide" -> "ide" [] OTHER -> "download"

\* consumeTicket, once the ticket is taken out of the store.
TicketFits(t, x) ==
  /\ tickets[t] # NoTicket
  /\ clock <= tickets[t].expires
  /\ tickets[t].kind = KindFor(x.op)
  /\ tickets[t].kind # "download" => tickets[t].path.on = x.on
  /\ tickets[t].kind = "download" => x.op \in Safe /\ tickets[t].path = x

\* Mutant of Drop: a ticket stays in the store when it is used.
DropNothing(t) == tickets

\* A ticket goes at its first use, be that use in order or not.
Drop(t) == [tickets EXCEPT ![t] = NoTicket]

\* Entries that prune removes: !now.Before(expires).
Pruned(store, none) == [i \in DOMAIN store |-> IF clock >= store[i].expires THEN none ELSE store[i]]

\* Mutant of AttachIDESession: the session outlasts its time.
AttachIDESessionLong(k, t, x, p) ==
  /\ sessions' = [Pruned(sessions, NoSession) EXCEPT ![k] =
                    [on |-> x.on, who |-> p, expires |-> clock + SessionTTL + TicketTTL + 1]]
  /\ origin' = [origin EXCEPT ![k] = t]

\* attachIDESession: a cookie for the path of this Citadel.
AttachIDESession(k, t, x, p) ==
  /\ sessions' = [Pruned(sessions, NoSession) EXCEPT ![k] =
                    [on |-> x.on, who |-> p, expires |-> clock + SessionTTL]]
  /\ origin' = [origin EXCEPT ![k] = t]

\* With principal p the request goes through the guard to its handler.  The
\* chain only reads what a kill may change, and a kill makes it refuse: it is
\* one step, and the handler, which looks again, another.
Accept(w, x, c, p) ==
  /\ OwnershipGuard(p, x)
  /\ req' = [req EXCEPT ![w] = [pc |-> "handle", target |-> x, cred |-> c, who |-> p,
                                at |-> IF c.by \in {"ticket", "cookie"} THEN clock ELSE 0]]
  /\ sent' = sent + 1

Refuse == UNCHANGED <<req, sent>>

\* Authenticated, if not let through.
Screen(w, x, c, p) == Accept(w, x, c, p) \/ (~OwnershipGuard(p, x) /\ Refuse)

ByTicket(w, x, t) ==
  /\ tickets' = Drop(t)
  /\ IF TicketFits(t, x)
     THEN /\ Screen(w, x, [by |-> "ticket", id |-> t], tickets[t].who)
          /\ uses' = [uses EXCEPT ![t] = @ + 1]
          /\ IF x.op = "ide"
             THEN \E k \in Cookie : origin[k] = "none" /\ AttachIDESession(k, t, x, tickets[t].who)
             ELSE UNCHANGED <<sessions, origin>>
     ELSE Refuse /\ UNCHANGED <<uses, sessions, origin>>
  /\ UNCHANGED issued

\* ideSessionFromCookie; only IDE paths look at the cookie, and without a
\* session the request has no other credential.
ByCookie(w, x, k) ==
  /\ IF x.op = "ide" THEN sessions' = Pruned(sessions, NoSession) ELSE UNCHANGED sessions
  /\ IF x.op = "ide" /\ sessions'[k] # NoSession /\ sessions'[k].on = x.on
     THEN Screen(w, x, [by |-> "cookie", id |-> k], sessions'[k].who)
     ELSE Refuse
  /\ UNCHANGED <<tickets, issued, uses, origin>>

\* Identify, or tokenMatches: every principal of the model holds a valid token,
\* and in single-token mode all hold the same one.
ByToken(w, x, p) ==
  /\ Accept(w, x, [by |-> "token", id |-> p], IF mode = "rbac" THEN p ELSE Nobody)
  /\ UNCHANGED stores

Authenticate(w) ==
  /\ req[w].pc \in {"idle", "served"} /\ sent < MaxRequests
  /\ \E x \in Targets, c \in Credentials :
       \/ mode = "open" /\ c.by = "nothing" /\ Accept(w, x, c, Nobody) /\ UNCHANGED stores
       \/ mode # "open" /\ c.by = "ticket" /\ ByTicket(w, x, c.id)
       \/ mode # "open" /\ c.by = "cookie" /\ ByCookie(w, x, c.id)
       \/ mode # "open" /\ c.by = "token" /\ ByToken(w, x, c.id)
  /\ UNCHANGED <<setting, clock, objects>>

-----------------------------------------------------------------------------
(* Handlers *)

Serving(w, ops) == req[w].pc = "handle" /\ req[w].target.op \in ops
On(w) == req[w].target.on
Caller(w) == req[w].who
Ok(w) == req' = [req EXCEPT ![w] = Served]

New(c, owner, charter) ==
  /\ citadel[c] = Lifeless
  /\ citadel' = [citadel EXCEPT ![c] = [owner |-> owner, charter |-> charter, live |-> TRUE]]

\* A malformed body, a handler's own check, or an error of the manager.
Fail(w) ==
  /\ req[w].pc = "handle"
  /\ req' = [req EXCEPT ![w] = Idle]
  /\ UNCHANGED <<setting, clock, sent, objects, stores>>

HandleCreateSandbox(w) ==
  /\ Serving(w, {"create"})
  /\ Caller(w) = Nobody \/ CanLaunch(Caller(w), On(w))
  /\ \E c \in Citadel : New(c, TenantID(Caller(w)), On(w))
  /\ Ok(w)
  /\ UNCHANGED <<setting, clock, sent, snap, cohort, pending, stores>>

\* The tool endpoints; one of them may end up waiting for approval (202).
HandleTool(w) ==
  /\ Serving(w, {"tool"})
  /\ citadel[On(w)].live
  /\ pending' \in {pending, pending \cup {On(w)}}
  /\ Ok(w)
  /\ UNCHANGED <<setting, clock, sent, citadel, snap, cohort, stores>>

\* What only looks: the Chronicle of a Citadel answers even when it is gone.
HandleRead(w) ==
  /\ Serving(w, {"read"})
  /\ Ok(w)
  /\ UNCHANGED <<setting, clock, sent, objects, stores>>

HandleTerminal(w) ==
  /\ Serving(w, {"terminal"})
  /\ citadel[On(w)].live
  /\ Ok(w)
  /\ UNCHANGED <<setting, clock, sent, objects, stores>>

HandleConversationStream(w) ==
  /\ Serving(w, {"stream"})
  /\ citadel[On(w)].live
  /\ Ok(w)
  /\ UNCHANGED <<setting, clock, sent, objects, stores>>

\* The endpoint of code-server is known while the session is.
HandleIDE(w) ==
  /\ Serving(w, {"ide"})
  /\ citadel[On(w)].live
  /\ Ok(w)
  /\ UNCHANGED <<setting, clock, sent, objects, stores>>

HandleKillSandbox(w) ==
  /\ Serving(w, {"kill"})
  /\ citadel[On(w)].live
  /\ citadel' = [citadel EXCEPT ![On(w)].live = FALSE]
  /\ Ok(w)
  /\ UNCHANGED <<setting, clock, sent, snap, cohort, pending, stores>>

\* The snapshot belongs to the owner of the session.
HandleSnapshot(w) ==
  /\ Serving(w, {"snapshot"})
  /\ citadel[On(w)].live
  /\ \E n \in Snap : snap[n] = Lifeless /\ snap' = [snap EXCEPT ![n] = citadel[On(w)]]
  /\ Ok(w)
  /\ UNCHANGED <<setting, clock, sent, citadel, cohort, pending, stores>>

\* The caller becomes the owner of what is restored.
HandleRestoreSnapshot(w) ==
  /\ Serving(w, {"restore"})
  /\ snap[On(w)].live
  /\ \/ Caller(w) = Nobody
     \/ /\ Caller(w).admin \/ snap[On(w)].owner = TenantID(Caller(w))
        /\ CanLaunch(Caller(w), snap[On(w)].charter)
  /\ \E c \in Citadel : New(c, TenantID(Caller(w)), snap[On(w)].charter)
  /\ Ok(w)
  /\ UNCHANGED <<setting, clock, sent, snap, cohort, pending, stores>>

HandleCreateFleet(w) ==
  /\ Serving(w, {"createCohort"})
  /\ Caller(w) = Nobody \/ CanLaunch(Caller(w), On(w))
  /\ \E c \in Citadel, k \in Cohort :
       /\ cohort[k] = Lifeless
       /\ New(c, TenantID(Caller(w)), On(w))
       /\ cohort' = [cohort EXCEPT ![k] = [owner |-> TenantID(Caller(w)), charter |-> On(w), live |-> TRUE, member |-> c]]
  /\ Ok(w)
  /\ UNCHANGED <<setting, clock, sent, snap, pending, stores>>

\* The task endpoints of a Cohort.
HandleTask(w) ==
  /\ Serving(w, {"task"})
  /\ cohort[On(w)].live
  /\ Ok(w)
  /\ UNCHANGED <<setting, clock, sent, objects, stores>>

HandleKillFleet(w) ==
  /\ Serving(w, {"killCohort"})
  /\ cohort[On(w)].live
  /\ cohort' = [cohort EXCEPT ![On(w)].live = FALSE]
  /\ citadel' = [citadel EXCEPT ![cohort[On(w)].member].live = FALSE]
  /\ Ok(w)
  /\ UNCHANGED <<setting, clock, sent, snap, pending, stores>>

\* Runs outlive their Citadel and carry its tenant.
HandleGetRun(w) ==
  /\ Serving(w, {"run"})
  /\ citadel[On(w)] # Lifeless
  /\ Caller(w) = Nobody \/ Caller(w).admin \/ citadel[On(w)].owner = TenantID(Caller(w))
  /\ Ok(w)
  /\ UNCHANGED <<setting, clock, sent, objects, stores>>

\* So do agent sessions: their record, their events and the stream of them.
HandleAgentSession(w) ==
  /\ Serving(w, {"agent"})
  /\ citadel[On(w)] # Lifeless
  /\ Caller(w) = Nobody \/ Caller(w).admin \/ citadel[On(w)].owner = TenantID(Caller(w))
  /\ Ok(w)
  /\ UNCHANGED <<setting, clock, sent, objects, stores>>

\* resolveApproval: whoever is not an administrator needs the Citadel to be
\* there, for its Charter.
ResolveApproval(w) ==
  /\ Serving(w, {"approve"})
  /\ On(w) \in pending
  /\ \/ Caller(w) = Nobody
     \/ /\ MayApprove(Caller(w))
        /\ Caller(w).admin \/ (citadel[On(w)].live /\ CanApproveProfile(Caller(w), citadel[On(w)].charter))
  /\ pending' = pending \ {On(w)}
  /\ Ok(w)
  /\ UNCHANGED <<setting, clock, sent, citadel, snap, cohort, stores>>

HandleAuditExport(w) ==
  /\ Serving(w, {"export"})
  /\ Caller(w) = Nobody \/ Caller(w).admin
  /\ Ok(w)
  /\ UNCHANGED <<setting, clock, sent, objects, stores>>

\* What the manager lists.
All(list) ==
  CASE list = "charters" -> Charters
    [] list = "citadels" -> {c \in Citadel : citadel[c].live}
    [] list = "runs" -> {c \in Citadel : citadel[c] # Lifeless}
    [] list = "snapshots" -> {n \in Snap : snap[n].live}
    [] list = "cohorts" -> {k \in Cohort : cohort[k].live}
    [] list = "approvals" -> pending

\* What the caller may see of it.  Citadels and runs are listed with their owner;
\* for the others the filter asks the manager again.
Visible(p, list, i) ==
  CASE list = "charters" -> CanLaunch(p, i)
    [] list \in {"citadels", "runs"} -> citadel[i].owner = TenantID(p)
    [] list = "snapshots" -> snap[i].owner = TenantID(p)
    [] list = "cohorts" -> cohort[i].live /\ cohort[i].owner = TenantID(p)
    [] list = "approvals" -> citadel[i].live /\ CanApproveProfile(p, citadel[i].charter)

\* Only without a principal and for administrators the list goes out as it is.
HandleList(w) ==
  /\ Serving(w, {"list"})
  /\ On(w) = "approvals" => Caller(w) = Nobody \/ MayApprove(Caller(w))
  /\ req' = [req EXCEPT ![w] =
               IF Caller(w) = Nobody \/ Caller(w).admin THEN Answer(All(On(w)))
               ELSE [pc |-> "filter", target |-> req[w].target, cred |-> req[w].cred, who |-> Caller(w),
                     at |-> req[w].at, items |-> All(On(w))]]
  /\ UNCHANGED <<setting, clock, sent, objects, stores>>

FilterList(w) ==
  /\ req[w].pc = "filter" /\ req[w].target.op = "list"
  /\ req' = [req EXCEPT ![w] = Answer({i \in req[w].items : Visible(Caller(w), On(w), i)})]
  /\ UNCHANGED <<setting, clock, sent, objects, stores>>

\* issueTicket: a fresh id; expired tickets are swept on the way.
IssueTicket(kind, path, p) ==
  \E t \in Ticket :
    LET new == [kind |-> kind, path |-> path, who |-> p, expires |-> clock + TicketTTL] IN
    /\ issued[t] = NoTicket
    /\ tickets' = [Pruned(tickets, NoTicket) EXCEPT ![t] = new]
    /\ issued' = [issued EXCEPT ![t] = new]
    /\ UNCHANGED <<sessions, uses, origin>>

\* handleCreateTicket: a ticket for a Citadel is checked here, one for a
\* download when it is used.
HandleCreateTicket(w) ==
  /\ Serving(w, {"ticket"})
  /\ \/ \E op \in {"terminal", "stream", "ide"} :
          /\ citadel[On(w)].live
          /\ Caller(w) = Nobody \/ Caller(w).admin \/ citadel[On(w)].owner = TenantID(Caller(w))
          /\ IssueTicket(KindFor(op), [op |-> op, on |-> On(w)], Caller(w))
     \/ \E path \in {[op |-> "export", on |-> "bundle"], [op |-> "read", on |-> On(w)]} :
          IssueTicket("download", path, Caller(w))
  /\ Ok(w)
  /\ UNCHANGED <<setting, clock, sent, objects>>

\* handleTerminalTicket, which leaves the look-up to the use of the ticket.
HandleTerminalTicket(w) ==
  /\ Serving(w, {"grant"})
  /\ IssueTicket("terminal", [op |-> "terminal", on |-> On(w)], Caller(w))
  /\ Ok(w)
  /\ UNCHANGED <<setting, clock, sent, objects>>

HandleIDETicket(w) ==
  /\ Serving(w, {"ideGrant"})
  /\ citadel[On(w)].live
  /\ IssueTicket("ide", [op |-> "ide", on |-> On(w)], Caller(w))
  /\ Ok(w)
  /\ UNCHANGED <<setting, clock, sent, objects>>

\* Time matters from the first ticket on.
Tick ==
  /\ clock < MaxClock /\ \E t \in Ticket : issued[t] # NoTicket
  /\ clock' = clock + 1
  /\ UNCHANGED <<setting, sent, req, objects, stores>>

Handle(w) ==
  \/ Fail(w) \/ HandleCreateSandbox(w) \/ HandleTool(w) \/ HandleRead(w) \/ HandleTerminal(w)
  \/ HandleConversationStream(w) \/ HandleIDE(w) \/ HandleKillSandbox(w) \/ HandleSnapshot(w)
  \/ HandleRestoreSnapshot(w) \/ HandleCreateFleet(w) \/ HandleTask(w) \/ HandleKillFleet(w)
  \/ HandleGetRun(w) \/ HandleAgentSession(w) \/ ResolveApproval(w) \/ HandleAuditExport(w) \/ HandleCreateTicket(w)
  \/ HandleTerminalTicket(w) \/ HandleIDETicket(w) \/ HandleList(w) \/ FilterList(w)

Next == Tick \/ \E w \in Worker : Authenticate(w) \/ Handle(w)

Spec == Init /\ [][Next]_vars

-----------------------------------------------------------------------------
(* Properties *)

\* Whom a credential was given to: the owner of the token, which a server on
\* standard input was started with, or of the token that asked for the ticket,
\* or for the ticket that the cookie came from.
Holder(c) ==
  CASE c.by \in {"token", "stdio"} -> c.id
    [] c.by = "ticket" -> issued[c.id].who
    [] c.by = "cookie" -> issued[origin[c.id]].who

\* The rights of a principal who is no administrator.
Entitled(p, x) ==
  CASE x.op \in CitadelOps \cup {"run", "agent"} -> citadel[x.on].owner = p.tenant
    [] x.op \in CohortOps -> cohort[x.on].owner = p.tenant
    [] x.op \in {"create", "createCohort"} -> x.on \in p.profiles
    [] x.op = "restore" -> snap[x.on].owner = p.tenant /\ snap[x.on].charter \in p.profiles
    [] x.op = "approve" -> p.approve /\ (p.reviews = {} \/ citadel[x.on].charter \in p.reviews)
    [] x.op \in {"ticket", "list"} -> TRUE
    [] OTHER -> FALSE

\* The objects that such a principal may learn of.
MaySee(p, list, i) ==
  CASE list = "charters" -> i \in p.profiles
    [] list \in {"citadels", "runs"} -> citadel[i].owner = p.tenant
    [] list = "snapshots" -> snap[i].owner = p.tenant
    [] list = "cohorts" -> cohort[i].owner = p.tenant
    [] list = "approvals" -> p.approve /\ (p.reviews = {} \/ citadel[i].charter \in p.reviews)

\* What the holder of the credential of worker w does by x, and what the answer
\* shows, is within the rights of that principal.
WithinRights(w, x, shows) ==
  LET holder == Holder(req[w].cred) IN
  /\ mode # "open" => req[w].cred.by # "nothing"
  /\ mode = "rbac" => holder.admin \/ (Entitled(holder, x) /\ \A i \in shows : MaySee(holder, x.on, i))

\* A ticket is accepted once, in its time, for what it was issued for and for
\* whom, also when two requests bring it together or its time runs out between.
TicketsAreOneShot ==
  /\ \A t \in Ticket : uses[t] <= 1
  /\ \A w \in Worker :
       req[w].pc = "handle" /\ mode # "open" /\ req[w].cred.by = "ticket" =>
         LET i == issued[req[w].cred.id] IN
         /\ req[w].at <= i.expires
         /\ req[w].who = i.who
         /\ i.path = req[w].target

\* A cookie opens the IDE of the Citadel that its ticket was for and of no
\* other, and however it is used, no later than ideSessionTTL after the ticket
\* ran out.
IDEAccessEnds ==
  \A w \in Worker :
    req[w].pc = "handle" /\ mode # "open" /\ req[w].cred.by = "cookie" =>
      LET i == issued[origin[req[w].cred.id]] IN
      /\ req[w].target = i.path
      /\ req[w].who = i.who
      /\ req[w].at < i.expires + SessionTTL
=============================================================================
