-------------------------------- MODULE Govern --------------------------------
(***************************************************************************)
(* The governed path of one Citadel: Manager.governOut with the approval   *)
(* store, the Guard and the usage tracker, run by any number of concurrent *)
(* tool calls, against operators who decide approvals, agents who report   *)
(* usage, KillSandbox and the end of the process.                          *)
(*                                                                         *)
(* A step is what one lock, channel or backend call makes atomic.  An      *)
(* approval's identifier is random, so it is named by its call.            *)
(***************************************************************************)
EXTENDS Integers, FiniteSets

CONSTANTS
  Call,        \* tool calls made on the Citadel
  Key,         \* loop keys, tool|arg
  KeyOf,       \* KeyOf[c]: the loop key of call c
  EgressCall,  \* calls whose tool is an egress tool
  Verdicts,    \* verdicts the Charter's engine may give
  Operator,    \* operators; each decides at most one approval
  Reporter,    \* usage reports, each of one token
  Faults,      \* subset of {"audit", "crash", "kill"}
  MaxExecs,    \* rationing limits; 0 disables one
  EgressRequests,
  LoopThreshold,
  MaxTokens

ASSUME GovernAssumption ==
  /\ KeyOf \in [Call -> Key]
  /\ EgressCall \subseteq Call
  /\ Verdicts \subseteq {"allow", "deny", "require-approval"}
  /\ Faults \subseteq {"audit", "crash", "kill"}
  /\ MaxExecs \in Nat
  /\ EgressRequests \in Nat
  /\ LoopThreshold \in Nat
  /\ MaxTokens \in Nat

VARIABLES
  verdict,   \* verdict[c]: what Evaluate returns for call c
  pc,        \* pc[c]: where call c is in governOut
  answer,    \* answer[c]: what its caller was told
  inbox,     \* ApprovalStore.m: the calls whose approval is pending
  decided,   \* decided[c]: what was sent on the approval's channel
  op,        \* op[o]: an operator in ResolveApproval
  guard,     \* the session's Guard
  late,      \* the wall-clock deadline has passed
  usage,     \* tokens the tracker holds for the Citadel
  report,    \* report[r]: where a usage report is
  life,      \* how far KillSandbox has come
  ledger,    \* events in the Chronicle
  admitted,  \* calls CheckExec has let through
  sent,      \* egress calls CheckEgress has let through
  executed,  \* calls whose run function was invoked
  overdrawn, \* calls that arrived when the token budget was used up
  up         \* the process is running

approvals == <<inbox, decided, op>>
session == <<late, usage, report, life, up>>
history == <<admitted, sent, executed, overdrawn>>
vars == <<verdict, pc, answer, inbox, decided, op, guard, late, usage, report, life,
          ledger, admitted, sent, executed, overdrawn, up>>

-----------------------------------------------------------------------------

Decision == {"approved", "denied"}

\* Where a call can be in governOut.
Label ==
  {"arriving", "evaluate", "request", "wait", "forget", "check exec", "check budget",
   "check egress", "run", "running", "ran", "errored", "refused", "done"}

\* What the caller of a tool is told; none while it waits.
Answer == {"none", "not found", "deny", "pending", "allow", "error"}

\* An event of the Chronicle about a call.
Event == ({"request", "deny", "allow", "error"} \cup Decision) \X Call

Guard == [execs: Nat, egress: Nat, tripped: BOOLEAN, failures: [Key -> Nat]]

\* An operator in ResolveApproval: refused is the answer false, resolved true.
Resolver ==
  [pc: {"idle", "send", "audit", "resolved", "refused"}, call: Call \cup {"none"},
   decision: Decision]

\* An operator who has not called ResolveApproval yet.
Idle == [pc |-> "idle", call |-> "none", decision |-> "denied"]

NewGuard ==
  [execs |-> 0, egress |-> 0, tripped |-> FALSE, failures |-> [k \in Key |-> 0]]

Init ==
  /\ verdict \in [Call -> Verdicts]
  /\ pc = [c \in Call |-> "arriving"]
  /\ answer = [c \in Call |-> "none"]
  /\ inbox = {}
  /\ decided = [c \in Call |-> "none"]
  /\ op = [o \in Operator |-> Idle]
  /\ guard = NewGuard
  /\ late = FALSE
  /\ usage = 0
  /\ report = [r \in Reporter |-> "idle"]
  /\ life = "live"
  /\ ledger = {}
  /\ admitted = {}
  /\ sent = {}
  /\ executed = {}
  /\ overdrawn = {}
  /\ up = TRUE

\* appendAudit: a failed append is only logged.
AppendAudit(kind, c) ==
  \/ ledger' = ledger \cup {<<kind, c>>}
  \/ "audit" \in Faults /\ ledger' = ledger

\* record, and the return of governOut with answer a.
Answered(c, kind, a) ==
  /\ AppendAudit(kind, c)
  /\ answer' = [answer EXCEPT ![c] = a]
  /\ pc' = [pc EXCEPT ![c] = "done"]

Goto(c, label) ==
  /\ pc' = [pc EXCEPT ![c] = label]
  /\ UNCHANGED <<verdict, answer>>

At(c, label) == up /\ pc[c] = label

\* Tracker.Over.
Over == MaxTokens > 0 /\ usage >= MaxTokens

-----------------------------------------------------------------------------
(* A tool call *)

\* Manager.session: the call finds its session, or there is none.
Lookup(c) ==
  /\ At(c, "arriving")
  /\ \/ life = "live" /\ Goto(c, "evaluate")
     \/ /\ life # "live"
        /\ pc' = [pc EXCEPT ![c] = "done"]
        /\ answer' = [answer EXCEPT ![c] = "not found"]
        /\ UNCHANGED verdict
  /\ overdrawn' = IF Over THEN overdrawn \cup {c} ELSE overdrawn
  /\ UNCHANGED <<approvals, guard, session, ledger, admitted, sent, executed>>

\* The verdict of the engine; ApprovalStore.Create for require-approval.
Evaluate(c) ==
  /\ At(c, "evaluate")
  /\ \/ verdict[c] = "deny" /\ Goto(c, "refused") /\ UNCHANGED inbox
     \/ verdict[c] = "allow" /\ Goto(c, "check exec") /\ UNCHANGED inbox
     \/ /\ verdict[c] = "require-approval"
        /\ Goto(c, "request")
        /\ inbox' = inbox \cup {c}
  /\ UNCHANGED <<decided, op, guard, session, ledger, history>>

\* The request is recorded, after it can already be seen in the inbox.
RecordRequest(c) ==
  /\ At(c, "request")
  /\ AppendAudit("request", c)
  /\ Goto(c, "wait")
  /\ UNCHANGED <<approvals, guard, session, history>>

\* Mutant of Decided: the value received is not looked at.
DecidedAnyhow(c) ==
  /\ At(c, "wait")
  /\ decided[c] # "none"
  /\ Goto(c, "check exec")
  /\ UNCHANGED <<approvals, guard, session, ledger, history>>

\* The select receives the decision.
Decided(c) ==
  /\ At(c, "wait")
  /\ \/ decided[c] = "approved" /\ Goto(c, "check exec")
     \/ decided[c] = "denied" /\ Goto(c, "refused")
  /\ UNCHANGED <<approvals, guard, session, ledger, history>>

\* Mutant of WaitDone: the wait has no deadline.
WaitDoneNever(c) == FALSE

\* The select takes wait.Done(): five minutes are over, or the client is gone.
WaitDone(c) ==
  /\ At(c, "wait")
  /\ Goto(c, "forget")
  /\ UNCHANGED <<approvals, guard, session, ledger, history>>

\* forget, and the answer 202 with the approval's identifier.
Forget(c) ==
  /\ At(c, "forget")
  /\ inbox' = inbox \ {c}
  /\ pc' = [pc EXCEPT ![c] = "done"]
  /\ answer' = [answer EXCEPT ![c] = "pending"]
  /\ UNCHANGED <<verdict, decided, op, guard, session, ledger, history>>

\* Mutant of Permitted: the exec that reaches the limit is not counted.
PermittedOffByOne ==
  /\ ~late
  /\ ~guard.tripped
  /\ MaxExecs = 0 \/ guard.execs <= MaxExecs

\* The conditions of CheckExec, in its order.
Permitted ==
  /\ ~late
  /\ ~guard.tripped
  /\ MaxExecs = 0 \/ guard.execs < MaxExecs

\* Guard.CheckExec.
CheckExec(c) ==
  /\ At(c, "check exec")
  /\ \/ /\ Permitted
        /\ guard' = [guard EXCEPT !.execs = @ + 1]
        /\ admitted' = admitted \cup {c}
        /\ Goto(c, "check budget")
     \/ /\ ~Permitted
        /\ Goto(c, "refused")
        /\ UNCHANGED <<guard, admitted>>
  /\ UNCHANGED <<approvals, session, ledger, sent, executed, overdrawn>>

\* Mutant of CheckBudget: only egress tools are held to the budget.
CheckBudgetEgress(c) ==
  /\ At(c, "check budget")
  /\ Goto(c, IF c \notin EgressCall THEN "run" ELSE IF Over THEN "refused" ELSE "check egress")
  /\ UNCHANGED <<approvals, guard, session, ledger, history>>

\* The token budget.
CheckBudget(c) ==
  /\ At(c, "check budget")
  /\ Goto(c, IF Over THEN "refused" ELSE IF c \in EgressCall THEN "check egress" ELSE "run")
  /\ UNCHANGED <<approvals, guard, session, ledger, history>>

\* Guard.CheckEgress.
CheckEgress(c) ==
  /\ At(c, "check egress")
  /\ \/ /\ EgressRequests = 0 \/ guard.egress < EgressRequests
        /\ guard' = [guard EXCEPT !.egress = @ + 1]
        /\ sent' = sent \cup {c}
        /\ Goto(c, "run")
     \/ /\ EgressRequests > 0 /\ guard.egress >= EgressRequests
        /\ Goto(c, "refused")
        /\ UNCHANGED <<guard, sent>>
  /\ UNCHANGED <<approvals, session, ledger, admitted, executed, overdrawn>>

\* run(ctx): the command starts, unless the backend no longer has the Citadel.
Run(c) ==
  /\ At(c, "run")
  /\ Goto(c, "running")
  /\ executed' = IF life = "killed" THEN executed ELSE executed \cup {c}
  /\ UNCHANGED <<approvals, guard, session, ledger, admitted, sent, overdrawn>>

\* Guard.RecordOutcome.  Any number of older failures may have left the window.
RecordOutcome(c, failed) ==
  LET k == KeyOf[c] IN
  \/ ~failed /\ guard' = [guard EXCEPT !.failures[k] = 0]
  \/ failed /\ LoopThreshold = 0 /\ guard' = guard
  \/ /\ failed /\ LoopThreshold > 0
     /\ \E n \in 1..(guard.failures[k] + 1) :
          guard' = [guard EXCEPT !.failures[k] = n, !.tripped = @ \/ n >= LoopThreshold]

\* run returns: exit code zero, another exit code, or an error.
Finish(c) ==
  /\ At(c, "running")
  /\ \/ c \in executed /\ RecordOutcome(c, FALSE) /\ Goto(c, "ran")
     \/ c \in executed /\ RecordOutcome(c, TRUE) /\ Goto(c, "ran")
     \/ RecordOutcome(c, TRUE) /\ Goto(c, "errored")
  /\ UNCHANGED <<approvals, session, ledger, history>>

\* The last record of governOut on each of its paths.
Record(c) ==
  /\ \/ At(c, "refused") /\ Answered(c, "deny", "deny")
     \/ At(c, "ran") /\ Answered(c, "allow", "allow")
     \/ At(c, "errored") /\ Answered(c, "error", "error")
  /\ UNCHANGED <<verdict, approvals, guard, session, history>>

-----------------------------------------------------------------------------
(* Operators *)

\* ResolveView: the approval is taken out of the inbox under its lock.  An
\* operator may also hold an identifier that is no longer pending.
Resolve(o, c, d) ==
  /\ up
  /\ op[o].pc = "idle"
  /\ \/ /\ c \in inbox
        /\ inbox' = inbox \ {c}
        /\ op' = [op EXCEPT ![o] = [pc |-> "send", call |-> c, decision |-> d]]
     \/ /\ c \notin inbox
        /\ pc[c] = "done" /\ verdict[c] = "require-approval"
        /\ op' = [op EXCEPT ![o] = [pc |-> "refused", call |-> c, decision |-> d]]
        /\ UNCHANGED inbox
  /\ UNCHANGED <<verdict, pc, answer, decided, guard, session, ledger, history>>

\* ResolveView: the decision goes into the approval's channel, which holds one.
Send(o) ==
  /\ up
  /\ op[o].pc = "send"
  /\ decided[op[o].call] = "none"
  /\ decided' = [decided EXCEPT ![op[o].call] = op[o].decision]
  /\ op' = [op EXCEPT ![o].pc = "audit"]
  /\ UNCHANGED <<verdict, pc, answer, inbox, guard, session, ledger, history>>

\* ResolveApproval: the decision is recorded, and the operator told it is done.
Audit(o) ==
  /\ up
  /\ op[o].pc = "audit"
  /\ AppendAudit(op[o].decision, op[o].call)
  /\ op' = [op EXCEPT ![o].pc = "resolved"]
  /\ UNCHANGED <<verdict, pc, answer, inbox, decided, guard, session, history>>

-----------------------------------------------------------------------------
(* Usage reports, the clock, KillSandbox and the end of the process *)

\* RecordUsageContext: the session is looked up ...
ReportLookup(r) ==
  /\ up
  /\ report[r] = "idle"
  /\ report' = [report EXCEPT ![r] = IF life = "live" THEN "found" ELSE "done"]
  /\ UNCHANGED <<verdict, pc, answer, approvals, guard, late, usage, life, up, ledger, history>>

\* ... and the tracker adds the tokens, whether or not the session still exists.
ReportRecord(r) ==
  /\ up
  /\ report[r] = "found"
  /\ report' = [report EXCEPT ![r] = "done"]
  /\ usage' = usage + 1
  /\ UNCHANGED <<verdict, pc, answer, approvals, guard, late, life, up, ledger, history>>

\* The wall-clock limit of the session is reached.
Deadline ==
  /\ up
  /\ ~late
  /\ late' = TRUE
  /\ UNCHANGED <<verdict, pc, answer, approvals, guard, usage, report, life, up, ledger, history>>

\* KillSandbox: the session is deleted, its usage forgotten, and only then the
\* backend destroys the Citadel.  What else it does touches none of this state.
KillStep(from, to) ==
  /\ up
  /\ life = from
  /\ life' = to
  /\ UNCHANGED <<verdict, pc, answer, approvals, guard, late, report, up, ledger, history>>

DeleteSession == "kill" \in Faults /\ KillStep("live", "deleted") /\ UNCHANGED usage
ForgetUsage == KillStep("deleted", "forgotten") /\ usage' = 0
BackendKill == KillStep("forgotten", "killed") /\ UNCHANGED usage

\* The process ends; only the Chronicle is left of this state.
Crash ==
  /\ "crash" \in Faults
  /\ up
  /\ up' = FALSE
  /\ UNCHANGED <<verdict, pc, answer, approvals, guard, late, usage, report, life, ledger, history>>

CallStep(c) ==
  \/ Evaluate(c) \/ RecordRequest(c) \/ Decided(c) \/ WaitDone(c) \/ Forget(c)
  \/ CheckExec(c) \/ CheckBudget(c) \/ CheckEgress(c) \/ Run(c) \/ Finish(c) \/ Record(c)

Next ==
  \/ \E c \in Call : Lookup(c) \/ CallStep(c)
  \/ \E o \in Operator, c \in Call, d \in Decision : Resolve(o, c, d)
  \/ \E o \in Operator : Send(o) \/ Audit(o)
  \/ \E r \in Reporter : ReportLookup(r) \/ ReportRecord(r)
  \/ Deadline \/ DeleteSession \/ ForgetUsage \/ BackendKill \/ Crash

Spec == Init /\ [][Next]_vars

\* Goroutines that can run do run, the five-minute timer of a waiting call fires,
\* and a command that was started ends.
FairSpec ==
  /\ Spec
  /\ \A c \in Call : WF_vars(CallStep(c))
  /\ \A o \in Operator : WF_vars(Send(o) \/ Audit(o))

-----------------------------------------------------------------------------
(* Properties *)

\* Type invariant of calls, approvals, guard and session.
TypeOK ==
  /\ verdict \in [Call -> Verdicts]
  /\ pc \in [Call -> Label]
  /\ answer \in [Call -> Answer]
  /\ inbox \subseteq Call
  /\ decided \in [Call -> Decision \cup {"none"}]
  /\ op \in [Operator -> Resolver]
  /\ \A o \in Operator : op[o].pc # "idle" => op[o].call \in Call
  /\ guard \in Guard
  /\ late \in BOOLEAN
  /\ usage \in Nat
  /\ report \in [Reporter -> {"idle", "found", "done"}]
  /\ life \in {"live", "deleted", "forgotten", "killed"}
  /\ ledger \subseteq Event
  /\ admitted \subseteq Call /\ sent \subseteq Call
  /\ executed \subseteq Call /\ overdrawn \subseteq Call
  /\ up \in BOOLEAN

\* govern: "run is only invoked once the action is authorized and within
\* guardrails".  A command runs only if the Charter allows it, or an operator
\* approved this very call, and CheckExec (and CheckEgress) let it through.
ExecutedWasAuthorized ==
  \A c \in executed :
    /\ \/ verdict[c] = "allow"
       \/ verdict[c] = "require-approval" /\ decided[c] = "approved"
    /\ c \in admitted
    /\ c \in EgressCall => c \in sent

\* No interleaving of concurrent calls runs more commands, or more egress
\* commands, than the Charter's rationing allows (CheckExec, CheckEgress).
WithinRationing ==
  /\ MaxExecs > 0 => Cardinality(executed) <= MaxExecs
  /\ EgressRequests > 0 => Cardinality(executed \cap EgressCall) <= EgressRequests

\* forget: "a timed-out waiter doesn't leave an orphaned entry in the inbox":
\* behind every entry there is a call that has not been answered.
NoOrphanApprovals ==
  up => \A c \in inbox : pc[c] \in {"request", "wait", "forget"}

\* However many operators race for one approval, one of them gets it: no two are
\* told that theirs was the decision, and none blocks on the channel.
OneDecision ==
  /\ \A o1, o2 \in Operator :
       /\ op[o1].pc \in {"send", "audit", "resolved"}
       /\ op[o2].pc \in {"send", "audit", "resolved"}
       /\ op[o1].call = op[o2].call
       => o1 = o2
  /\ \A o \in Operator : op[o].pc = "send" => decided[op[o].call] = "none"

\* The inbox holds calls that wait; an approval in it, or not yet in it, has no
\* decision and no operator.
InboxInv ==
  /\ \A c \in inbox : pc[c] \in {"request", "wait", "forget"}
  /\ \A c \in Call : c \in inbox \/ pc[c] \in {"arriving", "evaluate"} =>
       /\ decided[c] = "none"
       /\ \A o \in Operator : op[o].pc \in {"send", "audit", "resolved"} => op[o].call # c

\* What a call has behind it at each label of governOut.
PathInv ==
  \A c \in Call :
    /\ pc[c] \in {"request", "wait", "forget"} => verdict[c] = "require-approval"
    /\ pc[c] \in {"check exec", "check budget", "check egress", "run", "running"} =>
         \/ verdict[c] = "allow"
         \/ verdict[c] = "require-approval" /\ decided[c] = "approved"
    /\ pc[c] \in {"check budget", "check egress", "run", "running"} => c \in admitted
    /\ pc[c] \in {"run", "running"} /\ c \in EgressCall => c \in sent

\* The inductive invariant behind ExecutedWasAuthorized: a decision is made once,
\* by the operator who took the approval out of the inbox, and stays.
AuthInv == InboxInv /\ OneDecision /\ PathInv /\ ExecutedWasAuthorized

\* While appends succeed, no caller is answered before the Chronicle holds the
\* event of that answer, and a waiting caller's request is there too.
AnswersAreRecorded ==
  \A c \in Call :
    /\ answer[c] \in {"deny", "allow", "error"} => <<answer[c], c>> \in ledger
    /\ answer[c] = "pending" => <<"request", c>> \in ledger

\* A call that arrives when the token budget is used up runs nothing while its
\* session exists (CheckBudget, RecordUsage).
BudgetHoldsWhileLive == \A c \in executed \cap overdrawn : life # "live"

\* Every call that found its session is answered, whatever the operators do.
CallAnswered == \A c \in Call : pc[c] = "evaluate" ~> pc[c] = "done"

\* A command that ran because an operator approved it ends up attributed: the
\* Chronicle gets the decision (ResolveApproval).
ApprovalAttributed ==
  \A c \in Call :
    (c \in executed /\ verdict[c] = "require-approval") ~> (<<"approved", c>> \in ledger)
=============================================================================
