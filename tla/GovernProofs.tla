----------------------------- MODULE GovernProofs -----------------------------
(***************************************************************************)
(* Proofs about Govern, for every set of calls, operators and reports and  *)
(* for every limit.                                                        *)
(***************************************************************************)
EXTENDS Govern, FiniteSetTheorems, TLAPS

\* Moving a call to another label keeps the types of the call variables.
LEMMA GotoType ==
  ASSUME TypeOK, NEW c \in Call, NEW l \in Label, Goto(c, l)
  PROVE  /\ pc' \in [Call -> Label]
         /\ answer' \in [Call -> Answer]
         /\ verdict' \in [Call -> Verdicts]
BY DEF Goto, TypeOK

\* Answering a call keeps the types of the call variables.
LEMMA AnswerType ==
  ASSUME TypeOK, NEW c \in Call, NEW a \in Answer,
         pc' = [pc EXCEPT ![c] = "done"], answer' = [answer EXCEPT ![c] = a]
  PROVE  pc' \in [Call -> Label] /\ answer' \in [Call -> Answer]
<1>1. "done" \in Label
  BY DEF Label
<1> QED
  BY <1>1 DEF TypeOK

\* An append keeps the Chronicle a set of events.
LEMMA AuditType ==
  ASSUME TypeOK, NEW k, NEW c, <<k, c>> \in Event, AppendAudit(k, c)
  PROVE  ledger' \subseteq Event
BY DEF AppendAudit, TypeOK

\* Every step keeps the types.
LEMMA GovernTypeStep ==
  ASSUME TypeOK, [Next]_vars
  PROVE  TypeOK'
<1> USE DEF approvals, session, history
<1>0. /\ {"evaluate", "request", "wait", "forget", "check exec", "check budget", "check egress",
          "run", "running", "ran", "errored", "refused", "done"} \subseteq Label
      /\ {"not found", "deny", "pending", "allow", "error"} \subseteq Answer
      /\ \A c \in Call : \A k \in {"request", "deny", "allow", "error"} \cup Decision : <<k, c>> \in Event
  BY DEF Label, Answer, Event
<1>1. ASSUME NEW c \in Call, Lookup(c) PROVE TypeOK'
  <2>1. pc' \in [Call -> Label] /\ answer' \in [Call -> Answer] /\ verdict' \in [Call -> Verdicts]
    <3>1. CASE Goto(c, "evaluate")
      BY <1>0, <3>1, GotoType
    <3>2. CASE /\ pc' = [pc EXCEPT ![c] = "done"]
               /\ answer' = [answer EXCEPT ![c] = "not found"]
               /\ UNCHANGED verdict
      BY <1>0, <3>2, AnswerType, ZenonT(60) DEF TypeOK
    <3> QED
      BY <1>1, <3>1, <3>2 DEF Lookup
  <2> QED
    BY <1>1, <2>1, ZenonT(60) DEF Lookup, TypeOK
<1>2. ASSUME NEW c \in Call, Evaluate(c) PROVE TypeOK'
  BY <1>0, <1>2, GotoType, ZenonT(60) DEF Evaluate, At, TypeOK
<1>3. ASSUME NEW c \in Call, RecordRequest(c) PROVE TypeOK'
  <2>1. Goto(c, "wait") /\ AppendAudit("request", c)
    BY <1>3 DEF RecordRequest
  <2>2. pc' \in [Call -> Label] /\ answer' \in [Call -> Answer] /\ verdict' \in [Call -> Verdicts]
    BY <1>0, <2>1, GotoType
  <2>3. ledger' \subseteq Event
    BY <1>0, <2>1, AuditType, ZenonT(60)
  <2> QED
    BY <1>3, <2>2, <2>3 DEF RecordRequest, TypeOK
<1>4. ASSUME NEW c \in Call, Decided(c) PROVE TypeOK'
  BY <1>0, <1>4, GotoType, ZenonT(60) DEF Decided, At, TypeOK
<1>5. ASSUME NEW c \in Call, WaitDone(c) PROVE TypeOK'
  BY <1>0, <1>5, GotoType, ZenonT(60) DEF WaitDone, At, TypeOK
<1>6. ASSUME NEW c \in Call, Forget(c) PROVE TypeOK'
  <2>1. pc' \in [Call -> Label] /\ answer' \in [Call -> Answer]
    BY <1>0, <1>6, AnswerType, ZenonT(60) DEF Forget
  <2> QED
    BY <1>6, <2>1 DEF Forget, TypeOK
<1>7. ASSUME NEW c \in Call, CheckExec(c) PROVE TypeOK'
  <2>1. pc' \in [Call -> Label] /\ answer' \in [Call -> Answer] /\ verdict' \in [Call -> Verdicts]
    BY <1>0, <1>7, GotoType DEF CheckExec
  <2>2. guard' \in Guard
    <3>1. guard \in Guard /\ guard.execs + 1 \in Nat
      BY DEF TypeOK, Guard
    <3>2. [guard EXCEPT !.execs = @ + 1] \in Guard
      BY <3>1 DEF Guard
    <3> QED
      BY <1>7, <3>1, <3>2, ZenonT(60) DEF CheckExec
  <2> QED
    BY <1>7, <2>1, <2>2 DEF CheckExec, TypeOK
<1>8. ASSUME NEW c \in Call, CheckBudget(c) PROVE TypeOK'
  BY <1>0, <1>8, GotoType, ZenonT(60) DEF CheckBudget, At, TypeOK
<1>9. ASSUME NEW c \in Call, CheckEgress(c) PROVE TypeOK'
  <2>1. pc' \in [Call -> Label] /\ answer' \in [Call -> Answer] /\ verdict' \in [Call -> Verdicts]
    BY <1>0, <1>9, GotoType DEF CheckEgress
  <2>2. guard' \in Guard
    <3>1. guard \in Guard /\ guard.egress + 1 \in Nat
      BY DEF TypeOK, Guard
    <3>2. [guard EXCEPT !.egress = @ + 1] \in Guard
      BY <3>1 DEF Guard
    <3> QED
      BY <1>9, <3>1, <3>2, ZenonT(60) DEF CheckEgress
  <2> QED
    BY <1>9, <2>1, <2>2, ZenonT(60) DEF CheckEgress, TypeOK
<1>10. ASSUME NEW c \in Call, Run(c) PROVE TypeOK'
  BY <1>0, <1>10, GotoType, ZenonT(60) DEF Run, At, TypeOK
<1>11. ASSUME NEW c \in Call, Finish(c) PROVE TypeOK'
  <2>1. pc' \in [Call -> Label] /\ answer' \in [Call -> Answer] /\ verdict' \in [Call -> Verdicts]
    BY <1>0, <1>11, GotoType, ZenonT(60) DEF Finish
  <2>2. guard' \in Guard
    <3>1. KeyOf[c] \in Key
      BY GovernAssumption
    <3>2. PICK failed \in BOOLEAN : RecordOutcome(c, failed)
      BY <1>11, Zenon DEF Finish
    <3>3. guard.failures \in [Key -> Nat] /\ guard \in Guard
      BY DEF TypeOK, Guard
    <3>4. ASSUME NEW n \in Nat
          PROVE  [guard EXCEPT !.failures[KeyOf[c]] = n] \in Guard
      BY <3>1, <3>3 DEF Guard
    <3>5. ASSUME NEW n \in Nat, NEW b \in BOOLEAN
          PROVE  [guard EXCEPT !.failures[KeyOf[c]] = n, !.tripped = b] \in Guard
      BY <3>1, <3>3, Zenon DEF Guard
    <3>6. CASE ~failed /\ guard' = [guard EXCEPT !.failures[KeyOf[c]] = 0]
      BY <3>4, <3>6
    <3>7. CASE failed /\ LoopThreshold > 0
      <4>1. PICK n \in 1..(guard.failures[KeyOf[c]] + 1) :
              guard' = [guard EXCEPT !.failures[KeyOf[c]] = n,
                                     !.tripped = @ \/ n >= LoopThreshold]
        <5>1. LoopThreshold # 0
          BY <3>7, GovernAssumption
        <5> QED
          BY <3>2, <3>7, <5>1, Zenon DEF RecordOutcome
      <4>2. n \in Nat
        BY <3>1, <3>3
      <4> QED
        BY <3>5, <4>1, <4>2, Zenon
    <3> QED
      BY <3>2, <3>3, <3>6, <3>7, GovernAssumption, ZenonT(60) DEF RecordOutcome
  <2> QED
    BY <1>11, <2>1, <2>2 DEF Finish, TypeOK
<1>12. ASSUME NEW c \in Call, Record(c) PROVE TypeOK'
  <2>1. PICK k \in {"deny", "allow", "error"} : Answered(c, k, k)
    BY <1>12 DEF Record
  <2>2. pc' \in [Call -> Label] /\ answer' \in [Call -> Answer]
    BY <1>0, <2>1, AnswerType DEF Answered
  <2>3. ledger' \subseteq Event
    BY <1>0, <2>1, AuditType, ZenonT(60) DEF Answered
  <2> QED
    BY <1>12, <2>2, <2>3 DEF Record, TypeOK
<1>13. ASSUME NEW o \in Operator, NEW c \in Call, NEW d \in Decision, Resolve(o, c, d) PROVE TypeOK'
  <2>1. op' \in [Operator -> Resolver]
    BY <1>13 DEF Resolve, TypeOK, Resolver
  <2>2. \A q \in Operator : op'[q].pc # "idle" => op'[q].call \in Call
    BY <1>13 DEF Resolve, TypeOK
  <2> QED
    BY <1>13, <2>1, <2>2, SMTT(60) DEF Resolve, TypeOK
<1>14. ASSUME NEW o \in Operator, Send(o) PROVE TypeOK'
  <2>1. op[o] \in Resolver /\ op[o].decision \in Decision /\ op[o].call \in Call
    BY <1>14 DEF Send, TypeOK, Resolver
  <2>2. /\ [op[o] EXCEPT !.pc = "audit"] \in Resolver
        /\ [op[o] EXCEPT !.pc = "audit"].call = op[o].call
    BY <2>1 DEF Resolver
  <2>3. op' = [op EXCEPT ![o] = [op[o] EXCEPT !.pc = "audit"]]
    BY <1>14 DEF Send
  <2>4. op' \in [Operator -> Resolver]
    BY <2>2, <2>3 DEF TypeOK
  <2>5. \A q \in Operator : op'[q].pc # "idle" => op'[q].call \in Call
    BY <2>1, <2>2, <2>3 DEF TypeOK
  <2>6. decided' \in [Call -> Decision \cup {"none"}]
    BY <1>14, <2>1 DEF Send, TypeOK
  <2> QED
    BY <1>14, <2>4, <2>5, <2>6 DEF Send, TypeOK
<1>15. ASSUME NEW o \in Operator, Audit(o) PROVE TypeOK'
  <2>1. op[o] \in Resolver /\ op[o].decision \in Decision /\ op[o].call \in Call
    BY <1>15 DEF Audit, TypeOK, Resolver
  <2>2. /\ [op[o] EXCEPT !.pc = "resolved"] \in Resolver
        /\ [op[o] EXCEPT !.pc = "resolved"].call = op[o].call
    BY <2>1 DEF Resolver
  <2>3. op' = [op EXCEPT ![o] = [op[o] EXCEPT !.pc = "resolved"]]
    BY <1>15 DEF Audit
  <2>4. op' \in [Operator -> Resolver]
    BY <2>2, <2>3 DEF TypeOK
  <2>5. \A q \in Operator : op'[q].pc # "idle" => op'[q].call \in Call
    BY <2>1, <2>2, <2>3 DEF TypeOK
  <2>6. ledger' \subseteq Event
    <3>1. <<op[o].decision, op[o].call>> \in Event
      BY <1>0, <2>1, ZenonT(60)
    <3> QED
      BY <1>15, <3>1, AuditType DEF Audit
  <2> QED
    BY <1>15, <2>4, <2>5, <2>6 DEF Audit, TypeOK
<1>16. ASSUME NEW r \in Reporter, ReportLookup(r) PROVE TypeOK'
  BY <1>16 DEF ReportLookup, TypeOK
<1>17. ASSUME NEW r \in Reporter, ReportRecord(r) PROVE TypeOK'
  BY <1>17 DEF ReportRecord, TypeOK
<1>18. ASSUME Deadline PROVE TypeOK'
  BY <1>18 DEF Deadline, TypeOK
<1>19. ASSUME DeleteSession PROVE TypeOK'
  BY <1>19 DEF DeleteSession, KillStep, TypeOK
<1>20. ASSUME ForgetUsage PROVE TypeOK'
  BY <1>20 DEF ForgetUsage, KillStep, TypeOK
<1>21. ASSUME BackendKill PROVE TypeOK'
  BY <1>21 DEF BackendKill, KillStep, TypeOK
<1>22. ASSUME Crash PROVE TypeOK'
  BY <1>22, Zenon DEF Crash, TypeOK
<1>23. CASE UNCHANGED vars
  BY <1>23 DEF vars, TypeOK
<1> QED
  BY <1>1, <1>2, <1>3, <1>4, <1>5, <1>6, <1>7, <1>8, <1>9, <1>10, <1>11, <1>12, <1>13,
     <1>14, <1>15, <1>16, <1>17, <1>18, <1>19, <1>20, <1>21, <1>22, <1>23, SMTT(60) DEF
     Next, CallStep

\* The initial states have the types.
LEMMA GovernTypeInit == Init => TypeOK
<1> SUFFICES ASSUME Init PROVE TypeOK
  OBVIOUS
<1>1. pc \in [Call -> Label] /\ answer \in [Call -> Answer]
  BY DEF Init, Label, Answer
<1>2. op \in [Operator -> Resolver]
  BY DEF Init, Idle, Resolver, Decision
<1>3. guard \in Guard
  BY DEF Init, NewGuard, Guard
<1>4. \A o \in Operator : op[o].pc = "idle"
  BY DEF Init, Idle
<1> QED
  BY <1>1, <1>2, <1>3, <1>4, Zenon DEF Init, TypeOK

\* Calls, approvals, guard and Chronicle keep their types, whatever the limits.
THEOREM GovernTypeCorrect == Spec => []TypeOK
<1>1. TypeOK /\ [Next]_vars => TypeOK'
  BY GovernTypeStep
<1> QED
  BY <1>1, GovernTypeInit, PTL DEF Spec

-----------------------------------------------------------------------------
(* Authority *)

\* A step that touches neither calls nor approvals, guard or Chronicle: those of
\* usage reports, the clock, KillSandbox and the end of the process.
Quiet ==
  UNCHANGED <<verdict, pc, answer, inbox, decided, op, guard, ledger,
              admitted, sent, executed, overdrawn>>

\* Every step is quiet or one of a call or of an operator.
LEMMA StepCases ==
  ASSUME [Next]_vars
  PROVE  \/ \E c \in Call :
              \/ Lookup(c) \/ Evaluate(c) \/ RecordRequest(c) \/ Decided(c) \/ WaitDone(c)
              \/ Forget(c) \/ CheckExec(c) \/ CheckBudget(c) \/ CheckEgress(c) \/ Run(c)
              \/ Finish(c) \/ Record(c)
         \/ \E o \in Operator, c \in Call, d \in Decision : Resolve(o, c, d)
         \/ \E o \in Operator : Send(o) \/ Audit(o)
         \/ Quiet
<1> USE DEF approvals, history
<1>1. ASSUME NEW r \in Reporter, ReportLookup(r) \/ ReportRecord(r) PROVE Quiet
  BY <1>1 DEF ReportLookup, ReportRecord, Quiet
<1>2. CASE Deadline \/ Crash
  BY <1>2 DEF Deadline, Crash, Quiet
<1>3. CASE DeleteSession \/ ForgetUsage \/ BackendKill
  BY <1>3 DEF DeleteSession, ForgetUsage, BackendKill, KillStep, Quiet
<1>4. CASE UNCHANGED vars
  BY <1>4 DEF vars, Quiet
<1> QED
  BY <1>1, <1>2, <1>3, <1>4 DEF Next, CallStep

\* Every step keeps the inbox to undecided approvals of waiting calls.
LEMMA InboxStep ==
  ASSUME TypeOK, AuthInv, [Next]_vars
  PROVE  InboxInv'
<1> USE DEF approvals, session, history, AuthInv
<1>1. ASSUME NEW c \in Call, Lookup(c) PROVE InboxInv'
  <2>1. /\ UNCHANGED approvals /\ pc[c] = "arriving"
        /\ \E l \in {"evaluate", "done"} : pc' = [pc EXCEPT ![c] = l]
    BY <1>1 DEF Lookup, At, Goto
  <2>2. c \notin inbox
    BY <2>1 DEF InboxInv
  <2>3. \A x \in Call : x # c => pc'[x] = pc[x]
    BY <2>1 DEF TypeOK
  <2> QED
    BY <2>1, <2>2, <2>3 DEF InboxInv, TypeOK
<1>2. ASSUME NEW c \in Call, Evaluate(c) PROVE InboxInv'
  <2>1. /\ UNCHANGED <<decided, op>> /\ pc[c] = "evaluate"
        /\ \/ UNCHANGED inbox /\ \E l \in {"refused", "check exec"} : pc' = [pc EXCEPT ![c] = l]
           \/ inbox' = inbox \cup {c} /\ pc' = [pc EXCEPT ![c] = "request"]
    BY <1>2, ZenonT(60) DEF Evaluate, At, Goto
  <2>2. c \notin inbox
    BY <2>1, ZenonT(60) DEF InboxInv
  <2>3. \A x \in Call : x # c => pc'[x] = pc[x]
    BY <2>1, ZenonT(60) DEF TypeOK
  <2>4. \/ UNCHANGED inbox /\ pc'[c] \in {"refused", "check exec"}
        \/ inbox' = inbox \cup {c} /\ pc'[c] = "request"
    BY <2>1, ZenonT(60) DEF TypeOK
  <2>5. /\ decided[c] = "none"
        /\ \A o \in Operator : op[o].pc \in {"send", "audit", "resolved"} => op[o].call # c
    BY <2>1, ZenonT(60) DEF InboxInv
  <2>6. CASE UNCHANGED inbox /\ pc'[c] \in {"refused", "check exec"}
    BY <2>1, <2>2, <2>3, <2>6, ZenonT(60) DEF InboxInv, TypeOK
  <2>7. CASE inbox' = inbox \cup {c} /\ pc'[c] = "request"
    <3>1. \A x \in inbox' : pc'[x] \in {"request", "wait", "forget"}
      BY <2>3, <2>7 DEF InboxInv, TypeOK
    <3>2. ASSUME NEW x \in Call, x \in inbox' \/ pc'[x] \in {"arriving", "evaluate"}
          PROVE  /\ decided[x] = "none"
                 /\ \A o \in Operator :
                      op[o].pc \in {"send", "audit", "resolved"} => op[o].call # x
      BY <2>3, <2>5, <2>7, <3>2 DEF InboxInv
    <3> QED
      BY <2>1, <3>1, <3>2 DEF InboxInv
  <2> QED
    BY <2>4, <2>6, <2>7, ZenonT(60)
<1>3. ASSUME NEW c \in Call, RecordRequest(c) PROVE InboxInv'
  BY <1>3, SMTT(60) DEF RecordRequest, At, Goto, AppendAudit, InboxInv, TypeOK
<1>4. ASSUME NEW c \in Call, Decided(c) PROVE InboxInv'
  <2>1. /\ UNCHANGED approvals /\ pc[c] = "wait" /\ decided[c] # "none"
        /\ \E l \in {"check exec", "refused"} : pc' = [pc EXCEPT ![c] = l]
    BY <1>4 DEF Decided, At, Goto
  <2>2. c \notin inbox
    BY <2>1 DEF InboxInv, TypeOK
  <2>3. \A x \in Call : /\ x # c => pc'[x] = pc[x]
                       /\ pc'[c] \notin {"arriving", "evaluate"}
    BY <2>1 DEF TypeOK
  <2> QED
    BY <2>1, <2>2, <2>3, ZenonT(60) DEF InboxInv, TypeOK
<1>5. ASSUME NEW c \in Call, WaitDone(c) PROVE InboxInv'
  BY <1>5, SMTT(60) DEF WaitDone, At, Goto, InboxInv, TypeOK
<1>6. ASSUME NEW c \in Call, Forget(c) PROVE InboxInv'
  BY <1>6 DEF Forget, At, InboxInv, TypeOK
<1>7. ASSUME NEW c \in Call, CheckExec(c) PROVE InboxInv'
  <2>1. /\ UNCHANGED approvals /\ pc[c] = "check exec"
        /\ \E l \in {"check budget", "refused"} : pc' = [pc EXCEPT ![c] = l]
    BY <1>7 DEF CheckExec, At, Goto
  <2>2. c \notin inbox
    BY <2>1 DEF InboxInv
  <2>3. \A x \in Call : /\ x # c => pc'[x] = pc[x]
                       /\ pc'[c] \notin {"arriving", "evaluate"}
    BY <2>1, ZenonT(60) DEF TypeOK
  <2> QED
    BY <2>1, <2>2, <2>3, ZenonT(60) DEF InboxInv, TypeOK
<1>8. ASSUME NEW c \in Call, CheckBudget(c) PROVE InboxInv'
  BY <1>8, ZenonT(60) DEF CheckBudget, At, Goto, InboxInv, TypeOK
<1>9. ASSUME NEW c \in Call, CheckEgress(c) PROVE InboxInv'
  <2>1. /\ UNCHANGED approvals /\ pc[c] = "check egress"
        /\ \E l \in {"run", "refused"} : pc' = [pc EXCEPT ![c] = l]
    BY <1>9 DEF CheckEgress, At, Goto
  <2>2. c \notin inbox
    BY <2>1 DEF InboxInv
  <2>3. \A x \in Call : /\ x # c => pc'[x] = pc[x]
                       /\ pc'[c] \notin {"arriving", "evaluate"}
    BY <2>1 DEF TypeOK
  <2> QED
    BY <2>1, <2>2, <2>3, ZenonT(60) DEF InboxInv, TypeOK
<1>10. ASSUME NEW c \in Call, Run(c) PROVE InboxInv'
  BY <1>10, SMTT(60) DEF Run, At, Goto, InboxInv, TypeOK
<1>11. ASSUME NEW c \in Call, Finish(c) PROVE InboxInv'
  <2>1. /\ UNCHANGED approvals /\ pc[c] = "running"
        /\ \E l \in {"ran", "errored"} : pc' = [pc EXCEPT ![c] = l]
    BY <1>11, ZenonT(60) DEF Finish, At, Goto
  <2>2. c \notin inbox
    BY <2>1 DEF InboxInv
  <2>3. \A x \in Call : /\ x # c => pc'[x] = pc[x]
                       /\ pc'[c] \notin {"arriving", "evaluate"}
    BY <2>1 DEF TypeOK
  <2> QED
    BY <2>1, <2>2, <2>3, SMTT(60) DEF InboxInv, TypeOK
<1>12. ASSUME NEW c \in Call, Record(c) PROVE InboxInv'
  BY <1>12 DEF Record, At, Answered, AppendAudit, InboxInv, TypeOK
<1>13. ASSUME NEW o \in Operator, NEW c \in Call, NEW d \in Decision, Resolve(o, c, d) PROVE InboxInv'
  BY <1>13 DEF Resolve, InboxInv, TypeOK
<1>14. ASSUME NEW o \in Operator, Send(o) PROVE InboxInv'
  BY <1>14 DEF Send, InboxInv, TypeOK
<1>15. ASSUME NEW o \in Operator, Audit(o) PROVE InboxInv'
  BY <1>15, SMTT(60) DEF Audit, AppendAudit, InboxInv, TypeOK
<1>16. CASE Quiet
  BY <1>16, SMTT(60) DEF Quiet, InboxInv, TypeOK
<1> QED
  BY StepCases, <1>1, <1>2, <1>3, <1>4, <1>5, <1>6, <1>7, <1>8, <1>9, <1>10, <1>11, <1>12,
     <1>13, <1>14, <1>15, <1>16, SMTT(60)

\* Every step leaves each approval to one operator.
LEMMA DecisionStep ==
  ASSUME TypeOK, AuthInv, [Next]_vars
  PROVE  OneDecision'
<1> USE DEF approvals, AuthInv
<1>1. CASE UNCHANGED <<decided, op>>
  BY <1>1, SMTT(60) DEF OneDecision
<1>2. ASSUME NEW c \in Call,
             \/ Lookup(c) \/ Evaluate(c) \/ RecordRequest(c) \/ Decided(c) \/ WaitDone(c)
             \/ Forget(c) \/ CheckExec(c) \/ CheckBudget(c) \/ CheckEgress(c) \/ Run(c)
             \/ Finish(c) \/ Record(c)
      PROVE  UNCHANGED <<decided, op>>
  BY <1>2, ZenonT(60) DEF Lookup, Evaluate, RecordRequest, Decided, WaitDone, Forget, CheckExec,
              CheckBudget, CheckEgress, Run, Finish, Record
<1>3. ASSUME NEW o \in Operator, NEW c \in Call, NEW d \in Decision, Resolve(o, c, d)
      PROVE  OneDecision'
  BY <1>3 DEF Resolve, OneDecision, InboxInv, TypeOK
<1>4. ASSUME NEW o \in Operator, Send(o) PROVE OneDecision'
  BY <1>4 DEF Send, OneDecision, TypeOK
<1>5. ASSUME NEW o \in Operator, Audit(o) PROVE OneDecision'
  BY <1>5 DEF Audit, OneDecision, TypeOK
<1>6. Quiet => UNCHANGED <<decided, op>>
  BY DEF Quiet
<1> QED
  BY StepCases, <1>1, <1>2, <1>3, <1>4, <1>5, <1>6, SMTT(60)

\* Every step of a call adds to what the call has behind it.
LEMMA PathStep ==
  ASSUME TypeOK, AuthInv, [Next]_vars
  PROVE  PathInv'
<1> USE DEF approvals, session, history, AuthInv
<1>1. ASSUME NEW c \in Call, Lookup(c) PROVE PathInv'
  BY <1>1, ZenonT(60) DEF Lookup, At, Goto, PathInv, TypeOK
<1>2. ASSUME NEW c \in Call, Evaluate(c) PROVE PathInv'
  BY <1>2, ZenonT(60) DEF Evaluate, At, Goto, PathInv, TypeOK
<1>3. ASSUME NEW c \in Call, RecordRequest(c) PROVE PathInv'
  BY <1>3, ZenonT(60) DEF RecordRequest, At, Goto, AppendAudit, PathInv, TypeOK
<1>4. ASSUME NEW c \in Call, Decided(c) PROVE PathInv'
  BY <1>4, ZenonT(60) DEF Decided, At, Goto, PathInv, TypeOK
<1>5. ASSUME NEW c \in Call, WaitDone(c) PROVE PathInv'
  BY <1>5 DEF WaitDone, At, Goto, PathInv, TypeOK
<1>6. ASSUME NEW c \in Call, Forget(c) PROVE PathInv'
  BY <1>6 DEF Forget, At, PathInv, TypeOK
<1>7. ASSUME NEW c \in Call, CheckExec(c) PROVE PathInv'
  BY <1>7, ZenonT(60) DEF CheckExec, At, Goto, PathInv, TypeOK
<1>8. ASSUME NEW c \in Call, CheckBudget(c) PROVE PathInv'
  BY <1>8 DEF CheckBudget, At, Goto, PathInv, TypeOK
<1>9. ASSUME NEW c \in Call, CheckEgress(c) PROVE PathInv'
  BY <1>9, ZenonT(60) DEF CheckEgress, At, Goto, PathInv, TypeOK
<1>10. ASSUME NEW c \in Call, Run(c) PROVE PathInv'
  BY <1>10 DEF Run, At, Goto, PathInv, TypeOK
<1>11. ASSUME NEW c \in Call, Finish(c) PROVE PathInv'
  BY <1>11, ZenonT(60) DEF Finish, At, Goto, RecordOutcome, PathInv, TypeOK
<1>12. ASSUME NEW c \in Call, Record(c) PROVE PathInv'
  BY <1>12, ZenonT(60) DEF Record, At, Answered, AppendAudit, PathInv, TypeOK
<1>13. ASSUME NEW o \in Operator, NEW c \in Call, NEW d \in Decision, Resolve(o, c, d) PROVE PathInv'
  BY <1>13 DEF Resolve, PathInv, TypeOK
<1>14. ASSUME NEW o \in Operator, Send(o) PROVE PathInv'
  BY <1>14 DEF Send, PathInv, TypeOK
<1>15. ASSUME NEW o \in Operator, Audit(o) PROVE PathInv'
  BY <1>15 DEF Audit, AppendAudit, PathInv, TypeOK
<1>16. CASE Quiet
  BY <1>16 DEF Quiet, PathInv, TypeOK
<1> QED
  BY StepCases, <1>1, <1>2, <1>3, <1>4, <1>5, <1>6, <1>7, <1>8, <1>9, <1>10, <1>11, <1>12,
     <1>13, <1>14, <1>15, <1>16, SMTT(60)

\* A command starts with the authority its path collected, and keeps it.
LEMMA ExecutedStep ==
  ASSUME TypeOK, AuthInv, [Next]_vars
  PROVE  ExecutedWasAuthorized'
<1> USE DEF approvals, session, history, AuthInv
<1>1. ASSUME NEW c \in Call, Lookup(c) PROVE ExecutedWasAuthorized'
  BY <1>1, ZenonT(60) DEF Lookup, At, Goto, ExecutedWasAuthorized, PathInv, TypeOK
<1>2. ASSUME NEW c \in Call, Evaluate(c) PROVE ExecutedWasAuthorized'
  BY <1>2, ZenonT(60) DEF Evaluate, At, Goto, ExecutedWasAuthorized, PathInv, TypeOK
<1>3. ASSUME NEW c \in Call, RecordRequest(c) PROVE ExecutedWasAuthorized'
  BY <1>3 DEF RecordRequest, At, Goto, AppendAudit, ExecutedWasAuthorized, PathInv, TypeOK
<1>4. ASSUME NEW c \in Call, Decided(c) PROVE ExecutedWasAuthorized'
  BY <1>4, ZenonT(60) DEF Decided, At, Goto, ExecutedWasAuthorized, PathInv, TypeOK
<1>5. ASSUME NEW c \in Call, WaitDone(c) PROVE ExecutedWasAuthorized'
  BY <1>5 DEF WaitDone, At, Goto, ExecutedWasAuthorized, PathInv, TypeOK
<1>6. ASSUME NEW c \in Call, Forget(c) PROVE ExecutedWasAuthorized'
  BY <1>6, ZenonT(60) DEF Forget, At, ExecutedWasAuthorized, PathInv, TypeOK
<1>7. ASSUME NEW c \in Call, CheckExec(c) PROVE ExecutedWasAuthorized'
  BY <1>7, ZenonT(60) DEF CheckExec, At, Goto, ExecutedWasAuthorized, PathInv, TypeOK
<1>8. ASSUME NEW c \in Call, CheckBudget(c) PROVE ExecutedWasAuthorized'
  BY <1>8 DEF CheckBudget, At, Goto, ExecutedWasAuthorized, PathInv, TypeOK
<1>9. ASSUME NEW c \in Call, CheckEgress(c) PROVE ExecutedWasAuthorized'
  BY <1>9, ZenonT(60) DEF CheckEgress, At, Goto, ExecutedWasAuthorized, PathInv, TypeOK
<1>10. ASSUME NEW c \in Call, Run(c) PROVE ExecutedWasAuthorized'
  BY <1>10, ZenonT(60) DEF Run, At, Goto, ExecutedWasAuthorized, PathInv, TypeOK
<1>11. ASSUME NEW c \in Call, Finish(c) PROVE ExecutedWasAuthorized'
  BY <1>11, ZenonT(60) DEF Finish, At, Goto, RecordOutcome, ExecutedWasAuthorized, PathInv, TypeOK
<1>12. ASSUME NEW c \in Call, Record(c) PROVE ExecutedWasAuthorized'
  BY <1>12, ZenonT(60) DEF Record, At, Answered, AppendAudit, ExecutedWasAuthorized, PathInv, TypeOK
<1>13. ASSUME NEW o \in Operator, NEW c \in Call, NEW d \in Decision, Resolve(o, c, d) PROVE ExecutedWasAuthorized'
  BY <1>13, ZenonT(60) DEF Resolve, ExecutedWasAuthorized, PathInv, TypeOK
<1>14. ASSUME NEW o \in Operator, Send(o) PROVE ExecutedWasAuthorized'
  BY <1>14, ZenonT(60) DEF Send, ExecutedWasAuthorized, PathInv, TypeOK
<1>15. ASSUME NEW o \in Operator, Audit(o) PROVE ExecutedWasAuthorized'
  BY <1>15, ZenonT(60) DEF Audit, AppendAudit, ExecutedWasAuthorized, PathInv, TypeOK
<1>16. CASE Quiet
  BY <1>16, ZenonT(60) DEF Quiet, ExecutedWasAuthorized, PathInv, TypeOK
<1> QED
  BY StepCases, <1>1, <1>2, <1>3, <1>4, <1>5, <1>6, <1>7, <1>8, <1>9, <1>10, <1>11, <1>12,
     <1>13, <1>14, <1>15, <1>16

\* The three parts of the invariant hold at the start.
LEMMA AuthInit == Init => AuthInv
BY DEF Init, Idle, AuthInv, InboxInv, OneDecision, PathInv, ExecutedWasAuthorized

\* The inductive invariant of approvals and authority.
THEOREM AuthInvariant == Spec => []AuthInv
<1>1. TypeOK /\ AuthInv /\ [Next]_vars => AuthInv'
  BY InboxStep, DecisionStep, PathStep, ExecutedStep DEF AuthInv
<1> QED
  BY <1>1, AuthInit, GovernTypeCorrect, PTL DEF Spec

\* A command runs only if the Charter allows it or an operator approved that very
\* call, and only past the exec and egress checks, for any number of concurrent
\* calls and operators and over kills, lost appends and the end of the process.
THEOREM ExecutionAuthorized == Spec => []ExecutedWasAuthorized
<1>1. AuthInv => ExecutedWasAuthorized
  BY DEF AuthInv
<1> QED
  BY <1>1, AuthInvariant, PTL

\* However many operators race, each approval is decided by one of them, and its
\* channel is empty when they send.
THEOREM SingleDecision == Spec => []OneDecision
<1>1. AuthInv => OneDecision
  BY SMTT(60) DEF AuthInv
<1> QED
  BY <1>1, AuthInvariant, PTL

\* No entry of the inbox outlives the call that waits for it.
THEOREM NoOrphans == Spec => []NoOrphanApprovals
<1>1. AuthInv => NoOrphanApprovals
  BY DEF AuthInv, InboxInv, NoOrphanApprovals
<1> QED
  BY <1>1, AuthInvariant, PTL

-----------------------------------------------------------------------------
(* Rationing *)

\* The guard's counters bound what it has let through, and stay in the limits.
RationInv ==
  /\ IsFiniteSet(admitted) /\ Cardinality(admitted) <= guard.execs
  /\ MaxExecs > 0 => guard.execs <= MaxExecs
  /\ IsFiniteSet(sent) /\ Cardinality(sent) <= guard.egress
  /\ EgressRequests > 0 => guard.egress <= EgressRequests

\* Adding one element adds at most one to the size of a finite set.
LEMMA OneMore ==
  ASSUME NEW S, IsFiniteSet(S), NEW x
  PROVE  /\ IsFiniteSet(S \cup {x})
         /\ Cardinality(S \cup {x}) \in Nat /\ Cardinality(S) \in Nat
         /\ Cardinality(S \cup {x}) <= Cardinality(S) + 1
<1>1. /\ IsFiniteSet(S \cup {x})
      /\ Cardinality(S \cup {x}) = IF x \in S THEN Cardinality(S) ELSE Cardinality(S) + 1
  BY FS_AddElement
<1>2. Cardinality(S) \in Nat
  BY FS_CardinalityType
<1>3. Cardinality(S \cup {x}) \in Nat
  BY <1>1, FS_CardinalityType, SMTT(60)
<1> QED
  BY <1>1, <1>2, <1>3

\* Counting and admitting are one step under the guard's lock.
LEMMA RationStep ==
  ASSUME TypeOK, RationInv, [Next]_vars
  PROVE  RationInv'
<1> DEFINE Same == UNCHANGED <<admitted, sent>> /\ guard'.execs = guard.execs
                   /\ guard'.egress = guard.egress
<1> USE DEF approvals, session, history
<1>0. guard \in Guard /\ guard.execs \in Nat /\ guard.egress \in Nat
  BY DEF TypeOK, Guard
<1>1. CASE Same
  BY <1>1 DEF RationInv
<1>2. ASSUME NEW c \in Call, CheckExec(c) PROVE RationInv'
  <2>1. CASE UNCHANGED <<guard, admitted>>
    BY <1>1, <1>2, <2>1, ZenonT(60) DEF CheckExec
  <2>2. CASE /\ Permitted
             /\ guard' = [guard EXCEPT !.execs = @ + 1]
             /\ admitted' = admitted \cup {c}
    <3>1. /\ guard'.execs = guard.execs + 1 /\ guard'.egress = guard.egress
          /\ UNCHANGED sent
      BY <1>0, <1>2, <2>2 DEF CheckExec, Guard
    <3>2. MaxExecs > 0 => guard'.execs <= MaxExecs
      BY <1>0, <2>2, <3>1, GovernAssumption DEF Permitted
    <3>3. IsFiniteSet(admitted') /\ Cardinality(admitted') <= guard'.execs
      <4>1. IsFiniteSet(admitted) /\ Cardinality(admitted) <= guard.execs
        BY DEF RationInv
      <4>2. /\ IsFiniteSet(admitted \cup {c})
            /\ Cardinality(admitted \cup {c}) \in Nat /\ Cardinality(admitted) \in Nat
            /\ Cardinality(admitted \cup {c}) <= Cardinality(admitted) + 1
        BY <4>1, OneMore, Zenon
      <4> QED
        BY <1>0, <2>2, <3>1, <4>1, <4>2
    <3> QED
      BY <3>1, <3>2, <3>3 DEF RationInv
  <2> QED
    BY <1>2, <2>1, <2>2, ZenonT(60) DEF CheckExec
<1>3. ASSUME NEW c \in Call, CheckEgress(c) PROVE RationInv'
  <2>1. CASE UNCHANGED <<guard, sent>>
    BY <1>1, <1>3, <2>1 DEF CheckEgress
  <2>2. CASE /\ EgressRequests = 0 \/ guard.egress < EgressRequests
             /\ guard' = [guard EXCEPT !.egress = @ + 1]
             /\ sent' = sent \cup {c}
    <3>1. /\ guard'.egress = guard.egress + 1 /\ guard'.execs = guard.execs
          /\ UNCHANGED admitted
      BY <1>0, <1>3, <2>2 DEF CheckEgress, Guard
    <3>2. EgressRequests > 0 => guard'.egress <= EgressRequests
      BY <1>0, <2>2, <3>1, GovernAssumption
    <3>3. IsFiniteSet(sent') /\ Cardinality(sent') <= guard'.egress
      <4>1. IsFiniteSet(sent) /\ Cardinality(sent) <= guard.egress
        BY DEF RationInv
      <4>2. /\ IsFiniteSet(sent \cup {c})
            /\ Cardinality(sent \cup {c}) \in Nat /\ Cardinality(sent) \in Nat
            /\ Cardinality(sent \cup {c}) <= Cardinality(sent) + 1
        BY <4>1, OneMore, ZenonT(60)
      <4> QED
        BY <1>0, <2>2, <3>1, <4>1, <4>2
    <3> QED
      BY <3>1, <3>2, <3>3 DEF RationInv
  <2> QED
    BY <1>3, <2>1, <2>2 DEF CheckEgress
<1>4. ASSUME NEW c \in Call, Finish(c) PROVE Same
  <2>1. UNCHANGED <<admitted, sent>> /\ \E f \in BOOLEAN : RecordOutcome(c, f)
    BY <1>4, ZenonT(60) DEF Finish
  <2>2. ASSUME NEW n, NEW b
        PROVE     /\ [guard EXCEPT !.failures[KeyOf[c]] = n].execs = guard.execs
                  /\ [guard EXCEPT !.failures[KeyOf[c]] = n].egress = guard.egress
                  /\ [guard EXCEPT !.failures[KeyOf[c]] = n, !.tripped = b].execs = guard.execs
                  /\ [guard EXCEPT !.failures[KeyOf[c]] = n, !.tripped = b].egress = guard.egress
    BY <1>0 DEF Guard
  <2>3. PICK f \in BOOLEAN : RecordOutcome(c, f)
    BY <2>1
  <2>4. CASE guard' = guard
    BY <2>1, <2>4
  <2>5. CASE guard' = [guard EXCEPT !.failures[KeyOf[c]] = 0]
    BY <2>1, <2>2, <2>5
  <2>6. CASE \E n \in 1..(guard.failures[KeyOf[c]] + 1) :
               guard' = [guard EXCEPT !.failures[KeyOf[c]] = n,
                                      !.tripped = @ \/ n >= LoopThreshold]
    BY <2>1, <2>2, <2>6
  <2> QED
    BY <2>3, <2>4, <2>5, <2>6, Zenon DEF RecordOutcome
<1>5. ASSUME NEW c \in Call,
             \/ Lookup(c) \/ Evaluate(c) \/ RecordRequest(c) \/ Decided(c) \/ WaitDone(c)
             \/ Forget(c) \/ CheckBudget(c) \/ Run(c) \/ Record(c)
      PROVE  Same
  BY <1>5, Zenon DEF Lookup, Evaluate, RecordRequest, Decided, WaitDone, Forget, CheckBudget, Run,
              Record
<1>6. ASSUME NEW o \in Operator, NEW c \in Call, NEW d \in Decision,
             Resolve(o, c, d)
      PROVE  Same
  BY <1>6, ZenonT(60) DEF Resolve
<1>7. ASSUME NEW o \in Operator, Send(o) \/ Audit(o) PROVE Same
  BY <1>7 DEF Send, Audit
<1>8. Quiet => Same
  BY DEF Quiet
<1> QED
  BY StepCases, <1>1, <1>2, <1>3, <1>4, <1>5, <1>6, <1>7, <1>8, SMTT(60)

\* However many calls run at once, no more commands run than max_execs, and no
\* more egress commands than egress_requests.
THEOREM RationingHolds == Spec => []WithinRationing
<1>1. Init => RationInv
  <2> SUFFICES ASSUME Init PROVE RationInv
    OBVIOUS
  <2>1. admitted = {} /\ sent = {} /\ guard.execs = 0 /\ guard.egress = 0
    BY DEF Init, NewGuard
  <2> QED
    BY <2>1, FS_EmptySet, GovernAssumption, SMTT(60) DEF RationInv
<1>2. TypeOK /\ RationInv /\ [Next]_vars => RationInv'
  BY RationStep, SMTT(60)
<1>3. TypeOK /\ RationInv /\ ExecutedWasAuthorized => WithinRationing
  <2> SUFFICES ASSUME TypeOK, RationInv, ExecutedWasAuthorized PROVE WithinRationing
    OBVIOUS
  <2>1. executed \subseteq admitted /\ executed \cap EgressCall \subseteq sent
    BY DEF ExecutedWasAuthorized
  <2>2. /\ Cardinality(executed) <= Cardinality(admitted)
        /\ Cardinality(executed \cap EgressCall) <= Cardinality(sent)
        /\ IsFiniteSet(executed) /\ IsFiniteSet(executed \cap EgressCall)
    BY <2>1, FS_Subset, SMTT(60) DEF RationInv
  <2>3. /\ Cardinality(executed) \in Nat /\ Cardinality(admitted) \in Nat
        /\ Cardinality(executed \cap EgressCall) \in Nat /\ Cardinality(sent) \in Nat
    BY <2>2, FS_CardinalityType, SMTT(60) DEF RationInv
  <2>4. guard.execs \in Nat /\ guard.egress \in Nat
    BY SMTT(60) DEF TypeOK, Guard
  <2> QED
    BY <2>2, <2>3, <2>4, GovernAssumption DEF RationInv, WithinRationing
<1> QED
  BY <1>1, <1>2, <1>3, GovernTypeCorrect, ExecutionAuthorized, PTL DEF Spec

-----------------------------------------------------------------------------
(* The Chronicle *)

\* A call that waits has its request on record, and so have the answered ones.
RecordedInv ==
  /\ AnswersAreRecorded
  /\ \A c \in Call : pc[c] \in {"wait", "forget"} => <<"request", c>> \in ledger

\* While appends succeed, an answer comes after its event.
LEMMA RecordedStep ==
  ASSUME "audit" \notin Faults, TypeOK, RecordedInv, [Next]_vars
  PROVE  RecordedInv'
<1> USE DEF approvals, session, history
<1>1. ASSUME NEW c \in Call, UNCHANGED <<answer, ledger>>,
             \E l \in Label \ {"wait", "forget"} : pc' = [pc EXCEPT ![c] = l]
      PROVE  RecordedInv'
  BY <1>1, SMTT(60) DEF RecordedInv, AnswersAreRecorded, TypeOK
<1>2. ASSUME NEW c \in Call, Lookup(c) PROVE RecordedInv'
  <2>1. CASE Goto(c, "evaluate")
    BY <1>1, <1>2, <2>1, ZenonT(60) DEF Lookup, Goto, Label
  <2>2. CASE /\ pc' = [pc EXCEPT ![c] = "done"]
             /\ answer' = [answer EXCEPT ![c] = "not found"]
    BY <1>2, <2>2, ZenonT(60) DEF Lookup, RecordedInv, AnswersAreRecorded, TypeOK
  <2> QED
    BY <1>2, <2>1, <2>2, ZenonT(60) DEF Lookup
<1>3. ASSUME NEW c \in Call,
             Evaluate(c) \/ Decided(c) \/ CheckExec(c) \/ CheckBudget(c) \/ CheckEgress(c)
             \/ Run(c) \/ Finish(c)
      PROVE  RecordedInv'
  <2>1. PICK l \in {"refused", "check exec", "request", "check budget", "check egress", "run",
                    "running", "ran", "errored"} : Goto(c, l)
    BY <1>3, ZenonT(60) DEF Evaluate, Decided, CheckExec, CheckBudget, CheckEgress, Run, Finish
  <2>2. UNCHANGED ledger
    BY <1>3, ZenonT(60) DEF Evaluate, Decided, CheckExec, CheckBudget, CheckEgress, Run, Finish
  <2>3. l \in Label \ {"wait", "forget"}
    BY ZenonT(60) DEF Label
  <2> QED
    BY <1>1, <2>1, <2>2, <2>3, ZenonT(60) DEF Goto
<1>4. ASSUME NEW c \in Call, RecordRequest(c) PROVE RecordedInv'
  <2>1. /\ ledger' = ledger \cup {<<"request", c>>}
        /\ pc' = [pc EXCEPT ![c] = "wait"] /\ UNCHANGED answer
    BY <1>4, SMTT(60) DEF RecordRequest, AppendAudit, Goto
  <2> QED
    BY <2>1, SMTT(60) DEF RecordedInv, AnswersAreRecorded, TypeOK
<1>5. ASSUME NEW c \in Call, WaitDone(c) PROVE RecordedInv'
  BY <1>5, SMTT(60) DEF WaitDone, At, Goto, RecordedInv, AnswersAreRecorded, TypeOK
<1>6. ASSUME NEW c \in Call, Forget(c) PROVE RecordedInv'
  BY <1>6, SMTT(60) DEF Forget, At, RecordedInv, AnswersAreRecorded, TypeOK
<1>7. ASSUME NEW c \in Call, Record(c) PROVE RecordedInv'
  <2>1. PICK k \in {"deny", "allow", "error"} :
          /\ ledger' = ledger \cup {<<k, c>>}
          /\ answer' = [answer EXCEPT ![c] = k]
          /\ pc' = [pc EXCEPT ![c] = "done"]
    BY <1>7, SMTT(60) DEF Record, Answered, AppendAudit
  <2> QED
    BY <2>1, SMTT(60) DEF RecordedInv, AnswersAreRecorded, TypeOK
<1>8. ASSUME UNCHANGED <<pc, answer>>, ledger \subseteq ledger' PROVE RecordedInv'
  BY <1>8, SMTT(60) DEF RecordedInv, AnswersAreRecorded
<1>9. ASSUME NEW o \in Operator, NEW c \in Call, NEW d \in Decision, Resolve(o, c, d)
      PROVE  RecordedInv'
  BY <1>8, <1>9 DEF Resolve
<1>10. ASSUME NEW o \in Operator, Send(o) \/ Audit(o) PROVE RecordedInv'
  BY <1>8, <1>10, SMTT(60) DEF Send, Audit, AppendAudit
<1>11. CASE Quiet
  BY <1>8, <1>11 DEF Quiet
<1> QED
  BY StepCases, <1>2, <1>3, <1>4, <1>5, <1>6, <1>7, <1>9, <1>10, <1>11, SMTT(60)

\* While appends to the Chronicle succeed, no caller has an answer, or waits for
\* an operator, without the event that says so.
THEOREM AnswersRecorded ==
  ASSUME "audit" \notin Faults
  PROVE  Spec => []AnswersAreRecorded
<1>1. Init => RecordedInv
  BY DEF Init, RecordedInv, AnswersAreRecorded
<1>2. TypeOK /\ RecordedInv /\ [Next]_vars => RecordedInv'
  BY RecordedStep
<1>3. RecordedInv => AnswersAreRecorded
  BY DEF RecordedInv
<1> QED
  BY <1>1, <1>2, <1>3, GovernTypeCorrect, PTL DEF Spec
-----------------------------------------------------------------------------
(* The token budget *)

\* A call is past its run when its command was started; and while the session
\* lives a budget that was used up stays so, and no call that arrived after that
\* got past CheckBudget.
BudgetInv ==
  /\ \A c \in executed : pc[c] \in {"running", "ran", "errored", "done"}
  /\ life = "live" =>
       \A c \in overdrawn : Over /\ c \notin executed /\ pc[c] \notin {"arriving", "check egress", "run"}

\* The budget is read long after the call arrived, while others report usage and
\* the session may be killed.
LEMMA BudgetStep ==
  ASSUME TypeOK, BudgetInv, [Next]_vars
  PROVE  BudgetInv'
<1> USE DEF approvals, session, history
<1>0. pc \in [Call -> Label] /\ usage \in Nat /\ executed \subseteq Call /\ overdrawn \subseteq Call
  BY DEF TypeOK
<1>1. ASSUME NEW c \in Call, Lookup(c) PROVE BudgetInv'
  <2>1. /\ pc[c] = "arriving" /\ UNCHANGED <<usage, life, executed>>
        /\ overdrawn' = IF Over THEN overdrawn \cup {c} ELSE overdrawn
        /\ \E l \in {"evaluate", "done"} : pc' = [pc EXCEPT ![c] = l]
    BY <1>1 DEF Lookup, At, Goto
  <2>2. c \notin executed /\ Over' = Over
    BY <2>1 DEF BudgetInv, Over
  <2>3. \A x \in Call : pc'[x] = pc[x] \/ (x = c /\ pc'[x] \in {"evaluate", "done"})
    BY <1>0, <2>1
  <2> QED
    BY <1>0, <2>1, <2>2, <2>3 DEF BudgetInv
<1>2. ASSUME NEW c \in Call, CheckBudget(c) PROVE BudgetInv'
  <2>1. /\ pc[c] = "check budget" /\ UNCHANGED <<usage, life, executed, overdrawn>> /\ Over' = Over
        /\ \E l \in {"refused", "check egress", "run"} :
             pc' = [pc EXCEPT ![c] = l] /\ (Over => l = "refused")
    BY <1>2 DEF CheckBudget, At, Goto, Over
  <2>2. c \notin executed
    BY <2>1 DEF BudgetInv
  <2>3. \A x \in Call : pc'[x] = pc[x] \/ (x = c /\ pc'[x] \in {"refused", "check egress", "run"}
                                             /\ (Over => pc'[x] = "refused"))
    BY <1>0, <2>1
  <2> QED
    BY <1>0, <2>1, <2>2, <2>3 DEF BudgetInv
<1>3. ASSUME NEW c \in Call, Run(c) PROVE BudgetInv'
  <2>1. /\ pc[c] = "run" /\ pc' = [pc EXCEPT ![c] = "running"]
        /\ UNCHANGED <<usage, life, overdrawn>> /\ Over' = Over /\ executed' \subseteq executed \cup {c}
    BY <1>3 DEF Run, At, Goto, Over
  <2>2. \A x \in Call : pc'[x] = IF x = c THEN "running" ELSE pc[x]
    BY <1>0, <2>1
  <2> QED
    BY <1>0, <2>1, <2>2 DEF BudgetInv
<1>4. ASSUME NEW c \in Call, CheckEgress(c) PROVE BudgetInv'
  <2>1. /\ pc[c] = "check egress" /\ UNCHANGED <<usage, life, executed, overdrawn>> /\ Over' = Over
        /\ \E l \in {"run", "refused"} : pc' = [pc EXCEPT ![c] = l]
    BY <1>4 DEF CheckEgress, At, Goto, Over
  <2>2. \A x \in Call : pc'[x] = pc[x] \/ x = c
    BY <1>0, <2>1
  <2>3. c \notin executed
    BY <2>1 DEF BudgetInv
  <2> QED
    BY <1>0, <2>1, <2>2, <2>3 DEF BudgetInv
<1>5. ASSUME NEW c \in Call,
             \/ Evaluate(c) \/ RecordRequest(c) \/ Decided(c) \/ WaitDone(c) \/ Forget(c) \/ CheckExec(c)
             \/ Finish(c) \/ Record(c)
      PROVE  BudgetInv'
  <2>1. UNCHANGED <<usage, life, executed, overdrawn>> /\ Over' = Over
    BY <1>5 DEF Evaluate, RecordRequest, Decided, WaitDone, Forget, CheckExec, Finish, Record, Over
  <2>2. \/ /\ pc[c] \in {"evaluate", "request", "wait", "forget", "check exec"}
           /\ \E l \in {"refused", "check exec", "request", "wait", "forget", "done", "check budget"} :
                pc' = [pc EXCEPT ![c] = l]
        \/ \E l \in {"ran", "errored", "done"} : pc' = [pc EXCEPT ![c] = l]
    BY <1>5 DEF Evaluate, RecordRequest, Decided, WaitDone, Forget, CheckExec, Finish, Record, Answered, At, Goto
  <2>3. \A x \in Call : \/ pc'[x] = pc[x]
                        \/ x = c /\ pc'[x] \in {"ran", "errored", "done"}
                        \/ /\ x = c /\ x \notin executed
                           /\ pc'[x] \notin {"arriving", "check egress", "run"}
    BY <1>0, <2>2 DEF BudgetInv
  <2> QED
    BY <1>0, <2>1, <2>3 DEF BudgetInv
<1>6. CASE UNCHANGED <<pc, executed, overdrawn>>
  <2>1. life' = "live" => life = "live"
    BY <1>6 DEF Next, vars, Lookup, CallStep, Evaluate, RecordRequest, Decided, WaitDone, Forget, CheckExec,
       CheckBudget, CheckEgress, Run, Finish, Record, Resolve, Send, Audit, ReportLookup, ReportRecord,
       Deadline, DeleteSession, ForgetUsage, BackendKill, KillStep, Crash
  <2>2. life' = "live" => usage' = usage \/ usage' = usage + 1
    BY <1>6 DEF Next, vars, Lookup, CallStep, Evaluate, RecordRequest, Decided, WaitDone, Forget, CheckExec,
       CheckBudget, CheckEgress, Run, Finish, Record, Resolve, Send, Audit, ReportLookup, ReportRecord,
       Deadline, DeleteSession, ForgetUsage, BackendKill, KillStep, Crash
  <2>3. life' = "live" /\ Over => Over'
    BY <1>0, <2>2, GovernAssumption DEF Over
  <2> QED
    BY <1>6, <2>1, <2>3 DEF BudgetInv
<1>7. ASSUME NEW o \in Operator, NEW c \in Call, NEW d \in Decision, Resolve(o, c, d) PROVE BudgetInv'
  BY <1>6, <1>7 DEF Resolve
<1>8. ASSUME NEW o \in Operator, Send(o) \/ Audit(o) PROVE BudgetInv'
  BY <1>6, <1>8 DEF Send, Audit
<1>9. CASE Quiet
  BY <1>6, <1>9 DEF Quiet
<1> QED
  BY <1>1, <1>2, <1>3, <1>4, <1>5, <1>7, <1>8, <1>9, StepCases

\* A call that arrives when the token budget is used up runs nothing while its
\* session exists: for any number of calls and reports and every limit
\* (governOut, RecordUsage, KillSandbox).
THEOREM BudgetHolds == Spec => []BudgetHoldsWhileLive
<1>1. Init => BudgetInv
  BY DEF Init, BudgetInv
<1>2. TypeOK /\ BudgetInv /\ [Next]_vars => BudgetInv'
  BY BudgetStep
<1>3. BudgetInv => BudgetHoldsWhileLive
  BY DEF BudgetInv, BudgetHoldsWhileLive
<1> QED
  BY <1>1, <1>2, <1>3, GovernTypeCorrect, PTL DEF Spec
=============================================================================
