-------------------------- MODULE CohortBoardProofs --------------------------
(***************************************************************************)
(* Proofs about CohortBoard for every set of tasks and workers, every      *)
(* lease setting and every clock resolution.                               *)
(***************************************************************************)
EXTENDS CohortBoard, TLAPS

\* Whole seconds respect the order of ticks: Time.Unix, on which tokens are
\* compared, never reverses the comparison of LeaseExpiry that Sweep makes.
LEMMA UnixMonotone ==
  ASSUME NEW a \in Nat, NEW b \in Nat, a <= b
  PROVE  Unix(a) <= Unix(b)
<1> DEFINE qa == a \div Second
           qb == b \div Second
<1>0. Second \in Nat \ {0}
  BY ConstantsAssumption
<1>1. /\ qa \in Int
      /\ qb \in Int
      /\ Second * qa <= a
      /\ b < Second * (qb + 1)
  BY <1>0
<1>2. Second * qa < Second * (qb + 1)
  BY <1>0, <1>1
<1>3. qa < qb + 1
  BY <1>0, <1>1, <1>2
<1> QED
  BY <1>1, <1>3 DEF Unix

\* Time.Unix of a time after the epoch is a natural number.
LEMMA UnixType ==
  ASSUME NEW a \in Nat
  PROVE  Unix(a) \in Nat
BY ConstantsAssumption DEF Unix

\* Board transitions yield task records.
LEMMA RecordTypes ==
  ASSUME TypeOK, NEW r \in TaskRec, NEW w \in Worker
  PROVE  /\ ClaimRec(r, w) \in TaskRec
         /\ HeartbeatRec(r) \in TaskRec
         /\ CompleteRec(r) \in TaskRec
         /\ FailRec(r) \in TaskRec
         /\ RequeueRec(r) \in TaskRec
<1>1. Stamp(r) \in Nat
  BY DEF TypeOK, TaskRec, Stamp
<1>2. ClaimRec(r, w) \in TaskRec
  BY <1>1 DEF TaskRec, TaskState, ClaimRec
<1>3. HeartbeatRec(r) \in TaskRec
  BY <1>1, r.version + 1 \in Nat, Zenon DEF TaskRec, HeartbeatRec
<1>4. CompleteRec(r) \in TaskRec /\ FailRec(r) \in TaskRec
  BY Zenon DEF TaskRec, TaskState, CompleteRec, FailRec
<1>5. RequeueRec(r) \in TaskRec
  BY Zenon DEF TaskRec, TaskState, RequeueRec
<1> QED
  BY <1>2, <1>3, <1>4, <1>5

\* NoTask and NewTask are task records.
LEMMA ConstantRecords ==
  NoTask \in TaskRec /\ NewTask \in TaskRec
BY DEF NoTask, NewTask, TaskRec, TaskState

\* A lease issued for a claimed record is a token.
LEMMA TokenType ==
  ASSUME TypeOK, NEW t \in Task, NEW r \in TaskRec, r.owner \in Worker, r.version # 0
  PROVE  IssueTaskLease(t, r) \in Token
<1>1. r.expiry \in Nat /\ r.version \in Nat /\ clock + Day \in Nat
  BY ConstantsAssumption DEF TaskRec, TypeOK
<1>2. IssueTaskLease(t, r).expires \in Nat
  BY <1>1, UnixType DEF IssueTaskLease
<1> QED
  BY <1>1, <1>2 DEF IssueTaskLease, Token

-----------------------------------------------------------------------------
\* The type invariant holds at the start and every operation keeps it.
LEMMA TypeInit == Init => TypeOK
<1> SUFFICES ASSUME Init PROVE TypeOK
  OBVIOUS
<1>1. PICK old \in SUBSET Task, w \in Worker, e \in 0..1 :
        fileTasks =
         [t \in Task |->
            IF \A i \in DOMAIN Seeds : Seeds[i] # t THEN NoTask
            ELSE IF t \in old THEN LegacyClaim(w, e) ELSE NewTask]
  BY Zenon DEF Init
<1>2. LegacyClaim(w, e) \in TaskRec
  BY DEF LegacyClaim, TaskRec, TaskState
<1>3. fileTasks \in [Task -> TaskRec]
  BY <1>1, <1>2, ConstantRecords
<1>4. tasks \in [Task -> TaskRec]
  BY ConstantRecords DEF Init
<1>5. order \in Seq(Task) /\ fileOrder \in Seq(Task)
  BY ConstantsAssumption DEF Init
<1>6. lease \in Nat /\ clock \in Nat \ {0}
  BY DEF Init
<1>7. up \in BOOLEAN /\ killed \in BOOLEAN /\ tokens \in SUBSET Token
  BY Zenon DEF Init
<1> QED
  BY <1>3, <1>4, <1>5, <1>6, <1>7 DEF TypeOK

\* Every operation keeps the types.
LEMMA TypeStep == TypeOK /\ [Next]_vars => TypeOK'
<1> SUFFICES ASSUME TypeOK, [Next]_vars PROVE TypeOK'
  OBVIOUS
<1> USE DEF TypeOK
<1>1. CASE Restart
  <2>1. Migrate(fileTasks) \in [Task -> TaskRec]
    BY ZenonT(60) DEF Migrate, RequeueRec, TaskRec, TaskState
  <2> QED
    BY <1>1, <2>1, ConstantsAssumption DEF Restart
<1>2. CASE Crash
  <2>1. tasks' \in [Task -> TaskRec] /\ order' \in Seq(Task)
    BY <1>2, ConstantRecords DEF Crash
  <2>2. up' \in BOOLEAN
    BY <1>2, Zenon DEF Crash
  <2> QED
    BY <1>2, <2>1, <2>2 DEF Crash
<1>3. CASE Tick
  BY <1>3 DEF Tick
<1>4. ASSUME NEW t \in Task, AddTask(t) PROVE TypeOK'
  <2>1. tasks' \in [Task -> TaskRec] /\ fileTasks' \in [Task -> TaskRec]
    BY <1>4, ConstantRecords DEF AddTask
  <2>2. order' \in Seq(Task) /\ fileOrder' \in Seq(Task)
    BY <1>4 DEF AddTask
  <2> QED
    BY <1>4, <2>1, <2>2 DEF AddTask
<1>5. ASSUME NEW w \in Worker, ClaimTask(w) PROVE TypeOK'
  <2>1. PICK t \in Task :
          LET r == ClaimRec(tasks[t], w) IN
          SaveFleets([tasks EXCEPT ![t] = r], [tasks EXCEPT ![t] = RequeueRec(r)],
                     {IssueTaskLease(t, r)})
    BY <1>5, Zenon DEF ClaimTask
  <2> DEFINE r == ClaimRec(tasks[t], w)
  <2>2. r \in TaskRec /\ RequeueRec(r) \in TaskRec
    BY RecordTypes, Zenon
  <2>3. r.owner \in Worker /\ r.version # 0
    BY DEF ClaimRec, TaskRec
  <2>4. IssueTaskLease(t, r) \in Token
    BY <2>2, <2>3, TokenType
  <2>5. /\ [tasks EXCEPT ![t] = r] \in [Task -> TaskRec]
        /\ [tasks EXCEPT ![t] = RequeueRec(r)] \in [Task -> TaskRec]
    BY <2>2
  <2>6. /\ tasks' \in [Task -> TaskRec]
        /\ fileTasks' \in [Task -> TaskRec]
        /\ tokens' \in SUBSET Token
    BY <2>1, <2>4, <2>5, SMTT(60) DEF SaveFleets
  <2> QED
    BY <1>5, <2>6 DEF ClaimTask
<1>6. ASSUME NEW tk \in tokens, NEW w \in Worker, HeartbeatTask(tk, w) PROVE TypeOK'
  <2> DEFINE r == HeartbeatRec(tasks[tk.task])
  <2>0. tk.task \in Task
    BY DEF Token
  <2>1. SaveFleets([tasks EXCEPT ![tk.task] = r], tasks, {IssueTaskLease(tk.task, r)})
    BY <1>6 DEF HeartbeatTask
  <2>2. r \in TaskRec
    BY <2>0, RecordTypes
  <2>3. r.owner \in Worker /\ r.version # 0
    BY <1>6, <2>0 DEF HeartbeatTask, Holds, HeartbeatRec, TaskRec
  <2>4. IssueTaskLease(tk.task, r) \in Token
    BY <2>0, <2>2, <2>3, TokenType
  <2>5. [tasks EXCEPT ![tk.task] = r] \in [Task -> TaskRec]
    BY <2>2, Zenon
  <2>6. /\ tasks' \in [Task -> TaskRec]
        /\ fileTasks' \in [Task -> TaskRec]
        /\ tokens' \in SUBSET Token
    BY <2>1, <2>4, <2>5 DEF SaveFleets
  <2> QED
    BY <1>6, <2>6 DEF HeartbeatTask
<1>7. ASSUME NEW tk \in tokens, NEW w \in Worker, CompleteTask(tk, w) PROVE TypeOK'
  <2>1. [tasks EXCEPT ![tk.task] = CompleteRec(@)] \in [Task -> TaskRec]
    BY RecordTypes, Zenon
  <2>2. /\ tasks' \in [Task -> TaskRec]
        /\ fileTasks' \in [Task -> TaskRec]
        /\ tokens' \in SUBSET Token
    BY <1>7, <2>1 DEF CompleteTask, SaveFleets
  <2> QED
    BY <1>7, <2>2 DEF CompleteTask
<1>8. ASSUME NEW tk \in tokens, NEW w \in Worker, NEW requeue \in BOOLEAN,
             FailTask(tk, w, requeue)
      PROVE TypeOK'
  <2>1. [tasks EXCEPT ![tk.task] = IF requeue THEN RequeueRec(@) ELSE FailRec(@)]
          \in [Task -> TaskRec]
    BY RecordTypes, Zenon
  <2>2. /\ tasks' \in [Task -> TaskRec]
        /\ fileTasks' \in [Task -> TaskRec]
        /\ tokens' \in SUBSET Token
    BY <1>8, <2>1 DEF FailTask, SaveFleets
  <2> QED
    BY <1>8, <2>2 DEF FailTask
<1>9. CASE SweepOnce
  <2>1. Swept \in [Task -> TaskRec]
    BY DEF Swept, RequeueRec, TaskRec, TaskState
  <2>2. /\ tasks' \in [Task -> TaskRec]
        /\ fileTasks' \in [Task -> TaskRec]
        /\ tokens' \in SUBSET Token
    BY <1>9, <2>1 DEF SweepOnce, SaveFleets
  <2> QED
    BY <1>9, <2>2 DEF SweepOnce
<1>10. CASE KillFleet
  BY <1>10, ConstantRecords DEF KillFleet
<1>11. CASE UNCHANGED vars
  BY <1>11 DEF vars
<1> QED
  BY <1>1, <1>2, <1>3, <1>4, <1>5, <1>6, <1>7, <1>8, <1>9, <1>10, <1>11 DEF Next

\* The board, the file and the tokens keep their types in every behaviour.
THEOREM TypeCorrect == Spec => []TypeOK
BY TypeInit, TypeStep, PTL DEF Spec

-----------------------------------------------------------------------------
(* The inductive invariant *)

\* What MemoryFollowsFile gives for one task of a running board.
LEMMA MemoryVersion ==
  ASSUME TypeOK, LeaseInv, up, NEW t \in Task
  PROVE  /\ fileTasks[t].version <= tasks[t].version
         /\ tasks[t].state # "pending" => tasks[t] = fileTasks[t]
         /\ tasks[t].state # "none" => ~killed
         /\ tasks[t].state = "none" => tasks[t] = NoTask
<1>1. tasks[t] = fileTasks[t] \/ AheadByRequeue(tasks[t], fileTasks[t])
  BY DEF LeaseInv, MemoryFollowsFile
<1>2. fileTasks[t].version \in Nat
  BY DEF TypeOK, TaskRec
<1>3. killed => fileTasks[t].state = "none"
  BY DEF LeaseInv, GoneIsEmpty, NoTask
<1>4. fileTasks[t].state = "none" => fileTasks[t] = NoTask
  BY DEF LeaseInv, GoneIsEmpty
<1> QED
  BY <1>1, <1>2, <1>3, <1>4 DEF AheadByRequeue, Expired

\* A save that issues nothing keeps the invariant when the new board moves no
\* version back and makes no claim: completion, failure, requeue, sweep, add.
LEMMA SaveKeeps ==
  ASSUME TypeOK, LeaseInv, up, ~killed,
         tasks' \in [Task -> TaskRec],
         \A t \in Task : /\ tasks[t].version <= tasks'[t].version
                         /\ tasks'[t].state = "claimed" => tasks'[t] = tasks[t]
                         /\ tasks'[t].state = "none" => tasks'[t] = tasks[t]
                         /\ tasks'[t].state = "pending" => tasks'[t].expiry = 0,
         fileTasks' = tasks', tokens' = tokens,
         up' = up, killed' = killed, clock' = clock
  PROVE  LeaseInv'
<1> USE DEF LeaseInv
<1>1. \A t \in Task : /\ fileTasks[t].version <= tasks'[t].version
                      /\ tasks'[t].state = "claimed" => tasks'[t] = fileTasks[t]
                      /\ tasks'[t].state = "none" => tasks'[t] = NoTask
  BY MemoryVersion, SMTT(60) DEF TypeOK, TaskRec
<1>2. \A tk \in tokens : tk.task \in Task /\ tk.version \in Nat
  BY DEF TypeOK, Token
<1>3. LeaseVersionsUnique'
  BY DEF LeaseVersionsUnique
<1>4. TokensBehindFile'
  BY <1>1, <1>2, SMTT(60) DEF TokensBehindFile, TypeOK, TaskRec
<1>5. TokenNamesClaim'
  BY <1>1, <1>2 DEF TokenNamesClaim, Unix
<1>6. ClaimHasToken'
  BY <1>1 DEF ClaimHasToken
<1>7. MemoryFollowsFile'
  BY DEF MemoryFollowsFile
<1>8. GoneIsEmpty'
  BY <1>1 DEF GoneIsEmpty
<1>9. PendingHasNoExpiry'
  BY DEF PendingHasNoExpiry
<1> QED
  BY <1>3, <1>4, <1>5, <1>6, <1>7, <1>8, <1>9

\* A save that issues a lease for the next version of one task keeps it.
LEMMA IssueKeeps ==
  ASSUME TypeOK, LeaseInv, up, NEW t \in Task, NEW r \in TaskRec,
         tasks[t].state # "none",
         r.state = "claimed", r.owner \in Worker, r.version = tasks[t].version + 1,
         tasks' = [tasks EXCEPT ![t] = r], fileTasks' = tasks',
         tokens' = tokens \cup {IssueTaskLease(t, r)},
         up' = up, killed' = killed, clock' = clock
  PROVE  LeaseInv'
<1> DEFINE new == IssueTaskLease(t, r)
<1> USE DEF LeaseInv
<1>1. \A u \in Task : /\ u # t => tasks'[u] = tasks[u]
                      /\ fileTasks[u].version <= tasks[u].version
                      /\ tasks[u].state # "pending" => tasks[u] = fileTasks[u]
                      /\ tasks[u].state = "none" => tasks[u] = NoTask
  BY MemoryVersion DEF TypeOK
<1>2. ~killed /\ tasks'[t] = r
  BY MemoryVersion DEF TypeOK
<1>3. /\ new.task = t /\ new.actor = r.owner /\ new.version = r.version
      /\ r.expiry # 0 => new.expires = Unix(r.expiry)
  BY DEF IssueTaskLease
<1>4. \A tk \in tokens : tk.task \in Task /\ tk.version \in Nat
  BY DEF TypeOK, Token
<1>5. \A u \in Task : fileTasks[u].version \in Nat /\ tasks[u].version \in Nat
  BY SMTT(60) DEF TypeOK, TaskRec
<1>6. \A tk \in tokens : tk.version <= tasks[tk.task].version
  BY <1>1, <1>2, <1>4, <1>5 DEF TokensBehindFile
<1>7. \A tk \in tokens : tk.task = t => tk.version # r.version
  BY <1>4, <1>5, <1>6
<1>8. LeaseVersionsUnique'
  BY <1>3, <1>7 DEF LeaseVersionsUnique
<1>9. TokensBehindFile'
  BY <1>1, <1>2, <1>3, <1>4, <1>5, <1>6 DEF TokensBehindFile
<1>10. TokenNamesClaim'
  <2> SUFFICES ASSUME NEW tk \in tokens', fileTasks'[tk.task].state = "claimed",
                      fileTasks'[tk.task].version = tk.version
               PROVE  /\ tk.actor = fileTasks'[tk.task].owner
                      /\ fileTasks'[tk.task].expiry # 0 =>
                           tk.expires = Unix(fileTasks'[tk.task].expiry)
    BY DEF TokenNamesClaim, Unix
  <2>1. CASE tk = new
    BY <1>2, <1>3, <2>1
  <2>2. CASE tk \in tokens
    BY <1>1, <1>2, <1>4, <1>7, <2>2 DEF TokenNamesClaim
  <2> QED
    BY <2>1, <2>2
<1>11. ClaimHasToken'
  BY <1>1, <1>2, <1>3 DEF ClaimHasToken
<1>12. MemoryFollowsFile'
  BY DEF MemoryFollowsFile
<1>13. GoneIsEmpty'
  BY <1>1, <1>2 DEF GoneIsEmpty
<1>14. PendingHasNoExpiry'
  BY <1>1, <1>2 DEF PendingHasNoExpiry
<1> QED
  BY <1>8, <1>9, <1>10, <1>11, <1>12, <1>13, <1>14

\* A step that leaves the file and the tokens alone keeps it when memory changes
\* only by requeues: a claim that could not be saved, a sweep that could not.
LEMMA MemoryKeeps ==
  ASSUME TypeOK, LeaseInv, up,
         \A t \in Task : \/ tasks'[t] = tasks[t]
                         \/ /\ AheadByRequeue(tasks'[t], fileTasks[t])
                            /\ tasks'[t].expiry = 0,
         UNCHANGED <<fileTasks, tokens, up, killed, clock>>
  PROVE  LeaseInv'
<1> USE DEF LeaseInv
<1>1. LeaseVersionsUnique' /\ TokensBehindFile'
  BY DEF LeaseVersionsUnique, TokensBehindFile
<1>2. TokenNamesClaim' /\ ClaimHasToken'
  BY DEF TokenNamesClaim, ClaimHasToken, Unix
<1>3. MemoryFollowsFile'
  BY DEF MemoryFollowsFile, AheadByRequeue, Expired
<1>4. GoneIsEmpty' /\ PendingHasNoExpiry'
  BY DEF GoneIsEmpty, PendingHasNoExpiry
<1> QED
  BY <1>1, <1>2, <1>3, <1>4

\* The invariant holds of the file a first start finds.
LEMMA LeaseInit == Init => LeaseInv
<1> SUFFICES ASSUME Init PROVE LeaseInv
  OBVIOUS
<1>1. /\ up = FALSE /\ killed = FALSE /\ tokens = {}
      /\ tasks = [t \in Task |-> NoTask]
  BY DEF Init
<1>2. \A t \in Task : \/ fileTasks[t] = NoTask
                      \/ fileTasks[t] = NewTask
                      \/ \E w \in Worker, e \in 0..1 : fileTasks[t] = LegacyClaim(w, e)
  BY DEF Init
<1>3. \A t \in Task : /\ fileTasks[t].state = "claimed" => fileTasks[t].version = 0
                      /\ fileTasks[t].state = "none" => fileTasks[t] = NoTask
                      /\ fileTasks[t].state = "pending" => fileTasks[t].expiry = 0
  <2> TAKE t \in Task
  <2>1. CASE fileTasks[t] = NoTask
    BY <2>1 DEF NoTask
  <2>2. CASE fileTasks[t] = NewTask
    BY <2>2 DEF NewTask, NoTask
  <2>3. ASSUME NEW w \in Worker, NEW e \in 0..1, fileTasks[t] = LegacyClaim(w, e)
        PROVE  fileTasks[t].state = "claimed" /\ fileTasks[t].version = 0
    BY <2>3 DEF LegacyClaim
  <2> QED
    BY <1>2, <2>1, <2>2, <2>3
<1>4. PendingHasNoExpiry
  BY <1>1, <1>3 DEF PendingHasNoExpiry, NoTask
<1> QED
  BY <1>1, <1>3, <1>4 DEF LeaseInv, LeaseVersionsUnique, TokensBehindFile, TokenNamesClaim,
                    ClaimHasToken, MemoryFollowsFile, GoneIsEmpty

\* Every operation keeps the invariant.
LEMMA LeaseStep == TypeOK /\ TypeOK' /\ LeaseInv /\ [Next]_vars => LeaseInv'
<1> SUFFICES ASSUME TypeOK, TypeOK', LeaseInv, [Next]_vars PROVE LeaseInv'
  OBVIOUS
<1>t. /\ \A u \in Task : tasks[u] \in TaskRec /\ fileTasks[u] \in TaskRec
      /\ \A tk \in tokens : tk.task \in Task /\ tk.version \in Nat \ {0}
  BY SMTT(60) DEF TypeOK, Token
<1>1. CASE Restart
  <2> USE <1>1 DEF Restart
  <2>1. \A t \in Task : /\ tasks'[t] = fileTasks'[t]
                        /\ fileTasks'[t].version = fileTasks[t].version
                        /\ fileTasks'[t].state = "claimed" =>
                             fileTasks'[t] = fileTasks[t] /\ fileTasks[t].version # 0
                        /\ fileTasks[t].state # "claimed" => fileTasks'[t] = fileTasks[t]
                        /\ fileTasks'[t].state = "none" => fileTasks'[t] = fileTasks[t]
                        /\ fileTasks'[t] # fileTasks[t] => fileTasks'[t].expiry = 0
    BY <1>t, ZenonT(60) DEF Migrate, RequeueRec, TaskRec
  <2>2. LeaseVersionsUnique' /\ TokensBehindFile'
    BY <1>t, <2>1 DEF LeaseInv, LeaseVersionsUnique, TokensBehindFile
  <2>3. TokenNamesClaim' /\ ClaimHasToken'
    BY <1>t, <2>1 DEF LeaseInv, TokenNamesClaim, ClaimHasToken, Unix
  <2>4. killed => \A t \in Task : fileTasks'[t] = fileTasks[t]
    BY <2>1 DEF LeaseInv, GoneIsEmpty, NoTask
  <2>5. killed' => fileTasks' = [t \in Task |-> NoTask]
    BY <2>4 DEF LeaseInv, GoneIsEmpty, TypeOK
  <2>6. MemoryFollowsFile' /\ GoneIsEmpty'
    BY <2>1, <2>5 DEF LeaseInv, MemoryFollowsFile, GoneIsEmpty
  <2>7. PendingHasNoExpiry'
    BY <2>1, SMTT(60) DEF LeaseInv, PendingHasNoExpiry
  <2> QED
    BY <2>2, <2>3, <2>6, <2>7 DEF LeaseInv
<1>2. CASE Crash
  BY <1>2, SMTT(60) DEF Crash, LeaseInv, LeaseVersionsUnique, TokensBehindFile, TokenNamesClaim,
              ClaimHasToken, MemoryFollowsFile, PendingHasNoExpiry, GoneIsEmpty,
              NoTask, Unix
<1>3. CASE Tick
  <2> USE <1>3 DEF Tick
  <2>1. \A r \in TaskRec : Expired(r) => Expired(r)'
    BY DEF Expired, TypeOK, TaskRec
  <2>2. MemoryFollowsFile'
    BY <1>t, <2>1, SMTT(60) DEF LeaseInv, MemoryFollowsFile, AheadByRequeue
  <2> QED
    BY <2>2 DEF LeaseInv, LeaseVersionsUnique, TokensBehindFile, TokenNamesClaim,
                ClaimHasToken, PendingHasNoExpiry, GoneIsEmpty, Unix
<1>4. ASSUME NEW t \in Task, AddTask(t) PROVE LeaseInv'
  <2>1. tasks[t] = NoTask
    BY <1>4, MemoryVersion DEF AddTask
  <2>2. \A u \in Task : /\ tasks[u].version <= tasks'[u].version
                        /\ tasks'[u].state = "claimed" => tasks'[u] = tasks[u]
                        /\ tasks'[u].state = "none" => tasks'[u] = tasks[u]
                        /\ tasks'[u].state = "pending" => tasks'[u].expiry = 0
    BY <1>4, <1>t, <2>1, SMTT(60) DEF AddTask, NewTask, NoTask, TypeOK, TaskRec, LeaseInv,
       PendingHasNoExpiry
  <2> QED
    BY <1>4, <2>2, SaveKeeps DEF AddTask, TypeOK
<1>5. ASSUME NEW w \in Worker, ClaimTask(w) PROVE LeaseInv'
  <2>1. PICK t \in Task :
          LET r == ClaimRec(tasks[t], w) IN
          /\ NextPending(t)
          /\ SaveFleets([tasks EXCEPT ![t] = r], [tasks EXCEPT ![t] = RequeueRec(r)],
                        {IssueTaskLease(t, r)})
    BY <1>5, Zenon DEF ClaimTask
  <2> DEFINE r == ClaimRec(tasks[t], w)
  <2>2. up /\ up' = up /\ killed' = killed /\ clock' = clock /\ tasks[t].state = "pending"
    BY <1>5, <2>1 DEF ClaimTask, NextPending
  <2>3. /\ r \in TaskRec /\ r.state = "claimed" /\ r.owner \in Worker
        /\ r.version = tasks[t].version + 1
    BY <1>t, RecordTypes DEF ClaimRec
  <2>4. CASE /\ tasks' = [tasks EXCEPT ![t] = r]
             /\ fileTasks' = tasks'
             /\ tokens' = tokens \cup {IssueTaskLease(t, r)}
    BY <2>2, <2>3, <2>4, IssueKeeps, ZenonT(60)
  <2>5. CASE /\ tasks' = [tasks EXCEPT ![t] = RequeueRec(r)]
             /\ UNCHANGED <<fileTasks, tokens>>
    <3>1. tasks[t] = fileTasks[t] \/ AheadByRequeue(tasks[t], fileTasks[t])
      BY <2>2 DEF LeaseInv, MemoryFollowsFile
    <3>2. tasks'[t] = RequeueRec(r) /\ \A u \in Task : u # t => tasks'[u] = tasks[u]
      BY <2>5 DEF TypeOK
    <3>3. /\ tasks'[t].state = "pending" /\ tasks'[t].expiry = 0
          /\ tasks'[t].version = tasks[t].version + 1
      BY <2>3, <3>2 DEF RequeueRec, TaskRec
    <3>4. fileTasks[t].version <= tasks'[t].version
      BY <1>t, <2>2, <3>3, MemoryVersion DEF TaskRec
    <3>5. AheadByRequeue(tasks'[t], fileTasks[t])
      BY <2>2, <3>1, <3>3, <3>4 DEF AheadByRequeue
    <3> QED
      BY <2>2, <2>5, <3>2, <3>3, <3>5, MemoryKeeps
  <2> QED
    BY <2>1, <2>4, <2>5 DEF SaveFleets
<1>6. ASSUME NEW tk \in tokens, NEW w \in Worker, HeartbeatTask(tk, w) PROVE LeaseInv'
  <2> DEFINE r == HeartbeatRec(tasks[tk.task])
  <2>1. /\ up /\ up' = up /\ killed' = killed /\ clock' = clock
        /\ tasks[tk.task].state = "claimed" /\ tasks[tk.task].owner = w
        /\ SaveFleets([tasks EXCEPT ![tk.task] = r], tasks, {IssueTaskLease(tk.task, r)})
    BY <1>6 DEF HeartbeatTask, Holds
  <2>2. tk.task \in Task
    BY <1>t
  <2>3. r \in TaskRec
    BY <1>t, RecordTypes
  <2>4. r.state = "claimed" /\ r.owner \in Worker /\ r.version = tasks[tk.task].version + 1
    BY <1>t, <2>1 DEF HeartbeatRec, TaskRec
  <2>5. CASE /\ tasks' = [tasks EXCEPT ![tk.task] = r]
             /\ fileTasks' = tasks'
             /\ tokens' = tokens \cup {IssueTaskLease(tk.task, r)}
    BY <2>1, <2>2, <2>3, <2>4, <2>5, IssueKeeps, Zenon
  <2>6. CASE tasks' = tasks /\ UNCHANGED <<fileTasks, tokens>>
    BY <2>1, <2>6, MemoryKeeps
  <2> QED
    BY <2>1, <2>5, <2>6 DEF SaveFleets
<1>7. ASSUME NEW tk \in tokens, NEW w \in Worker, NEW r \in TaskRec,
             up, Holds(tk, w),
             r.version = tasks[tk.task].version, r.state \notin {"claimed", "none"},
             r.expiry = 0,
             SaveFleets([tasks EXCEPT ![tk.task] = r], tasks, {}),
             UNCHANGED <<up, killed, clock>>
      PROVE LeaseInv'
  <2>1. CASE /\ tasks' = [tasks EXCEPT ![tk.task] = r]
             /\ fileTasks' = tasks'
             /\ tokens' = tokens
    <3>1. ~killed
      BY <1>7, <1>t, MemoryVersion DEF Holds
    <3>2. \A u \in Task : /\ tasks[u].version <= tasks'[u].version
                          /\ tasks'[u].state = "claimed" => tasks'[u] = tasks[u]
                          /\ tasks'[u].state = "none" => tasks'[u] = tasks[u]
                          /\ tasks'[u].state = "pending" => tasks'[u].expiry = 0
      BY <1>7, <1>t, <2>1, SMTT(60) DEF TypeOK, TaskRec, LeaseInv, PendingHasNoExpiry
    <3> QED
      BY <1>7, <2>1, <3>1, <3>2, SaveKeeps DEF TypeOK
  <2>2. CASE tasks' = tasks /\ UNCHANGED <<fileTasks, tokens>>
    BY <1>7, <2>2, MemoryKeeps
  <2> QED
    BY <1>7, <2>1, <2>2 DEF SaveFleets
<1>8. ASSUME NEW tk \in tokens, NEW w \in Worker, CompleteTask(tk, w) PROVE LeaseInv'
  <2> DEFINE r == CompleteRec(tasks[tk.task])
  <2>1. r \in TaskRec
    BY <1>t, RecordTypes
  <2>2. r.version = tasks[tk.task].version /\ r.state = "done" /\ r.expiry = 0
    BY <1>t DEF CompleteRec, TaskRec
  <2> QED
    BY <1>7, <1>8, <2>1, <2>2 DEF CompleteTask
<1>9. ASSUME NEW tk \in tokens, NEW w \in Worker, NEW requeue \in BOOLEAN,
             FailTask(tk, w, requeue)
      PROVE LeaseInv'
  <2> DEFINE r == IF requeue THEN RequeueRec(tasks[tk.task]) ELSE FailRec(tasks[tk.task])
  <2>0. r \in TaskRec
    BY <1>t, RecordTypes
  <2>1. r.version = tasks[tk.task].version /\ r.state \in {"pending", "failed"} /\ r.expiry = 0
    BY <1>t DEF RequeueRec, FailRec, TaskRec
  <2> QED
    BY <1>7, <1>9, <2>0, <2>1 DEF FailTask
<1>10. CASE SweepOnce
  <2>1. up /\ UNCHANGED <<up, killed, clock>> /\ tasks' = Swept
    BY <1>10, SMTT(60) DEF SweepOnce, SaveFleets
  <2>2. \A u \in Task : \/ tasks'[u] = tasks[u]
                        \/ /\ Expired(tasks[u])
                           /\ tasks'[u].state = "pending"
                           /\ tasks'[u].version = tasks[u].version
                           /\ tasks'[u].expiry = 0
    BY <1>t, <2>1, ZenonT(60) DEF Swept, RequeueRec, TaskRec
  <2>3. CASE fileTasks' = tasks' /\ tokens' = tokens
    <3>1. ~killed
      BY <1>10, <2>1, <2>2, MemoryVersion, SMTT(60) DEF SweepOnce, Expired, TypeOK, Swept
    <3>2. \A u \in Task : /\ tasks[u].version <= tasks'[u].version
                          /\ tasks'[u].state = "claimed" => tasks'[u] = tasks[u]
                          /\ tasks'[u].state = "none" => tasks'[u] = tasks[u]
                          /\ tasks'[u].state = "pending" => tasks'[u].expiry = 0
      BY <1>t, <2>2, SMTT(60) DEF TaskRec, LeaseInv, PendingHasNoExpiry
    <3> QED
      BY <2>1, <2>3, <3>1, <3>2, SaveKeeps, SMTT(60) DEF TypeOK
  <2>4. CASE UNCHANGED <<fileTasks, tokens>>
    <3>1. \A u \in Task : \/ tasks'[u] = tasks[u]
                          \/ /\ AheadByRequeue(tasks'[u], fileTasks[u])
                             /\ tasks'[u].expiry = 0
      BY <1>t, <2>1, <2>2, MemoryVersion, SMTT(60) DEF AheadByRequeue, Expired, TaskRec
    <3> QED
      BY <2>1, <2>4, <3>1, MemoryKeeps, SMTT(60)
  <2> QED
    BY <1>10, <2>3, <2>4 DEF SweepOnce, SaveFleets
<1>11. CASE KillFleet
  <2>1. \A t \in Task : /\ fileTasks'[t].state = "none" /\ fileTasks'[t] = NoTask
                        /\ tasks'[t] = fileTasks'[t]
    BY <1>11, SMTT(60) DEF KillFleet, NoTask
  <2> QED
    BY <1>11, <1>t, <2>1 DEF KillFleet, LeaseInv, LeaseVersionsUnique, TokensBehindFile,
                       TokenNamesClaim, ClaimHasToken, MemoryFollowsFile,
                       PendingHasNoExpiry, GoneIsEmpty
<1>12. CASE UNCHANGED vars
  BY <1>12 DEF vars, LeaseInv, LeaseVersionsUnique, TokensBehindFile, TokenNamesClaim,
               ClaimHasToken, MemoryFollowsFile, AheadByRequeue, Expired,
               PendingHasNoExpiry, GoneIsEmpty, Unix
<1> QED
  BY <1>1, <1>2, <1>3, <1>4, <1>5, <1>6, <1>8, <1>9, <1>10, <1>11, <1>12 DEF Next

\* LeaseInv holds in every behaviour: the file bounds every version handed out,
\* and memory is ahead of it by requeues only.
THEOREM LeaseInvariant == Spec => []LeaseInv
<1>1. Init => TypeOK /\ LeaseInv
  BY TypeInit, LeaseInit
<1>2. TypeOK /\ LeaseInv /\ [Next]_vars => (TypeOK /\ LeaseInv)'
  BY TypeStep, LeaseStep
<1> QED
  BY <1>1, <1>2, PTL DEF Spec

\* No version of a task is handed out twice, so an old token can never open a
\* later claim, whatever saves fail and whenever the control plane crashes.
THEOREM VersionsUnique == Spec => []LeaseVersionsUnique
<1>1. LeaseInv => LeaseVersionsUnique
  BY DEF LeaseInv
<1> QED
  BY <1>1, LeaseInvariant, PTL

\* A claimed task always has a token, for its version, in its owner's name.
THEOREM OwnerLease == Spec => []OwnerHoldsLease
<1>1. TypeOK /\ LeaseInv => OwnerHoldsLease
  <2> SUFFICES ASSUME TypeOK, LeaseInv, NEW t \in Task, tasks[t].state = "claimed"
               PROVE  \E tk \in tokens : /\ tk.task = t
                                         /\ tk.actor = tasks[t].owner
                                         /\ tk.version = tasks[t].version
    BY DEF OwnerHoldsLease
  <2>1. up
    BY DEF LeaseInv, GoneIsEmpty, NoTask
  <2>2. tasks[t] = fileTasks[t]
    BY <2>1, MemoryVersion
  <2> QED
    BY <2>1, <2>2, SMTT(60) DEF LeaseInv, ClaimHasToken, TokenNamesClaim
<1> QED
  BY <1>1, TypeCorrect, LeaseInvariant, PTL

\* What a worker was told survives a crash: a claim, completion or failure shown
\* in memory is the one in the file, and a settled task of the file is settled.
THEOREM Durable == Spec => []AnsweredIsDurable
<1>1. TypeOK /\ LeaseInv => AnsweredIsDurable
  <2> SUFFICES ASSUME TypeOK, LeaseInv, up, NEW t \in Task
               PROVE  /\ tasks[t].state \in {"claimed", "done", "failed"} =>
                           fileTasks[t] = tasks[t]
                      /\ fileTasks[t].state \in {"done", "failed"} =>
                           tasks[t] = fileTasks[t]
    BY ZenonT(60) DEF AnsweredIsDurable
  <2> QED
    BY DEF LeaseInv, MemoryFollowsFile, AheadByRequeue, Expired
<1> QED
  BY <1>1, TypeCorrect, LeaseInvariant, PTL

-----------------------------------------------------------------------------
(* What steps may not do *)

\* A token for a claim whose LeaseExpiry has passed is refused, so an expired
\* claim has no holder.
LEMMA ExpiredIsRefused ==
  ASSUME TypeOK, LeaseInv, NEW t \in Task, Expired(fileTasks[t]), NEW tk \in tokens,
         NEW w
  PROVE  ~VerifyTaskLease(tk, t, w, fileTasks[t])
<1> SUFFICES ASSUME VerifyTaskLease(tk, t, w, fileTasks[t]) PROVE FALSE
  OBVIOUS
<1>1. tk.expires = Unix(fileTasks[t].expiry)
  BY DEF VerifyTaskLease, Expired, LeaseInv, TokenNamesClaim
<1>2. fileTasks[t].expiry \in Nat /\ clock \in Nat /\ fileTasks[t].expiry <= clock
  BY SMTT(60) DEF Expired, TypeOK, TaskRec
<1>3. Unix(fileTasks[t].expiry) <= Unix(clock)
  BY <1>2, UnixMonotone
<1>4. Unix(fileTasks[t].expiry) \in Nat /\ Unix(clock) \in Nat
  BY <1>2, UnixType
<1> QED
  BY <1>1, <1>3, <1>4 DEF VerifyTaskLease

\* sweepOnce takes no task from a worker whose token would still be accepted.
THEOREM SweepSpares == Spec => SweepSparesLiveLeases
<1>1. ASSUME TypeOK, LeaseInv, SweepOnce, NEW t \in Task, tasks'[t] # tasks[t],
             NEW tk \in tokens, VerifyTaskLease(tk, t, tasks[t].owner, tasks[t])
      PROVE  FALSE
  <2>1. up /\ Expired(tasks[t])
    BY <1>1, SMTT(60) DEF SweepOnce, SaveFleets, Swept
  <2>2. tasks[t] = fileTasks[t]
    BY <1>1, <2>1, MemoryVersion DEF Expired
  <2> QED
    BY <1>1, <2>1, <2>2, ExpiredIsRefused
<1>2. TypeOK /\ LeaseInv =>
        [SweepOnce =>
           \A t \in Task :
             tasks'[t] # tasks[t] =>
               ~\E tk \in tokens : VerifyTaskLease(tk, t, tasks[t].owner, tasks[t])]_vars
  BY <1>1
<1> QED
  BY <1>2, TypeCorrect, LeaseInvariant, PTL DEF SweepSparesLiveLeases

\* Two instants a whole second apart have different Unix seconds.
LEMMA UnixStrict ==
  ASSUME NEW a \in Nat, NEW b \in Nat, a + Second <= b
  PROVE  Unix(a) < Unix(b)
<1> DEFINE qa == a \div Second
           qb == b \div Second
<1>0. Second \in Nat \ {0}
  BY ConstantsAssumption
<1>1. /\ qa \in Int
      /\ qb \in Int
      /\ Second * qa <= a
      /\ b < Second * (qb + 1)
  BY <1>0
<1>2. Second * (qa + 1) < Second * (qb + 1)
  BY <1>0, <1>1
<1>3. qa + 1 < qb + 1
  BY <1>0, <1>1, <1>2
<1> QED
  BY <1>1, <1>3 DEF Unix

\* The lease of the running board is one of the configured values.
LEMMA LeaseConfigured == Spec => [](up => lease \in Leases)
<1>1. Init => (up => lease \in Leases)
  BY SMTT(60) DEF Init
<1>2. (up => lease \in Leases) /\ [Next]_vars => (up => lease \in Leases)'
  BY Zenon DEF Next, vars, Restart, Crash, Tick, AddTask, ClaimTask, HeartbeatTask,
         CompleteTask, FailTask, SweepOnce, KillFleet
<1> QED
  BY <1>1, <1>2, PTL DEF Spec

\* When every lease setting is zero or at least a second, each token handed out
\* by ClaimTask or HeartbeatTask is accepted at once.
THEOREM IssuedUsable ==
  ASSUME Day >= Second, \A d \in Leases : d = 0 \/ d >= Second
  PROVE  Spec => IssuedLeaseIsUsable
<1> DEFINE LeaseSet == up => lease \in Leases
<1>1. ASSUME TypeOK, NEW t \in Task, NEW r \in TaskRec, NEW tk,
             r.state = "claimed", r.owner \in Worker,
             tasks' = [tasks EXCEPT ![t] = r], clock' = clock,
             tk = IssueTaskLease(t, r), Unix(clock) < tk.expires
      PROVE  (\E w \in Worker : Holds(tk, w))'
  <2>1. tk.task = t /\ tk.actor = r.owner /\ tk.version = r.version
    BY <1>1 DEF IssueTaskLease
  <2>2. tasks'[t] = r
    BY <1>1 DEF TypeOK
  <2>3. Unix(clock)' = Unix(clock)
    BY <1>1 DEF Unix
  <2>4. Holds(tk, r.owner)'
    BY <1>1, <2>1, <2>2, <2>3 DEF Holds, VerifyTaskLease
  <2> QED
    BY <1>1, <2>4
<1>2. ASSUME TypeOK, LeaseSet, up, NEW r \in TaskRec, NEW e, NEW tk, NEW t \in Task,
             r.expiry = Stamp(e), e.expiry = 0 \/ Unix(clock) < Unix(e.expiry),
             tk = IssueTaskLease(t, r)
      PROVE  Unix(clock) < tk.expires
  <2>1. clock \in Nat /\ Day \in Nat /\ lease \in Nat /\ Second \in Nat \ {0}
    BY <1>2, ConstantsAssumption DEF TypeOK
  <2>2. CASE lease > 0
    <3>1. r.expiry = clock + lease /\ lease >= Second
      BY <1>2, <2>1, <2>2 DEF Stamp
    <3>2. tk.expires = Unix(clock + lease)
      BY <1>2, <2>1, <2>2, <3>1 DEF IssueTaskLease
    <3> QED
      BY <2>1, <3>1, <3>2, UnixStrict
  <2>3. CASE ~(lease > 0) /\ e.expiry = 0
    <3>1. tk.expires = Unix(clock + Day)
      BY <1>2, <2>3 DEF Stamp, IssueTaskLease
    <3> QED
      BY <2>1, <3>1, UnixStrict
  <2>4. CASE ~(lease > 0) /\ e.expiry # 0
    BY <1>2, <2>4 DEF Stamp, IssueTaskLease
  <2> QED
    BY <2>2, <2>3, <2>4
<1>3. ASSUME TypeOK, LeaseInv, LeaseSet, NEW w \in Worker, ClaimTask(w),
             NEW tk \in tokens' \ tokens
      PROVE  (\E v \in Worker : Holds(tk, v))'
  <2>1. PICK t \in Task :
          LET r == ClaimRec(tasks[t], w) IN
          /\ NextPending(t)
          /\ SaveFleets([tasks EXCEPT ![t] = r], [tasks EXCEPT ![t] = RequeueRec(r)],
                        {IssueTaskLease(t, r)})
    BY <1>3, ZenonT(60) DEF ClaimTask
  <2> DEFINE r == ClaimRec(tasks[t], w)
  <2>2. up /\ clock' = clock /\ tasks[t].state = "pending" /\ tasks[t] \in TaskRec
    BY <1>3, <2>1 DEF ClaimTask, NextPending, TypeOK
  <2>3. r \in TaskRec
    BY <1>3, <2>2, RecordTypes, SMTT(60)
  <2>4. r.state = "claimed" /\ r.owner = w /\ r.expiry = Stamp(tasks[t])
    BY DEF ClaimRec
  <2>5. tk = IssueTaskLease(t, r) /\ tasks' = [tasks EXCEPT ![t] = r]
    BY <1>3, <2>1, SMTT(60) DEF SaveFleets
  <2>6. tasks[t].expiry = 0
    BY <1>3, <2>2, SMTT(60) DEF LeaseInv, PendingHasNoExpiry
  <2>7. Unix(clock) < tk.expires
    BY <1>2, <1>3, <2>2, <2>3, <2>4, <2>5, <2>6, SMTT(60)
  <2> QED
    BY <1>1, <1>3, <2>2, <2>3, <2>4, <2>5, <2>7, Zenon
<1>4. ASSUME TypeOK, LeaseInv, LeaseSet, NEW k \in tokens, NEW w \in Worker,
             HeartbeatTask(k, w), NEW tk \in tokens' \ tokens
      PROVE  (\E v \in Worker : Holds(tk, v))'
  <2> DEFINE t == k.task
             r == HeartbeatRec(tasks[t])
  <2>1. /\ up /\ clock' = clock
        /\ tasks[t].state = "claimed" /\ tasks[t].owner = w
        /\ k.version = tasks[t].version /\ Unix(clock) < k.expires
        /\ SaveFleets([tasks EXCEPT ![t] = r], tasks, {IssueTaskLease(t, r)})
    BY <1>4 DEF HeartbeatTask, Holds, VerifyTaskLease
  <2>2. t \in Task /\ tasks[t] \in TaskRec
    BY <1>4 DEF TypeOK, Token
  <2>3. r \in TaskRec
    BY <1>4, <2>2, RecordTypes
  <2>4. r.state = "claimed" /\ r.owner = w /\ r.expiry = Stamp(tasks[t])
    BY <2>1, <2>2 DEF HeartbeatRec, TaskRec
  <2>5. tk = IssueTaskLease(t, r) /\ tasks' = [tasks EXCEPT ![t] = r]
    BY <1>4, <2>1 DEF SaveFleets
  <2>6. tasks[t] = fileTasks[t]
    BY <1>4, <2>1, <2>2, MemoryVersion
  <2>7. tasks[t].expiry = 0 \/ Unix(clock) < Unix(tasks[t].expiry)
    BY <1>4, <2>1, <2>6 DEF LeaseInv, TokenNamesClaim
  <2>8. Unix(clock) < tk.expires
    BY <1>2, <1>4, <2>1, <2>2, <2>3, <2>4, <2>5, <2>7, SMTT(60)
  <2> QED
    BY <1>1, <1>4, <2>1, <2>2, <2>3, <2>4, <2>5, <2>8, ZenonT(60)
<1>5. ASSUME Next, NEW tk \in tokens' \ tokens
      PROVE  \/ \E w \in Worker : ClaimTask(w)
             \/ \E k \in tokens, w \in Worker : HeartbeatTask(k, w)
  BY <1>5 DEF Next, Restart, Crash, Tick, AddTask, CompleteTask, FailTask, SweepOnce,
              KillFleet, SaveFleets
<1>6. TypeOK /\ LeaseInv /\ LeaseSet /\ [Next]_vars =>
        [\A tk \in tokens' \ tokens : (\E w \in Worker : Holds(tk, w))']_vars
  BY <1>3, <1>4, <1>5
<1> QED
  BY <1>6, TypeCorrect, LeaseInvariant, LeaseConfigured, PTL DEF IssuedLeaseIsUsable, Spec

-----------------------------------------------------------------------------
(* Refinement of TaskLease *)

\* The holder of t as the file and the tokens alone determine it.
LiveHolder(t) ==
  {w \in Worker : /\ fileTasks[t].state = "claimed"
                  /\ fileTasks[t].owner = w
                  /\ \E k \in tokens : VerifyTaskLease(k, t, w, fileTasks[t])}

\* A task that is pending in the file, or whose lease is over, has no holder.
LEMMA Unheld ==
  ASSUME TypeOK, LeaseInv, NEW t \in Task,
         fileTasks[t].state # "claimed" \/ Expired(fileTasks[t])
  PROVE  LiveHolder(t) = {}
BY ExpiredIsRefused DEF LiveHolder

\* Whether the control plane is up, down or behind with its file, the holder a
\* request would find is the one the file determines.
LEMMA HoldersOfFile ==
  TypeOK /\ LeaseInv => \A t \in Task : Holders(t) = LiveHolder(t)
<1> SUFFICES ASSUME TypeOK, LeaseInv, NEW t \in Task PROVE Holders(t) = LiveHolder(t)
  OBVIOUS
<1>t. fileTasks[t] \in TaskRec /\ \A k \in tokens : k.actor \in Worker /\ k.version # 0
  BY DEF TypeOK, Token
<1>1. CASE Effective[t] = fileTasks[t]
  BY <1>1, <1>t DEF Holders, LiveHolder, VerifyTaskLease
<1>2. CASE up /\ tasks[t] # fileTasks[t]
  <2>1. AheadByRequeue(tasks[t], fileTasks[t])
    BY <1>2, SMTT(60) DEF LeaseInv, MemoryFollowsFile
  <2>2. Holders(t) = {}
    BY <1>2, <2>1 DEF Holders, Effective, AheadByRequeue
  <2>3. LiveHolder(t) = {}
    BY <2>1, Unheld DEF AheadByRequeue
  <2> QED
    BY <2>2, <2>3
<1>3. CASE ~up /\ Effective[t] # fileTasks[t]
  <2>1. fileTasks[t].version = 0 /\ Effective[t].state = "pending"
    BY <1>3, <1>t DEF Effective, Migrate, RequeueRec, TaskRec
  <2>2. Holders(t) = {} /\ LiveHolder(t) = {}
    BY <1>t, <2>1, SMTT(60) DEF Holders, LiveHolder, VerifyTaskLease
  <2> QED
    BY <2>2
<1> QED
  BY <1>1, <1>2, <1>3 DEF Effective

\* Saving a task that the operation did not touch changes neither its holder
\* nor its outcome, although the file may be catching up with memory.
LEMMA UntouchedTask ==
  ASSUME TypeOK, LeaseInv, up, NEW t \in Task, fileTasks'[t] = tasks[t],
         tokens \subseteq tokens', \A k \in tokens' \ tokens : k.task # t,
         clock' = clock, killed' = killed
  PROVE  LiveHolder(t)' = LiveHolder(t) /\ OutcomeOf(t)' = OutcomeOf(t)
<1>1. CASE tasks[t] = fileTasks[t]
  BY <1>1 DEF LiveHolder, VerifyTaskLease, Unix, OutcomeOf
<1>2. CASE tasks[t] # fileTasks[t]
  <2>1. AheadByRequeue(tasks[t], fileTasks[t])
    BY <1>2, SMTT(60) DEF LeaseInv, MemoryFollowsFile
  <2>2. LiveHolder(t) = {} /\ LiveHolder(t)' = {}
    BY <2>1, Unheld DEF AheadByRequeue, LiveHolder
  <2>3. OutcomeOf(t)' = OutcomeOf(t)
    BY <2>1 DEF OutcomeOf, AheadByRequeue, Expired
  <2> QED
    BY <2>2, <2>3
<1> QED
  BY <1>1, <1>2

\* A step that touches neither the file nor the tokens nor the clock is not seen.
LEMMA UnseenStep ==
  ASSUME UNCHANGED <<fileTasks, tokens, clock, killed>>
  PROVE  \A t \in Task : LiveHolder(t)' = LiveHolder(t) /\ OutcomeOf(t)' = OutcomeOf(t)
BY SMTT(60) DEF LiveHolder, OutcomeOf, VerifyTaskLease, Unix

\* The step relation of TaskLease in terms of LiveHolder.
AbstractStep ==
  \/ \A t \in Task : LiveHolder(t)' = LiveHolder(t) /\ OutcomeOf(t)' = OutcomeOf(t)
  \/ \E t \in Task, w \in Worker :
       /\ OutcomeOf(t) = "open" /\ LiveHolder(t) = {} /\ LiveHolder(t)' = {w}
       /\ \A u \in Task : /\ u # t => LiveHolder(u)' = LiveHolder(u)
                          /\ OutcomeOf(u)' = OutcomeOf(u)
  \/ \E t \in Task, w \in Worker, o \in {"done", "failed"} :
       /\ OutcomeOf(t) = "open" /\ LiveHolder(t) = {w} /\ LiveHolder(t)' = {}
       /\ OutcomeOf(t)' = o
       /\ \A u \in Task \ {t} : /\ LiveHolder(u)' = LiveHolder(u)
                                /\ OutcomeOf(u)' = OutcomeOf(u)
  \/ \A t \in Task : /\ LiveHolder(t)' \in {LiveHolder(t), {}}
                     /\ OutcomeOf(t)' = OutcomeOf(t)
  \/ \A t \in Task : LiveHolder(t)' = {} /\ OutcomeOf(t)' = "removed"

\* Such a step is a step of TaskLease or a stutter.
LEMMA AbstractStepMaps ==
  ASSUME TypeOK, LeaseInv, TypeOK', LeaseInv', AbstractStep
  PROVE  [Abstract!Next]_(Abstract!vars)
<1> DEFINE h == [t \in Task |-> Holders(t)]
           o == [t \in Task |-> OutcomeOf(t)]
<1>1. \A t \in Task : Holders(t) = LiveHolder(t)
  BY HoldersOfFile
<1>2. \A t \in Task : Holders(t)' = LiveHolder(t)'
  <2>1. (TypeOK /\ LeaseInv => \A t \in Task : Holders(t) = LiveHolder(t))'
    BY HoldersOfFile, PTL
  <2> QED
    BY <2>1
<1>3. CASE \A t \in Task : LiveHolder(t)' = LiveHolder(t) /\ OutcomeOf(t)' = OutcomeOf(t)
  <2>1. h' = h /\ o' = o
    BY <1>1, <1>2, <1>3
  <2> QED
    BY <2>1 DEF Abstract!vars
<1>4. ASSUME NEW t \in Task, NEW w \in Worker,
             OutcomeOf(t) = "open", LiveHolder(t) = {}, LiveHolder(t)' = {w},
             \A u \in Task : /\ u # t => LiveHolder(u)' = LiveHolder(u)
                             /\ OutcomeOf(u)' = OutcomeOf(u)
      PROVE  Abstract!Next
  <2>1. h' = [h EXCEPT ![t] = {w}] /\ o' = o /\ o[t] = "open" /\ h[t] = {}
    BY <1>1, <1>2, <1>4, Zenon
  <2> QED
    BY <1>4, <2>1, Zenon DEF Abstract!Next, Abstract!Grant
<1>5. ASSUME NEW t \in Task, NEW w \in Worker, NEW x \in {"done", "failed"},
             OutcomeOf(t) = "open", LiveHolder(t) = {w}, LiveHolder(t)' = {},
             OutcomeOf(t)' = x,
             \A u \in Task \ {t} : /\ LiveHolder(u)' = LiveHolder(u)
                                   /\ OutcomeOf(u)' = OutcomeOf(u)
      PROVE  Abstract!Next
  <2>1. /\ h' = [h EXCEPT ![t] = {}] /\ o' = [o EXCEPT ![t] = x]
        /\ o[t] = "open" /\ h[t] = {w}
    BY <1>1, <1>2, <1>5, Zenon
  <2> QED
    BY <1>5, <2>1, Zenon DEF Abstract!Next, Abstract!Settle
<1>6. CASE \A t \in Task : /\ LiveHolder(t)' \in {LiveHolder(t), {}}
                           /\ OutcomeOf(t)' = OutcomeOf(t)
  <2> DEFINE T == {t \in Task : LiveHolder(t)' = {}}
  <2>1. h' = [t \in Task |-> IF t \in T THEN {} ELSE h[t]] /\ o' = o
    BY <1>1, <1>2, <1>6
  <2> QED
    BY <2>1, ZenonT(60) DEF Abstract!Next, Abstract!Lapse
<1>7. CASE \A t \in Task : LiveHolder(t)' = {} /\ OutcomeOf(t)' = "removed"
  <2>1. h' = [t \in Task |-> {}] /\ o' = [t \in Task |-> "removed"]
    BY <1>2, <1>7
  <2> QED
    BY <2>1 DEF Abstract!Next, Abstract!Remove
<1> QED
  BY <1>3, <1>4, <1>5, <1>6, <1>7 DEF AbstractStep

\* Every operation takes the holders and outcomes through a step of TaskLease.
LEMMA StepIsAbstract ==
  ASSUME TypeOK, LeaseInv, TypeOK', LeaseInv', [Next]_vars
  PROVE  AbstractStep
<1>t. /\ \A u \in Task : tasks[u] \in TaskRec /\ fileTasks[u] \in TaskRec
      /\ \A tk \in tokens : tk.task \in Task /\ tk.version \in Nat \ {0} /\ tk.expires \in Nat
  BY DEF TypeOK, Token
<1>u. ASSUME UNCHANGED <<fileTasks, tokens, clock, killed>> PROVE AbstractStep
  BY <1>u, UnseenStep DEF AbstractStep
<1>1. CASE Restart
  <2>1. \A u \in Task : \/ fileTasks'[u] = fileTasks[u]
                        \/ /\ fileTasks[u].version = 0 /\ fileTasks[u].state = "claimed"
                           /\ fileTasks'[u].state = "pending"
    BY <1>1, <1>t, ZenonT(60) DEF Restart, Migrate, RequeueRec, TaskRec
  <2>2. \A u \in Task : OutcomeOf(u)' = OutcomeOf(u)
    BY <1>1, <2>1, SMTT(60) DEF Restart, OutcomeOf
  <2>3. \A u \in Task : LiveHolder(u)' = LiveHolder(u)
    BY <1>1, <1>t, <2>1 DEF Restart, LiveHolder, VerifyTaskLease, Unix
  <2> QED
    BY <2>2, <2>3 DEF AbstractStep
<1>2. CASE Crash
  BY <1>2, <1>u DEF Crash
<1>3. CASE Tick
  <2>1. clock \in Nat /\ clock' \in Nat /\ clock <= clock'
    BY <1>3 DEF Tick, TypeOK
  <2>2. Unix(clock) <= Unix(clock') /\ Unix(clock) \in Nat /\ Unix(clock') \in Nat
    BY <2>1, UnixMonotone, UnixType, SMTT(60)
  <2>3. ASSUME NEW k \in tokens, NEW u \in Task, NEW w,
               VerifyTaskLease(k, u, w, fileTasks[u])'
        PROVE  VerifyTaskLease(k, u, w, fileTasks[u])
    BY <1>3, <1>t, <2>2, <2>3, SMTT(60) DEF Tick, VerifyTaskLease, Unix
  <2>4. \A u \in Task : LiveHolder(u)' \subseteq LiveHolder(u)
    BY <1>3, <2>3 DEF Tick, LiveHolder
  <2>5. \A u \in Task : \A v, w \in LiveHolder(u) : v = w
    BY DEF LiveHolder
  <2>6. \A u \in Task : LiveHolder(u)' \in {LiveHolder(u), {}}
    BY <2>4, <2>5
  <2>7. \A u \in Task : OutcomeOf(u)' = OutcomeOf(u)
    BY <1>3, SMTT(60) DEF Tick, OutcomeOf
  <2> QED
    BY <2>6, <2>7 DEF AbstractStep
<1>4. ASSUME NEW t \in Task, AddTask(t) PROVE AbstractStep
  <2>1. /\ up /\ ~killed /\ tasks[t].state = "none" /\ fileTasks'[t] = NewTask
        /\ tokens' = tokens /\ clock' = clock /\ killed' = killed
        /\ \A u \in Task : u # t => fileTasks'[u] = tasks[u]
    BY <1>4 DEF AddTask, TypeOK
  <2>2. fileTasks[t] = tasks[t]
    BY <2>1, MemoryVersion, SMTT(60)
  <2>3. \A u \in Task : u # t => /\ LiveHolder(u)' = LiveHolder(u)
                                 /\ OutcomeOf(u)' = OutcomeOf(u)
    BY <2>1, UntouchedTask
  <2>4. LiveHolder(t) = {} /\ LiveHolder(t)' = {} /\ OutcomeOf(t)' = OutcomeOf(t)
    BY <2>1, <2>2 DEF LiveHolder, OutcomeOf, NewTask, NoTask
  <2> QED
    BY <2>3, <2>4 DEF AbstractStep
<1>5. ASSUME NEW w \in Worker, ClaimTask(w) PROVE AbstractStep
  <2>1. PICK t \in Task :
          LET r == ClaimRec(tasks[t], w) IN
          /\ NextPending(t)
          /\ SaveFleets([tasks EXCEPT ![t] = r], [tasks EXCEPT ![t] = RequeueRec(r)],
                        {IssueTaskLease(t, r)})
    BY <1>5, ZenonT(60) DEF ClaimTask
  <2> DEFINE r == ClaimRec(tasks[t], w)
  <2>2. up /\ killed' = killed /\ clock' = clock /\ tasks[t].state = "pending"
    BY <1>5, <2>1 DEF ClaimTask, NextPending
  <2>3. CASE UNCHANGED <<fileTasks, tokens>>
    BY <1>u, <2>2, <2>3
  <2>4. CASE /\ fileTasks' = [tasks EXCEPT ![t] = r]
             /\ tokens' = tokens \cup {IssueTaskLease(t, r)}
    <3>1. /\ fileTasks'[t] = r /\ r.state = "claimed" /\ r.owner = w
          /\ \A u \in Task : u # t => fileTasks'[u] = tasks[u]
      BY <2>4 DEF TypeOK, ClaimRec
    <3>2. IssueTaskLease(t, r).task = t
      BY DEF IssueTaskLease
    <3>3. \A u \in Task : u # t => /\ LiveHolder(u)' = LiveHolder(u)
                                   /\ OutcomeOf(u)' = OutcomeOf(u)
      BY <2>2, <2>4, <3>1, <3>2, UntouchedTask
    <3>4. tasks[t] = fileTasks[t] \/ AheadByRequeue(tasks[t], fileTasks[t])
      BY <2>2 DEF LeaseInv, MemoryFollowsFile
    <3>5. LiveHolder(t) = {}
      BY <2>2, <3>4, Unheld, SMTT(60) DEF AheadByRequeue
    <3>6. OutcomeOf(t) = "open" /\ OutcomeOf(t)' = "open"
      BY <2>2, <3>1, <3>4, MemoryVersion, SMTT(60) DEF OutcomeOf, AheadByRequeue, Expired
    <3>7. LiveHolder(t)' \in {{}, {w}}
      BY <3>1 DEF LiveHolder
    <3> QED
      BY <3>3, <3>5, <3>6, <3>7 DEF AbstractStep
  <2> QED
    BY <2>1, <2>3, <2>4 DEF SaveFleets
<1>6. ASSUME NEW k \in tokens, NEW w \in Worker, up, Holds(k, w),
             NEW r \in TaskRec, NEW issued,
             SaveFleets([tasks EXCEPT ![k.task] = r], tasks, issued),
             \A i \in issued : i.task = k.task,
             killed' = killed, clock' = clock,
             r.state = "claimed" => r.owner = w, r.state # "none"
      PROVE  AbstractStep
  <2> DEFINE t == k.task
  <2>0. t \in Task
    BY <1>t, SMTT(60)
  <2>1. tasks[t] = fileTasks[t] /\ ~killed /\ tasks[t].state = "claimed"
    BY <1>6, <2>0, MemoryVersion, SMTT(60) DEF Holds
  <2>2. LiveHolder(t) = {w} /\ OutcomeOf(t) = "open"
    BY <1>6, <2>0, <2>1, SMTT(60) DEF Holds, LiveHolder, OutcomeOf
  <2>3. CASE UNCHANGED <<fileTasks, tokens>>
    BY <1>6, <1>u, <2>3, SMTT(60)
  <2>4. CASE /\ fileTasks' = [tasks EXCEPT ![t] = r]
             /\ tokens' = tokens \cup issued
    <3>1. fileTasks'[t] = r /\ \A u \in Task : u # t => fileTasks'[u] = tasks[u]
      BY <2>0, <2>4, SMTT(60) DEF TypeOK
    <3>2. \A u \in Task : u # t => /\ LiveHolder(u)' = LiveHolder(u)
                                   /\ OutcomeOf(u)' = OutcomeOf(u)
      BY <1>6, <2>4, <3>1, UntouchedTask, SMTT(60)
    <3>3. CASE r.state = "claimed"
      <4>1. LiveHolder(t)' \in {{}, {w}}
        BY <1>6, <3>1, <3>3, SMTT(60) DEF LiveHolder
      <4>2. OutcomeOf(t)' = "open"
        BY <1>6, <2>1, <3>1, <3>3, SMTT(60) DEF OutcomeOf
      <4> QED
        BY <2>2, <3>2, <4>1, <4>2, SMTT(60) DEF AbstractStep
    <3>4. CASE r.state = "pending"
      <4>1. LiveHolder(t)' = {} /\ OutcomeOf(t)' = "open"
        BY <1>6, <2>1, <3>1, <3>4, SMTT(60) DEF LiveHolder, OutcomeOf
      <4> QED
        BY <2>2, <3>2, <4>1, SMTT(60) DEF AbstractStep
    <3>5. CASE r.state \in {"done", "failed"}
      <4>1. LiveHolder(t)' = {} /\ OutcomeOf(t)' = r.state
        BY <1>6, <2>1, <3>1, <3>5, SMTT(60) DEF LiveHolder, OutcomeOf
      <4> QED
        BY <2>0, <2>2, <3>2, <3>5, <4>1, SMTT(60) DEF AbstractStep
    <3> QED
      BY <1>6, <3>3, <3>4, <3>5 DEF TaskRec, TaskState
  <2> QED
    BY <1>6, <2>3, <2>4 DEF SaveFleets
<1>7. ASSUME NEW k \in tokens, NEW w \in Worker, HeartbeatTask(k, w) PROVE AbstractStep
  <2> DEFINE r == HeartbeatRec(tasks[k.task])
  <2>1. r \in TaskRec
    BY <1>t, RecordTypes, SMTT(60)
  <2>2. tasks[k.task].state = "claimed" /\ tasks[k.task].owner = w /\ up /\ Holds(k, w)
    BY <1>7 DEF HeartbeatTask, Holds
  <2>3. r.state = "claimed" /\ r.owner = w
    BY <1>t, <2>2, SMTT(60) DEF HeartbeatRec, TaskRec
  <2>4. \A i \in {IssueTaskLease(k.task, r)} : i.task = k.task
    BY DEF IssueTaskLease
  <2>5. /\ SaveFleets([tasks EXCEPT ![k.task] = r], tasks, {IssueTaskLease(k.task, r)})
        /\ killed' = killed /\ clock' = clock
    BY <1>7, SMTT(60) DEF HeartbeatTask
  <2> QED
    BY <1>6, <2>1, <2>2, <2>3, <2>4, <2>5, SMTT(60)
<1>8. ASSUME NEW k \in tokens, NEW w \in Worker, CompleteTask(k, w) PROVE AbstractStep
  <2> DEFINE r == CompleteRec(tasks[k.task])
  <2>1. r \in TaskRec
    BY <1>t, RecordTypes
  <2>2. r.state = "done"
    BY <1>t, SMTT(60) DEF CompleteRec, TaskRec
  <2> QED
    BY <1>6, <1>8, <2>1, <2>2 DEF CompleteTask
<1>9. ASSUME NEW k \in tokens, NEW w \in Worker, NEW requeue \in BOOLEAN,
             FailTask(k, w, requeue)
      PROVE  AbstractStep
  <2> DEFINE r == IF requeue THEN RequeueRec(tasks[k.task]) ELSE FailRec(tasks[k.task])
  <2>1. r \in TaskRec
    BY <1>t, RecordTypes
  <2>2. r.state \in {"pending", "failed"}
    BY <1>t DEF RequeueRec, FailRec, TaskRec
  <2> QED
    BY <1>6, <1>9, <2>1, <2>2, SMTT(60) DEF FailTask
<1>10. CASE SweepOnce
  <2>1. up /\ killed' = killed /\ clock' = clock
    BY <1>10 DEF SweepOnce
  <2>2. CASE UNCHANGED <<fileTasks, tokens>>
    BY <1>u, <2>1, <2>2
  <2>3. CASE fileTasks' = Swept /\ tokens' = tokens
    <3> SUFFICES ASSUME NEW u \in Task
                 PROVE  LiveHolder(u)' = LiveHolder(u) /\ OutcomeOf(u)' = OutcomeOf(u)
      BY SMTT(60) DEF AbstractStep
    <3>1. CASE Expired(tasks[u])
      <4>1. fileTasks'[u].state = "pending"
        BY <1>t, <2>3, <3>1, ZenonT(60) DEF Swept, RequeueRec, TaskRec
      <4>2. fileTasks[u] = tasks[u]
        BY <2>1, <3>1, MemoryVersion, SMTT(60) DEF Expired
      <4>3. LiveHolder(u) = {} /\ LiveHolder(u)' = {}
        BY <3>1, <4>1, <4>2, Unheld, SMTT(60) DEF LiveHolder
      <4> QED
        BY <2>1, <3>1, <4>1, <4>2, <4>3, SMTT(60) DEF OutcomeOf, Expired
    <3>2. CASE ~Expired(tasks[u])
      BY <2>1, <2>3, <3>2, UntouchedTask, SMTT(60) DEF Swept
    <3> QED
      BY <3>1, <3>2, SMTT(60)
  <2> QED
    BY <1>10, <2>2, <2>3 DEF SweepOnce, SaveFleets
<1>11. CASE KillFleet
  <2>1. \A u \in Task : LiveHolder(u)' = {} /\ OutcomeOf(u)' = "removed"
    BY <1>11 DEF KillFleet, LiveHolder, OutcomeOf, NoTask
  <2> QED
    BY <2>1, SMTT(60) DEF AbstractStep
<1>12. CASE UNCHANGED vars
  BY <1>12, <1>u DEF vars
<1> QED
  BY <1>1, <1>2, <1>3, <1>4, <1>5, <1>7, <1>8, <1>9, <1>10, <1>11, <1>12 DEF Next

\* The board with its tokens, file, crashes and sweeper implements TaskLease:
\* at any moment at most one worker's lease would be honoured, only that worker
\* settles the task, and a settled task stays settled.
THEOREM Refinement == Spec => ImplementsTaskLease
<1>1. Init => Abstract!Init
  <2> SUFFICES ASSUME Init PROVE Abstract!Init
    OBVIOUS
  <2>1. tokens = {} /\ ~killed
    BY SMTT(60) DEF Init
  <2>2. \A t \in Task : Holders(t) = {}
    BY <2>1, SMTT(60) DEF Holders
  <2>3. \A t \in Task : fileTasks[t].state \notin {"done", "failed"}
    <3>1. \A t \in Task : \/ fileTasks[t] = NoTask
                          \/ fileTasks[t] = NewTask
                          \/ \E w \in Worker, e \in 0..1 : fileTasks[t] = LegacyClaim(w, e)
      BY DEF Init
    <3>2. \A w \in Worker, e \in 0..1 : LegacyClaim(w, e).state = "claimed"
      BY DEF LegacyClaim
    <3>3. NoTask.state = "none" /\ NewTask.state = "pending"
      BY DEF NoTask, NewTask
    <3> QED
      BY <3>1, <3>2, <3>3, ZenonT(60)
  <2>4. \A t \in Task : OutcomeOf(t) = "open"
    BY <2>1, <2>3 DEF OutcomeOf
  <2> QED
    BY <2>2, <2>4 DEF Abstract!Init
<1>2. TypeOK /\ LeaseInv /\ (TypeOK /\ LeaseInv)' /\ [Next]_vars => [Abstract!Next]_(Abstract!vars)
  BY StepIsAbstract, AbstractStepMaps
<1> QED
  BY <1>1, <1>2, TypeCorrect, LeaseInvariant, PTL DEF Spec, ImplementsTaskLease, Abstract!Spec
=============================================================================
