----------------------------- MODULE CohortBoard -----------------------------
(***************************************************************************)
(* One Cohort's Command Board: the in-memory task board of internal/fleet, *)
(* the signed task leases of leasetoken.go and the durable fleets.json of  *)
(* fleetstore.go, as Manager drives them in internal/controlplane/fleet.go.*)
(*                                                                         *)
(* Every Manager operation holds fleetOpMu across the board transition and *)
(* the save, so an operation is one step; writeStateFile replaces the file *)
(* atomically, so a save either happens or leaves the old file.  A crash   *)
(* inside an operation is a crash before or after it.                      *)
(*                                                                         *)
(* Time is counted in ticks, Second of them to a Unix second.  A zero      *)
(* LeaseExpiry is the number 0; the clock starts at 1.                     *)
(***************************************************************************)
EXTENDS Integers, Sequences

CONSTANTS
  Task,       \* task identifiers, as newID draws them
  Worker,     \* actors that claim tasks
  NoOwner,    \* the empty owner
  Seeds,      \* tasks on the file when the control plane first starts, in order
  Leases,     \* values RUNEWARD_FLEET_LEASE may have at a start; 0 disables
  Second,     \* ticks in a second, the resolution of a token's expiry
  Day,        \* ticks in the 24 hours a token lasts when leasing is disabled
  MaxVersion, \* bound on claims and heartbeats of one task
  LastOp,     \* bound: no claim or heartbeat at or after this tick
  MaxClock    \* bound on the clock

ASSUME ConstantsAssumption ==
  /\ NoOwner \notin Worker
  /\ Seeds \in Seq(Task)
  /\ Leases \in SUBSET Nat
  /\ Second \in Nat \ {0}
  /\ Day \in Nat
  /\ MaxVersion \in Nat
  /\ LastOp \in Nat
  /\ MaxClock \in Nat

VARIABLES
  up,        \* the control plane is running
  lease,     \* the board's lease duration, read at start
  tasks,     \* Board.tasks in memory
  order,     \* Board.order in memory
  fileTasks, \* the tasks of fleets.json
  fileOrder, \* their order
  killed,    \* the Cohort was removed (memory and file agree on this)
  tokens,    \* every lease token the control plane has handed out
  clock      \* time.Now(), in ticks

vars == <<up, lease, tasks, order, fileTasks, fileOrder, killed, tokens, clock>>

-----------------------------------------------------------------------------
(* Tasks and tokens *)

TaskState == {"none", "pending", "claimed", "done", "failed"}

TaskRec ==
  [state: TaskState, owner: Worker \cup {NoOwner}, version: Nat, expiry: Nat]

Token == [task: Task, actor: Worker, version: Nat \ {0}, expires: Nat]

NoTask == [state |-> "none", owner |-> NoOwner, version |-> 0, expiry |-> 0]

NewTask == [NoTask EXCEPT !.state = "pending"]

\* A claim written by a release that did not sign leases.
LegacyClaim(w, e) ==
  [state |-> "claimed", owner |-> w, version |-> 0, expiry |-> e]

\* Time.Unix
Unix(x) == x \div Second

\* issueTaskLease
IssueTaskLease(t, r) ==
  [task    |-> t,
   actor   |-> r.owner,
   version |-> r.version,
   expires |-> Unix(IF r.expiry = 0 THEN clock + Day ELSE r.expiry)]

\* Mutant of VerifyTaskLease: the expiry second itself still counts as live.
VerifyTaskLeaseInclusive(tk, t, w, r) ==
  tk.task = t /\ tk.actor = w /\ tk.version = r.version /\ Unix(clock) <= tk.expires

\* verifyTaskLease: tk opens task t, whose record is r, to the caller w.
VerifyTaskLease(tk, t, w, r) ==
  /\ tk.task = t
  /\ tk.actor = w
  /\ tk.version = r.version
  /\ Unix(clock) < tk.expires

-----------------------------------------------------------------------------
(* Board transitions, on one task record *)

\* The lease stamp that Claim and Heartbeat share.
Stamp(r) == IF lease > 0 THEN clock + lease ELSE r.expiry

ClaimRec(r, w) ==
  [state |-> "claimed", owner |-> w, version |-> r.version + 1, expiry |-> Stamp(r)]

HeartbeatRec(r) == [r EXCEPT !.version = @ + 1, !.expiry = Stamp(r)]

CompleteRec(r) == [r EXCEPT !.state = "done", !.expiry = 0]

FailRec(r) == [r EXCEPT !.state = "failed", !.expiry = 0]

\* Fail with requeue, and what Sweep does to an expired task.
RequeueRec(r) ==
  [r EXCEPT !.state = "pending", !.owner = NoOwner, !.expiry = 0]

\* Claim's scan of Board.order: t is the oldest pending task.
NextPending(t) ==
  \E i \in DOMAIN order :
    /\ order[i] = t
    /\ tasks[t].state = "pending"
    /\ \A j \in 1..(i-1) : tasks[order[j]].state # "pending"

\* Mutant of Expired: the zero test is the wrong way round.
ExpiredInverted(r) == r.state = "claimed" /\ r.expiry = 0

Expired(r) ==
  /\ r.state = "claimed"
  /\ r.expiry # 0
  /\ clock > r.expiry

\* Board.Sweep
Swept == [t \in Task |-> IF Expired(tasks[t]) THEN RequeueRec(tasks[t]) ELSE tasks[t]]

\* Mutant of Migrate: legacy claims are loaded as they are.
MigrateNone(ts) == ts

\* The migration in loadFleets: claims with no lease version are requeued.
Migrate(ts) ==
  [t \in Task |->
     IF ts[t].state = "claimed" /\ ts[t].version = 0
     THEN RequeueRec(ts[t]) ELSE ts[t]]

-----------------------------------------------------------------------------
(* Durable state *)

\* saveFleets at the end of an operation whose board is ts: the file now holds
\* the board and the operation answers with the lease tokens issued, or the
\* operation fails and leaves the board as undone.
SaveFleets(ts, undone, issued) ==
  \/ /\ tasks' = ts
     /\ fileTasks' = ts
     /\ tokens' = tokens \cup issued
  \/ /\ tasks' = undone
     /\ UNCHANGED <<fileTasks, tokens>>

-----------------------------------------------------------------------------
(* Operations *)

Init ==
  /\ up = FALSE
  /\ lease = 0
  /\ tasks = [t \in Task |-> NoTask]
  /\ order = <<>>
  /\ fileOrder = Seeds
  /\ \E old \in SUBSET Task, w \in Worker, e \in 0..1 :
       fileTasks =
         [t \in Task |->
            IF \A i \in DOMAIN Seeds : Seeds[i] # t THEN NoTask
            ELSE IF t \in old THEN LegacyClaim(w, e) ELSE NewTask]
  /\ killed = FALSE
  /\ tokens = {}
  /\ clock = 1

\* New, loadFleets: the board is rebuilt from the file and migrated.  When a
\* migration cannot be saved New fails and the process does not come up.
Restart ==
  /\ ~up
  /\ up' = TRUE
  /\ lease' \in Leases
  /\ tasks' = Migrate(fileTasks)
  /\ fileTasks' = Migrate(fileTasks)
  /\ order' = fileOrder
  /\ UNCHANGED <<fileOrder, killed, tokens, clock>>

Crash ==
  /\ up
  /\ up' = FALSE
  /\ tasks' = [t \in Task |-> NoTask]
  /\ order' = <<>>
  /\ UNCHANGED <<lease, fileTasks, fileOrder, killed, tokens, clock>>

Tick ==
  /\ clock < MaxClock
  /\ clock' = clock + 1
  /\ UNCHANGED <<up, lease, tasks, order, fileTasks, fileOrder, killed, tokens>>

\* AddTask.  A save that fails removes the task again.
AddTask(t) ==
  /\ up /\ ~killed
  /\ tasks[t].state = "none"
  /\ tasks' = [tasks EXCEPT ![t] = NewTask]
  /\ fileTasks' = tasks'
  /\ order' = Append(order, t)
  /\ fileOrder' = order'
  /\ UNCHANGED <<up, lease, killed, tokens, clock>>

\* ClaimTask.  When the lease cannot be signed or the claim cannot be saved the
\* task goes back to pending with Board.Fail, which keeps the new version.
ClaimTask(w) ==
  /\ up
  /\ clock < LastOp
  /\ \E t \in Task :
       LET r == ClaimRec(tasks[t], w) IN
       /\ NextPending(t)
       /\ r.version <= MaxVersion
       /\ SaveFleets([tasks EXCEPT ![t] = r],
                     [tasks EXCEPT ![t] = RequeueRec(r)],
                     {IssueTaskLease(t, r)})
  /\ UNCHANGED <<up, lease, order, fileOrder, killed, clock>>

\* Mutant of Holds: the board's owner check alone, without the token.
HoldsNoToken(tk, w) ==
  /\ tasks[tk.task].state = "claimed"
  /\ tasks[tk.task].owner = w

\* What the three operations of a lease holder check: the token against the
\* task's current version, then the board's own state and owner conditions.
Holds(tk, w) ==
  /\ VerifyTaskLease(tk, tk.task, w, tasks[tk.task])
  /\ tasks[tk.task].state = "claimed"
  /\ tasks[tk.task].owner = w

\* HeartbeatTask.  When signing or saving fails, Board.Restore puts the task
\* back as it was.
HeartbeatTask(tk, w) ==
  LET r == HeartbeatRec(tasks[tk.task]) IN
  /\ up
  /\ clock < LastOp
  /\ Holds(tk, w)
  /\ r.version <= MaxVersion
  /\ SaveFleets([tasks EXCEPT ![tk.task] = r], tasks, {IssueTaskLease(tk.task, r)})
  /\ UNCHANGED <<up, lease, order, fileOrder, killed, clock>>

\* CompleteTask
CompleteTask(tk, w) ==
  /\ up
  /\ Holds(tk, w)
  /\ SaveFleets([tasks EXCEPT ![tk.task] = CompleteRec(@)], tasks, {})
  /\ UNCHANGED <<up, lease, order, fileOrder, killed, clock>>

\* FailTask
FailTask(tk, w, requeue) ==
  /\ up
  /\ Holds(tk, w)
  /\ SaveFleets([tasks EXCEPT ![tk.task] = IF requeue THEN RequeueRec(@) ELSE FailRec(@)],
                tasks, {})
  /\ UNCHANGED <<up, lease, order, fileOrder, killed, clock>>

\* sweepOnce.  A save that fails is logged and nothing is undone.
SweepOnce ==
  /\ up
  /\ Swept # tasks
  /\ SaveFleets(Swept, Swept, {})
  /\ UNCHANGED <<up, lease, order, fileOrder, killed, clock>>

\* KillFleet.  A save that fails puts the Cohort back.
KillFleet ==
  /\ up /\ ~killed
  /\ killed' = TRUE
  /\ tasks' = [t \in Task |-> NoTask]
  /\ fileTasks' = tasks'
  /\ order' = <<>>
  /\ fileOrder' = <<>>
  /\ UNCHANGED <<up, lease, tokens, clock>>

Next ==
  \/ Restart
  \/ Crash
  \/ Tick
  \/ \E t \in Task : AddTask(t)
  \/ \E w \in Worker : ClaimTask(w)
  \/ \E tk \in tokens, w \in Worker : HeartbeatTask(tk, w)
  \/ \E tk \in tokens, w \in Worker : CompleteTask(tk, w)
  \/ \E tk \in tokens, w \in Worker, requeue \in BOOLEAN : FailTask(tk, w, requeue)
  \/ SweepOnce
  \/ KillFleet

Spec == Init /\ [][Next]_vars

\* The sweeper goroutine's ticker fires every 30 seconds, time passes, and an
\* operator or supervisor starts a stopped control plane again.
FairSpec == Spec /\ WF_vars(Restart) /\ WF_vars(Tick) /\ WF_vars(SweepOnce)

-----------------------------------------------------------------------------
(* Properties *)

\* Type invariant of the board, the file, the tokens and the clock.
TypeOK ==
  /\ up \in BOOLEAN
  /\ lease \in Nat
  /\ tasks \in [Task -> TaskRec]
  /\ order \in Seq(Task)
  /\ fileTasks \in [Task -> TaskRec]
  /\ fileOrder \in Seq(Task)
  /\ killed \in BOOLEAN
  /\ tokens \in SUBSET Token
  /\ clock \in Nat \ {0}

\* No lease version of a task is ever handed out twice, so a token names one
\* claim or heartbeat for ever: failed saves that are rolled back, crashes that
\* fall back to the file and lost sweeps never bring an old version back
\* (Task.LeaseVersion, "an older signed lease cannot be replayed").
LeaseVersionsUnique ==
  \A a, b \in tokens : a.task = b.task /\ a.version = b.version => a = b

\* A task the running board shows as claimed has a token, handed out to its
\* owner, for exactly its current version: no claim is left that nobody can
\* heartbeat or finish (loadFleets' migration, ClaimTask's and HeartbeatTask's
\* roll back).
OwnerHoldsLease ==
  \A t \in Task :
    tasks[t].state = "claimed" =>
      \E tk \in tokens :
        /\ tk.task = t
        /\ tk.actor = tasks[t].owner
        /\ tk.version = tasks[t].version

\* The board in memory and the file agree on which tasks are settled and how,
\* and a task that is claimed in memory is the same claim in the file: what a
\* worker was told survives a crash at any point (saveFleets under fleetOpMu
\* with Restore on failure).
AnsweredIsDurable ==
  up => \A t \in Task :
    /\ tasks[t].state \in {"claimed", "done", "failed"} => fileTasks[t] = tasks[t]
    /\ fileTasks[t].state \in {"done", "failed"} => tasks[t] = fileTasks[t]

\* How the board in memory may run ahead of the file: by requeues only.  The
\* file may still show a claim whose lease is over (sweepOnce could not save) or
\* an older version of a pending task (ClaimTask could not save).
AheadByRequeue(m, f) ==
  /\ m.state = "pending"
  /\ f.version <= m.version
  /\ f.state = "pending" \/ Expired(f)

\* The file bounds every version handed out.
TokensBehindFile ==
  ~killed => \A tk \in tokens : tk.version <= fileTasks[tk.task].version

\* A token with the file's version of a claim stands for that claim.
TokenNamesClaim ==
  \A tk \in tokens :
    fileTasks[tk.task].state = "claimed" /\ fileTasks[tk.task].version = tk.version =>
      /\ tk.actor = fileTasks[tk.task].owner
      /\ fileTasks[tk.task].expiry # 0 => tk.expires = Unix(fileTasks[tk.task].expiry)

\* Every claim of the file has its token, legacy ones excepted until a start.
ClaimHasToken ==
  \A t \in Task :
    fileTasks[t].state = "claimed" /\ (up \/ fileTasks[t].version # 0) =>
      \E tk \in tokens : tk.task = t /\ tk.version = fileTasks[t].version

MemoryFollowsFile ==
  up => \A t \in Task :
    tasks[t] = fileTasks[t] \/ AheadByRequeue(tasks[t], fileTasks[t])

GoneIsEmpty ==
  /\ ~up => tasks = [t \in Task |-> NoTask]
  /\ killed => fileTasks = [t \in Task |-> NoTask]
  /\ \A t \in Task : fileTasks[t].state = "none" => fileTasks[t] = NoTask

\* A requeue leaves no deadline behind that a later claim could inherit.
PendingHasNoExpiry ==
  \A t \in Task :
    /\ tasks[t].state = "pending" => tasks[t].expiry = 0
    /\ fileTasks[t].state = "pending" => fileTasks[t].expiry = 0

\* The inductive invariant behind the guarantees of the lease: the file bounds
\* every version handed out, names the claim each current token stands for, and
\* lags behind memory by requeues only.  It is what saveFleets before the answer,
\* the roll backs and loadFleets keep between them.
LeaseInv ==
  /\ LeaseVersionsUnique
  /\ TokensBehindFile
  /\ TokenNamesClaim
  /\ ClaimHasToken
  /\ MemoryFollowsFile
  /\ PendingHasNoExpiry
  /\ GoneIsEmpty

\* sweepOnce never takes a task from a worker whose token would still be
\* accepted, although the board compares ticks and the token whole seconds.
SweepSparesLiveLeases ==
  [][SweepOnce =>
       \A t \in Task :
         tasks'[t] # tasks[t] => ~\E tk \in tokens : VerifyTaskLease(tk, t, tasks[t].owner, tasks[t])]_vars

\* A token handed out by ClaimTask or HeartbeatTask is accepted at the moment it
\* is handed out, whatever lease setting the control plane was restarted with.
IssuedLeaseIsUsable ==
  [][\A tk \in tokens' \ tokens : (\E w \in Worker : Holds(tk, w))']_vars

\* A worker that stays silent loses the task: if the control plane stays up, a
\* claim with a lease is followed by a new version or by the end of the claim
\* (sweepOnce; docs/fleets.md "If a worker dies, its lease expires and the task
\* is reclaimed by another").
SilentWorkerRequeued ==
  <>[]up =>
    \A t \in Task, v \in 1..MaxVersion :
      (/\ tasks[t].state = "claimed"
       /\ tasks[t].expiry # 0
       /\ tasks[t].version = v)
        ~> (tasks[t].state # "claimed" \/ tasks[t].version # v)

-----------------------------------------------------------------------------
(* Refinement *)

\* The board as the next request will find it.
Effective == IF up THEN tasks ELSE Migrate(fileTasks)

\* The workers with a token that the board would honour for t.
Holders(t) ==
  {tk.actor : tk \in {k \in tokens :
     /\ Effective[t].state = "claimed"
     /\ Effective[t].owner = k.actor
     /\ VerifyTaskLease(k, t, k.actor, Effective[t])}}

OutcomeOf(t) ==
  IF killed THEN "removed"
  ELSE IF fileTasks[t].state \in {"done", "failed"} THEN fileTasks[t].state
  ELSE "open"

Abstract == INSTANCE TaskLease WITH
  holders <- [t \in Task |-> Holders(t)],
  outcome <- [t \in Task |-> OutcomeOf(t)]

\* The board with tokens, versions, a file, crashes and a sweeper implements
\* TaskLease: one holder at a time, only the holder settles, settled once.
ImplementsTaskLease == Abstract!Spec
=============================================================================
