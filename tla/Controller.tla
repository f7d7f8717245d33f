----------------------------- MODULE Controller -----------------------------
(***************************************************************************)
(* The Kubernetes controller (internal/controller/controller.go): custom   *)
(* resources reconciled onto the Manager, with the API server's optimistic *)
(* concurrency, failing calls, users who change and delete resources in    *)
(* the middle of a reconcile, and restarts, which empty the Manager.       *)
(*                                                                         *)
(* The work queue never hands a key to two workers at once, so there is    *)
(* one worker per resource.                                                *)
(***************************************************************************)
EXTENDS Integers

CONSTANTS
  Object,    \* custom resources
  MaxBox,    \* bound on what the Manager creates for them
  Faults,    \* subset of {"api", "create", "kill", "restart"}
  MaxFaults, \* bound on failing calls and restarts
  MaxTouch   \* bound on changes of a resource by users

ASSUME ControllerAssumption ==
  /\ Faults \in SUBSET {"api", "create", "kill", "restart"}
  /\ MaxBox \in Nat /\ MaxFaults \in Nat /\ MaxTouch \in Nat
  /\ "none" \notin Object

VARIABLES
  kind,   \* kind[o]: "Citadel" or "Cohort"
  cr,     \* cr[o]: the resource as the API server has it
  queue,  \* keys waiting in the work queue
  w,      \* w[o]: the worker on o
  box,    \* box[b]: its owner, whether it runs, whether the Manager knows its
          \* identifier and holds the sessions of its Citadels
  stray,  \* running boxes nobody remembers, with an event that explains it
  faults, \* failed calls and restarts so far
  touches \* changes by users so far

vars == <<kind, cr, queue, w, box, stray, faults, touches>>

-----------------------------------------------------------------------------
\* Identifiers are random; here they are numbered as they are drawn.
Box == 1..MaxBox

NoBox == 0

\* profile: the spec names one; rv: the resourceVersion; id: the backing
\* identifier in the status; observed: observedGeneration is the generation.
Gone == [there |-> FALSE, deleting |-> FALSE, finalizer |-> FALSE, profile |-> FALSE,
         rv |-> 0, id |-> NoBox, phase |-> "none", observed |-> FALSE]

Idle == [pc |-> "idle", obj |-> Gone, id |-> NoBox, phase |-> "none"]

Unused == [owner |-> "none", runs |-> FALSE, known |-> FALSE, held |-> FALSE]

Init ==
  /\ kind \in [Object -> {"Citadel", "Cohort"}]
  /\ cr = [o \in Object |-> Gone]
  /\ queue = {}
  /\ w = [o \in Object |-> Idle]
  /\ box = [b \in Box |-> Unused]
  /\ stray = {}
  /\ faults = 0 /\ touches = 0

Fault(f) == f \in Faults /\ faults < MaxFaults /\ faults' = faults + 1

\* The informer reports every stored change of o.
Stored(o, new) ==
  /\ cr' = [cr EXCEPT ![o] = [new EXCEPT !.rv = cr[o].rv + 1]]
  /\ queue' = queue \cup {o}

Goto(o, pc) == w' = [w EXCEPT ![o].pc = pc]

\* processNext: an error puts the key back.
Requeue(o) ==
  /\ queue' = queue \cup {o}
  /\ w' = [w EXCEPT ![o] = Idle]

\* The worker's copy of the resource is current: an Update is accepted.
Current(o) == cr[o].there /\ cr[o].rv = w[o].obj.rv

-----------------------------------------------------------------------------
(* Users and the API server *)

\* A name may be used again once its resource is gone.
UserCreate(o) ==
  /\ ~cr[o].there
  /\ \/ cr[o].rv = 0 /\ touches' = touches
     \/ cr[o].rv > 0 /\ touches < MaxTouch /\ touches' = touches + 1
  /\ \E p \in BOOLEAN : Stored(o, [Gone EXCEPT !.there = TRUE, !.profile = p])
  /\ UNCHANGED <<w, box, stray, faults>>

UserChange(o) ==
  /\ cr[o].there /\ touches < MaxTouch
  /\ touches' = touches + 1
  /\ \E p \in BOOLEAN : Stored(o, [cr[o] EXCEPT !.profile = p, !.observed = FALSE])
  /\ UNCHANGED <<w, box, stray, faults>>

\* Without a finalizer the resource goes at once.
UserDelete(o) ==
  /\ cr[o].there /\ ~cr[o].deleting
  /\ Stored(o, IF cr[o].finalizer THEN [cr[o] EXCEPT !.deleting = TRUE] ELSE Gone)
  /\ UNCHANGED <<w, box, stray, faults, touches>>

\* The informers' resync reports every resource again.
Resync(o) ==
  /\ cr[o].there /\ o \notin queue
  /\ queue' = queue \cup {o}
  /\ UNCHANGED <<cr, w, box, stray, faults, touches>>

-----------------------------------------------------------------------------
(* reconcile *)

\* The first branch a resource takes.
Branch(obj) ==
  CASE obj.deleting /\ obj.finalizer -> "teardown"
    [] obj.deleting /\ ~obj.finalizer -> "idle"
    [] ~obj.deleting /\ ~obj.finalizer -> "finalize"
    [] OTHER -> "check"

\* The key is taken and the resource read; any error of Get counts as gone.
Get(o) ==
  /\ o \in queue /\ w[o].pc = "idle"
  /\ queue' = queue \ {o}
  /\ \/ /\ cr[o].there
        /\ w' = [w EXCEPT ![o] = [Idle EXCEPT !.pc = Branch(cr[o]), !.obj = cr[o]]]
        /\ faults' = faults
     \/ ~cr[o].there /\ UNCHANGED <<w, faults>>
     \/ cr[o].there /\ Fault("api") /\ w' = w
  /\ UNCHANGED <<cr, box, stray, touches>>

Finalize(o) ==
  /\ w[o].pc = "finalize"
  /\ \/ /\ Current(o)
        /\ Stored(o, [cr[o] EXCEPT !.finalizer = TRUE])
        /\ w' = [w EXCEPT ![o].pc = "check", ![o].obj = cr'[o]]
        /\ faults' = faults
     \/ ~Current(o) /\ Requeue(o) /\ UNCHANGED <<cr, faults>>
     \/ Current(o) /\ Fault("api") /\ Requeue(o) /\ cr' = cr
  /\ UNCHANGED <<box, stray, touches>>

\* Mutant of Provisioned: an identifier in the status is enough.
ProvisionedByStatus(o) == w[o].obj.id \in Box

\* The status names something the Manager still has.
Provisioned(o) == w[o].obj.id \in Box /\ box[w[o].obj.id].known

\* A Citadel that is there needs nothing; a Cohort has its status refreshed.
Check(o) ==
  /\ w[o].pc = "check"
  /\ CASE Provisioned(o) /\ kind[o] = "Cohort" ->
            w' = [w EXCEPT ![o].pc = "status", ![o].id = w[o].obj.id, ![o].phase = "Running"]
       [] Provisioned(o) /\ kind[o] = "Citadel" -> w' = [w EXCEPT ![o] = Idle]
       [] OTHER -> Goto(o, "create")
  /\ UNCHANGED <<cr, queue, box, stray, faults, touches>>

\* CreateSandbox or CreateFleet; a failure goes into the status.
Create(o) ==
  /\ w[o].pc = "create"
  /\ \/ \E b \in Box :
          /\ w[o].obj.profile /\ box[b] = Unused /\ \A c \in 1..b-1 : box[c] # Unused
          /\ box' = [box EXCEPT ![b] = [owner |-> o, runs |-> TRUE, known |-> TRUE, held |-> TRUE]]
          /\ w' = [w EXCEPT ![o].pc = "status", ![o].id = b, ![o].phase = "Running"]
          /\ faults' = faults
     \/ /\ IF w[o].obj.profile THEN Fault("create") ELSE faults' = faults
        /\ w' = [w EXCEPT ![o].pc = "status", ![o].id = w[o].obj.id, ![o].phase = "Failed"]
        /\ box' = box
  /\ UNCHANGED <<cr, queue, stray, touches>>

\* What the worker just created and the stored status does not name.
Unrecorded(o) == {b \in Box : b = w[o].id /\ box[b].runs /\ cr[o].id # b}

\* Mutant of SetStatus: the identifier is not part of the status.
SetStatusPhaseOnly(o) ==
  LET new == [cr[o] EXCEPT !.phase = w[o].phase] IN
  /\ w[o].pc = "status"
  /\ IF Current(o) THEN Stored(o, new) ELSE queue' = queue \cup {o} /\ cr' = cr
  /\ w' = [w EXCEPT ![o] = Idle]
  /\ UNCHANGED <<box, stray, faults, touches>>

\* setStatus: an update that changes nothing is not reported.
SetStatus(o) ==
  LET new == [cr[o] EXCEPT !.id = w[o].id, !.phase = w[o].phase, !.observed = TRUE] IN
  /\ w[o].pc = "status"
  /\ \/ /\ Current(o)
        /\ IF new = cr[o] THEN UNCHANGED <<cr, queue>> ELSE Stored(o, new)
        /\ w' = [w EXCEPT ![o] = Idle]
        /\ UNCHANGED <<stray, faults>>
     \/ /\ ~Current(o)
        /\ Requeue(o)
        /\ stray' = stray \cup Unrecorded(o)
        /\ UNCHANGED <<cr, faults>>
     \/ /\ Current(o)
        /\ Fault("api") /\ Requeue(o)
        /\ stray' = stray \cup Unrecorded(o)
        /\ cr' = cr
  /\ UNCHANGED <<box, touches>>

\* teardown: the Manager forgets the box and stops what it holds of it, or the
\* backend fails, or a Cohort's removal cannot be saved and nothing happens.
\* Errors, that of an unknown identifier included, are logged and passed over.
Teardown(o) ==
  LET b == w[o].obj.id IN
  /\ w[o].pc = "teardown"
  /\ Goto(o, "unfinalize")
  /\ IF b \in Box /\ box[b].known
     THEN \/ /\ box' = [box EXCEPT ![b].known = FALSE, ![b].held = FALSE,
                                   ![b].runs = @ /\ ~box[b].held]
             /\ UNCHANGED <<stray, faults>>
          \/ /\ Fault("kill")
             /\ \/ box' = [box EXCEPT ![b].known = FALSE, ![b].held = FALSE]
                \/ kind[o] = "Cohort" /\ box' = box
             /\ stray' = stray \cup {b}
     ELSE UNCHANGED <<box, stray, faults>>
  /\ UNCHANGED <<cr, queue, touches>>

\* The finalizer is dropped and the API server removes the resource.
Unfinalize(o) ==
  /\ w[o].pc = "unfinalize"
  /\ \/ /\ Current(o)
        /\ Stored(o, Gone)
        /\ w' = [w EXCEPT ![o] = Idle]
        /\ faults' = faults
     \/ ~Current(o) /\ Requeue(o) /\ UNCHANGED <<cr, faults>>
     \/ Current(o) /\ Fault("api") /\ Requeue(o) /\ cr' = cr
  /\ UNCHANGED <<box, stray, touches>>

\* The controller restarts: queue and workers are new, the informers list every
\* resource.  What ran goes on.  Sessions are not persisted; Cohorts are, where
\* the state directory outlives the process.
Restart ==
  /\ Fault("restart")
  /\ queue' = {o \in Object : cr[o].there}
  /\ w' = [o \in Object |-> Idle]
  /\ \E persisted \in BOOLEAN :
       box' = [b \in Box |-> [box[b] EXCEPT
                 !.known = @ /\ persisted /\ kind[box[b].owner] = "Cohort", !.held = FALSE]]
  /\ stray' = stray \cup {b \in Box : box[b].runs}
  /\ UNCHANGED <<cr, touches>>

-----------------------------------------------------------------------------
Worker(o) ==
  \/ Get(o) \/ Finalize(o) \/ Check(o) \/ Create(o) \/ SetStatus(o)
  \/ Teardown(o) \/ Unfinalize(o)

Next ==
  /\ UNCHANGED kind
  /\ \/ \E o \in Object :
          UserCreate(o) \/ UserChange(o) \/ UserDelete(o) \/ Resync(o) \/ Worker(o)
     \/ Restart

Spec == Init /\ [][Next]_vars

\* Workers run and the informers resync.
FairSpec ==
  Spec /\ \A o \in Object :
    WF_vars(Worker(o) /\ UNCHANGED kind) /\ WF_vars(Resync(o) /\ UNCHANGED kind)

-----------------------------------------------------------------------------
(* Properties *)

\* Whatever runs for a resource is named by its status or in the hands of its
\* worker, unless a status write failed, a kill failed or the controller
\* restarted.
EveryBoxIsAccountedFor ==
  \A b \in Box :
    box[b].runs /\ b \notin stray =>
      LET o == box[b].owner IN cr[o].id = b \/ w[o].id = b

\* A resource with a profile that is not deleted is brought up, however its
\* calls fail.
ComesUp ==
  \A o \in Object :
    cr[o].there ~>
      \/ cr[o].deleting \/ ~cr[o].there \/ ~cr[o].profile
      \/ cr[o].phase = "Running" /\ box[cr[o].id].known

\* A resource that is deleted goes away.
DeletionCompletes == \A o \in Object : cr[o].deleting ~> ~cr[o].there

\* Both: the controller converges, whatever failed on the way.
Converges == ComesUp /\ DeletionCompletes

\* Once a resource is gone nothing runs for it (the package comment's
\* guarantee).
TornDown ==
  \A b \in Box : box[b].runs => cr[box[b].owner].there
=============================================================================
