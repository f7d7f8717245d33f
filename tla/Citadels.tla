------------------------------ MODULE Citadels ------------------------------
(***************************************************************************)
(* The life of Citadels and of their Runs: CreateSandbox, restoring a      *)
(* snapshot, KillSandbox, the Run registry with its file, failures of the  *)
(* backend and of the file, crashes and restarts                           *)
(* (internal/controlplane manager.go, runs.go, snapshots.go).              *)
(*                                                                         *)
(* runOpMu covers the change of a Run and its save, so each is one step.   *)
(* The Chronicle events of these operations are left to module Chronicle.  *)
(***************************************************************************)
EXTENDS Integers

CONSTANTS
  Citadel,        \* identifiers the backend gives to the sandboxes it creates
  RunId,          \* identifiers of Runs, which callers may choose
  Killer,         \* requests to kill a Citadel
  CitadelFaults,  \* subset of {"verify", "ide", "save", "kill", "crash"}
  MaxStops        \* bound on crashes

\* No sandbox is called by the name that stands for none.
ASSUME CitadelAssumption == "none" \notin Citadel

VARIABLES
  up,       \* the control plane is running
  stops,    \* crashes so far
  backend,  \* backend[c]: "none", "live" or "dead"
  session,  \* the Citadels in the session table
  create,   \* create[c]: the request that creates c
  kill,     \* kill[k]: the request of killer k
  runs,     \* runs[r]: the record of Run r, or NoRun
  runsFile, \* runs.json
  early,    \* Citadels removed by a kill before their Run was registered
  survivors \* sandboxes whose Kill failed or whose control plane crashed

citadelVars == <<up, stops, backend, session, create, kill, runs, runsFile, early, survivors>>

-----------------------------------------------------------------------------
NoRun == [citadel |-> "none", parent |-> "none", status |-> "none"]

Fresh == [pc |-> "idle", run |-> "none", parent |-> "none", ide |-> FALSE]

Waiting == [pc |-> "idle", citadel |-> "none", failed |-> FALSE]

CitadelInit ==
  /\ up = TRUE /\ stops = 0
  /\ backend = [c \in Citadel |-> "none"]
  /\ session = {}
  /\ create = [c \in Citadel |-> Fresh]
  /\ kill = [k \in Killer |-> Waiting]
  /\ runs = [r \in RunId |-> NoRun]
  /\ runsFile = runs
  /\ early = {} /\ survivors = {}

Creating(c) == create[c].pc \notin {"idle", "answered", "refused", "lost"}

Killing(c) == \E k \in Killer : kill[k].citadel = c /\ kill[k].pc \notin {"idle", "done"}

Doing(c, pc) == up /\ create[c].pc = pc

\* Backend.Kill: the sandbox is gone, or the call fails and it stays.
BackendKill(c) ==
  \/ backend' = [backend EXCEPT ![c] = "dead"] /\ survivors' = survivors
  \/ "kill" \in CitadelFaults /\ backend' = backend /\ survivors' = survivors \cup {c}

-----------------------------------------------------------------------------
(* CreateSandbox *)

\* The parent is looked up and Backend.Create gives the sandbox its identifier;
\* requests refused before that leave nothing behind.
BeginCreate(c) ==
  /\ Doing(c, "idle") /\ backend[c] = "none"
  /\ \E r \in RunId, ide \in BOOLEAN, p \in session \cup {"none"} :
       create' = [create EXCEPT ![c] =
         [pc |-> "created", run |-> r, ide |-> ide,
          parent |-> IF p = "none" THEN "none" ELSE create[p].run]]
  /\ backend' = [backend EXCEPT ![c] = "live"]
  /\ UNCHANGED <<up, stops, session, kill, runs, runsFile, early, survivors>>

\* RestoreSnapshotForIdentity: no parent, no IDE and a Run id of its own.
BeginRestore(c) ==
  /\ Doing(c, "idle") /\ backend[c] = "none"
  /\ \E r \in RunId :
       /\ runs[r] = NoRun /\ \A d \in Citadel : create[d].run # r
       /\ create' = [create EXCEPT ![c] =
            [pc |-> "created", run |-> r, ide |-> FALSE, parent |-> "none"]]
  /\ backend' = [backend EXCEPT ![c] = "live"]
  /\ UNCHANGED <<up, stops, session, kill, runs, runsFile, early, survivors>>

\* Mutant of Verify: the sandbox is left when the checks fail.
VerifyLeaves(c) ==
  /\ Doing(c, "created")
  /\ \/ session' = session \cup {c}
        /\ create' = [create EXCEPT ![c].pc = "published"]
     \/ "verify" \in CitadelFaults
        /\ create' = [create EXCEPT ![c].pc = "refused"]
        /\ session' = session
  /\ UNCHANGED <<up, stops, backend, kill, runs, runsFile, early, survivors>>

\* verifyRuntimeCapabilities, policyGuard and newEngine; when they succeed the
\* session enters the table.
Verify(c) ==
  /\ Doing(c, "created")
  /\ \/ /\ session' = session \cup {c}
        /\ create' = [create EXCEPT ![c].pc = "published"]
        /\ UNCHANGED <<backend, survivors>>
     \/ /\ "verify" \in CitadelFaults
        /\ BackendKill(c)
        /\ create' = [create EXCEPT ![c].pc = "refused"]
        /\ session' = session
  /\ UNCHANGED <<up, stops, kill, runs, runsFile, early>>

StartIDE(c) ==
  /\ Doing(c, "published")
  /\ \/ create' = [create EXCEPT ![c].pc = "ready"]
     \/ /\ "ide" \in CitadelFaults /\ create[c].ide
        /\ create' = [create EXCEPT ![c].pc = "undo"]
  /\ UNCHANGED <<up, stops, backend, session, kill, runs, runsFile, early, survivors>>

\* registerRun refuses an identifier that another Citadel has.
Conflict(c) == runs[create[c].run] # NoRun /\ runs[create[c].run].citadel # c

\* registerRun; the caller is answered when the record is in the file.
RegisterRun(c) ==
  LET r == create[c].run IN
  /\ Doing(c, "ready")
  /\ \/ /\ ~Conflict(c)
        /\ runs' = [runs EXCEPT ![r] = [citadel |-> c, parent |-> create[c].parent, status |-> "running"]]
        /\ runsFile' = runs'
        /\ create' = [create EXCEPT ![c].pc = "answered"]
     \/ /\ Conflict(c) \/ "save" \in CitadelFaults
        /\ create' = [create EXCEPT ![c].pc = "undo"]
        /\ UNCHANGED <<runs, runsFile>>
  /\ UNCHANGED <<up, stops, backend, session, kill, early, survivors>>

\* The sandbox is destroyed ...
UndoKill(c) ==
  /\ Doing(c, "undo")
  /\ BackendKill(c)
  /\ create' = [create EXCEPT ![c].pc = "unpublish"]
  /\ UNCHANGED <<up, stops, session, kill, runs, runsFile, early>>

\* ... and then its session removed.
Unpublish(c) ==
  /\ Doing(c, "unpublish")
  /\ session' = session \ {c}
  /\ create' = [create EXCEPT ![c].pc = "refused"]
  /\ UNCHANGED <<up, stops, backend, kill, runs, runsFile, early, survivors>>

-----------------------------------------------------------------------------
(* KillSandbox *)

\* Mutant of KillRemove: the session stays in the table.
KillRemoveKeeps(k, c) ==
  /\ up /\ kill[k].pc = "idle" /\ c \in session
  /\ kill' = [kill EXCEPT ![k] = [pc |-> "removed", citadel |-> c, failed |-> FALSE]]
  /\ early' = IF create[c].pc = "answered" THEN early ELSE early \cup {c}
  /\ UNCHANGED <<up, stops, backend, session, create, runs, runsFile, survivors>>

\* The session leaves the table, and only one request finds it there.
KillRemove(k, c) ==
  /\ up /\ kill[k].pc = "idle" /\ c \in session
  /\ session' = session \ {c}
  /\ kill' = [kill EXCEPT ![k] = [pc |-> "removed", citadel |-> c, failed |-> FALSE]]
  /\ early' = IF create[c].pc = "answered" THEN early ELSE early \cup {c}
  /\ UNCHANGED <<up, stops, backend, create, runs, runsFile, survivors>>

KillBackend(k) ==
  /\ up /\ kill[k].pc = "removed"
  /\ BackendKill(kill[k].citadel)
  /\ kill' = [kill EXCEPT ![k].pc = "stopped",
                          ![k].failed = kill[k].citadel \in survivors' /\ backend[kill[k].citadel] = "live"]
  /\ UNCHANGED <<up, stops, session, create, runs, runsFile, early>>

\* finishRun with the error of Backend.Kill.
FinishRun(k) ==
  LET r == create[kill[k].citadel].run IN
  /\ up /\ kill[k].pc = "stopped"
  /\ runs' = IF runs[r] = NoRun THEN runs
             ELSE [runs EXCEPT ![r].status = IF kill[k].failed THEN "failed" ELSE "completed"]
  /\ \/ runsFile' = IF runs[r] = NoRun THEN runsFile ELSE runs'
     \/ "save" \in CitadelFaults /\ runsFile' = runsFile
  /\ kill' = [kill EXCEPT ![k].pc = "done"]
  /\ UNCHANGED <<up, stops, backend, session, create, early, survivors>>

-----------------------------------------------------------------------------
(* Stops and recovery *)

\* The process ends.  Sandboxes go on without a session.
Crash ==
  /\ up /\ "crash" \in CitadelFaults /\ stops < MaxStops
  /\ up' = FALSE /\ stops' = stops + 1
  /\ session' = {}
  /\ create' = [c \in Citadel |-> [create[c] EXCEPT !.pc = IF Creating(c) THEN "lost" ELSE @]]
  /\ kill' = [k \in Killer |-> [kill[k] EXCEPT !.pc = IF @ = "idle" THEN @ ELSE "done"]]
  /\ runs' = [r \in RunId |-> NoRun]
  /\ survivors' = survivors \cup {c \in Citadel : backend[c] = "live"}
  /\ UNCHANGED <<backend, runsFile, early>>

\* Mutant of LoadRuns: records are loaded as they are.
LoadRunsAsIs ==
  /\ ~up
  /\ up' = TRUE
  /\ runs' = runsFile
  /\ UNCHANGED <<stops, backend, session, create, kill, runsFile, early, survivors>>

\* loadRuns: a Run the file has as running is interrupted, and the file saved.
LoadRuns ==
  /\ ~up
  /\ up' = TRUE
  /\ runs' = [r \in RunId |->
       [runsFile[r] EXCEPT !.status = IF @ = "running" THEN "interrupted" ELSE @]]
  /\ runsFile' = runs'
  /\ UNCHANGED <<stops, backend, session, create, kill, early, survivors>>

-----------------------------------------------------------------------------
CitadelNext ==
  \/ \E c \in Citadel :
       \/ BeginCreate(c) \/ BeginRestore(c) \/ Verify(c) \/ StartIDE(c) \/ RegisterRun(c)
       \/ UndoKill(c) \/ Unpublish(c)
  \/ \E k \in Killer : KillBackend(k) \/ FinishRun(k) \/ \E c \in Citadel : KillRemove(k, c)
  \/ Crash \/ LoadRuns

CitadelSpec == CitadelInit /\ [][CitadelNext]_citadelVars

-----------------------------------------------------------------------------
(* Properties *)

\* Every failing path of CreateSandbox and every kill takes the sandbox along:
\* one that lives outside the session table is being created or killed, or its
\* backend refused to stop it, or the control plane crashed over it.  Conversely
\* the table names only live sandboxes, except while a creation is undone.
SandboxesMatchSessions ==
  /\ \A c \in Citadel :
       backend[c] = "live" => c \in session \/ Creating(c) \/ Killing(c) \/ c \in survivors
  /\ \A c \in session : backend[c] = "live" \/ create[c].pc = "unpublish"

\* No Run is shown as running once its Citadel is gone, unless the kill came
\* before the Run was registered (the session is in the table some time before).
RunningRunIsLive ==
  \A r \in RunId :
    LET c == runs[r].citadel IN
    runs[r].status = "running" => c \in session \/ Killing(c) \/ c \in early

\* A Run is finished only when its Citadel left the table, unless its
\* identifier was also given to a Citadel whose creation was then refused.
RunEndsWithCitadel ==
  \A c \in session :
    LET r == create[c].run IN
    /\ runs[r].citadel = c
    /\ \A d \in Citadel : d # c => create[d].run # r
    => runs[r].status = "running"
=============================================================================
