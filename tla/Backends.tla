------------------------------ MODULE Backends ------------------------------
(***************************************************************************)
(* The container and the Kubernetes backend (internal/backend) as the      *)
(* control plane drives them: the commands of Create, of Kill and of       *)
(* RestoreWithSpec one by one, each of which the runtime may refuse, with  *)
(* the clean-up of every error path; Snapshot with its tarball; and the    *)
(* table of snapshot references with its file (controlplane snapshots.go). *)
(*                                                                         *)
(* backend.For gives every Citadel a backend object of its own, and        *)
(* KillSandbox calls its Kill once: the session is gone before.            *)
(***************************************************************************)
EXTENDS Integers, Sequences

CONSTANTS
  Sandbox,     \* identifiers of sandboxes, given by newID
  Snap,        \* identifiers of snapshots, given by newID
  HostTypes,   \* host.type of the Charters in use
  RuntimeEnv,  \* RUNEWARD_CONTAINER_RUNTIME, or ""
  Installed,   \* the container runtimes that are installed
  Specs,       \* the Specs that sandboxes are created from
  MaxFaults,   \* bound on refused commands, failed saves, damaged tarballs and crashes
  MaxWrites    \* bound on the changes of a workspace

Spec4 == [egress: {"none", "cooperative", "strict"}, seed: BOOLEAN, files: BOOLEAN, ide: BOOLEAN]

ASSUME BackendAssumption ==
  /\ HostTypes \subseteq {"container", "k8s"}
  /\ Specs \subseteq Spec4
  /\ MaxFaults \in Nat /\ MaxWrites \in Nat

VARIABLES
  kind,     \* what backend.For chose: "docker", "podman" or "k8s"
  policyOn, \* RUNEWARD_K8S_NETWORK_POLICY
  ns,       \* the managed namespace: "none", "bare" or "labelled"
  deny,     \* the default-deny NetworkPolicy exists
  box,      \* box[s]: the request for s and how far it came
  res,      \* res[s]: what exists of s in the runtime and in the process
  todo,     \* todo[s]: the removals still to run
  ws,       \* ws[s]: the content of the workspace
  cap,      \* cap[n]: the capture of snapshot n
  tarball,  \* tarball[n]: the file of snapshot n: "none", "partial" or a content
  table,    \* table[n]: the digest that the manager recorded, or NoRef
  file,     \* snapshots.json
  faults, writes,
  spilled,  \* sandboxes one of whose removals was refused
  late      \* sandboxes whose tarball was damaged after its digest was checked

vars == <<kind, policyOn, ns, deny, box, res, todo, ws, cap, tarball, table, file,
          faults, writes, spilled, late>>

cluster == <<kind, policyOn, ns, deny>>
snapshots == <<cap, tarball, table, file>>
history == <<writes, late>>

-----------------------------------------------------------------------------
NoRef == -1
Rotten == -2
NoSpec == [egress |-> "none", seed |-> FALSE, files |-> FALSE, ide |-> FALSE]
Unused == [pc |-> "none", spec |-> NoSpec, from |-> "none", digest |-> NoRef, reg |-> {}]
NoCapture == [pc |-> "none", of |-> "none"]

\* selectContainerRuntime: the variable, or docker unless only podman is there.
SelectContainerRuntime(env, path) ==
  IF env # "" THEN env ELSE IF "docker" \notin path /\ "podman" \in path THEN "podman" ELSE "docker"

\* For: the backend of a Charter.
For(hostType, env, path) ==
  IF hostType = "k8s" THEN "k8s" ELSE SelectContainerRuntime(env, path)

Init ==
  /\ kind \in {For(h, RuntimeEnv, Installed) : h \in HostTypes}
  /\ policyOn \in IF kind = "k8s" THEN BOOLEAN ELSE {FALSE}
  /\ ns \in IF kind = "k8s" THEN {"none", "bare"} ELSE {"none"}
  /\ deny = FALSE
  /\ box = [s \in Sandbox |-> Unused]
  /\ res = [s \in Sandbox |-> {}]
  /\ todo = [s \in Sandbox |-> <<>>]
  /\ ws = [s \in Sandbox |-> 0]
  /\ cap = [n \in Snap |-> NoCapture]
  /\ tarball = [n \in Snap |-> "none"]
  /\ table = [n \in Snap |-> NoRef]
  /\ file = table
  /\ faults = 0 /\ writes = 0
  /\ spilled = {} /\ late = {}

-----------------------------------------------------------------------------
(* Commands and the ways they fail *)

K8s == kind = "k8s"

At(s, pc) == box[s].pc = pc

Goto(s, pc) == box' = [box EXCEPT ![s].pc = pc]

\* A command succeeds and adds r to what exists of s.
Adds(s, r, pc) ==
  /\ res' = [res EXCEPT ![s] = @ \cup {r}]
  /\ Goto(s, pc)
  /\ UNCHANGED <<todo, faults>>

\* A command fails, and Create returns after the removals undo.
Fails(s, undo) ==
  /\ faults < MaxFaults
  /\ faults' = faults + 1
  /\ todo' = [todo EXCEPT ![s] = undo]
  /\ Goto(s, "undo")
  /\ UNCHANGED res

\* Mutant of EgressUndo: the sidecar is forgotten.
EgressUndoNone(s) == <<>>

\* What hp.stop and the removal of egressCtrName stand for.
EgressUndo(s) ==
  IF box[s].spec.egress = "cooperative" THEN <<"proxy">>
  ELSE IF box[s].spec.egress = "strict" THEN <<"sidecar">> ELSE <<>>

\* The resources that a list of removals names.
Named(undo) == {undo[i] : i \in DOMAIN undo}

\* Kill of the container backend: the proxies and egressCtr entries of s are
\* taken out of the maps, and the removals follow in this order.
DockerKill(s) ==
  LET Known(c) == IF c \in box[s].reg THEN <<c>> ELSE <<>> IN
  Known("proxy") \o <<"inspect", "container">> \o Known("sidecar") \o <<"volume">>

\* Kill of the Kubernetes backend: every deletion is tried.
K8sKill(s) == <<"pod", "pvc", "configmap", "idepolicy">>

KillList(s) == IF K8s THEN K8sKill(s) ELSE DockerKill(s)

\* A failure after the container is up goes through Kill.
KillAgain(s) ==
  /\ todo' = [todo EXCEPT ![s] = KillList(s)]
  /\ box' = [box EXCEPT ![s].pc = "undoKill", ![s].reg = {}]

FailsKilling(s) ==
  /\ faults < MaxFaults
  /\ faults' = faults + 1
  /\ KillAgain(s)
  /\ UNCHANGED res

StepOrKill(s, pc) ==
  \/ Goto(s, pc) /\ UNCHANGED <<res, todo, faults>>
  \/ FailsKilling(s)

\* What is left to do when the removal c is refused: Kill of the container
\* backend gives up when the container stays, and without the answer of
\* volumeOf it has no volume to remove; all other errors are ignored.
AfterRefusal(s, c) ==
  IF c = "container" /\ box[s].pc \in {"killing", "undoKill"} THEN <<>>
  ELSE IF c = "inspect" THEN SelectSeq(Tail(todo[s]), LAMBDA d : d # "volume")
  ELSE Tail(todo[s])

\* What a removal takes: a volume stays while a container uses it.
Goes(s, c) ==
  CASE c = "sidecar" -> {"sidecar", "ready"}
    [] c = "volume" /\ "container" \in res[s] -> {}
    [] OTHER -> {c}

\* One removal.
RunRemoval(s) ==
  /\ todo[s] # <<>>
  /\ LET c == Head(todo[s]) IN
     \/ /\ res' = [res EXCEPT ![s] = @ \ Goes(s, c)]
        /\ todo' = [todo EXCEPT ![s] = Tail(@)]
        /\ UNCHANGED <<faults, spilled>>
     \/ /\ c # "proxy" /\ faults < MaxFaults
        /\ faults' = faults + 1
        /\ spilled' = spilled \cup {s}
        /\ todo' = [todo EXCEPT ![s] = AfterRefusal(s, c)]
        /\ UNCHANGED res
  /\ UNCHANGED <<cluster, box, ws, snapshots, history>>

\* The removals are done and the request is answered with its error, or the
\* kill with its result.
Removed(s) ==
  /\ todo[s] = <<>>
  /\ box[s].pc \in {"undo", "undoKill", "killing"}
  /\ Goto(s, IF At(s, "killing") THEN "killed" ELSE "failed")
  /\ UNCHANGED <<cluster, res, todo, ws, snapshots, faults, spilled, history>>

-----------------------------------------------------------------------------
(* Creation, common part *)

\* CreateSandbox, or RestoreSnapshotForIdentity for a registered snapshot.
Begin(s) ==
  /\ At(s, "none")
  /\ \E sp \in Specs, n \in {"none"} \cup {m \in Snap : table[m] # NoRef} :
       box' = [box EXCEPT ![s] = [pc |-> IF K8s THEN "namespace" ELSE "storage",
                                  spec |-> sp, from |-> n,
                                  digest |-> IF n = "none" THEN NoRef ELSE table[n], reg |-> {}]]
  /\ UNCHANGED <<cluster, res, todo, ws, snapshots, faults, spilled, history>>

-----------------------------------------------------------------------------
(* The container backend: docker.go *)

\* The workspace volume.
CreateVolume(s) ==
  /\ ~K8s /\ At(s, "storage")
  /\ Adds(s, "volume", IF box[s].spec.egress = "none" THEN "run" ELSE "egress") \/ Fails(s, <<>>)
  /\ UNCHANGED <<cluster, ws, snapshots, spilled, history>>

\* startHostProxy: the proxy listens in this process.
StartHostProxy(s) ==
  /\ ~K8s /\ At(s, "egress") /\ box[s].spec.egress = "cooperative"
  /\ Adds(s, "proxy", "run") \/ Fails(s, <<"volume">>)
  /\ UNCHANGED <<cluster, ws, snapshots, spilled, history>>

\* startEgressContainer, up to its run.
StartEgressContainer(s) ==
  /\ ~K8s /\ At(s, "egress") /\ box[s].spec.egress = "strict"
  /\ Adds(s, "sidecar", "egressWait") \/ Fails(s, <<"volume">>)
  /\ UNCHANGED <<cluster, ws, snapshots, spilled, history>>

\* Mutant of WaitEgressReady: the container is started right away.
WaitEgressReadyNot(s) ==
  /\ At(s, "egressWait")
  /\ Goto(s, "run")
  /\ UNCHANGED <<cluster, res, todo, faults, ws, snapshots, spilled, history>>

\* waitEgressReady: the proxy listens, with its iptables rules installed; or it
\* exited or did not come up in time, and goes.
WaitEgressReady(s) ==
  /\ At(s, "egressWait")
  /\ Adds(s, "ready", "run") \/ Fails(s, <<"sidecar", "volume">>)
  /\ UNCHANGED <<cluster, ws, snapshots, spilled, history>>

\* The container runs in the network namespace of its sidecar, or is pointed
\* at the proxy.
RunContainer(s) ==
  /\ ~K8s /\ At(s, "run")
  /\ Adds(s, "container", "wait") \/ Fails(s, Append(EgressUndo(s), "volume"))
  /\ UNCHANGED <<cluster, ws, snapshots, spilled, history>>

\* waitRunning; then the proxy or the sidecar is entered in the maps, where
\* Kill finds it.
ContainerUp(s) ==
  /\ ~K8s /\ At(s, "wait")
  /\ \/ /\ box' = [box EXCEPT ![s].pc = "seed", ![s].reg = Named(EgressUndo(s))]
        /\ UNCHANGED <<res, todo, faults>>
     \/ Fails(s, <<"container">> \o Append(EgressUndo(s), "volume"))
  /\ UNCHANGED <<cluster, ws, snapshots, spilled, history>>

-----------------------------------------------------------------------------
(* The Kubernetes backend: k8s.go *)

\* applyPSALabels patches a namespace that was there; a failure is logged.
ApplyPSALabels ==
  \/ ns' = "labelled" /\ UNCHANGED faults
  \/ ns = "bare" /\ faults < MaxFaults /\ faults' = faults + 1 /\ ns' = ns

\* ensureNamespace: created with its labels, or found and patched; that another
\* creation made it meanwhile is no error.
EnsureNamespace(s) ==
  /\ At(s, "namespace")
  /\ \/ ns = "none" /\ ns' = "labelled" /\ Goto(s, "policy") /\ UNCHANGED <<res, todo, faults>>
     \/ ns # "none" /\ ApplyPSALabels /\ Goto(s, "policy") /\ UNCHANGED <<res, todo>>
     \/ Fails(s, <<>>) /\ ns' = ns
  /\ UNCHANGED <<kind, policyOn, deny, ws, snapshots, spilled, history>>

\* ensureNetworkPolicy: the default-deny policy, where it is switched on.
EnsureNetworkPolicy(s) ==
  /\ At(s, "policy")
  /\ \/ /\ deny' = (deny \/ policyOn)
        /\ Goto(s, "storage")
        /\ UNCHANGED <<res, todo, faults>>
     \/ policyOn /\ Fails(s, <<>>) /\ deny' = deny
  /\ UNCHANGED <<kind, policyOn, ns, ws, snapshots, spilled, history>>

\* The workspace claim.
CreateClaim(s) ==
  /\ K8s /\ At(s, "storage")
  /\ Adds(s, "pvc", IF box[s].spec.egress = "none" THEN "run" ELSE "egress") \/ Fails(s, <<>>)
  /\ UNCHANGED <<cluster, ws, snapshots, spilled, history>>

\* The ConfigMap with the policy of the egress sidecar.
CreateConfigMap(s) ==
  /\ K8s /\ At(s, "egress")
  /\ Adds(s, "configmap", "run") \/ Fails(s, <<"pvc">>)
  /\ UNCHANGED <<cluster, ws, snapshots, spilled, history>>

\* The pod, with its egress sidecar and init container inside.
CreatePod(s) ==
  /\ K8s /\ At(s, "run")
  /\ Adds(s, "pod", "wait") \/ Fails(s, <<"pvc", "configmap">>)
  /\ UNCHANGED <<cluster, ws, snapshots, spilled, history>>

\* waitRunning polls the pod's phase.
PodUp(s) ==
  /\ K8s /\ At(s, "wait")
  /\ StepOrKill(s, "ingress")
  /\ UNCHANGED <<cluster, ws, snapshots, spilled, history>>

\* ensureIDEIngress: nothing unless NetworkPolicies are on and an IDE asked for.
EnsureIDEIngress(s) ==
  /\ At(s, "ingress")
  /\ \/ policyOn /\ box[s].spec.ide /\ (Adds(s, "idepolicy", "seed") \/ FailsKilling(s))
     \/ ~(policyOn /\ box[s].spec.ide) /\ Goto(s, "seed") /\ UNCHANGED <<res, todo, faults>>
  /\ UNCHANGED <<cluster, ws, snapshots, spilled, history>>

-----------------------------------------------------------------------------
(* The end of Create, RestoreWithSpec, and the manager's part *)

\* seedWorkspace: a missing or forbidden directory, an unsafe entry or a failing
\* tar ends the sandbox.
SeedWorkspace(s) ==
  /\ At(s, "seed")
  /\ IF box[s].spec.seed THEN StepOrKill(s, "files") ELSE Goto(s, "files") /\ UNCHANGED <<res, todo, faults>>
  /\ UNCHANGED <<cluster, ws, snapshots, spilled, history>>

\* CopyFiles: an unsafe path or mode or a failing copy ends the sandbox.
CopyFiles(s) ==
  /\ At(s, "files")
  /\ LET next == IF box[s].from = "none" THEN "admit" ELSE "verify" IN
     IF box[s].spec.files THEN StepOrKill(s, next) ELSE Goto(s, next) /\ UNCHANGED <<res, todo, faults>>
  /\ UNCHANGED <<cluster, ws, snapshots, spilled, history>>

\* Mutant of VerifySnapshot: the digest is not compared.
VerifySnapshotBlindly(s) ==
  /\ At(s, "verify")
  /\ Goto(s, "untar")
  /\ UNCHANGED <<res, todo, faults, spilled, cluster, ws, snapshots, history>>

\* verifySnapshot: the tarball still has the digest that was recorded.
VerifySnapshot(s) ==
  /\ At(s, "verify")
  /\ IF tarball[box[s].from] = box[s].digest THEN StepOrKill(s, "untar")
     ELSE KillAgain(s) /\ UNCHANGED <<res, faults>>
  /\ UNCHANGED <<cluster, ws, snapshots, spilled, history>>

\* The tarball is opened and extracted through filterTarSafe.
Untar(s) ==
  /\ At(s, "untar")
  /\ \/ /\ ws' = [ws EXCEPT ![s] = tarball[box[s].from]]
        /\ Goto(s, "admit")
        /\ UNCHANGED <<res, todo, faults>>
     \/ FailsKilling(s) /\ ws' = ws
  /\ UNCHANGED <<cluster, snapshots, spilled, history>>

\* RestoreWithSpec of either backend, after its Create.
DockerRestore(s) == ~K8s /\ (VerifySnapshot(s) \/ Untar(s))
K8sRestore(s) == K8s /\ (VerifySnapshot(s) \/ Untar(s))

\* verifyRuntimeCapabilities, policyGuard, newEngine and registerRun; the
\* session is entered, or the sandbox is killed again.
Admit(s) ==
  /\ At(s, "admit")
  /\ StepOrKill(s, "live")
  /\ UNCHANGED <<cluster, ws, snapshots, spilled, history>>

\* Exec: a command in the sandbox may change the workspace, whatever its end.
Exec(s) ==
  /\ At(s, "live") /\ writes < MaxWrites
  /\ writes' = writes + 1
  /\ ws' = [ws EXCEPT ![s] = writes + 1]
  /\ UNCHANGED <<cluster, box, res, todo, snapshots, faults, spilled, late>>

\* KillSandbox: the session is taken out and Backend.Kill called.
Kill(s) ==
  /\ At(s, "live")
  /\ todo' = [todo EXCEPT ![s] = KillList(s)]
  /\ box' = [box EXCEPT ![s].pc = "killing", ![s].reg = {}]
  /\ UNCHANGED <<cluster, res, ws, snapshots, faults, spilled, history>>

-----------------------------------------------------------------------------
(* Snapshot *)

\* The session is found and the tarball's file created.
BeginSnapshot(n, s) ==
  /\ cap[n] = NoCapture /\ At(s, "live")
  /\ cap' = [cap EXCEPT ![n] = [pc |-> "tar", of |-> s]]
  /\ tarball' = [tarball EXCEPT ![n] = "partial"]
  /\ UNCHANGED <<cluster, box, res, todo, ws, table, file, faults, spilled, history>>

\* tar in the container or pod, and the digest; on an error, as when the unit is
\* gone, the file is removed.
Capture(n, unit) ==
  /\ cap[n].pc = "tar"
  /\ \/ /\ unit \in res[cap[n].of]
        /\ tarball' = [tarball EXCEPT ![n] = ws[cap[n].of]]
        /\ cap' = [cap EXCEPT ![n].pc = "register"]
        /\ UNCHANGED faults
     \/ /\ IF unit \in res[cap[n].of] THEN faults < MaxFaults /\ faults' = faults + 1 ELSE UNCHANGED faults
        /\ tarball' = [tarball EXCEPT ![n] = "none"]
        /\ cap' = [cap EXCEPT ![n].pc = "failed"]
  /\ UNCHANGED <<cluster, box, res, todo, ws, table, file, spilled, history>>

DockerSnapshot(n) == ~K8s /\ Capture(n, "container")
K8sSnapshot(n) == K8s /\ Capture(n, "pod")

\* The reference enters the table, where restores find it at once; snapOpMu is
\* held until it is saved.
RegisterSnapshot(n) ==
  /\ cap[n].pc = "register" /\ \A m \in Snap : cap[m].pc # "save"
  /\ table' = [table EXCEPT ![n] = tarball[n]]
  /\ cap' = [cap EXCEPT ![n].pc = "save"]
  /\ UNCHANGED <<cluster, box, res, todo, ws, tarball, file, faults, spilled, history>>

\* Mutant of SaveSnapshots: a failed save is ignored.
SaveSnapshotsIgnoring(n) ==
  /\ cap[n].pc = "save"
  /\ file' \in {file, table}
  /\ cap' = [cap EXCEPT ![n].pc = "answered"]
  /\ UNCHANGED <<cluster, box, res, todo, ws, tarball, table, faults, spilled, history>>

\* saveSnapshots writes the whole table; when that fails the reference is taken
\* out again.  The tarball stays.
SaveSnapshots(n) ==
  /\ cap[n].pc = "save"
  /\ \/ /\ file' = table
        /\ cap' = [cap EXCEPT ![n].pc = "answered"]
        /\ UNCHANGED <<table, faults>>
     \/ /\ faults < MaxFaults /\ faults' = faults + 1
        /\ table' = [table EXCEPT ![n] = NoRef]
        /\ cap' = [cap EXCEPT ![n].pc = "failed"]
        /\ UNCHANGED file
  /\ UNCHANGED <<cluster, box, res, todo, ws, tarball, spilled, history>>

-----------------------------------------------------------------------------
(* The world around *)

\* A tarball is damaged on disk.
Rot(n) ==
  /\ table[n] # NoRef /\ tarball[n] = table[n] /\ faults < MaxFaults
  /\ faults' = faults + 1
  /\ tarball' = [tarball EXCEPT ![n] = Rotten]
  /\ late' = late \cup {s \in Sandbox : At(s, "untar") /\ box[s].from = n}
  /\ UNCHANGED <<cluster, box, res, todo, ws, cap, table, file, spilled, writes>>

Busy(s) == box[s].pc \notin {"none", "killed", "failed", "lost"}

\* The process ends and starts again: requests, sessions, the proxies in the
\* process and the maps are gone; loadSnapshots reads the references.
Restart ==
  /\ faults < MaxFaults
  /\ faults' = faults + 1
  /\ box' = [s \in Sandbox |-> IF Busy(s) THEN [box[s] EXCEPT !.pc = "lost", !.reg = {}] ELSE box[s]]
  /\ res' = [s \in Sandbox |-> res[s] \ {"proxy"}]
  /\ todo' = [s \in Sandbox |-> <<>>]
  /\ cap' = [n \in Snap |-> IF cap[n].pc \in {"tar", "register", "save"} THEN [cap[n] EXCEPT !.pc = "lost"] ELSE cap[n]]
  /\ table' = file
  /\ UNCHANGED <<cluster, ws, tarball, file, spilled, history>>

-----------------------------------------------------------------------------
DockerCreate(s) ==
  \/ CreateVolume(s) \/ StartHostProxy(s) \/ StartEgressContainer(s)
  \/ WaitEgressReady(s) \/ RunContainer(s) \/ ContainerUp(s)

K8sCreate(s) ==
  \/ EnsureNamespace(s) \/ EnsureNetworkPolicy(s) \/ CreateClaim(s) \/ CreateConfigMap(s)
  \/ CreatePod(s) \/ PodUp(s) \/ EnsureIDEIngress(s)

Create(s) ==
  \/ Begin(s) \/ DockerCreate(s) \/ K8sCreate(s) \/ SeedWorkspace(s) \/ CopyFiles(s)
  \/ DockerRestore(s) \/ K8sRestore(s) \/ Admit(s)

Next ==
  \/ \E s \in Sandbox : Create(s) \/ Exec(s) \/ Kill(s) \/ RunRemoval(s) \/ Removed(s)
  \/ \E n \in Snap : DockerSnapshot(n) \/ K8sSnapshot(n) \/ RegisterSnapshot(n) \/ SaveSnapshots(n) \/ Rot(n) \/ \E s \in Sandbox : BeginSnapshot(n, s)
  \/ Restart

Spec == Init /\ [][Next]_vars

-----------------------------------------------------------------------------
(* Properties *)

\* Every error path of Create and RestoreWithSpec and every Kill takes along all
\* that was made for the sandbox - volume or claim, proxy, sidecar, ConfigMap,
\* ingress policy, container or pod - unless the runtime refused a removal.
NothingLeaks ==
  \A s \in Sandbox :
    box[s].pc \in {"failed", "killed"} /\ s \notin spilled => res[s] = {}

\* A container whose Charter asks for strict egress never exists without a
\* sidecar that is ready, and no pod without the default-deny policy where that
\* is switched on; Create and Kill both keep to the order this needs.
EnforcedWhileRunning ==
  \A s \in Sandbox \ spilled :
    /\ "container" \in res[s] /\ box[s].spec.egress = "strict" => {"sidecar", "ready"} \subseteq res[s]
    /\ "pod" \in res[s] => ns # "none" /\ (policyOn => deny)

\* A snapshot that was answered can be found after any crash, and its tarball is
\* complete unless the disk damaged it; no reference is kept to anything else.
SnapshotsAreDurable ==
  \A n \in Snap :
    /\ cap[n].pc = "answered" => table[n] # NoRef /\ file[n] = table[n]
    /\ table[n] # NoRef => tarball[n] \in {table[n], Rotten}
    /\ table[n] # file[n] => cap[n].pc = "save"

\* A restored sandbox starts from the content that was captured: damage to the
\* tarball that came before the check of the digest is found.
RestoredIsCaptured ==
  \A s \in Sandbox :
    At(s, "admit") /\ box[s].from # "none" /\ s \notin late => ws[s] = box[s].digest
=============================================================================
