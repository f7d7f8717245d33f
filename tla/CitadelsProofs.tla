--------------------------- MODULE CitadelsProofs ---------------------------
(***************************************************************************)
(* Proofs about the life of a sandbox and what is said in it.  Citadels:   *)
(* for every set of sandboxes, Runs and requests to kill, whatever fails   *)
(* and however often the control plane crashes.  Controller: for every set *)
(* of resources, every number of boxes and every budget of failures and of *)
(* changes by users.  Conversation: for any number of observers and of     *)
(* messages.                                                               *)
(***************************************************************************)
EXTENDS Citadels, Controller, Conversation, TLAPS

-----------------------------------------------------------------------------
(* The Manager: its inductive invariant *)

CreateLabel ==
  {"idle", "created", "published", "ready", "undo", "unpublish", "answered", "refused", "lost"}

Creation ==
  [pc : CreateLabel, run : RunId \cup {"none"}, parent : RunId \cup {"none"}, ide : BOOLEAN]

KillState ==
  [pc : {"idle", "removed", "stopped", "done"}, citadel : Citadel \cup {"none"}, failed : BOOLEAN]

Record ==
  [citadel : Citadel \cup {"none"}, parent : RunId \cup {"none"},
   status : {"none", "running", "completed", "failed", "interrupted"}]

TypeOK ==
  /\ up \in BOOLEAN
  /\ backend \in [Citadel -> {"none", "live", "dead"}]
  /\ session \subseteq Citadel
  /\ create \in [Citadel -> Creation]
  /\ kill \in [Killer -> KillState]
  /\ runs \in [RunId -> Record] /\ runsFile \in [RunId -> Record]

\* c is stopped, or an event explains why it still runs.
Spent(c) == backend[c] # "live" \/ c \in survivors

\* The request of k has found its Citadel and has not come to its end.
Busy(k) == kill[k].pc \in {"removed", "stopped"}

\* Where a creation stands, and what that says of its sandbox.
CreationOK ==
  \A c \in Citadel :
    /\ create[c].pc # "idle" => create[c].run \in RunId
    /\ create[c].pc = "idle" => backend[c] = "none"
    /\ create[c].pc = "created" => backend[c] = "live"
    /\ create[c].pc \in {"unpublish", "refused", "lost"} => Spent(c)
    /\ create[c].pc \in {"published", "ready", "undo", "answered"} =>
         Spent(c) \/ c \in session \/ Killing(c)
    /\ create[c].pc \in {"published", "ready"} => c \in session \/ c \in early

\* The table has live sandboxes whose creation came far enough.
SessionOK ==
  \A c \in session :
    /\ create[c].pc \in {"published", "ready", "undo", "unpublish", "answered"}
    /\ backend[c] = "live" \/ create[c].pc = "unpublish"

\* A Citadel that is being killed left the table and never comes back.
KillOK ==
  \A k \in Killer : Busy(k) =>
    /\ kill[k].citadel \in Citadel
    /\ kill[k].citadel \notin session
    /\ create[kill[k].citadel].pc \notin {"idle", "created"}
    /\ kill[k].pc = "stopped" => Spent(kill[k].citadel)

\* A record names a Citadel whose creation was answered, and only the record of
\* its own Run is shown as running.
RecordsOK ==
  \A r \in RunId :
    /\ runs[r].citadel # "none" => create[runs[r].citadel].pc = "answered"
    /\ runsFile[r].citadel # "none" => create[runsFile[r].citadel].pc = "answered"
    /\ runs[r].status = "running" => runs[r].citadel # "none" /\ create[runs[r].citadel].run = r

\* RunEndsWithCitadel, over the creations that have begun.
RunOutlived ==
  \A c \in session :
    LET r == create[c].run IN
    /\ runs[r].citadel = c
    /\ \A d \in Citadel : d # c /\ create[d].pc # "idle" => create[d].run # r
    => runs[r].status = "running"

\* Without a process there is no table.
DownOK == ~up => session = {}

CitadelInv ==
  /\ TypeOK /\ CreationOK /\ SessionOK /\ KillOK /\ RecordsOK /\ RunOutlived /\ RunningRunIsLive
  /\ DownOK

-----------------------------------------------------------------------------
(* What the helpers of the actions do *)

\* A creation that moves on keeps its Run.
LEMMA MoveFacts ==
  ASSUME TypeOK, NEW c \in Citadel, NEW l \in CreateLabel, create' = [create EXCEPT ![c].pc = l]
  PROVE  /\ create' \in [Citadel -> Creation]
         /\ create'[c].pc = l
         /\ \A d \in Citadel : create'[d].run = create[d].run
         /\ \A d \in Citadel \ {c} : create'[d] = create[d]
<1> DEFINE new == [create[c] EXCEPT !.pc = l]
<1>1. create \in [Citadel -> Creation] /\ create' = [create EXCEPT ![c] = new]
  BY Zenon DEF TypeOK
<1>2. new \in Creation /\ new.pc = l /\ new.run = create[c].run
  BY <1>1 DEF Creation
<1> HIDE DEF new
<1> QED
  BY <1>1, <1>2, Zenon

\* After Backend.Kill the sandbox is spent, and no other is touched.
LEMMA KillFacts ==
  ASSUME TypeOK, NEW c \in Citadel, BackendKill(c)
  PROVE  /\ backend' \in [Citadel -> {"none", "live", "dead"}]
         /\ Spent(c)'
         /\ \A d \in Citadel : Spent(d) => Spent(d)'
         /\ \A d \in Citadel \ {c} : backend'[d] = backend[d]
BY Zenon DEF TypeOK, BackendKill, Spent

\* The first states satisfy the invariant.
LEMMA CitadelInvInit == CitadelInit => CitadelInv
<1> SUFFICES ASSUME CitadelInit PROVE CitadelInv
  BY Zenon
<1>1. TypeOK
  <2>1. Fresh \in Creation /\ Waiting \in KillState /\ NoRun \in Record
    BY Zenon DEF Fresh, Creation, CreateLabel, Waiting, KillState, NoRun, Record
  <2> QED
    BY <2>1, Zenon DEF CitadelInit, TypeOK
<1>2. /\ \A c \in Citadel : create[c].pc = "idle" /\ backend[c] = "none"
      /\ \A k \in Killer : kill[k].pc = "idle"
      /\ \A r \in RunId : runs[r] = NoRun /\ runsFile[r] = NoRun
      /\ NoRun.citadel = "none" /\ NoRun.status = "none" /\ session = {}
  BY Zenon DEF CitadelInit, Fresh, Waiting, NoRun
<1> QED
  BY <1>1, <1>2, Zenon DEF CitadelInv, CreationOK, SessionOK, KillOK, RecordsOK, RunOutlived, RunningRunIsLive,
     DownOK, Spent, Busy

-----------------------------------------------------------------------------
(* The steps *)

\* CreateSandbox and RestoreSnapshot begin: the backend gives an identifier that
\* was not used before.
LEMMA BeginStep ==
  ASSUME CitadelInv, NEW c \in Citadel, create[c].pc = "idle", NEW new \in Creation, new.pc = "created",
         new.run \in RunId, create' = [create EXCEPT ![c] = new], backend' = [backend EXCEPT ![c] = "live"],
         UNCHANGED <<up, stops, session, kill, runs, runsFile, early, survivors>>
  PROVE  CitadelInv'
<1>1. /\ create' \in [Citadel -> Creation] /\ create'[c] = new
      /\ \A d \in Citadel \ {c} : create'[d] = create[d] /\ backend'[d] = backend[d]
      /\ backend' \in [Citadel -> {"none", "live", "dead"}]
  BY Zenon DEF CitadelInv, TypeOK
<1>2. TypeOK'
  BY <1>1, Zenon DEF CitadelInv, TypeOK
<1>3. c \notin session /\ \A k \in Killer : Busy(k) => kill[k].citadel # c
  BY Zenon DEF CitadelInv, SessionOK, KillOK
<1>4. \A d \in Citadel : Killing(d)' = Killing(d)
  BY Zenon DEF Killing
<1>5. CreationOK'
  BY <1>1, <1>4 DEF CitadelInv, CreationOK, Spent
<1>6. SessionOK'
  BY <1>1, <1>3, Zenon DEF CitadelInv, SessionOK, TypeOK
<1>7. KillOK'
  BY <1>1, <1>3, Zenon DEF CitadelInv, KillOK, Busy, Spent
<1>8. \A r \in RunId : runs[r].citadel \in Citadel \cup {"none"} /\ runsFile[r].citadel \in Citadel \cup {"none"}
  BY Zenon DEF CitadelInv, TypeOK, Record
<1>9. RecordsOK'
  BY <1>1, <1>8, SMTT(60) DEF CitadelInv, RecordsOK
<1>10. RunOutlived'
  BY <1>1, <1>3 DEF CitadelInv, RunOutlived, TypeOK
<1>11. RunningRunIsLive'
  BY <1>4, <1>8, Zenon DEF CitadelInv, RunningRunIsLive, RecordsOK
<1> QED
  BY <1>2, <1>5, <1>6, <1>7, <1>9, <1>10, <1>11, Zenon DEF CitadelInv, DownOK

\* What the records and the requests name.
LEMMA NamesTyped ==
  ASSUME CitadelInv
  PROVE  /\ \A r \in RunId : runs[r].citadel \in Citadel \cup {"none"}
                            /\ runsFile[r].citadel \in Citadel \cup {"none"}
         /\ \A c \in Citadel : create[c].pc \in CreateLabel
         /\ \A k \in Killer : kill[k].pc \in {"idle", "removed", "stopped", "done"}
         /\ \A c : Killing(c) <=> \E k \in Killer : kill[k].citadel = c /\ Busy(k)
<1>1. \A k \in Killer : kill[k].pc \in {"idle", "removed", "stopped", "done"}
  BY Zenon DEF CitadelInv, TypeOK, KillState
<1>2. \A c : Killing(c) <=> \E k \in Killer : kill[k].citadel = c /\ Busy(k)
  BY <1>1, Zenon DEF Killing, Busy
<1> QED
  BY <1>1, <1>2, Zenon DEF CitadelInv, TypeOK, Record, Creation

\* A step of CreateSandbox before the caller is answered changes only where the
\* creation stands, its entry in the table and perhaps its sandbox.
LEMMA CreationStep ==
  ASSUME CitadelInv, NEW c \in Citadel, NEW l \in CreateLabel,
         create[c].pc \in {"created", "published", "ready", "undo", "unpublish"},
         l \in {"published", "ready", "undo", "unpublish", "refused"},
         create' = [create EXCEPT ![c].pc = l],
         up' = up, kill' = kill, runs' = runs, runsFile' = runsFile, early' = early,
         backend' \in [Citadel -> {"none", "live", "dead"}],
         \A d \in Citadel \ {c} : backend'[d] = backend[d],
         \A d \in Citadel : Spent(d) => Spent(d)',
         session' \in {session, session \cup {c}, session \ {c}},
         c \in session' => l # "refused" /\ (backend'[c] = "live" \/ l = "unpublish"),
         c \in session' /\ c \notin session => create[c].pc = "created",
         l \in {"unpublish", "refused"} => Spent(c)',
         l \in {"published", "ready", "undo"} => Spent(c)' \/ c \in session' \/ Killing(c),
         l \in {"published", "ready"} => c \in session' \/ c \in early,
         up
  PROVE  CitadelInv'
<1>0. /\ create' \in [Citadel -> Creation] /\ create'[c].pc = l
      /\ \A d \in Citadel : create'[d].run = create[d].run
      /\ \A d \in Citadel \ {c} : create'[d] = create[d]
      /\ \A d \in Citadel : create'[d].pc = "answered" <=> create[d].pc = "answered"
      /\ \A d \in Citadel : create'[d].pc = "idle" <=> create[d].pc = "idle"
  BY MoveFacts, ZenonT(60) DEF CitadelInv
<1>1. \A d \in Citadel : Killing(d)' = Killing(d)
  BY Zenon DEF Killing
<1>2. \A k \in Killer : Busy(k)' = Busy(k)
  BY Zenon DEF Busy
<1>3. session' \subseteq Citadel /\ \A d \in Citadel \ {c} : d \in session' <=> d \in session
  BY Zenon DEF CitadelInv, TypeOK
<1>4. \A r \in RunId : runs[r].citadel # c /\ runsFile[r].citadel # c
  BY CitadelAssumption DEF CitadelInv, RecordsOK
<1>5. TypeOK'
  BY <1>0, <1>3, Zenon DEF CitadelInv, TypeOK
<1>6. CreationOK'
  BY <1>0, <1>1, <1>3, SMTT(60) DEF CitadelInv, CreationOK
<1>7. SessionOK'
  BY <1>0, <1>3, SMTT(60) DEF CitadelInv, SessionOK
<1>8. KillOK'
  BY <1>0, <1>2, <1>3, SMTT(60) DEF CitadelInv, KillOK
<1>9. RecordsOK'
  BY <1>0, <1>4, NamesTyped DEF CitadelInv, RecordsOK
<1>10. RunOutlived'
  <2> SUFFICES ASSUME NEW d \in session', runs[create[d].run].citadel = d,
                      \A e \in Citadel : e # d /\ create[e].pc # "idle" => create[e].run # create[d].run
               PROVE  runs[create[d].run].status = "running"
    BY <1>0, <1>3 DEF RunOutlived
  <2>1. create[d].run \in RunId
    BY <1>0, <1>3, <1>7, Zenon DEF CitadelInv, CreationOK, SessionOK
  <2>2. d # c /\ d \in session
    BY <1>3, <1>4, <2>1, Zenon
  <2> QED
    BY <1>3, <2>2, Zenon DEF CitadelInv, RunOutlived
<1>11. RunningRunIsLive'
  BY <1>1, <1>3, <1>4, NamesTyped, ZenonT(60) DEF CitadelInv, RunningRunIsLive, RecordsOK
<1> QED
  BY <1>5, <1>6, <1>7, <1>8, <1>9, <1>10, <1>11, Zenon DEF CitadelInv, DownOK

\* CreateSandbox from its start to the registration of the Run, and every way in
\* which it is undone.
LEMMA CreatorStep ==
  ASSUME CitadelInv, NEW c \in Citadel,
         BeginCreate(c) \/ BeginRestore(c) \/ Verify(c) \/ StartIDE(c) \/ UndoKill(c) \/ Unpublish(c)
  PROVE  CitadelInv'
<1>0. {"published", "ready", "undo", "unpublish", "refused"} \subseteq CreateLabel
  BY Zenon DEF CreateLabel
<1>1. CASE BeginCreate(c)
  <2>1. PICK r \in RunId, ide \in BOOLEAN, q \in session \cup {"none"} :
          create' = [create EXCEPT ![c] = [pc |-> "created", run |-> r, ide |-> ide,
                       parent |-> IF q = "none" THEN "none" ELSE create[q].run]]
    BY <1>1, Zenon DEF BeginCreate
  <2> DEFINE new == [pc |-> "created", run |-> r, ide |-> ide,
                     parent |-> IF q = "none" THEN "none" ELSE create[q].run]
  <2>2. q # "none" => create[q].run \in RunId \cup {"none"}
    BY Zenon DEF CitadelInv, TypeOK, Creation
  <2>3. new \in Creation /\ new.pc = "created" /\ new.run = r
    BY <2>2, Zenon DEF Creation, CreateLabel
  <2> HIDE DEF new
  <2>4. create' = [create EXCEPT ![c] = new]
    BY <2>1, Zenon DEF new
  <2> QED
    BY <1>1, <2>3, <2>4, BeginStep, Zenon DEF BeginCreate, Doing
<1>2. CASE BeginRestore(c)
  <2>1. PICK r \in RunId : create' = [create EXCEPT ![c] =
                              [pc |-> "created", run |-> r, ide |-> FALSE, parent |-> "none"]]
    BY <1>2, Zenon DEF BeginRestore
  <2> DEFINE new == [pc |-> "created", run |-> r, ide |-> FALSE, parent |-> "none"]
  <2>2. new \in Creation /\ new.pc = "created" /\ new.run = r
    BY Zenon DEF Creation, CreateLabel
  <2> HIDE DEF new
  <2>3. create' = [create EXCEPT ![c] = new]
    BY <2>1, Zenon DEF new
  <2> QED
    BY <1>2, <2>2, <2>3, BeginStep, Zenon DEF BeginRestore, Doing
<1>3. CASE Verify(c)
  <2>1. create[c].pc = "created" /\ up /\ up' = up /\ kill' = kill /\ runs' = runs /\ runsFile' = runsFile
        /\ early' = early /\ c \notin session
    BY <1>3, Zenon DEF Verify, Doing, CitadelInv, SessionOK
  <2>2. CASE session' = session \cup {c} /\ create' = [create EXCEPT ![c].pc = "published"]
             /\ UNCHANGED <<backend, survivors>>
    <3>1. /\ backend' = backend /\ backend \in [Citadel -> {"none", "live", "dead"}]
          /\ \A d \in Citadel : Spent(d)' = Spent(d)
          /\ backend[c] = "live"
      BY <2>1, <2>2, Zenon DEF CitadelInv, TypeOK, CreationOK, Spent
    <3> QED
      BY <1>0, <2>1, <2>2, <3>1, CreationStep, Zenon
  <2>3. CASE BackendKill(c) /\ create' = [create EXCEPT ![c].pc = "refused"] /\ session' = session
    BY <1>0, <2>1, <2>3, KillFacts, CreationStep, Zenon DEF CitadelInv
  <2> QED
    BY <1>3, <2>2, <2>3, Zenon DEF Verify
<1>4. CASE StartIDE(c)
  <2>1. create[c].pc = "published" /\ up
    BY <1>4, Zenon DEF StartIDE, Doing
  <2>2. PICK l \in {"ready", "undo"} : create' = [create EXCEPT ![c].pc = l]
    BY <1>4, Zenon DEF StartIDE
  <2>3. /\ Spent(c) \/ c \in session \/ Killing(c)
        /\ c \in session \/ c \in early
        /\ c \in session => backend[c] = "live"
        /\ backend' = backend /\ backend \in [Citadel -> {"none", "live", "dead"}]
        /\ \A d \in Citadel : Spent(d)' = Spent(d)
    BY <1>4, <2>1, Zenon DEF StartIDE, CitadelInv, TypeOK, CreationOK, SessionOK, Spent
  <2> QED
    BY <1>0, <1>4, <2>1, <2>2, <2>3, CreationStep, ZenonT(60) DEF StartIDE
<1>5. CASE UndoKill(c)
  <2>1. create[c].pc = "undo" /\ up /\ BackendKill(c)
    BY <1>5, Zenon DEF UndoKill, Doing
  <2> QED
    BY <1>0, <1>5, <2>1, KillFacts, CreationStep, Zenon DEF UndoKill, CitadelInv
<1>6. CASE Unpublish(c)
  <2>1. /\ create[c].pc = "unpublish" /\ up /\ Spent(c)
        /\ backend' = backend /\ backend \in [Citadel -> {"none", "live", "dead"}]
        /\ \A d \in Citadel : Spent(d)' = Spent(d)
    BY <1>6, Zenon DEF Unpublish, Doing, CitadelInv, TypeOK, CreationOK, Spent
  <2> QED
    BY <1>0, <1>6, <2>1, CreationStep, Zenon DEF Unpublish
<1> QED
  BY <1>1, <1>2, <1>3, <1>4, <1>5, <1>6, Zenon

\* registerRun: the record is new or was this Citadel's.
LEMMA RegisterStep ==
  ASSUME CitadelInv, NEW c \in Citadel, RegisterRun(c)
  PROVE  CitadelInv'
<1> DEFINE r == create[c].run
<1>0. /\ create[c].pc = "ready" /\ up /\ up' = up /\ kill' = kill /\ session' = session /\ early' = early
      /\ backend' = backend /\ survivors' = survivors /\ r \in RunId
      /\ {"undo", "answered"} \subseteq CreateLabel
  BY Zenon DEF RegisterRun, Doing, CitadelInv, CreationOK, CreateLabel
<1>1. /\ Spent(c) \/ c \in session \/ Killing(c)
      /\ c \in session \/ c \in early
      /\ c \in session => backend[c] = "live"
      /\ backend \in [Citadel -> {"none", "live", "dead"}]
      /\ \A d \in Citadel : Spent(d)' = Spent(d) /\ Killing(d)' = Killing(d)
      /\ \A k \in Killer : Busy(k)' = Busy(k)
  BY <1>0, Zenon DEF CitadelInv, TypeOK, CreationOK, SessionOK, Spent, Killing, Busy
<1>2. CASE create' = [create EXCEPT ![c].pc = "undo"] /\ UNCHANGED <<runs, runsFile>>
  BY <1>0, <1>1, <1>2, CreationStep, Zenon
<1>3. CASE /\ ~Conflict(c)
           /\ runs' = [runs EXCEPT ![r] = [citadel |-> c, parent |-> create[c].parent, status |-> "running"]]
           /\ runsFile' = runs'
           /\ create' = [create EXCEPT ![c].pc = "answered"]
  <2>1. /\ create' \in [Citadel -> Creation] /\ create'[c].pc = "answered"
        /\ \A d \in Citadel : create'[d].run = create[d].run
        /\ \A d \in Citadel \ {c} : create'[d] = create[d]
    BY <1>0, <1>3, MoveFacts, Zenon DEF CitadelInv
  <2>2. [citadel |-> c, parent |-> create[c].parent, status |-> "running"] \in Record
    BY Zenon DEF CitadelInv, TypeOK, Creation, Record
  <2>3. /\ runs' \in [RunId -> Record] /\ runs'[r].citadel = c /\ runs'[r].status = "running"
        /\ \A q \in RunId \ {r} : runs'[q] = runs[q]
    BY <1>0, <1>3, <2>2, Zenon DEF CitadelInv, TypeOK
  <2>4. \A q \in RunId : runs[q].citadel # c
    BY <1>0, CitadelAssumption, Zenon DEF CitadelInv, RecordsOK
  <2>5. TypeOK'
    BY <1>0, <1>3, <2>1, <2>3, Zenon DEF CitadelInv, TypeOK
  <2>6. CreationOK'
    BY <1>0, <1>1, <2>1, SMTT(60) DEF CitadelInv, CreationOK
  <2>7. SessionOK'
    BY <1>0, <1>1, <2>1, ZenonT(60) DEF CitadelInv, SessionOK, TypeOK
  <2>8. KillOK'
    BY <1>0, <1>1, <2>1, Zenon DEF CitadelInv, KillOK
  <2>9. RecordsOK'
    BY <1>0, <1>3, <2>1, <2>3, NamesTyped, CitadelAssumption DEF CitadelInv, RecordsOK
  <2>10. RunOutlived'
    <3> SUFFICES ASSUME NEW d \in session, runs'[create[d].run].citadel = d,
                        \A e \in Citadel : e # d /\ create'[e].pc # "idle" => create[e].run # create[d].run
                 PROVE  runs'[create[d].run].status = "running"
      BY <1>0, <2>1 DEF RunOutlived, CitadelInv, TypeOK
    <3>1. create[d].run \in RunId /\ d \in Citadel
      BY Zenon DEF CitadelInv, CreationOK, SessionOK, TypeOK
    <3>2. CASE create[d].run = r
      BY <2>3, <3>2, Zenon
    <3>3. CASE create[d].run # r
      <4>1. runs[create[d].run] = runs'[create[d].run]
        BY <2>3, <3>1, <3>3, Zenon
      <4>2. \A e \in Citadel : e # d /\ create[e].pc # "idle" => create[e].run # create[d].run
        BY <1>0, <2>1, Zenon
      <4> QED
        BY <4>1, <4>2, Zenon DEF CitadelInv, RunOutlived
    <3> QED
      BY <3>2, <3>3, Zenon
  <2>11. RunningRunIsLive'
    BY <1>0, <1>1, <2>3, NamesTyped DEF CitadelInv, RunningRunIsLive, RecordsOK
  <2> QED
    BY <1>0, <2>5, <2>6, <2>7, <2>8, <2>9, <2>10, <2>11, Zenon DEF CitadelInv, DownOK
<1> QED
  BY <1>2, <1>3, Zenon DEF RegisterRun

\* A kill takes the session from the table: from here on it is this request's.
LEMMA KillRemoveStep ==
  ASSUME CitadelInv, NEW k \in Killer, NEW c \in Citadel, KillRemove(k, c)
  PROVE  CitadelInv'
<1> DEFINE new == [pc |-> "removed", citadel |-> c, failed |-> FALSE]
<1>0. /\ up /\ kill[k].pc = "idle" /\ c \in session /\ session' = session \ {c}
      /\ kill' = [kill EXCEPT ![k] = new] /\ early \subseteq early'
      /\ create[c].pc # "answered" => c \in early'
      /\ up' = up /\ backend' = backend /\ create' = create /\ runs' = runs /\ runsFile' = runsFile
      /\ survivors' = survivors
  BY Zenon DEF KillRemove
<1>1. new \in KillState /\ new.pc = "removed" /\ new.citadel = c
  BY Zenon DEF KillState
<1> HIDE DEF new
<1>2. /\ kill' \in [Killer -> KillState] /\ kill'[k] = new
      /\ \A j \in Killer \ {k} : kill'[j] = kill[j]
  BY <1>0, <1>1, Zenon DEF CitadelInv, TypeOK
<1>3. /\ Killing(c)'
      /\ \A d : Killing(d) => Killing(d)'
  BY <1>0, <1>1, <1>2, Zenon DEF Killing
<1>4. \A d \in Citadel : Spent(d)' = Spent(d)
  BY <1>0, Zenon DEF Spent
<1>5. TypeOK'
  BY <1>0, <1>2, Zenon DEF CitadelInv, TypeOK
<1>6. CreationOK'
  BY <1>0, <1>3, <1>4, Zenon DEF CitadelInv, CreationOK
<1>7. SessionOK'
  BY <1>0, Zenon DEF CitadelInv, SessionOK
<1>8. KillOK'
  BY <1>0, <1>1, <1>2, <1>4, ZenonT(60) DEF CitadelInv, KillOK, Busy, SessionOK
<1>9. RecordsOK' /\ RunOutlived'
  BY <1>0 DEF CitadelInv, RecordsOK, RunOutlived
<1>10. RunningRunIsLive'
  BY <1>0, <1>3, Zenon DEF CitadelInv, RunningRunIsLive
<1> QED
  BY <1>0, <1>5, <1>6, <1>7, <1>8, <1>9, <1>10, Zenon DEF CitadelInv, DownOK

\* The backend is told to stop the sandbox.
LEMMA KillBackendStep ==
  ASSUME CitadelInv, NEW k \in Killer, KillBackend(k)
  PROVE  CitadelInv'
<1>1. PICK c \in Citadel : c = kill[k].citadel /\ c \notin session
                           /\ create[c].pc \notin {"idle", "created"} /\ Busy(k)
  BY Zenon DEF KillBackend, CitadelInv, KillOK, Busy
<1> DEFINE f == c \in survivors' /\ backend[c] = "live"
<1> DEFINE new == [kill[k] EXCEPT !.pc = "stopped", !.failed = f]
<1>0. /\ up /\ kill[k].pc = "removed" /\ BackendKill(c)
      /\ up' = up /\ session' = session /\ create' = create /\ runs' = runs /\ runsFile' = runsFile
      /\ early' = early
  BY <1>1, Zenon DEF KillBackend
<1>2. new \in KillState /\ new.pc = "stopped" /\ new.citadel = c
  BY <1>1, ZenonT(60) DEF CitadelInv, TypeOK, KillState
<1>3. kill' = [kill EXCEPT ![k] = new]
  BY <1>1, Zenon DEF KillBackend, CitadelInv, TypeOK
<1>4. /\ backend' \in [Citadel -> {"none", "live", "dead"}] /\ Spent(c)'
      /\ \A d \in Citadel : Spent(d) => Spent(d)'
      /\ \A d \in Citadel \ {c} : backend'[d] = backend[d]
  BY <1>0, <1>1, KillFacts, Zenon DEF CitadelInv
<1> HIDE DEF new
<1>5. /\ kill' \in [Killer -> KillState] /\ kill'[k].pc = "stopped" /\ kill'[k].citadel = c
      /\ \A j \in Killer \ {k} : kill'[j] = kill[j]
  BY <1>2, <1>3, Zenon DEF CitadelInv, TypeOK
<1>6. \A d : Killing(d)' <=> Killing(d)
  BY <1>0, <1>1, <1>5, Zenon DEF Killing
<1>7. TypeOK'
  BY <1>0, <1>4, <1>5, Zenon DEF CitadelInv, TypeOK
<1>8. CreationOK'
  BY <1>0, <1>1, <1>4, <1>6, Zenon DEF CitadelInv, CreationOK
<1>9. SessionOK'
  BY <1>0, <1>1, <1>4, ZenonT(60) DEF CitadelInv, SessionOK, TypeOK
<1>10. KillOK'
  BY <1>0, <1>1, <1>4, <1>5, ZenonT(60) DEF CitadelInv, KillOK, Busy
<1>11. RecordsOK' /\ RunOutlived'
  BY <1>0, Zenon DEF CitadelInv, RecordsOK, RunOutlived
<1>12. RunningRunIsLive'
  BY <1>0, <1>6, Zenon DEF CitadelInv, RunningRunIsLive
<1> QED
  BY <1>0, <1>7, <1>8, <1>9, <1>10, <1>11, <1>12, Zenon DEF CitadelInv, DownOK

\* finishRun: the record of the Citadel, if it has one, is no longer running.
LEMMA FinishStep ==
  ASSUME CitadelInv, NEW k \in Killer, FinishRun(k)
  PROVE  CitadelInv'
<1> DEFINE c == kill[k].citadel
<1> DEFINE r == create[c].run
<1> DEFINE new == [kill[k] EXCEPT !.pc = "done"]
<1>0. /\ up /\ kill[k].pc = "stopped" /\ kill' = [kill EXCEPT ![k] = new]
      /\ up' = up /\ session' = session /\ create' = create /\ backend' = backend
      /\ early' = early /\ survivors' = survivors
  BY Zenon DEF FinishRun, CitadelInv, TypeOK
<1>1. c \in Citadel /\ c \notin session /\ create[c].pc # "idle" /\ Spent(c) /\ r \in RunId
  BY <1>0, Zenon DEF CitadelInv, KillOK, Busy, CreationOK
<1>2. new \in KillState /\ new.pc = "done" /\ new.citadel = c
  BY Zenon DEF CitadelInv, TypeOK, KillState
<1> HIDE DEF new
<1>3. /\ kill' \in [Killer -> KillState] /\ kill'[k].pc = "done"
      /\ \A j \in Killer \ {k} : kill'[j] = kill[j]
  BY <1>0, <1>2, Zenon DEF CitadelInv, TypeOK
<1>4. \A d : Killing(d) /\ d # c => Killing(d)'
  BY <1>0, <1>3, Zenon DEF Killing
<1>5. /\ runs' \in [RunId -> Record]
      /\ \A q \in RunId : runs'[q].citadel = runs[q].citadel
      /\ \A q \in RunId \ {r} : runs'[q] = runs[q]
      /\ runs'[r].status # "running"
  <2>1. CASE runs[r] = NoRun
    BY <1>1, <2>1 DEF FinishRun, CitadelInv, TypeOK, NoRun
  <2>2. CASE runs[r] # NoRun
    <3>1. PICK l \in {"failed", "completed"} : runs' = [runs EXCEPT ![r].status = l]
      BY <2>2, Zenon DEF FinishRun
    <3> DEFINE rec == [runs[r] EXCEPT !.status = l]
    <3>2. rec \in Record /\ rec.citadel = runs[r].citadel /\ rec.status = l
      BY <1>1 DEF CitadelInv, TypeOK, Record
    <3>3. runs' = [runs EXCEPT ![r] = rec] /\ runs \in [RunId -> Record]
      BY <3>1, Zenon DEF CitadelInv, TypeOK
    <3> HIDE DEF rec
    <3> QED
      BY <1>1, <3>2, <3>3, Zenon
  <2> QED
    BY <2>1, <2>2, Zenon
<1>6. runsFile' \in {runs', runsFile}
  BY Zenon DEF FinishRun
<1>7. \A d \in Citadel : Spent(d)' = Spent(d)
  BY <1>0, Zenon DEF Spent
<1> HIDE DEF c, r
<1>8. TypeOK'
  BY <1>0, <1>3, <1>5, <1>6, Zenon DEF CitadelInv, TypeOK
<1>9. CreationOK'
  BY <1>0, <1>1, <1>4, <1>7, Zenon DEF CitadelInv, CreationOK
<1>10. SessionOK'
  BY <1>0, Zenon DEF CitadelInv, SessionOK
<1>11. KillOK'
  BY <1>0, <1>3, <1>7, Zenon DEF CitadelInv, KillOK, Busy, TypeOK
<1>12. RecordsOK'
  BY <1>0, <1>1, <1>5, <1>6, SMTT(60) DEF CitadelInv, RecordsOK
<1>13. RunOutlived'
  BY <1>0, <1>1, <1>5, SMTT(60) DEF CitadelInv, RunOutlived, CreationOK, SessionOK, TypeOK, r
<1>14. RunningRunIsLive'
  BY <1>0, <1>1, <1>4, <1>5 DEF CitadelInv, RunningRunIsLive, RecordsOK, r
<1> QED
  BY <1>0, <1>8, <1>9, <1>10, <1>11, <1>12, <1>13, <1>14, Zenon DEF CitadelInv, DownOK

\* A crash: what runs goes on, and is accounted for by the crash.
LEMMA CrashStep ==
  ASSUME CitadelInv, Crash
  PROVE  CitadelInv'
<1>0. up' = FALSE /\ session' = {} /\ backend' = backend /\ runsFile' = runsFile /\ early' = early
  BY Zenon DEF Crash
<1>1. ASSUME NEW c \in Citadel
      PROVE  /\ create'[c] \in Creation /\ create'[c].run = create[c].run
             /\ create'[c].pc \in {"idle", "answered", "refused", "lost"}
             /\ create'[c].pc = "idle" <=> create[c].pc = "idle"
             /\ create'[c].pc = "answered" <=> create[c].pc = "answered"
  <2>1. create[c] \in Creation /\ create'[c] = [create[c] EXCEPT !.pc = IF Creating(c) THEN "lost" ELSE @]
    BY Zenon DEF Crash, CitadelInv, TypeOK
  <2>2. CASE Creating(c)
    BY <2>1, <2>2, Zenon DEF Creating, Creation, CreateLabel
  <2>3. CASE ~Creating(c)
    <3>1. create'[c] = create[c]
      BY <2>1, <2>3, Zenon DEF Creation
    <3> QED
      BY <2>1, <2>3, <3>1, Zenon DEF Creating
  <2> QED
    BY <2>2, <2>3, Zenon
<1>2. create' \in [Citadel -> Creation]
  BY <1>1, Zenon DEF Crash
<1>3. kill' \in [Killer -> KillState] /\ \A k \in Killer : kill'[k].pc \in {"idle", "done"}
  <2>1. ASSUME NEW k \in Killer
        PROVE  [kill[k] EXCEPT !.pc = IF @ = "idle" THEN @ ELSE "done"] \in KillState
               /\ [kill[k] EXCEPT !.pc = IF @ = "idle" THEN @ ELSE "done"].pc \in {"idle", "done"}
    BY Zenon DEF CitadelInv, TypeOK, KillState
  <2> QED
    BY <2>1, Zenon DEF Crash
<1>4. runs' \in [RunId -> Record] /\ \A r \in RunId : runs'[r].citadel = "none" /\ runs'[r].status = "none"
  BY Zenon DEF Crash, NoRun, Record
<1>5. \A c \in Citadel : Spent(c)'
  BY Zenon DEF Crash, Spent
<1>6. TypeOK'
  BY <1>0, <1>2, <1>3, <1>4, Zenon DEF CitadelInv, TypeOK
<1>7. CreationOK'
  BY <1>0, <1>1, <1>5, Zenon DEF CitadelInv, CreationOK
<1>8. RecordsOK'
  BY <1>0, <1>1, <1>4, NamesTyped, ZenonT(60) DEF CitadelInv, RecordsOK
<1> QED
  BY <1>0, <1>3, <1>4, <1>6, <1>7, <1>8, Zenon
     DEF CitadelInv, SessionOK, KillOK, Busy, RunOutlived, RunningRunIsLive, DownOK

\* loadRuns: no Run comes back as running.
LEMMA LoadStep ==
  ASSUME CitadelInv, LoadRuns
  PROVE  CitadelInv'
<1>0. /\ session = {} /\ session' = session /\ backend' = backend /\ create' = create /\ kill' = kill
      /\ early' = early /\ survivors' = survivors /\ up' = TRUE /\ runsFile' = runs'
  BY Zenon DEF LoadRuns, CitadelInv, DownOK
<1>1. ASSUME NEW r \in RunId
      PROVE  /\ runs'[r] \in Record /\ runs'[r].citadel = runsFile[r].citadel
             /\ runs'[r].status # "running"
  <2>1. runsFile[r] \in Record
        /\ runs'[r] = [runsFile[r] EXCEPT !.status = IF @ = "running" THEN "interrupted" ELSE @]
    BY Zenon DEF LoadRuns, CitadelInv, TypeOK
  <2> QED
    BY <2>1, Zenon DEF Record
<1>2. runs' \in [RunId -> Record]
  BY <1>1, Zenon DEF LoadRuns
<1>3. TypeOK'
  BY <1>0, <1>2, Zenon DEF CitadelInv, TypeOK
<1>4. /\ \A c \in Citadel : Spent(c)' = Spent(c) /\ Killing(c)' = Killing(c)
      /\ \A k \in Killer : Busy(k)' = Busy(k)
  BY <1>0, Zenon DEF Spent, Killing, Busy
<1>5. CreationOK' /\ SessionOK' /\ KillOK'
  BY <1>0, <1>4, Zenon DEF CitadelInv, CreationOK, SessionOK, KillOK
<1>6. RecordsOK'
  BY <1>0, <1>1, ZenonT(60) DEF CitadelInv, RecordsOK
<1> QED
  BY <1>0, <1>1, <1>3, <1>5, <1>6, Zenon DEF CitadelInv, RunOutlived, RunningRunIsLive, DownOK

-----------------------------------------------------------------------------
(* The theorems *)

\* The invariant holds in every state the control plane reaches.
THEOREM CitadelInvariant == CitadelSpec => []CitadelInv
<1>1. CitadelInv /\ [CitadelNext]_citadelVars => CitadelInv'
  <2> SUFFICES ASSUME CitadelInv, [CitadelNext]_citadelVars PROVE CitadelInv'
    BY Zenon
  <2>1. CASE UNCHANGED citadelVars
    BY <2>1 DEF citadelVars, CitadelInv, TypeOK, CreationOK, SessionOK, KillOK, RecordsOK, RunOutlived,
       RunningRunIsLive, DownOK, Spent, Busy, Killing
  <2>2. CASE CitadelNext
    BY <2>2, CreatorStep, RegisterStep, KillRemoveStep, KillBackendStep, FinishStep, CrashStep, LoadStep, Zenon
       DEF CitadelNext
  <2> QED
    BY <2>1, <2>2, Zenon
<1> QED
  BY <1>1, CitadelInvInit, PTL DEF CitadelSpec

\* No failing path of CreateSandbox and no kill leaves a sandbox behind that the
\* session table does not know, unless the backend refused to stop it or a crash
\* came in between; and the table names live sandboxes only, except while a
\* creation is undone.
THEOREM SandboxesMatch == CitadelSpec => []SandboxesMatchSessions
<1>1. CitadelInv => SandboxesMatchSessions
  BY NamesTyped, Zenon DEF CitadelInv, CreationOK, SessionOK, SandboxesMatchSessions, Spent, Creating, CreateLabel
<1> QED
  BY <1>1, CitadelInvariant, PTL

\* No Run is shown as running once its Citadel is gone, unless the kill came
\* before the Run was registered (KillSandbox, registerRun, loadRuns).
THEOREM RunningIsLive == CitadelSpec => []RunningRunIsLive
BY CitadelInvariant, PTL DEF CitadelInv

\* A Run is finished only when its Citadel left the table, unless its identifier
\* was given to another Citadel as well (finishRun).
THEOREM RunsEndWithCitadels == CitadelSpec => []RunEndsWithCitadel
<1>1. CitadelInv => RunEndsWithCitadel
  BY Zenon DEF CitadelInv, RunOutlived, RunEndsWithCitadel
<1> QED
  BY <1>1, CitadelInvariant, PTL

-----------------------------------------------------------------------------
(* The controller: its inductive invariant *)

Resource ==
  [there : BOOLEAN, deleting : BOOLEAN, finalizer : BOOLEAN, profile : BOOLEAN,
   rv : Nat, id : Box \cup {NoBox}, phase : {"none", "Running", "Failed"}, observed : BOOLEAN]

Label == {"idle", "finalize", "check", "create", "status", "teardown", "unfinalize"}

WorkerState ==
  [pc : Label, obj : Resource, id : Box \cup {NoBox}, phase : {"none", "Running", "Failed"}]

ControllerTypeOK ==
  /\ kind \in [Object -> {"Citadel", "Cohort"}]
  /\ cr \in [Object -> Resource]
  /\ w \in [Object -> WorkerState]
  /\ box \in [Box -> [owner : Object \cup {"none"}, runs : BOOLEAN, known : BOOLEAN, held : BOOLEAN]]

\* A status that names a box belongs to a resource with a finalizer, and the
\* box was created for that resource.
StatusBacked ==
  \A o \in Object : cr[o].id # NoBox =>
    cr[o].there /\ cr[o].finalizer /\ box[cr[o].id].owner = o

\* A worker's copy is never newer than the stored resource, and one of the same
\* resourceVersion is the stored resource.
CopyIsPast ==
  \A o \in Object : w[o].pc # "idle" =>
    w[o].obj.rv <= cr[o].rv /\ (w[o].obj.rv = cr[o].rv => w[o].obj = cr[o])

\* Past the finalizer the copy has one, and what copy and worker name was
\* created for the resource.
HandBacked ==
  \A o \in Object :
    /\ w[o].pc \notin {"idle", "finalize"} => w[o].obj.finalizer
    /\ w[o].pc # "status" => w[o].id = NoBox
    /\ w[o].id # NoBox => box[w[o].id].owner = o
    /\ w[o].obj.id # NoBox => box[w[o].obj.id].owner = o

\* b runs with nothing to explain that it might be forgotten.
Live(b) == box[b].runs /\ b \notin stray

\* The Manager knows such a box and can stop it.
LiveIsHeld == \A b \in Box : Live(b) => box[b].known /\ box[b].held /\ box[b].owner \in Object

\* A worker overwrites an identifier only after the Manager has lost it, and
\* drops a finalizer only after the box has stopped.
OldIsSpent ==
  \A o \in Object :
    /\ w[o].obj.id # NoBox /\ w[o].id # w[o].obj.id
    /\ w[o].pc \in {"create", "status", "unfinalize"}
    => ~Live(w[o].obj.id)

ControllerInv ==
  /\ ControllerTypeOK /\ StatusBacked /\ CopyIsPast /\ HandBacked /\ LiveIsHeld /\ OldIsSpent
  /\ EveryBoxIsAccountedFor

-----------------------------------------------------------------------------
(* What the helpers of the actions do *)

\* A stored change bumps the resourceVersion and touches no other resource.
LEMMA StoredFacts ==
  ASSUME ControllerTypeOK, NEW o \in Object, NEW new \in Resource, Stored(o, new)
  PROVE  /\ cr' \in [Object -> Resource]
         /\ \A p \in Object \ {o} : cr'[p] = cr[p]
         /\ cr'[o].rv = cr[o].rv + 1
         /\ cr'[o].there = new.there /\ cr'[o].deleting = new.deleting
         /\ cr'[o].finalizer = new.finalizer /\ cr'[o].id = new.id
<1> DEFINE r == [new EXCEPT !.rv = cr[o].rv + 1]
<1>1. cr \in [Object -> Resource] /\ cr[o].rv \in Nat
  BY Zenon DEF ControllerTypeOK, Resource
<1>2. r \in Resource
  BY <1>1, SMTT(60) DEF Resource
<1>3. /\ r.rv = cr[o].rv + 1
      /\ r.there = new.there /\ r.deleting = new.deleting
      /\ r.finalizer = new.finalizer /\ r.id = new.id
  BY <1>1, Zenon DEF Resource
<1>4. cr' = [cr EXCEPT ![o] = r]
  BY Zenon DEF Stored
<1> HIDE DEF r
<1> QED
  BY <1>1, <1>2, <1>3, <1>4, Zenon

\* The initial worker and the absent resource have their types.
LEMMA Constants ==
  /\ Gone \in Resource
  /\ Idle \in WorkerState
  /\ NoBox \notin Box
BY ControllerAssumption DEF Gone, Idle, Resource, WorkerState, Label, Box, NoBox

\* The first states satisfy the invariant.
LEMMA ControllerInvInit == Init => ControllerInv
<1> SUFFICES ASSUME Init PROVE ControllerInv
  BY Zenon
<1>1. ControllerTypeOK
  BY Constants, Zenon DEF Init, ControllerTypeOK, Unused
<1> QED
  BY <1>1, Constants, Zenon DEF Init, ControllerInv, StatusBacked, CopyIsPast, HandBacked, LiveIsHeld, OldIsSpent, Live,
     EveryBoxIsAccountedFor, Gone, Idle, Unused

\* A change by a user that keeps the identifier, or that removes a resource
\* without one, keeps the invariant: it only makes the worker's copy older.
LEMMA UserStep ==
  ASSUME ControllerInv, NEW o \in Object, NEW new \in Resource, Stored(o, new), UNCHANGED <<kind, w, box, stray>>,
         new.id = cr[o].id, new.id # NoBox => new.there /\ new.finalizer
  PROVE  ControllerInv'
<1>1. /\ cr' \in [Object -> Resource]
      /\ \A p \in Object \ {o} : cr'[p] = cr[p]
      /\ cr'[o].rv = cr[o].rv + 1
      /\ cr'[o].there = new.there /\ cr'[o].finalizer = new.finalizer /\ cr'[o].id = new.id
  BY StoredFacts, Zenon DEF ControllerInv
<1>2. ControllerTypeOK'
  BY <1>1, Zenon DEF ControllerInv, ControllerTypeOK
<1>3. StatusBacked'
  BY <1>1, SMTT(60) DEF ControllerInv, StatusBacked
<1>4. CopyIsPast'
  <2>1. ASSUME NEW p \in Object PROVE cr[p].rv \in Nat /\ w[p].obj.rv \in Nat
    BY Zenon DEF ControllerInv, ControllerTypeOK, Resource, WorkerState
  <2> QED
    BY <1>1, <2>1, SMTT(60) DEF ControllerInv, CopyIsPast
<1>5. HandBacked' /\ LiveIsHeld' /\ OldIsSpent'
  BY Zenon DEF ControllerInv, HandBacked, LiveIsHeld, OldIsSpent, Live
<1>6. EveryBoxIsAccountedFor'
  BY <1>1, ZenonT(60) DEF ControllerInv, EveryBoxIsAccountedFor, LiveIsHeld, Live
<1> QED
  BY <1>2, <1>3, <1>4, <1>5, <1>6, Zenon DEF ControllerInv

-----------------------------------------------------------------------------
(* The workers *)

\* What a worker may leave behind in its resource c and in its own state v.
Sound(o, c, v) ==
  /\ c.id # NoBox => c.there /\ c.finalizer /\ box[c.id].owner = o
  /\ v.pc # "idle" => v.obj.rv <= c.rv /\ (v.obj.rv = c.rv => v.obj = c)
  /\ v.pc \notin {"idle", "finalize"} => v.obj.finalizer
  /\ v.pc # "status" => v.id = NoBox
  /\ v.id # NoBox => box[v.id].owner = o
  /\ v.obj.id # NoBox => box[v.obj.id].owner = o
  /\ v.obj.id # NoBox /\ v.id # v.obj.id /\ v.pc \in {"create", "status", "unfinalize"} =>
       ~Live(v.obj.id)

\* No box in the hands of the worker is let go of.
LetsNothingGo(o, c, v) ==
  \A b \in Box : Live(b) /\ b \notin stray' /\ (cr[o].id = b \/ w[o].id = b) =>
    c.id = b \/ v.id = b

\* A worker's step that touches no box keeps the invariant.
LEMMA WorkStep ==
  ASSUME ControllerInv, NEW o \in Object, NEW c \in Resource, NEW v \in WorkerState,
         cr' = [cr EXCEPT ![o] = c], w' = [w EXCEPT ![o] = v],
         kind' = kind, box' = box, stray \subseteq stray',
         Sound(o, c, v), LetsNothingGo(o, c, v)
  PROVE  ControllerInv'
<1>1. /\ cr' \in [Object -> Resource] /\ cr'[o] = c
      /\ \A p \in Object \ {o} : cr'[p] = cr[p]
  BY Zenon DEF ControllerInv, ControllerTypeOK
<1>2. /\ w' \in [Object -> WorkerState] /\ w'[o] = v
      /\ \A p \in Object \ {o} : w'[p] = w[p]
  BY Zenon DEF ControllerInv, ControllerTypeOK
<1>3. ControllerTypeOK'
  BY <1>1, <1>2, Zenon DEF ControllerInv, ControllerTypeOK
<1>4. StatusBacked'
  BY <1>1, Zenon DEF ControllerInv, StatusBacked, Sound
<1>5. CopyIsPast'
  BY <1>1, <1>2, ZenonT(60) DEF ControllerInv, CopyIsPast, Sound
<1>6. HandBacked'
  BY <1>2, Zenon DEF ControllerInv, HandBacked, Sound
<1>7. LiveIsHeld'
  BY Zenon DEF ControllerInv, LiveIsHeld, Live
<1>8. OldIsSpent'
  BY <1>2, Zenon DEF ControllerInv, OldIsSpent, Live, Sound
<1>9. EveryBoxIsAccountedFor'
  BY <1>1, <1>2, SMTT(60) DEF ControllerInv, EveryBoxIsAccountedFor, LiveIsHeld, Live, LetsNothingGo
<1> QED
  BY <1>3, <1>4, <1>5, <1>6, <1>7, <1>8, <1>9, Zenon DEF ControllerInv

\* A worker may leave off whenever the box in its hands is recorded or stray.
LEMMA IdleStep ==
  ASSUME ControllerInv, NEW o \in Object, w' = [w EXCEPT ![o] = Idle],
         UNCHANGED <<kind, cr, box>>, stray \subseteq stray',
         \A b \in Box : Live(b) /\ b \notin stray' /\ w[o].id = b => cr[o].id = b
  PROVE  ControllerInv'
<1>1. cr[o] \in Resource /\ cr' = [cr EXCEPT ![o] = cr[o]]
  BY Zenon DEF ControllerInv, ControllerTypeOK
<1>2. Idle \in WorkerState /\ Idle.pc = "idle" /\ Idle.id = NoBox /\ Idle.obj.id = NoBox
  BY Constants, Zenon DEF Idle, Gone
<1>3. cr[o].id # NoBox => cr[o].there /\ cr[o].finalizer /\ box[cr[o].id].owner = o
  BY Zenon DEF ControllerInv, StatusBacked
<1>4. Sound(o, cr[o], Idle) /\ LetsNothingGo(o, cr[o], Idle)
  BY <1>2, <1>3, Zenon DEF Sound, LetsNothingGo
<1> QED
  BY <1>1, <1>2, <1>4, WorkStep, Zenon

\* Get.
LEMMA GetStep ==
  ASSUME ControllerInv, NEW o \in Object, Get(o), UNCHANGED kind
  PROVE  ControllerInv'
<1>1. CASE w' = w
  BY <1>1, Zenon DEF Get, ControllerInv, ControllerTypeOK, StatusBacked, CopyIsPast, HandBacked, LiveIsHeld, OldIsSpent, Live,
     EveryBoxIsAccountedFor
<1>2. CASE w' = [w EXCEPT ![o] = [Idle EXCEPT !.pc = Branch(cr[o]), !.obj = cr[o]]]
  <2> DEFINE v == [Idle EXCEPT !.pc = Branch(cr[o]), !.obj = cr[o]]
  <2>1. cr[o] \in Resource /\ cr' = [cr EXCEPT ![o] = cr[o]] /\ stray' = stray /\ box' = box
    BY Zenon DEF ControllerInv, ControllerTypeOK, Get
  <2>2. /\ Branch(cr[o]) \in {"teardown", "idle", "finalize", "check"}
        /\ Branch(cr[o]) \notin {"idle", "finalize"} => cr[o].finalizer
    BY <2>1, Zenon DEF Branch, Resource
  <2>3. /\ v \in WorkerState
        /\ v.pc = Branch(cr[o]) /\ v.obj = cr[o] /\ v.id = NoBox
    BY <2>1, <2>2, Constants, Zenon DEF Idle, WorkerState, Label
  <2>4. cr[o].id # NoBox => cr[o].there /\ cr[o].finalizer /\ box[cr[o].id].owner = o
    BY Zenon DEF ControllerInv, StatusBacked
  <2>5. w[o].id = NoBox
    BY Zenon DEF ControllerInv, HandBacked, Get
  <2>6. cr[o].rv \in Nat
    BY <2>1, Zenon DEF Resource
  <2> HIDE DEF v
  <2>7. w' = [w EXCEPT ![o] = v]
    BY <1>2, Zenon DEF v
  <2>8. Sound(o, cr[o], v) /\ LetsNothingGo(o, cr[o], v)
    BY <2>2, <2>3, <2>4, <2>5, <2>6, Constants, SMTT(60) DEF Sound, LetsNothingGo
  <2> QED
    BY <2>1, <2>3, <2>7, <2>8, WorkStep, Zenon
<1> QED
  BY <1>1, <1>2, Zenon DEF Get

\* Finalize.
LEMMA FinalizeStep ==
  ASSUME ControllerInv, NEW o \in Object, Finalize(o), UNCHANGED kind
  PROVE  ControllerInv'
<1>0. w[o].pc = "finalize" /\ w[o].id = NoBox /\ UNCHANGED <<box, stray>>
  BY Zenon DEF ControllerInv, HandBacked, Finalize
<1>1. CASE Requeue(o) /\ cr' = cr
  BY <1>0, <1>1, Constants, IdleStep, Zenon DEF Requeue
<1>2. CASE /\ Current(o)
           /\ Stored(o, [cr[o] EXCEPT !.finalizer = TRUE])
           /\ w' = [w EXCEPT ![o].pc = "check", ![o].obj = cr'[o]]
  <2> DEFINE new == [cr[o] EXCEPT !.finalizer = TRUE]
  <2> DEFINE v == [w[o] EXCEPT !.pc = "check", !.obj = cr'[o]]
  <2>1. cr[o] \in Resource /\ w[o] \in WorkerState
    BY Zenon DEF ControllerInv, ControllerTypeOK
  <2>2. new \in Resource /\ new.id = cr[o].id /\ new.finalizer /\ new.there = cr[o].there
    BY <2>1, Zenon DEF Resource
  <2>3. /\ cr' \in [Object -> Resource] /\ cr' = [cr EXCEPT ![o] = cr'[o]]
        /\ cr'[o].id = cr[o].id /\ cr'[o].finalizer /\ cr'[o].there = cr[o].there
        /\ cr'[o].rv \in Nat
    <3>1. /\ cr' \in [Object -> Resource] /\ cr'[o].id = new.id
          /\ cr'[o].finalizer = new.finalizer /\ cr'[o].there = new.there
      BY <1>2, <2>2, StoredFacts, Zenon DEF ControllerInv
    <3>2. cr' = [cr EXCEPT ![o] = cr'[o]]
      BY <1>2, Zenon DEF Stored, ControllerInv, ControllerTypeOK
    <3>3. cr'[o].rv \in Nat
      BY <3>1, Zenon DEF Resource
    <3> QED
      BY <2>2, <3>1, <3>2, <3>3, Zenon
  <2>4. /\ v \in WorkerState /\ v.pc = "check" /\ v.obj = cr'[o] /\ v.id = NoBox
    BY <1>0, <2>1, <2>3, Zenon DEF WorkerState, Label
  <2>5. w' = [w EXCEPT ![o] = v]
    BY <1>2, Zenon DEF ControllerInv, ControllerTypeOK
  <2>6. cr[o].id # NoBox => cr[o].there /\ box[cr[o].id].owner = o
    BY Zenon DEF ControllerInv, StatusBacked
  <2> HIDE DEF v, new
  <2>7. Sound(o, cr'[o], v) /\ LetsNothingGo(o, cr'[o], v)
    BY <1>0, <2>3, <2>4, <2>6, Constants, SMTT(60) DEF Sound, LetsNothingGo
  <2>8. cr'[o] \in Resource
    BY <2>3, Zenon
  <2> QED
    BY <1>0, <2>3, <2>4, <2>5, <2>7, <2>8, WorkStep, ZenonT(60)
<1> QED
  BY <1>1, <1>2, Zenon DEF Finalize

\* What the invariant says of a worker and its resource.
LEMMA HandFacts ==
  ASSUME ControllerInv, NEW o \in Object
  PROVE  /\ cr[o] \in Resource /\ cr[o].id \in Box \cup {NoBox} /\ cr[o].rv \in Nat
         /\ w[o] \in WorkerState /\ w[o].obj \in Resource
         /\ w[o].id \in Box \cup {NoBox} /\ w[o].obj.id \in Box \cup {NoBox}
         /\ cr' = cr => cr' = [cr EXCEPT ![o] = cr[o]]
         /\ Sound(o, cr[o], w[o])
<1>1. cr[o] \in Resource /\ w[o] \in WorkerState /\ (cr' = cr => cr' = [cr EXCEPT ![o] = cr[o]])
  BY Zenon DEF ControllerInv, ControllerTypeOK
<1>2. /\ cr[o].id \in Box \cup {NoBox} /\ cr[o].rv \in Nat /\ w[o].obj \in Resource
      /\ w[o].id \in Box \cup {NoBox}
  BY <1>1, Zenon DEF Resource, WorkerState
<1>3. w[o].obj.id \in Box \cup {NoBox}
  BY <1>2, Zenon DEF Resource
<1>4. Sound(o, cr[o], w[o])
  BY Zenon DEF ControllerInv, StatusBacked, CopyIsPast, HandBacked, OldIsSpent, Sound
<1> QED
  BY <1>1, <1>2, <1>3, <1>4, Zenon

\* Check.
LEMMA CheckStep ==
  ASSUME ControllerInv, NEW o \in Object, Check(o), UNCHANGED kind
  PROVE  ControllerInv'
<1>0. /\ w[o].pc = "check" /\ w[o].id = NoBox /\ cr' = cr /\ box' = box /\ stray' = stray
      /\ Sound(o, cr[o], w[o])
  BY HandFacts, Zenon DEF Check, Sound
<1>1. CASE w' = [w EXCEPT ![o] = Idle]
  BY <1>0, <1>1, Constants, IdleStep, Zenon
<1>2. CASE w' = [w EXCEPT ![o].pc = "status", ![o].id = w[o].obj.id, ![o].phase = "Running"]
  <2> DEFINE v == [w[o] EXCEPT !.pc = "status", !.id = w[o].obj.id, !.phase = "Running"]
  <2>1. /\ v \in WorkerState /\ v.pc = "status" /\ v.obj = w[o].obj /\ v.id = w[o].obj.id
        /\ w' = [w EXCEPT ![o] = v]
    BY <1>2, HandFacts, ZenonT(60) DEF WorkerState, Label, ControllerInv, ControllerTypeOK
  <2> HIDE DEF v
  <2>2. Sound(o, cr[o], v) /\ LetsNothingGo(o, cr[o], v)
    BY <1>0, <2>1, Constants, Zenon DEF Sound, LetsNothingGo
  <2> QED
    BY <1>0, <2>1, <2>2, HandFacts, WorkStep, Zenon
<1>3. CASE ~Provisioned(o) /\ Goto(o, "create")
  <2> DEFINE v == [w[o] EXCEPT !.pc = "create"]
  <2>1. /\ v \in WorkerState /\ v.pc = "create" /\ v.obj = w[o].obj /\ v.id = NoBox
        /\ w' = [w EXCEPT ![o] = v]
    BY <1>0, <1>3, HandFacts, ZenonT(60) DEF WorkerState, Label, ControllerInv, ControllerTypeOK, Goto
  <2> HIDE DEF v
  <2>2. w[o].obj.id # NoBox => ~Live(w[o].obj.id)
    BY <1>3, HandFacts, Zenon DEF Provisioned, ControllerInv, LiveIsHeld
  <2>3. Sound(o, cr[o], v) /\ LetsNothingGo(o, cr[o], v)
    BY <1>0, <2>1, <2>2, Constants, Zenon DEF Sound, LetsNothingGo
  <2> QED
    BY <1>0, <2>1, <2>3, HandFacts, WorkStep, Zenon
<1>4. kind[o] \in {"Citadel", "Cohort"}
  BY Zenon DEF ControllerInv, ControllerTypeOK
<1> QED
  BY <1>1, <1>2, <1>3, <1>4, Zenon DEF Check

\* setStatus.
LEMMA SetStatusStep ==
  ASSUME ControllerInv, NEW o \in Object, SetStatus(o), UNCHANGED kind
  PROVE  ControllerInv'
<1> DEFINE new == [cr[o] EXCEPT !.id = w[o].id, !.phase = w[o].phase, !.observed = TRUE]
<1>0. w[o].pc = "status" /\ box' = box /\ Sound(o, cr[o], w[o])
  BY HandFacts, Zenon DEF SetStatus
<1>1. CASE Requeue(o) /\ cr' = cr /\ stray' = stray \cup Unrecorded(o)
  <2>1. \A b \in Box : Live(b) /\ b \notin stray' /\ w[o].id = b => cr[o].id = b
    BY <1>1, Zenon DEF Unrecorded, Live
  <2> QED
    BY <1>0, <1>1, <2>1, IdleStep, Zenon DEF Requeue
<1>2. CASE Current(o) /\ new = cr[o] /\ cr' = cr /\ w' = [w EXCEPT ![o] = Idle] /\ stray' = stray
  <2>1. cr[o].id = w[o].id
    BY <1>2, HandFacts, Zenon DEF Resource
  <2> QED
    BY <1>0, <1>2, <2>1, IdleStep, Zenon
<1>3. CASE Current(o) /\ Stored(o, new) /\ w' = [w EXCEPT ![o] = Idle] /\ stray' = stray
  <2>1. w[o].obj = cr[o]
    BY <1>0, <1>3, Zenon DEF Current, Sound
  <2>2. /\ new \in Resource /\ new.id = w[o].id /\ new.finalizer = cr[o].finalizer
        /\ new.there = cr[o].there
    BY HandFacts, ZenonT(60) DEF Resource, WorkerState
  <2> HIDE DEF new
  <2>3. /\ cr'[o] \in Resource /\ cr'[o].id = w[o].id
        /\ cr'[o].finalizer = cr[o].finalizer /\ cr'[o].there = cr[o].there
    BY <1>3, <2>2, StoredFacts, Zenon DEF ControllerInv
  <2>4. cr' = [cr EXCEPT ![o] = cr'[o]]
    BY <1>3, Zenon DEF Stored, ControllerInv, ControllerTypeOK
  <2>5. Idle \in WorkerState /\ Idle.pc = "idle" /\ Idle.id = NoBox /\ Idle.obj.id = NoBox
    BY Constants, Zenon DEF Idle, Gone
  <2>6. Sound(o, cr'[o], Idle)
    BY <1>0, <1>3, <2>1, <2>3, <2>5, Zenon DEF Sound, Current
  <2>7. LetsNothingGo(o, cr'[o], Idle)
    BY <1>0, <2>1, <2>3, <2>5, Constants, ZenonT(60) DEF Sound, LetsNothingGo
  <2> QED
    BY <1>0, <1>3, <2>3, <2>4, <2>5, <2>6, <2>7, WorkStep, ZenonT(60)
<1> QED
  BY <1>1, <1>2, <1>3, Zenon DEF SetStatus

\* Create: the new box is drawn from those nobody names.
LEMMA CreateStep ==
  ASSUME ControllerInv, NEW o \in Object, Create(o), UNCHANGED kind
  PROVE  ControllerInv'
<1>0. /\ w[o].pc = "create" /\ w[o].id = NoBox /\ cr' = cr /\ stray' = stray
      /\ Sound(o, cr[o], w[o])
  BY HandFacts, Zenon DEF Create, Sound
<1>1. CASE /\ w' = [w EXCEPT ![o].pc = "status", ![o].id = w[o].obj.id, ![o].phase = "Failed"]
           /\ box' = box
  <2> DEFINE v == [w[o] EXCEPT !.pc = "status", !.id = w[o].obj.id, !.phase = "Failed"]
  <2>1. /\ v \in WorkerState /\ v.pc = "status" /\ v.obj = w[o].obj /\ v.id = w[o].obj.id
        /\ w' = [w EXCEPT ![o] = v]
    BY <1>1, HandFacts, ZenonT(60) DEF WorkerState, Label, ControllerInv, ControllerTypeOK
  <2> HIDE DEF v
  <2>2. Sound(o, cr[o], v) /\ LetsNothingGo(o, cr[o], v)
    BY <1>0, <2>1, Constants, Zenon DEF Sound, LetsNothingGo
  <2> QED
    BY <1>0, <1>1, <2>1, <2>2, HandFacts, WorkStep, Zenon
<1>2. ASSUME NEW b \in Box, box[b] = Unused,
             box' = [box EXCEPT ![b] = [owner |-> o, runs |-> TRUE, known |-> TRUE, held |-> TRUE]],
             w' = [w EXCEPT ![o].pc = "status", ![o].id = b, ![o].phase = "Running"]
      PROVE  ControllerInv'
  <2> DEFINE v == [w[o] EXCEPT !.pc = "status", !.id = b, !.phase = "Running"]
  <2>1. /\ v \in WorkerState /\ v.pc = "status" /\ v.obj = w[o].obj /\ v.id = b
        /\ w' = [w EXCEPT ![o] = v]
    BY <1>2, HandFacts, ZenonT(60) DEF WorkerState, Label, ControllerInv, ControllerTypeOK
  <2> HIDE DEF v
  <2>2. /\ w' \in [Object -> WorkerState] /\ w'[o] = v
        /\ \A p \in Object \ {o} : w'[p] = w[p]
    BY <2>1, Zenon DEF ControllerInv, ControllerTypeOK
  <2>3. box[b].owner = "none" /\ "none" \notin Object /\ ~box[b].runs
    BY <1>2, ControllerAssumption, SMTT(60) DEF Unused
  <2>4. /\ box' \in [Box -> [owner : Object \cup {"none"}, runs : BOOLEAN, known : BOOLEAN, held : BOOLEAN]]
        /\ box'[b].owner = o /\ box'[b].known /\ box'[b].held
        /\ \A x \in Box \ {b} : box'[x] = box[x]
    BY <1>2, Zenon DEF ControllerInv, ControllerTypeOK
  <2>5. ASSUME NEW p \in Object
        PROVE  /\ cr[p].id # b /\ w[p].obj.id # b /\ w[p].id # b
               /\ cr[p].id \in Box \cup {NoBox} /\ w[p].id \in Box \cup {NoBox}
               /\ w[p].obj.id \in Box \cup {NoBox} /\ Sound(p, cr[p], w[p])
    BY <2>3, HandFacts, Constants, SMTT(60) DEF Sound
  <2>6. ControllerTypeOK'
    BY <1>0, <2>2, <2>4, Zenon DEF ControllerInv, ControllerTypeOK
  <2>7. ASSUME NEW p \in Object, NEW x \in {cr[p].id, w[p].id, w[p].obj.id}, x # NoBox
        PROVE  x \in Box /\ box'[x] = box[x]
    BY <2>4, <2>5, <2>7, SMTT(60)
  <2>8. StatusBacked'
    <3> SUFFICES ASSUME NEW p \in Object, cr[p].id # NoBox
                 PROVE  cr[p].there /\ cr[p].finalizer /\ box'[cr[p].id].owner = p
      BY <1>0, Zenon DEF StatusBacked
    <3> QED
      BY <2>5, <2>7, SMTT(60) DEF Sound
  <2>9. CopyIsPast' /\ HandBacked' /\ OldIsSpent'
    <3>1. ASSUME NEW p \in Object \ {o}
          PROVE  /\ w[p].pc # "idle" => w[p].obj.rv <= cr[p].rv /\ (w[p].obj.rv = cr[p].rv => w[p].obj = cr[p])
                 /\ w[p].pc \notin {"idle", "finalize"} => w[p].obj.finalizer
                 /\ w[p].pc # "status" => w[p].id = NoBox
                 /\ w[p].id # NoBox => box'[w[p].id].owner = p
                 /\ w[p].obj.id # NoBox => box'[w[p].obj.id].owner = p
                 /\ w[p].obj.id # NoBox /\ w[p].id # w[p].obj.id /\ w[p].pc \in {"create", "status", "unfinalize"}
                    => ~(box'[w[p].obj.id].runs /\ w[p].obj.id \notin stray)
      BY <2>5, <2>7, SMTT(60) DEF Sound, Live
    <3>2. /\ v.obj.rv <= cr[o].rv /\ (v.obj.rv = cr[o].rv => v.obj = cr[o])
          /\ v.obj.finalizer /\ v.pc = "status" /\ box'[v.id].owner = o
          /\ v.obj.id # NoBox => box'[v.obj.id].owner = o
      BY <1>0, <2>1, <2>4, <2>5, <2>7, SMTT(60) DEF Sound
    <3>3. v.obj.id # NoBox => ~(box'[v.obj.id].runs /\ v.obj.id \notin stray)
      BY <1>0, <2>1, <2>5, <2>7, SMTT(60) DEF Sound, Live
    <3>4. CopyIsPast'
      BY <1>0, <2>2, <3>1, <3>2, SMTT(60) DEF CopyIsPast
    <3>5. HandBacked'
      BY <2>2, <3>1, <3>2, SMTT(60) DEF HandBacked
    <3>6. OldIsSpent'
      BY <1>0, <2>2, <3>1, <3>3, SMTT(60) DEF OldIsSpent, Live
    <3> QED
      BY <3>4, <3>5, <3>6, SMTT(60)
  <2>10. LiveIsHeld'
    BY <1>0, <2>4, Zenon DEF ControllerInv, LiveIsHeld, Live
  <2>11. EveryBoxIsAccountedFor'
    <3> SUFFICES ASSUME NEW x \in Box, box'[x].runs, x \notin stray'
                 PROVE  cr'[box'[x].owner].id = x \/ w'[box'[x].owner].id = x
      BY Zenon DEF EveryBoxIsAccountedFor
    <3>1. CASE x = b
      BY <2>1, <2>2, <2>4, <3>1, Zenon
    <3>2. CASE x # b
      <4>1. box'[x] = box[x] /\ box[x].owner \in Object
        BY <1>0, <2>4, <3>2, Zenon DEF ControllerInv, LiveIsHeld, Live
      <4>2. cr[box[x].owner].id = x \/ w[box[x].owner].id = x
        BY <1>0, <4>1, Zenon DEF ControllerInv, EveryBoxIsAccountedFor
      <4> QED
        BY <1>0, <2>2, <4>1, <4>2, Constants, Zenon
    <3> QED
      BY <3>1, <3>2, Zenon
  <2> QED
    BY <2>6, <2>8, <2>9, <2>10, <2>11, Zenon DEF ControllerInv
<1> QED
  BY <1>1, <1>2, Zenon DEF Create

\* A step of a worker that lays its box down, and stops or strays it.
LEMMA LayDown ==
  ASSUME ControllerInv, NEW o \in Object, NEW b \in Box, w[o].pc = "teardown", w[o].obj.id = b,
         Goto(o, "unfinalize"), kind' = kind, cr' = cr, stray \subseteq stray',
         box' \in [Box -> [owner : Object \cup {"none"}, runs : BOOLEAN, known : BOOLEAN, held : BOOLEAN]],
         \A x \in Box : box'[x].owner = box[x].owner,
         \A x \in Box \ {b} : box'[x] = box[x],
         box'[b].runs => b \in stray'
  PROVE  ControllerInv'
<1> DEFINE v == [w[o] EXCEPT !.pc = "unfinalize"]
<1>1. /\ v \in WorkerState /\ v.pc = "unfinalize" /\ v.obj = w[o].obj /\ v.id = w[o].id
      /\ w' = [w EXCEPT ![o] = v] /\ w[o].id = NoBox /\ b # NoBox
  <2>1. w[o].id = NoBox /\ b # NoBox
    BY HandFacts, Constants, Zenon DEF Sound
  <2>2. w[o] \in WorkerState /\ w' = [w EXCEPT ![o] = v]
    BY HandFacts, Zenon DEF Goto
  <2>3. v \in WorkerState /\ v.pc = "unfinalize" /\ v.obj = w[o].obj /\ v.id = w[o].id
    BY <2>2, Zenon DEF WorkerState, Label
  <2> QED
    BY <2>1, <2>2, <2>3, Zenon
<1> HIDE DEF v
<1>2. /\ w' \in [Object -> WorkerState] /\ w'[o] = v
      /\ \A p \in Object \ {o} : w'[p] = w[p]
  BY <1>1, Zenon DEF ControllerInv, ControllerTypeOK
<1>3. \A p \in Object : w'[p].id = w[p].id /\ w'[p].obj = w[p].obj
  BY <1>1, <1>2, Zenon
<1>4. \A x \in Box : Live(x)' => Live(x) /\ x # b /\ box'[x] = box[x]
  BY Zenon DEF Live
<1>5. ASSUME NEW p \in Object
      PROVE  /\ cr[p].id \in Box \cup {NoBox} /\ w[p].id \in Box \cup {NoBox}
             /\ w[p].obj.id \in Box \cup {NoBox} /\ Sound(p, cr[p], w[p])
  BY HandFacts, Zenon
<1>6. ControllerTypeOK'
  BY <1>2, Zenon DEF ControllerInv, ControllerTypeOK
<1>7. StatusBacked'
  BY <1>5, SMTT(60) DEF Sound, StatusBacked
<1>8. CopyIsPast'
  BY <1>1, <1>2, <1>5, SMTT(60) DEF Sound, CopyIsPast
<1>9. HandBacked'
  BY <1>1, <1>2, <1>5, SMTT(60) DEF Sound, HandBacked
<1>10. LiveIsHeld'
  BY <1>4, Zenon DEF ControllerInv, LiveIsHeld
<1>11. OldIsSpent'
  BY <1>1, <1>2, <1>4, <1>5, Zenon DEF Sound, OldIsSpent
<1>12. EveryBoxIsAccountedFor'
  BY <1>3, <1>4, SMTT(60) DEF ControllerInv, EveryBoxIsAccountedFor, LiveIsHeld, Live
<1> QED
  BY <1>6, <1>7, <1>8, <1>9, <1>10, <1>11, <1>12, ZenonT(60) DEF ControllerInv

\* teardown.
LEMMA TeardownStep ==
  ASSUME ControllerInv, NEW o \in Object, Teardown(o), UNCHANGED kind
  PROVE  ControllerInv'
<1> DEFINE b == w[o].obj.id
<1>0. /\ w[o].pc = "teardown" /\ w[o].id = NoBox /\ cr' = cr /\ Goto(o, "unfinalize")
      /\ Sound(o, cr[o], w[o]) /\ b \in Box \cup {NoBox}
  BY HandFacts, Zenon DEF Teardown, Sound
<1>1. CASE ~(b \in Box /\ box[b].known)
  <2> DEFINE v == [w[o] EXCEPT !.pc = "unfinalize"]
  <2>1. /\ v \in WorkerState /\ v.pc = "unfinalize" /\ v.obj = w[o].obj /\ v.id = w[o].id
        /\ w' = [w EXCEPT ![o] = v]
    BY <1>0, HandFacts, ZenonT(60) DEF WorkerState, Label, ControllerInv, ControllerTypeOK, Goto
  <2> HIDE DEF v
  <2>2. box' = box /\ stray' = stray
    BY <1>1, Zenon DEF Teardown
  <2>3. b # NoBox => ~Live(b)
    BY <1>0, <1>1, Zenon DEF ControllerInv, LiveIsHeld
  <2>4. Sound(o, cr[o], v) /\ LetsNothingGo(o, cr[o], v)
    BY <1>0, <2>1, <2>3, Constants, Zenon DEF Sound, LetsNothingGo
  <2> QED
    BY <1>0, <2>1, <2>2, <2>4, HandFacts, WorkStep, Zenon
<1>2. CASE b \in Box /\ box[b].known
  <2> DEFINE Boxes == [owner : Object \cup {"none"}, runs : BOOLEAN, known : BOOLEAN, held : BOOLEAN]
  <2>0. box \in [Box -> Boxes]
    BY Zenon DEF ControllerInv, ControllerTypeOK
  <2>1. CASE /\ box' = [box EXCEPT ![b].known = FALSE, ![b].held = FALSE,
                                   ![b].runs = @ /\ ~box[b].held]
             /\ stray' = stray
    <3>1. box[b].runs /\ b \notin stray => box[b].held
      BY <1>2, Zenon DEF ControllerInv, LiveIsHeld, Live
    <3> DEFINE r == [box[b] EXCEPT !.known = FALSE, !.held = FALSE, !.runs = @ /\ ~box[b].held]
    <3>a. r \in Boxes /\ r.owner = box[b].owner
      BY <1>2, <2>0, ZenonT(60)
    <3>b. r.runs => box[b].runs /\ ~box[b].held
      BY <1>2, <2>0, ZenonT(60)
    <3>c. box' = [box EXCEPT ![b] = r]
      BY <1>2, <2>0, <2>1, Zenon
    <3> HIDE DEF r
    <3>2. /\ box' \in [Box -> Boxes] /\ \A x \in Box : box'[x].owner = box[x].owner
          /\ \A x \in Box \ {b} : box'[x] = box[x]
          /\ box'[b].runs => box[b].runs /\ ~box[b].held
      BY <1>2, <2>0, <3>a, <3>b, <3>c, Zenon
    <3> QED
      BY <1>0, <1>2, <2>1, <3>1, <3>2, LayDown, Zenon
  <2>2. CASE box' = [box EXCEPT ![b].known = FALSE, ![b].held = FALSE] /\ stray' = stray \cup {b}
    <3> DEFINE r == [box[b] EXCEPT !.known = FALSE, !.held = FALSE]
    <3>a. r \in Boxes /\ r.owner = box[b].owner
      BY <1>2, <2>0, ZenonT(60)
    <3>b. box' = [box EXCEPT ![b] = r]
      BY <1>2, <2>0, <2>2, Zenon
    <3> HIDE DEF r
    <3>1. /\ box' \in [Box -> Boxes] /\ \A x \in Box : box'[x].owner = box[x].owner
          /\ \A x \in Box \ {b} : box'[x] = box[x]
      BY <1>2, <2>0, <3>a, <3>b, Zenon
    <3> QED
      BY <1>0, <1>2, <2>2, <3>1, LayDown, Zenon
  <2>3. CASE box' = box /\ stray' = stray \cup {b}
    BY <1>0, <1>2, <2>0, <2>3, LayDown, Zenon
  <2> QED
    BY <1>2, <2>1, <2>2, <2>3, Zenon DEF Teardown
<1> QED
  BY <1>1, <1>2, Zenon

\* The finalizer is dropped.
LEMMA UnfinalizeStep ==
  ASSUME ControllerInv, NEW o \in Object, Unfinalize(o), UNCHANGED kind
  PROVE  ControllerInv'
<1>0. /\ w[o].pc = "unfinalize" /\ w[o].id = NoBox /\ box' = box /\ stray' = stray
      /\ Sound(o, cr[o], w[o])
  BY HandFacts, Zenon DEF Unfinalize, Sound
<1>1. CASE Requeue(o) /\ cr' = cr
  BY <1>0, <1>1, Constants, IdleStep, Zenon DEF Requeue
<1>2. CASE Current(o) /\ Stored(o, Gone) /\ w' = [w EXCEPT ![o] = Idle]
  <2>1. w[o].obj = cr[o]
    BY <1>0, <1>2, Zenon DEF Current, Sound
  <2>2. cr'[o] \in Resource /\ cr'[o].id = NoBox
    BY <1>2, Constants, StoredFacts, Zenon DEF ControllerInv, Gone
  <2>3. cr' = [cr EXCEPT ![o] = cr'[o]]
    BY <1>2, Zenon DEF Stored, ControllerInv, ControllerTypeOK
  <2>4. Idle \in WorkerState /\ Idle.pc = "idle" /\ Idle.id = NoBox /\ Idle.obj.id = NoBox
    BY Constants, Zenon DEF Idle, Gone
  <2>5. Sound(o, cr'[o], Idle) /\ LetsNothingGo(o, cr'[o], Idle)
    BY <1>0, <2>1, <2>2, <2>4, Constants, Zenon DEF Sound, LetsNothingGo
  <2> QED
    BY <1>0, <1>2, <2>2, <2>3, <2>4, <2>5, WorkStep, Zenon
<1> QED
  BY <1>1, <1>2, Zenon DEF Unfinalize

\* A restart strays whatever runs.
LEMMA RestartStep ==
  ASSUME ControllerInv, Restart, UNCHANGED kind
  PROVE  ControllerInv'
<1> DEFINE Boxes == [owner : Object \cup {"none"}, runs : BOOLEAN, known : BOOLEAN, held : BOOLEAN]
<1>1. /\ box' \in [Box -> Boxes]
      /\ \A x \in Box : box'[x].owner = box[x].owner /\ box'[x].runs = box[x].runs
  <2>1. box \in [Box -> Boxes]
    BY Zenon DEF ControllerInv, ControllerTypeOK
  <2>2. PICK persisted \in BOOLEAN :
          box' = [b \in Box |-> [box[b] EXCEPT
                   !.known = @ /\ persisted /\ kind[box[b].owner] = "Cohort", !.held = FALSE]]
    BY Zenon DEF Restart
  <2> QED
    BY <2>1, <2>2, ZenonT(60)
<1>2. cr' = cr /\ \A o \in Object : w'[o] = Idle
  BY Zenon DEF Restart
<1>3. Idle.pc = "idle" /\ Idle.id = NoBox /\ Idle.obj.id = NoBox
  BY Zenon DEF Idle, Gone
<1>4. \A b \in Box : ~Live(b)' /\ ~(box'[b].runs /\ b \notin stray')
  BY <1>1, Zenon DEF Restart, Live
<1>5. ControllerTypeOK'
  BY <1>1, <1>2, Constants, Zenon DEF ControllerInv, ControllerTypeOK, Restart
<1>6. \A o \in Object : cr[o].id \in Box \cup {NoBox}
  BY HandFacts, Zenon
<1>7. StatusBacked'
  BY <1>1, <1>2, <1>6, ZenonT(60) DEF ControllerInv, StatusBacked
<1> QED
  BY <1>2, <1>3, <1>4, <1>5, <1>7, Zenon
     DEF ControllerInv, CopyIsPast, HandBacked, LiveIsHeld, OldIsSpent, EveryBoxIsAccountedFor

\* The users and the informers.
LEMMA UsersStep ==
  ASSUME ControllerInv, NEW o \in Object, UNCHANGED kind,
         UserCreate(o) \/ UserChange(o) \/ UserDelete(o) \/ Resync(o)
  PROVE  ControllerInv'
<1>0. /\ cr[o] \in Resource /\ Gone \in Resource /\ Gone.id = NoBox
      /\ cr[o].id # NoBox => cr[o].there /\ cr[o].finalizer
  BY HandFacts, Constants, Zenon DEF Sound, Gone
<1>1. CASE UserCreate(o)
  <2>1. PICK p \in BOOLEAN : Stored(o, [Gone EXCEPT !.there = TRUE, !.profile = p])
    BY <1>1, Zenon DEF UserCreate
  <2> DEFINE new == [Gone EXCEPT !.there = TRUE, !.profile = p]
  <2>2. new \in Resource /\ new.id = NoBox /\ cr[o].id = NoBox
    BY <1>0, <1>1, Zenon DEF Resource, Gone, UserCreate
  <2> HIDE DEF new
  <2>3. Stored(o, new)
    BY <2>1, Zenon DEF new
  <2> QED
    BY <1>1, <2>2, <2>3, UserStep, Zenon DEF UserCreate
<1>2. CASE UserChange(o)
  <2>1. PICK p \in BOOLEAN : Stored(o, [cr[o] EXCEPT !.profile = p, !.observed = FALSE])
    BY <1>2, Zenon DEF UserChange
  <2> DEFINE new == [cr[o] EXCEPT !.profile = p, !.observed = FALSE]
  <2>2. /\ new \in Resource /\ new.id = cr[o].id
        /\ new.there = cr[o].there /\ new.finalizer = cr[o].finalizer
    BY <1>0, ZenonT(60) DEF Resource
  <2> HIDE DEF new
  <2>3. Stored(o, new)
    BY <2>1, Zenon DEF new
  <2> QED
    BY <1>0, <1>2, <2>2, <2>3, UserStep, Zenon DEF UserChange
<1>3. CASE UserDelete(o)
  <2> DEFINE new == IF cr[o].finalizer THEN [cr[o] EXCEPT !.deleting = TRUE] ELSE Gone
  <2>1. /\ new \in Resource /\ new.id = cr[o].id
        /\ new.id # NoBox => new.there /\ new.finalizer
    <3>1. CASE cr[o].finalizer
      BY <1>0, <3>1, Zenon DEF Resource
    <3>2. CASE ~cr[o].finalizer
      BY <1>0, <3>2, Zenon
    <3> QED
      BY <3>1, <3>2, Zenon
  <2> HIDE DEF new
  <2>2. Stored(o, new)
    BY <1>3, Zenon DEF new, UserDelete
  <2> QED
    BY <1>3, <2>1, <2>2, UserStep, Zenon DEF UserDelete
<1>4. CASE Resync(o)
  BY <1>4, Zenon DEF Resync, ControllerInv, ControllerTypeOK, StatusBacked, CopyIsPast, HandBacked, LiveIsHeld, OldIsSpent, Live,
     EveryBoxIsAccountedFor
<1> QED
  BY <1>1, <1>2, <1>3, <1>4, Zenon

\* The invariant holds in every state the controller reaches.
THEOREM ControllerInvariant == Spec => []ControllerInv
<1>1. ControllerInv /\ [Next]_vars => ControllerInv'
  <2> SUFFICES ASSUME ControllerInv, [Next]_vars PROVE ControllerInv'
    BY Zenon
  <2>1. CASE UNCHANGED vars
    BY <2>1, Zenon DEF vars, ControllerInv, ControllerTypeOK, StatusBacked, CopyIsPast, HandBacked, LiveIsHeld, OldIsSpent, Live,
       EveryBoxIsAccountedFor
  <2>2. CASE Next
    BY <2>2, UsersStep, GetStep, FinalizeStep, CheckStep, CreateStep, SetStatusStep, TeardownStep,
       UnfinalizeStep, RestartStep, Zenon DEF Next, Worker
  <2> QED
    BY <2>1, <2>2, Zenon
<1> QED
  BY <1>1, ControllerInvInit, PTL DEF Spec

\* Whatever runs for a resource is named by its status or in the hands of its
\* worker, unless a call that failed or a restart explains why it is not: the
\* identifier is written before the worker lets go of it, it is overwritten only
\* when the Manager has lost it, and it is dropped with the resource only after
\* teardown (reconcile, setStatus, teardown).
THEOREM NothingForgotten == Spec => []EveryBoxIsAccountedFor
BY ControllerInvariant, PTL DEF ControllerInv

-----------------------------------------------------------------------------
(* Sequences *)

\* A sequence is a function on its places.
LEMMA SeqPlaces ==
  ASSUME NEW T, NEW s \in Seq(T)
  PROVE  Len(s) \in Nat /\ DOMAIN s = 1 .. Len(s) /\ s \in [1 .. Len(s) -> T]
  OBVIOUS

LEMMA SeqElement ==
  ASSUME NEW T, NEW s \in Seq(T), NEW i \in 1 .. Len(s)
  PROVE  s[i] \in T
  OBVIOUS

LEMMA SeqNothing ==
  ASSUME NEW T
  PROVE  <<>> \in Seq(T) /\ Len(<<>>) = 0 /\ \A s \in Seq(T) : s # <<>> => Len(s) \in Nat \ {0}
  OBVIOUS

LEMMA SeqAppend ==
  ASSUME NEW T, NEW s \in Seq(T), NEW x \in T
  PROVE  /\ Append(s, x) \in Seq(T) /\ Append(s, x) # <<>> /\ Len(Append(s, x)) = Len(s) + 1
         /\ Append(s, x)[Len(s) + 1] = x
         /\ \A i \in 1 .. Len(s) : Append(s, x)[i] = s[i]
  OBVIOUS

LEMMA SeqHeadTail ==
  ASSUME NEW T, NEW s \in Seq(T), s # <<>>
  PROVE  /\ Head(s) \in T /\ Tail(s) \in Seq(T) /\ Len(Tail(s)) = Len(s) - 1
         /\ \A i \in 1 .. Len(Tail(s)) : Tail(s)[i] = s[i + 1]
  OBVIOUS

-----------------------------------------------------------------------------
(* The conversation: what a handler has and what its channel holds *)

\* Consecutive numbers.
Steady(s) == \A i \in 1 .. Len(s) : s[i] = s[1] + (i - 1)

HandlerPcs == {"none", "checked", "subscribed", "replay", "live", "ended"}

Handler == [pc: HandlerPcs, backlog: Seq(Nat), got: Seq(Nat), from: Nat]

\* The message up to which a handler has come, and up to which the history it
\* was given will bring it.
Cursor(r) == IF r.got = <<>> THEN r.from - 1 ELSE r.got[Len(r.got)]
Ahead(r) == Cursor(r) + Len(r.backlog)

\* What a handler r wrote is in order and misses only what is in l.
SeenOK(r, l) ==
  /\ \A i \in 1 .. Len(r.got) - 1 : r.got[i] < r.got[i + 1]
  /\ r.from > 0 => r.from .. Cursor(r) \subseteq IDs(r.got) \cup l

\* The channel q of o continues the history that the handler r works off: between
\* the two there is only what overflowed, and while o is subscribed the channel,
\* or the history, reaches up to the newest message n.
ReplayOK(o, r, q, l, S, n) ==
  /\ r.from >= 1
  /\ r.got = <<>> /\ r.backlog = <<>> => r.from = 1
  /\ \A i \in DOMAIN r.backlog : r.backlog[i] = Cursor(r) + i
  /\ q # <<>> => Ahead(r) + 1 .. q[1] - 1 \subseteq l
  /\ o \in S => Ahead(r) <= n /\ (q = <<>> => n <= Ahead(r))

FeedOK(o, r, q, l, S, n) ==
  /\ SeenOK(r, l)
  /\ Steady(q)
  /\ o \in S => r.pc \in {"subscribed", "replay", "live"}
  /\ o \in S /\ q # <<>> => q[Len(q)] = n
  /\ r.pc \in {"none", "checked"} => q = <<>>
  /\ r.pc \in {"none", "checked", "subscribed"} => r.got = <<>> /\ r.from = 0
  /\ r.pc # "replay" => r.backlog = <<>>
  /\ r.pc \in {"replay", "live"} => ReplayOK(o, r, q, l, S, n)

ConvTypeOK ==
  /\ convSession \in {"live", "removed", "forgotten"}
  /\ nextID \in Nat
  /\ history \in Seq(Nat)
  /\ subs \subseteq Observer
  /\ chan \in [Observer -> Seq(Nat)]
  /\ closed \subseteq Observer
  /\ obs \in [Observer -> Handler]
  /\ lost \in [Observer -> SUBSET Nat]

HistoryOK ==
  /\ Steady(history)
  /\ history = <<>> => nextID = 0
  /\ history # <<>> => history[Len(history)] = nextID /\ history[1] >= 1

\* The inductive invariant of the conversation.
ConvInv ==
  /\ ConvTypeOK
  /\ HistoryOK
  /\ \A o \in Observer : convSession = "live" /\ obs[o].pc = "subscribed" => o \in subs
  /\ \A o \in Observer : FeedOK(o, obs[o], chan[o], lost[o], subs, nextID)

\* A channel of consecutive numbers that gives up its oldest stays consecutive.
LEMMA SteadyTail ==
  ASSUME NEW q \in Seq(Nat), q # <<>>, Steady(q)
  PROVE  /\ Tail(q) \in Seq(Nat) /\ Steady(Tail(q)) /\ Len(Tail(q)) = Len(q) - 1
         /\ Tail(q) # <<>> => Tail(q)[1] = q[1] + 1 /\ Tail(q)[Len(Tail(q))] = q[Len(q)]
         /\ \A i \in 1 .. Len(q) - 1 : Tail(q)[i] = q[i + 1]
         /\ Tail(q) = <<>> => q[1] = q[Len(q)]
         /\ q[1] \in Nat /\ Len(q) \in Nat /\ Len(q) >= 1 /\ q[1] <= q[Len(q)]
<1>1. Len(q) \in Nat /\ Len(q) >= 1 /\ DOMAIN q = 1 .. Len(q)
  BY SeqNothing, SeqPlaces
<1>2. PICK t : t = Tail(q)
  BY Zenon
<1>3. t \in Seq(Nat) /\ Len(t) = Len(q) - 1 /\ \A i \in 1 .. Len(t) : t[i] = q[i + 1]
  BY <1>2, SeqHeadTail, Zenon
<1>4. DOMAIN t = 1 .. Len(t) /\ (t = <<>> => Len(t) = 0) /\ (t # <<>> => Len(t) >= 1)
  BY <1>3, SeqPlaces, SeqNothing, SMTT(60)
<1>a. q[1] \in Nat
  BY <1>1, SeqElement
<1>5. \A i \in 1 .. Len(q) : q[i] = q[1] + (i - 1)
  BY Zenon DEF Steady
<1>6. \A i \in 1 .. Len(t) : i \in 1 .. Len(q) /\ i + 1 \in 1 .. Len(q) /\ t[i] = q[1] + i
  BY <1>a, <1>1, <1>3, <1>5, SMTT(60)
<1>b. Len(t) >= 1 => t[1] = q[1] + 1
  BY <1>1, <1>3, <1>6, SMTT(60)
<1>7. Steady(t)
  <2> SUFFICES ASSUME NEW i \in 1 .. Len(t) PROVE t[i] = t[1] + (i - 1)
    BY Zenon DEF Steady
  <2>1. t[i] = q[1] + i /\ t[1] = q[1] + 1
    BY <1>1, <1>3, <1>6, <1>b, SMTT(60)
  <2> QED
    BY <1>a, <1>1, <1>3, <2>1, SMTT(60)
<1>8. t # <<>> => t[1] = q[1] + 1 /\ t[Len(t)] = q[Len(q)]
  BY <1>a, <1>1, <1>3, <1>4, <1>5, <1>6
<1>9. \A i \in 1 .. Len(q) - 1 : t[i] = q[i + 1]
  BY <1>3, Zenon
<1>10. t = <<>> => q[1] = q[Len(q)]
  <2>1. t = <<>> => Len(t) = 0
    BY <1>4, Zenon
  <2>2. \A n, m : n \in Nat /\ m = n - 1 /\ m = 0 => n = 1
    OBVIOUS
  <2>3. Len(q) \in Nat /\ Len(t) = Len(q) - 1
    BY <1>1, <1>3, Zenon
  <2> QED
    BY <2>1, <2>2, <2>3, Zenon
<1>11. q[1] <= q[Len(q)]
  BY <1>a, <1>1, <1>5, SMTT(60)
<1> QED
  BY <1>a, <1>1, <1>2, <1>3, <1>5, <1>7, <1>8, <1>9, <1>10, <1>11, Zenon

\* Message m follows a channel q.
Follows(q, m) == q \in Seq(Nat) /\ Steady(q) /\ m \in Nat /\ (q # <<>> => q[Len(q)] + 1 = m)

\* Channel a is q with m at its end.
Extended(a, q, m) ==
  /\ a \in Seq(Nat) /\ Steady(a) /\ a # <<>> /\ a[Len(a)] = m
  /\ q = <<>> => a[1] = m
  /\ q # <<>> => a[1] = q[1]
  /\ IDs(a) = IDs(q) \cup {m}

\* The next number keeps a channel consecutive.
LEMMA SteadyAppend ==
  ASSUME NEW q, NEW m, Follows(q, m)
  PROVE  Extended(Append(q, m), q, m)
<1>a. PICK a : a = Append(q, m)
  BY Zenon
<1>0. q \in Seq(Nat) /\ Steady(q) /\ m \in Nat /\ (q # <<>> => q[Len(q)] + 1 = m)
  BY Zenon DEF Follows
<1>1. Len(q) \in Nat /\ DOMAIN q = 1 .. Len(q)
  BY <1>0, SeqPlaces, Zenon
<1>2. /\ a \in Seq(Nat) /\ Len(a) = Len(q) + 1 /\ a # <<>>
      /\ a[Len(q) + 1] = m
      /\ \A i \in 1 .. Len(q) : a[i] = q[i]
  BY <1>0, <1>a, SeqAppend, SMTT(60)
<1>3. DOMAIN a = 1 .. Len(q) + 1
  BY <1>2, SeqPlaces, Zenon
<1>4. q = <<>> => Len(q) = 0
  BY <1>0, SeqNothing, Zenon
<1>5. q # <<>> => Len(q) >= 1
  BY <1>0, SeqNothing
<1>6. q # <<>> => a[1] = q[1]
  BY <1>1, <1>2, <1>5, SMTT(60)
<1>7. q = <<>> => a[1] = m
  BY <1>2, <1>4, SMTT(60)
<1>8. IDs(a) = IDs(q) \cup {m}
  BY <1>1, <1>2, <1>3, SMTT(60) DEF IDs
<1>9. Steady(a)
  <2> SUFFICES ASSUME NEW i \in 1 .. Len(a) PROVE a[i] = a[1] + (i - 1)
    BY Zenon DEF Steady
  <2>1. PICK n \in Nat : n = Len(q)
    BY <1>1, Zenon
  <2>2. i \in 1 .. n + 1
    BY <1>2, <2>1, Zenon
  <2>3. CASE q = <<>>
    <3>0. n = 0
      BY <1>4, <2>1, <2>3, Zenon
    <3>1. i = 1
      BY <2>2, <3>0
    <3> QED
      BY <1>0, <1>7, <2>3, <3>1
  <2>4. CASE q # <<>>
    <3>1. PICK f \in Nat : f = q[1]
      BY <1>0, <1>1, <1>5, <2>4, SeqElement, SMTT(60)
    <3>2. \A j \in 1 .. n : q[j] = f + (j - 1)
      BY <1>0, <2>1, <3>1, Zenon DEF Steady
    <3>3. CASE i \in 1 .. n
      BY <1>2, <1>6, <2>1, <2>4, <3>1, <3>2, <3>3, Zenon
    <3>4. CASE i = n + 1
      <4>1. n \in 1 .. n
        BY <1>5, <2>1, <2>4, SMTT(60)
      <4>2. q[n] + 1 = m /\ q[n] = f + (n - 1)
        BY <1>0, <2>1, <2>4, <3>2, <4>1, Zenon
      <4>3. m = f + n
        BY <1>0, <4>2
      <4> QED
        BY <1>2, <1>6, <2>1, <2>4, <3>1, <3>4, <4>3, SMTT(60)
    <3> QED
      BY <2>2, <3>3, <3>4, SMTT(60)
  <2> QED
    BY <2>3, <2>4, Zenon
<1>10. a[Len(a)] = m
  BY <1>2, Zenon
<1> QED
  BY <1>a, <1>2, <1>6, <1>7, <1>8, <1>9, <1>10, Zenon DEF Extended

\* Channel p is q with m offered to it: a full one has lost its oldest message.
Given(p, q, m) ==
  /\ p \in Seq(Nat) /\ Steady(p) /\ p # <<>> /\ p[Len(p)] = m
  /\ q = <<>> => p[1] = m
  /\ q # <<>> => /\ q[1] \in Nat /\ q[1] < m
                 /\ p[1] = q[1] \/ (p[1] = q[1] + 1 /\ q[1] \in IDs(q) \ IDs(p))

\* A full channel loses its oldest message and gets the new one.
LEMMA OfferKeeps ==
  ASSUME NEW q, NEW m, Follows(q, m)
  PROVE  Given(Offer(q, m), q, m)
<1>0. SubscriberBuf \in Nat \ {0}
  BY ConversationAssumption, Zenon
<1>a. q \in Seq(Nat) /\ Steady(q) /\ m \in Nat /\ (q # <<>> => q[Len(q)] + 1 = m)
  BY Zenon DEF Follows
<1>b. q # <<>> => q[1] \in Nat /\ q[1] < m
  <2> SUFFICES ASSUME q # <<>> PROVE q[1] \in Nat /\ q[1] < m
    BY Zenon
  <2>1. q[1] \in Nat /\ q[1] <= q[Len(q)] /\ Len(q) \in Nat /\ Len(q) >= 1
    BY <1>a, SteadyTail, Zenon
  <2>2. q[Len(q)] \in Nat
    BY <1>a, <2>1, SeqElement
  <2> QED
    BY <1>a, <2>1, <2>2, SMTT(60)
<1>1. Given(Append(q, m), q, m)
  BY <1>b, SteadyAppend, ZenonT(60) DEF Extended, Given
<1>2. ASSUME q # <<>> PROVE Given(Append(Tail(q), m), q, m)
  <2>1. PICK t, p : t = Tail(q) /\ p = Append(t, m)
    BY Zenon
  <2>2. PICK f \in Nat : f = q[1]
    BY <1>b, <1>2, Zenon
  <2>3. /\ t \in Seq(Nat) /\ Steady(t) /\ Len(t) = Len(q) - 1
        /\ t # <<>> => t[1] = f + 1 /\ t[Len(t)] = q[Len(q)]
        /\ t = <<>> => f = q[Len(q)]
        /\ Len(q) \in Nat /\ Len(q) >= 1
    BY <1>2, <1>a, <2>1, <2>2, SteadyTail, Zenon
  <2>4. Follows(t, m)
    BY <1>2, <1>a, <2>3, Zenon DEF Follows
  <2>5. Extended(p, t, m)
    BY <2>1, <2>4, SteadyAppend, Zenon
  <2>6. p[1] = f + 1
    <3>1. CASE t = <<>>
      BY <1>2, <1>a, <2>3, <2>5, <3>1, Zenon DEF Extended
    <3>2. CASE t # <<>>
      BY <2>3, <2>5, <3>2, Zenon DEF Extended
    <3> QED
      BY <3>1, <3>2, Zenon
  <2>7. f \in IDs(q)
    <3>1. 1 \in DOMAIN q
      BY <1>a, <2>3, SeqPlaces
    <3> QED
      BY <2>2, <3>1, Zenon DEF IDs
  <2>8. f \notin IDs(t)
    <3>1. DOMAIN t = 1 .. Len(t) /\ Len(t) \in Nat
      BY <2>3, SeqPlaces, Zenon
    <3>2. PICK k \in Nat : k = Len(t)
      BY <3>1, Zenon
    <3>3. k >= 1 => t[1] = f + 1
      <4>1. t = <<>> => k = 0
        BY <3>2, Zenon
      <4> QED
        BY <2>3, <4>1
    <3>4. \A i \in 1 .. k : t[i] = t[1] + (i - 1)
      BY <2>3, <3>2, Zenon DEF Steady
    <3>5. \A i \in 1 .. k : t[i] = f + 1 + (i - 1)
      BY <3>3, <3>4, SMTT(60)
    <3>6. \A i \in 1 .. k : t[i] # f
      BY <3>5
    <3> QED
      BY <3>1, <3>2, <3>6, Zenon DEF IDs
  <2>9. f # m
    BY <1>b, <1>2, <2>2
  <2>10. f \notin IDs(p)
    BY <2>5, <2>8, <2>9, Zenon DEF Extended
  <2>11. Given(p, q, m)
    BY <1>b, <1>2, <2>2, <2>5, <2>6, <2>7, <2>10, Zenon DEF Extended, Given
  <2> QED
    BY <2>1, <2>11, Zenon
<1>3. q = <<>> => Len(q) < SubscriberBuf
  BY <1>0
<1> QED
  BY <1>1, <1>2, <1>3, Zenon DEF Offer

\* Where a handler stands is a number.
LEMMA CursorType ==
  ASSUME NEW r \in Handler
  PROVE  Cursor(r) \in Int /\ Ahead(r) \in Int /\ Len(r.backlog) \in Nat /\ Len(r.got) \in Nat
<1>1. r.backlog \in Seq(Nat) /\ r.got \in Seq(Nat) /\ r.from \in Nat
  BY Zenon DEF Handler
<1>2. Len(r.backlog) \in Nat /\ Len(r.got) \in Nat
  BY <1>1, SeqPlaces, Zenon
<1>3. Cursor(r) \in Int
  <2>1. CASE r.got = <<>>
    BY <1>1, <2>1 DEF Cursor
  <2>2. CASE r.got # <<>>
    BY <1>1, <2>2, SeqNothing, SeqElement, SMTT(60) DEF Cursor
  <2> QED
    BY <2>1, <2>2, Zenon
<1> QED
  BY <1>2, <1>3 DEF Ahead

\* A published message m keeps a subscribed feed whole.
LEMMA PublishKeeps ==
  ASSUME NEW o, NEW r \in Handler, NEW q \in Seq(Nat), NEW l \in SUBSET Nat, NEW S, o \in S,
         NEW n \in Nat, FeedOK(o, r, q, l, S, n),
         NEW p, p = Offer(q, n + 1),
         NEW k, k = l \cup ((IDs(q) \cup {n + 1}) \ IDs(p))
  PROVE  p \in Seq(Nat) /\ FeedOK(o, r, p, k, S, n + 1)
<1>0. PICK m \in Nat : m = n + 1
  OBVIOUS
<1>1. Steady(q) /\ (q # <<>> => q[Len(q)] = n) /\ SeenOK(r, l) /\ r.pc \in {"subscribed", "replay", "live"}
  BY Zenon DEF FeedOK
<1>a. Follows(q, m)
  BY <1>0, <1>1, Zenon DEF Follows
<1>2. Given(p, q, m)
  BY <1>0, <1>a, OfferKeeps, Zenon
<1>3. SeenOK(r, k)
  BY <1>1, Zenon DEF SeenOK
<1>4. ASSUME ReplayOK(o, r, q, l, S, n) PROVE ReplayOK(o, r, p, k, S, m)
  <2>1. PICK a \in Int : a = Ahead(r)
    BY CursorType, Zenon
  <2>2. a <= n /\ (q = <<>> => n <= a) /\ (q # <<>> => a + 1 .. q[1] - 1 \subseteq l)
    BY <1>4, <2>1, Zenon DEF ReplayOK
  <2>3. ASSUME NEW x \in a + 1 .. p[1] - 1 PROVE x \in k
    <3>1. CASE q = <<>>
      <4>1. p[1] = m
        BY <1>2, <3>1, Zenon DEF Given
      <4> QED
        BY <1>0, <2>2, <2>3, <3>1, <4>1, SMTT(60)
    <3>2. CASE q # <<>> /\ p[1] = q[1]
      BY <2>2, <2>3, <3>2, Zenon
    <3>3. CASE q # <<>> /\ p[1] = q[1] + 1 /\ q[1] \in IDs(q) \ IDs(p)
      <4>1. PICK f \in Nat : f = q[1]
        BY <1>2, <3>3, Zenon DEF Given
      <4>2. x \in a + 1 .. f
        BY <2>3, <3>3, <4>1, SMTT(60)
      <4>3. x = f \/ x \in a + 1 .. f - 1
        BY <4>2
      <4> QED
        BY <2>2, <3>3, <4>1, <4>3, Zenon
    <3> QED
      BY <1>2, <3>1, <3>2, <3>3, Zenon DEF Given
  <2>4. a <= m
    BY <1>0, <2>2
  <2>5. p # <<>>
    BY <1>2, Zenon DEF Given
  <2> QED
    BY <1>4, <2>1, <2>3, <2>4, <2>5, Zenon DEF ReplayOK
<1> QED
  BY <1>0, <1>1, <1>2, <1>3, <1>4, Zenon DEF FeedOK, Given

\* Handler u has written one message h more than r, and what lies between the two
\* overflowed.
Wrote(u, r, h, l) ==
  /\ u.got = Append(r.got, h) /\ u.from = r.from
  /\ Cursor(r) < h /\ Cursor(r) + 1 .. h - 1 \subseteq l

\* A message beyond the cursor keeps what was written in order and without a gap.
LEMMA GotGrows ==
  ASSUME NEW r \in Handler, NEW u, NEW h \in Nat, NEW l, SeenOK(r, l), Wrote(u, r, h, l)
  PROVE  SeenOK(u, l) /\ Cursor(u) = h /\ u.got \in Seq(Nat) /\ u.got # <<>>
<1>1. PICK g, v, c : g = r.got /\ v = u.got /\ c = Cursor(r)
  BY Zenon
<1>2. g \in Seq(Nat) /\ Len(g) \in Nat /\ c \in Int /\ DOMAIN g = 1 .. Len(g) /\ r.from \in Nat
  BY <1>1, CursorType, SeqPlaces, Zenon DEF Handler
<1>3. v = Append(g, h) /\ u.from = r.from /\ c < h /\ c + 1 .. h - 1 \subseteq l
  BY <1>1, Zenon DEF Wrote
<1>4. /\ v \in Seq(Nat) /\ Len(v) = Len(g) + 1 /\ v # <<>> /\ v[Len(g) + 1] = h
      /\ \A i \in 1 .. Len(g) : v[i] = g[i]
  BY <1>2, <1>3, SeqAppend, SMTT(60)
<1>5. DOMAIN v = 1 .. Len(g) + 1
  BY <1>4, SeqPlaces, Zenon
<1>6. Cursor(u) = h
  BY <1>1, <1>4, Zenon DEF Cursor
<1>7. PICK k \in Nat : k = Len(g)
  BY <1>2, Zenon
<1>8. ASSUME NEW i \in 1 .. k PROVE v[i] < v[i + 1]
  <2>1. CASE i < k
    <3>1. g[i] < g[i + 1]
      BY <1>1, <1>7, <2>1 DEF SeenOK
    <3> QED
      BY <1>4, <1>7, <2>1, <3>1, SMTT(60)
  <2>2. CASE i = k
    <3>1. g # <<>>
      BY <1>7, <2>2
    <3>2. c = g[k]
      BY <1>1, <1>7, <3>1, Zenon DEF Cursor
    <3> QED
      BY <1>3, <1>4, <1>7, <2>2, <3>2, Zenon
  <2> QED
    BY <2>1, <2>2
<1>9. IDs(g) \subseteq IDs(v) /\ h \in IDs(v)
  BY <1>2, <1>4, <1>5, <1>7, SMTT(60) DEF IDs
<1>10. ASSUME r.from > 0, NEW x \in r.from .. h PROVE x \in IDs(v) \cup l
  <2>1. r.from .. c \subseteq IDs(g) \cup l
    BY <1>1, <1>10, Zenon DEF SeenOK
  <2>2. x \in r.from .. c \/ x \in c + 1 .. h - 1 \/ x = h
    BY <1>2, <1>10
  <2> QED
    BY <1>3, <1>9, <2>1, <2>2, Zenon
<1>11. \A i \in 1 .. Len(v) - 1 : v[i] < v[i + 1]
  BY <1>4, <1>7, <1>8
<1> QED
  BY <1>1, <1>3, <1>4, <1>6, <1>10, <1>11, Zenon DEF SeenOK

\* Handler r after a step of the replay.
Replayed(r) ==
  IF r.backlog = <<>> THEN [r EXCEPT !.pc = "live"]
  ELSE [r EXCEPT !.backlog = Tail(@), !.got = Append(@, Head(r.backlog))]

\* The handler writes the next message of the history, or has written all of it.
LEMMA ReplayKeeps ==
  ASSUME NEW o, NEW r \in Handler, NEW q \in Seq(Nat), NEW l \in SUBSET Nat, NEW S,
         NEW n \in Nat, FeedOK(o, r, q, l, S, n), r.pc = "replay",
         NEW u, u = Replayed(r)
  PROVE  u \in Handler /\ FeedOK(o, u, q, l, S, n)
<1>0. r.backlog \in Seq(Nat) /\ r.got \in Seq(Nat) /\ r.from \in Nat
  BY Zenon DEF Handler
<1>1. SeenOK(r, l) /\ ReplayOK(o, r, q, l, S, n)
  BY Zenon DEF FeedOK
<1>2. CASE r.backlog = <<>>
  <2>1. /\ u \in Handler /\ u.pc = "live" /\ u.backlog = r.backlog /\ u.got = r.got
        /\ u.from = r.from
    BY <1>2, Zenon DEF Replayed, Handler, HandlerPcs
  <2>2. Cursor(u) = Cursor(r) /\ Ahead(u) = Ahead(r)
    BY <2>1, Zenon DEF Cursor, Ahead
  <2>3. SeenOK(u, l) /\ ReplayOK(o, u, q, l, S, n)
    BY <1>1, <2>1, <2>2, Zenon DEF SeenOK, ReplayOK
  <2> QED
    BY <1>2, <2>1, <2>3, Zenon DEF FeedOK
<1>3. CASE r.backlog # <<>>
  <2>1. PICK b, t, h, g : /\ b = r.backlog /\ t = Tail(b) /\ h = Head(b) /\ g = Append(r.got, h)
    BY Zenon
  <2>2. PICK c \in Int : c = Cursor(r)
    BY CursorType, Zenon
  <2>3. /\ t \in Seq(Nat) /\ h \in Nat /\ h = b[1] /\ Len(t) = Len(b) - 1
        /\ \A i \in 1 .. Len(t) : t[i] = b[i + 1]
    BY <1>0, <1>3, <2>1, SeqHeadTail, SMTT(60)
  <2>4. Len(b) \in Nat /\ Len(b) >= 1 /\ DOMAIN b = 1 .. Len(b) /\ DOMAIN t = 1 .. Len(t)
    BY <1>0, <1>3, <2>1, <2>3, SeqNothing, SeqPlaces, SMTT(60)
  <2>a. PICK k \in Nat : k = Len(b) /\ Len(t) = k - 1 /\ k >= 1
    BY <2>3, <2>4, Zenon
  <2>b. \A i \in 1 .. k - 1 : t[i] = b[i + 1]
    BY <2>3, <2>a, Zenon
  <2>5. \A i \in 1 .. k : b[i] = c + i
    BY <1>1, <2>1, <2>2, <2>4, <2>a, Zenon DEF ReplayOK
  <2>6. h = c + 1
    <3>1. b[1] = c + 1
      BY <2>5, <2>a
    <3> QED
      BY <2>3, <3>1, Zenon
  <2>7. \A i \in 1 .. k - 1 : t[i] = h + i
    BY <2>b, <2>5, <2>6, SMTT(60)
  <2>c. u = [r EXCEPT !.backlog = t, !.got = g]
    BY <1>3, <2>1, Zenon DEF Replayed
  <2>d. u.pc = "replay" /\ u.backlog = t /\ u.got = g /\ u.from = r.from
    BY <2>c, Zenon DEF Handler
  <2>e. Wrote(u, r, h, l)
    BY <2>1, <2>2, <2>6, <2>d, SMTT(60) DEF Wrote
  <2>12. SeenOK(u, l) /\ Cursor(u) = h /\ u.got \in Seq(Nat) /\ u.got # <<>>
    BY <1>1, <2>3, <2>e, GotGrows, Zenon
  <2>8. u \in Handler
    BY <2>3, <2>c, <2>d, <2>12, Zenon DEF Handler
  <2>11. Ahead(u) = Ahead(r)
    <3>1. Ahead(u) = h + (k - 1) /\ Ahead(r) = c + k
      BY <2>1, <2>2, <2>a, <2>d, <2>12, Zenon DEF Ahead
    <3> QED
      BY <2>6, <3>1, SMTT(60)
  <2>13. ReplayOK(o, u, q, l, S, n)
    <3>1. \A i \in DOMAIN t : t[i] = h + i
      BY <2>4, <2>7, <2>a, Zenon
    <3> QED
      BY <1>1, <2>11, <2>12, <2>d, <3>1, Zenon DEF ReplayOK
  <2> QED
    BY <2>8, <2>12, <2>13, <2>d, Zenon DEF FeedOK
<1> QED
  BY <1>2, <1>3, Zenon

\* The last message a handler wrote, and the handler after it took a message from
\* channel q.
LastOf(r) == IF r.got = <<>> THEN 0 ELSE r.got[Len(r.got)]
Taken(r, q) == IF Head(q) <= LastOf(r) THEN r ELSE [r EXCEPT !.got = Append(@, Head(q))]

\* The handler takes a message from the channel; what the history had is skipped.
LEMMA TakeKeeps ==
  ASSUME NEW o, NEW r \in Handler, NEW q \in Seq(Nat), NEW l \in SUBSET Nat, NEW S,
         NEW n \in Nat, FeedOK(o, r, q, l, S, n), r.pc = "live", q # <<>>,
         NEW u, u = Taken(r, q), NEW p, p = Tail(q)
  PROVE  u \in Handler /\ p \in Seq(Nat) /\ FeedOK(o, u, p, l, S, n)
<1>0. PICK f \in Nat : f = q[1] /\ f = Head(q)
  BY SteadyTail DEF FeedOK
<1>1. /\ SeenOK(r, l) /\ ReplayOK(o, r, q, l, S, n) /\ r.backlog = <<>>
      /\ o \in S => q[Len(q)] = n
  BY Zenon DEF FeedOK
<1>2. /\ p \in Seq(Nat) /\ Steady(p)
      /\ p # <<>> => p[1] = f + 1 /\ p[Len(p)] = q[Len(q)]
      /\ p = <<>> => f = q[Len(q)]
      /\ f <= q[Len(q)]
  BY <1>0, SteadyTail, Zenon DEF FeedOK
<1>3. PICK c \in Int : c = Cursor(r)
  BY CursorType, Zenon
<1>4. Ahead(r) = c
  <2>1. Len(r.backlog) = 0
    BY <1>1
  <2> QED
    BY <1>3, <2>1 DEF Ahead
<1>5. c = LastOf(r)
  <2>1. CASE r.got = <<>>
    BY <1>1, <1>3, <2>1 DEF Cursor, LastOf, ReplayOK
  <2>2. CASE r.got # <<>>
    BY <1>3, <2>2, Zenon DEF Cursor, LastOf
  <2> QED
    BY <2>1, <2>2, Zenon
<1>6. c + 1 .. f - 1 \subseteq l /\ (o \in S => c <= n)
  BY <1>0, <1>1, <1>4, Zenon DEF ReplayOK
<1>7. o \in S => f <= n /\ (p = <<>> => f = n)
  BY <1>1, <1>2, Zenon
<1>10. p # <<>> => p[1] - 1 = f
  <2> SUFFICES ASSUME p # <<>> PROVE p[1] - 1 = f
    BY Zenon
  <2>1. PICK g \in Nat : g = p[1]
    BY <1>2, SMTT(60)
  <2>2. g - 1 = f
    BY <1>2, <2>1, SMTT(60)
  <2> QED
    BY <2>1, <2>2, Zenon
<1>8. CASE f <= c
  <2>1. u = r
    BY <1>0, <1>5, <1>8, Zenon DEF Taken
  <2>2. p # <<>> => c + 1 .. p[1] - 1 \subseteq l
    <3>1. c + 1 .. f = {}
      BY <1>8
    <3> QED
      BY <1>10, <3>1, Zenon
  <2>3. o \in S => c <= n /\ (p = <<>> => n <= c)
    BY <1>6, <1>7, <1>8, Zenon
  <2>4. ReplayOK(o, r, p, l, S, n)
    BY <1>1, <1>4, <2>2, <2>3, Zenon DEF ReplayOK
  <2> QED
    BY <1>2, <2>1, <2>4, Zenon DEF FeedOK
<1>9. CASE ~(f <= c)
  <2>1. u = [r EXCEPT !.got = Append(r.got, f)]
    BY <1>0, <1>5, <1>9, Zenon DEF Taken
  <2>2. /\ u.pc = r.pc /\ u.backlog = r.backlog /\ u.from = r.from /\ u.got = Append(r.got, f)
    BY <2>1, Zenon DEF Handler
  <2>3. Wrote(u, r, f, l)
    BY <1>3, <1>6, <1>9, <2>2, SMTT(60) DEF Wrote
  <2>4. SeenOK(u, l) /\ Cursor(u) = f /\ u.got \in Seq(Nat) /\ u.got # <<>>
    BY <1>1, <2>3, GotGrows, Zenon
  <2>5. u \in Handler
    BY <2>1, <2>2, <2>4, Zenon DEF Handler
  <2>6. Ahead(u) = f
    <3>1. Len(u.backlog) = 0
      BY <1>1, <2>2
    <3> QED
      BY <2>4, <3>1, SMTT(60) DEF Ahead
  <2>7. p # <<>> => f + 1 .. p[1] - 1 \subseteq l
    <3>1. f + 1 .. f = {}
      OBVIOUS
    <3> QED
      BY <1>10, <3>1, Zenon
  <2>8. \A i \in DOMAIN u.backlog : u.backlog[i] = Cursor(u) + i
    BY <1>1, <2>2
  <2>9. ReplayOK(o, u, p, l, S, n)
    BY <1>1, <1>7, <2>2, <2>4, <2>6, <2>7, <2>8, Zenon DEF ReplayOK
  <2> QED
    BY <1>2, <2>2, <2>4, <2>5, <2>9, Zenon DEF FeedOK
<1> QED
  BY <1>8, <1>9, Zenon

\* The history and the newest message.
HistoryAt(h, n) ==
  /\ h \in Seq(Nat) /\ Steady(h)
  /\ h = <<>> => n = 0
  /\ h # <<>> => h[Len(h)] = n /\ h[1] >= 1

\* Handler r after it has read history h.
WithHistory(r, h, n) ==
  [r EXCEPT !.pc = "replay", !.backlog = h, !.from = IF h = <<>> THEN n + 1 ELSE Head(h)]

\* A handler that is subscribed first and then reads the history misses nothing
\* between the two.
LEMMA ReadKeeps ==
  ASSUME NEW o, NEW r \in Handler, NEW q \in Seq(Nat), NEW l \in SUBSET Nat, NEW S, o \in S,
         NEW n \in Nat, FeedOK(o, r, q, l, S, n), r.pc = "subscribed",
         NEW h, HistoryAt(h, n), NEW u, u = WithHistory(r, h, n)
  PROVE  u \in Handler /\ FeedOK(o, u, q, l, S, n)
<1>0. /\ r.got = <<>> /\ Steady(q) /\ (q # <<>> => q[Len(q)] = n)
  BY Zenon DEF FeedOK
<1>1. /\ h \in Seq(Nat) /\ Steady(h) /\ (h = <<>> => n = 0)
      /\ h # <<>> => h[Len(h)] = n /\ h[1] >= 1 /\ h[1] \in Nat /\ Head(h) = h[1]
  BY SteadyTail DEF HistoryAt
<1>2. PICK f \in Nat : f = (IF h = <<>> THEN n + 1 ELSE Head(h)) /\ f >= 1
  BY <1>1
<1>3. u = [r EXCEPT !.pc = "replay", !.backlog = h, !.from = f]
  BY <1>2, Zenon DEF WithHistory
<1>4. u \in Handler /\ u.pc = "replay" /\ u.backlog = h /\ u.from = f /\ u.got = <<>>
  BY <1>0, <1>1, <1>3, Zenon DEF Handler, HandlerPcs
<1>5. Cursor(u) = f - 1
  BY <1>4, Zenon DEF Cursor
<1>6. PICK k \in Nat : k = Len(h) /\ DOMAIN h = 1 .. k
  BY <1>1, SeqPlaces, Zenon
<1>7. h = <<>> => k = 0 /\ f = 1
  BY <1>1, <1>2, <1>6, SMTT(60)
<1>8. h # <<>> => k >= 1 /\ f = h[1]
  BY <1>1, <1>2, <1>6, SeqNothing, SMTT(60)
<1>9. \A i \in 1 .. k : h[i] = f + (i - 1)
  <2>1. \A i \in 1 .. k : h # <<>>
    BY <1>7, SMTT(60)
  <2> QED
    BY <1>1, <1>6, <1>8, <2>1, Zenon DEF Steady
<1>10. f - 1 + k = n
  <2>1. CASE h = <<>>
    BY <1>1, <1>7, <2>1, SMTT(60)
  <2>2. CASE h # <<>>
    <3>1. h[k] = n /\ h[k] = f + (k - 1)
      BY <1>1, <1>6, <1>8, <1>9, <2>2, SMTT(60)
    <3> QED
      BY <3>1, SMTT(60)
  <2> QED
    BY <2>1, <2>2, Zenon
<1>11. Ahead(u) = n
  BY <1>4, <1>5, <1>6, <1>10, Zenon DEF Ahead
<1>12. q # <<>> => n + 1 .. q[1] - 1 \subseteq l
  <2> SUFFICES ASSUME q # <<>> PROVE n + 1 .. q[1] - 1 = {}
    BY Zenon
  <2>1. q[1] \in Nat /\ q[1] <= n
    BY <1>0, SteadyTail, Zenon
  <2> QED
    BY <2>1, SMTT(60)
<1>13. \A i \in DOMAIN u.backlog : u.backlog[i] = Cursor(u) + i
  BY <1>4, <1>5, <1>6, <1>9, SMTT(60)
<1>14. ReplayOK(o, u, q, l, S, n)
  BY <1>2, <1>4, <1>7, <1>11, <1>12, <1>13, SMTT(60) DEF ReplayOK
<1>15. SeenOK(u, l)
  <2>1. Len(u.got) = 0
    BY <1>4, Zenon
  <2> QED
    BY <1>4, <1>5, <2>1 DEF SeenOK
<1> QED
  BY <1>0, <1>4, <1>14, <1>15, Zenon DEF FeedOK

\* Whoever is not subscribed does not depend on the stream, and nobody depends on
\* the subscriptions of others.
LEMMA FeedIsOwn ==
  ASSUME NEW o, NEW r, NEW q, NEW l, NEW S, NEW n, NEW T, NEW k,
         FeedOK(o, r, q, l, S, n), o \in T => o \in S /\ k = n
  PROVE  FeedOK(o, r, q, l, T, k)
<1>1. ReplayOK(o, r, q, l, S, n) => ReplayOK(o, r, q, l, T, k)
  BY Zenon DEF ReplayOK
<1> QED
  BY <1>1, Zenon DEF FeedOK

\* The handler of o that ended with what it has.
Ended(r) == [r EXCEPT !.pc = "ended", !.backlog = <<>>]

LEMMA EndKeeps ==
  ASSUME NEW o, NEW r \in Handler, NEW q, NEW l, NEW S, NEW n, FeedOK(o, r, q, l, S, n),
         NEW u, u = Ended(r), NEW T, o \notin T
  PROVE  u \in Handler /\ FeedOK(o, u, q, l, T, n)
<1>1. /\ u \in Handler /\ u.pc = "ended" /\ u.backlog = <<>>
      /\ u.got = r.got /\ u.from = r.from
  <2>1. <<>> \in Seq(Nat) /\ "ended" \in HandlerPcs
    BY DEF HandlerPcs
  <2> QED
    BY <2>1, Zenon DEF Ended, Handler
<1>2. SeenOK(u, l)
  BY <1>1, Zenon DEF FeedOK, SeenOK, Cursor
<1> QED
  BY <1>1, <1>2, Zenon DEF FeedOK

\* The handler of o passes its check, or subscribes an empty channel.
LEMMA EnterKeeps ==
  ASSUME NEW o, NEW r \in Handler, NEW q, NEW l, NEW S, NEW n, FeedOK(o, r, q, l, S, n),
         r.pc \in {"none", "checked"}, NEW c \in {"checked", "subscribed"},
         NEW u, u = [r EXCEPT !.pc = c], NEW T, c = "checked" => o \notin T
  PROVE  u \in Handler /\ FeedOK(o, u, q, l, T, n)
<1>1. /\ u \in Handler /\ u.pc = c /\ u.backlog = r.backlog
      /\ u.got = r.got /\ u.from = r.from
  BY Zenon DEF Handler, HandlerPcs
<1>2. SeenOK(u, l)
  BY <1>1, Zenon DEF FeedOK, SeenOK, Cursor
<1> QED
  BY <1>1, <1>2, Zenon DEF FeedOK

\* The history after a message: the newest is its last, and it stays consecutive.
LEMMA HistoryGrows ==
  ASSUME NEW h \in Seq(Nat), NEW n \in Nat, HistoryAt(h, n),
         NEW g, g = Append(h, n + 1)
  PROVE  HistoryAt(IF Len(g) > HistoryLimit THEN Tail(g) ELSE g, n + 1)
<1>0. PICK m \in Nat : m = n + 1
  OBVIOUS
<1>1. Follows(h, m)
  BY <1>0, Zenon DEF HistoryAt, Follows
<1>2. g \in Seq(Nat) /\ Steady(g) /\ g # <<>> /\ g[Len(g)] = m /\ Len(g) = Len(h) + 1
      /\ g[1] \in Nat /\ g[1] >= 1
  BY <1>0, <1>1, SteadyAppend, SMTT(60) DEF HistoryAt, Extended
<1>3. CASE Len(g) > HistoryLimit
  <2>1. Len(g) >= 2
    BY <1>2, <1>3, SeqPlaces, ConversationAssumption
  <2>2. PICK t : t = Tail(g)
    BY Zenon
  <2>3. t # <<>>
    BY <1>2, <2>1, <2>2, SteadyTail, SMTT(60)
  <2>4. t \in Seq(Nat) /\ Steady(t) /\ t[1] = g[1] + 1 /\ t[Len(t)] = m
    BY <1>2, <2>2, <2>3, SteadyTail, Zenon
  <2>5. t[1] >= 1
    BY <1>2, <2>4, SMTT(60)
  <2>6. HistoryAt(t, n + 1)
    BY <1>0, <2>3, <2>4, <2>5, Zenon DEF HistoryAt
  <2> QED
    BY <1>3, <2>2, <2>6, Zenon
<1>4. CASE ~(Len(g) > HistoryLimit)
  BY <1>0, <1>2, <1>4, Zenon DEF HistoryAt
<1> QED
  BY <1>3, <1>4, Zenon

LEMMA ConvInitOK == ConvInit => ConvInv
<1> SUFFICES ASSUME ConvInit PROVE ConvInv
  BY Zenon
<1>1. NoHandler \in Handler /\ NoHandler.pc = "none" /\ NoHandler.backlog = <<>> /\ NoHandler.got = <<>> /\ NoHandler.from = 0
  BY DEF NoHandler, Handler, HandlerPcs
<1>2. ConvTypeOK
  BY <1>1 DEF ConvInit, ConvTypeOK
<1>3. Steady(<<>>)
  BY DEF Steady
<1>4. HistoryOK
  BY <1>3, Zenon DEF ConvInit, HistoryOK
<1>5. SeenOK(NoHandler, {})
  BY <1>1 DEF SeenOK
<1>6. \A o \in Observer : FeedOK(o, NoHandler, <<>>, {}, {}, 0)
  BY <1>1, <1>3, <1>5, Zenon DEF FeedOK
<1>7. \A o \in Observer : obs[o] = NoHandler /\ chan[o] = <<>> /\ lost[o] = {} /\ subs = {} /\ nextID = 0
  BY Zenon DEF ConvInit
<1> QED
  BY <1>1, <1>2, <1>4, <1>6, <1>7, Zenon DEF ConvInv

\* A step of the handler of o alone: r and q are what it has afterwards.
Served(o, r, q) ==
  /\ convSession' = convSession /\ nextID' = nextID /\ history' = history
  /\ closed' = closed /\ lost' = lost
  /\ subs' \in SUBSET Observer /\ \A x \in Observer \ {o} : x \in subs' => x \in subs
  /\ obs' = [obs EXCEPT ![o] = r]
  /\ chan' = [chan EXCEPT ![o] = q]

\* It keeps the invariant when it keeps what holds of o.
LEMMA ServedKeeps ==
  ASSUME ConvInv, NEW o \in Observer, NEW r \in Handler, NEW q \in Seq(Nat), Served(o, r, q),
         FeedOK(o, r, q, lost[o], subs', nextID),
         convSession = "live" /\ r.pc = "subscribed" => o \in subs',
         \A x \in Observer \ {o} : x \in subs => x \in subs'
  PROVE  ConvInv'
<1>1. ConvTypeOK'
  BY Zenon DEF ConvInv, ConvTypeOK, Served
<1>2. HistoryOK'
  BY Zenon DEF ConvInv, HistoryOK, Served
<1>3. obs'[o] = r /\ chan'[o] = q /\ \A x \in Observer \ {o} : obs'[x] = obs[x] /\ chan'[x] = chan[x]
  BY Zenon DEF ConvInv, ConvTypeOK, Served
<1>4. ASSUME NEW x \in Observer
      PROVE  FeedOK(x, obs'[x], chan'[x], lost'[x], subs', nextID')
  <2>1. CASE x = o
    BY <1>3, <2>1, Zenon DEF Served
  <2>2. CASE x # o
    <3>1. FeedOK(x, obs[x], chan[x], lost[x], subs, nextID)
      BY Zenon DEF ConvInv
    <3>2. x \in subs' => x \in subs
      BY <2>2, Zenon DEF Served
    <3>3. FeedOK(x, obs[x], chan[x], lost[x], subs', nextID)
      BY <3>1, <3>2, FeedIsOwn, Zenon
    <3> QED
      BY <1>3, <2>2, <3>3, Zenon DEF Served
  <2> QED
    BY <2>1, <2>2, Zenon
<1>5. \A x \in Observer : convSession' = "live" /\ obs'[x].pc = "subscribed" => x \in subs'
  BY <1>3, Zenon DEF ConvInv, Served
<1> QED
  BY <1>1, <1>2, <1>4, <1>5, Zenon DEF ConvInv

\* One step of one handler.
LEMMA ServeStep ==
  ASSUME ConvInv, NEW o \in Observer, CheckSubscribe(o) \/ Serve(o) \/ Disconnect(o)
  PROVE  ConvInv'
<1>0. PICK r, q, l, n, S : r = obs[o] /\ q = chan[o] /\ l = lost[o] /\ n = nextID /\ S = subs
  BY Zenon
<1>1. /\ r \in Handler /\ q \in Seq(Nat) /\ l \in SUBSET Nat /\ n \in Nat
      /\ FeedOK(o, r, q, l, S, n)
  BY <1>0, Zenon DEF ConvInv, ConvTypeOK
<1>2. /\ obs \in [Observer -> Handler] /\ chan \in [Observer -> Seq(Nat)] /\ subs \subseteq Observer
      /\ chan = [chan EXCEPT ![o] = q]
  BY <1>0, Zenon DEF ConvInv, ConvTypeOK
<1>3. CASE CheckSubscribe(o)
  <2>1. PICK u : u = [r EXCEPT !.pc = "checked"]
    BY Zenon
  <2>2. r.pc = "none" /\ o \notin S
    BY <1>0, <1>1, <1>3, Zenon DEF CheckSubscribe, FeedOK
  <2>3. u \in Handler /\ FeedOK(o, u, q, l, S, n)
    BY <1>1, <2>1, <2>2, EnterKeeps, Zenon
  <2>4. Served(o, u, q)
    BY <1>0, <1>2, <1>3, <2>1, Zenon DEF CheckSubscribe, Served, hub
  <2>5. u.pc = "checked" /\ subs' = subs
    BY <1>1, <1>3, <2>1, Zenon DEF CheckSubscribe, hub, Handler
  <2> QED
    BY <1>0, <1>1, <2>3, <2>4, <2>5, ServedKeeps, Zenon
<1>4. CASE Observe(o)
  <2>1. PICK u, T : u = [r EXCEPT !.pc = "subscribed"] /\ T = subs'
    BY Zenon
  <2>2. u \in Handler /\ FeedOK(o, u, q, l, T, n)
    <3>1. r.pc = "checked"
      BY <1>0, <1>4, Zenon DEF Observe
    <3> QED
      BY <1>1, <2>1, <3>1, EnterKeeps, Zenon
  <2>3. Served(o, u, q)
    BY <1>0, <1>2, <1>4, <2>1, Zenon DEF Observe, Served
  <2>4. o \in subs' /\ \A x \in subs : x \in subs'
    BY <1>4, Zenon DEF Observe
  <2> QED
    BY <1>0, <1>1, <2>1, <2>2, <2>3, <2>4, ServedKeeps, Zenon
<1>5. ASSUME End(o), UNCHANGED <<convSession, nextID, history, chan, closed, publisher, lost>>
      PROVE  ConvInv'
  <2>1. PICK u, T : u = Ended(r) /\ T = subs'
    BY Zenon
  <2>2. o \notin T /\ \A x \in Observer \ {o} : x \in subs => x \in subs'
    BY <1>5, <2>1, Zenon DEF End
  <2>3. u \in Handler /\ FeedOK(o, u, q, l, T, n)
    BY <1>1, <2>1, <2>2, EndKeeps, Zenon
  <2>4. Served(o, u, q)
    BY <1>0, <1>2, <1>5, <2>1, Zenon DEF End, Ended, Served
  <2>5. u.pc = "ended"
    BY <1>1, <2>1, Zenon DEF Ended, Handler
  <2> QED
    BY <1>0, <1>1, <2>1, <2>2, <2>3, <2>4, <2>5, ServedKeeps, Zenon
<1>6. CASE ReadHistory(o)
  <2>1. CASE convSession = "live"
    <3>1. PICK h, u : h = history /\ u = WithHistory(r, h, n)
      BY Zenon
    <3>2. HistoryAt(h, n) /\ o \in S /\ r.pc = "subscribed"
      BY <1>0, <1>6, <2>1, <3>1, Zenon DEF ConvInv, ConvTypeOK, HistoryOK, HistoryAt, ReadHistory
    <3>3. u \in Handler /\ FeedOK(o, u, q, l, S, n)
      BY <1>1, <3>1, <3>2, ReadKeeps, Zenon
    <3>4. Served(o, u, q) /\ subs' = subs
      BY <1>0, <1>2, <1>6, <2>1, <3>1, Zenon DEF ReadHistory, WithHistory, Served
    <3> QED
      BY <1>0, <1>1, <3>2, <3>3, <3>4, ServedKeeps, Zenon
  <2>2. CASE convSession # "live"
    BY <1>5, <1>6, <2>2, Zenon DEF ReadHistory
  <2> QED
    BY <2>1, <2>2, Zenon
<1>7. CASE Replay(o)
  <2>1. PICK u : u = Replayed(r)
    BY Zenon
  <2>2. r.pc = "replay"
    BY <1>0, <1>7, Zenon DEF Replay
  <2>3. u \in Handler /\ FeedOK(o, u, q, l, S, n)
    BY <1>1, <2>1, <2>2, ReplayKeeps, Zenon
  <2>4. Served(o, u, q) /\ subs' = subs
    BY <1>0, <1>2, <1>7, <2>1, Zenon DEF Replay, Replayed, Served, hub
  <2>5. u.pc \in {"replay", "live"}
    BY <1>1, <2>1, <2>2, Zenon DEF Replayed, Handler
  <2> QED
    BY <1>0, <1>1, <2>3, <2>4, <2>5, ServedKeeps, Zenon
<1>8. CASE TakeMessage(o)
  <2>1. PICK u, p : u = Taken(r, q) /\ p = Tail(q)
    BY Zenon
  <2>2. r.pc = "live" /\ q # <<>>
    BY <1>0, <1>8, Zenon DEF TakeMessage
  <2>3. u \in Handler /\ p \in Seq(Nat) /\ FeedOK(o, u, p, l, S, n)
    BY <1>1, <2>1, <2>2, TakeKeeps, ZenonT(60)
  <2>4. Served(o, u, p) /\ subs' = subs
    BY <1>0, <1>2, <1>8, <2>1, Zenon DEF TakeMessage, Taken, LastOf, lastID, Served
  <2>5. u.pc = "live"
    BY <1>1, <2>1, <2>2, Zenon DEF Taken, Handler
  <2> QED
    BY <1>0, <1>1, <2>3, <2>4, <2>5, ServedKeeps, Zenon
<1>9. CASE SeeClosed(o)
  BY <1>5, <1>9, Zenon DEF SeeClosed
<1>10. CASE Disconnect(o)
  BY <1>5, <1>10, Zenon DEF Disconnect
<1> QED
  BY <1>3, <1>4, <1>6, <1>7, <1>8, <1>9, <1>10, Zenon DEF Serve

\* A message reaches the channel of every subscriber.
LEMMA PublishStep ==
  ASSUME ConvInv, Publish
  PROVE  ConvInv'
<1>1. PICK h, n : h = history /\ n = nextID
  BY Zenon
<1>2. h \in Seq(Nat) /\ n \in Nat /\ HistoryAt(h, n)
  BY <1>1, Zenon DEF ConvInv, ConvTypeOK, HistoryOK, HistoryAt
<1>3. HistoryAt(history', nextID')
  <2>1. PICK g : g = Append(h, n + 1)
    BY Zenon
  <2>2. nextID' = n + 1 /\ history' = IF Len(g) > HistoryLimit THEN Tail(g) ELSE g
    BY <1>1, <2>1, Zenon DEF Publish
  <2> QED
    BY <1>2, <2>1, <2>2, HistoryGrows, Zenon
<1>4. ASSUME NEW o \in Observer
      PROVE  /\ chan'[o] \in Seq(Nat) /\ lost'[o] \in SUBSET Nat
             /\ FeedOK(o, obs[o], chan'[o], lost'[o], subs, n + 1)
  <2>1. PICK r, q, l, S : r = obs[o] /\ q = chan[o] /\ l = lost[o] /\ S = subs
    BY Zenon
  <2>2. /\ r \in Handler /\ q \in Seq(Nat) /\ l \in SUBSET Nat
        /\ FeedOK(o, r, q, l, S, n)
    BY <1>1, <2>1, Zenon DEF ConvInv, ConvTypeOK
  <2>3. CASE o \in subs
    <3>1. PICK p, k : p = Offer(q, n + 1) /\ k = l \cup ((IDs(q) \cup {n + 1}) \ IDs(p))
      BY Zenon
    <3>2. p \in Seq(Nat) /\ FeedOK(o, r, p, k, S, n + 1)
      BY <1>2, <2>1, <2>2, <2>3, <3>1, PublishKeeps, Zenon
    <3>3. chan'[o] = p
      BY <1>1, <2>1, <2>3, <3>1, Zenon DEF Publish
    <3>4. lost'[o] = k
      BY <1>1, <2>1, <2>3, <3>1, <3>3, Zenon DEF Publish
    <3>5. k \in SUBSET Nat
      <4>1. \A i \in DOMAIN q : q[i] \in Nat
        BY <2>2, SeqPlaces, SeqElement, Zenon
      <4>2. IDs(q) \subseteq Nat
        BY <4>1, Zenon DEF IDs
      <4>3. n + 1 \in Nat
        BY <1>2
      <4> QED
        BY <2>2, <3>1, <4>2, <4>3, Zenon
    <3> QED
      BY <2>1, <3>2, <3>3, <3>4, <3>5, Zenon
  <2>4. CASE o \notin subs
    <3>1. chan'[o] = q /\ lost'[o] = l
      BY <2>1, <2>4, Zenon DEF Publish
    <3>2. FeedOK(o, r, q, l, S, n + 1)
      BY <2>1, <2>2, <2>4, FeedIsOwn, Zenon
    <3> QED
      BY <2>1, <2>2, <3>1, <3>2, Zenon
  <2> QED
    BY <2>3, <2>4, Zenon
<1>5. /\ convSession' = convSession /\ subs' = subs /\ closed' = closed /\ obs' = obs
      /\ nextID' = n + 1
  BY <1>1, Zenon DEF Publish
<1>6. chan' \in [Observer -> Seq(Nat)] /\ lost' \in [Observer -> SUBSET Nat]
  <2>1. chan' = [o \in Observer |-> chan'[o]] /\ lost' = [o \in Observer |-> lost'[o]]
    BY Zenon DEF Publish
  <2> QED
    BY <1>4, <2>1, Zenon
<1>7. ConvTypeOK'
  BY <1>2, <1>3, <1>5, <1>6, SMTT(60) DEF ConvInv, ConvTypeOK, HistoryAt
<1>8. HistoryOK'
  BY <1>3, Zenon DEF HistoryOK, HistoryAt
<1> QED
  BY <1>4, <1>5, <1>7, <1>8, Zenon DEF ConvInv

LEMMA ConvStep == ConvInv /\ [ConvNext]_convVars => ConvInv'
<1> SUFFICES ASSUME ConvInv, [ConvNext]_convVars PROVE ConvInv'
  BY Zenon
<1>1. CASE CheckPublish
  BY <1>1, Zenon DEF CheckPublish, hub, ConvInv, ConvTypeOK, HistoryOK
<1>2. CASE Publish
  BY <1>2, PublishStep, Zenon
<1>3. CASE RemoveSession
  <2>1. UNCHANGED <<hub, obs>> /\ convSession' = "removed"
    BY <1>3, Zenon DEF RemoveSession
  <2>2. ConvTypeOK' /\ HistoryOK'
    BY <2>1, Zenon DEF hub, ConvInv, ConvTypeOK, HistoryOK
  <2> QED
    BY <2>1, <2>2, Zenon DEF hub, ConvInv
<1>4. CASE Forget
  <2>1. /\ convSession' = "forgotten" /\ closed' = closed \cup subs
        /\ subs' = {} /\ nextID' = 0 /\ history' = <<>>
        /\ chan' = chan /\ obs' = obs /\ lost' = lost
    BY <1>4, Zenon DEF Forget
  <2>2. ConvTypeOK'
    BY <2>1, SMTT(60) DEF ConvInv, ConvTypeOK
  <2>3. HistoryOK'
    BY <2>1 DEF HistoryOK, Steady
  <2>4. \A o \in Observer : FeedOK(o, obs'[o], chan'[o], lost'[o], subs', nextID')
    <3> SUFFICES ASSUME NEW o \in Observer PROVE FeedOK(o, obs[o], chan[o], lost[o], {}, 0)
      BY <2>1, Zenon
    <3>1. FeedOK(o, obs[o], chan[o], lost[o], subs, nextID)
      BY Zenon DEF ConvInv
    <3> QED
      BY <3>1, FeedIsOwn, Zenon
  <2> QED
    BY <2>1, <2>2, <2>3, <2>4, Zenon DEF ConvInv
<1>5. ASSUME NEW o \in Observer, CheckSubscribe(o) \/ Serve(o) \/ Disconnect(o) PROVE ConvInv'
  BY <1>5, ServeStep, Zenon
<1>6. CASE UNCHANGED convVars
  BY <1>6, Zenon DEF convVars, ConvInv, ConvTypeOK, HistoryOK
<1> QED
  BY <1>1, <1>2, <1>3, <1>4, <1>5, <1>6, Zenon DEF ConvNext

LEMMA FeedReadsOff == ConvInv => FeedHasNoGap
<1> SUFFICES ASSUME ConvInv, NEW o \in Observer
             PROVE  LET seen == IDs(obs[o].got) IN
                    /\ \A i \in 1 .. Len(obs[o].got) - 1 : obs[o].got[i] < obs[o].got[i + 1]
                    /\ obs[o].from > 0 => obs[o].from .. lastID(o) \subseteq seen \cup lost[o]
                    /\ obs[o].pc = "live" /\ o \in subs /\ nextID > 0 => nextID \in seen \cup IDs(chan[o])
  BY Zenon DEF FeedHasNoGap
<1>0. PICK r, q, l, n : r = obs[o] /\ q = chan[o] /\ l = lost[o] /\ n = nextID
  BY Zenon
<1>1. /\ r \in Handler /\ q \in Seq(Nat) /\ l \in SUBSET Nat /\ n \in Nat
      /\ FeedOK(o, r, q, l, subs, n)
  BY <1>0, Zenon DEF ConvInv, ConvTypeOK
<1>2. SeenOK(r, l)
  BY <1>1, Zenon DEF FeedOK
<1>3. \A i \in 1 .. Len(r.got) - 1 : r.got[i] < r.got[i + 1]
  BY <1>2, Zenon DEF SeenOK
<1>4. r.from > 0 => r.from .. LastOf(r) \subseteq IDs(r.got) \cup l
  <2> SUFFICES ASSUME r.from > 0 PROVE r.from .. LastOf(r) \subseteq IDs(r.got) \cup l
    BY Zenon
  <2>1. CASE r.got = <<>>
    <3>1. PICK f \in Nat : f = r.from
      BY <1>1, Zenon DEF Handler
    <3>2. f .. 0 = {}
      BY <3>1
    <3> QED
      BY <2>1, <3>1, <3>2, Zenon DEF LastOf
  <2>2. CASE r.got # <<>>
    BY <1>2, <2>2, Zenon DEF SeenOK, Cursor, LastOf
  <2> QED
    BY <2>1, <2>2, Zenon
<1>5. r.pc = "live" /\ o \in subs /\ n > 0 => n \in IDs(r.got) \cup IDs(q)
  <2> SUFFICES ASSUME r.pc = "live", o \in subs, n > 0 PROVE n \in IDs(r.got) \cup IDs(q)
    BY Zenon
  <2>1. /\ q # <<>> => q[Len(q)] = n
        /\ r.backlog = <<>> /\ ReplayOK(o, r, q, l, subs, n)
    BY <1>1, Zenon DEF FeedOK
  <2>2. CASE q # <<>>
    <3>1. Len(q) \in DOMAIN q
      BY <1>1, <2>2, SeqPlaces, SeqNothing, SMTT(60)
    <3> QED
      BY <2>1, <2>2, <3>1, Zenon DEF IDs
  <2>3. CASE q = <<>>
    <3>1. PICK c \in Int : c = Cursor(r)
      BY <1>1, CursorType, Zenon
    <3>2. Ahead(r) = c
      <4>1. Len(r.backlog) = 0
        BY <2>1, SMTT(60)
      <4> QED
        BY <3>1, <4>1, SMTT(60) DEF Ahead
    <3>3. c = n
      BY <1>1, <2>1, <2>3, <3>2, SMTT(60) DEF ReplayOK
    <3>4. r.got # <<>>
      BY <1>1, <2>1, <3>1, <3>3, SMTT(60) DEF ReplayOK, Cursor
    <3>5. r.got[Len(r.got)] = n
      BY <3>1, <3>3, <3>4, Zenon DEF Cursor
    <3>6. r.got \in Seq(Nat)
      BY <1>1, Zenon DEF Handler
    <3>7. Len(r.got) \in DOMAIN r.got
      BY <3>4, <3>6, SeqPlaces, SeqNothing, SMTT(60)
    <3> QED
      BY <3>5, <3>7, Zenon DEF IDs
  <2> QED
    BY <2>2, <2>3, Zenon
<1>6. lastID(o) = LastOf(r)
  BY <1>0, Zenon DEF lastID, LastOf
<1> QED
  BY <1>0, <1>3, <1>4, <1>5, <1>6, Zenon

\* For any number of observers and messages, and any length of the history and of
\* the channels: an observer sees the messages in order, each once, from the first
\* of the history it was given, misses only what an overflow took, and never the
\* newest of a stream it is subscribed to.
THEOREM FeedIsComplete == ConvSpec => []FeedHasNoGap
<1>1. ConvInit => ConvInv
  BY ConvInitOK, Zenon
<1>2. ConvInv /\ [ConvNext]_convVars => ConvInv'
  BY ConvStep, Zenon
<1>3. ConvInv => FeedHasNoGap
  BY FeedReadsOff, Zenon
<1> QED
  BY <1>1, <1>2, <1>3, PTL DEF ConvSpec
=============================================================================
