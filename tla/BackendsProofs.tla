--------------------------- MODULE BackendsProofs ---------------------------
(***************************************************************************)
(* Proofs about the backends: for any number of sandboxes and snapshots    *)
(* and any number of refused commands, crashes and damaged tarballs.       *)
(*                                                                         *)
(* RuntimeInv says what exists of a sandbox at every point of Create, Kill *)
(* and the error paths, and what the removals that are left still cover;   *)
(* SnapshotInv ties the table of snapshots, its file, the tarballs and the *)
(* restores under way to each other.                                       *)
(***************************************************************************)
EXTENDS Backends, TLAPS

-----------------------------------------------------------------------------
(* What exists of a sandbox *)

Early == {"none", "namespace", "policy", "storage"}
Up == {"seed", "files", "verify", "untar", "admit", "live"}
Removing == {"undo", "undoKill", "killing"}
Over == {"failed", "killed", "lost"}
Pcs == Early \cup Up \cup Removing \cup Over \cup {"egress", "egressWait", "run", "wait", "ingress"}

Boxes == [pc: Pcs, spec: Spec4, from: Snap \cup {"none"}, digest: Int, reg: SUBSET {"proxy", "sidecar"}]

\* What enforces the egress mode of a container.
EgressPart(b) ==
  IF b.spec.egress = "cooperative" THEN {"proxy"}
  ELSE IF b.spec.egress = "strict" THEN {"sidecar", "ready"} ELSE {}

\* What Kill has to find in the maps of the backend.
Entered(b) ==
  IF b.spec.egress = "cooperative" THEN {"proxy"}
  ELSE IF b.spec.egress = "strict" THEN {"sidecar"} ELSE {}

\* The most that can exist at a point of Create.
DockerExtent(b) ==
  IF b.pc \in Early THEN {}
  ELSE IF b.pc = "egress" THEN {"volume"}
  ELSE IF b.pc = "egressWait" THEN {"volume", "sidecar"}
  ELSE IF b.pc = "run" THEN {"volume"} \cup EgressPart(b)
  ELSE {"volume", "container"} \cup EgressPart(b)

K8sExtent(b) ==
  IF b.pc \in Early THEN {}
  ELSE IF b.pc = "egress" THEN {"pvc"}
  ELSE IF b.pc = "run" THEN {"pvc", "configmap"}
  ELSE {"pvc", "configmap", "pod", "idepolicy"}

\* What there is to remove.
Removals == {"volume", "proxy", "sidecar", "container", "inspect", "pod", "pvc", "configmap", "idepolicy"}

\* The removals of q are in an order that keeps enforcement up: the container
\* goes before its sidecar, and the volume last.
Ordered(q) ==
  \A i, j \in 1..Len(q) : i < j => q[i] # "volume" /\ ~(q[i] = "sidecar" /\ q[j] = "container")

\* The removals of q take all of r.
Covers(q, r) ==
  \A x \in r : \/ \E i \in 1..Len(q) : q[i] = x
               \/ x = "ready" /\ \E i \in 1..Len(q) : q[i] = "sidecar"

Tidy(q, r) == q \in Seq(Removals) /\ Ordered(q) /\ Covers(q, r)

\* A container under strict egress has its sidecar, and the sidecar is ready.
Guarded(b, r) ==
  "container" \in r /\ b.spec.egress = "strict" => {"sidecar", "ready"} \subseteq r

\* What exists of a sandbox whose removals were all granted.
ExtentOK(b, r, q) ==
  /\ b.pc \in Removing => Tidy(q, r)
  /\ b.pc \notin Removing => q = <<>>
  /\ b.pc \in {"failed", "killed"} => r = {}
  /\ b.pc \notin Removing \cup Over => r \subseteq IF K8s THEN K8sExtent(b) ELSE DockerExtent(b)
  /\ Guarded(b, r)

\* The container backend: strict egress is up before the container starts, and
\* what Kill must find is entered.
DockerOK(b, r) ==
  ~K8s =>
    /\ b.pc \notin {"namespace", "policy", "ingress"}
    /\ b.pc = "egress" => b.spec.egress # "none"
    /\ b.pc = "egressWait" => b.spec.egress = "strict" /\ "sidecar" \in r
    /\ b.spec.egress = "strict" /\ b.pc \in {"run", "wait"} \cup Up => {"sidecar", "ready"} \subseteq r
    /\ b.pc \in Up => b.reg = Entered(b)

\* The Kubernetes backend: the namespace, and then the policy, come first.
K8sOK(b, r) ==
  /\ K8s => /\ b.pc # "egressWait"
            /\ b.pc \notin {"none", "namespace"} \cup Removing \cup Over => ns # "none"
            /\ b.pc \notin {"none", "namespace", "policy"} \cup Removing \cup Over => (policyOn => deny)
  /\ "pod" \in r => ns # "none" /\ (policyOn => deny)

SandboxOK(b, r, q) == ExtentOK(b, r, q) /\ DockerOK(b, r) /\ K8sOK(b, r)

BackendTypeOK ==
  /\ box \in [Sandbox -> Boxes]
  /\ DOMAIN res = Sandbox /\ DOMAIN todo = Sandbox
  /\ res = [s \in Sandbox |-> res[s]] /\ todo = [s \in Sandbox |-> todo[s]]
  /\ policyOn \in BOOLEAN /\ deny \in BOOLEAN

RuntimeInv ==
  /\ BackendTypeOK
  /\ \A s \in Sandbox \ spilled : SandboxOK(box[s], res[s], todo[s])

-----------------------------------------------------------------------------
(* Snapshots *)

Contents == Int \ {NoRef}

\* What a capture c, its tarball t, its reference d and its entry e in the file
\* have to do with each other.
CaptureIs(c, t, d, e) ==
  /\ c.pc # "none" => c.of \in Sandbox
  /\ c.pc \in {"none", "tar", "register", "failed", "lost"} => d = NoRef
  /\ c.pc \in {"save", "answered"} => d \in Contents
  /\ c.pc = "save" => e = NoRef
  /\ c.pc # "save" => e = d
  /\ c.pc = "register" => t \in Contents
  /\ d # NoRef => t \in {d, Rotten}

\* The tarball of a capture that came so far is not written again.
Settled == {"save", "answered", "failed", "lost"}

\* A restore that was begun: its tarball is settled, and what the digest was
\* compared with is what is unpacked.
RestoreOK(s) ==
  LET b == box[s] IN
  /\ b.pc \in {"verify", "untar"} => b.from # "none"
  /\ b.from # "none" =>
      /\ b.digest \in Contents
      /\ cap[b.from].pc \in Settled
      /\ tarball[b.from] \in {b.digest, Rotten}
      /\ b.pc = "untar" /\ s \notin late => tarball[b.from] = b.digest
      /\ b.pc = "admit" /\ s \notin late => ws[s] = b.digest

Captures == [pc: {"none", "tar", "register"} \cup Settled, of: Sandbox \cup {"none"}]

SnapTypeOK ==
  /\ cap \in [Snap -> Captures]
  /\ DOMAIN tarball = Snap /\ tarball = [n \in Snap |-> tarball[n]]
  /\ table \in [Snap -> Int] /\ file \in [Snap -> Int]
  /\ ws \in [Sandbox -> Contents] /\ writes \in Nat

SnapshotInv ==
  /\ SnapTypeOK
  /\ \A n \in Snap : CaptureIs(cap[n], tarball[n], table[n], file[n])
  /\ \A m, n \in Snap : cap[m].pc = "save" /\ cap[n].pc = "save" => m = n
  /\ \A s \in Sandbox : RestoreOK(s)

-----------------------------------------------------------------------------
(* Lists of removals *)

\* A list in the right order covers what it names.
LEMMA Tidy1 ==
  ASSUME NEW q \in Seq(Removals), Len(q) = 1, NEW r,
         r \subseteq {q[1]} \cup (IF "sidecar" \in {q[1]} THEN {"ready"} ELSE {})
  PROVE  Tidy(q, r)
<1>1. 1 \in 1..Len(q) /\ \A i \in 1..Len(q) : i \in {1}
  OBVIOUS
<1>2. Ordered(q)
  BY <1>1 DEF Ordered
<1>3. Covers(q, r)
  BY <1>1, Zenon DEF Covers
<1> QED
  BY <1>2, <1>3, Zenon DEF Tidy

\* The same for two removals.
LEMMA Tidy2 ==
  ASSUME NEW q \in Seq(Removals), Len(q) = 2, NEW r,
         r \subseteq {q[1], q[2]} \cup (IF "sidecar" \in {q[1], q[2]} THEN {"ready"} ELSE {}),
         q[1] # "volume",
         ~(q[1] = "sidecar" /\ q[2] = "container")
  PROVE  Tidy(q, r)
<1>1. 1 \in 1..Len(q) /\ 2 \in 1..Len(q) /\ \A i \in 1..Len(q) : i \in {1, 2}
  OBVIOUS
<1>2. Ordered(q)
  BY <1>1 DEF Ordered
<1>3. Covers(q, r)
  BY <1>1, Zenon DEF Covers
<1> QED
  BY <1>2, <1>3, Zenon DEF Tidy

\* The same for three removals.
LEMMA Tidy3 ==
  ASSUME NEW q \in Seq(Removals), Len(q) = 3, NEW r,
         r \subseteq {q[1], q[2], q[3]} \cup (IF "sidecar" \in {q[1], q[2], q[3]} THEN {"ready"} ELSE {}),
         q[1] # "volume",
         q[2] # "volume",
         ~(q[1] = "sidecar" /\ q[2] = "container"),
         ~(q[1] = "sidecar" /\ q[3] = "container"),
         ~(q[2] = "sidecar" /\ q[3] = "container")
  PROVE  Tidy(q, r)
<1>1. 1 \in 1..Len(q) /\ 2 \in 1..Len(q) /\ 3 \in 1..Len(q) /\ \A i \in 1..Len(q) : i \in {1, 2, 3}
  OBVIOUS
<1>2. Ordered(q)
  BY <1>1 DEF Ordered
<1>3. Covers(q, r)
  BY <1>1, Zenon DEF Covers
<1> QED
  BY <1>2, <1>3, Zenon DEF Tidy

\* The same for four removals.
LEMMA Tidy4 ==
  ASSUME NEW q \in Seq(Removals), Len(q) = 4, NEW r,
         r \subseteq {q[1], q[2], q[3], q[4]} \cup (IF "sidecar" \in {q[1], q[2], q[3], q[4]} THEN {"ready"} ELSE {}),
         q[1] # "volume",
         q[2] # "volume",
         q[3] # "volume",
         ~(q[1] = "sidecar" /\ q[2] = "container"),
         ~(q[1] = "sidecar" /\ q[3] = "container"),
         ~(q[1] = "sidecar" /\ q[4] = "container"),
         ~(q[2] = "sidecar" /\ q[3] = "container"),
         ~(q[2] = "sidecar" /\ q[4] = "container"),
         ~(q[3] = "sidecar" /\ q[4] = "container")
  PROVE  Tidy(q, r)
<1>1. 1 \in 1..Len(q) /\ 2 \in 1..Len(q) /\ 3 \in 1..Len(q) /\ 4 \in 1..Len(q) /\ \A i \in 1..Len(q) : i \in {1, 2, 3, 4}
  OBVIOUS
<1>2. Ordered(q)
  BY <1>1 DEF Ordered
<1>3. Covers(q, r)
  BY <1>1, Zenon DEF Covers
<1> QED
  BY <1>2, <1>3, Zenon DEF Tidy

\* Two lists one after the other.
LEMMA Joined ==
  ASSUME NEW a \in Seq(Removals), NEW b \in Seq(Removals)
  PROVE  /\ a \o b \in Seq(Removals) /\ Len(a \o b) = Len(a) + Len(b)
         /\ \A i \in 1..Len(a) : (a \o b)[i] = a[i]
         /\ \A i \in 1..Len(b) : (a \o b)[Len(a) + i] = b[i]
OBVIOUS

\* A list with one more removal.
LEMMA Longer ==
  ASSUME NEW a \in Seq(Removals), NEW x \in Removals
  PROVE  /\ Append(a, x) \in Seq(Removals) /\ Len(Append(a, x)) = Len(a) + 1
         /\ Append(a, x)[Len(a) + 1] = x
         /\ \A i \in 1..Len(a) : Append(a, x)[i] = a[i]
OBVIOUS

\* The removals after the container did not start.
LEMMA UndoTidy ==
  ASSUME NEW s, NEW r,
         box[s].spec.egress \in {"none", "cooperative", "strict"},
         r \subseteq {"volume"} \cup EgressPart(box[s])
  PROVE  Tidy(Append(EgressUndo(s), "volume"), r)
<1>1. EgressUndo(s) \in Seq(Removals) /\ "volume" \in Removals
  <2>1. <<>> \in Seq(Removals) /\ <<"proxy">> \in Seq(Removals) /\ <<"sidecar">> \in Seq(Removals)
    BY DEF Removals
  <2> QED
    BY <2>1, Zenon DEF EgressUndo, Removals
<1>2. PICK q : q = Append(EgressUndo(s), "volume")
  BY Zenon
<1>3. /\ q \in Seq(Removals) /\ Len(q) = Len(EgressUndo(s)) + 1 /\ q[Len(EgressUndo(s)) + 1] = "volume"
      /\ \A i \in 1..Len(EgressUndo(s)) : q[i] = EgressUndo(s)[i]
  BY <1>1, <1>2, Longer DEF Removals
<1>4. Tidy(q, r)
  <2>1. CASE box[s].spec.egress = "none"
    <3>1. Len(q) = 1 /\ q[1] = "volume"
      BY <1>3, <2>1 DEF EgressUndo
    <3> QED
      BY <1>3, <2>1, <3>1, Tidy1, Zenon DEF EgressPart
  <2>2. CASE box[s].spec.egress = "cooperative"
    <3>1. Len(q) = 2 /\ q[1] = "proxy" /\ q[2] = "volume"
      BY <1>3, <2>2 DEF EgressUndo
    <3> QED
      BY <1>3, <2>2, <3>1, Tidy2, ZenonT(60) DEF EgressPart
  <2>3. CASE box[s].spec.egress = "strict"
    <3>1. Len(q) = 2 /\ q[1] = "sidecar" /\ q[2] = "volume"
      BY <1>3, <2>3 DEF EgressUndo
    <3> QED
      BY <1>3, <2>3, <3>1, Tidy2, Zenon DEF EgressPart
  <2> QED
    BY <2>1, <2>2, <2>3, Zenon
<1> QED
  BY <1>2, <1>4, Zenon

\* The removals after the container did not come up.
LEMMA UndoRunTidy ==
  ASSUME NEW s, NEW r,
         box[s].spec.egress \in {"none", "cooperative", "strict"},
         r \subseteq {"volume", "container"} \cup EgressPart(box[s])
  PROVE  Tidy(<<"container">> \o Append(EgressUndo(s), "volume"), r)
<1>1. EgressUndo(s) \in Seq(Removals) /\ "volume" \in Removals
  <2>1. <<>> \in Seq(Removals) /\ <<"proxy">> \in Seq(Removals) /\ <<"sidecar">> \in Seq(Removals)
    BY DEF Removals
  <2> QED
    BY <2>1, Zenon DEF EgressUndo, Removals
<1>2. <<"container">> \in Seq(Removals)
  BY DEF Removals
<1>3. PICK p : p = Append(EgressUndo(s), "volume")
  BY Zenon
<1>4. /\ p \in Seq(Removals) /\ Len(p) = Len(EgressUndo(s)) + 1 /\ p[Len(EgressUndo(s)) + 1] = "volume"
      /\ \A i \in 1..Len(EgressUndo(s)) : p[i] = EgressUndo(s)[i]
  BY <1>1, <1>3, Longer DEF Removals
<1>5. PICK q : q = <<"container">> \o p
  BY Zenon
<1>6. /\ q \in Seq(Removals) /\ Len(q) = 1 + Len(p) /\ q[1] = "container"
      /\ \A i \in 1..Len(p) : q[1 + i] = p[i]
  BY <1>2, <1>4, <1>5, Joined
<1>7. Tidy(q, r)
  <2>1. CASE box[s].spec.egress = "none"
    <3>1. Len(q) = 2 /\ q[1] = "container" /\ q[2] = "volume"
      BY <1>4, <1>6, <2>1 DEF EgressUndo
    <3> QED
      BY <1>6, <2>1, <3>1, Tidy2, Zenon DEF EgressPart
  <2>2. CASE box[s].spec.egress = "cooperative"
    <3>1. Len(q) = 3 /\ q[1] = "container" /\ q[2] = "proxy" /\ q[3] = "volume"
      BY <1>4, <1>6, <2>2 DEF EgressUndo
    <3> QED
      BY <1>6, <2>2, <3>1, Tidy3, ZenonT(60) DEF EgressPart
  <2>3. CASE box[s].spec.egress = "strict"
    <3>1. Len(q) = 3 /\ q[1] = "container" /\ q[2] = "sidecar" /\ q[3] = "volume"
      BY <1>4, <1>6, <2>3 DEF EgressUndo
    <3> QED
      BY <1>6, <2>3, <3>1, Tidy3, Zenon DEF EgressPart
  <2> QED
    BY <2>1, <2>2, <2>3, Zenon
<1> QED
  BY <1>3, <1>5, <1>7, Zenon

\* The most that exists of a sandbox that is up.
MostOf(s) ==
  IF K8s THEN {"pvc", "configmap", "pod", "idepolicy"} ELSE {"volume", "container"} \cup EgressPart(box[s])

\* The removals of Kill, for a sandbox whose proxy or sidecar is entered.
LEMMA KillTidy ==
  ASSUME NEW s, NEW r,
         box[s].spec.egress \in {"none", "cooperative", "strict"},
         ~K8s => box[s].reg = Entered(box[s]),
         r \subseteq MostOf(s)
  PROVE  Tidy(KillList(s), r)
<1>1. CASE K8s
  <2>1. PICK q : q = KillList(s)
    BY Zenon
  <2>2. q \in Seq(Removals) /\ Len(q) = 4 /\ q[1] = "pod" /\ q[2] = "pvc" /\ q[3] = "configmap" /\ q[4] = "idepolicy"
    BY <1>1, <2>1 DEF KillList, K8sKill, Removals
  <2>3. r \subseteq {"pod", "pvc", "configmap", "idepolicy"}
    BY <1>1, Zenon DEF MostOf
  <2> QED
    BY <2>1, <2>2, <2>3, Tidy4, Zenon
<1>2. CASE ~K8s
  <2>1. PICK a : a = IF "proxy" \in box[s].reg THEN <<"proxy">> ELSE <<>>
    BY Zenon
  <2>2. PICK b : b = IF "sidecar" \in box[s].reg THEN <<"sidecar">> ELSE <<>>
    BY Zenon
  <2>3. PICK c : c = a \o <<"inspect", "container">>
    BY Zenon
  <2>4. PICK d : d = c \o b
    BY Zenon
  <2>5. PICK q : q = d \o <<"volume">>
    BY Zenon
  <2>6. KillList(s) = q
    BY <1>2, <2>1, <2>2, <2>3, <2>4, <2>5, Zenon DEF KillList, DockerKill
  <2>7. <<"inspect", "container">> \in Seq(Removals) /\ <<"volume">> \in Seq(Removals)
    BY DEF Removals
  <2>8. /\ a \in Seq(Removals) /\ b \in Seq(Removals)
        /\ Len(a) = (IF "proxy" \in box[s].reg THEN 1 ELSE 0) /\ ("proxy" \in box[s].reg => a[1] = "proxy")
        /\ Len(b) = (IF "sidecar" \in box[s].reg THEN 1 ELSE 0) /\ ("sidecar" \in box[s].reg => b[1] = "sidecar")
    <3>1. <<>> \in Seq(Removals) /\ <<"proxy">> \in Seq(Removals) /\ <<"sidecar">> \in Seq(Removals)
      BY SMTT(60) DEF Removals
    <3> QED
      BY <2>1, <2>2, <3>1, Zenon
  <2>9. /\ c \in Seq(Removals) /\ Len(c) = Len(a) + 2
        /\ c[Len(a) + 1] = "inspect" /\ c[Len(a) + 2] = "container"
        /\ \A i \in 1..Len(a) : c[i] = a[i]
    BY <2>3, <2>7, <2>8, Joined, SMTT(60)
  <2>10. /\ d \in Seq(Removals) /\ Len(d) = Len(c) + Len(b)
         /\ \A i \in 1..Len(c) : d[i] = c[i]
         /\ \A i \in 1..Len(b) : d[Len(c) + i] = b[i]
    <3>1. c \in Seq(Removals) /\ b \in Seq(Removals)
      BY <2>8, <2>9, Zenon
    <3> QED
      BY <2>4, <3>1, Joined, ZenonT(60)
  <2>11. /\ q \in Seq(Removals) /\ Len(q) = Len(d) + 1 /\ q[Len(d) + 1] = "volume"
         /\ \A i \in 1..Len(d) : q[i] = d[i]
    BY <2>5, <2>7, <2>10, Joined
  <2>12. Tidy(q, r)
    <3>1. CASE box[s].spec.egress = "none"
      <4>1. Len(a) = 0 /\ Len(b) = 0
        BY <1>2, <2>8, <3>1, Zenon DEF Entered
      <4>2. Len(q) = 3 /\ q[1] = "inspect" /\ q[2] = "container" /\ q[3] = "volume"
        BY <2>9, <2>10, <2>11, <4>1
      <4> QED
        BY <1>2, <2>11, <3>1, <4>2, Tidy3, ZenonT(60) DEF EgressPart, MostOf
    <3>2. CASE box[s].spec.egress = "cooperative"
      <4>1. Len(a) = 1 /\ Len(b) = 0 /\ a[1] = "proxy"
        BY <1>2, <2>8, <3>2, Zenon DEF Entered
      <4>2. Len(q) = 4 /\ q[1] = "proxy" /\ q[2] = "inspect" /\ q[3] = "container" /\ q[4] = "volume"
        BY <2>9, <2>10, <2>11, <4>1
      <4> QED
        BY <1>2, <2>11, <3>2, <4>2, Tidy4, ZenonT(60) DEF EgressPart, MostOf
    <3>3. CASE box[s].spec.egress = "strict"
      <4>1. Len(a) = 0 /\ Len(b) = 1 /\ b[1] = "sidecar"
        BY <1>2, <2>8, <3>3, Zenon DEF Entered
      <4>2. Len(q) = 4 /\ q[1] = "inspect" /\ q[2] = "container" /\ q[3] = "sidecar" /\ q[4] = "volume"
        BY <2>9, <2>10, <2>11, <4>1
      <4> QED
        BY <1>2, <2>11, <3>3, <4>2, Tidy4, ZenonT(60) DEF EgressPart, MostOf
    <3> QED
      BY <3>1, <3>2, <3>3, Zenon
  <2> QED
    BY <2>6, <2>12, Zenon
<1> QED
  BY <1>1, <1>2, Zenon

\* A removal that was granted: the list that is left covers what is left, and a
\* container keeps what enforces its egress.
LEMMA RemovalTidy ==
  ASSUME NEW s \in Sandbox, NEW b, NEW r, NEW q, NEW c, NEW g, c = Head(q), q # <<>>, Tidy(q, r), Guarded(b, r),
         g = IF c = "sidecar" THEN {"sidecar", "ready"}
             ELSE IF c = "volume" /\ "container" \in r THEN {} ELSE {c}
  PROVE  Tidy(Tail(q), r \ g) /\ Guarded(b, r \ g)
<1>1. /\ q \in Seq(Removals) /\ Len(q) > 0 /\ c = q[1]
      /\ \A i, j \in 1..Len(q) : i < j => q[i] # "volume" /\ ~(q[i] = "sidecar" /\ q[j] = "container")
      /\ \A x \in r : \/ \E i \in 1..Len(q) : q[i] = x
                      \/ x = "ready" /\ \E i \in 1..Len(q) : q[i] = "sidecar"
  BY DEF Tidy, Ordered, Covers
<1>2. PICK p : p = Tail(q)
  BY Zenon
<1>3. /\ p \in Seq(Removals) /\ Len(p) = Len(q) - 1
      /\ \A i \in 1..Len(p) : p[i] = q[i + 1]
  BY <1>1, <1>2, SMTT(60)
<1>4. \A i \in 2..Len(q) : i - 1 \in 1..Len(p) /\ p[i - 1] = q[i]
  BY <1>1, <1>3
<1>5. Ordered(p)
  BY <1>1, <1>3, SMTT(60) DEF Ordered
<1>6. c = "volume" => "container" \notin r
  <2>1. c = "volume" => Len(q) = 1
    <3>1. Len(q) > 1 => 1 \in 1..Len(q) /\ 2 \in 1..Len(q)
      BY <1>1
    <3>2. c = "volume" => ~(Len(q) > 1)
      BY <1>1, <3>1
    <3> QED
      BY <1>1, <3>2, SMTT(60)
  <2> QED
    BY <1>1, <2>1
<1>7. c = "sidecar" => "container" \notin r
  BY <1>1
<1>8. Covers(p, r \ g)
  <2>1. SUFFICES ASSUME NEW x \in r, x \notin g
                 PROVE  \/ \E i \in 1..Len(p) : p[i] = x
                        \/ x = "ready" /\ \E i \in 1..Len(p) : p[i] = "sidecar"
    BY Zenon DEF Covers
  <2>2. x # c /\ (c = "sidecar" => x # "ready")
    BY <1>6, <2>1, Zenon
  <2>3. CASE \E i \in 1..Len(q) : q[i] = x
    <3>1. PICK i \in 1..Len(q) : q[i] = x
      BY <2>3, Zenon
    <3>2. i \in 2..Len(q)
      BY <1>1, <2>2, <3>1
    <3> QED
      BY <1>4, <3>1, <3>2, Zenon
  <2>4. CASE x = "ready" /\ \E i \in 1..Len(q) : q[i] = "sidecar"
    <3>1. PICK i \in 1..Len(q) : q[i] = "sidecar"
      BY <2>4, Zenon
    <3>2. i \in 2..Len(q)
      BY <1>1, <2>2, <2>4, <3>1
    <3> QED
      BY <1>4, <2>4, <3>1, <3>2, Zenon
  <2> QED
    BY <1>1, <2>3, <2>4, Zenon
<1>9. Guarded(b, r \ g)
  <2>1. CASE "container" \in r
    <3>1. c # "sidecar" /\ c # "ready"
      BY <1>1, <1>7, <2>1 DEF Removals
    <3> QED
      BY <2>1, <3>1, Zenon DEF Guarded
  <2>2. CASE "container" \notin r
    BY <2>2, Zenon DEF Guarded
  <2> QED
    BY <2>1, <2>2, Zenon
<1> QED
  BY <1>2, <1>3, <1>5, <1>8, <1>9, Zenon DEF Tidy

-----------------------------------------------------------------------------
(* Steps of one sandbox *)

\* What is shared by the sandboxes only gets stronger: the namespace and the
\* policy stay.
SharedKept ==
  /\ kind' = kind /\ policyOn' = policyOn /\ deny' \in BOOLEAN
  /\ ns # "none" => ns' # "none"
  /\ deny => deny'
  /\ spilled \subseteq spilled'

\* A sandbox that does not move stays right.
LEMMA StaysOK ==
  ASSUME NEW b, NEW r, NEW q, SandboxOK(b, r, q), SharedKept
  PROVE  SandboxOK(b, r, q)'
<1>1. kind' = kind /\ policyOn' = policyOn /\ (ns # "none" => ns' # "none") /\ (deny => deny')
  BY Zenon DEF SharedKept
<1>2. ExtentOK(b, r, q)'
  BY <1>1, Zenon DEF SandboxOK, ExtentOK, Tidy, Ordered, Covers, Guarded, K8sExtent, DockerExtent, EgressPart, K8s
<1>3. DockerOK(b, r)'
  BY <1>1, Zenon DEF SandboxOK, DockerOK, Entered, K8s
<1>4. K8sOK(b, r)'
  BY <1>1, Zenon DEF SandboxOK, K8sOK, K8s
<1> QED
  BY <1>2, <1>3, <1>4, Zenon DEF SandboxOK

\* s comes to b, with r existing and q left to remove.
Moves(s, b, r, q) ==
  /\ b \in Boxes /\ box' = [box EXCEPT ![s] = b]
  /\ res' = [res EXCEPT ![s] = r]
  /\ todo' = [todo EXCEPT ![s] = q]

\* A step of one sandbox.
LEMMA SandboxStep ==
  ASSUME RuntimeInv, SharedKept, NEW s \in Sandbox, NEW b, NEW r, NEW q,
         Moves(s, b, r, q), s \notin spilled' => SandboxOK(b, r, q)'
  PROVE  RuntimeInv'
<1>0. /\ b \in Boxes /\ box' = [box EXCEPT ![s] = b] /\ res' = [res EXCEPT ![s] = r]
      /\ todo' = [todo EXCEPT ![s] = q]
  BY Zenon DEF Moves
<1>1. /\ box \in [Sandbox -> Boxes] /\ DOMAIN res = Sandbox /\ DOMAIN todo = Sandbox
      /\ res = [x \in Sandbox |-> res[x]] /\ todo = [x \in Sandbox |-> todo[x]] /\ policyOn \in BOOLEAN
  BY Zenon DEF RuntimeInv, BackendTypeOK
<1>2. box' \in [Sandbox -> Boxes]
  BY <1>0, <1>1, Zenon
<1>3. DOMAIN res' = Sandbox /\ DOMAIN todo' = Sandbox /\ res' = [x \in Sandbox |-> res'[x]] /\ todo' = [x \in Sandbox |-> todo'[x]]
  BY <1>0, <1>1, Zenon
<1>4. BackendTypeOK'
  BY <1>1, <1>2, <1>3, Zenon DEF BackendTypeOK, SharedKept
<1>5. ASSUME NEW x \in Sandbox \ spilled'
      PROVE  SandboxOK(box[x], res[x], todo[x])'
  <2>1. CASE x = s
    <3>1. box'[x] = b /\ res'[x] = r /\ todo'[x] = q
      BY <1>0, <1>1, <2>1, Zenon
    <3> QED
      BY <1>5, <2>1, <3>1, Zenon
  <2>2. CASE x # s
    <3>1. box'[x] = box[x] /\ res'[x] = res[x] /\ todo'[x] = todo[x]
      BY <1>0, <1>1, <2>2, Zenon
    <3>2. SandboxOK(box[x], res[x], todo[x])
      BY <1>5, Zenon DEF RuntimeInv, SharedKept
    <3>3. PICK bb, rr, qq : bb = box[x] /\ rr = res[x] /\ qq = todo[x]
      BY Zenon
    <3>4. SandboxOK(bb, rr, qq)'
      BY <3>2, <3>3, StaysOK, Zenon
    <3> QED
      BY <3>1, <3>3, <3>4, Zenon
  <2> QED
    BY <2>1, <2>2, Zenon
<1> QED
  BY <1>4, <1>5, Zenon DEF RuntimeInv

\* Nothing moves.
LEMMA NoSandboxStep ==
  ASSUME RuntimeInv, SharedKept, UNCHANGED <<box, res, todo>>
  PROVE  RuntimeInv'
<1>1. BackendTypeOK'
  BY Zenon DEF RuntimeInv, BackendTypeOK, SharedKept
<1>2. ASSUME NEW x \in Sandbox \ spilled'
      PROVE  SandboxOK(box[x], res[x], todo[x])'
  <2>1. SandboxOK(box[x], res[x], todo[x])
    BY <1>2, Zenon DEF RuntimeInv, SharedKept
  <2>2. PICK bb, rr, qq : bb = box[x] /\ rr = res[x] /\ qq = todo[x]
    BY Zenon
  <2>3. SandboxOK(bb, rr, qq)'
    BY <2>1, <2>2, StaysOK, Zenon
  <2> QED
    BY <2>2, <2>3, Zenon
<1> QED
  BY <1>1, <1>2, Zenon DEF RuntimeInv

\* The request of s goes on to pc, and its entries in the maps may go.
LEMMA NewBox ==
  ASSUME RuntimeInv, NEW s \in Sandbox, NEW p \in Pcs
  PROVE  LET b == [box[s] EXCEPT !.pc = p]
         IN /\ b \in Boxes /\ box[s] \in Boxes /\ box[s].pc \in Pcs
            /\ b.pc = p /\ b.spec = box[s].spec /\ b.reg = box[s].reg
            /\ box[s].spec.egress \in {"none", "cooperative", "strict"}
            /\ [box EXCEPT ![s].pc = p] = [box EXCEPT ![s] = b]
<1>1. box \in [Sandbox -> Boxes] /\ box[s] \in Boxes
  BY Zenon DEF RuntimeInv, BackendTypeOK
<1>2. box[s].spec.egress \in {"none", "cooperative", "strict"} /\ box[s].pc \in Pcs
  BY <1>1, Zenon DEF Boxes, Spec4
<1>3. [box EXCEPT ![s].pc = p] = [box EXCEPT ![s] = [box[s] EXCEPT !.pc = p]]
  BY <1>1, Zenon DEF Boxes
<1>4. [box[s] EXCEPT !.pc = p] \in Boxes
  BY <1>1, Zenon DEF Boxes
<1> QED
  BY <1>1, <1>2, <1>3, <1>4, Zenon DEF Boxes

\* The request of s comes to p with new entries in the maps.
BoxesWith(s, p, e) == [box EXCEPT ![s].pc = p, ![s].reg = e]

\* What such a step leaves of the request.
LEMMA NewEntries ==
  ASSUME RuntimeInv, NEW s \in Sandbox, NEW p \in Pcs, NEW e \in SUBSET {"proxy", "sidecar"}
  PROVE  \E b \in Boxes : /\ b.pc = p /\ b.spec = box[s].spec /\ b.reg = e
                          /\ BoxesWith(s, p, e) = [box EXCEPT ![s] = b]
<1>1. box \in [Sandbox -> Boxes] /\ box[s] \in Boxes
  BY Zenon DEF RuntimeInv, BackendTypeOK
<1>2. BoxesWith(s, p, e) = [box EXCEPT ![s] = [box[s] EXCEPT !.pc = p, !.reg = e]]
  BY <1>1, Zenon DEF Boxes, BoxesWith
<1>3. [box[s] EXCEPT !.pc = p, !.reg = e] \in Boxes
  BY <1>1, Zenon DEF Boxes
<1>4. PICK b : b = [box[s] EXCEPT !.pc = p, !.reg = e]
  BY Zenon
<1>5. b.pc = p /\ b.spec = box[s].spec /\ b.reg = e
  BY <1>1, <1>4, Zenon DEF Boxes
<1> QED
  BY <1>2, <1>3, <1>4, <1>5, Zenon

\* res and todo where they stay.
LEMMA SameRes ==
  ASSUME RuntimeInv, NEW s \in Sandbox
  PROVE  res = [res EXCEPT ![s] = res[s]] /\ todo = [todo EXCEPT ![s] = todo[s]]
BY Zenon DEF RuntimeInv, BackendTypeOK

\* A failing command: the removals that its error path runs cover what exists.
LEMMA UndoStep ==
  ASSUME RuntimeInv, SharedKept, NEW s \in Sandbox, NEW q, Fails(s, q), spilled' = spilled,
         s \notin spilled => Tidy(q, res[s])
  PROVE  RuntimeInv'
<1>1. PICK b : b = [box[s] EXCEPT !.pc = "undo"]
  BY Zenon
<1>2. /\ b \in Boxes /\ b.pc = "undo" /\ b.spec = box[s].spec
      /\ [box EXCEPT ![s].pc = "undo"] = [box EXCEPT ![s] = b]
  BY <1>1, NewBox, Zenon DEF Pcs, Removing
<1>3. box' = [box EXCEPT ![s] = b] /\ todo' = [todo EXCEPT ![s] = q] /\ res' = [res EXCEPT ![s] = res[s]]
  BY <1>2, SameRes, Zenon DEF Fails, Goto
<1>4. PICK r : r = res[s]
  BY Zenon
<1>5. ASSUME s \notin spilled PROVE SandboxOK(b, r, q)
  <2>1. SandboxOK(box[s], r, todo[s])
    BY <1>4, <1>5, Zenon DEF RuntimeInv
  <2>2. ExtentOK(b, r, q)
    BY <1>2, <1>4, <1>5, <2>1, Zenon DEF SandboxOK, ExtentOK, Guarded, Removing, Over
  <2>3. DockerOK(b, r)
    BY <1>2, Zenon DEF DockerOK, Up
  <2>4. K8sOK(b, r)
    BY <1>2, <2>1, Zenon DEF SandboxOK, K8sOK, Removing
  <2> QED
    BY <2>2, <2>3, <2>4, Zenon DEF SandboxOK
<1>6. s \notin spilled' => SandboxOK(b, r, q)'
  BY <1>5, StaysOK, Zenon
<1>7. Moves(s, b, r, q)
  BY <1>2, <1>3, <1>4, Zenon DEF Moves
<1> QED
  BY <1>6, <1>7, SandboxStep, Zenon

\* Where Kill may be called.
Killable(s) == box[s].pc \in Up \/ (K8s /\ box[s].pc \in {"wait", "ingress"})

\* Kill, by request or from an error path: what it removes is all there is.
LEMMA KillStep ==
  ASSUME RuntimeInv, SharedKept, NEW s \in Sandbox,
         Killable(s),
         NEW b \in Boxes, b.pc \in {"undoKill", "killing"}, b.spec = box[s].spec, box' = [box EXCEPT ![s] = b],
         todo' = [todo EXCEPT ![s] = KillList(s)], res' = res, spilled' = spilled
  PROVE  RuntimeInv'
<1>1. box[s].spec.egress \in {"none", "cooperative", "strict"}
  BY Zenon DEF Boxes, Spec4
<1>2. b.pc \in {"undoKill", "killing"}
  BY Zenon
<1>3. PICK q : q = KillList(s)
  BY Zenon
<1>4. box' = [box EXCEPT ![s] = b] /\ todo' = [todo EXCEPT ![s] = q] /\ res' = [res EXCEPT ![s] = res[s]]
  BY <1>2, <1>3, SameRes, Zenon
<1>5. PICK r : r = res[s]
  BY Zenon
<1>6. ASSUME s \notin spilled PROVE SandboxOK(b, r, q)
  <2>1. SandboxOK(box[s], r, todo[s])
    BY <1>5, <1>6, Zenon DEF RuntimeInv
  <2>2. r \subseteq MostOf(s)
    BY <2>1, Zenon DEF MostOf, SandboxOK, ExtentOK, K8sExtent, DockerExtent, Killable, Up, Early, Removing, Over
  <2>3. ~K8s => box[s].reg = Entered(box[s])
    BY <2>1, Zenon DEF SandboxOK, DockerOK, Killable
  <2>4. Tidy(q, r)
    BY <1>1, <1>3, <2>2, <2>3, KillTidy, SMTT(60)
  <2>5. ExtentOK(b, r, q)
    BY <1>2, <2>1, <2>4, Zenon DEF SandboxOK, ExtentOK, Guarded, Removing, Over
  <2>6. DockerOK(b, r)
    BY <1>2, Zenon DEF DockerOK, Up
  <2>7. K8sOK(b, r)
    BY <1>2, <2>1, Zenon DEF SandboxOK, K8sOK, Removing
  <2> QED
    BY <2>5, <2>6, <2>7, Zenon DEF SandboxOK
<1>7. s \notin spilled' => SandboxOK(b, r, q)'
  BY <1>6, StaysOK, Zenon
<1>8. Moves(s, b, r, q)
  BY <1>4, <1>5, Zenon DEF Moves
<1> QED
  BY <1>7, <1>8, SandboxStep, Zenon

\* FailsKilling and KillAgain are such a kill.
LEMMA KillAgainStep ==
  ASSUME RuntimeInv, SharedKept, NEW s \in Sandbox, KillAgain(s),
         Killable(s),
         res' = res, spilled' = spilled
  PROVE  RuntimeInv'
<1>1. "undoKill" \in Pcs /\ {} \in SUBSET {"proxy", "sidecar"}
  BY Zenon DEF Pcs, Removing
<1>2. PICK b \in Boxes : b.pc = "undoKill" /\ b.spec = box[s].spec
                         /\ BoxesWith(s, "undoKill", {}) = [box EXCEPT ![s] = b]
  BY <1>1, NewEntries
<1>3. box' = BoxesWith(s, "undoKill", {}) /\ todo' = [todo EXCEPT ![s] = KillList(s)]
  BY Zenon DEF KillAgain, BoxesWith
<1> QED
  BY <1>2, <1>3, KillStep, Zenon

\* Create goes on: pc, and one more thing exists, or none.
LEMMA GoStep ==
  ASSUME RuntimeInv, SharedKept, NEW s \in Sandbox, NEW p \in Pcs, NEW r,
         p \notin Removing \cup Over, box[s].pc \notin Removing \cup Over,
         Goto(s, p), res' = [res EXCEPT ![s] = r], todo' = todo, spilled' = spilled,
         s \notin spilled /\ SandboxOK(box[s], res[s], todo[s]) =>
           \A b \in Boxes : b.pc = p /\ b.spec = box[s].spec /\ b.reg = box[s].reg => SandboxOK(b, r, <<>>)'
  PROVE  RuntimeInv'
<1>1. PICK b : b = [box[s] EXCEPT !.pc = p]
  BY Zenon
<1>2. /\ b \in Boxes /\ b.pc = p /\ b.spec = box[s].spec /\ b.reg = box[s].reg
      /\ [box EXCEPT ![s].pc = p] = [box EXCEPT ![s] = b]
  BY <1>1, NewBox, Zenon
<1>3. box' = [box EXCEPT ![s] = b] /\ todo' = [todo EXCEPT ![s] = todo[s]]
  BY <1>2, SameRes, Zenon DEF Goto
<1>4. PICK q : q = todo[s]
  BY Zenon
<1>5. ASSUME s \notin spilled PROVE SandboxOK(b, r, q)'
  <2>1. SandboxOK(box[s], res[s], todo[s])
    BY <1>5, Zenon DEF RuntimeInv
  <2>2. q = <<>>
    BY <1>4, <2>1, Zenon DEF SandboxOK, ExtentOK
  <2> QED
    BY <1>2, <1>5, <2>1, <2>2, Zenon
<1>6. Moves(s, b, r, q)
  BY <1>2, <1>3, <1>4, Zenon DEF Moves
<1> QED
  BY <1>5, <1>6, SandboxStep, Zenon

\* s may come to p with r existing.
Fits(s, p, r) ==
  \A b \in Boxes : b.pc = p /\ b.spec = box[s].spec /\ b.reg = box[s].reg => SandboxOK(b, r, <<>>)

\* Create goes on and leaves alone what the sandboxes share.
LEMMA PlainStep ==
  ASSUME RuntimeInv, SharedKept, NEW s \in Sandbox, NEW p \in Pcs, NEW r,
         p \notin Removing \cup Over, box[s].pc \notin Removing \cup Over,
         Goto(s, p), res' = [res EXCEPT ![s] = r], todo' = todo, spilled' = spilled,
         s \notin spilled /\ SandboxOK(box[s], res[s], todo[s]) => Fits(s, p, r)
  PROVE  RuntimeInv'
BY GoStep, StaysOK, Zenon DEF Fits

\* A command that adds x.
LEMMA AddStep ==
  ASSUME RuntimeInv, SharedKept, NEW s \in Sandbox, NEW p \in Pcs, NEW x,
         p \notin Removing \cup Over, box[s].pc \notin Removing \cup Over,
         Adds(s, x, p), spilled' = spilled,
         s \notin spilled /\ SandboxOK(box[s], res[s], todo[s]) => Fits(s, p, res[s] \cup {x})
  PROVE  RuntimeInv'
BY PlainStep, Zenon DEF Adds

\* A step that only goes on.
LEMMA PassStep ==
  ASSUME RuntimeInv, SharedKept, NEW s \in Sandbox, NEW p \in Pcs,
         p \notin Removing \cup Over, box[s].pc \notin Removing \cup Over,
         Goto(s, p), UNCHANGED <<res, todo, spilled>>,
         s \notin spilled /\ SandboxOK(box[s], res[s], todo[s]) => Fits(s, p, res[s])
  PROVE  RuntimeInv'
BY PlainStep, SameRes, Zenon

\* Nothing to remove where nothing exists.
LEMMA TidyNone == Tidy(<<>>, {})
BY DEF Tidy, Ordered, Covers

\* A volume, or nothing.
LEMMA VolumeTidy ==
  ASSUME NEW r, r \subseteq {"volume"}
  PROVE  Tidy(<<"volume">>, r)
<1>1. PICK q : q = <<"volume">>
  BY Zenon
<1>2. q \in Seq(Removals) /\ Len(q) = 1 /\ q[1] = "volume"
  BY <1>1 DEF Removals
<1> QED
  BY <1>1, <1>2, Tidy1, Zenon

\* What the sandboxes share is left alone.
LEMMA SharedStays ==
  ASSUME RuntimeInv, UNCHANGED cluster, spilled \subseteq spilled'
  PROVE  SharedKept
BY Zenon DEF RuntimeInv, BackendTypeOK, SharedKept, cluster

-----------------------------------------------------------------------------
(* Create of the container backend *)

\* The workspace volume.
LEMMA CreateVolumeStep ==
  ASSUME RuntimeInv, NEW s \in Sandbox, CreateVolume(s)
  PROVE  RuntimeInv'
<1>1. ~K8s /\ box[s].pc = "storage" /\ spilled' = spilled /\ SharedKept
  BY SharedStays, Zenon DEF CreateVolume, At
<1>2. PICK p \in Pcs : p = IF box[s].spec.egress = "none" THEN "run" ELSE "egress"
  BY Zenon DEF Pcs
<1>3. ASSUME s \notin spilled, SandboxOK(box[s], res[s], todo[s])
      PROVE  res[s] = {} /\ Fits(s, p, res[s] \cup {"volume"})
  <2>1. res[s] = {}
    BY <1>1, <1>3, Zenon DEF SandboxOK, ExtentOK, DockerExtent, Early, Removing, Over
  <2> QED
    BY <1>1, <1>2, <2>1, SMTT(60) DEF Fits, Boxes, Spec4, SandboxOK, ExtentOK, DockerOK, K8sOK, Guarded, DockerExtent, K8sExtent, EgressPart, Early, Up, Removing, Over
<1>4. CASE Adds(s, "volume", p)
  BY <1>1, <1>2, <1>3, <1>4, AddStep, Zenon DEF Removing, Over
<1>5. CASE Fails(s, <<>>)
  BY <1>1, <1>3, <1>5, UndoStep, TidyNone, Zenon DEF RuntimeInv
<1> QED
  BY <1>2, <1>4, <1>5, Zenon DEF CreateVolume

\* The proxy of cooperative egress.
LEMMA StartHostProxyStep ==
  ASSUME RuntimeInv, NEW s \in Sandbox, StartHostProxy(s)
  PROVE  RuntimeInv'
<1>1. ~K8s /\ box[s].pc = "egress" /\ box[s].spec.egress = "cooperative" /\ spilled' = spilled /\ SharedKept
  BY SharedStays, Zenon DEF StartHostProxy, At
<1>2. "run" \in Pcs /\ "run" \notin Removing \cup Over
  BY Zenon DEF Pcs, Removing, Over
<1>3. ASSUME s \notin spilled, SandboxOK(box[s], res[s], todo[s])
      PROVE  res[s] \subseteq {"volume"} /\ Fits(s, "run", res[s] \cup {"proxy"})
  <2>1. res[s] \subseteq {"volume"}
    BY <1>1, <1>3, Zenon DEF SandboxOK, ExtentOK, DockerExtent, Early, Removing, Over
  <2> QED
    BY <1>1, <2>1, ZenonT(60) DEF Fits, SandboxOK, ExtentOK, DockerOK, K8sOK, Guarded, DockerExtent, K8sExtent, EgressPart, Early, Up, Removing, Over
<1>4. CASE Adds(s, "proxy", "run")
  BY <1>1, <1>2, <1>3, <1>4, AddStep, Zenon DEF Removing, Over
<1>5. CASE Fails(s, <<"volume">>)
  BY <1>1, <1>3, <1>5, UndoStep, VolumeTidy, Zenon DEF RuntimeInv
<1> QED
  BY <1>4, <1>5, Zenon DEF StartHostProxy

\* The sidecar of strict egress.
LEMMA StartEgressContainerStep ==
  ASSUME RuntimeInv, NEW s \in Sandbox, StartEgressContainer(s)
  PROVE  RuntimeInv'
<1>1. ~K8s /\ box[s].pc = "egress" /\ box[s].spec.egress = "strict" /\ spilled' = spilled /\ SharedKept
  BY SharedStays, Zenon DEF StartEgressContainer, At
<1>2. "egressWait" \in Pcs /\ "egressWait" \notin Removing \cup Over
  BY Zenon DEF Pcs, Removing, Over
<1>3. ASSUME s \notin spilled, SandboxOK(box[s], res[s], todo[s])
      PROVE  res[s] \subseteq {"volume"} /\ Fits(s, "egressWait", res[s] \cup {"sidecar"})
  <2>1. res[s] \subseteq {"volume"}
    BY <1>1, <1>3, Zenon DEF SandboxOK, ExtentOK, DockerExtent, Early, Removing, Over
  <2> QED
    BY <1>1, <2>1, ZenonT(60) DEF Fits, SandboxOK, ExtentOK, DockerOK, K8sOK, Guarded, DockerExtent, K8sExtent, EgressPart, Early, Up, Removing, Over
<1>4. CASE Adds(s, "sidecar", "egressWait")
  BY <1>1, <1>2, <1>3, <1>4, AddStep, Zenon DEF Removing, Over
<1>5. CASE Fails(s, <<"volume">>)
  BY <1>1, <1>3, <1>5, UndoStep, VolumeTidy, Zenon DEF RuntimeInv
<1> QED
  BY <1>4, <1>5, Zenon DEF StartEgressContainer

\* The sidecar is ready, or goes again.
LEMMA WaitEgressReadyStep ==
  ASSUME RuntimeInv, NEW s \in Sandbox, WaitEgressReady(s)
  PROVE  RuntimeInv'
<1>1. box[s].pc = "egressWait" /\ spilled' = spilled /\ SharedKept
  BY SharedStays, Zenon DEF WaitEgressReady, At
<1>2. "run" \in Pcs /\ "run" \notin Removing \cup Over
  BY Zenon DEF Pcs, Removing, Over
<1>3. ASSUME s \notin spilled, SandboxOK(box[s], res[s], todo[s])
      PROVE  res[s] \subseteq {"volume", "sidecar"} /\ Fits(s, "run", res[s] \cup {"ready"})
  <2>1. ~K8s /\ box[s].spec.egress = "strict" /\ "sidecar" \in res[s] /\ res[s] \subseteq {"volume", "sidecar"}
    BY <1>1, <1>3, Zenon DEF SandboxOK, ExtentOK, DockerOK, K8sOK, DockerExtent, Early, Removing, Over
  <2> QED
    BY <1>1, <2>1, ZenonT(60) DEF Fits, SandboxOK, ExtentOK, DockerOK, K8sOK, Guarded, DockerExtent, K8sExtent, EgressPart, Early, Up, Removing, Over
<1>4. CASE Adds(s, "ready", "run")
  BY <1>1, <1>2, <1>3, <1>4, AddStep, Zenon DEF Removing, Over
<1>5. CASE Fails(s, <<"sidecar", "volume">>)
  <2>1. PICK q : q = <<"sidecar", "volume">>
    BY Zenon
  <2>2. q \in Seq(Removals) /\ Len(q) = 2 /\ q[1] = "sidecar" /\ q[2] = "volume"
    BY <2>1 DEF Removals
  <2>3. s \notin spilled => Tidy(q, res[s])
    BY <1>3, <2>2, Tidy2, Zenon DEF RuntimeInv
  <2> QED
    BY <1>1, <1>5, <2>1, <2>3, UndoStep, Zenon
<1> QED
  BY <1>4, <1>5, Zenon DEF WaitEgressReady

\* The container starts.
LEMMA RunContainerStep ==
  ASSUME RuntimeInv, NEW s \in Sandbox, RunContainer(s)
  PROVE  RuntimeInv'
<1>1. ~K8s /\ box[s].pc = "run" /\ spilled' = spilled /\ SharedKept
  BY SharedStays, Zenon DEF RunContainer, At
<1>2. "wait" \in Pcs /\ "wait" \notin Removing \cup Over
  BY Zenon DEF Pcs, Removing, Over
<1>3. box[s].spec.egress \in {"none", "cooperative", "strict"}
  BY <1>2, NewBox, Zenon
<1>4. ASSUME s \notin spilled, SandboxOK(box[s], res[s], todo[s])
      PROVE  /\ res[s] \subseteq {"volume"} \cup EgressPart(box[s])
             /\ Fits(s, "wait", res[s] \cup {"container"})
  <2>1. /\ res[s] \subseteq {"volume"} \cup EgressPart(box[s])
        /\ box[s].spec.egress = "strict" => {"sidecar", "ready"} \subseteq res[s]
    BY <1>1, <1>4, Zenon DEF SandboxOK, ExtentOK, DockerOK, DockerExtent, Early, Removing, Over
  <2> QED
    BY <1>1, <2>1, ZenonT(60) DEF Fits, SandboxOK, ExtentOK, DockerOK, K8sOK, Guarded, DockerExtent, K8sExtent, EgressPart, Early, Up, Removing, Over
<1>5. CASE Adds(s, "container", "wait")
  BY <1>1, <1>2, <1>4, <1>5, AddStep, Zenon DEF Removing, Over
<1>6. CASE Fails(s, Append(EgressUndo(s), "volume"))
  BY <1>1, <1>3, <1>4, <1>6, UndoStep, UndoTidy DEF RuntimeInv
<1> QED
  BY <1>5, <1>6, Zenon DEF RunContainer

\* What is entered in the maps.
LEMMA EnteredIs ==
  ASSUME NEW s, box[s].spec.egress \in {"none", "cooperative", "strict"}
  PROVE  Named(EgressUndo(s)) = Entered(box[s]) /\ Entered(box[s]) \in SUBSET {"proxy", "sidecar"}
BY DEF Named, EgressUndo, Entered

\* The container is up, and what Kill has to find is entered.
LEMMA ContainerUpStep ==
  ASSUME RuntimeInv, NEW s \in Sandbox, ContainerUp(s)
  PROVE  RuntimeInv'
<1>1. ~K8s /\ box[s].pc = "wait" /\ spilled' = spilled /\ SharedKept
  BY SharedStays, Zenon DEF ContainerUp, At
<1>2. "seed" \in Pcs
  BY Zenon DEF Pcs, Up
<1>3. box[s].spec.egress \in {"none", "cooperative", "strict"}
  BY <1>2, NewBox, Zenon
<1>4. ASSUME s \notin spilled
      PROVE  /\ SandboxOK(box[s], res[s], todo[s]) /\ todo[s] = <<>>
             /\ res[s] \subseteq {"volume", "container"} \cup EgressPart(box[s])
             /\ box[s].spec.egress = "strict" => {"sidecar", "ready"} \subseteq res[s]
  <2>1. SandboxOK(box[s], res[s], todo[s])
    BY <1>4, Zenon DEF RuntimeInv
  <2> QED
    BY <1>1, <2>1, Zenon DEF SandboxOK, ExtentOK, DockerOK, DockerExtent, Early, Removing, Over
<1>5. CASE /\ box' = [box EXCEPT ![s].pc = "seed", ![s].reg = Named(EgressUndo(s))]
           /\ UNCHANGED <<res, todo, faults>>
  <2>1. PICK e \in SUBSET {"proxy", "sidecar"} : e = Entered(box[s]) /\ e = Named(EgressUndo(s))
    BY <1>3, EnteredIs, SMTT(60)
  <2>2. PICK b \in Boxes : b.pc = "seed" /\ b.spec = box[s].spec /\ b.reg = e
                           /\ BoxesWith(s, "seed", e) = [box EXCEPT ![s] = b]
    BY <1>2, <2>1, NewEntries, SMTT(60)
  <2>3. box' = [box EXCEPT ![s] = b]
    BY <1>5, <2>1, <2>2, Zenon DEF BoxesWith
  <2>4. PICK r, q : r = res[s] /\ q = todo[s]
    BY Zenon
  <2>5. Moves(s, b, r, q)
    BY <1>5, <2>3, <2>4, SameRes, Zenon DEF Moves
  <2>6. b.reg = Entered(b)
    BY <2>1, <2>2, Zenon DEF Entered
  <2>7. s \notin spilled => SandboxOK(b, r, q)
    BY <1>1, <1>4, <2>2, <2>4, <2>6, Zenon DEF SandboxOK, ExtentOK, DockerOK, K8sOK, Guarded, DockerExtent, K8sExtent, EgressPart, Early, Up, Removing, Over
  <2> QED
    BY <1>1, <2>5, <2>7, StaysOK, SandboxStep, Zenon
<1>6. CASE Fails(s, <<"container">> \o Append(EgressUndo(s), "volume"))
  <2>1. PICK q : q = <<"container">> \o Append(EgressUndo(s), "volume")
    BY Zenon
  <2>2. s \notin spilled => Tidy(q, res[s])
    BY <1>3, <1>4, <2>1, UndoRunTidy
  <2>3. Fails(s, q)
    BY <1>6, <2>1, Zenon
  <2> QED
    BY <1>1, <2>2, <2>3, UndoStep, Zenon
<1> QED
  BY <1>5, <1>6, Zenon DEF ContainerUp

-----------------------------------------------------------------------------
(* Create of the Kubernetes backend *)

\* The namespace is there after ensureNamespace.
LEMMA EnsureNamespaceStep ==
  ASSUME RuntimeInv, NEW s \in Sandbox, EnsureNamespace(s)
  PROVE  RuntimeInv'
<1>1. box[s].pc = "namespace" /\ UNCHANGED <<kind, policyOn, deny, spilled>>
  BY Zenon DEF EnsureNamespace, At
<1>2. ns # "none" => ns' # "none"
  BY Zenon DEF EnsureNamespace, ApplyPSALabels
<1>3. SharedKept
  BY <1>1, <1>2, Zenon DEF SharedKept, RuntimeInv, BackendTypeOK
<1>4. "policy" \in Pcs /\ "policy" \notin Removing \cup Over
  BY Zenon DEF Pcs, Early, Removing, Over
<1>5. ASSUME s \notin spilled, SandboxOK(box[s], res[s], todo[s])
      PROVE  K8s /\ res[s] = {}
  BY <1>1, <1>5, Zenon DEF SandboxOK, ExtentOK, DockerOK, K8sExtent, Early, Removing, Over
<1>6. CASE ns' # "none" /\ Goto(s, "policy") /\ UNCHANGED <<res, todo>>
  <2>1. ASSUME s \notin spilled, SandboxOK(box[s], res[s], todo[s]),
               NEW b \in Boxes, b.pc = "policy", b.spec = box[s].spec, b.reg = box[s].reg
        PROVE  SandboxOK(b, {}, <<>>)'
    <3>1. K8s'
      BY <1>1, <1>5, <2>1, Zenon DEF K8s
    <3> QED
      BY <1>6, <2>1, <3>1, Zenon DEF SandboxOK, ExtentOK, DockerOK, K8sOK, Guarded, DockerExtent, K8sExtent, EgressPart, Early, Up, Removing, Over
  <2>2. s \notin spilled /\ SandboxOK(box[s], res[s], todo[s]) => res[s] = {}
    BY <1>5, Zenon
  <2>3. PICK r : r = res[s]
    BY Zenon
  <2>4. res' = [res EXCEPT ![s] = r]
    BY <1>6, <2>3, SameRes, Zenon
  <2>5. s \notin spilled /\ SandboxOK(box[s], res[s], todo[s]) =>
           \A b \in Boxes : b.pc = "policy" /\ b.spec = box[s].spec /\ b.reg = box[s].reg => SandboxOK(b, r, <<>>)'
    BY <2>1, <2>2, <2>3, Zenon
  <2> QED
    BY <1>1, <1>3, <1>4, <1>6, <2>4, <2>5, GoStep, Zenon DEF Removing, Over
<1>7. CASE Fails(s, <<>>)
  BY <1>1, <1>3, <1>5, <1>7, UndoStep, TidyNone, Zenon DEF RuntimeInv
<1> QED
  BY <1>6, <1>7, Zenon DEF EnsureNamespace, ApplyPSALabels

\* The default-deny policy is there after ensureNetworkPolicy.
LEMMA EnsureNetworkPolicyStep ==
  ASSUME RuntimeInv, NEW s \in Sandbox, EnsureNetworkPolicy(s)
  PROVE  RuntimeInv'
<1>1. box[s].pc = "policy" /\ UNCHANGED <<kind, policyOn, ns, spilled>>
  BY Zenon DEF EnsureNetworkPolicy, At
<1>2. policyOn \in BOOLEAN /\ deny \in BOOLEAN
  BY Zenon DEF RuntimeInv, BackendTypeOK
<1>3. deny' \in BOOLEAN /\ (deny => deny')
  BY <1>2, Zenon DEF EnsureNetworkPolicy
<1>4. SharedKept
  BY <1>1, <1>3, Zenon DEF SharedKept
<1>5. "storage" \in Pcs /\ "storage" \notin Removing \cup Over
  BY Zenon DEF Pcs, Early, Removing, Over
<1>6. ASSUME s \notin spilled, SandboxOK(box[s], res[s], todo[s])
      PROVE  K8s /\ res[s] = {} /\ ns # "none"
  BY <1>1, <1>6, Zenon DEF SandboxOK, ExtentOK, DockerOK, K8sOK, K8sExtent, Early, Removing, Over
<1>7. CASE (policyOn => deny') /\ Goto(s, "storage") /\ UNCHANGED <<res, todo>>
  <2>1. ASSUME s \notin spilled, SandboxOK(box[s], res[s], todo[s]),
               NEW b \in Boxes, b.pc = "storage", b.spec = box[s].spec, b.reg = box[s].reg
        PROVE  SandboxOK(b, {}, <<>>)'
    <3>1. K8s' /\ ns' # "none" /\ (policyOn' => deny')
      BY <1>1, <1>6, <1>7, <2>1, Zenon DEF K8s
    <3> QED
      BY <2>1, <3>1, Zenon DEF SandboxOK, ExtentOK, DockerOK, K8sOK, Guarded, DockerExtent, K8sExtent, EgressPart, Early, Up, Removing, Over
  <2>2. s \notin spilled /\ SandboxOK(box[s], res[s], todo[s]) => res[s] = {}
    BY <1>6, Zenon
  <2>3. PICK r : r = res[s]
    OBVIOUS
  <2>4. res' = [res EXCEPT ![s] = r]
    BY <1>7, <2>3, SameRes, Zenon
  <2>5. s \notin spilled /\ SandboxOK(box[s], res[s], todo[s]) =>
           \A b \in Boxes : b.pc = "storage" /\ b.spec = box[s].spec /\ b.reg = box[s].reg => SandboxOK(b, r, <<>>)'
    BY <2>1, <2>2, <2>3, Zenon
  <2> QED
    BY <1>1, <1>4, <1>5, <1>7, <2>4, <2>5, GoStep, Zenon DEF Removing, Over
<1>8. CASE Fails(s, <<>>)
  BY <1>1, <1>4, <1>6, <1>8, UndoStep, TidyNone, Zenon DEF RuntimeInv
<1> QED
  BY <1>2, <1>7, <1>8, Zenon DEF EnsureNetworkPolicy

\* The claim.
LEMMA CreateClaimStep ==
  ASSUME RuntimeInv, NEW s \in Sandbox, CreateClaim(s)
  PROVE  RuntimeInv'
<1>1. K8s /\ box[s].pc = "storage" /\ spilled' = spilled /\ SharedKept
  BY SharedStays, Zenon DEF CreateClaim, At
<1>2. PICK p \in Pcs : p = IF box[s].spec.egress = "none" THEN "run" ELSE "egress"
  BY Zenon DEF Pcs
<1>3. ASSUME s \notin spilled, SandboxOK(box[s], res[s], todo[s])
      PROVE  res[s] = {} /\ Fits(s, p, res[s] \cup {"pvc"})
  <2>1. res[s] = {} /\ ns # "none" /\ (policyOn => deny)
    BY <1>1, <1>3, Zenon DEF SandboxOK, ExtentOK, K8sOK, K8sExtent, Early, Removing, Over
  <2> QED
    BY <1>1, <1>2, <2>1, ZenonT(60) DEF Fits, Boxes, Spec4, SandboxOK, ExtentOK, DockerOK, K8sOK, Guarded, DockerExtent, K8sExtent, EgressPart, Early, Up, Removing, Over
<1>4. CASE Adds(s, "pvc", p)
  BY <1>1, <1>2, <1>3, <1>4, AddStep, Zenon DEF Removing, Over
<1>5. CASE Fails(s, <<>>)
  BY <1>1, <1>3, <1>5, UndoStep, TidyNone, Zenon DEF RuntimeInv
<1> QED
  BY <1>2, <1>4, <1>5, Zenon DEF CreateClaim

\* The ConfigMap.
LEMMA CreateConfigMapStep ==
  ASSUME RuntimeInv, NEW s \in Sandbox, CreateConfigMap(s)
  PROVE  RuntimeInv'
<1>1. K8s /\ box[s].pc = "egress" /\ spilled' = spilled /\ SharedKept
  BY SharedStays, Zenon DEF CreateConfigMap, At
<1>2. "run" \in Pcs /\ "run" \notin Removing \cup Over
  BY Zenon DEF Pcs, Removing, Over
<1>3. ASSUME s \notin spilled, SandboxOK(box[s], res[s], todo[s])
      PROVE  res[s] \subseteq {"pvc"} /\ Fits(s, "run", res[s] \cup {"configmap"})
  <2>1. res[s] \subseteq {"pvc"} /\ ns # "none" /\ (policyOn => deny)
    BY <1>1, <1>3, Zenon DEF SandboxOK, ExtentOK, K8sOK, K8sExtent, Early, Removing, Over
  <2> QED
    BY <1>1, <2>1, Zenon DEF Fits, SandboxOK, ExtentOK, DockerOK, K8sOK, Guarded, DockerExtent, K8sExtent, EgressPart, Early, Up, Removing, Over
<1>4. CASE Adds(s, "configmap", "run")
  BY <1>1, <1>2, <1>3, <1>4, AddStep, Zenon DEF Removing, Over
<1>5. CASE Fails(s, <<"pvc">>)
  <2>1. PICK q : q = <<"pvc">>
    BY Zenon
  <2>2. q \in Seq(Removals) /\ Len(q) = 1 /\ q[1] = "pvc"
    BY <2>1 DEF Removals
  <2>3. s \notin spilled => Tidy(q, res[s])
    BY <1>3, <2>2, Tidy1, Zenon DEF RuntimeInv
  <2> QED
    BY <1>1, <1>5, <2>1, <2>3, UndoStep, Zenon
<1> QED
  BY <1>4, <1>5, Zenon DEF CreateConfigMap

\* The pod: the namespace and the policy are there before.
LEMMA CreatePodStep ==
  ASSUME RuntimeInv, NEW s \in Sandbox, CreatePod(s)
  PROVE  RuntimeInv'
<1>1. K8s /\ box[s].pc = "run" /\ spilled' = spilled /\ SharedKept
  BY SharedStays, Zenon DEF CreatePod, At
<1>2. "wait" \in Pcs /\ "wait" \notin Removing \cup Over
  BY Zenon DEF Pcs, Removing, Over
<1>3. ASSUME s \notin spilled, SandboxOK(box[s], res[s], todo[s])
      PROVE  res[s] \subseteq {"pvc", "configmap"} /\ Fits(s, "wait", res[s] \cup {"pod"})
  <2>1. res[s] \subseteq {"pvc", "configmap"} /\ ns # "none" /\ (policyOn => deny)
    BY <1>1, <1>3, Zenon DEF SandboxOK, ExtentOK, K8sOK, K8sExtent, Early, Removing, Over
  <2> QED
    BY <1>1, <2>1, ZenonT(60) DEF Fits, SandboxOK, ExtentOK, DockerOK, K8sOK, Guarded, DockerExtent, K8sExtent, EgressPart, Early, Up, Removing, Over
<1>4. CASE Adds(s, "pod", "wait")
  BY <1>1, <1>2, <1>3, <1>4, AddStep, Zenon DEF Removing, Over
<1>5. CASE Fails(s, <<"pvc", "configmap">>)
  <2>1. PICK q : q = <<"pvc", "configmap">>
    BY Zenon
  <2>2. q \in Seq(Removals) /\ Len(q) = 2 /\ q[1] = "pvc" /\ q[2] = "configmap"
    BY <2>1 DEF Removals
  <2>3. s \notin spilled => Tidy(q, res[s])
    BY <1>3, <2>2, Tidy2, Zenon DEF RuntimeInv
  <2> QED
    BY <1>1, <1>5, <2>1, <2>3, UndoStep, Zenon
<1> QED
  BY <1>4, <1>5, Zenon DEF CreatePod

\* The pod runs, or the sandbox is killed again.
LEMMA PodUpStep ==
  ASSUME RuntimeInv, NEW s \in Sandbox, PodUp(s)
  PROVE  RuntimeInv'
<1>1. K8s /\ box[s].pc = "wait" /\ spilled' = spilled /\ SharedKept
  BY SharedStays, Zenon DEF PodUp, At
<1>2. "ingress" \in Pcs /\ "ingress" \notin Removing \cup Over
  BY Zenon DEF Pcs, Removing, Over
<1>3. SandboxOK(box[s], res[s], todo[s]) => Fits(s, "ingress", res[s])
  BY <1>1, Zenon DEF Fits, SandboxOK, ExtentOK, DockerOK, K8sOK, Guarded, DockerExtent, K8sExtent, EgressPart, Early, Up, Removing, Over
<1>4. CASE Goto(s, "ingress") /\ UNCHANGED <<res, todo, faults>>
  BY <1>1, <1>2, <1>3, <1>4, PassStep, Zenon DEF Removing, Over
<1>5. CASE FailsKilling(s)
  BY <1>1, <1>5, KillAgainStep, Zenon DEF FailsKilling, Killable
<1> QED
  BY <1>4, <1>5, Zenon DEF PodUp, StepOrKill

\* A kill of a sandbox one of whose removals was refused.
LEMMA SpilledKillStep ==
  ASSUME RuntimeInv, SharedKept, NEW s \in spilled, s \in Sandbox, KillAgain(s), res' = res, spilled' = spilled
  PROVE  RuntimeInv'
<1>1. "undoKill" \in Pcs /\ {} \in SUBSET {"proxy", "sidecar"}
  BY Zenon DEF Pcs, Removing
<1>2. PICK b \in Boxes : BoxesWith(s, "undoKill", {}) = [box EXCEPT ![s] = b]
  BY <1>1, NewEntries, SMTT(60)
<1>3. box' = BoxesWith(s, "undoKill", {}) /\ todo' = [todo EXCEPT ![s] = KillList(s)]
  BY Zenon DEF KillAgain, BoxesWith
<1>4. PICK r, q : r = res[s] /\ q = KillList(s)
  BY Zenon
<1>5. Moves(s, b, r, q)
  BY <1>2, <1>3, <1>4, SameRes, Zenon DEF Moves
<1> QED
  BY <1>5, SandboxStep, Zenon

\* The ingress policy of an IDE.
LEMMA EnsureIDEIngressStep ==
  ASSUME RuntimeInv, NEW s \in Sandbox, EnsureIDEIngress(s)
  PROVE  RuntimeInv'
<1>1. box[s].pc = "ingress" /\ spilled' = spilled /\ SharedKept
  BY SharedStays, Zenon DEF EnsureIDEIngress, At
<1>2. "seed" \in Pcs /\ "seed" \notin Removing \cup Over
  BY Zenon DEF Pcs, Up, Removing, Over
<1>3. ASSUME s \notin spilled, SandboxOK(box[s], res[s], todo[s])
      PROVE  K8s /\ Fits(s, "seed", res[s]) /\ Fits(s, "seed", res[s] \cup {"idepolicy"})
  <2>1. K8s
    BY <1>1, <1>3, Zenon DEF SandboxOK, DockerOK
  <2>2. /\ res[s] \subseteq {"pvc", "configmap", "pod", "idepolicy"} /\ ns # "none" /\ (policyOn => deny)
    BY <1>1, <1>3, <2>1, Zenon DEF SandboxOK, ExtentOK, K8sOK, K8sExtent, Early, Removing, Over
  <2> QED
    BY <2>1, <2>2, ZenonT(60) DEF Fits, SandboxOK, ExtentOK, DockerOK, K8sOK, Guarded, DockerExtent, K8sExtent, EgressPart, Early, Up, Removing, Over
<1>4. CASE Goto(s, "seed") /\ UNCHANGED <<res, todo, faults>>
  BY <1>1, <1>2, <1>3, <1>4, PassStep, Zenon DEF Removing, Over
<1>5. CASE Adds(s, "idepolicy", "seed")
  BY <1>1, <1>2, <1>3, <1>5, AddStep, Zenon DEF Removing, Over
<1>6. CASE FailsKilling(s)
  <2>1. CASE K8s
    BY <1>1, <1>6, <2>1, KillAgainStep, Zenon DEF FailsKilling, Killable
  <2>2. CASE ~K8s
    <3>1. s \in spilled
      BY <1>3, <2>2, Zenon DEF RuntimeInv
    <3> QED
      BY <1>1, <1>6, <3>1, SpilledKillStep, Zenon DEF FailsKilling
  <2> QED
    BY <2>1, <2>2, Zenon
<1> QED
  BY <1>4, <1>5, <1>6, Zenon DEF EnsureIDEIngress

-----------------------------------------------------------------------------
(* The rest of Create, and Kill *)

\* A step between two points after the container or pod is up, or a kill.
LEMMA UpStep ==
  ASSUME RuntimeInv, SharedKept, NEW s \in Sandbox, NEW p \in Up, box[s].pc \in Up, spilled' = spilled,
         (Goto(s, p) /\ UNCHANGED <<res, todo>>) \/ (KillAgain(s) /\ res' = res)
  PROVE  RuntimeInv'
<1>1. p \in Pcs /\ p \notin Removing \cup Over
  BY Zenon DEF Pcs, Up, Removing, Over
<1>2. box[s].pc \notin Removing \cup Over
  BY Zenon DEF Up, Removing, Over
<1>3. SandboxOK(box[s], res[s], todo[s]) => Fits(s, p, res[s])
  <2>1. SUFFICES ASSUME SandboxOK(box[s], res[s], todo[s]), NEW b \in Boxes,
                        b.pc = p, b.spec = box[s].spec, b.reg = box[s].reg
                 PROVE  SandboxOK(b, res[s], <<>>)
    BY Zenon DEF Fits
  <2>2. ExtentOK(b, res[s], <<>>)
    BY <2>1, ZenonT(60) DEF SandboxOK, ExtentOK, Guarded, DockerExtent, K8sExtent, EgressPart, Early, Up, Removing, Over
  <2>3. DockerOK(b, res[s])
    BY <2>1, Zenon DEF SandboxOK, DockerOK, Entered, Up
  <2>4. K8sOK(b, res[s])
    BY <2>1, Zenon DEF SandboxOK, K8sOK, Up, Removing, Over
  <2> QED
    BY <2>2, <2>3, <2>4, Zenon DEF SandboxOK
<1>4. CASE Goto(s, p) /\ UNCHANGED <<res, todo>>
  BY <1>1, <1>2, <1>3, <1>4, PassStep, Zenon
<1>5. CASE KillAgain(s) /\ res' = res
  <2>1. Killable(s)
    BY Zenon DEF Killable
  <2> QED
    BY <1>5, <2>1, KillAgainStep, Zenon
<1> QED
  BY <1>4, <1>5, Zenon

\* SeedWorkspace, CopyFiles, the restore and the manager's part of Create.
LEMMA FinishStep ==
  ASSUME RuntimeInv, NEW s \in Sandbox,
         SeedWorkspace(s) \/ CopyFiles(s) \/ VerifySnapshot(s) \/ Untar(s) \/ Admit(s)
  PROVE  RuntimeInv'
<1>1. SharedKept /\ spilled' = spilled
  BY SharedStays, Zenon DEF SeedWorkspace, CopyFiles, VerifySnapshot, Untar, Admit
<1>2. CASE SeedWorkspace(s)
  <2>1. box[s].pc \in Up /\ "files" \in Up
    BY <1>2, Zenon DEF SeedWorkspace, At, Up
  <2>2. (Goto(s, "files") /\ UNCHANGED <<res, todo>>) \/ (KillAgain(s) /\ res' = res)
    BY <1>2, Zenon DEF SeedWorkspace, StepOrKill, FailsKilling
  <2> QED
    BY <1>1, <2>1, <2>2, UpStep, Zenon
<1>3. CASE CopyFiles(s)
  <2>1. PICK p \in Up : p = IF box[s].from = "none" THEN "admit" ELSE "verify"
    BY Zenon DEF Up
  <2>2. box[s].pc \in Up
    BY <1>3, Zenon DEF CopyFiles, At, Up
  <2>3. (Goto(s, p) /\ UNCHANGED <<res, todo>>) \/ (KillAgain(s) /\ res' = res)
    BY <1>3, <2>1, Zenon DEF CopyFiles, StepOrKill, FailsKilling
  <2> QED
    BY <1>1, <2>1, <2>2, <2>3, UpStep, Zenon
<1>4. CASE VerifySnapshot(s)
  <2>1. box[s].pc \in Up /\ "untar" \in Up
    BY <1>4, Zenon DEF VerifySnapshot, At, Up
  <2>2. (Goto(s, "untar") /\ UNCHANGED <<res, todo>>) \/ (KillAgain(s) /\ res' = res)
    BY <1>4, Zenon DEF VerifySnapshot, StepOrKill, FailsKilling
  <2> QED
    BY <1>1, <2>1, <2>2, UpStep, Zenon
<1>5. CASE Untar(s)
  <2>1. box[s].pc \in Up /\ "admit" \in Up
    BY <1>5, Zenon DEF Untar, At, Up
  <2>2. (Goto(s, "admit") /\ UNCHANGED <<res, todo>>) \/ (KillAgain(s) /\ res' = res)
    BY <1>5, Zenon DEF Untar, FailsKilling
  <2> QED
    BY <1>1, <2>1, <2>2, UpStep, Zenon
<1>6. CASE Admit(s)
  <2>1. box[s].pc \in Up /\ "live" \in Up
    BY <1>6, Zenon DEF Admit, At, Up
  <2>2. (Goto(s, "live") /\ UNCHANGED <<res, todo>>) \/ (KillAgain(s) /\ res' = res)
    BY <1>6, Zenon DEF Admit, StepOrKill, FailsKilling
  <2> QED
    BY <1>1, <2>1, <2>2, UpStep, Zenon
<1> QED
  BY <1>2, <1>3, <1>4, <1>5, <1>6, Zenon

\* A sandbox is asked for.
LEMMA BeginStep ==
  ASSUME RuntimeInv, SnapTypeOK, NEW s \in Sandbox, Begin(s)
  PROVE  RuntimeInv'
<1>1. box[s].pc = "none" /\ spilled' = spilled /\ SharedKept /\ UNCHANGED <<res, todo>>
  BY SharedStays, Zenon DEF Begin, At
<1>2. PICK sp \in Specs, n \in {"none"} \cup {m \in Snap : table[m] # NoRef} :
        box' = [box EXCEPT ![s] = [pc |-> IF K8s THEN "namespace" ELSE "storage",
                                   spec |-> sp, from |-> n,
                                   digest |-> IF n = "none" THEN NoRef ELSE table[n], reg |-> {}]]
  BY Zenon DEF Begin
<1>3. PICK d \in Int : d = IF n = "none" THEN NoRef ELSE table[n]
  BY <1>2 DEF SnapTypeOK, NoRef
<1>4. PICK p \in {"namespace", "storage"} : p = IF K8s THEN "namespace" ELSE "storage"
  BY Zenon
<1>5. PICK b : b = [pc |-> p, spec |-> sp, from |-> n, digest |-> d, reg |-> {}]
  BY Zenon
<1>6. sp \in Spec4 /\ n \in Snap \cup {"none"} /\ p \in Pcs
  BY BackendAssumption, Zenon DEF Pcs, Early
<1>7. b \in Boxes /\ b.pc = p
  BY <1>5, <1>6, Zenon DEF Boxes
<1>8. box' = [box EXCEPT ![s] = b]
  BY <1>2, <1>3, <1>4, <1>5, Zenon
<1>9. PICK r, q : r = res[s] /\ q = todo[s]
  BY Zenon
<1>10. Moves(s, b, r, q)
  BY <1>1, <1>7, <1>8, <1>9, SameRes, Zenon DEF Moves
<1>11. ASSUME s \notin spilled PROVE SandboxOK(b, r, q)
  <2>1. SandboxOK(box[s], r, q)
    BY <1>9, <1>11, Zenon DEF RuntimeInv
  <2>2. r = {} /\ q = <<>>
    BY <1>1, <2>1, Zenon DEF SandboxOK, ExtentOK, DockerExtent, K8sExtent, Early, Removing, Over
  <2> QED
    BY <1>4, <1>7, <2>2, Zenon DEF SandboxOK, ExtentOK, DockerOK, K8sOK, Guarded, DockerExtent, K8sExtent, EgressPart, Early, Up, Removing, Over
<1> QED
  BY <1>1, <1>10, <1>11, StaysOK, SandboxStep, Zenon

\* KillSandbox.
LEMMA KillSandboxStep ==
  ASSUME RuntimeInv, NEW s \in Sandbox, Kill(s)
  PROVE  RuntimeInv'
<1>1. box[s].pc = "live" /\ spilled' = spilled /\ SharedKept /\ res' = res
  BY SharedStays, Zenon DEF Kill, At
<1>2. "killing" \in Pcs /\ {} \in SUBSET {"proxy", "sidecar"}
  BY Zenon DEF Pcs, Removing
<1>3. PICK b \in Boxes : b.pc = "killing" /\ b.spec = box[s].spec
                         /\ BoxesWith(s, "killing", {}) = [box EXCEPT ![s] = b]
  BY <1>2, NewEntries
<1>4. box' = BoxesWith(s, "killing", {}) /\ todo' = [todo EXCEPT ![s] = KillList(s)]
  BY Zenon DEF Kill, BoxesWith
<1>5. Killable(s)
  BY <1>1, Zenon DEF Killable, Up
<1> QED
  BY <1>1, <1>3, <1>4, <1>5, KillStep, Zenon

\* One removal, granted or refused.
LEMMA RunRemovalStep ==
  ASSUME RuntimeInv, NEW s \in Sandbox, RunRemoval(s)
  PROVE  RuntimeInv'
<1>1. PICK b, r, q, c : b = box[s] /\ r = res[s] /\ q = todo[s] /\ c = Head(todo[s])
  BY Zenon
<1>2. q # <<>> /\ box' = box /\ UNCHANGED cluster
  BY <1>1, Zenon DEF RunRemoval
<1>3. b \in Boxes /\ box' = [box EXCEPT ![s] = b]
  BY <1>1, <1>2, Zenon DEF RuntimeInv, BackendTypeOK
<1>4. CASE /\ res' = [res EXCEPT ![s] = @ \ Goes(s, c)]
           /\ todo' = [todo EXCEPT ![s] = Tail(@)]
           /\ UNCHANGED <<faults, spilled>>
  <2>1. SharedKept
    BY <1>2, <1>4, SharedStays, Zenon
  <2>2. PICK g : g = Goes(s, c)
    BY Zenon
  <2>3. g = IF c = "sidecar" THEN {"sidecar", "ready"}
            ELSE IF c = "volume" /\ "container" \in r THEN {} ELSE {c}
    BY <1>1, <2>2, Zenon DEF Goes
  <2>4. res' = [res EXCEPT ![s] = r \ g] /\ todo' = [todo EXCEPT ![s] = Tail(q)]
    BY <1>1, <1>4, <2>2, Zenon
  <2>5. PICK rr, qq : rr = r \ g /\ qq = Tail(q)
    BY Zenon
  <2>6. Moves(s, b, rr, qq)
    BY <1>3, <2>4, <2>5, Zenon DEF Moves
  <2>7. ASSUME s \notin spilled PROVE SandboxOK(b, rr, qq)
    <3>1. SandboxOK(b, r, q)
      BY <1>1, <2>7, Zenon DEF RuntimeInv
    <3>2. b.pc \in Removing /\ Tidy(q, r) /\ Guarded(b, r)
      BY <1>2, <3>1, Zenon DEF SandboxOK, ExtentOK
    <3>3. Tidy(qq, rr) /\ Guarded(b, rr)
      BY <1>1, <1>2, <2>3, <2>5, <3>2, RemovalTidy, Zenon
    <3>4. ExtentOK(b, rr, qq)
      BY <3>2, <3>3, Zenon DEF ExtentOK, Removing
    <3>5. DockerOK(b, rr)
      BY <3>1, <3>2, Zenon DEF SandboxOK, DockerOK, Up, Removing
    <3>6. K8sOK(b, rr)
      BY <2>5, <3>1, Zenon DEF SandboxOK, K8sOK
    <3> QED
      BY <3>4, <3>5, <3>6, Zenon DEF SandboxOK
  <2> QED
    BY <1>4, <2>1, <2>6, <2>7, StaysOK, SandboxStep, Zenon
<1>5. CASE /\ spilled' = spilled \cup {s}
           /\ todo' = [todo EXCEPT ![s] = AfterRefusal(s, c)]
           /\ UNCHANGED res
  <2>1. SharedKept
    BY <1>2, <1>5, SharedStays, Zenon
  <2>2. PICK rest : rest = AfterRefusal(s, c)
    OBVIOUS
  <2>3. Moves(s, b, r, rest)
    BY <1>1, <1>3, <1>5, <2>2, SameRes, Zenon DEF Moves
  <2> QED
    BY <1>5, <2>1, <2>3, SandboxStep, Zenon
<1> QED
  BY <1>1, <1>4, <1>5, Zenon DEF RunRemoval

\* The removals are done.
LEMMA RemovedStep ==
  ASSUME RuntimeInv, NEW s \in Sandbox, Removed(s)
  PROVE  RuntimeInv'
<1>1. PICK p \in {"killed", "failed"} : Goto(s, p) /\ p = IF At(s, "killing") THEN "killed" ELSE "failed"
  BY Zenon DEF Removed
<1>2. /\ todo[s] = <<>> /\ box[s].pc \in Removing /\ spilled' = spilled /\ SharedKept
      /\ UNCHANGED <<res, todo>>
  BY SharedStays, Zenon DEF Removed, Removing
<1>3. p \in Pcs
  BY Zenon DEF Pcs, Over
<1>4. PICK b : b = [box[s] EXCEPT !.pc = p]
  BY Zenon
<1>5. b \in Boxes /\ b.pc = p /\ b.spec = box[s].spec /\ box' = [box EXCEPT ![s] = b]
  BY <1>1, <1>3, <1>4, NewBox, ZenonT(60) DEF Goto
<1>6. PICK r, q : r = res[s] /\ q = todo[s]
  BY Zenon
<1>7. Moves(s, b, r, q)
  BY <1>2, <1>5, <1>6, SameRes, Zenon DEF Moves
<1>8. ASSUME s \notin spilled PROVE SandboxOK(b, r, q)
  <2>1. SandboxOK(box[s], r, q)
    BY <1>6, <1>8, Zenon DEF RuntimeInv
  <2>2. Tidy(<<>>, r)
    BY <1>2, <1>6, <2>1, Zenon DEF SandboxOK, ExtentOK
  <2>3. r = {}
    BY <2>2 DEF Tidy, Covers
  <2> QED
    BY <1>2, <1>5, <1>6, <2>3, Zenon DEF SandboxOK, ExtentOK, DockerOK, K8sOK, Guarded, DockerExtent, K8sExtent, EgressPart, Early, Up, Removing, Over
<1> QED
  BY <1>2, <1>7, <1>8, StaysOK, SandboxStep, Zenon

\* The process ends: what is in the runtime stays, but the proxies go.
LEMMA RestartRuntimeStep ==
  ASSUME RuntimeInv, Restart
  PROVE  RuntimeInv'
<1>1. /\ box' = [s \in Sandbox |-> IF Busy(s) THEN [box[s] EXCEPT !.pc = "lost", !.reg = {}] ELSE box[s]]
      /\ res' = [s \in Sandbox |-> res[s] \ {"proxy"}]
      /\ todo' = [s \in Sandbox |-> <<>>]
      /\ spilled' = spilled /\ SharedKept
  BY SharedStays, Zenon DEF Restart
<1>2. ASSUME NEW s \in Sandbox
      PROVE  /\ box'[s] \in Boxes
             /\ s \notin spilled => SandboxOK(box'[s], res'[s], todo'[s])
  <2>1. box[s] \in Boxes /\ "lost" \in Pcs
    BY Zenon DEF RuntimeInv, BackendTypeOK, Pcs, Over
  <2>2. PICK b : b = [box[s] EXCEPT !.pc = "lost", !.reg = {}]
    BY Zenon
  <2>3. b \in Boxes /\ b.pc = "lost" /\ b.spec = box[s].spec
    BY <2>1, <2>2, Zenon DEF Boxes
  <2>4. PICK r : r = res[s] \ {"proxy"}
    BY Zenon
  <2>5. res'[s] = r /\ todo'[s] = <<>>
    BY <1>1, <2>4, Zenon
  <2>6. CASE Busy(s)
    <3>1. box'[s] = b
      BY <1>1, <2>2, <2>6, Zenon
    <3>2. ASSUME s \notin spilled PROVE SandboxOK(b, r, <<>>)
      <4>1. SandboxOK(box[s], res[s], todo[s])
        BY <3>2, Zenon DEF RuntimeInv
      <4>2. Guarded(b, r) /\ K8sOK(b, r)
        BY <2>3, <2>4, <4>1, Zenon DEF SandboxOK, ExtentOK, Guarded, K8sOK, Over
      <4> QED
        BY <2>3, <4>2, Zenon DEF SandboxOK, ExtentOK, DockerOK, Up, Removing, Over
    <3> QED
      BY <2>3, <2>5, <3>1, <3>2, Zenon
  <2>7. CASE ~Busy(s)
    <3>1. box'[s] = box[s]
      BY <1>1, <2>7, Zenon
    <3>2. ASSUME s \notin spilled PROVE SandboxOK(box[s], r, <<>>)
      <4>1. SandboxOK(box[s], res[s], todo[s])
        BY <3>2 DEF RuntimeInv
      <4>2. box[s].pc \in {"none", "killed", "failed", "lost"}
        BY <2>7, Zenon DEF Busy
      <4>3. ExtentOK(box[s], r, <<>>)
        BY <2>4, <4>1, <4>2, Zenon DEF SandboxOK, ExtentOK, Guarded, DockerExtent, K8sExtent, Early, Removing, Over
      <4>4. DockerOK(box[s], r)
        BY <4>2, Zenon DEF DockerOK, Up
      <4>5. K8sOK(box[s], r)
        BY <2>4, <4>1, <4>2, Zenon DEF SandboxOK, K8sOK, Over
      <4> QED
        BY <4>3, <4>4, <4>5, Zenon DEF SandboxOK
    <3> QED
      BY <2>1, <2>5, <3>1, <3>2, Zenon
  <2> QED
    BY <2>6, <2>7, Zenon
<1>3. BackendTypeOK'
  BY <1>1, <1>2, Zenon DEF BackendTypeOK, RuntimeInv, SharedKept
<1>4. ASSUME NEW s \in Sandbox \ spilled'
      PROVE  SandboxOK(box[s], res[s], todo[s])'
  <2>1. PICK b, r, q : b = box'[s] /\ r = res'[s] /\ q = todo'[s]
    BY Zenon
  <2>2. SandboxOK(b, r, q)
    BY <1>1, <1>2, <1>4, <2>1, Zenon
  <2> QED
    BY <1>1, <2>1, <2>2, StaysOK, Zenon
<1> QED
  BY <1>3, <1>4, Zenon DEF RuntimeInv

-----------------------------------------------------------------------------
(* Snapshots and restores *)

\* A step that leaves the snapshots alone, and each restore right.
LEMMA RestoresStep ==
  ASSUME SnapshotInv, UNCHANGED snapshots, ws' \in [Sandbox -> Contents], writes' \in Nat,
         \A s \in Sandbox : RestoreOK(s)'
  PROVE  SnapshotInv'
<1>1. UNCHANGED <<cap, tarball, table, file>>
  BY Zenon DEF snapshots
<1>2. SnapTypeOK'
  BY <1>1, Zenon DEF SnapshotInv, SnapTypeOK
<1>3. \A n \in Snap : CaptureIs(cap[n], tarball[n], table[n], file[n])'
  BY <1>1, Zenon DEF SnapshotInv, CaptureIs
<1>4. \A m, n \in Snap : cap'[m].pc = "save" /\ cap'[n].pc = "save" => m = n
  BY <1>1, Zenon DEF SnapshotInv
<1> QED
  BY <1>2, <1>3, <1>4, Zenon DEF SnapshotInv

\* A request keeps the snapshot it restores and comes to no new point at which
\* its content matters.
SameRestore(s) ==
  /\ box'[s].from = box[s].from /\ box'[s].digest = box[s].digest
  /\ box'[s].pc \in {"untar", "admit"} /\ box[s].from # "none" => box'[s].pc = box[s].pc
  /\ box'[s].pc \in {"verify", "untar"} /\ box[s].from = "none" => box'[s].pc = box[s].pc

\* Such a step keeps its restore right.
LEMMA SameRestoreOK ==
  ASSUME NEW s \in Sandbox, RestoreOK(s), SameRestore(s), UNCHANGED <<snapshots, ws, history>>
  PROVE  RestoreOK(s)'
BY Zenon DEF RestoreOK, SameRestore, snapshots, history

\* A step of the sandboxes only.
LEMMA QuietStep ==
  ASSUME SnapshotInv, UNCHANGED <<snapshots, ws, history>>, \A s \in Sandbox : SameRestore(s)
  PROVE  SnapshotInv'
<1>1. \A s \in Sandbox : RestoreOK(s)'
  BY SameRestoreOK, Zenon DEF SnapshotInv
<1> QED
  BY <1>1, RestoresStep, Zenon DEF SnapshotInv, SnapTypeOK, history

\* Goto keeps the restores.
LEMMA GotoSame ==
  ASSUME RuntimeInv, NEW s \in Sandbox, NEW p, p \notin {"verify", "untar", "admit"}, Goto(s, p)
  PROVE  \A x \in Sandbox : SameRestore(x)
<1>1. box \in [Sandbox -> Boxes]
  BY Zenon DEF RuntimeInv, BackendTypeOK
<1> QED
  BY <1>1, Zenon DEF Goto, SameRestore, Boxes

\* So do the steps that also change the entries in the maps.
LEMMA EntriesSame ==
  ASSUME RuntimeInv, NEW s \in Sandbox, NEW p, NEW e, p \notin {"verify", "untar", "admit"},
         box' = BoxesWith(s, p, e)
  PROVE  \A x \in Sandbox : SameRestore(x)
<1>1. box \in [Sandbox -> Boxes]
  BY Zenon DEF RuntimeInv, BackendTypeOK
<1> QED
  BY <1>1, ZenonT(60) DEF BoxesWith, SameRestore, Boxes

\* Among them a kill from an error path.
LEMMA KillSame ==
  ASSUME RuntimeInv, NEW s \in Sandbox, KillAgain(s)
  PROVE  \A x \in Sandbox : SameRestore(x)
<1>1. box' = BoxesWith(s, "undoKill", {})
  BY Zenon DEF KillAgain, BoxesWith
<1> QED
  BY <1>1, EntriesSame, Zenon

\* A step of one capture.
LEMMA CaptureStep ==
  ASSUME RuntimeInv, SnapshotInv, NEW n \in Snap, NEW c \in Captures, NEW t, NEW d \in Int, NEW e \in Int,
         cap' = [cap EXCEPT ![n] = c], tarball' = [tarball EXCEPT ![n] = t],
         table' = [table EXCEPT ![n] = d], file' = [file EXCEPT ![n] = e],
         UNCHANGED <<box, ws, history>>,
         CaptureIs(c, t, d, e),
         c.pc = "save" => \A m \in Snap : cap[m].pc # "save",
         cap[n].pc \in Settled => c.pc \in Settled /\ t = tarball[n]
  PROVE  SnapshotInv'
<1>1. SnapTypeOK'
  BY Zenon DEF SnapshotInv, SnapTypeOK, history
<1>2. ASSUME NEW m \in Snap
      PROVE  CaptureIs(cap[m], tarball[m], table[m], file[m])'
  <2>1. CASE m = n
    <3>1. cap'[m] = c /\ tarball'[m] = t /\ table'[m] = d /\ file'[m] = e
      BY <2>1, Zenon DEF SnapshotInv, SnapTypeOK
    <3> QED
      BY <3>1, Zenon DEF CaptureIs
  <2>2. CASE m # n
    <3>1. cap'[m] = cap[m] /\ tarball'[m] = tarball[m] /\ table'[m] = table[m] /\ file'[m] = file[m]
      BY <2>2, Zenon DEF SnapshotInv, SnapTypeOK
    <3>2. CaptureIs(cap[m], tarball[m], table[m], file[m])
      BY Zenon DEF SnapshotInv
    <3> QED
      BY <3>1, <3>2, Zenon DEF CaptureIs
  <2> QED
    BY <2>1, <2>2, Zenon
<1>3. \A m, k \in Snap : cap'[m].pc = "save" /\ cap'[k].pc = "save" => m = k
  BY DEF SnapshotInv, SnapTypeOK
<1>4. ASSUME NEW s \in Sandbox
      PROVE  RestoreOK(s)'
  <2>1. RestoreOK(s)
    BY Zenon DEF SnapshotInv
  <2>2. CASE box[s].from = n
    <3>1. cap'[n] = c /\ tarball'[n] = t
      BY Zenon DEF SnapshotInv, SnapTypeOK
    <3> QED
      BY <2>1, <2>2, <3>1, Zenon DEF RestoreOK, history
  <2>3. CASE box[s].from # n /\ box[s].from # "none"
    <3>1. DOMAIN cap = Snap /\ DOMAIN tarball = Snap /\ box[s].from \in Snap
      BY <2>3, Zenon DEF SnapshotInv, SnapTypeOK, RuntimeInv, BackendTypeOK, Boxes
    <3>2. cap'[box[s].from] = cap[box[s].from] /\ tarball'[box[s].from] = tarball[box[s].from]
      BY <2>3, <3>1, Zenon
    <3> QED
      BY <2>1, <3>2, Zenon DEF RestoreOK, history
  <2>4. CASE box[s].from = "none"
    BY <2>1, <2>4, Zenon DEF RestoreOK
  <2> QED
    BY <2>2, <2>3, <2>4, Zenon
<1> QED
  BY <1>1, <1>2, <1>3, <1>4, Zenon DEF SnapshotInv

\* BeginSnapshot.
LEMMA BeginSnapshotStep ==
  ASSUME RuntimeInv, SnapshotInv, NEW n \in Snap, NEW s \in Sandbox, BeginSnapshot(n, s)
  PROVE  SnapshotInv'
<1>1. CaptureIs(cap[n], tarball[n], table[n], file[n]) /\ table \in [Snap -> Int] /\ file \in [Snap -> Int]
  BY Zenon DEF SnapshotInv, SnapTypeOK
<1>2. PICK c : c = [pc |-> "tar", of |-> s]
  BY Zenon
<1>3. c \in Captures /\ c.pc = "tar" /\ c.of \in Sandbox
  BY <1>2, Zenon DEF Captures
<1>4. cap[n].pc = "none"
  BY DEF BeginSnapshot, NoCapture
<1>5. PICK d, e \in Int : d = table[n] /\ e = file[n]
  BY <1>1, Zenon
<1>6. CaptureIs(c, "partial", d, e)
  BY <1>1, <1>3, <1>4, <1>5, Zenon DEF CaptureIs
<1>7. /\ cap' = [cap EXCEPT ![n] = c] /\ tarball' = [tarball EXCEPT ![n] = "partial"]
      /\ table' = [table EXCEPT ![n] = d] /\ file' = [file EXCEPT ![n] = e] /\ UNCHANGED <<box, ws, history>>
  BY <1>1, <1>2, <1>5, Zenon DEF BeginSnapshot
<1> QED
  BY <1>3, <1>4, <1>6, <1>7, CaptureStep, Zenon DEF Settled

\* The capture of n moves on.
LEMMA NewCapture ==
  ASSUME SnapshotInv, NEW n \in Snap, NEW p \in {"register", "save", "answered", "failed"}
  PROVE  \E c \in Captures : /\ c.pc = p /\ c.of = cap[n].of
                             /\ [cap EXCEPT ![n].pc = p] = [cap EXCEPT ![n] = c]
<1>1. cap \in [Snap -> Captures] /\ cap[n] \in Captures
  BY Zenon DEF SnapshotInv, SnapTypeOK
<1>2. PICK c : c = [cap[n] EXCEPT !.pc = p]
  BY Zenon
<1>3. c \in Captures /\ c.pc = p /\ c.of = cap[n].of
  BY <1>1, <1>2, Zenon DEF Captures, Settled
<1>4. [cap EXCEPT ![n].pc = p] = [cap EXCEPT ![n] = c]
  BY <1>1, <1>2, Zenon DEF Captures
<1> QED
  BY <1>3, <1>4, Zenon

\* tar and the digest, in either backend.
LEMMA TarStep ==
  ASSUME RuntimeInv, SnapshotInv, NEW n \in Snap, NEW unit, Capture(n, unit)
  PROVE  SnapshotInv'
<1>1. /\ CaptureIs(cap[n], tarball[n], table[n], file[n])
      /\ table \in [Snap -> Int] /\ file \in [Snap -> Int] /\ ws \in [Sandbox -> Contents]
  BY Zenon DEF SnapshotInv, SnapTypeOK
<1>2. cap[n].pc = "tar" /\ UNCHANGED <<box, ws, table, file, history>>
  BY Zenon DEF Capture
<1>3. cap[n].of \in Sandbox /\ table[n] = NoRef /\ file[n] = NoRef
  BY <1>1, <1>2, Zenon DEF CaptureIs
<1>4. PICK d, e \in Int : d = table[n] /\ e = file[n]
  BY <1>1, Zenon
<1>5. table' = [table EXCEPT ![n] = d] /\ file' = [file EXCEPT ![n] = e]
  BY <1>1, <1>2, <1>4, Zenon
<1>6. CASE /\ tarball' = [tarball EXCEPT ![n] = ws[cap[n].of]]
           /\ cap' = [cap EXCEPT ![n].pc = "register"]
  <2>1. PICK c \in Captures : c.pc = "register" /\ c.of = cap[n].of /\ cap' = [cap EXCEPT ![n] = c]
    BY <1>6, NewCapture, ZenonT(60)
  <2>2. PICK t \in Contents : t = ws[cap[n].of]
    BY <1>1, <1>3, Zenon
  <2>3. CaptureIs(c, t, d, e)
    BY <1>3, <1>4, <2>1, <2>2, Zenon DEF CaptureIs
  <2>4. tarball' = [tarball EXCEPT ![n] = t]
    BY <1>6, <2>2, Zenon
  <2> QED
    BY <1>2, <1>5, <2>1, <2>3, <2>4, CaptureStep, Zenon DEF Settled
<1>7. CASE /\ tarball' = [tarball EXCEPT ![n] = "none"]
           /\ cap' = [cap EXCEPT ![n].pc = "failed"]
  <2>1. PICK c \in Captures : c.pc = "failed" /\ c.of = cap[n].of /\ cap' = [cap EXCEPT ![n] = c]
    BY <1>7, NewCapture, Zenon
  <2>2. CaptureIs(c, "none", d, e)
    BY <1>3, <1>4, <2>1, Zenon DEF CaptureIs
  <2> QED
    BY <1>2, <1>5, <1>7, <2>1, <2>2, CaptureStep, Zenon DEF Settled
<1> QED
  BY <1>6, <1>7, Zenon DEF Capture

\* The reference enters the table.
LEMMA RegisterStep ==
  ASSUME RuntimeInv, SnapshotInv, NEW n \in Snap, RegisterSnapshot(n)
  PROVE  SnapshotInv'
<1>1. /\ CaptureIs(cap[n], tarball[n], table[n], file[n]) /\ DOMAIN tarball = Snap
      /\ table \in [Snap -> Int] /\ file \in [Snap -> Int]
  BY Zenon DEF SnapshotInv, SnapTypeOK
<1>2. /\ cap[n].pc = "register" /\ \A m \in Snap : cap[m].pc # "save"
      /\ UNCHANGED <<box, ws, tarball, file, history>>
      /\ table' = [table EXCEPT ![n] = tarball[n]] /\ cap' = [cap EXCEPT ![n].pc = "save"]
  BY Zenon DEF RegisterSnapshot
<1>3. cap[n].of \in Sandbox /\ table[n] = NoRef /\ file[n] = NoRef /\ tarball[n] \in Contents
  BY <1>1, <1>2, Zenon DEF CaptureIs
<1>4. PICK t \in Contents : t = tarball[n]
  BY <1>3, Zenon
<1>5. PICK e \in Int : e = file[n]
  BY <1>1, Zenon
<1>6. PICK c \in Captures : c.pc = "save" /\ c.of = cap[n].of /\ cap' = [cap EXCEPT ![n] = c]
  BY <1>2, NewCapture, ZenonT(60)
<1>7. CaptureIs(c, t, t, e)
  BY <1>3, <1>4, <1>5, <1>6, Zenon DEF CaptureIs
<1>8. file' = [file EXCEPT ![n] = e] /\ table' = [table EXCEPT ![n] = t] /\ t \in Int
  BY <1>1, <1>2, <1>4, <1>5, Zenon DEF Contents
<1>9. tarball' = [tarball EXCEPT ![n] = t]
  BY <1>1, <1>2, <1>4, Zenon DEF SnapshotInv, SnapTypeOK
<1> QED
  BY <1>2, <1>6, <1>7, <1>8, <1>9, CaptureStep, Zenon DEF Settled

\* saveSnapshots, or the reference goes again.
LEMMA SaveStep ==
  ASSUME RuntimeInv, SnapshotInv, NEW n \in Snap, SaveSnapshots(n)
  PROVE  SnapshotInv'
<1>1. /\ \A m \in Snap : CaptureIs(cap[m], tarball[m], table[m], file[m])
      /\ table \in [Snap -> Int] /\ file \in [Snap -> Int] /\ DOMAIN tarball = Snap
      /\ \A m \in Snap : cap[m].pc = "save" => m = n
  BY Zenon DEF SnapshotInv, SnapTypeOK, SaveSnapshots
<1>2. cap[n].pc = "save" /\ UNCHANGED <<box, ws, tarball, history>>
  BY Zenon DEF SaveSnapshots
<1>3. cap[n].of \in Sandbox /\ table[n] \in Contents /\ file[n] = NoRef /\ tarball[n] \in {table[n], Rotten}
  BY <1>1, <1>2, Zenon DEF CaptureIs, Contents
<1>4. PICK t, d \in Int : t = tarball[n] /\ d = table[n]
  BY <1>1, <1>3, SMTT(60) DEF Rotten
<1>5. tarball' = [tarball EXCEPT ![n] = t]
  BY <1>1, <1>2, <1>4, Zenon DEF SnapshotInv, SnapTypeOK
<1>6. CASE file' = table /\ cap' = [cap EXCEPT ![n].pc = "answered"] /\ table' = table
  <2>1. PICK c \in Captures : c.pc = "answered" /\ c.of = cap[n].of /\ cap' = [cap EXCEPT ![n] = c]
    BY <1>6, NewCapture, Zenon
  <2>2. \A m \in Snap : m # n => file[m] = table[m]
    BY <1>1, Zenon DEF CaptureIs
  <2>3. file' = [file EXCEPT ![n] = d] /\ table' = [table EXCEPT ![n] = d]
    BY <1>1, <1>4, <1>6, <2>2, Zenon
  <2>4. CaptureIs(c, t, d, d)
    BY <1>3, <1>4, <2>1, Zenon DEF CaptureIs
  <2> QED
    BY <1>2, <1>4, <1>5, <2>1, <2>3, <2>4, CaptureStep, Zenon DEF Settled
<1>7. CASE table' = [table EXCEPT ![n] = NoRef] /\ cap' = [cap EXCEPT ![n].pc = "failed"] /\ file' = file
  <2>1. PICK c \in Captures : c.pc = "failed" /\ c.of = cap[n].of /\ cap' = [cap EXCEPT ![n] = c]
    BY <1>7, NewCapture, Zenon
  <2>2. file' = [file EXCEPT ![n] = NoRef] /\ NoRef \in Int
    BY <1>1, <1>3, <1>7, Zenon DEF NoRef
  <2>3. CaptureIs(c, t, NoRef, NoRef)
    BY <1>3, <2>1, Zenon DEF CaptureIs
  <2> QED
    BY <1>2, <1>4, <1>5, <1>7, <2>1, <2>2, <2>3, CaptureStep, Zenon DEF Settled
<1> QED
  BY <1>6, <1>7, Zenon DEF SaveSnapshots

\* A tarball is damaged: a restore that is not past its check will find it.
LEMMA RotStep ==
  ASSUME RuntimeInv, SnapshotInv, NEW n \in Snap, Rot(n)
  PROVE  SnapshotInv'
<1>1. /\ table[n] # NoRef /\ tarball' = [tarball EXCEPT ![n] = Rotten]
      /\ late' = late \cup {s \in Sandbox : At(s, "untar") /\ box[s].from = n}
      /\ UNCHANGED <<box, ws, cap, table, file, writes>>
  BY Zenon DEF Rot
<1>2. SnapTypeOK'
  BY <1>1, Zenon DEF SnapshotInv, SnapTypeOK
<1>3. ASSUME NEW m \in Snap
      PROVE  CaptureIs(cap[m], tarball[m], table[m], file[m])'
  <2>1. CaptureIs(cap[m], tarball[m], table[m], file[m])
    BY Zenon DEF SnapshotInv
  <2>2. tarball'[m] = IF m = n THEN Rotten ELSE tarball[m]
    BY <1>1, Zenon DEF SnapshotInv, SnapTypeOK
  <2> QED
    BY <1>1, <2>1, <2>2, Zenon DEF CaptureIs, Contents, Rotten, NoRef
<1>4. \A m, k \in Snap : cap'[m].pc = "save" /\ cap'[k].pc = "save" => m = k
  BY <1>1, Zenon DEF SnapshotInv
<1>5. ASSUME NEW s \in Sandbox
      PROVE  RestoreOK(s)'
  <2>1. RestoreOK(s)
    BY Zenon DEF SnapshotInv
  <2>2. CASE box[s].from = "none"
    BY <1>1, <2>1, <2>2, Zenon DEF RestoreOK
  <2>3. CASE box[s].from # "none" /\ box[s].from # n
    <3>1. box[s].from \in Snap
      BY <2>3, Zenon DEF RuntimeInv, BackendTypeOK, Boxes
    <3>2. tarball'[box[s].from] = tarball[box[s].from]
      BY <1>1, <2>3, <3>1, Zenon DEF SnapshotInv, SnapTypeOK
    <3> QED
      BY <1>1, <2>1, <3>2, Zenon DEF RestoreOK
  <2>4. CASE box[s].from = n
    <3>1. tarball'[n] = Rotten
      BY <1>1, Zenon DEF SnapshotInv, SnapTypeOK
    <3>2. box[s].pc = "untar" => s \in late'
      BY <1>1, <2>4, Zenon DEF At
    <3> QED
      BY <1>1, <2>1, <2>4, <3>1, <3>2, Zenon DEF RestoreOK
  <2> QED
    BY <2>2, <2>3, <2>4, Zenon
<1> QED
  BY <1>2, <1>3, <1>4, <1>5, Zenon DEF SnapshotInv

\* The process ends: captures under way are lost, and the file is read.
LEMMA RestartSnapshotStep ==
  ASSUME RuntimeInv, SnapshotInv, Restart
  PROVE  SnapshotInv'
<1>1. /\ cap' = [n \in Snap |-> IF cap[n].pc \in {"tar", "register", "save"} THEN [cap[n] EXCEPT !.pc = "lost"] ELSE cap[n]]
      /\ table' = file /\ UNCHANGED <<ws, tarball, file, late, writes>>
      /\ box' = [s \in Sandbox |-> IF Busy(s) THEN [box[s] EXCEPT !.pc = "lost", !.reg = {}] ELSE box[s]]
  BY Zenon DEF Restart, history
<1>2. ASSUME NEW n \in Snap
      PROVE  /\ cap'[n] \in Captures /\ cap'[n].pc # "save"
             /\ CaptureIs(cap[n], tarball[n], table[n], file[n])'
             /\ cap[n].pc \in Settled => cap'[n].pc \in Settled
  <2>1. CaptureIs(cap[n], tarball[n], table[n], file[n]) /\ cap[n] \in Captures
    BY Zenon DEF SnapshotInv, SnapTypeOK
  <2>2. table'[n] = file[n] /\ file'[n] = file[n] /\ tarball'[n] = tarball[n]
    BY <1>1, Zenon
  <2>3. CASE cap[n].pc \in {"tar", "register", "save"}
    <3>1. PICK c : c = [cap[n] EXCEPT !.pc = "lost"]
      BY Zenon
    <3>2. cap'[n] = c
      BY <1>1, <2>3, <3>1, Zenon
    <3>3. c \in Captures /\ c.pc = "lost" /\ c.of = cap[n].of
      BY <2>1, <3>1, Zenon DEF Captures, Settled
    <3> QED
      BY <2>1, <2>2, <2>3, <3>2, <3>3, Zenon DEF CaptureIs, Settled
  <2>4. CASE cap[n].pc \notin {"tar", "register", "save"}
    <3>1. cap'[n] = cap[n]
      BY <1>1, <2>4, Zenon
    <3> QED
      BY <2>1, <2>2, <2>4, <3>1, Zenon DEF CaptureIs
  <2> QED
    BY <2>3, <2>4, Zenon
<1>3. SnapTypeOK'
  BY <1>1, <1>2, Zenon DEF SnapshotInv, SnapTypeOK
<1>4. ASSUME NEW s \in Sandbox
      PROVE  RestoreOK(s)'
  <2>1. RestoreOK(s) /\ box[s] \in Boxes
    BY Zenon DEF SnapshotInv, RuntimeInv, BackendTypeOK
  <2>2. /\ box'[s].from = box[s].from /\ box'[s].digest = box[s].digest
        /\ box'[s].pc \in {box[s].pc, "lost"}
    <3>1. box'[s] = IF Busy(s) THEN [box[s] EXCEPT !.pc = "lost", !.reg = {}] ELSE box[s]
      BY <1>1, Zenon
    <3> QED
      BY <2>1, <3>1, Zenon DEF Boxes
  <2>3. box[s].from # "none" => box[s].from \in Snap
    BY <2>1, Zenon DEF Boxes
  <2> QED
    BY <1>1, <1>2, <2>1, <2>2, <2>3, Zenon DEF RestoreOK
<1> QED
  BY <1>2, <1>3, <1>4, Zenon DEF SnapshotInv

\* A restore begins from a registered snapshot.
LEMMA BeginRestoreStep ==
  ASSUME RuntimeInv, SnapshotInv, NEW s \in Sandbox, Begin(s)
  PROVE  SnapshotInv'
<1>1. PICK sp \in Specs, n \in {"none"} \cup {m \in Snap : table[m] # NoRef} :
        box' = [box EXCEPT ![s] = [pc |-> IF K8s THEN "namespace" ELSE "storage",
                                   spec |-> sp, from |-> n,
                                   digest |-> IF n = "none" THEN NoRef ELSE table[n], reg |-> {}]]
  BY Zenon DEF Begin
<1>2. UNCHANGED <<snapshots, ws, history>> /\ box \in [Sandbox -> Boxes]
  BY Zenon DEF Begin, RuntimeInv, BackendTypeOK
<1>3. \A x \in Sandbox : x # s => SameRestore(x)
  BY <1>1, <1>2, Zenon DEF SameRestore
<1>4. RestoreOK(s)'
  <2>1. /\ box'[s].from = n /\ box'[s].pc \in {"namespace", "storage"}
        /\ n # "none" => box'[s].digest = table[n]
    BY <1>1, <1>2, Zenon
  <2>2. CASE n = "none"
    BY <2>1, <2>2, Zenon DEF RestoreOK
  <2>3. CASE n # "none"
    <3>1. CaptureIs(cap[n], tarball[n], table[n], file[n]) /\ table[n] # NoRef /\ cap[n] \in Captures
      BY <2>3, Zenon DEF SnapshotInv, SnapTypeOK
    <3>2. cap[n].pc \in Settled /\ table[n] \in Contents /\ tarball[n] \in {table[n], Rotten}
      BY <3>1, Zenon DEF CaptureIs, Captures, Settled
    <3> QED
      BY <1>2, <2>1, <3>2, Zenon DEF RestoreOK, snapshots
  <2> QED
    BY <2>2, <2>3, Zenon
<1>5. \A x \in Sandbox : RestoreOK(x)'
  BY <1>2, <1>3, <1>4, SameRestoreOK, Zenon DEF SnapshotInv
<1> QED
  BY <1>2, <1>5, RestoresStep, Zenon DEF SnapshotInv, SnapTypeOK, history

\* Verify and untar, of either backend.
LEMMA VerifyStep ==
  ASSUME RuntimeInv, SnapshotInv, NEW s \in Sandbox, VerifySnapshot(s)
  PROVE  SnapshotInv'
<1>1. UNCHANGED <<snapshots, ws, history>> /\ box \in [Sandbox -> Boxes]
  BY Zenon DEF VerifySnapshot, RuntimeInv, BackendTypeOK
<1>2. CASE Goto(s, "untar") /\ tarball[box[s].from] = box[s].digest
  <2>1. \A x \in Sandbox : x # s => SameRestore(x)
    BY <1>1, <1>2, Zenon DEF SameRestore, Goto
  <2>2. box'[s].from = box[s].from /\ box'[s].digest = box[s].digest /\ box'[s].pc = "untar"
    BY <1>1, <1>2, Zenon DEF Goto, Boxes
  <2>3. RestoreOK(s) /\ box[s].from # "none"
    BY Zenon DEF SnapshotInv, RestoreOK, VerifySnapshot, At
  <2>5. RestoreOK(s)'
    BY <1>1, <1>2, <2>2, <2>3, Zenon DEF RestoreOK, snapshots
  <2>4. \A x \in Sandbox : RestoreOK(x)'
    BY <1>1, <2>1, <2>5, SameRestoreOK, Zenon DEF SnapshotInv
  <2> QED
    BY <1>1, <2>4, RestoresStep, Zenon DEF SnapshotInv, SnapTypeOK, history
<1>3. CASE KillAgain(s)
  BY <1>1, <1>3, KillSame, QuietStep, Zenon
<1> QED
  BY <1>2, <1>3, Zenon DEF VerifySnapshot, StepOrKill, FailsKilling

\* What is unpacked is what was checked.
LEMMA UntarStep ==
  ASSUME RuntimeInv, SnapshotInv, NEW s \in Sandbox, Untar(s)
  PROVE  SnapshotInv'
<1>1. UNCHANGED <<snapshots, history>> /\ box \in [Sandbox -> Boxes] /\ box[s].pc = "untar"
  BY Zenon DEF Untar, At, RuntimeInv, BackendTypeOK
<1>2. RestoreOK(s) /\ ws \in [Sandbox -> Contents] /\ box[s].from # "none"
  BY <1>1, Zenon DEF SnapshotInv, SnapTypeOK, RestoreOK
<1>3. CASE ws' = [ws EXCEPT ![s] = tarball[box[s].from]] /\ Goto(s, "admit")
  <2>1. \A x \in Sandbox : x # s => SameRestore(x) /\ ws'[x] = ws[x]
    BY <1>1, <1>2, <1>3, Zenon DEF SameRestore, Goto
  <2>2. /\ box'[s].from = box[s].from /\ box'[s].digest = box[s].digest /\ box'[s].pc = "admit"
        /\ ws'[s] = tarball[box[s].from]
    BY <1>1, <1>2, <1>3, Zenon DEF Goto, Boxes
  <2>3. RestoreOK(s)'
    BY <1>1, <1>2, <2>2, Zenon DEF RestoreOK, snapshots, history
  <2>4. ASSUME NEW x \in Sandbox, x # s PROVE RestoreOK(x)'
    <3>1. RestoreOK(x) /\ SameRestore(x) /\ ws'[x] = ws[x]
      BY <2>1, <2>4, Zenon DEF SnapshotInv
    <3> QED
      BY <1>1, <3>1, Zenon DEF RestoreOK, SameRestore, snapshots, history
  <2>5. tarball[box[s].from] \in Contents
    <3>1. box[s].digest \in Contents /\ tarball[box[s].from] \in {box[s].digest, Rotten}
      BY <1>2, Zenon DEF RestoreOK
    <3>2. Rotten \in Contents
      BY DEF Contents, Rotten, NoRef
    <3> QED
      BY <3>1, <3>2, Zenon
  <2>6. ws' \in [Sandbox -> Contents]
    BY <1>2, <1>3, <2>5, Zenon
  <2> QED
    BY <1>1, <2>3, <2>4, <2>6, RestoresStep, Zenon DEF SnapshotInv, SnapTypeOK, history
<1>4. CASE KillAgain(s) /\ ws' = ws
  BY <1>1, <1>4, KillSame, QuietStep, Zenon
<1> QED
  BY <1>3, <1>4, Zenon DEF Untar, FailsKilling

\* The other steps of Create.
LEMMA CreateQuietStep ==
  ASSUME RuntimeInv, SnapshotInv, NEW s \in Sandbox,
         DockerCreate(s) \/ K8sCreate(s) \/ SeedWorkspace(s) \/ CopyFiles(s) \/ Admit(s)
  PROVE  SnapshotInv'
<1>1. UNCHANGED <<snapshots, ws, history>>
  BY Zenon DEF DockerCreate, K8sCreate, CreateVolume, StartHostProxy, StartEgressContainer, WaitEgressReady,
         RunContainer, ContainerUp, EnsureNamespace, EnsureNetworkPolicy, CreateClaim, CreateConfigMap,
         CreatePod, PodUp, EnsureIDEIngress, SeedWorkspace, CopyFiles, Admit
<1>2. CASE DockerCreate(s)
  <2>1. \/ \E p \in {"run", "egress", "egressWait", "wait", "undo"} : Goto(s, p)
        \/ box' = BoxesWith(s, "seed", Named(EgressUndo(s)))
    BY <1>2, Zenon DEF DockerCreate, CreateVolume, StartHostProxy, StartEgressContainer, WaitEgressReady,
                RunContainer, ContainerUp, Adds, Fails, BoxesWith
  <2>2. \A x \in Sandbox : SameRestore(x)
    BY <2>1, GotoSame, EntriesSame, Zenon
  <2> QED
    BY <1>1, <2>2, QuietStep, Zenon
<1>3. CASE K8sCreate(s)
  <2>1. \/ \E p \in {"policy", "storage", "run", "egress", "wait", "ingress", "seed", "undo"} : Goto(s, p)
        \/ KillAgain(s)
    BY <1>3, Zenon DEF K8sCreate, EnsureNamespace, EnsureNetworkPolicy, CreateClaim, CreateConfigMap,
                CreatePod, PodUp, EnsureIDEIngress, Adds, Fails, StepOrKill, FailsKilling
  <2>2. \A x \in Sandbox : SameRestore(x)
    BY <2>1, GotoSame, KillSame, Zenon
  <2> QED
    BY <1>1, <2>2, QuietStep, SMTT(60)
<1>4. CASE SeedWorkspace(s) \/ Admit(s)
  <2>1. Goto(s, "files") \/ Goto(s, "live") \/ KillAgain(s)
    BY <1>4, Zenon DEF SeedWorkspace, Admit, StepOrKill, FailsKilling
  <2>2. \A x \in Sandbox : SameRestore(x)
    BY <2>1, GotoSame, KillSame, Zenon
  <2> QED
    BY <1>1, <2>2, QuietStep
<1>5. CASE CopyFiles(s)
  <2>1. PICK p : p = IF box[s].from = "none" THEN "admit" ELSE "verify"
    BY Zenon
  <2>2. Goto(s, p) \/ KillAgain(s)
    BY <1>5, <2>1, Zenon DEF CopyFiles, StepOrKill, FailsKilling
  <2>3. box \in [Sandbox -> Boxes]
    BY Zenon DEF RuntimeInv, BackendTypeOK
  <2>4. Goto(s, p) => \A x \in Sandbox : SameRestore(x)
    BY <2>1, <2>3, SMTT(60) DEF Goto, SameRestore, Boxes
  <2> QED
    BY <1>1, <2>2, <2>4, KillSame, QuietStep, Zenon
<1> QED
  BY <1>2, <1>3, <1>4, <1>5, Zenon

\* Commands in the sandbox change a workspace that is nobody's captured content.
LEMMA ExecStep ==
  ASSUME RuntimeInv, SnapshotInv, NEW s \in Sandbox, Exec(s)
  PROVE  SnapshotInv'
<1>1. /\ box[s].pc = "live" /\ writes \in Nat /\ ws \in [Sandbox -> Contents]
      /\ writes' = writes + 1 /\ ws' = [ws EXCEPT ![s] = writes + 1]
      /\ UNCHANGED <<box, snapshots, late>>
  BY Zenon DEF Exec, At, SnapshotInv, SnapTypeOK
<1>2. writes' \in Nat /\ ws' \in [Sandbox -> Contents]
  BY <1>1, SMTT(60) DEF Contents, NoRef
<1>3. ASSUME NEW x \in Sandbox PROVE RestoreOK(x)'
  BY <1>1, Zenon DEF SnapshotInv, RestoreOK, snapshots
<1> QED
  BY <1>1, <1>2, <1>3, RestoresStep, Zenon

\* Kill and the removals.
LEMMA RemovalQuietStep ==
  ASSUME RuntimeInv, SnapshotInv, NEW s \in Sandbox, Kill(s) \/ RunRemoval(s) \/ Removed(s)
  PROVE  SnapshotInv'
<1>1. UNCHANGED <<snapshots, ws, history>>
  BY Zenon DEF Kill, RunRemoval, Removed
<1>2. CASE Kill(s)
  <2>1. box' = BoxesWith(s, "killing", {})
    BY <1>2, Zenon DEF Kill, BoxesWith
  <2> QED
    BY <1>1, <2>1, EntriesSame, QuietStep, Zenon
<1>3. CASE RunRemoval(s)
  <2>1. box' = box
    BY <1>3, Zenon DEF RunRemoval
  <2>2. \A x \in Sandbox : SameRestore(x)
    BY <2>1, Zenon DEF SameRestore
  <2> QED
    BY <1>1, <2>2, QuietStep, Zenon
<1>4. CASE Removed(s)
  <2>1. Goto(s, "killed") \/ Goto(s, "failed")
    BY <1>4, Zenon DEF Removed
  <2>2. \A x \in Sandbox : SameRestore(x)
    BY <2>1, GotoSame, Zenon
  <2> QED
    BY <1>1, <2>2, QuietStep, SMTT(60)
<1> QED
  BY <1>2, <1>3, <1>4, Zenon

-----------------------------------------------------------------------------
(* The invariants and what follows from them *)

\* Before anything was created.
LEMMA InitialBackends ==
  ASSUME Init
  PROVE  RuntimeInv /\ SnapshotInv
<1>1. NoSpec \in Spec4 /\ "none" \in Pcs /\ "none" \in Early /\ "none" \notin Removing \cup Over \cup Up
  BY Zenon DEF NoSpec, Spec4, Pcs, Early, Removing, Over, Up
<1>2. Unused \in Boxes /\ Unused.pc = "none" /\ Unused.from = "none"
  BY <1>1, SMTT(60) DEF Unused, Boxes, NoRef
<1>3. /\ box \in [Sandbox -> Boxes] /\ \A s \in Sandbox : box[s] = Unused
      /\ DOMAIN res = Sandbox /\ DOMAIN todo = Sandbox
      /\ \A s \in Sandbox : res[s] = {} /\ todo[s] = <<>>
  BY <1>2, Zenon DEF Init
<1>4. res = [s \in Sandbox |-> res[s]] /\ todo = [s \in Sandbox |-> todo[s]]
  BY Zenon DEF Init
<1>5. policyOn \in BOOLEAN /\ deny \in BOOLEAN
  BY Zenon DEF Init
<1>6. ASSUME NEW s \in Sandbox PROVE SandboxOK(box[s], res[s], todo[s])
  <2>1. ExtentOK(box[s], res[s], todo[s])
    BY <1>1, <1>2, <1>3, Zenon DEF ExtentOK, Guarded
  <2>2. DockerOK(box[s], res[s])
    BY <1>1, <1>2, <1>3, Zenon DEF DockerOK
  <2>3. K8sOK(box[s], res[s])
    BY <1>2, <1>3, Zenon DEF K8sOK
  <2> QED
    BY <2>1, <2>2, <2>3, Zenon DEF SandboxOK
<1>7. NoCapture \in Captures /\ NoCapture.pc = "none"
  BY Zenon DEF NoCapture, Captures
<1>8. SnapTypeOK
  BY <1>7 DEF Init, SnapTypeOK, NoRef, Contents
<1>9. ASSUME NEW n \in Snap PROVE CaptureIs(cap[n], tarball[n], table[n], file[n]) /\ cap[n].pc # "save"
  <2>1. cap[n] = NoCapture /\ table[n] = NoRef /\ file[n] = NoRef
    BY Zenon DEF Init
  <2> QED
    BY <1>7, <2>1, Zenon DEF CaptureIs
<1>10. ASSUME NEW s \in Sandbox PROVE RestoreOK(s)
  BY <1>2, <1>3, Zenon DEF RestoreOK
<1> QED
  BY <1>3, <1>4, <1>5, <1>6, <1>8, <1>9, <1>10, Zenon DEF RuntimeInv, BackendTypeOK, SnapshotInv

\* Captures, commands and damage to tarballs leave the runtime as it is.
LEMMA OtherRuntimeStep ==
  ASSUME RuntimeInv,
         \/ \E s \in Sandbox : Exec(s)
         \/ \E n \in Snap : \/ DockerSnapshot(n) \/ K8sSnapshot(n) \/ RegisterSnapshot(n) \/ SaveSnapshots(n)
                            \/ Rot(n) \/ \E s \in Sandbox : BeginSnapshot(n, s)
  PROVE  RuntimeInv'
<1>1. UNCHANGED cluster /\ UNCHANGED <<box, res, todo>> /\ spilled' = spilled
  BY Zenon DEF Exec, DockerSnapshot, K8sSnapshot, Capture, RegisterSnapshot, SaveSnapshots, Rot, BeginSnapshot
<1>2. SharedKept
  BY <1>1, SharedStays, Zenon
<1> QED
  BY <1>1, <1>2, NoSandboxStep, Zenon

\* Every step of Create.
LEMMA CreateStep ==
  ASSUME RuntimeInv, SnapshotInv, NEW s \in Sandbox, Create(s)
  PROVE  RuntimeInv' /\ SnapshotInv'
<1>1. CASE Begin(s)
  BY <1>1, BeginStep, BeginRestoreStep, Zenon DEF SnapshotInv
<1>2. CASE DockerCreate(s)
  <2>1. RuntimeInv'
    BY <1>2, CreateVolumeStep, StartHostProxyStep, StartEgressContainerStep, WaitEgressReadyStep,
       RunContainerStep, ContainerUpStep, Zenon DEF DockerCreate
  <2> QED
    BY <1>2, <2>1, CreateQuietStep, Zenon
<1>3. CASE K8sCreate(s)
  <2>1. RuntimeInv'
    BY <1>3, EnsureNamespaceStep, EnsureNetworkPolicyStep, CreateClaimStep, CreateConfigMapStep,
       CreatePodStep, PodUpStep, EnsureIDEIngressStep, Zenon DEF K8sCreate
  <2> QED
    BY <1>3, <2>1, CreateQuietStep, Zenon
<1>4. CASE SeedWorkspace(s) \/ CopyFiles(s) \/ Admit(s)
  BY <1>4, FinishStep, CreateQuietStep, Zenon
<1>5. CASE VerifySnapshot(s)
  BY <1>5, FinishStep, VerifyStep, Zenon
<1>6. CASE Untar(s)
  BY <1>6, FinishStep, UntarStep, Zenon
<1> QED
  BY <1>1, <1>2, <1>3, <1>4, <1>5, <1>6, Zenon DEF Create, DockerRestore, K8sRestore

\* Every step of the backends.
LEMMA BackendStep ==
  ASSUME RuntimeInv, SnapshotInv, [Next]_vars
  PROVE  RuntimeInv' /\ SnapshotInv'
<1>1. ASSUME NEW s \in Sandbox, Create(s) PROVE RuntimeInv' /\ SnapshotInv'
  BY <1>1, CreateStep, Zenon
<1>2. ASSUME NEW s \in Sandbox, Exec(s) PROVE RuntimeInv' /\ SnapshotInv'
  BY <1>2, ExecStep, OtherRuntimeStep, Zenon
<1>3. ASSUME NEW s \in Sandbox, Kill(s) \/ RunRemoval(s) \/ Removed(s) PROVE RuntimeInv' /\ SnapshotInv'
  BY <1>3, KillSandboxStep, RunRemovalStep, RemovedStep, RemovalQuietStep, Zenon
<1>4. ASSUME NEW n \in Snap, DockerSnapshot(n) \/ K8sSnapshot(n) PROVE SnapshotInv'
  BY <1>4, TarStep, Zenon DEF DockerSnapshot, K8sSnapshot
<1>5. ASSUME NEW n \in Snap, RegisterSnapshot(n) PROVE SnapshotInv'
  BY <1>5, RegisterStep, Zenon
<1>6. ASSUME NEW n \in Snap, SaveSnapshots(n) PROVE SnapshotInv'
  BY <1>6, SaveStep, Zenon
<1>7. ASSUME NEW n \in Snap, Rot(n) PROVE SnapshotInv'
  BY <1>7, RotStep
<1>8. ASSUME NEW n \in Snap, NEW s \in Sandbox, BeginSnapshot(n, s) PROVE SnapshotInv'
  BY <1>8, BeginSnapshotStep, Zenon
<1>9. CASE \E n \in Snap : \/ DockerSnapshot(n) \/ K8sSnapshot(n) \/ RegisterSnapshot(n) \/ SaveSnapshots(n)
                           \/ Rot(n) \/ \E s \in Sandbox : BeginSnapshot(n, s)
  <2>1. RuntimeInv'
    BY <1>9, OtherRuntimeStep, Zenon
  <2>2. SnapshotInv'
    BY <1>4, <1>5, <1>6, <1>7, <1>8, <1>9, Zenon
  <2> QED
    BY <2>1, <2>2, Zenon
<1>10. CASE Restart
  BY <1>10, RestartRuntimeStep, RestartSnapshotStep, Zenon
<1>11. CASE UNCHANGED vars
  <2>1. RuntimeInv'
    BY <1>11, SharedStays, NoSandboxStep, Zenon DEF vars, cluster
  <2>2. \A x \in Sandbox : SameRestore(x)
    BY <1>11, Zenon DEF vars, SameRestore
  <2>3. UNCHANGED <<snapshots, ws, history>>
    BY <1>11, Zenon DEF vars, snapshots, history
  <2> QED
    BY <2>1, <2>2, <2>3, QuietStep, Zenon
<1> QED
  BY <1>1, <1>2, <1>3, <1>9, <1>10, <1>11, Zenon DEF Next

\* What exists of every sandbox is what its request came to, and the removals
\* under way cover it; captures, table, file, tarballs and restores agree.
THEOREM BackendInvariant == Spec => [](RuntimeInv /\ SnapshotInv)
<1>1. Init => RuntimeInv /\ SnapshotInv
  BY InitialBackends, Zenon
<1>2. RuntimeInv /\ SnapshotInv /\ [Next]_vars => (RuntimeInv /\ SnapshotInv)'
  BY BackendStep, Zenon
<1> QED
  BY <1>1, <1>2, PTL DEF Spec

\* The error paths of Create and RestoreWithSpec, and Kill, leave nothing behind
\* that the runtime was willing to remove (docker.go, k8s.go).
THEOREM CleanUp == Spec => []NothingLeaks
<1>1. RuntimeInv => NothingLeaks
  BY Zenon DEF RuntimeInv, SandboxOK, ExtentOK, NothingLeaks
<1> QED
  BY <1>1, BackendInvariant, PTL

\* A container under strict egress has its sidecar ready as long as it exists,
\* and a pod its namespace and its default-deny policy.
THEOREM Enforced == Spec => []EnforcedWhileRunning
<1>1. RuntimeInv => EnforcedWhileRunning
  BY Zenon DEF RuntimeInv, SandboxOK, ExtentOK, Guarded, K8sOK, EnforcedWhileRunning
<1> QED
  BY <1>1, BackendInvariant, PTL

\* An answered snapshot is in the file, over any crash, and every reference has
\* its whole tarball, unless the disk damaged it (snapshots.go).
THEOREM Durable == Spec => []SnapshotsAreDurable
<1>1. SnapshotInv => SnapshotsAreDurable
  <2> SUFFICES ASSUME SnapshotInv, NEW n \in Snap
               PROVE  /\ cap[n].pc = "answered" => table[n] # NoRef /\ file[n] = table[n]
                      /\ table[n] # NoRef => tarball[n] \in {table[n], Rotten}
                      /\ table[n] # file[n] => cap[n].pc = "save"
    BY Zenon DEF SnapshotsAreDurable
  <2>1. CaptureIs(cap[n], tarball[n], table[n], file[n])
    BY Zenon DEF SnapshotInv
  <2> QED
    BY <2>1, Zenon DEF CaptureIs, Contents
<1> QED
  BY <1>1, BackendInvariant, PTL

\* A restored sandbox is admitted with the content that was captured, unless the
\* tarball was damaged between the check of its digest and its extraction.
THEOREM Restored == Spec => []RestoredIsCaptured
<1>1. SnapshotInv => RestoredIsCaptured
  BY Zenon DEF SnapshotInv, RestoreOK, RestoredIsCaptured, At
<1> QED
  BY <1>1, BackendInvariant, PTL
=============================================================================
