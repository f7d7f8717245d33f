------------------------- MODULE AgentSessionsProofs -------------------------
(***************************************************************************)
(* Proofs about agent sessions, for any number of sessions that run and    *)
(* save at once, any number of stops and failed saves, and any length of   *)
(* the transcript and of its window in memory.                             *)
(*                                                                         *)
(* SessionInv ties three copies of a session to each other: the session in *)
(* memory, its record in the file and in every snapshot that is on its way *)
(* there, and its transcript.                                              *)
(***************************************************************************)
EXTENDS AgentSessions, TLAPS

-----------------------------------------------------------------------------
(* Sequences *)

\* A sequence is a function on its places.
LEMMA SeqPlaces ==
  ASSUME NEW T, NEW s \in Seq(T)
  PROVE  Len(s) \in Nat /\ DOMAIN s = 1 .. Len(s) /\ s \in [1 .. Len(s) -> T]
  OBVIOUS

LEMMA SeqElement ==
  ASSUME NEW T, NEW s \in Seq(T), NEW i \in 1 .. Len(s)
  PROVE  s[i] \in T
  OBVIOUS

LEMMA SeqNothing ==
  ASSUME NEW T
  PROVE  <<>> \in Seq(T) /\ Len(<<>>) = 0 /\ \A s \in Seq(T) : s # <<>> => Len(s) \in Nat \ {0}
  OBVIOUS

LEMMA SeqExtensional ==
  ASSUME NEW T, NEW r \in Seq(T), NEW s \in Seq(T), Len(r) = Len(s),
         \A i \in 1 .. Len(r) : r[i] = s[i]
  PROVE  r = s
  OBVIOUS

LEMMA SeqAppend ==
  ASSUME NEW T, NEW s \in Seq(T), NEW x \in T
  PROVE  /\ Append(s, x) \in Seq(T) /\ Append(s, x) # <<>> /\ Len(Append(s, x)) = Len(s) + 1
         /\ Append(s, x)[Len(s) + 1] = x
         /\ \A i \in 1 .. Len(s) : Append(s, x)[i] = s[i]
  OBVIOUS

LEMMA SeqConcat ==
  ASSUME NEW T, NEW r \in Seq(T), NEW s \in Seq(T)
  PROVE  /\ r \o s \in Seq(T) /\ Len(r \o s) = Len(r) + Len(s)
         /\ \A i \in 1 .. Len(r) + Len(s) :
              (r \o s)[i] = IF i <= Len(r) THEN r[i] ELSE s[i - Len(r)]
  OBVIOUS

LEMMA SeqConcatNothing ==
  ASSUME NEW T, NEW s \in Seq(T)
  PROVE  s \o <<>> = s /\ <<>> \o s = s
  OBVIOUS

LEMMA SeqHeadTail ==
  ASSUME NEW T, NEW s \in Seq(T), s # <<>>
  PROVE  /\ Head(s) \in T /\ Tail(s) \in Seq(T) /\ Len(Tail(s)) = Len(s) - 1
         /\ \A i \in 1 .. Len(Tail(s)) : Tail(s)[i] = s[i + 1]
  OBVIOUS

LEMMA SeqSubSeq ==
  ASSUME NEW T, NEW s, NEW a \in Int, NEW b \in Int, \A i \in a .. b : s[i] \in T
  PROVE  /\ SubSeq(s, a, b) \in Seq(T)
         /\ Len(SubSeq(s, a, b)) = IF a <= b THEN b - a + 1 ELSE 0
         /\ \A i \in 1 .. b - a + 1 : SubSeq(s, a, b)[i] = s[a + i - 1]
  OBVIOUS

-----------------------------------------------------------------------------
(* Agent sessions: what memory, the metadata file and the transcript say      *)

\* Where the thread of a session is: the session is in memory; the final status
\* is set; a snapshot is on its way to the file; the thread has ended.
InMemory == {"registered", "writeStart", "rollback", "launched", "running", "writeRunning",
             "announce", "exec", "finish", "marked", "final", "writeFinal", "closing"}
Finished == {"final", "writeFinal", "closing", "done", "dead"}
Writing == {"writeStart", "writeRunning", "writeFinal"}
Over == {"done", "refused", "dead"}

Ends == {"completed", "failed", "denied", "canceled"}

Session == [status: Status, lastSeq: Nat, truncated: BOOLEAN, events: Seq(Event)]
Saved == [status: Status, lastSeq: Nat, truncated: BOOLEAN]
ThreadState == [pc: InMemory \cup Over \cup {"idle", "found"}, snap: [Agent -> Saved \cup {Absent}],
                status: Ends \cup {"queued"}]
\* What a client that lost events was given is left open.
StreamShape(s) ==
  /\ s = [a |-> s.a, open |-> s.open, queue |-> s.queue, got |-> s.got, ended |-> s.ended,
          lossy |-> s.lossy]
  /\ s.a \in Agent \cup {"none"} /\ s.open \in BOOLEAN /\ s.ended \in BOOLEAN /\ s.lossy \in BOOLEAN
  /\ ~s.lossy => s.got \in Seq(Event) /\ s.queue \in Seq(Event)

AgentTypeOK ==
  /\ up \in BOOLEAN
  /\ mem \in [Agent -> Session \cup {Absent}]
  /\ file \in [Agent -> Saved \cup {Absent}]
  /\ disk \in [Agent -> Seq(Event)]
  /\ th \in [Agent -> ThreadState]

\* The events of a transcript, or of a stream, end with the status of thread t.
Marks(d, t) == d # <<>> /\ d[Len(d)].data = t.status

\* The transcript d of a session whose thread is t: numbered from 1 on, and a final
\* status only as its last event.
DiskOK(d, t) ==
  /\ \A i \in 1 .. Len(d) : d[i].seq = i
  /\ \A i \in 1 .. Len(d) : Terminal(d[i].data) =>
       i = Len(d) /\ d[i].data = t.status /\ t.pc \in Finished \cup {"marked"}
  /\ t.pc \in {"idle", "found"} => d = <<>>
  /\ t.pc \in {"finish", "done"} \cup {"marked", "final", "writeFinal", "closing"} => t.status \in Ends

\* The session m in memory, its transcript d and its thread t.
MemOK(m, d, t) ==
  /\ t.pc \notin {"idle", "found"}
  /\ Len(d) <= m.lastSeq
  /\ ~m.truncated => m.lastSeq = Len(d) /\ m.events = Trim(d)
  /\ t.pc \in {"registered", "writeStart", "rollback", "launched"} => m.status = "queued"
  /\ t.pc \in {"running", "writeRunning", "announce", "exec", "finish", "marked"} =>
       m.status = "running"
  /\ t.pc \in {"final", "writeFinal", "closing"} => m.status = t.status
  /\ t.pc \in Over => m.status \in Ends \cup {"interrupted"}
  /\ m.status \in Ends => m.status = t.status /\ t.pc \in Finished
  /\ (t.pc = "marked" \/ m.status \in Ends) /\ ~m.truncated => Marks(d, t)

\* A saved record s, whenever its snapshot was taken.
SavedOK(s, d, t) ==
  /\ t.pc \notin {"idle", "found"}
  /\ ~s.truncated => s.lastSeq <= Len(d)
  /\ s.status \in Ends => /\ s.status = t.status /\ t.pc \in Finished
                          /\ ~s.truncated => Marks(d, t)

SessionOK(a) ==
  /\ DiskOK(disk[a], th[a])
  /\ Present(mem[a]) => MemOK(mem[a], disk[a], th[a])
  /\ Present(file[a]) => SavedOK(file[a], disk[a], th[a])
  /\ up => /\ th[a].pc \in InMemory => Present(mem[a])
           /\ mem[a].status = "interrupted" <=> file[a].status = "interrupted"
  /\ ~up => mem[a] = Absent /\ th[a].pc \in Over \cup {"idle"}

\* The snapshot that b is writing, and session a.
SnapOK(b, a) ==
  th[b].pc \in Writing =>
    /\ Present(th[b].snap[a]) => SavedOK(th[b].snap[a], disk[a], th[a])
    /\ mem[a].status = "interrupted" <=> th[b].snap[a].status = "interrupted"

\* The inductive invariant of the sessions.
SessionInv ==
  /\ AgentTypeOK
  /\ \A a \in Agent : SessionOK(a)
  /\ \A a, b \in Agent : SnapOK(b, a)

-----------------------------------------------------------------------------
(* What is replayed *)

\* Events numbered from b + 1 on.
Numbered(s, b) == s \in Seq(Event) /\ \A i \in 1 .. Len(s) : s[i].seq = b + i

\* w is the newest part of d, from its event b + 1 on.
Windowed(w, d, b) ==
  /\ Numbered(w, b) /\ b + Len(w) = Len(d)
  /\ \A i \in 1 .. Len(w) : w[i] = d[b + i]
  /\ d # <<>> => w # <<>>

LEMMA TrimIsWindow ==
  ASSUME NEW d, Numbered(d, 0)
  PROVE  \E b \in Nat : Windowed(Trim(d), d, b)
<1>1. PICK l \in Nat : l = Len(d) /\ DOMAIN d = 1 .. l /\ \A i \in 1 .. l : d[i] \in Event /\ d[i].seq = i
  BY SeqPlaces, SeqElement DEF Numbered
<1>2. Window \in Nat /\ Window >= 1
  BY AgentAssumption
<1>3. CASE l > Window
  <2>1. PICK b \in Nat : b = l - Window
    BY <1>2, <1>3
  <2>2. PICK w : w = SubSeq(d, b + 1, l)
    BY Zenon
  <2>3. Trim(d) = w
    BY <1>1, <1>2, <1>3, <2>1, <2>2, Zenon DEF Trim
  <2>4. /\ w \in Seq(Event) /\ Len(w) = Window
        /\ \A i \in 1 .. Window : w[i] = d[b + i]
    <3>1. \A i \in b + 1 .. l : d[i] \in Event
      BY <1>1, <2>1
    <3>2. /\ w \in Seq(Event) /\ Len(w) = IF b + 1 <= l THEN l - (b + 1) + 1 ELSE 0
          /\ \A i \in 1 .. l - (b + 1) + 1 : w[i] = d[b + 1 + i - 1]
      BY <2>2, <3>1, SeqSubSeq, SMTT(60)
    <3> QED
      BY <1>2, <1>3, <2>1, <3>2, SMTT(60)
  <2>5. \A i \in 1 .. Window : w[i] = d[b + i] /\ w[i].seq = b + i
    BY <1>1, <1>2, <2>1, <2>4, SMTT(60)
  <2>6. Numbered(w, b) /\ b + Len(w) = Len(d) /\ w # <<>>
    BY <1>1, <1>2, <2>1, <2>4, <2>5, SeqNothing DEF Numbered
  <2>7. Windowed(w, d, b)
    BY <2>4, <2>6, Zenon DEF Windowed
  <2> QED
    BY <2>3, <2>7, Zenon
<1>4. CASE ~(l > Window)
  <2>1. Trim(d) = d
    BY <1>1, <1>4, Zenon DEF Trim
  <2>2. Windowed(d, d, 0)
    BY <1>1 DEF Windowed, Numbered
  <2> QED
    BY <2>1, <2>2, Zenon
<1> QED
  BY <1>3, <1>4, Zenon

-----------------------------------------------------------------------------
(* Sessions, their file and their transcripts *)

\* A thread t with transcript d may come to t2 and d2.
Later(d, t, d2, t2) ==
  t.pc \notin {"idle", "found"} =>
    /\ t2.pc \notin {"idle", "found"}
    /\ Len(d) <= Len(d2)
    /\ t.pc \in Finished => t2.pc \in Finished /\ t2.status = t.status /\ d2 = d

LEMMA SavedStays ==
  ASSUME NEW s \in Saved, NEW d \in Seq(Event), NEW t, NEW d2 \in Seq(Event), NEW t2,
         SavedOK(s, d, t), Later(d, t, d2, t2)
  PROVE  SavedOK(s, d2, t2)
<1>1. Len(d) \in Nat /\ Len(d2) \in Nat /\ s.lastSeq \in Nat
  BY SeqPlaces, Zenon DEF Saved
<1>2. Len(d) <= Len(d2) /\ t2.pc \notin {"idle", "found"}
  BY Zenon DEF SavedOK, Later
<1>3. ~s.truncated => s.lastSeq <= Len(d2)
  BY <1>1, <1>2 DEF SavedOK
<1>4. s.status \in Ends => /\ s.status = t2.status /\ t2.pc \in Finished
                           /\ ~s.truncated => Marks(d2, t2)
  BY Zenon DEF SavedOK, Later, Marks
<1> QED
  BY <1>2, <1>3, <1>4, Zenon DEF SavedOK

\* What is cloned can be saved.
LEMMA CloneType ==
  ASSUME NEW m \in Session \cup {Absent}
  PROVE  /\ Clone(m) \in Saved \cup {Absent} /\ Clone(m).status = m.status
         /\ Present(Clone(m)) <=> Present(m)
         /\ Present(m) => m \in Session
<1>1. "absent" \notin Status
  BY Zenon DEF Status, Final
<1>2. CASE m \in Session
  <2>1. m.status \in Status /\ m # Absent
    BY <1>1, <1>2 DEF Session, Absent
  <2>2. Clone(m) = [status |-> m.status, lastSeq |-> m.lastSeq, truncated |-> m.truncated]
    BY <2>1, Zenon DEF Clone, Present
  <2>3. Clone(m) \in Saved /\ Clone(m).status = m.status
    BY <1>2, <2>2 DEF Saved, Session
  <2>4. Clone(m) # Absent
    BY <1>1, <2>1, <2>3 DEF Absent
  <2> QED
    BY <1>2, <2>1, <2>3, <2>4, Zenon DEF Present
<1>3. CASE m = Absent
  BY <1>3, Zenon DEF Clone, Present
<1> QED
  BY <1>2, <1>3, Zenon

LEMMA CloneSaved ==
  ASSUME NEW m \in Session \cup {Absent}, NEW d \in Seq(Event), NEW t,
         Present(m), MemOK(m, d, t)
  PROVE  SavedOK(Clone(m), d, t)
<1>1. Clone(m) = [status |-> m.status, lastSeq |-> m.lastSeq, truncated |-> m.truncated]
  BY Zenon DEF Clone
<1>2. PICK s : s = Clone(m)
  BY Zenon
<1>3. s.status = m.status /\ s.lastSeq = m.lastSeq /\ s.truncated = m.truncated
  BY <1>1, <1>2
<1>4. Len(d) \in Nat
  BY SeqPlaces, Zenon
<1>5. SavedOK(s, d, t)
  BY <1>3, <1>4, Zenon DEF MemOK, SavedOK
<1> QED
  BY <1>2, <1>5, Zenon

\* The thread of a moves: its session is m, its transcript d and its state t.
Moved(a, m, d, t) ==
  /\ up /\ up' = up
  /\ mem' = [mem EXCEPT ![a] = m]
  /\ disk' = [disk EXCEPT ![a] = d]
  /\ th' = [th EXCEPT ![a] = t]
  /\ file' = file \/ (th[a].pc \in Writing /\ file' = th[a].snap)

\* What is needed of the new state.
Sound(a, m, d, t) ==
  /\ DiskOK(d, t)
  /\ Present(m) => MemOK(m, d, t)
  /\ t.pc \in InMemory => Present(m)
  /\ Later(disk[a], th[a], d, t)
  /\ m.status = "interrupted" <=> mem[a].status = "interrupted"
  /\ t.pc \in Writing => m = mem[a] /\ t.snap = [b \in Agent |-> Clone(mem[b])]

LEMMA MoveKeeps ==
  ASSUME SessionInv, NEW a \in Agent, NEW m \in Session \cup {Absent}, NEW d \in Seq(Event),
         NEW t \in ThreadState, Moved(a, m, d, t), Sound(a, m, d, t)
  PROVE  SessionInv'
<1>1. /\ mem \in [Agent -> Session \cup {Absent}] /\ file \in [Agent -> Saved \cup {Absent}]
      /\ disk \in [Agent -> Seq(Event)] /\ th \in [Agent -> ThreadState] /\ up
  BY Zenon DEF SessionInv, AgentTypeOK, Moved
<1>2. /\ mem' \in [Agent -> Session \cup {Absent}] /\ disk' \in [Agent -> Seq(Event)]
      /\ th' \in [Agent -> ThreadState] /\ up' = TRUE
  BY <1>1, Zenon DEF Moved
<1>3. \A b \in Agent : th[b].snap \in [Agent -> Saved \cup {Absent}]
  BY <1>1, Zenon DEF ThreadState
<1>4. file' \in [Agent -> Saved \cup {Absent}]
  BY <1>1, <1>3, Zenon DEF Moved
<1>5. AgentTypeOK'
  BY <1>2, <1>4, Zenon DEF AgentTypeOK
<1>6. /\ mem'[a] = m /\ disk'[a] = d /\ th'[a] = t
      /\ \A x \in Agent : x # a => mem'[x] = mem[x] /\ disk'[x] = disk[x] /\ th'[x] = th[x]
  BY <1>1, Zenon DEF Moved
<1>7. ASSUME NEW x \in Agent PROVE Later(disk[x], th[x], disk'[x], th'[x])
  <2>1. CASE x = a
    BY <1>6, <2>1, Zenon DEF Sound
  <2>2. CASE x # a
    <3>1. Len(disk[x]) \in Nat
      BY <1>1, SeqPlaces, Zenon
    <3> QED
      BY <1>6, <2>2, <3>1 DEF Later
  <2> QED
    BY <2>1, <2>2, Zenon
<1>8. ASSUME NEW x \in Agent
      PROVE  /\ mem'[x].status = "interrupted" <=> mem[x].status = "interrupted"
             /\ DiskOK(disk'[x], th'[x])
             /\ Present(mem'[x]) => MemOK(mem'[x], disk'[x], th'[x])
             /\ th'[x].pc \in InMemory => Present(mem'[x])
  <2>1. CASE x = a
    BY <1>6, <2>1, Zenon DEF Sound
  <2>2. CASE x # a
    <3>1. SessionOK(x)
      BY Zenon DEF SessionInv
    <3> QED
      BY <1>1, <1>6, <2>2, <3>1, Zenon DEF SessionOK
  <2> QED
    BY <2>1, <2>2, Zenon
<1>9. ASSUME NEW x \in Agent, NEW s \in Saved \cup {Absent}, Present(s),
             SavedOK(s, disk[x], th[x])
      PROVE  SavedOK(s, disk'[x], th'[x])
  <2>1. s \in Saved /\ disk[x] \in Seq(Event) /\ disk'[x] \in Seq(Event)
    BY <1>1, <1>2, <1>9, Zenon DEF Present
  <2> QED
    BY <1>7, <1>9, <2>1, SavedStays, Zenon
<1>10. ASSUME NEW x \in Agent
       PROVE  /\ Present(file'[x]) => SavedOK(file'[x], disk'[x], th'[x])
              /\ mem'[x].status = "interrupted" <=> file'[x].status = "interrupted"
  <2>1. CASE file' = file
    <3>1. SessionOK(x) /\ file[x] \in Saved \cup {Absent}
      BY <1>1, Zenon DEF SessionInv
    <3>2. Present(file[x]) => SavedOK(file[x], disk[x], th[x])
      BY <3>1, Zenon DEF SessionOK
    <3>3. mem[x].status = "interrupted" <=> file[x].status = "interrupted"
      BY <1>1, <3>1, Zenon DEF SessionOK
    <3> QED
      BY <1>8, <1>9, <2>1, <3>1, <3>2, <3>3, Zenon
  <2>2. CASE th[a].pc \in Writing /\ file' = th[a].snap
    <3>1. SnapOK(a, x) /\ th[a].snap[x] \in Saved \cup {Absent}
      BY <1>3, Zenon DEF SessionInv
    <3>2. Present(th[a].snap[x]) => SavedOK(th[a].snap[x], disk[x], th[x])
      BY <2>2, <3>1, Zenon DEF SnapOK
    <3>3. mem[x].status = "interrupted" <=> th[a].snap[x].status = "interrupted"
      BY <2>2, <3>1, Zenon DEF SnapOK
    <3> QED
      BY <1>8, <1>9, <2>2, <3>1, <3>2, <3>3, Zenon
  <2> QED
    BY <2>1, <2>2, Zenon DEF Moved
<1>11. \A x \in Agent : SessionOK(x)'
  BY <1>2, <1>8, <1>10, Zenon DEF SessionOK
<1>12. ASSUME NEW x \in Agent, NEW b \in Agent PROVE SnapOK(b, x)'
  <2> SUFFICES ASSUME th'[b].pc \in Writing
               PROVE  /\ Present(th'[b].snap[x]) => SavedOK(th'[b].snap[x], disk'[x], th'[x])
                      /\ mem'[x].status = "interrupted" <=> th'[b].snap[x].status = "interrupted"
    BY Zenon DEF SnapOK
  <2>1. CASE b # a
    <3>1. th'[b] = th[b] /\ SnapOK(b, x) /\ th[b].snap[x] \in Saved \cup {Absent}
      BY <1>3, <1>6, <2>1, Zenon DEF SessionInv
    <3>2. Present(th[b].snap[x]) => SavedOK(th[b].snap[x], disk[x], th[x])
      BY <3>1, Zenon DEF SnapOK
    <3>3. mem[x].status = "interrupted" <=> th[b].snap[x].status = "interrupted"
      BY <3>1, Zenon DEF SnapOK
    <3> QED
      BY <1>8, <1>9, <3>1, <3>2, <3>3, Zenon
  <2>2. CASE b = a
    <3>1. m = mem[a] /\ t.snap = [y \in Agent |-> Clone(mem[y])]
      BY <1>6, <2>2, Zenon DEF Sound
    <3>2. mem'[x] = mem[x] /\ th'[b].snap[x] = Clone(mem[x]) /\ mem[x] \in Session \cup {Absent}
      BY <1>1, <1>6, <2>2, <3>1, Zenon
    <3>3. Clone(mem[x]).status = mem[x].status /\ (Present(Clone(mem[x])) => Present(mem[x]))
      BY <3>2, CloneType, Zenon
    <3>4. Present(mem[x]) => SavedOK(Clone(mem[x]), disk'[x], th'[x])
      BY <1>2, <1>8, <3>2, CloneSaved, Zenon
    <3> QED
      BY <3>2, <3>3, <3>4, Zenon
  <2> QED
    BY <2>1, <2>2, Zenon
<1> QED
  BY <1>5, <1>11, <1>12, Zenon DEF SessionInv

\* The steps of a thread that append no event.
QuietStep(a) ==
  \/ Lookup(a) \/ Register(a) \/ SnapshotStart(a) \/ WriteStart(a) \/ Rollback(a) \/ SetRunning(a)
  \/ SnapshotRunning(a) \/ WriteRunning(a) \/ Return(a) \/ SetFinal(a) \/ SnapshotFinal(a)
  \/ WriteFinal(a) \/ CloseStreams(a)

\* What a stream on the session sees of such a step.
Marking == {"marked", "final", "writeFinal", "closing"}
Quiet(a, m, t) ==
  /\ t.pc \in InMemory => th[a].pc = "found" \/ (th[a].pc \in InMemory /\ m.lastSeq = mem[a].lastSeq)
  /\ t.pc \in Marking => th[a].pc \in Marking /\ t.status = th[a].status
  /\ th[a].pc \in InMemory => t.pc \in InMemory \cup {"refused", "done"}
  /\ th[a].pc \in Over => t.pc = th[a].pc

\* A step that changes only the thread, and perhaps the file.
LEMMA ThreadMoves ==
  ASSUME SessionInv, NEW a \in Agent, up, NEW t \in ThreadState,
         UNCHANGED <<up, mem, disk>>, th' = [th EXCEPT ![a] = t],
         file' = file \/ (th[a].pc \in Writing /\ file' = th[a].snap),
         Sound(a, mem[a], disk[a], t), Quiet(a, mem[a], t)
  PROVE  \E m \in Session \cup {Absent}, u \in ThreadState :
           Moved(a, m, disk[a], u) /\ Sound(a, m, disk[a], u) /\ Quiet(a, m, u)
<1>1. mem[a] \in Session \cup {Absent}
  BY Zenon DEF SessionInv, AgentTypeOK
<1>2. mem' = [mem EXCEPT ![a] = mem[a]] /\ disk' = [disk EXCEPT ![a] = disk[a]]
  BY Zenon DEF SessionInv, AgentTypeOK
<1>3. Moved(a, mem[a], disk[a], t)
  BY <1>2, Zenon DEF Moved
<1> QED
  BY <1>1, <1>3, Zenon

\* A thread goes from r to t by a change of its place alone: what holds of its session
\* holds still.
Goes(r, t) ==
  \/ r.pc = "idle" /\ t.pc = "found"
  \/ r.pc = "registered" /\ t.pc = "writeStart"
  \/ r.pc = "writeStart" /\ t.pc \in {"launched", "rollback"}
  \/ r.pc = "running" /\ t.pc = "writeRunning"
  \/ r.pc = "writeRunning" /\ t.pc = "announce"
  \/ r.pc = "final" /\ t.pc = "writeFinal"
  \/ r.pc = "writeFinal" /\ t.pc = "closing"
  \/ r.pc = "closing" /\ t.pc = "done"

LEMMA GoesSound ==
  ASSUME SessionInv, up, NEW a \in Agent, NEW t \in ThreadState, Goes(th[a], t),
         t.status = th[a].status,
         t.pc \in Writing => t.snap = [b \in Agent |-> Clone(mem[b])]
  PROVE  Sound(a, mem[a], disk[a], t) /\ Quiet(a, mem[a], t)
<1>1. PICK m, d, r : m = mem[a] /\ d = disk[a] /\ r = th[a]
  BY Zenon
<1>2. /\ DiskOK(d, r) /\ (Present(m) => MemOK(m, d, r)) /\ (r.pc \in InMemory => Present(m))
      /\ r \in ThreadState /\ Len(d) \in Nat /\ r.status \in Ends \cup {"queued"}
  <2>1. SessionOK(a) /\ r \in ThreadState /\ d \in Seq(Event)
    BY <1>1, Zenon DEF SessionInv, AgentTypeOK
  <2> QED
    BY <1>1, <2>1, SeqPlaces, Zenon DEF SessionOK, ThreadState
<1>3. Goes(r, t) /\ t.status = r.status
  BY <1>1, Zenon
<1>4. DiskOK(d, t)
  BY <1>2, <1>3, Zenon DEF DiskOK, Goes, Finished
<1>5. Present(m) => MemOK(m, d, t)
  <2> SUFFICES ASSUME Present(m) PROVE MemOK(m, d, t)
    BY Zenon
  <2>1. MemOK(m, d, r) /\ (r.pc = "closing" => r.status \in Ends)
    BY <1>2, Zenon DEF DiskOK
  <2>2. Marks(d, r) => Marks(d, t)
    BY <1>3, Zenon DEF Marks
  <2> QED
    BY <1>3, <2>1, <2>2, ZenonT(60) DEF MemOK, Goes, Finished, Over, Ends
<1>6. t.pc \in InMemory => Present(m)
  BY <1>2, <1>3, Zenon DEF Goes, InMemory
<1>7. Later(d, r, d, t)
  BY <1>2, <1>3 DEF Later, Goes, Finished
<1>8. Sound(a, mem[a], disk[a], t)
  BY <1>1, <1>4, <1>5, <1>6, <1>7, Zenon DEF Sound
<1>9. Quiet(a, mem[a], t)
  BY <1>1, <1>3, Zenon DEF Quiet, Goes, InMemory, Marking, Over
<1> QED
  BY <1>8, <1>9, Zenon

\* The other changes: m is the new session in memory, t the new state of the thread.
Changes(m, m2, r, t) ==
  \/ /\ r.pc = "found" /\ t.pc = "registered" /\ t.status = r.status
     /\ m2 = [status |-> "queued", lastSeq |-> 0, truncated |-> FALSE, events |-> <<>>]
  \/ r.pc = "rollback" /\ t.pc = "refused" /\ t.status = r.status /\ m2 = Absent
  \/ /\ r.pc = "launched" /\ t.pc = "running" /\ t.status = r.status
     /\ m2 = [m EXCEPT !.status = "running"]
  \/ r.pc = "exec" /\ t.pc = "finish" /\ t.status \in Ends /\ m2 = m
  \/ /\ r.pc = "marked" /\ t.pc = "final" /\ t.status = r.status
     /\ m2 = [m EXCEPT !.status = r.status]

LEMMA ChangesSound ==
  ASSUME SessionInv, up, NEW a \in Agent, NEW m2, NEW t \in ThreadState,
         Changes(mem[a], m2, th[a], t)
  PROVE  m2 \in Session \cup {Absent} /\ Sound(a, m2, disk[a], t) /\ Quiet(a, m2, t)
<1>1. PICK m, d, r : m = mem[a] /\ d = disk[a] /\ r = th[a]
  BY Zenon
<1>2. /\ DiskOK(d, r) /\ (Present(m) => MemOK(m, d, r)) /\ (r.pc \in InMemory => Present(m))
      /\ r \in ThreadState /\ d \in Seq(Event) /\ Len(d) \in Nat
      /\ r.status \in Ends \cup {"queued"} /\ m \in Session \cup {Absent}
      /\ Present(m) => m \in Session
  <2>1. SessionOK(a) /\ r \in ThreadState /\ d \in Seq(Event) /\ m \in Session \cup {Absent}
    BY <1>1, Zenon DEF SessionInv, AgentTypeOK
  <2> QED
    BY <1>1, <2>1, SeqPlaces, CloneType, Zenon DEF SessionOK, ThreadState
<1>3. Changes(m, m2, r, t)
  BY <1>1, Zenon
<1>4. CASE r.pc = "found"
  <2>1. /\ t.pc = "registered" /\ t.status = r.status /\ d = <<>>
        /\ m2 = [status |-> "queued", lastSeq |-> 0, truncated |-> FALSE, events |-> <<>>]
    BY <1>2, <1>3, <1>4, Zenon DEF Changes, DiskOK
  <2>2. m2 \in Session /\ m2.status = "queued" /\ m2.lastSeq = 0 /\ m2.events = <<>> /\ Present(m2)
    BY <2>1 DEF Session, Status, Present, Absent
  <2>3. m = Absent
    BY <1>2, <1>4, Zenon DEF MemOK, Present
  <2>4. Trim(d) = <<>> /\ Len(d) = 0
    <3>1. Len(d) = 0
      BY <2>1, Zenon
    <3> QED
      BY <2>1, <3>1, AgentAssumption DEF Trim
  <2>5. DiskOK(d, t)
    BY <2>1, <2>4, SMTT(60) DEF DiskOK
  <2>6. MemOK(m2, d, t)
    BY <2>1, <2>2, <2>4, SMTT(60) DEF MemOK, Over, Ends
  <2>7. Sound(a, m2, disk[a], t)
    BY <1>1, <1>4, <2>1, <2>2, <2>3, <2>5, <2>6, SMTT(60) DEF Sound, Later, Writing, Absent
  <2>8. Quiet(a, m2, t)
    BY <1>1, <1>4, <2>1, Zenon DEF Quiet, Marking, InMemory, Over
  <2> QED
    BY <2>2, <2>7, <2>8, Zenon
<1>5. CASE r.pc = "rollback"
  <2>1. t.pc = "refused" /\ t.status = r.status /\ m2 = Absent
    BY <1>3, <1>5, Zenon DEF Changes
  <2>2. Present(m) /\ MemOK(m, d, r) /\ m.status = "queued"
    BY <1>2, <1>5, Zenon DEF MemOK, InMemory
  <2>3. DiskOK(d, t)
    BY <1>2, <1>5, <2>1, Zenon DEF DiskOK, Finished
  <2>4. Sound(a, m2, disk[a], t)
    BY <1>1, <1>2, <1>5, <2>1, <2>2, <2>3, SMTT(60) DEF Sound, Later, Writing, Absent, Present, InMemory, Finished
  <2>5. Quiet(a, m2, t)
    BY <1>1, <1>5, <2>1, Zenon DEF Quiet, Marking, InMemory, Over
  <2> QED
    BY <2>1, <2>4, <2>5, Zenon
<1>6. CASE r.pc \in {"launched", "marked"}
  <2>1. PICK s : s = IF r.pc = "launched" THEN "running" ELSE r.status
    BY Zenon
  <2>2. m2 = [m EXCEPT !.status = s] /\ t.status = r.status
        /\ t.pc = IF r.pc = "launched" THEN "running" ELSE "final"
    BY <1>3, <1>6, <2>1, Zenon DEF Changes
  <2>3. Present(m) /\ m \in Session /\ MemOK(m, d, r)
    BY <1>2, <1>6, Zenon DEF InMemory
  <2>4. s \in Status /\ s # "interrupted" /\ (r.pc = "marked" => s \in Ends)
    BY <1>2, <1>6, <2>1, Zenon DEF DiskOK, Ends, Status, Final
  <2>5. /\ m2 \in Session /\ m2.status = s /\ m2.lastSeq = m.lastSeq /\ m2.truncated = m.truncated
        /\ m2.events = m.events
    BY <2>2, <2>3, <2>4, Zenon DEF Session
  <2>6. m.status \in {"queued", "running"} /\ Present(m2)
    <3>1. m2 # Absent
      BY <2>4, <2>5 DEF Absent, Status, Final
    <3> QED
      BY <1>6, <2>3, <3>1, Zenon DEF MemOK, Present
  <2>7. DiskOK(d, t)
    BY <1>2, <1>6, <2>2, Zenon DEF DiskOK, Finished
  <2>8. MemOK(m2, d, t)
    <3>1. CASE r.pc = "launched"
      BY <2>1, <2>2, <2>3, <2>5, <3>1, Zenon DEF MemOK, Over, Ends
    <3>2. CASE r.pc = "marked"
      BY <2>1, <2>2, <2>3, <2>4, <2>5, <3>2, Zenon DEF MemOK, Over, Marks, Finished
    <3> QED
      BY <1>6, <3>1, <3>2, Zenon
  <2>9. Sound(a, m2, disk[a], t)
    BY <1>1, <1>2, <1>6, <2>2, <2>4, <2>5, <2>6, <2>7, <2>8, SMTT(60) DEF Sound, Later, Writing, Finished
  <2>10. Quiet(a, m2, t)
    BY <1>1, <1>6, <2>2, <2>5, Zenon DEF Quiet, Marking, InMemory, Over
  <2> QED
    BY <2>5, <2>9, <2>10, Zenon
<1>7. CASE r.pc = "exec"
  <2>1. t.pc = "finish" /\ t.status \in Ends /\ m2 = m
    BY <1>3, <1>7, Zenon DEF Changes
  <2>2. Present(m) /\ MemOK(m, d, r) /\ m.status = "running"
    BY <1>2, <1>7, Zenon DEF MemOK, InMemory
  <2>3. DiskOK(d, t)
    BY <1>2, <1>7, <2>1, Zenon DEF DiskOK, Finished
  <2>4. MemOK(m, d, t)
    BY <1>7, <2>1, <2>2, Zenon DEF MemOK, Over, Ends
  <2>5. Sound(a, m2, disk[a], t)
    BY <1>1, <1>2, <1>7, <2>1, <2>2, <2>3, <2>4, SMTT(60) DEF Sound, Later, Writing, Finished
  <2>6. Quiet(a, m2, t)
    BY <1>1, <1>7, <2>1, Zenon DEF Quiet, Marking, InMemory, Over
  <2> QED
    BY <1>2, <2>1, <2>5, <2>6, Zenon
<1> QED
  BY <1>3, <1>4, <1>5, <1>6, <1>7, Zenon DEF Changes

LEMMA QuietMoves ==
  ASSUME SessionInv, NEW a \in Agent, QuietStep(a)
  PROVE  \E m \in Session \cup {Absent}, t \in ThreadState :
           Moved(a, m, disk[a], t) /\ Sound(a, m, disk[a], t) /\ Quiet(a, m, t)
<1>1. PICK r : r = th[a]
  BY Zenon
<1>2. /\ r \in ThreadState /\ th \in [Agent -> ThreadState]
      /\ mem \in [Agent -> Session \cup {Absent}] /\ disk = [disk EXCEPT ![a] = disk[a]]
  BY <1>1, Zenon DEF SessionInv, AgentTypeOK
<1>3. ASSUME NEW p \in {"found", "launched", "rollback", "announce", "closing", "done"},
             UNCHANGED <<up, mem, disk>>, Goto(a, p), up,
             Goes(r, [r EXCEPT !.pc = p]),
             file' = file \/ (r.pc \in Writing /\ file' = r.snap)
      PROVE  \E m \in Session \cup {Absent}, t \in ThreadState :
               Moved(a, m, disk[a], t) /\ Sound(a, m, disk[a], t) /\ Quiet(a, m, t)
  <2>1. PICK t : t = [r EXCEPT !.pc = p]
    BY Zenon
  <2>2. t \in ThreadState /\ t.pc = p /\ t.status = r.status
    BY <1>2, <2>1, Zenon DEF ThreadState, InMemory, Over
  <2>3. th' = [th EXCEPT ![a] = t]
    BY <1>1, <1>3, <2>1, Zenon DEF Goto
  <2>4. Sound(a, mem[a], disk[a], t) /\ Quiet(a, mem[a], t)
    BY <1>1, <1>3, <2>1, <2>2, GoesSound, Zenon DEF Writing
  <2> QED
    BY <1>1, <1>3, <2>2, <2>3, <2>4, ThreadMoves, Zenon
<1>4. ASSUME NEW p \in Writing, NEW q, Snapshot(a, q, p), Goes([r EXCEPT !.pc = q], [r EXCEPT !.pc = p])
      PROVE  \E m \in Session \cup {Absent}, t \in ThreadState :
               Moved(a, m, disk[a], t) /\ Sound(a, m, disk[a], t) /\ Quiet(a, m, t)
  <2>1. PICK t : t = [r EXCEPT !.pc = p, !.snap = [b \in Agent |-> Clone(mem[b])]]
    BY Zenon
  <2>2. [b \in Agent |-> Clone(mem[b])] \in [Agent -> Saved \cup {Absent}]
    BY <1>2, CloneType, Zenon
  <2>3. /\ t \in ThreadState /\ t.pc = p /\ t.status = r.status
        /\ t.snap = [b \in Agent |-> Clone(mem[b])]
    BY <1>2, <2>1, <2>2, Zenon DEF ThreadState, InMemory, Over, Writing
  <2>4. th' = [th EXCEPT ![a] = t] /\ UNCHANGED <<up, mem, disk, file>> /\ up /\ r.pc = q
    BY <1>1, <1>4, <2>1, Zenon DEF Snapshot, At
  <2>5. Goes(r, t)
    BY <1>2, <1>4, <2>3, <2>4, ZenonT(60) DEF Goes, ThreadState
  <2>6. Sound(a, mem[a], disk[a], t) /\ Quiet(a, mem[a], t)
    BY <1>1, <2>3, <2>4, <2>5, GoesSound, Zenon
  <2> QED
    BY <2>3, <2>4, <2>6, ThreadMoves, Zenon
<1>5. ASSUME NEW m, NEW t \in ThreadState, Changes(mem[a], m, r, t), up,
             UNCHANGED <<up, disk, file>>, mem' = [mem EXCEPT ![a] = m], th' = [th EXCEPT ![a] = t]
      PROVE  \E m2 \in Session \cup {Absent}, t2 \in ThreadState :
               Moved(a, m2, disk[a], t2) /\ Sound(a, m2, disk[a], t2) /\ Quiet(a, m2, t2)
  <2>1. m \in Session \cup {Absent} /\ Sound(a, m, disk[a], t) /\ Quiet(a, m, t)
    BY <1>1, <1>5, ChangesSound, Zenon
  <2>2. Moved(a, m, disk[a], t)
    BY <1>2, <1>5, Zenon DEF Moved
  <2> QED
    BY <1>5, <2>1, <2>2, Zenon
<1>6. ASSUME NEW p \in InMemory \cup Over, Goto(a, p)
      PROVE  \E t \in ThreadState : /\ t.pc = p /\ t.status = r.status
                                    /\ th' = [th EXCEPT ![a] = t]
  <2>1. PICK t : t = [r EXCEPT !.pc = p]
    BY Zenon
  <2>2. t \in ThreadState /\ t.pc = p /\ t.status = r.status
    BY <1>2, <2>1, Zenon DEF ThreadState
  <2>3. th' = [th EXCEPT ![a] = t]
    BY <1>1, <1>6, <2>1, Zenon DEF Goto
  <2> QED
    BY <2>2, <2>3, Zenon
<1>7. CASE Lookup(a)
  <2>1. UNCHANGED <<up, mem, disk, file>> /\ Goto(a, "found") /\ up /\ r.pc = "idle"
    BY <1>1, <1>7, Zenon DEF Lookup, At
  <2>2. Goes(r, [r EXCEPT !.pc = "found"])
    BY <1>2, <2>1, Zenon DEF Goes, ThreadState
  <2> QED
    BY <1>3, <2>1, <2>2, Zenon
<1>8. CASE SnapshotStart(a) \/ SnapshotRunning(a) \/ SnapshotFinal(a)
  <2>1. /\ Goes([r EXCEPT !.pc = "registered"], [r EXCEPT !.pc = "writeStart"])
        /\ Goes([r EXCEPT !.pc = "running"], [r EXCEPT !.pc = "writeRunning"])
        /\ Goes([r EXCEPT !.pc = "final"], [r EXCEPT !.pc = "writeFinal"])
    BY <1>2, Zenon DEF Goes, ThreadState
  <2> QED
    BY <1>4, <1>8, <2>1, Zenon DEF SnapshotStart, SnapshotRunning, SnapshotFinal, Writing
<1>9. ASSUME NEW q \in Writing, NEW p, NEW f, p \in {"launched", "rollback", "announce", "closing"},
             f \in {"launched", "rollback", "announce", "closing"}, Write(a, q, p, f),
             r.pc = q => Goes(r, [r EXCEPT !.pc = p]) /\ Goes(r, [r EXCEPT !.pc = f])
      PROVE  \E m \in Session \cup {Absent}, t \in ThreadState :
               Moved(a, m, disk[a], t) /\ Sound(a, m, disk[a], t) /\ Quiet(a, m, t)
  <2>1. /\ UNCHANGED <<up, mem, disk>> /\ up /\ r.pc = q
        /\ (file' = r.snap /\ Goto(a, p)) \/ (file' = file /\ Goto(a, f))
    BY <1>1, <1>9, Zenon DEF Write, At
  <2>2. Goes(r, [r EXCEPT !.pc = p]) /\ Goes(r, [r EXCEPT !.pc = f])
    BY <1>9, <2>1, Zenon
  <2>3. CASE file' = r.snap /\ Goto(a, p)
    BY <1>3, <1>9, <2>1, <2>2, <2>3, Zenon
  <2>4. CASE file' = file /\ Goto(a, f)
    BY <1>3, <1>9, <2>1, <2>2, <2>4, Zenon
  <2> QED
    BY <2>1, <2>3, <2>4, Zenon
<1>10. CASE WriteStart(a) \/ WriteRunning(a) \/ WriteFinal(a)
  <2>1. /\ r.pc = "writeStart" => /\ Goes(r, [r EXCEPT !.pc = "launched"])
                                  /\ Goes(r, [r EXCEPT !.pc = "rollback"])
        /\ r.pc = "writeRunning" => Goes(r, [r EXCEPT !.pc = "announce"])
        /\ r.pc = "writeFinal" => Goes(r, [r EXCEPT !.pc = "closing"])
    BY <1>2, Zenon DEF Goes, ThreadState
  <2>2. CASE WriteStart(a)
    BY <1>9, <2>1, <2>2, Zenon DEF WriteStart, Writing
  <2>3. CASE WriteRunning(a)
    BY <1>9, <2>1, <2>3, Zenon DEF WriteRunning, Writing
  <2>4. CASE WriteFinal(a)
    BY <1>9, <2>1, <2>4, Zenon DEF WriteFinal, Writing
  <2> QED
    BY <1>10, <2>2, <2>3, <2>4, Zenon
<1>11. CASE CloseStreams(a)
  <2>1. UNCHANGED <<up, mem, disk, file>> /\ Goto(a, "done") /\ up /\ r.pc = "closing"
    BY <1>1, <1>11, Zenon DEF CloseStreams, At
  <2>2. Goes(r, [r EXCEPT !.pc = "done"])
    BY <1>2, <2>1, Zenon DEF Goes, ThreadState
  <2> QED
    BY <1>3, <2>1, <2>2, Zenon
<1>12. CASE Register(a)
  <2>1. /\ UNCHANGED <<up, disk, file>> /\ Goto(a, "registered") /\ up /\ r.pc = "found"
        /\ mem' = [mem EXCEPT ![a] =
             [status |-> "queued", lastSeq |-> 0, truncated |-> FALSE, events |-> <<>>]]
    BY <1>1, <1>12, Zenon DEF Register, At
  <2>2. PICK t \in ThreadState : t.pc = "registered" /\ t.status = r.status /\ th' = [th EXCEPT ![a] = t]
    BY <1>6, <2>1, Zenon DEF InMemory
  <2> QED
    BY <1>5, <2>1, <2>2, Zenon DEF Changes
<1>13. CASE Rollback(a)
  <2>1. /\ UNCHANGED <<up, disk, file>> /\ Goto(a, "refused") /\ up /\ r.pc = "rollback"
        /\ mem' = [mem EXCEPT ![a] = Absent]
    BY <1>1, <1>13, Zenon DEF Rollback, At
  <2>2. PICK t \in ThreadState : t.pc = "refused" /\ t.status = r.status /\ th' = [th EXCEPT ![a] = t]
    BY <1>6, <2>1, Zenon DEF Over
  <2> QED
    BY <1>5, <2>1, <2>2, Zenon DEF Changes
<1>14. CASE SetRunning(a)
  <2>1. /\ UNCHANGED <<up, disk, file>> /\ Goto(a, "running") /\ up /\ r.pc = "launched"
        /\ mem' = [mem EXCEPT ![a] = [mem[a] EXCEPT !.status = "running"]]
    BY <1>1, <1>14, Zenon DEF SetRunning, At
  <2>2. PICK t \in ThreadState : t.pc = "running" /\ t.status = r.status /\ th' = [th EXCEPT ![a] = t]
    BY <1>6, <2>1, Zenon DEF InMemory
  <2> QED
    BY <1>5, <2>1, <2>2, Zenon DEF Changes
<1>15. CASE Return(a)
  <2>1. PICK s \in Outcomes \cup {"canceled"} : th' = [th EXCEPT ![a].pc = "finish", ![a].status = s]
    BY <1>15, Zenon DEF Return
  <2>2. s \in Ends
    BY <2>1, AgentAssumption, Zenon DEF Ends
  <2>3. PICK t : t = [r EXCEPT !.pc = "finish", !.status = s]
    BY Zenon
  <2>4. t \in ThreadState /\ t.pc = "finish" /\ t.status = s
    BY <1>2, <2>2, <2>3, Zenon DEF ThreadState, InMemory
  <2>5. UNCHANGED <<up, disk, file, mem>> /\ up /\ r.pc = "exec" /\ th' = [th EXCEPT ![a] = t]
    BY <1>1, <1>15, <2>1, <2>3, ZenonT(60) DEF Return, At
  <2>6. mem' = [mem EXCEPT ![a] = mem[a]]
    BY <1>2, <2>5, Zenon
  <2> QED
    BY <1>5, <2>2, <2>4, <2>5, <2>6, Zenon DEF Changes
<1>16. CASE SetFinal(a)
  <2>1. /\ UNCHANGED <<up, disk, file>> /\ Goto(a, "final") /\ up /\ r.pc = "marked"
        /\ mem' = [mem EXCEPT ![a] = [mem[a] EXCEPT !.status = r.status]]
    BY <1>1, <1>16, Zenon DEF SetFinal, At
  <2>2. PICK t \in ThreadState : t.pc = "final" /\ t.status = r.status /\ th' = [th EXCEPT ![a] = t]
    BY <1>6, <2>1, Zenon DEF InMemory
  <2> QED
    BY <1>5, <2>1, <2>2, Zenon DEF Changes
<1> QED
  BY <1>7, <1>8, <1>10, <1>11, <1>12, <1>13, <1>14, <1>15, <1>16, ZenonT(60) DEF QuietStep

-----------------------------------------------------------------------------
(* Appending an event *)

LEMMA TrimType ==
  ASSUME NEW s \in Seq(Event)
  PROVE  /\ Trim(s) \in Seq(Event)
         /\ Len(s) <= Window => Trim(s) = s
         /\ Len(s) > Window => /\ Len(Trim(s)) = Window
                               /\ \A i \in 1 .. Window : Trim(s)[i] = s[Len(s) - Window + i]
<1>1. PICK l \in Nat : l = Len(s) /\ \A i \in 1 .. l : s[i] \in Event
  BY SeqPlaces, SeqElement, Zenon
<1>2. Window \in Nat /\ Window >= 1
  BY AgentAssumption
<1>3. CASE l > Window
  <2>1. PICK b \in Nat : b = l - Window
    BY <1>2, <1>3
  <2>2. PICK v : v = SubSeq(s, b + 1, l)
    BY Zenon
  <2>3. Trim(s) = v
    BY <1>1, <1>2, <1>3, <2>1, <2>2, Zenon DEF Trim
  <2>4. \A i \in b + 1 .. l : s[i] \in Event
    BY <1>1, <2>1
  <2>5. /\ v \in Seq(Event) /\ Len(v) = IF b + 1 <= l THEN l - (b + 1) + 1 ELSE 0
        /\ \A i \in 1 .. l - (b + 1) + 1 : v[i] = s[b + 1 + i - 1]
    BY <2>2, <2>4, SeqSubSeq, SMTT(60)
  <2>6. Len(v) = Window /\ \A i \in 1 .. Window : v[i] = s[b + i]
    BY <1>2, <1>3, <2>1, <2>5, SMTT(60)
  <2> QED
    BY <1>1, <1>2, <1>3, <2>1, <2>3, <2>5, <2>6, SMTT(60)
<1>4. CASE ~(l > Window)
  BY <1>1, <1>2, <1>4, Zenon DEF Trim
<1> QED
  BY <1>3, <1>4, Zenon

\* The window of a transcript follows the transcript.
LEMMA TrimFollows ==
  ASSUME NEW d \in Seq(Event), NEW e \in Event
  PROVE  Trim(Append(Trim(d), e)) = Trim(Append(d, e))
<1>1. PICK l \in Nat : l = Len(d)
  BY SeqPlaces, Zenon
<1>2. Window \in Nat /\ Window >= 1
  BY AgentAssumption
<1>3. PICK w, v, x : w = Trim(d) /\ v = Append(w, e) /\ x = Append(d, e)
  BY Zenon
<1>4. /\ x \in Seq(Event) /\ Len(x) = l + 1 /\ x[l + 1] = e /\ \A i \in 1 .. l : x[i] = d[i]
  BY <1>1, <1>3, SeqAppend
<1>5. CASE l <= Window
  BY <1>1, <1>3, <1>5, TrimType, Zenon
<1>6. CASE ~(l <= Window)
  <2>1. w \in Seq(Event) /\ Len(w) = Window /\ \A i \in 1 .. Window : w[i] = d[l - Window + i]
    <3>1. Len(d) > Window
      BY <1>1, <1>2, <1>6, SMTT(60)
    <3>2. /\ Trim(d) \in Seq(Event) /\ Len(Trim(d)) = Window
          /\ \A i \in 1 .. Window : Trim(d)[i] = d[Len(d) - Window + i]
      BY <3>1, TrimType, Zenon
    <3> QED
      BY <1>1, <1>3, <3>2, Zenon
  <2>2. /\ v \in Seq(Event) /\ Len(v) = Window + 1 /\ v[Window + 1] = e
        /\ \A i \in 1 .. Window : v[i] = w[i]
    BY <1>3, <2>1, SeqAppend, SMTT(60)
  <2>3. PICK p, q : p = Trim(v) /\ q = Trim(x)
    BY Zenon
  <2>4. /\ p \in Seq(Event) /\ Len(p) = Window
        /\ \A i \in 1 .. Window : p[i] = v[Window + 1 - Window + i]
    <3>1. Len(v) > Window
      BY <1>2, <2>2
    <3>2. /\ Trim(v) \in Seq(Event) /\ Len(Trim(v)) = Window
          /\ \A i \in 1 .. Window : Trim(v)[i] = v[Len(v) - Window + i]
      BY <2>2, <3>1, TrimType, Zenon
    <3> QED
      BY <2>2, <2>3, <3>2, SMTT(60)
  <2>5. /\ q \in Seq(Event) /\ Len(q) = Window
        /\ \A i \in 1 .. Window : q[i] = x[l + 1 - Window + i]
    <3>1. Len(x) > Window
      BY <1>2, <1>4, <1>6
    <3>2. /\ Trim(x) \in Seq(Event) /\ Len(Trim(x)) = Window
          /\ \A i \in 1 .. Window : Trim(x)[i] = x[Len(x) - Window + i]
      BY <1>4, <3>1, TrimType, Zenon
    <3> QED
      BY <1>4, <2>3, <3>2, SMTT(60)
  <2>6. ASSUME NEW i \in 1 .. Window PROVE p[i] = q[i]
    <3>1. CASE i = Window
      <4>1. p[i] = v[Window + 1] /\ q[i] = x[l + 1]
        <5>1. Window + 1 - Window + i = Window + 1 /\ l + 1 - Window + i = l + 1
          BY <1>2, <3>1
        <5> QED
          BY <2>4, <2>5, <5>1, Zenon
      <4> QED
        BY <1>4, <2>2, <4>1, Zenon
    <3>2. CASE i # Window
      <4>1. i + 1 \in 1 .. Window /\ l - Window + (i + 1) \in 1 .. l
        BY <1>2, <1>6, <3>2
      <4>2. p[i] = v[i + 1]
        <5>1. Window + 1 - Window + i = i + 1
          BY <1>2
        <5> QED
          BY <2>4, <5>1, Zenon
      <4>3. q[i] = x[l - Window + (i + 1)]
        <5>1. l + 1 - Window + i = l - Window + (i + 1)
          BY <1>2
        <5> QED
          BY <2>5, <5>1, Zenon
      <4> QED
        BY <1>4, <2>1, <2>2, <4>1, <4>2, <4>3, Zenon
    <3> QED
      BY <3>1, <3>2, Zenon
  <2>7. p = q
    BY <2>4, <2>5, <2>6, SeqExtensional, Zenon
  <2> QED
    BY <1>3, <2>3, <2>7, Zenon
<1> QED
  BY <1>5, <1>6, Zenon

\* Event e is appended to session m with transcript d by thread r: m2, d2 and t are
\* what they are then.
Appends(m, d, r, e, m2, d2, t) ==
  /\ e.seq = m.lastSeq + 1
  /\ \/ r.pc = "announce" /\ e.data = "running" /\ t.pc = "exec"
     \/ r.pc = "exec" /\ e.data = "out" /\ t.pc = "exec"
     \/ r.pc = "finish" /\ e.data = r.status /\ t.pc = "marked"
  /\ t.status = r.status
  /\ m2 = [m EXCEPT !.lastSeq = m.lastSeq + 1, !.events = Trim(Append(m.events, e)),
                    !.truncated = m2.truncated]
  /\ m2.truncated \in BOOLEAN
  /\ \/ m2.truncated /\ d2 = d
     \/ ~m2.truncated /\ ~m.truncated /\ d2 = Append(d, e)

LEMMA AppendsSound ==
  ASSUME SessionInv, up, NEW a \in Agent, NEW e \in Event, NEW m2, NEW d2, NEW t \in ThreadState,
         Appends(mem[a], disk[a], th[a], e, m2, d2, t)
  PROVE  m2 \in Session /\ d2 \in Seq(Event) /\ Sound(a, m2, d2, t)
<1>1. PICK m, d, r : m = mem[a] /\ d = disk[a] /\ r = th[a]
  BY Zenon
<1>2. Appends(m, d, r, e, m2, d2, t) /\ r.pc \in {"announce", "exec", "finish"}
  BY <1>1, Zenon DEF Appends
<1>3. /\ DiskOK(d, r) /\ MemOK(m, d, r) /\ Present(m) /\ m \in Session
      /\ r \in ThreadState /\ d \in Seq(Event) /\ r.status \in Ends \cup {"queued"}
  <2>1. SessionOK(a) /\ r \in ThreadState /\ d \in Seq(Event) /\ m \in Session \cup {Absent}
    BY <1>1, Zenon DEF SessionInv, AgentTypeOK
  <2> QED
    BY <1>1, <1>2, <2>1, CloneType, Zenon DEF SessionOK, ThreadState, InMemory
<1>4. PICK l \in Nat : l = Len(d)
  BY <1>3, SeqPlaces, Zenon
<1>5. m.lastSeq \in Nat /\ m.events \in Seq(Event) /\ m.status = "running"
  BY <1>2, <1>3, Zenon DEF Session, MemOK
<1>6. Trim(Append(m.events, e)) \in Seq(Event)
  BY <1>5, SeqAppend, TrimType, Zenon
<1>7. PICK n, w, b : n = m.lastSeq + 1 /\ w = Trim(Append(m.events, e)) /\ b = m2.truncated
  BY Zenon
<1>8. n \in Nat /\ w \in Seq(Event) /\ b \in BOOLEAN
      /\ m2 = [m EXCEPT !.lastSeq = n, !.events = w, !.truncated = b]
  BY <1>2, <1>5, <1>6, <1>7, SMTT(60) DEF Appends
<1>9. m2 \in Session /\ m2.lastSeq = n /\ m2.events = w /\ m2.status = "running" /\ m2.truncated = b
  BY <1>3, <1>5, <1>8, Zenon DEF Session
<1>10. Present(m2)
  BY <1>9 DEF Present, Absent
<1>11. CASE b
  <2>1. d2 = d
    BY <1>2, <1>7, <1>11, Zenon DEF Appends
  <2>2. DiskOK(d, t)
    BY <1>2, <1>3, Zenon DEF DiskOK, Appends, Finished
  <2>5. Len(d) <= m2.lastSeq
    BY <1>3, <1>4, <1>5, <1>7, <1>9, SMTT(60) DEF MemOK
  <2>3. MemOK(m2, d, t)
    BY <1>2, <1>9, <1>11, <2>5, Zenon DEF MemOK, Appends, Over, Ends
  <2>4. Later(d, r, d, t)
    BY <1>2, <1>4, SMTT(60) DEF Later, Appends, Finished
  <2> QED
    BY <1>1, <1>2, <1>3, <1>5, <1>9, <1>10, <2>1, <2>2, <2>3, <2>4, Zenon DEF Sound, Appends, Writing
<1>12. CASE ~b
  <2>1. d2 = Append(d, e) /\ ~m.truncated
    BY <1>2, <1>7, <1>12, Zenon DEF Appends
  <2>2. /\ d2 \in Seq(Event) /\ Len(d2) = l + 1 /\ d2[l + 1] = e /\ \A i \in 1 .. l : d2[i] = d[i]
        /\ d2 # <<>>
    BY <1>3, <1>4, <2>1, SeqAppend, SMTT(60)
  <2>3. m.lastSeq = l /\ m.events = Trim(d) /\ n = l + 1
    BY <1>3, <1>4, <1>7, <2>1, Zenon DEF MemOK
  <2>4. \A i \in 1 .. l : d[i].seq = i /\ ~Terminal(d[i].data)
    BY <1>2, <1>3, <1>4, Zenon DEF DiskOK, Finished
  <2>5. e.seq = l + 1 /\ (Terminal(e.data) => e.data = t.status /\ t.pc = "marked")
    <3>1. ~Terminal("running") /\ ~Terminal("out")
      BY Zenon DEF Terminal, Final
    <3> QED
      BY <1>2, <2>3, <3>1, Zenon DEF Appends
  <2>6. DiskOK(d2, t)
    <3>1. \A i \in 1 .. l + 1 : i \in 1 .. l \/ i = l + 1
      OBVIOUS
    <3>2. \A i \in 1 .. Len(d2) : d2[i].seq = i
      BY <2>2, <2>4, <2>5, <3>1, Zenon
    <3>3. \A i \in 1 .. Len(d2) : Terminal(d2[i].data) =>
            i = Len(d2) /\ d2[i].data = t.status /\ t.pc \in Finished \cup {"marked"}
      BY <2>2, <2>4, <2>5, <3>1, Zenon
    <3>4. t.pc \in {"exec", "marked"} /\ (t.pc = "marked" => t.status \in Ends)
      BY <1>2, <1>3, Zenon DEF Appends, DiskOK
    <3> QED
      BY <3>2, <3>3, <3>4, Zenon DEF DiskOK
  <2>7. w = Trim(d2)
    BY <1>3, <1>7, <2>1, <2>3, TrimFollows, Zenon
  <2>8. t.pc = "marked" => Marks(d2, t)
    BY <1>2, <2>2, Zenon DEF Marks, Appends
  <2>9. MemOK(m2, d2, t)
    BY <1>2, <1>9, <2>2, <2>3, <2>7, <2>8, SMTT(60) DEF MemOK, Appends, Over, Ends
  <2>10. Later(d, r, d2, t)
    <3>1. Len(d) <= Len(d2)
      BY <1>4, <2>2
    <3> QED
      BY <1>2, <3>1, Zenon DEF Later, Appends, Finished
  <2> QED
    BY <1>1, <1>2, <1>3, <1>5, <1>9, <1>10, <2>2, <2>6, <2>9, <2>10, Zenon DEF Sound, Appends, Writing
<1> QED
  BY <1>8, <1>11, <1>12, Zenon

LEMMA AppendMoves ==
  ASSUME SessionInv, NEW a \in Agent, Announce(a) \/ Output(a) \/ Marker(a)
  PROVE  \E e \in Event, m \in Session, d \in Seq(Event), t \in ThreadState :
           /\ Appends(mem[a], disk[a], th[a], e, m, d, t)
           /\ Moved(a, m, d, t) /\ Sound(a, m, d, t)
           /\ sub' = Offered(a, e)
<1>1. PICK r, m, d : r = th[a] /\ m = mem[a] /\ d = disk[a]
  BY Zenon
<1>2. /\ r \in ThreadState /\ th \in [Agent -> ThreadState] /\ d \in Seq(Event)
      /\ mem \in [Agent -> Session \cup {Absent}] /\ disk \in [Agent -> Seq(Event)]
      /\ SessionOK(a)
  BY <1>1, Zenon DEF SessionInv, AgentTypeOK
<1>3. PICK x, p : /\ \/ r.pc = "announce" /\ x = "running" /\ p = "exec"
                     \/ r.pc = "exec" /\ x = "out" /\ p = "exec"
                     \/ r.pc = "finish" /\ x = r.status /\ p = "marked"
                  /\ AppendEvent(a, x) /\ up /\ UNCHANGED <<up, file>>
                  /\ th' = [th EXCEPT ![a] = [r EXCEPT !.pc = p]]
  <2>1. CASE Announce(a)
    BY <1>1, <2>1, Zenon DEF Announce, At, Goto
  <2>2. CASE Output(a)
    <3>1. /\ r.pc = "exec" /\ AppendEvent(a, "out") /\ up /\ UNCHANGED <<up, file>> /\ th' = th
      BY <1>1, <2>2, Zenon DEF Output, At
    <3>2. th = [th EXCEPT ![a] = [r EXCEPT !.pc = "exec"]]
      <4>1. r = [r EXCEPT !.pc = "exec"]
        BY <1>2, <3>1, Zenon DEF ThreadState
      <4> QED
        BY <1>1, <1>2, <4>1, Zenon
    <3> QED
      BY <3>1, <3>2, Zenon
  <2>3. CASE Marker(a)
    BY <1>1, <2>3, Zenon DEF Marker, At, Goto
  <2> QED
    BY <2>1, <2>2, <2>3, Zenon
<1>4. r.pc \in InMemory /\ Present(m) /\ m \in Session /\ (r.pc = "finish" => r.status \in Ends)
  <2>1. r.pc \in InMemory
    BY <1>3, Zenon DEF InMemory
  <2>2. Present(m) /\ DiskOK(d, r) /\ m \in Session \cup {Absent}
    BY <1>1, <1>2, <1>3, <2>1, Zenon DEF SessionOK
  <2> QED
    BY <2>1, <2>2, CloneType, Zenon DEF DiskOK
<1>5. x \in Status \cup {"out"} /\ p \in {"exec", "marked"}
  BY <1>3, <1>4, Zenon DEF Status, Final, Ends
<1>6. PICK e : e = [seq |-> m.lastSeq + 1, data |-> x]
  BY Zenon
<1>7. e \in Event /\ e.seq = m.lastSeq + 1 /\ e.data = x
  BY <1>4, <1>5, <1>6 DEF Event, Session
<1>8. PICK b \in BOOLEAN :
        /\ b => ~m.truncated
        /\ disk' = IF b THEN [disk EXCEPT ![a] = Append(d, e)] ELSE disk
        /\ mem' = [mem EXCEPT ![a].lastSeq = @ + 1, ![a].events = Trim(Append(@, e)),
                              ![a].truncated = ~b]
        /\ sub' = Offered(a, e)
  BY <1>1, <1>3, <1>6, Zenon DEF AppendEvent
<1>9. PICK m2, d2, t : /\ m2 = [m EXCEPT !.lastSeq = m.lastSeq + 1, !.events = Trim(Append(m.events, e)),
                                         !.truncated = ~b]
                       /\ d2 = IF b THEN Append(d, e) ELSE d
                       /\ t = [r EXCEPT !.pc = p]
  BY Zenon
<1>10. mem' = [mem EXCEPT ![a] = m2]
  BY <1>1, <1>8, <1>9, Zenon
<1>11. disk' = [disk EXCEPT ![a] = d2]
  BY <1>1, <1>2, <1>8, <1>9, Zenon
<1>12. t \in ThreadState /\ t.pc = p /\ t.status = r.status
  BY <1>2, <1>5, <1>9, Zenon DEF ThreadState, InMemory
<1>13. m2.truncated = ~b
  BY <1>4, <1>9, Zenon DEF Session
<1>14. Appends(m, d, r, e, m2, d2, t)
  BY <1>3, <1>7, <1>8, <1>9, <1>12, <1>13, Zenon DEF Appends
<1>15. m2 \in Session /\ d2 \in Seq(Event) /\ Sound(a, m2, d2, t)
  BY <1>1, <1>3, <1>7, <1>12, <1>14, AppendsSound, Zenon
<1>16. Moved(a, m2, d2, t)
  BY <1>3, <1>9, <1>10, <1>11, Zenon DEF Moved
<1> QED
  BY <1>1, <1>7, <1>8, <1>12, <1>14, <1>15, <1>16, Zenon

-----------------------------------------------------------------------------
(* The process stops and is started again *)

LEMMA StopKeeps ==
  ASSUME SessionInv, Stop
  PROVE  SessionInv'
<1>1. /\ up' = FALSE /\ mem' = [x \in Agent |-> Absent] /\ file' = file /\ disk' = disk
      /\ th' = [x \in Agent |-> [th[x] EXCEPT !.pc = IF @ \in {"idle", "done", "refused"} THEN @ ELSE "dead"]]
  BY Zenon DEF Stop
<1>2. /\ th \in [Agent -> ThreadState] /\ file \in [Agent -> Saved \cup {Absent}]
      /\ disk \in [Agent -> Seq(Event)]
  BY Zenon DEF SessionInv, AgentTypeOK
<1>3. ASSUME NEW x \in Agent
      PROVE  /\ th'[x] \in ThreadState /\ th'[x].status = th[x].status
             /\ th'[x].pc = IF th[x].pc \in {"idle", "done", "refused"} THEN th[x].pc ELSE "dead"
  <2>1. PICK r, t : r = th[x] /\ t = th'[x]
    BY Zenon
  <2>2. r \in ThreadState /\ t = [r EXCEPT !.pc = IF r.pc \in {"idle", "done", "refused"} THEN r.pc ELSE "dead"]
    BY <1>1, <1>2, <2>1, Zenon
  <2>3. /\ t \in ThreadState /\ t.status = r.status
        /\ t.pc = IF r.pc \in {"idle", "done", "refused"} THEN r.pc ELSE "dead"
    BY <2>2, Zenon DEF ThreadState, Over
  <2> QED
    BY <2>1, <2>3, Zenon
<1>4. AgentTypeOK'
  <2>1. th' \in [Agent -> ThreadState]
    BY <1>1, <1>3, Zenon
  <2> QED
    BY <1>1, <1>2, <2>1, Zenon DEF AgentTypeOK
<1>5. ASSUME NEW x \in Agent PROVE SessionOK(x)' /\ th'[x].pc \notin Writing
  <2>1. PICK r, t, d, f : r = th[x] /\ t = th'[x] /\ d = disk[x] /\ f = file[x]
    BY Zenon
  <2>2. /\ t.status = r.status
        /\ t.pc = IF r.pc \in {"idle", "done", "refused"} THEN r.pc ELSE "dead"
    BY <1>3, <2>1, Zenon
  <2>3. DiskOK(d, r) /\ (Present(f) => SavedOK(f, d, r)) /\ d \in Seq(Event) /\ Len(d) \in Nat
    <3>1. SessionOK(x) /\ d \in Seq(Event)
      BY <1>2, <2>1, Zenon DEF SessionInv
    <3> QED
      BY <2>1, <3>1, SeqPlaces, Zenon DEF SessionOK
  <2>4. DiskOK(d, t)
    BY <2>2, <2>3, Zenon DEF DiskOK, Finished
  <2>5. Present(f) => SavedOK(f, d, t)
    <3> SUFFICES ASSUME Present(f) PROVE SavedOK(f, d, t)
      BY Zenon
    <3>1. f \in Saved
      BY <1>2, <2>1, Zenon DEF Present
    <3>2. Later(d, r, d, t)
      BY <2>2, <2>3, SMTT(60) DEF Later, Finished
    <3> QED
      BY <2>3, <3>1, <3>2, SavedStays, Zenon
  <2>6. t.pc \in Over \cup {"idle"} /\ t.pc \notin Writing
    BY <2>2, Zenon DEF Over, Writing
  <2> QED
    BY <1>1, <2>1, <2>4, <2>5, <2>6, Zenon DEF SessionOK, Present
<1> QED
  BY <1>4, <1>5, Zenon DEF SessionInv, SnapOK

\* What a restart makes of a saved session.
LEMMA LoadedOK ==
  ASSUME SessionInv, ~up, NEW a \in Agent, Present(file[a]), NEW l, l = Loaded(a)
  PROVE  /\ l \in Session /\ MemOK(l, disk[a], th[a])
         /\ Terminal(file[a].status) => l.status = file[a].status
<1>1. PICK f, d, t : f = file[a] /\ d = disk[a] /\ t = th[a]
  BY Zenon
<1>2. /\ f \in Saved /\ d \in Seq(Event) /\ t \in ThreadState /\ DiskOK(d, t) /\ SavedOK(f, d, t)
      /\ t.pc \in Over
  <2>1. SessionOK(a) /\ f \in Saved \cup {Absent} /\ d \in Seq(Event) /\ t \in ThreadState
    BY <1>1, Zenon DEF SessionInv, AgentTypeOK
  <2>2. DiskOK(d, t) /\ SavedOK(f, d, t) /\ t.pc \in Over \cup {"idle"}
    BY <1>1, <2>1, Zenon DEF SessionOK
  <2> QED
    BY <1>1, <2>1, <2>2, Zenon DEF SavedOK, Present
<1>3. PICK k \in Nat : k = Len(d) /\ (d # <<>> => k >= 1) /\ (d = <<>> => k = 0)
  BY <1>2, SeqPlaces, SeqNothing, SMTT(60)
<1>4. Numbered(d, 0)
  BY <1>2 DEF Numbered, DiskOK
<1>w. PICK w : w = Trim(d)
  BY Zenon
<1>5. PICK b \in Nat : w = Trim(d) /\ Windowed(w, d, b)
  BY <1>4, <1>w, TrimIsWindow, Zenon
<1>6. w \in Seq(Event)
  BY <1>5, Zenon DEF Windowed, Numbered
<1>7. PICK s : s = IF w = <<>> THEN 0 ELSE Newest(w).seq
  BY Zenon
<1>8. s = k
  <2>1. PICK v \in Nat : v = Len(w) /\ b + v = k /\ (w # <<>> => v >= 1)
    BY <1>3, <1>5, <1>6, SeqPlaces, SeqNothing, SMTT(60) DEF Windowed
  <2>2. CASE w = <<>>
    BY <1>3, <1>5, <1>7, <2>2, Zenon DEF Windowed
  <2>3. CASE w # <<>>
    <3>1. w[v].seq = b + v
      BY <1>5, <2>1, <2>3, SMTT(60) DEF Windowed, Numbered
    <3> QED
      BY <1>7, <2>1, <2>3, <3>1, Zenon DEF Newest
  <2> QED
    BY <2>2, <2>3, Zenon
<1>9. PICK n, z : /\ n = (IF s > f.lastSeq THEN s ELSE f.lastSeq) /\ z = Recovered(f, d)
                  /\ l = [status |-> z, lastSeq |-> n, truncated |-> f.truncated, events |-> w]
  BY <1>1, <1>5, <1>7, Zenon DEF Loaded
<1>10. n \in Nat /\ k <= n /\ (~f.truncated => n = k)
  BY <1>2, <1>3, <1>8, <1>9 DEF Saved, SavedOK
<1>11. /\ z \in Ends \cup {"interrupted"} /\ (Terminal(f.status) => z = f.status)
       /\ z \in Ends => z = t.status /\ t.pc \in Finished /\ (~f.truncated => Marks(d, t))
  <2>1. f.status \in Status /\ Status = {"queued", "running"} \cup Final /\ Final = Ends \cup {"interrupted"}
    BY <1>2, Zenon DEF Saved, Status, Final, Ends
  <2>2. CASE f.status \notin {"queued", "running"}
    <3>1. z = f.status
      BY <1>9, <2>2, Zenon DEF Recovered
    <3> QED
      BY <1>2, <2>1, <2>2, <3>1, Zenon DEF SavedOK
  <2>3. CASE f.status \in {"queued", "running"} /\ d # <<>> /\ Terminal(Newest(d).data)
    <3>1. z = Newest(d).data
      BY <1>9, <2>3, Zenon DEF Recovered
    <3>2. Newest(d) = d[k] /\ k \in 1 .. Len(d)
      BY <1>3, <2>3 DEF Newest
    <3>3. z = t.status /\ t.pc \in Finished \cup {"marked"}
      BY <1>2, <2>3, <3>1, <3>2, Zenon DEF DiskOK
    <3>4. t.status \in Ends
      BY <1>2, <2>1, <2>3, <3>1, <3>3, Zenon DEF ThreadState, Terminal, Final, Ends
    <3>5. Marks(d, t)
      BY <1>3, <2>3, <3>1, <3>2, <3>3, Zenon DEF Marks
    <3>6. ~Terminal(f.status)
      BY <2>3, Zenon DEF Terminal, Final
    <3>7. t.pc \in Finished
      BY <1>2, <3>3, Zenon DEF Over, Finished
    <3> QED
      BY <3>3, <3>4, <3>5, <3>6, <3>7, Zenon
  <2>4. CASE f.status \in {"queued", "running"} /\ ~(d # <<>> /\ Terminal(Newest(d).data))
    <3>1. z = "interrupted"
      BY <1>9, <2>4, Zenon DEF Recovered
    <3>2. ~Terminal(f.status)
      BY <2>4, Zenon DEF Terminal, Final
    <3> QED
      BY <3>1, <3>2, Zenon DEF Ends
  <2> QED
    BY <2>2, <2>3, <2>4, Zenon
<1>12. /\ l.status = z /\ l.lastSeq = n /\ l.truncated = f.truncated /\ l.events = w
  BY <1>9, SMTT(60)
<1>13. l \in Session
  <2>1. z \in Status
    BY <1>11, Zenon DEF Ends, Status, Final
  <2>2. f.truncated \in BOOLEAN
    BY <1>2, Zenon DEF Saved
  <2> QED
    BY <1>6, <1>9, <1>10, <2>1, <2>2, SMTT(60) DEF Session
<1>14. MemOK(l, d, t)
  <2>1. t.pc \in {"done", "refused", "dead"}
    BY <1>2, Zenon DEF Over
  <2>2. ~l.truncated => l.lastSeq = Len(d) /\ l.events = Trim(d)
    BY <1>3, <1>5, <1>10, <1>12, Zenon
  <2>3. l.status \in Ends => l.status = t.status /\ t.pc \in Finished /\ (~l.truncated => Marks(d, t))
    BY <1>11, <1>12, Zenon
  <2>4. Len(d) <= l.lastSeq
    BY <1>3, <1>10, <1>12, Zenon
  <2> QED
    BY <1>11, <1>12, <2>1, <2>2, <2>3, <2>4, Zenon DEF MemOK
<1> QED
  BY <1>1, <1>11, <1>12, <1>13, <1>14, Zenon

LEMMA RestartKeeps ==
  ASSUME SessionInv, Restart
  PROVE  SessionInv' /\ \A x \in Agent : file[x].status = "interrupted" => file'[x].status = "interrupted"
<1>1. /\ ~up /\ up' = TRUE /\ disk' = disk /\ th' = th
      /\ mem' = [x \in Agent |-> IF Present(file[x]) THEN Loaded(x) ELSE Absent]
      /\ file' = IF \E x \in Agent : Present(file[x]) /\ ~Terminal(file[x].status)
                 THEN [x \in Agent |-> Clone(mem'[x])] ELSE file
  BY Zenon DEF Restart
<1>2. /\ th \in [Agent -> ThreadState] /\ file \in [Agent -> Saved \cup {Absent}]
      /\ disk \in [Agent -> Seq(Event)]
  BY Zenon DEF SessionInv, AgentTypeOK
<1>3. ASSUME NEW x \in Agent
      PROVE  /\ mem'[x] \in Session \cup {Absent}
             /\ Present(mem'[x]) => MemOK(mem'[x], disk[x], th[x])
             /\ Present(file[x]) /\ Terminal(file[x].status) => mem'[x].status = file[x].status
             /\ ~Present(file[x]) => mem'[x] = Absent /\ file[x] = Absent
  <2>1. CASE Present(file[x])
    <3>1. PICK l : l = Loaded(x)
      BY Zenon
    <3>2. /\ l \in Session /\ MemOK(l, disk[x], th[x])
          /\ Terminal(file[x].status) => l.status = file[x].status
      BY <1>1, <2>1, <3>1, LoadedOK, Zenon
    <3>3. mem'[x] = l
      BY <1>1, <2>1, <3>1, Zenon
    <3> QED
      BY <2>1, <3>2, <3>3, Zenon
  <2>2. CASE ~Present(file[x])
    <3>1. mem'[x] = Absent
      BY <1>1, <2>2, Zenon
    <3> QED
      BY <2>2, <3>1, Zenon DEF Present
  <2> QED
    BY <2>1, <2>2, Zenon
<1>4. ASSUME NEW x \in Agent
      PROVE  /\ file'[x] \in Saved \cup {Absent}
             /\ Present(file'[x]) => SavedOK(file'[x], disk[x], th[x])
             /\ mem'[x].status = "interrupted" <=> file'[x].status = "interrupted"
             /\ file[x].status = "interrupted" => file'[x].status = "interrupted"
  <2>1. CASE \E y \in Agent : Present(file[y]) /\ ~Terminal(file[y].status)
    <3>1. PICK m : m = mem'[x] /\ file'[x] = Clone(m)
      BY <1>1, <2>1, Zenon
    <3>2. m \in Session \cup {Absent} /\ (Present(m) => MemOK(m, disk[x], th[x]))
      BY <1>3, <3>1, Zenon
    <3>3. /\ Clone(m) \in Saved \cup {Absent} /\ Clone(m).status = m.status
          /\ Present(Clone(m)) <=> Present(m)
      BY <3>2, CloneType, Zenon
    <3>4. Present(m) => SavedOK(Clone(m), disk[x], th[x])
      BY <1>2, <3>2, CloneSaved, Zenon
    <3>5. file[x].status = "interrupted" => m.status = "interrupted"
      <4> SUFFICES ASSUME file[x].status = "interrupted" PROVE m.status = "interrupted"
        BY Zenon
      <4>1. Present(file[x]) /\ Terminal(file[x].status)
        BY DEF Present, Absent, Terminal, Final
      <4> QED
        BY <1>3, <3>1, <4>1, Zenon
    <3> QED
      BY <3>1, <3>3, <3>4, <3>5, Zenon
  <2>2. CASE ~ \E y \in Agent : Present(file[y]) /\ ~Terminal(file[y].status)
    <3>1. file' = file
      BY <1>1, <2>2, Zenon
    <3>2. mem'[x].status = file[x].status
      BY <1>3, <2>2, Zenon
    <3>3. SessionOK(x)
      BY Zenon DEF SessionInv
    <3> QED
      BY <1>2, <3>1, <3>2, <3>3, Zenon DEF SessionOK
  <2> QED
    BY <2>1, <2>2, Zenon
<1>5. ASSUME NEW x \in Agent PROVE SessionOK(x)' /\ th[x].pc \in Over \cup {"idle"}
  <2>1. SessionOK(x)
    BY DEF SessionInv
  <2>2. DiskOK(disk[x], th[x]) /\ th[x].pc \in Over \cup {"idle"}
    BY <1>1, <2>1, Zenon DEF SessionOK
  <2>3. th[x].pc \notin InMemory
    BY <2>2, Zenon DEF Over, InMemory
  <2> QED
    BY <1>1, <1>3, <1>4, <2>2, <2>3, Zenon DEF SessionOK
<1>6. AgentTypeOK'
  <2>1. mem' \in [Agent -> Session \cup {Absent}]
    BY <1>1, <1>3, Zenon
  <2>2. file' \in [Agent -> Saved \cup {Absent}]
    <3>1. file' = [x \in Agent |-> file'[x]]
      BY <1>1, <1>2, Zenon
    <3> QED
      BY <1>4, <3>1, Zenon
  <2> QED
    BY <1>1, <1>2, <2>1, <2>2, Zenon DEF AgentTypeOK
<1>7. \A x, b \in Agent : SnapOK(b, x)'
  BY <1>1, <1>5, Zenon DEF SnapOK, Writing, Over
<1> QED
  BY <1>4, <1>5, <1>6, <1>7, Zenon DEF SessionInv

\* The steps of clients, and those that only cancel.
OtherStep ==
  \/ \E c \in Client : Receive(c) \/ Leave(c) \/ \E a \in Agent : Subscribe(c, a)
  \/ KillCancel \/ KillRemove \/ Close

LEMMA OtherKeeps ==
  ASSUME SessionInv, UNCHANGED <<up, mem, file, disk, th>>
  PROVE  SessionInv'
BY Zenon DEF SessionInv, AgentTypeOK, SessionOK, SnapOK

LEMMA OtherChanges ==
  ASSUME OtherStep
  PROVE  UNCHANGED <<up, mem, file, disk, th>>
BY Zenon DEF OtherStep, Receive, Leave, Subscribe, KillCancel, KillRemove, Close

LEMMA AgentSteps ==
  Next => \/ \E a \in Agent : QuietStep(a) \/ Announce(a) \/ Output(a) \/ Marker(a)
          \/ OtherStep \/ (up /\ Stop) \/ Restart
BY Zenon DEF Next, Thread, QuietStep, OtherStep, CloseReturn, Crash

LEMMA SessionStep == SessionInv /\ [Next]_vars => SessionInv'
<1> SUFFICES ASSUME SessionInv, [Next]_vars PROVE SessionInv'
  BY Zenon
<1>1. ASSUME NEW a \in Agent, QuietStep(a) PROVE SessionInv'
  <2>1. PICK m \in Session \cup {Absent}, t \in ThreadState :
          Moved(a, m, disk[a], t) /\ Sound(a, m, disk[a], t)
    BY <1>1, QuietMoves, Zenon
  <2>2. disk[a] \in Seq(Event)
    BY Zenon DEF SessionInv, AgentTypeOK
  <2> QED
    BY <2>1, <2>2, MoveKeeps, Zenon
<1>2. ASSUME NEW a \in Agent, Announce(a) \/ Output(a) \/ Marker(a) PROVE SessionInv'
  <2>1. PICK m \in Session, d \in Seq(Event), t \in ThreadState :
          Moved(a, m, d, t) /\ Sound(a, m, d, t)
    BY <1>2, AppendMoves, Zenon
  <2> QED
    BY <2>1, MoveKeeps, Zenon
<1>3. CASE OtherStep
  BY <1>3, OtherChanges, OtherKeeps, Zenon
<1>4. CASE Stop
  BY <1>4, StopKeeps, Zenon
<1>5. CASE Restart
  BY <1>5, RestartKeeps, Zenon
<1>6. CASE UNCHANGED vars
  <2>1. UNCHANGED <<up, mem, file, disk, th>>
    BY <1>6, Zenon DEF vars
  <2> QED
    BY <2>1, OtherKeeps, Zenon
<1> QED
  BY <1>1, <1>2, <1>3, <1>4, <1>5, <1>6, AgentSteps, Zenon

LEMMA SessionInit == Init => SessionInv
<1> SUFFICES ASSUME Init PROVE SessionInv
  BY Zenon
<1>1. PICK n, t : n = [b \in Agent |-> Absent] /\ t = [pc |-> "idle", snap |-> n, status |-> "queued"]
  BY Zenon
<1>2. t \in ThreadState /\ t.pc = "idle"
  <2>1. n \in [Agent -> Saved \cup {Absent}]
    BY <1>1, Zenon
  <2> QED
    BY <1>1, <2>1, Zenon DEF ThreadState
<1>3. /\ up = TRUE /\ mem = n /\ file = n /\ disk = [a \in Agent |-> <<>>]
      /\ th = [a \in Agent |-> t]
  BY <1>1, Zenon DEF Init
<1>4. AgentTypeOK
  <2>1. n \in [Agent -> Session \cup {Absent}] /\ n \in [Agent -> Saved \cup {Absent}]
    BY <1>1, Zenon
  <2>2. <<>> \in Seq(Event)
    OBVIOUS
  <2> QED
    BY <1>2, <1>3, <2>1, <2>2, Zenon DEF AgentTypeOK
<1>5. DiskOK(<<>>, t)
  BY <1>2 DEF DiskOK
<1>6. \A a \in Agent : mem[a] = Absent /\ file[a] = Absent /\ disk[a] = <<>> /\ th[a] = t
  BY <1>1, <1>3, Zenon
<1>7. t.pc \notin InMemory /\ t.pc \notin Writing
  BY <1>2, Zenon DEF InMemory, Writing
<1> QED
  BY <1>3, <1>4, <1>5, <1>6, <1>7, Zenon DEF SessionInv, SessionOK, SnapOK, Present

LEMMA SessionsHold == Spec => []SessionInv
BY SessionInit, SessionStep, PTL DEF Spec

\* A restart, wherever it finds the file and the transcript, comes back with the
\* terminal status that a client could see: for any number of sessions that save each
\* other's records, and any order of saves, failures and stops.
THEOREM FinalStatusSurvives == Spec => []FinalSurvivesRestart
<1>1. SessionInv => FinalSurvivesRestart
  <2> SUFFICES ASSUME SessionInv, NEW a \in Agent, up, Present(mem[a]), Terminal(mem[a].status),
                      ~mem[a].truncated, Present(file[a])
               PROVE  Recovered(file[a], disk[a]) = mem[a].status
    BY Zenon DEF FinalSurvivesRestart
  <2>1. PICK m, f, d, t : m = mem[a] /\ f = file[a] /\ d = disk[a] /\ t = th[a]
    BY Zenon
  <2>2. /\ MemOK(m, d, t) /\ SavedOK(f, d, t) /\ f \in Saved /\ m \in Session /\ d \in Seq(Event)
        /\ m.status = "interrupted" <=> f.status = "interrupted"
    <3>1. /\ SessionOK(a) /\ f \in Saved \cup {Absent} /\ m \in Session \cup {Absent}
          /\ d \in Seq(Event)
      BY <2>1, Zenon DEF SessionInv, AgentTypeOK
    <3> QED
      BY <2>1, <3>1, Zenon DEF SessionOK, Present
  <2>3. /\ m.status \in Ends \cup {"interrupted"}
        /\ f.status \in {"queued", "running", "interrupted"} \cup Ends
    BY <2>1, <2>2, Zenon DEF Terminal, Final, Ends, Saved, Status
  <2>4. CASE f.status = "interrupted"
    <3>1. Recovered(f, d) = f.status
      BY <2>4, Zenon DEF Recovered
    <3> QED
      BY <2>1, <2>2, <2>4, <3>1, Zenon
  <2>5. CASE f.status # "interrupted"
    <3>1. m.status \in Ends /\ m.status = t.status /\ Marks(d, t)
      BY <2>1, <2>2, <2>3, <2>5, Zenon DEF MemOK
    <3>2. CASE f.status \in Ends
      <4>1. Recovered(f, d) = f.status /\ f.status = t.status
        BY <2>2, <3>2, Zenon DEF Recovered, SavedOK, Ends
      <4> QED
        BY <2>1, <3>1, <4>1, Zenon
    <3>3. CASE f.status \in {"queued", "running"}
      <4>1. d # <<>> /\ Newest(d).data = t.status /\ Terminal(Newest(d).data)
        BY <3>1, Zenon DEF Marks, Newest, Terminal, Final, Ends
      <4>2. Recovered(f, d) = Newest(d).data
        BY <3>3, <4>1, Zenon DEF Recovered
      <4> QED
        BY <2>1, <3>1, <4>1, <4>2, Zenon
    <3> QED
      BY <2>3, <2>5, <3>2, <3>3, Zenon
  <2> QED
    BY <2>4, <2>5, Zenon
<1> QED
  BY <1>1, SessionsHold, PTL

-----------------------------------------------------------------------------
(* The streams of clients *)

\* e is what d has beyond its first k events.
Remainder(e, d, k) ==
  /\ e \in Seq(Event)
  /\ Len(e) = IF k < Len(d) THEN Len(d) - k ELSE 0
  /\ \A n \in 1 .. Len(e) : e[n] = d[k + n]

\* The stream s of a client on a session with memory m, transcript d and thread t,
\* while the process is up (u) and the session interrupted (z); all is what the
\* client has and has waiting.
StreamOK(s, all, m, d, t, u, z) ==
  /\ \A i \in 1 .. Len(all) : all[i].seq = i /\ (i <= Len(d) => all[i] = d[i])
  /\ d # <<>> /\ Terminal(d[Len(d)].data) => Len(all) <= Len(d)
  /\ u /\ t.pc \in InMemory => Len(all) <= m.lastSeq
  /\ u /\ s.open /\ t.pc \in InMemory => Len(all) = m.lastSeq
  /\ s.open /\ t.pc \in {"marked", "final", "writeFinal", "closing"} => Marks(all, t)
  /\ s.ended => (t.pc \in Finished /\ Marks(all, t) /\ t.status \in Ends) \/ z

\* The stream s while it is on that session.
Followed(s, m, d, t, u, z) ==
  /\ t.pc \notin {"idle", "found"}
  /\ s.open => u /\ t.pc \in InMemory \cup {"refused"}
  /\ s.open => ~s.ended
  /\ ~s.open /\ ~s.ended => s.queue = <<>>
  /\ ~s.lossy => StreamOK(s, s.got \o s.queue, m, d, t, u, z)

ClientOK(s) ==
  /\ StreamShape(s)
  /\ s.a = "none" => s = NoStream
  /\ s.a # "none" => Followed(s, mem[s.a], disk[s.a], th[s.a], up, file[s.a].status = "interrupted")

\* The inductive invariant of the clients' streams.
StreamInv == sub = [c \in Client |-> sub[c]] /\ \A c \in Client : ClientOK(sub[c])

\* A session, its thread and its file move on without a new event.
Passes(m, r, u, z, m2, t, u2, z2) ==
  r.pc \notin {"idle", "found"} =>
    /\ t.pc \notin {"idle", "found"}
    /\ u2 /\ t.pc \in InMemory => u /\ r.pc \in InMemory /\ m2.lastSeq = m.lastSeq
    /\ t.pc \in Marking => r.pc \in Marking /\ t.status = r.status
    /\ r.pc \in Finished => t.pc \in Finished /\ t.status = r.status
    /\ z => z2

\* A stream follows such a move, and may be closed by it.
LEMMA StreamPasses ==
  ASSUME NEW s, NEW s2, NEW all, NEW m, NEW m2, NEW d, NEW r, NEW t, NEW u, NEW u2, NEW z, NEW z2,
         r.pc \notin {"idle", "found"}, StreamOK(s, all, m, d, r, u, z),
         Passes(m, r, u, z, m2, t, u2, z2),
         s2.open => s.open,
         s2.ended => s.ended \/ (s.open /\ r.pc = "closing" /\ r.status \in Ends)
  PROVE  StreamOK(s2, all, m2, d, t, u2, z2)
<1>1. /\ t.pc \notin {"idle", "found"}
      /\ u2 /\ t.pc \in InMemory => u /\ r.pc \in InMemory /\ m2.lastSeq = m.lastSeq
      /\ t.pc \in Marking => r.pc \in Marking /\ t.status = r.status
      /\ r.pc \in Finished => t.pc \in Finished /\ t.status = r.status
      /\ z => z2
  BY Zenon DEF Passes
<1>2. /\ \A i \in 1 .. Len(all) : all[i].seq = i /\ (i <= Len(d) => all[i] = d[i])
      /\ d # <<>> /\ Terminal(d[Len(d)].data) => Len(all) <= Len(d)
  BY Zenon DEF StreamOK
<1>3. u2 /\ t.pc \in InMemory => Len(all) <= m2.lastSeq
  BY <1>1, Zenon DEF StreamOK
<1>4. u2 /\ s2.open /\ t.pc \in InMemory => Len(all) = m2.lastSeq
  BY <1>1, Zenon DEF StreamOK
<1>5. s.open /\ r.pc \in Marking => Marks(all, r)
  BY Zenon DEF StreamOK, Marking
<1>6. s2.open /\ t.pc \in Marking => Marks(all, t)
  BY <1>1, <1>5, Zenon DEF Marks
<1>7. s2.ended => (t.pc \in Finished /\ Marks(all, t) /\ t.status \in Ends) \/ z2
  <2>1. CASE s.ended
    BY <1>1, <2>1, Zenon DEF StreamOK, Marks
  <2>2. CASE s.open /\ r.pc = "closing" /\ r.status \in Ends
    <3>1. r.pc \in Marking /\ r.pc \in Finished
      BY <2>2, Zenon DEF Marking, Finished
    <3> QED
      BY <1>1, <1>5, <2>2, <3>1, ZenonT(60) DEF Marks
  <2> QED
    BY <2>1, <2>2, Zenon
<1> QED
  BY <1>2, <1>3, <1>4, <1>6, <1>7, Zenon DEF StreamOK, Marking

\* A client loses what waits for it and its connection, or only its connection.
LEMMA StreamShrinks ==
  ASSUME NEW s, NEW s2, NEW got \in Seq(Event), NEW queue \in Seq(Event), NEW m, NEW m2, NEW d \in Seq(Event),
         NEW r, NEW t, NEW u, NEW u2, NEW z,
         r.pc \notin {"idle", "found"}, StreamOK(s, got \o queue, m, d, r, u, z),
         u => m.lastSeq \in Nat \/ r.pc \notin InMemory,
         Passes(m, r, u, z, m2, t, u2, z),
         ~s2.open, s2.ended => s.ended /\ queue = <<>>
  PROVE  StreamOK(s2, got \o <<>>, m2, d, t, u2, z)
<1>1. PICK all, g, q, l : all = got \o queue /\ g = Len(got) /\ q = Len(queue) /\ l = Len(d)
  BY Zenon
<1>2. /\ g \in Nat /\ q \in Nat /\ l \in Nat /\ all \in Seq(Event) /\ Len(all) = g + q
      /\ \A i \in 1 .. g : all[i] = got[i]
  BY <1>1, SeqConcat, SeqPlaces, SMTT(60)
<1>3. got \o <<>> = got /\ (queue = <<>> => all = got)
  BY <1>1, SeqConcatNothing, Zenon
<1>4. CASE s2.ended
  <2>1. StreamOK(s2, all, m2, d, t, u2, z)
    BY <1>1, <1>4, StreamPasses, Zenon
  <2> QED
    BY <1>3, <1>4, <2>1, Zenon
<1>5. CASE ~s2.ended
  <2>1. StreamOK(s, all, m, d, r, u, z)
    BY <1>1, Zenon
  <2>2. \A i \in 1 .. g : got[i].seq = i /\ (i <= l => got[i] = d[i])
    BY <1>1, <1>2, <2>1, SMTT(60) DEF StreamOK
  <2>3. d # <<>> /\ Terminal(d[Len(d)].data) => Len(got) <= Len(d)
    BY <1>1, <1>2, <2>1, SMTT(60) DEF StreamOK
  <2>4. u2 /\ t.pc \in InMemory => Len(got) <= m2.lastSeq
    <3> SUFFICES ASSUME u2, t.pc \in InMemory PROVE Len(got) <= m2.lastSeq
      BY Zenon
    <3>1. u /\ r.pc \in InMemory /\ m2.lastSeq = m.lastSeq
      BY Zenon DEF Passes
    <3>2. Len(all) <= m.lastSeq
      BY <2>1, <3>1, Zenon DEF StreamOK
    <3> QED
      BY <1>1, <1>2, <3>1, <3>2, SMTT(60)
  <2> QED
    BY <1>1, <1>3, <1>5, <2>2, <2>3, <2>4, ZenonT(60) DEF StreamOK
<1> QED
  BY <1>4, <1>5, Zenon

\* Event e is appended to the session: a stream that is open is given it, and one that
\* is not has nothing of it.
LEMMA StreamAppends ==
  ASSUME NEW s, NEW s2, NEW all \in Seq(Event), NEW m \in Session, NEW m2, NEW d \in Seq(Event), NEW d2,
         NEW r, NEW t, NEW e \in Event, NEW z, NEW z2,
         DiskOK(d, r), MemOK(m, d, r), r.pc \in InMemory,
         StreamOK(s, all, m, d, r, TRUE, z), Passes(m, r, TRUE, z, m, r, TRUE, z2),
         Appends(m, d, r, e, m2, d2, t),
         s2.open <=> s.open, s2.ended <=> s.ended, s.open => ~s.ended
  PROVE  /\ s.open => StreamOK(s2, Append(all, e), m2, d2, t, TRUE, z2)
         /\ ~s.open => StreamOK(s2, all, m2, d2, t, TRUE, z2)
<1>1. PICK k, l, n : k = m.lastSeq /\ l = Len(d) /\ n = Len(all)
  BY Zenon
<1>2. k \in Nat /\ l \in Nat /\ n \in Nat /\ l <= k /\ n <= k /\ (s.open => n = k)
  BY <1>1, SeqPlaces, Zenon DEF Session, MemOK, StreamOK
<1>3. /\ \A i \in 1 .. n : all[i].seq = i /\ (i <= l => all[i] = d[i])
      /\ s.ended => (r.pc \in Finished) \/ z2
  <2>1. r.pc \notin {"idle", "found"}
    BY Zenon DEF InMemory
  <2>2. z => z2
    BY <2>1, Zenon DEF Passes
  <2> QED
    BY <1>1, <2>2, Zenon DEF StreamOK
<1>4. /\ e.seq = k + 1 /\ t.pc \in {"exec", "marked"} /\ (t.pc = "marked" => e.data = t.status)
      /\ m2.lastSeq = k + 1 /\ r.pc \notin Finished \cup {"marked"} /\ t.status = r.status
      /\ (d2 = d \/ (d2 = Append(d, e) /\ l = k))
  BY <1>1, Zenon DEF Appends, MemOK, Finished, Session
<1>5. d # <<>> => ~Terminal(d[Len(d)].data)
  <2> SUFFICES ASSUME d # <<>> PROVE ~Terminal(d[Len(d)].data)
    BY Zenon
  <2>1. l \in 1 .. l
    BY <1>1, <1>2, SeqNothing, SMTT(60)
  <2> QED
    BY <1>1, <1>4, <2>1, ZenonT(60) DEF DiskOK
<1>6. d2 = Append(d, e) => Len(d2) = l + 1 /\ d2[l + 1] = e /\ \A i \in 1 .. l : d2[i] = d[i]
  BY <1>1, SeqAppend, SMTT(60)
<1>7. CASE s.open
  <2>1. PICK b : b = Append(all, e)
    BY Zenon
  <2>2. Len(b) = n + 1 /\ b[n + 1] = e /\ (\A i \in 1 .. n : b[i] = all[i]) /\ b # <<>>
    BY <1>1, <2>1, SeqAppend, SMTT(60)
  <2>3. \A i \in 1 .. n + 1 : b[i].seq = i /\ (i <= Len(d2) => b[i] = d2[i])
    <3> SUFFICES ASSUME NEW i \in 1 .. n + 1 PROVE b[i].seq = i /\ (i <= Len(d2) => b[i] = d2[i])
      BY Zenon
    <3>1. CASE i \in 1 .. n
      <4>1. b[i] = all[i] /\ all[i].seq = i /\ (i <= l => all[i] = d[i])
        BY <1>3, <2>2, <3>1, ZenonT(60)
      <4>2. CASE d2 = d
        BY <1>1, <4>1, <4>2, ZenonT(60)
      <4>3. CASE d2 = Append(d, e) /\ l = k
        <5>1. i \in 1 .. l
          BY <1>2, <3>1, <4>3, SMTT(60)
        <5> QED
          BY <1>6, <4>1, <4>3, <5>1, SMTT(60)
      <4> QED
        BY <1>4, <4>2, <4>3, Zenon
    <3>2. CASE i = n + 1
      <4>1. b[i] = e /\ i = k + 1
        BY <1>2, <1>7, <2>2, <3>2, ZenonT(60)
      <4>2. CASE d2 = d
        BY <1>1, <1>2, <1>4, <4>1, <4>2, SMTT(60)
      <4>3. CASE d2 = Append(d, e) /\ l = k
        BY <1>4, <1>6, <4>1, <4>3, Zenon
      <4> QED
        BY <1>4, <4>2, <4>3, SMTT(60)
    <3> QED
      BY <1>2, <3>1, <3>2, SMTT(60)
  <2>4. d2 # <<>> /\ Terminal(d2[Len(d2)].data) => Len(b) <= Len(d2)
    <3>1. CASE d2 = d
      BY <1>5, <3>1, Zenon
    <3>2. CASE d2 = Append(d, e) /\ l = k
      BY <1>2, <1>6, <1>7, <2>2, <3>2, SMTT(60)
    <3> QED
      BY <1>4, <3>1, <3>2, ZenonT(60)
  <2>5. Len(b) = m2.lastSeq /\ Len(b) <= m2.lastSeq
    BY <1>2, <1>4, <1>7, <2>2, SMTT(60)
  <2>6. t.pc = "marked" => Marks(b, t)
    BY <1>4, <2>2, Zenon DEF Marks
  <2>7. t.pc \in {"marked", "final", "writeFinal", "closing"} => t.pc = "marked"
    BY <1>4, Zenon
  <2>8. ~s2.ended
    BY <1>7, Zenon
  <2> QED
    BY <1>7, <2>1, <2>2, <2>3, <2>4, <2>5, <2>6, <2>7, <2>8, Zenon DEF StreamOK
<1>8. CASE ~s.open
  <2>1. \A i \in 1 .. n : i <= Len(d2) => all[i] = d2[i]
    <3> SUFFICES ASSUME NEW i \in 1 .. n, i <= Len(d2) PROVE all[i] = d2[i]
      BY Zenon
    <3>1. CASE d2 = d
      BY <1>1, <1>3, <3>1, ZenonT(60)
    <3>2. CASE d2 = Append(d, e) /\ l = k
      <4>1. i \in 1 .. l
        BY <1>2, <3>2, SMTT(60)
      <4> QED
        BY <1>3, <1>6, <3>2, <4>1, SMTT(60)
    <3> QED
      BY <1>4, <3>1, <3>2, Zenon
  <2>2. d2 # <<>> /\ Terminal(d2[Len(d2)].data) => n <= Len(d2)
    <3>1. CASE d2 = d
      BY <1>5, <3>1, Zenon
    <3>2. CASE d2 = Append(d, e) /\ l = k
      BY <1>2, <1>6, <3>2, SMTT(60)
    <3> QED
      BY <1>4, <3>1, <3>2, Zenon
  <2>3. n <= m2.lastSeq
    BY <1>2, <1>4, SMTT(60)
  <2>4. s2.ended => z2
    BY <1>3, <1>4, Zenon
  <2> QED
    BY <1>1, <1>3, <1>8, <2>1, <2>2, <2>3, <2>4, ZenonT(60) DEF StreamOK
<1> QED
  BY <1>7, <1>8, Zenon

\* A client subscribes with its cursor at the last event that it has.
LEMMA StreamSubscribes ==
  ASSUME NEW s, NEW s2, NEW got \in Seq(Event), NEW m \in Session, NEW d \in Seq(Event),
         NEW t \in ThreadState, NEW z, NEW b,
         DiskOK(d, t), MemOK(m, d, t), ~m.truncated, Remainder(b, d, Len(got)),
         StreamOK(s, got, m, d, t, TRUE, z), m.status = "interrupted" => z,
         s2.open = ~Terminal(m.status), s2.ended = Terminal(m.status)
  PROVE  StreamOK(s2, (got \o b) \o <<>>, m, d, t, TRUE, z)
<1>1. PICK g, l, all : g = Len(got) /\ l = Len(d) /\ all = got \o b
  BY Zenon
<1>2. PICK v : v = IF g < l THEN l - g ELSE 0
  BY Zenon
<1>3. /\ g \in Nat /\ l \in Nat /\ v \in Nat /\ b \in Seq(Event) /\ Len(b) = v
      /\ \A i \in 1 .. v : b[i] = d[g + i]
  BY <1>1, <1>2, SeqPlaces, ZenonT(60) DEF Remainder
<1>4. /\ all \in Seq(Event) /\ Len(all) = g + v /\ \A i \in 1 .. g : all[i] = got[i]
      /\ all \o <<>> = all
  <2>1. /\ all \in Seq(Event) /\ Len(all) = Len(got) + Len(b)
        /\ \A i \in 1 .. Len(got) + Len(b) :
             all[i] = IF i <= Len(got) THEN got[i] ELSE b[i - Len(got)]
    BY <1>1, <1>3, SeqConcat, Zenon
  <2>2. all \o <<>> = all
    BY <2>1, SeqConcatNothing, Zenon
  <2> QED
    BY <1>1, <1>3, <2>1, <2>2, SMTT(60)
<1>5. \A i \in 1 .. v : all[g + i] = b[i]
  <2>1. \A i \in 1 .. Len(got) + Len(b) :
          all[i] = IF i <= Len(got) THEN got[i] ELSE b[i - Len(got)]
    BY <1>1, <1>3, SeqConcat, Zenon
  <2> QED
    BY <1>1, <1>3, <2>1, SMTT(60)
<1>6. m.lastSeq = l
  BY <1>1, Zenon DEF MemOK
<1>7. \A i \in 1 .. g + v : all[i].seq = i /\ (i <= l => all[i] = d[i])
  <2> SUFFICES ASSUME NEW i \in 1 .. g + v PROVE all[i].seq = i /\ (i <= l => all[i] = d[i])
    BY Zenon
  <2>1. CASE i \in 1 .. g
    <3>1. got[i].seq = i /\ (i <= l => got[i] = d[i])
      BY <1>1, <2>1, Zenon DEF StreamOK
    <3> QED
      BY <1>4, <2>1, <3>1, Zenon
  <2>2. CASE i \notin 1 .. g
    <3>1. PICK j \in 1 .. v : i = g + j
      <4>1. i - g \in 1 .. v /\ i = g + (i - g)
        BY <1>3, <2>2, SMTT(60)
      <4> QED
        BY <4>1, Zenon
    <3>2. all[i] = d[i] /\ i \in 1 .. l
      <4>1. all[g + j] = b[j] /\ b[j] = d[g + j]
        BY <1>3, <1>5, Zenon
      <4>2. g + j \in 1 .. l
        BY <1>2, <1>3, SMTT(60)
      <4> QED
        BY <3>1, <4>1, <4>2, Zenon
    <3> QED
      BY <1>1, <3>2, Zenon DEF DiskOK
  <2> QED
    BY <2>1, <2>2, Zenon
<1>8. g <= l => g + v = l
  BY <1>2, <1>3, SMTT(60)
<1>9. d # <<>> /\ Terminal(d[Len(d)].data) => Len(all) <= l
  <2> SUFFICES ASSUME d # <<>>, Terminal(d[Len(d)].data) PROVE Len(all) <= l
    BY Zenon
  <2>1. g <= l
    BY <1>1, Zenon DEF StreamOK
  <2> QED
    BY <1>3, <1>4, <1>8, <2>1, SMTT(60)
<1>10. t.pc \in InMemory => Len(all) = l
  <2> SUFFICES ASSUME t.pc \in InMemory PROVE Len(all) = l
    BY Zenon
  <2>1. g <= l
    BY <1>1, <1>6, Zenon DEF StreamOK
  <2> QED
    BY <1>4, <1>8, <2>1, Zenon
<1>11. Marks(d, t) /\ Len(all) = l => Marks(all, t)
  <2> SUFFICES ASSUME Marks(d, t), Len(all) = l PROVE Marks(all, t)
    BY Zenon
  <2>1. d # <<>> /\ l \in 1 .. l
    BY <1>1, <1>3, SeqNothing, SMTT(60) DEF Marks
  <2>2. all[l] = d[l] /\ all # <<>>
    BY <1>3, <1>4, <1>7, <2>1, SMTT(60)
  <2> QED
    BY <1>1, <2>2, Zenon DEF Marks
<1>12. s2.open /\ t.pc \in {"marked", "final", "writeFinal", "closing"} => Marks(all, t)
  <2> SUFFICES ASSUME s2.open, t.pc \in {"marked", "final", "writeFinal", "closing"} PROVE Marks(all, t)
    BY Zenon
  <2>1. t.pc # "marked" => m.status = t.status /\ t.status \in Ends
    BY Zenon DEF MemOK, DiskOK
  <2>2. t.pc = "marked"
    BY <2>1, Zenon DEF Terminal, Final, Ends
  <2>3. Marks(d, t) /\ t.pc \in InMemory
    BY <2>2, Zenon DEF MemOK, InMemory
  <2> QED
    BY <1>10, <1>11, <2>3, Zenon
<1>13. s2.ended => (t.pc \in Finished /\ Marks(all, t) /\ t.status \in Ends) \/ z
  <2> SUFFICES ASSUME Terminal(m.status), m.status # "interrupted"
               PROVE  t.pc \in Finished /\ Marks(all, t) /\ t.status \in Ends
    BY Zenon
  <2>1. m.status \in Ends
    BY Zenon DEF Terminal, Final, Ends
  <2>2. m.status = t.status /\ t.pc \in Finished /\ Marks(d, t)
    BY <2>1, Zenon DEF MemOK
  <2>3. d # <<>> /\ Terminal(d[Len(d)].data)
    BY <2>1, <2>2, Zenon DEF Marks, Terminal, Final, Ends
  <2>4. l <= Len(all)
    BY <1>2, <1>3, <1>4, SMTT(60)
  <2>5. Len(all) = l
    BY <1>3, <1>4, <1>9, <2>3, <2>4, SMTT(60)
  <2> QED
    BY <1>11, <2>1, <2>2, <2>5, ZenonT(60)
<1>14. t.pc \in InMemory => Len(all) <= m.lastSeq /\ Len(all) = m.lastSeq
  BY <1>3, <1>6, <1>10, SMTT(60)
<1> QED
  BY <1>1, <1>4, <1>7, <1>9, <1>12, <1>13, <1>14, SMTT(60) DEF StreamOK

\* A client whose stream stays as it is, while its session moves on.
LEMMA ClientStays ==
  ASSUME NEW s, NEW m, NEW m2, NEW d, NEW r, NEW t, NEW u, NEW u2, NEW z, NEW z2,
         Followed(s, m, d, r, u, z), Passes(m, r, u, z, m2, t, u2, z2),
         s.open => u2 /\ t.pc \in InMemory \cup {"refused"}
  PROVE  Followed(s, m2, d, t, u2, z2)
<1>1. r.pc \notin {"idle", "found"} /\ t.pc \notin {"idle", "found"}
  BY Zenon DEF Followed, Passes
<1>2. ~s.lossy => StreamOK(s, s.got \o s.queue, m2, d, t, u2, z2)
  <2> SUFFICES ASSUME ~s.lossy PROVE StreamOK(s, s.got \o s.queue, m2, d, t, u2, z2)
    BY Zenon
  <2>1. PICK all : all = s.got \o s.queue
    BY Zenon
  <2>2. StreamOK(s, all, m, d, r, u, z)
    BY <2>1, Zenon DEF Followed
  <2>3. StreamOK(s, all, m2, d, t, u2, z2)
    BY <1>1, <2>2, StreamPasses, Zenon
  <2> QED
    BY <2>1, <2>3, Zenon
<1> QED
  BY <1>1, <1>2, Zenon DEF Followed

\* A step of a thread leaves every interrupted session interrupted in the file.
LEMMA InterruptedStays ==
  ASSUME SessionInv, SessionInv', NEW a \in Agent, NEW m \in Session \cup {Absent}, NEW d, NEW t,
         Moved(a, m, d, t), Sound(a, m, d, t), NEW x \in Agent, file[x].status = "interrupted"
  PROVE  file'[x].status = "interrupted"
<1>1. up /\ up' /\ mem' = [mem EXCEPT ![a] = m] /\ mem \in [Agent -> Session \cup {Absent}]
  BY Zenon DEF Moved, SessionInv, AgentTypeOK
<1>2. SessionOK(x) /\ SessionOK(x)'
  BY Zenon DEF SessionInv
<1>3. mem[x].status = "interrupted"
  BY <1>1, <1>2, Zenon DEF SessionOK
<1>4. mem'[x].status = "interrupted"
  BY <1>1, <1>3, Zenon DEF Sound
<1> QED
  BY <1>1, <1>2, <1>4, Zenon DEF SessionOK

\* Only closing the streams ends a session's thread or touches a stream.
LEMMA QuietSub ==
  ASSUME SessionInv, NEW a \in Agent, QuietStep(a)
  PROVE  CloseStreams(a) \/ (sub' = sub /\ th'[a].pc # "done")
<1>1. th \in [Agent -> ThreadState]
  BY Zenon DEF SessionInv, AgentTypeOK
<1>2. ASSUME NEW p, Goto(a, p) PROVE th'[a].pc = p
  <2>1. PICK r : r = th[a] /\ r \in ThreadState
    BY <1>1, Zenon
  <2>2. th' = [th EXCEPT ![a] = [r EXCEPT !.pc = p]]
    BY <1>2, <2>1, Zenon DEF Goto
  <2>3. th'[a] = [r EXCEPT !.pc = p]
    BY <1>1, <2>2, Zenon
  <2> QED
    BY <2>1, <2>3, Zenon DEF ThreadState
<1>3. ASSUME NEW p, NEW q, Snapshot(a, p, q) PROVE sub' = sub /\ th'[a].pc = q
  <2>1. PICK r, n : r = th[a] /\ r \in ThreadState /\ n = [b \in Agent |-> Clone(mem[b])]
    BY <1>1, Zenon
  <2>2. th' = [th EXCEPT ![a] = [r EXCEPT !.pc = q, !.snap = n]] /\ sub' = sub
    BY <1>3, <2>1, Zenon DEF Snapshot
  <2>3. th'[a] = [r EXCEPT !.pc = q, !.snap = n]
    BY <1>1, <2>2, Zenon
  <2> QED
    BY <2>1, <2>2, <2>3, ZenonT(60) DEF ThreadState
<1>4. ASSUME NEW p, NEW q, NEW w, Write(a, p, q, w) PROVE sub' = sub /\ th'[a].pc \in {q, w}
  BY <1>2, <1>4, Zenon DEF Write
<1>5. CASE Return(a)
  <2>1. PICK r, p : r = th[a] /\ r \in ThreadState /\ th' = [th EXCEPT ![a].pc = "finish", ![a].status = p]
                    /\ sub' = sub
    BY <1>1, <1>5, Zenon DEF Return
  <2>2. th' = [th EXCEPT ![a] = [r EXCEPT !.pc = "finish", !.status = p]]
    BY <2>1, Zenon
  <2>3. PICK t : t = [r EXCEPT !.pc = "finish", !.status = p]
    BY Zenon
  <2>4. th'[a] = t
    BY <1>1, <2>2, <2>3, ZenonT(60)
  <2>5. t.pc = "finish"
    BY <2>1, <2>3, Zenon DEF ThreadState
  <2> QED
    BY <2>1, <2>4, <2>5, Zenon
<1>6. CASE Lookup(a) \/ Register(a) \/ Rollback(a) \/ SetRunning(a) \/ SetFinal(a)
  BY <1>2, <1>6, Zenon DEF Lookup, Register, Rollback, SetRunning, SetFinal
<1>7. CASE SnapshotStart(a) \/ SnapshotRunning(a) \/ SnapshotFinal(a)
  BY <1>3, <1>7, SMTT(60) DEF SnapshotStart, SnapshotRunning, SnapshotFinal
<1>8. CASE WriteStart(a) \/ WriteRunning(a) \/ WriteFinal(a)
  BY <1>4, <1>8, SMTT(60) DEF WriteStart, WriteRunning, WriteFinal
<1> QED
  BY <1>5, <1>6, <1>7, <1>8, ZenonT(60) DEF QuietStep

\* What a step without a new event means to a stream on any session.
LEMMA QuietPasses ==
  ASSUME SessionInv, SessionInv', NEW a \in Agent, NEW m \in Session \cup {Absent}, NEW t \in ThreadState,
         Moved(a, m, disk[a], t), Sound(a, m, disk[a], t), Quiet(a, m, t), NEW x \in Agent
  PROVE  /\ Passes(mem[x], th[x], TRUE, file[x].status = "interrupted",
                   mem'[x], th'[x], TRUE, file'[x].status = "interrupted")
         /\ disk'[x] = disk[x]
         /\ th'[x].pc = th[x].pc \/ x = a
<1>1. /\ mem' = [mem EXCEPT ![a] = m] /\ mem \in [Agent -> Session \cup {Absent}]
      /\ th' = [th EXCEPT ![a] = t] /\ th \in [Agent -> ThreadState]
      /\ disk' = [disk EXCEPT ![a] = disk[a]] /\ disk \in [Agent -> Seq(Event)]
  BY Zenon DEF Moved, SessionInv, AgentTypeOK
<1>2. disk'[x] = disk[x]
  BY <1>1, Zenon
<1>3. file[x].status = "interrupted" => file'[x].status = "interrupted"
  BY InterruptedStays, Zenon
<1>4. CASE x = a
  <2>1. mem'[x] = m /\ th'[x] = t
    BY <1>1, <1>4, Zenon
  <2>2. Later(disk[a], th[a], disk[a], t)
    BY Zenon DEF Sound
  <2> QED
    BY <1>2, <1>3, <1>4, <2>1, <2>2, ZenonT(60) DEF Passes, Quiet, Later
<1>5. CASE x # a
  <2>1. mem'[x] = mem[x] /\ th'[x] = th[x]
    BY <1>1, <1>5, Zenon
  <2> QED
    BY <1>2, <1>3, <2>1, Zenon DEF Passes
<1> QED
  BY <1>4, <1>5, Zenon

\* A stream that its session closes.
LEMMA Closed ==
  ASSUME NEW s, StreamShape(s), NEW s2, s2 = [s EXCEPT !.open = FALSE, !.ended = TRUE]
  PROVE  /\ StreamShape(s2) /\ s2.open = FALSE /\ s2.ended = TRUE /\ s2.a = s.a
         /\ s2.got = s.got /\ s2.queue = s.queue /\ s2.lossy = s.lossy
<1>1. PICK a, p, w, g, f, l : /\ a = s.a /\ p = s.open /\ w = s.queue /\ g = s.got /\ f = s.ended /\ l = s.lossy
                              /\ s = [a |-> a, open |-> p, queue |-> w, got |-> g, ended |-> f, lossy |-> l]
  BY ZenonT(60) DEF StreamShape
<1>2. /\ a \in Agent \cup {"none"} /\ l \in BOOLEAN
      /\ ~l => g \in Seq(Event) /\ w \in Seq(Event)
  BY <1>1, Zenon DEF StreamShape
<1>3. s2 = [a |-> a, open |-> FALSE, queue |-> w, got |-> g, ended |-> TRUE, lossy |-> l]
  BY <1>1, Zenon
<1> QED
  BY <1>1, <1>2, <1>3, Zenon DEF StreamShape

\* A stream with other flags and another queue.
LEMMA Emptied ==
  ASSUME NEW s, StreamShape(s), NEW o \in BOOLEAN, NEW e \in BOOLEAN, NEW q \in Seq(Event),
         NEW s2, s2 = [s EXCEPT !.open = o, !.queue = q, !.ended = e]
  PROVE  /\ StreamShape(s2) /\ s2.open = o /\ s2.ended = e /\ s2.a = s.a
         /\ s2.got = s.got /\ s2.queue = q /\ s2.lossy = s.lossy
<1>1. PICK a, p, w, g, f, l : /\ a = s.a /\ p = s.open /\ w = s.queue /\ g = s.got /\ f = s.ended /\ l = s.lossy
                              /\ s = [a |-> a, open |-> p, queue |-> w, got |-> g, ended |-> f, lossy |-> l]
  BY ZenonT(60) DEF StreamShape
<1>2. /\ a \in Agent \cup {"none"} /\ l \in BOOLEAN
      /\ ~l => g \in Seq(Event) /\ w \in Seq(Event)
  BY <1>1, Zenon DEF StreamShape
<1>3. s2 = [a |-> a, open |-> o, queue |-> q, got |-> g, ended |-> e, lossy |-> l]
  BY <1>1, Zenon
<1> QED
  BY <1>1, <1>2, <1>3, ZenonT(60) DEF StreamShape

\* The stream s of a client, on session x, in the new state.
LEMMA NewClient ==
  ASSUME NEW c \in Client, NEW s, sub'[c] = s, StreamShape(s),
         s.a = "none" => s = NoStream,
         s.a # "none" => Followed(s, mem'[s.a], disk'[s.a], th'[s.a], up', file'[s.a].status = "interrupted")
  PROVE  ClientOK(sub[c])'
BY Zenon DEF ClientOK

LEMMA QuietStreams ==
  ASSUME SessionInv, SessionInv', StreamInv, NEW a \in Agent, QuietStep(a)
  PROVE  StreamInv'
<1>1. PICK m \in Session \cup {Absent}, t \in ThreadState :
        Moved(a, m, disk[a], t) /\ Sound(a, m, disk[a], t) /\ Quiet(a, m, t)
  BY QuietMoves, Zenon
<1>2. up = TRUE /\ up' = TRUE /\ th'[a] = t
  BY <1>1, Zenon DEF Moved, SessionInv, AgentTypeOK
<1>3. ASSUME NEW c \in Client, sub'[c] = sub[c],
             sub[c].open /\ sub[c].a = a => th'[a].pc # "done"
      PROVE  ClientOK(sub[c])'
  <2>1. PICK s, x : s = sub[c] /\ x = s.a
    BY Zenon
  <2>2. ClientOK(s)
    BY <2>1, Zenon DEF StreamInv
  <2>3. StreamShape(s) /\ (s.a = "none" => s = NoStream)
    BY <2>2, Zenon DEF ClientOK
  <2>4. s.a # "none" => Followed(s, mem'[s.a], disk'[s.a], th'[s.a], up', file'[s.a].status = "interrupted")
    <3> SUFFICES ASSUME s.a # "none"
                 PROVE  Followed(s, mem'[x], disk'[x], th'[x], TRUE, file'[x].status = "interrupted")
      BY <1>2, <2>1, Zenon
    <3>1. x \in Agent /\ Followed(s, mem[x], disk[x], th[x], TRUE, file[x].status = "interrupted")
      BY <1>2, <2>1, <2>2, <2>3, ZenonT(60) DEF ClientOK, StreamShape
    <3>2. PICK d, r, t2 : d = disk[x] /\ r = th[x] /\ t2 = th'[x]
      BY Zenon
    <3>3. /\ Passes(mem[x], r, TRUE, file[x].status = "interrupted",
                    mem'[x], t2, TRUE, file'[x].status = "interrupted")
          /\ disk'[x] = d /\ (t2.pc = r.pc \/ x = a)
      BY <1>1, <3>1, <3>2, QuietPasses, ZenonT(60)
    <3>4. s.open => t2.pc \in InMemory \cup {"refused"}
      <4> SUFFICES ASSUME s.open PROVE t2.pc \in InMemory \cup {"refused"}
        BY Zenon
      <4>1. r.pc \in InMemory \cup {"refused"}
        BY <3>1, <3>2, Zenon DEF Followed
      <4>2. CASE x = a
        <5>1. t2 = t /\ r = th[a] /\ t.pc # "done"
          BY <1>2, <1>3, <2>1, <3>2, <4>2, ZenonT(60)
        <5> QED
          BY <1>1, <4>1, <5>1, Zenon DEF Quiet, Over
      <4> QED
        BY <3>3, <4>1, <4>2, Zenon
    <3>5. PICK n, n2, z, z2 : /\ n = mem[x] /\ n2 = mem'[x] /\ z = (file[x].status = "interrupted")
                              /\ z2 = (file'[x].status = "interrupted")
      BY Zenon
    <3>6. Followed(s, n, d, r, TRUE, z) /\ Passes(n, r, TRUE, z, n2, t2, TRUE, z2)
      BY <3>1, <3>2, <3>3, <3>5, ZenonT(60)
    <3>7. Followed(s, n2, d, t2, TRUE, z2)
      BY <3>4, <3>6, ClientStays, Zenon
    <3> QED
      BY <3>2, <3>3, <3>5, <3>7, ZenonT(60)
  <2>5. sub'[c] = s
    BY <1>3, <2>1, Zenon
  <2> QED
    BY <2>3, <2>4, <2>5, NewClient, ZenonT(60)
<1>4. CASE sub' = sub /\ th'[a].pc # "done"
  BY <1>3, <1>4, Zenon DEF StreamInv
<1>5. CASE CloseStreams(a)
  <2>1. /\ th[a].pc = "closing"
        /\ sub' = [c \in Client |-> IF sub[c].open /\ sub[c].a = a
                                    THEN [sub[c] EXCEPT !.open = FALSE, !.ended = TRUE] ELSE sub[c]]
    BY <1>5, Zenon DEF CloseStreams, At
  <2>2. ASSUME NEW c \in Client, sub[c].open, sub[c].a = a PROVE ClientOK(sub[c])'
    <3>1. PICK s, s2 : s = sub[c] /\ s2 = [s EXCEPT !.open = FALSE, !.ended = TRUE]
      BY Zenon
    <3>2. ClientOK(s) /\ s.a = a /\ s.open /\ a # "none" /\ sub'[c] = s2
      BY <2>1, <2>2, <3>1, AgentAssumption, Zenon DEF StreamInv
    <3>3. /\ StreamShape(s2) /\ s2.open = FALSE /\ s2.ended = TRUE /\ s2.a = a
          /\ s2.got = s.got /\ s2.queue = s.queue /\ s2.lossy = s.lossy
      <4>1. StreamShape(s)
        BY <3>2, Zenon DEF ClientOK
      <4>2. s2 = [s EXCEPT !.open = FALSE, !.ended = TRUE]
        BY <3>1, Zenon
      <4>3. /\ StreamShape(s2) /\ s2.open = FALSE /\ s2.ended = TRUE /\ s2.a = s.a
            /\ s2.got = s.got /\ s2.queue = s.queue /\ s2.lossy = s.lossy
        BY <4>1, <4>2, Closed, Zenon
      <4> QED
        BY <3>2, <4>3, Zenon
    <3>4. PICK d, r, n : d = disk[a] /\ r = th[a] /\ n = mem[a]
      BY Zenon
    <3>5. Followed(s, n, d, r, TRUE, file[a].status = "interrupted")
      BY <1>2, <3>2, <3>4, Zenon DEF ClientOK
    <3>6. /\ Passes(n, r, TRUE, file[a].status = "interrupted",
                    mem'[a], t, TRUE, file'[a].status = "interrupted")
          /\ disk'[a] = d
      BY <1>1, <1>2, <3>4, QuietPasses, ZenonT(60)
    <3>7. r.pc = "closing" /\ r.status \in Ends
      <4>1. DiskOK(d, r)
        BY <3>4, Zenon DEF SessionInv, SessionOK
      <4> QED
        BY <2>1, <3>4, <4>1, ZenonT(60) DEF DiskOK
    <3>8. ~s.lossy => StreamOK(s2, s.got \o s.queue, mem'[a], d, t, TRUE, file'[a].status = "interrupted")
      <4> SUFFICES ASSUME ~s.lossy
                   PROVE  StreamOK(s2, s.got \o s.queue, mem'[a], d, t, TRUE, file'[a].status = "interrupted")
        BY Zenon
      <4>1. StreamOK(s, s.got \o s.queue, n, d, r, TRUE, file[a].status = "interrupted")
        BY <3>5, Zenon DEF Followed
      <4>2. PICK all, z, z2 : /\ all = s.got \o s.queue /\ z = (file[a].status = "interrupted")
                              /\ z2 = (file'[a].status = "interrupted")
        BY Zenon
      <4>3. StreamOK(s, all, n, d, r, TRUE, z) /\ Passes(n, r, TRUE, z, mem'[a], t, TRUE, z2)
        BY <3>6, <4>1, <4>2, ZenonT(60)
      <4>4. StreamOK(s2, all, mem'[a], d, t, TRUE, z2)
        BY <3>2, <3>3, <3>7, <4>3, StreamPasses, ZenonT(60)
      <4> QED
        BY <4>2, <4>4, Zenon
    <3>9. t.pc \notin {"idle", "found"}
      BY <3>6, <3>7, ZenonT(60) DEF Passes
    <3>10. Followed(s2, mem'[a], d, t, TRUE, file'[a].status = "interrupted")
      BY <3>3, <3>8, <3>9, Zenon DEF Followed
    <3> QED
      BY <1>2, <3>2, <3>3, <3>6, <3>10, NewClient, ZenonT(60)
  <2>3. ASSUME NEW c \in Client, ~(sub[c].open /\ sub[c].a = a) PROVE ClientOK(sub[c])'
    BY <1>3, <2>1, <2>3, Zenon
  <2>4. sub' = [c \in Client |-> sub'[c]]
    BY <2>1, Zenon
  <2> QED
    BY <2>2, <2>3, <2>4, Zenon DEF StreamInv
<1> QED
  BY <1>4, <1>5, QuietSub, Zenon

\* The handler passes one event on: what the client has and has waiting is the same.
LEMMA TakenIsSame ==
  ASSUME NEW got \in Seq(Event), NEW queue \in Seq(Event), queue # <<>>
  PROVE  /\ Append(got, Head(queue)) \in Seq(Event) /\ Tail(queue) \in Seq(Event)
         /\ Append(got, Head(queue)) \o Tail(queue) = got \o queue
<1>1. PICK g, q : g = Len(got) /\ q = Len(queue)
  BY Zenon
<1>2. g \in Nat /\ q \in Nat /\ q >= 1
  BY <1>1, SeqNothing, SeqPlaces, SMTT(60)
<1>3. PICK h, p, b : h = queue[1] /\ p = Tail(queue) /\ b = Append(got, h)
  BY Zenon
<1>4. Head(queue) = h /\ h \in Event
  BY <1>1, <1>2, <1>3, SeqHeadTail, SeqElement, SMTT(60)
<1>5. p \in Seq(Event) /\ Len(p) = q - 1 /\ \A i \in 1 .. q - 1 : p[i] = queue[i + 1]
  BY <1>1, <1>3, SeqHeadTail, Zenon
<1>6. b \in Seq(Event) /\ Len(b) = g + 1 /\ b[g + 1] = h /\ \A i \in 1 .. g : b[i] = got[i]
  BY <1>1, <1>3, <1>4, SeqAppend, SMTT(60)
<1>7. PICK x, y : x = b \o p /\ y = got \o queue
  BY Zenon
<1>8. /\ x \in Seq(Event) /\ Len(x) = g + q /\ \A i \in 1 .. g + 1 : x[i] = b[i]
      /\ \A i \in 1 .. g + q : i > g + 1 => x[i] = p[i - (g + 1)]
  <2>1. /\ x \in Seq(Event) /\ Len(x) = (g + 1) + (q - 1)
        /\ \A i \in 1 .. (g + 1) + (q - 1) : x[i] = IF i <= g + 1 THEN b[i] ELSE p[i - (g + 1)]
    <3>1. /\ b \o p \in Seq(Event) /\ Len(b \o p) = Len(b) + Len(p)
          /\ \A i \in 1 .. Len(b) + Len(p) : (b \o p)[i] = IF i <= Len(b) THEN b[i] ELSE p[i - Len(b)]
      BY <1>5, <1>6, SeqConcat, Zenon
    <3> QED
      BY <1>5, <1>6, <1>7, <3>1, Zenon
  <2>2. (g + 1) + (q - 1) = g + q
    BY <1>2
  <2> QED
    BY <1>2, <2>1, <2>2, SMTT(60)
<1>9. /\ y \in Seq(Event) /\ Len(y) = g + q
      /\ \A i \in 1 .. g + q : y[i] = IF i <= g THEN got[i] ELSE queue[i - g]
  BY <1>1, <1>7, SeqConcat, ZenonT(60)
<1>10. ASSUME NEW i \in 1 .. g + q PROVE x[i] = y[i]
  <2>1. CASE i <= g
    BY <1>2, <1>6, <1>8, <1>9, <2>1, SMTT(60)
  <2>2. CASE i = g + 1
    <3>1. y[i] = queue[i - g] /\ i - g = 1
      BY <1>2, <1>9, <2>2, SMTT(60)
    <3> QED
      BY <1>2, <1>3, <1>6, <1>8, <2>2, <3>1, SMTT(60)
  <2>3. CASE i > g + 1
    <3>1. PICK j \in 1 .. q - 1 : i = g + 1 + j
      <4>1. i - (g + 1) \in 1 .. q - 1 /\ i = g + 1 + (i - (g + 1))
        BY <1>2, <2>3, SMTT(60)
      <4> QED
        BY <4>1, Zenon
    <3>2. i - (g + 1) = j /\ i - g = j + 1 /\ ~(i <= g)
      BY <1>2, <3>1, SMTT(60)
    <3>3. x[i] = p[j] /\ p[j] = queue[j + 1]
      BY <1>5, <1>8, <2>3, <3>2, Zenon
    <3>4. y[i] = queue[j + 1]
      BY <1>9, <3>2, Zenon
    <3> QED
      BY <3>3, <3>4, Zenon
  <2> QED
    BY <1>2, <2>1, <2>2, <2>3, SMTT(60)
<1>11. x = y
  BY <1>8, <1>9, <1>10, SeqExtensional, Zenon
<1> QED
  BY <1>3, <1>4, <1>5, <1>6, <1>7, <1>11, ZenonT(60)

\* The fields of a stream.
LEMMA StreamFields ==
  ASSUME NEW s, StreamShape(s)
  PROVE  \E a \in Agent \cup {"none"}, o \in BOOLEAN, e \in BOOLEAN, l \in BOOLEAN : \E q, g :
           /\ s = [a |-> a, open |-> o, queue |-> q, got |-> g, ended |-> e, lossy |-> l]
           /\ ~l => q \in Seq(Event) /\ g \in Seq(Event)
BY DEF StreamShape

\* A client that does nothing, while nothing happens to its session.
LEMMA IdleClient ==
  ASSUME StreamInv, UNCHANGED <<up, mem, file, disk, th>>, NEW c \in Client, sub'[c] = sub[c]
  PROVE  ClientOK(sub[c])'
BY Zenon DEF StreamInv, ClientOK

\* Client c alone has a new stream.
LEMMA OneClient ==
  ASSUME StreamInv, UNCHANGED <<up, mem, file, disk, th>>, NEW c \in Client, NEW s,
         sub' = [sub EXCEPT ![c] = s], StreamShape(s), s.a # "none",
         Followed(s, mem[s.a], disk[s.a], th[s.a], up, file[s.a].status = "interrupted")
  PROVE  StreamInv'
<1>1. sub = [x \in Client |-> sub[x]]
  BY Zenon DEF StreamInv
<1>2. sub'[c] = s /\ (\A x \in Client : x # c => sub'[x] = sub[x]) /\ sub' = [x \in Client |-> sub'[x]]
  BY <1>1, Zenon
<1>3. ClientOK(sub[c])'
  BY <1>2, NewClient, Zenon
<1>4. ASSUME NEW x \in Client, x # c PROVE ClientOK(sub[x])'
  BY <1>2, <1>4, IdleClient, Zenon
<1> QED
  BY <1>2, <1>3, <1>4, Zenon DEF StreamInv

\* Nothing happens to a session.
LEMMA Stands == ASSUME NEW m, NEW r, NEW u, NEW z PROVE Passes(m, r, u, z, m, r, u, z)
BY Zenon DEF Passes

LEMMA ReceiveStreams ==
  ASSUME StreamInv, UNCHANGED <<up, mem, file, disk, th>>, NEW c \in Client, Receive(c)
  PROVE  StreamInv'
<1>1. PICK s : s = sub[c]
  BY Zenon
<1>2. ClientOK(s) /\ s.queue # <<>>
  BY <1>1, Zenon DEF StreamInv, Receive
<1>3. PICK a \in Agent \cup {"none"}, o \in BOOLEAN, e \in BOOLEAN, l \in BOOLEAN : \E q, g :
        /\ s = [a |-> a, open |-> o, queue |-> q, got |-> g, ended |-> e, lossy |-> l]
        /\ ~l => q \in Seq(Event) /\ g \in Seq(Event)
  BY <1>2, StreamFields DEF ClientOK
<1>4. PICK q, g : /\ s = [a |-> a, open |-> o, queue |-> q, got |-> g, ended |-> e, lossy |-> l]
                  /\ ~l => q \in Seq(Event) /\ g \in Seq(Event)
  BY <1>3, Zenon
<1>5. s.a = a /\ s.open = o /\ s.queue = q /\ s.got = g /\ s.ended = e /\ s.lossy = l
  BY <1>4, Zenon
<1>0. PICK q2, g2 : q2 = Tail(q) /\ g2 = Append(g, Head(q))
  BY Zenon
<1>s. PICK s2 : s2 = [s EXCEPT !.queue = q2, !.got = g2]
  BY Zenon
<1>6. s2 = [a |-> a, open |-> o, queue |-> q2, got |-> g2, ended |-> e, lossy |-> l]
  BY <1>4, <1>s, Zenon
<1>7. sub' = [sub EXCEPT ![c] = s2]
  BY <1>0, <1>1, <1>5, <1>s, Zenon DEF Receive
<1>8. ~l => q2 \in Seq(Event) /\ g2 \in Seq(Event) /\ g2 \o q2 = g \o q
  BY <1>0, <1>2, <1>4, <1>5, TakenIsSame, Zenon
<1>9. /\ StreamShape(s2) /\ s2.a = a /\ s2.open = o /\ s2.queue = q2 /\ s2.got = g2 /\ s2.ended = e
      /\ s2.lossy = l
  BY <1>6, <1>8, Zenon DEF StreamShape
<1>10. a # "none" /\ Followed(s, mem[a], disk[a], th[a], up, file[a].status = "interrupted")
  BY <1>2, <1>5, SMTT(60) DEF ClientOK, NoStream
<1>11. Followed(s2, mem[a], disk[a], th[a], up, file[a].status = "interrupted")
  <2>1. PICK m, d, r, z : m = mem[a] /\ d = disk[a] /\ r = th[a] /\ z = (file[a].status = "interrupted")
    BY Zenon
  <2>2. Followed(s, m, d, r, up, z)
    BY <1>10, <2>1, Zenon
  <2>3. ~s2.lossy => StreamOK(s2, s2.got \o s2.queue, m, d, r, up, z)
    <3> SUFFICES ASSUME ~l PROVE StreamOK(s2, g2 \o q2, m, d, r, up, z)
      BY <1>9, Zenon
    <3>1. StreamOK(s, g \o q, m, d, r, up, z) /\ r.pc \notin {"idle", "found"}
      BY <1>5, <2>2, Zenon DEF Followed
    <3>2. StreamOK(s2, g \o q, m, d, r, up, z)
      BY <1>5, <1>9, <3>1, Stands, StreamPasses, SMTT(60)
    <3> QED
      BY <1>8, <3>2, Zenon
  <2>4. Followed(s2, m, d, r, up, z)
    BY <1>2, <1>5, <1>9, <2>2, <2>3, Zenon DEF Followed
  <2> QED
    BY <2>1, <2>4, Zenon
<1> QED
  BY <1>7, <1>9, <1>10, <1>11, OneClient, ZenonT(60)

LEMMA LeaveStreams ==
  ASSUME SessionInv, StreamInv, UNCHANGED <<up, mem, file, disk, th>>, NEW c \in Client, Leave(c)
  PROVE  StreamInv'
<1>1. PICK s : s = sub[c]
  BY Zenon
<1>2. ClientOK(s) /\ s.open
  BY <1>1, Zenon DEF StreamInv, Leave
<1>3. PICK a \in Agent \cup {"none"}, o \in BOOLEAN, e \in BOOLEAN, l \in BOOLEAN : \E q, g :
        /\ s = [a |-> a, open |-> o, queue |-> q, got |-> g, ended |-> e, lossy |-> l]
        /\ ~l => q \in Seq(Event) /\ g \in Seq(Event)
  BY <1>2, StreamFields, ZenonT(60) DEF ClientOK
<1>4. PICK q, g : /\ s = [a |-> a, open |-> o, queue |-> q, got |-> g, ended |-> e, lossy |-> l]
                  /\ ~l => q \in Seq(Event) /\ g \in Seq(Event)
  BY <1>3, Zenon
<1>5. s.a = a /\ s.open = o /\ s.queue = q /\ s.got = g /\ s.ended = e /\ s.lossy = l
  BY <1>4, Zenon
<1>s. PICK s2 : s2 = [s EXCEPT !.open = FALSE, !.queue = <<>>]
  BY Zenon
<1>6. s2 = [a |-> a, open |-> FALSE, queue |-> <<>>, got |-> g, ended |-> e, lossy |-> l]
  BY <1>4, <1>s, Zenon
<1>7. sub' = [sub EXCEPT ![c] = s2]
  BY <1>1, <1>s, Zenon DEF Leave
<1>9. /\ StreamShape(s2) /\ s2.a = a /\ s2.open = FALSE /\ s2.queue = <<>> /\ s2.got = g /\ s2.ended = e
      /\ s2.lossy = l
  BY <1>4, <1>6, SMTT(60) DEF StreamShape
<1>10. a # "none" /\ Followed(s, mem[a], disk[a], th[a], up, file[a].status = "interrupted")
  BY <1>2, <1>5, SMTT(60) DEF ClientOK, NoStream
<1>11. Followed(s2, mem[a], disk[a], th[a], up, file[a].status = "interrupted")
  <2>1. PICK m, d, r, z : m = mem[a] /\ d = disk[a] /\ r = th[a] /\ z = (file[a].status = "interrupted")
    BY Zenon
  <2>2. Followed(s, m, d, r, up, z) /\ ~e /\ r.pc \notin {"idle", "found"}
    BY <1>2, <1>5, <1>10, <2>1, ZenonT(60) DEF Followed
  <2>3. d \in Seq(Event) /\ (up => m.lastSeq \in Nat \/ r.pc \notin InMemory)
    <3>1. a \in Agent /\ d \in Seq(Event) /\ SessionOK(a) /\ m \in Session \cup {Absent}
      BY <1>10, <2>1, Zenon DEF SessionInv, AgentTypeOK
    <3> QED
      BY <2>1, <3>1, Zenon DEF SessionOK, Present, Session
  <2>4. ~s2.lossy => StreamOK(s2, s2.got \o s2.queue, m, d, r, up, z)
    <3> SUFFICES ASSUME ~l PROVE StreamOK(s2, g \o <<>>, m, d, r, up, z)
      BY <1>9, Zenon
    <3>1. StreamOK(s, g \o q, m, d, r, up, z) /\ g \in Seq(Event) /\ q \in Seq(Event)
      BY <1>4, <1>5, <2>2, Zenon DEF Followed
    <3>2. ~s2.open /\ ~s2.ended
      BY <1>9, <2>2, Zenon
    <3> QED
      BY <2>2, <2>3, <3>1, <3>2, Stands, StreamShrinks, ZenonT(60)
  <2>5. Followed(s2, m, d, r, up, z)
    BY <1>9, <2>2, <2>4, Zenon DEF Followed
  <2> QED
    BY <2>1, <2>5, Zenon
<1> QED
  BY <1>7, <1>9, <1>10, <1>11, OneClient, ZenonT(60)

\* What is put into the channel comes last.
LEMMA OfferedIsLast ==
  ASSUME NEW got \in Seq(Event), NEW queue \in Seq(Event), NEW e \in Event
  PROVE  Append(queue, e) \in Seq(Event) /\ got \o Append(queue, e) = Append(got \o queue, e)
<1>1. PICK g, q, p, w, x, y : /\ g = Len(got) /\ q = Len(queue) /\ p = Append(queue, e) /\ w = got \o queue
                              /\ x = got \o p /\ y = Append(w, e)
  BY Zenon
<1>2. g \in Nat /\ q \in Nat
  BY <1>1, SeqPlaces, ZenonT(60)
<1>3. p \in Seq(Event) /\ Len(p) = q + 1 /\ p[q + 1] = e /\ \A i \in 1 .. q : p[i] = queue[i]
  BY <1>1, SeqAppend, SMTT(60)
<1>4. /\ w \in Seq(Event) /\ Len(w) = g + q
      /\ \A i \in 1 .. g + q : w[i] = IF i <= g THEN got[i] ELSE queue[i - g]
  BY <1>1, SeqConcat, Zenon
<1>5. /\ y \in Seq(Event) /\ Len(y) = g + q + 1 /\ y[g + q + 1] = e /\ \A i \in 1 .. g + q : y[i] = w[i]
  BY <1>1, <1>4, SeqAppend, SMTT(60)
<1>6. /\ x \in Seq(Event) /\ Len(x) = g + q + 1
      /\ \A i \in 1 .. g + q + 1 : x[i] = IF i <= g THEN got[i] ELSE p[i - g]
  <2>1. /\ x \in Seq(Event) /\ Len(x) = g + (q + 1)
        /\ \A i \in 1 .. g + (q + 1) : x[i] = IF i <= g THEN got[i] ELSE p[i - g]
    <3>1. /\ got \o p \in Seq(Event) /\ Len(got \o p) = Len(got) + Len(p)
          /\ \A i \in 1 .. Len(got) + Len(p) : (got \o p)[i] = IF i <= Len(got) THEN got[i] ELSE p[i - Len(got)]
      BY <1>3, SeqConcat, Zenon
    <3> QED
      BY <1>1, <1>3, <3>1, Zenon
  <2>2. g + (q + 1) = g + q + 1
    BY <1>2
  <2> QED
    BY <2>1, <2>2, Zenon
<1>7. ASSUME NEW i \in 1 .. g + q + 1 PROVE x[i] = y[i]
  <2>1. CASE i <= g
    <3>1. i \in 1 .. g + q
      BY <1>2, <2>1, SMTT(60)
    <3> QED
      BY <1>4, <1>5, <1>6, <2>1, <3>1, ZenonT(60)
  <2>2. CASE i > g /\ i <= g + q
    <3>1. i - g \in 1 .. q /\ i \in 1 .. g + q /\ ~(i <= g)
      BY <1>2, <2>2, SMTT(60)
    <3>2. x[i] = p[i - g] /\ p[i - g] = queue[i - g]
      BY <1>3, <1>6, <3>1, Zenon
    <3>3. y[i] = queue[i - g]
      BY <1>4, <1>5, <3>1, Zenon
    <3> QED
      BY <3>2, <3>3, Zenon
  <2>3. CASE i = g + q + 1
    <3>1. i - g = q + 1 /\ ~(i <= g)
      BY <1>2, <2>3, SMTT(60)
    <3> QED
      BY <1>3, <1>5, <1>6, <2>3, <3>1, ZenonT(60)
  <2> QED
    BY <1>2, <2>1, <2>2, <2>3, SMTT(60)
<1>8. x = y
  BY <1>5, <1>6, <1>7, SeqExtensional, ZenonT(60)
<1> QED
  BY <1>1, <1>3, <1>8, ZenonT(60)

LEMMA AppendStreams ==
  ASSUME SessionInv, SessionInv', StreamInv, NEW a \in Agent, Announce(a) \/ Output(a) \/ Marker(a)
  PROVE  StreamInv'
<1>1. PICK f \in Event, m2 \in Session, d2 \in Seq(Event), t \in ThreadState :
        /\ Appends(mem[a], disk[a], th[a], f, m2, d2, t)
        /\ Moved(a, m2, d2, t) /\ Sound(a, m2, d2, t)
        /\ sub' = Offered(a, f)
  BY AppendMoves, Zenon
<1>2. PICK m, d, r : m = mem[a] /\ d = disk[a] /\ r = th[a]
  BY Zenon
<1>3. /\ up = TRUE /\ up' = TRUE /\ a # "none" /\ Appends(m, d, r, f, m2, d2, t)
      /\ mem' = [mem EXCEPT ![a] = m2] /\ th' = [th EXCEPT ![a] = t] /\ disk' = [disk EXCEPT ![a] = d2]
      /\ mem \in [Agent -> Session \cup {Absent}] /\ th \in [Agent -> ThreadState]
      /\ disk \in [Agent -> Seq(Event)]
  BY <1>1, <1>2, AgentAssumption, Zenon DEF Moved, SessionInv, AgentTypeOK
<1>4. mem'[a] = m2 /\ th'[a] = t /\ disk'[a] = d2
  BY <1>3, Zenon
<1>5. r.pc \in InMemory /\ t.pc \in InMemory
  BY <1>3, Zenon DEF Appends, InMemory
<1>6. m \in Session /\ d \in Seq(Event) /\ MemOK(m, d, r) /\ DiskOK(d, r)
  <2>1. SessionOK(a) /\ m \in Session \cup {Absent} /\ d \in Seq(Event)
    BY <1>2, <1>3, Zenon DEF SessionInv
  <2> QED
    BY <1>2, <1>3, <1>5, <2>1, ZenonT(60) DEF SessionOK, Present
<1>7. ASSUME NEW x \in Agent PROVE file[x].status = "interrupted" => file'[x].status = "interrupted"
  BY <1>1, <1>7, InterruptedStays, Zenon
<1>8. ASSUME NEW c \in Client PROVE ClientOK(sub[c])'
  <2>1. PICK s, n : s = sub[c] /\ n = sub'[c]
    BY Zenon
  <2>2. ClientOK(s)
    BY <2>1, Zenon DEF StreamInv
  <2>3. PICK x \in Agent \cup {"none"}, o \in BOOLEAN, e \in BOOLEAN, l \in BOOLEAN : \E q, g :
          /\ s = [a |-> x, open |-> o, queue |-> q, got |-> g, ended |-> e, lossy |-> l]
          /\ ~l => q \in Seq(Event) /\ g \in Seq(Event)
    BY <2>2, StreamFields, SMTT(60) DEF ClientOK
  <2>4. PICK q, g : /\ s = [a |-> x, open |-> o, queue |-> q, got |-> g, ended |-> e, lossy |-> l]
                    /\ ~l => q \in Seq(Event) /\ g \in Seq(Event)
    BY <2>3, Zenon
  <2>5. s.a = x /\ s.open = o /\ s.queue = q /\ s.got = g /\ s.ended = e /\ s.lossy = l /\ StreamShape(s)
    BY <2>2, <2>4, Zenon DEF ClientOK
  <2>6. CASE x # a
    <3>1. n = s
      BY <1>1, <2>1, <2>5, <2>6, ZenonT(60) DEF Offered
    <3>2. x = "none" => s = NoStream
      BY <2>2, <2>5, Zenon DEF ClientOK
    <3>3. ASSUME x # "none"
          PROVE  Followed(s, mem'[x], disk'[x], th'[x], TRUE, file'[x].status = "interrupted")
      <4>1. x \in Agent /\ mem'[x] = mem[x] /\ disk'[x] = disk[x] /\ th'[x] = th[x]
        BY <1>3, <2>6, <3>3, ZenonT(60)
      <4>2. PICK m3, d3, r3, z, z2 : /\ m3 = mem[x] /\ d3 = disk[x] /\ r3 = th[x]
              /\ z = (file[x].status = "interrupted") /\ z2 = (file'[x].status = "interrupted")
        BY Zenon
      <4>3. Followed(s, m3, d3, r3, TRUE, z) /\ (z => z2)
        BY <1>3, <1>7, <2>2, <2>5, <3>3, <4>1, <4>2, ZenonT(60) DEF ClientOK
      <4>4. Passes(m3, r3, TRUE, z, m3, r3, TRUE, z2)
        BY <4>3, Zenon DEF Passes
      <4>5. s.open => r3.pc \in InMemory \cup {"refused"}
        BY <4>3, Zenon DEF Followed
      <4>6. Followed(s, m3, d3, r3, TRUE, z2)
        BY <4>3, <4>4, <4>5, ClientStays, ZenonT(60)
      <4> QED
        BY <4>1, <4>2, <4>6, ZenonT(60)
    <3> QED
      BY <1>3, <2>1, <2>5, <3>1, <3>2, <3>3, NewClient, ZenonT(60)
  <2>7. CASE x = a
    <3>1. PICK z, z2 : z = (file[a].status = "interrupted") /\ z2 = (file'[a].status = "interrupted")
      BY Zenon
    <3>2. Followed(s, m, d, r, TRUE, z) /\ (z => z2)
      BY <1>2, <1>3, <1>7, <2>2, <2>5, <2>7, <3>1, ZenonT(60) DEF ClientOK
    <3>3. (o => ~e) /\ (~o /\ ~e => q = <<>>)
      BY <2>5, <3>2, ZenonT(60) DEF Followed
    <3>4. SUFFICES StreamShape(n) /\ n.a = a /\ Followed(n, m2, d2, t, TRUE, z2)
      BY <1>3, <1>4, <2>1, <3>1, NewClient, ZenonT(60)
    <3>5. ASSUME ~l, NEW s2, s2.open = o, s2.ended = e
          PROVE  /\ o => StreamOK(s2, Append(g \o q, f), m2, d2, t, TRUE, z2)
                 /\ ~o => StreamOK(s2, g \o q, m2, d2, t, TRUE, z2)
      <4>1. StreamOK(s, g \o q, m, d, r, TRUE, z)
        BY <2>5, <3>2, <3>5, Zenon DEF Followed
      <4>2. PICK all : all = g \o q /\ all \in Seq(Event)
        BY <2>4, <3>5, SeqConcat, Zenon
      <4>3. /\ s.open => StreamOK(s2, Append(all, f), m2, d2, t, TRUE, z2)
            /\ ~s.open => StreamOK(s2, all, m2, d2, t, TRUE, z2)
        <5>1. (s2.open <=> s.open) /\ (s2.ended <=> s.ended) /\ (s.open => ~s.ended)
          BY <2>5, <3>3, <3>5, Zenon
        <5>2. StreamOK(s, all, m, d, r, TRUE, z)
          BY <4>1, <4>2, ZenonT(60)
        <5>3. Passes(m, r, TRUE, z, m, r, TRUE, z2)
          BY <3>2 DEF Passes
        <5> QED
          BY <1>3, <1>5, <1>6, <4>2, <5>1, <5>2, <5>3, StreamAppends, ZenonT(60)
      <4> QED
        BY <2>5, <4>2, <4>3, Zenon
    <3>6. t.pc \notin {"idle", "found"}
      BY <1>3, Zenon DEF Appends
    <3>7. CASE ~o
      <4>1. n = s
        BY <1>1, <2>1, <2>5, <3>7, ZenonT(60) DEF Offered
      <4>2. ~s.lossy => StreamOK(s, s.got \o s.queue, m2, d2, t, TRUE, z2)
        BY <2>5, <3>5, <3>7, ZenonT(60)
      <4>3. Followed(s, m2, d2, t, TRUE, z2)
        BY <2>5, <3>3, <3>6, <3>7, <4>2, ZenonT(60) DEF Followed
      <4> QED
        BY <2>5, <2>7, <4>1, <4>3, ZenonT(60)
    <3>8. CASE o /\ Len(q) < Buffer
      <4>1. PICK p : p = Append(q, f)
        BY Zenon
      <4>2. n = [s EXCEPT !.queue = p]
        BY <1>1, <2>1, <2>5, <2>7, <3>8, <4>1, ZenonT(60) DEF Offered
      <4>3. n = [a |-> x, open |-> o, queue |-> p, got |-> g, ended |-> e, lossy |-> l]
        BY <2>4, <4>2, ZenonT(60)
      <4>4. ~l => p \in Seq(Event) /\ g \in Seq(Event) /\ g \o p = Append(g \o q, f)
        BY <2>4, <4>1, OfferedIsLast, ZenonT(60)
      <4>5. /\ n.a = x /\ n.open = o /\ n.queue = p /\ n.got = g /\ n.ended = e /\ n.lossy = l
            /\ StreamShape(n)
        BY <4>3, <4>4, ZenonT(60) DEF StreamShape
      <4>6. ~l => StreamOK(n, g \o p, m2, d2, t, TRUE, z2)
        BY <3>5, <3>8, <4>4, <4>5, ZenonT(60)
      <4>7. Followed(n, m2, d2, t, TRUE, z2)
        BY <1>5, <3>3, <3>6, <3>8, <4>5, <4>6, ZenonT(60) DEF Followed
      <4> QED
        BY <2>7, <4>5, <4>7, ZenonT(60)
    <3>9. CASE o /\ ~(Len(q) < Buffer)
      <4>1. n = [s EXCEPT !.lossy = TRUE]
        BY <1>1, <2>1, <2>5, <2>7, <3>9, ZenonT(60) DEF Offered
      <4>2. n = [a |-> x, open |-> o, queue |-> q, got |-> g, ended |-> e, lossy |-> TRUE]
        BY <2>4, <4>1, Zenon
      <4>3. /\ n.a = x /\ n.open = o /\ n.queue = q /\ n.got = g /\ n.ended = e /\ n.lossy = TRUE
            /\ StreamShape(n)
        BY <4>2, Zenon DEF StreamShape
      <4>4. Followed(n, m2, d2, t, TRUE, z2)
        BY <1>5, <3>3, <3>6, <3>9, <4>3, ZenonT(60) DEF Followed
      <4> QED
        BY <2>7, <4>3, <4>4, ZenonT(60)
    <3> QED
      BY <3>7, <3>8, <3>9, Zenon
  <2> QED
    BY <2>6, <2>7, Zenon
<1>9. sub' = [c \in Client |-> sub'[c]]
  BY <1>1, Zenon DEF Offered
<1> QED
  BY <1>8, <1>9, Zenon DEF StreamInv

LEMMA StopStreams ==
  ASSUME SessionInv, StreamInv, up, Stop
  PROVE  StreamInv'
<1>1. /\ up = TRUE /\ up' = FALSE /\ file' = file /\ disk' = disk
      /\ th' = [x \in Agent |-> [th[x] EXCEPT !.pc = IF @ \in {"idle", "done", "refused"} THEN @ ELSE "dead"]]
      /\ sub' = [c \in Client |-> [sub[c] EXCEPT !.open = FALSE, !.queue = <<>>,
                                                 !.ended = @ /\ sub[c].queue = <<>>]]
      /\ th \in [Agent -> ThreadState] /\ disk \in [Agent -> Seq(Event)]
      /\ mem \in [Agent -> Session \cup {Absent}]
  BY Zenon DEF Stop, SessionInv, AgentTypeOK
<1>2. ASSUME NEW x \in Agent, NEW z PROVE Passes(mem[x], th[x], TRUE, z, mem'[x], th'[x], FALSE, z)
  <2>1. PICK r, t : r = th[x] /\ t = th'[x]
    BY Zenon
  <2>2. r \in ThreadState /\ t = [r EXCEPT !.pc = IF r.pc \in {"idle", "done", "refused"} THEN r.pc ELSE "dead"]
    BY <1>1, <2>1, Zenon
  <2>3. t.status = r.status /\ t.pc = IF r.pc \in {"idle", "done", "refused"} THEN r.pc ELSE "dead"
    BY <2>2, Zenon DEF ThreadState
  <2>4. Passes(mem[x], r, TRUE, z, mem'[x], t, FALSE, z)
    BY <2>3, Zenon DEF Passes, Marking, Finished
  <2> QED
    BY <2>1, <2>4, Zenon
<1>3. ASSUME NEW c \in Client PROVE ClientOK(sub[c])'
  <2>1. PICK s : s = sub[c]
    BY Zenon
  <2>2. ClientOK(s)
    BY <2>1, Zenon DEF StreamInv
  <2>3. PICK a \in Agent \cup {"none"}, o \in BOOLEAN, e \in BOOLEAN, l \in BOOLEAN : \E q, g :
          /\ s = [a |-> a, open |-> o, queue |-> q, got |-> g, ended |-> e, lossy |-> l]
          /\ ~l => q \in Seq(Event) /\ g \in Seq(Event)
    BY <2>2, StreamFields, SMTT(60) DEF ClientOK
  <2>4. PICK q, g : /\ s = [a |-> a, open |-> o, queue |-> q, got |-> g, ended |-> e, lossy |-> l]
                    /\ ~l => q \in Seq(Event) /\ g \in Seq(Event)
    BY <2>3, Zenon
  <2>5. s.a = a /\ s.open = o /\ s.queue = q /\ s.got = g /\ s.ended = e /\ s.lossy = l
    BY <2>4, Zenon
  <2>6. PICK e2 : e2 = (e /\ q = <<>>)
    BY Zenon
  <2>7. PICK n : n = [s EXCEPT !.open = FALSE, !.queue = <<>>, !.ended = e2]
    BY Zenon
  <2>8. n = [a |-> a, open |-> FALSE, queue |-> <<>>, got |-> g, ended |-> e2, lossy |-> l] /\ e2 \in BOOLEAN
    BY <2>4, <2>6, <2>7, Zenon
  <2>9. sub'[c] = n
    <3>1. sub'[c] = [s EXCEPT !.open = FALSE, !.queue = <<>>, !.ended = s.ended /\ s.queue = <<>>]
      BY <1>1, <2>1, Zenon
    <3>2. (s.ended /\ s.queue = <<>>) = e2
      BY <2>5, <2>6, Zenon
    <3> QED
      BY <2>7, <3>1, <3>2, Zenon
  <2>10. /\ StreamShape(n) /\ n.a = a /\ n.open = FALSE /\ n.queue = <<>> /\ n.got = g /\ n.ended = e2
         /\ n.lossy = l
    BY <2>4, <2>8, SMTT(60) DEF StreamShape
  <2>11. CASE a = "none"
    <3>1. s = NoStream
      BY <2>2, <2>5, <2>11, Zenon DEF ClientOK
    <3>2. n = NoStream
      BY <2>5, <2>6, <2>8, <2>11, <3>1, ZenonT(60) DEF NoStream
    <3> QED
      BY <2>9, <2>10, <2>11, <3>2, NewClient, ZenonT(60)
  <2>12. CASE a # "none"
    <3>1. PICK m, m2, d, r, t, z : /\ m = mem[a] /\ m2 = mem'[a] /\ d = disk[a] /\ r = th[a] /\ t = th'[a]
                                   /\ z = (file[a].status = "interrupted")
      BY Zenon
    <3>2. Followed(s, m, d, r, TRUE, z)
      BY <1>1, <2>2, <2>5, <2>12, <3>1, ZenonT(60) DEF ClientOK
    <3>3. Passes(m, r, TRUE, z, m2, t, FALSE, z) /\ d \in Seq(Event)
      BY <1>1, <1>2, <2>12, <3>1, ZenonT(60)
    <3>4. r.pc \notin {"idle", "found"} /\ t.pc \notin {"idle", "found"}
      BY <3>2, <3>3, Zenon DEF Followed, Passes
    <3>5. m.lastSeq \in Nat \/ r.pc \notin InMemory
      <4>1. a \in Agent /\ SessionOK(a) /\ m \in Session \cup {Absent}
        BY <1>1, <2>12, <3>1, ZenonT(60) DEF SessionInv
      <4> QED
        BY <1>1, <3>1, <4>1, ZenonT(60) DEF SessionOK, Present, Session
    <3>6. ~l => StreamOK(n, g \o <<>>, m2, d, t, FALSE, z)
      <4> SUFFICES ASSUME ~l PROVE StreamOK(n, g \o <<>>, m2, d, t, FALSE, z)
        BY Zenon
      <4>1. StreamOK(s, g \o q, m, d, r, TRUE, z) /\ g \in Seq(Event) /\ q \in Seq(Event)
        BY <2>4, <2>5, <3>2, ZenonT(60) DEF Followed
      <4>2. ~n.open /\ (n.ended => s.ended /\ q = <<>>)
        BY <2>5, <2>6, <2>10, ZenonT(60)
      <4> QED
        BY <3>3, <3>4, <3>5, <4>1, <4>2, StreamShrinks, ZenonT(60)
    <3>7. Followed(n, m2, d, t, FALSE, z)
      BY <2>10, <3>4, <3>6, ZenonT(60) DEF Followed
    <3>8. Followed(n, mem'[a], disk'[a], th'[a], up', file'[a].status = "interrupted")
      BY <1>1, <3>1, <3>7, ZenonT(60)
    <3> QED
      BY <2>9, <2>10, <2>12, <3>8, NewClient, ZenonT(60)
  <2> QED
    BY <2>11, <2>12, Zenon
<1>4. sub' = [c \in Client |-> sub'[c]]
  BY <1>1, Zenon
<1> QED
  BY <1>3, <1>4, Zenon DEF StreamInv

LEMMA RestartStreams ==
  ASSUME SessionInv, StreamInv, Restart
  PROVE  StreamInv'
<1>1. up = FALSE /\ up' = TRUE /\ disk' = disk /\ th' = th /\ sub' = sub
  BY Zenon DEF Restart, SessionInv, AgentTypeOK
<1>2. ASSUME NEW c \in Client PROVE ClientOK(sub[c])'
  <2>1. PICK s, a : s = sub[c] /\ a = s.a
    BY Zenon
  <2>2. ClientOK(s) /\ StreamShape(s) /\ (s.a = "none" => s = NoStream) /\ sub'[c] = s
    BY <1>1, <2>1, Zenon DEF StreamInv, ClientOK
  <2>3. ASSUME a # "none" PROVE Followed(s, mem'[a], disk'[a], th'[a], up', file'[a].status = "interrupted")
    <3>1. PICK m, m2, d, r, z, z2 : /\ m = mem[a] /\ m2 = mem'[a] /\ d = disk[a] /\ r = th[a]
                                    /\ z = (file[a].status = "interrupted")
                                    /\ z2 = (file'[a].status = "interrupted")
      BY Zenon
    <3>2. a \in Agent /\ Followed(s, m, d, r, FALSE, z)
      BY <1>1, <2>1, <2>2, <2>3, <3>1, ZenonT(60) DEF ClientOK, StreamShape
    <3>3. z => z2
      BY <3>1, <3>2, RestartKeeps, Zenon
    <3>4. r.pc \notin InMemory
      <4>1. r.pc \in Over \cup {"idle"}
        BY <1>1, <3>1, <3>2, Zenon DEF SessionInv, SessionOK
      <4> QED
        BY <4>1, Zenon DEF Over, InMemory
    <3>5. Passes(m, r, FALSE, z, m2, r, TRUE, z2)
      BY <3>3, <3>4, Zenon DEF Passes
    <3>6. ~s.open
      BY <3>2, Zenon DEF Followed
    <3>7. Followed(s, m2, d, r, TRUE, z2)
      BY <3>2, <3>5, <3>6, ClientStays, Zenon
    <3> QED
      BY <1>1, <3>1, <3>7, Zenon
  <2> QED
    BY <2>1, <2>2, <2>3, NewClient, ZenonT(60)
<1> QED
  BY <1>1, <1>2, Zenon DEF StreamInv
==============================================================================
