---------------------------- MODULE StreamsProofs ----------------------------
(***************************************************************************)
(* Proofs about what clients get of an agent session: the backlog, and the *)
(* events that follow it, over reconnects, stops and restarts.             *)
(***************************************************************************)
EXTENDS AgentSessionsProofs, FiniteSetTheorems, TLAPS

-----------------------------------------------------------------------------
(* The backlog of a session *)

\* The filter of eventsAfter leaves the events beyond the cursor.
LEMMA FilterIsRemainder ==
  ASSUME NEW s, NEW b \in Nat, NEW k \in Nat, Numbered(s, b), b <= k
  PROVE  Remainder(EventsAfter(s, k), s, k - b)
<1>1. PICK l \in Nat : l = Len(s) /\ DOMAIN s = 1 .. l /\ \A i \in 1 .. l : s[i] \in Event /\ s[i].seq = b + i
  BY SeqPlaces, SeqElement, Zenon DEF Numbered
<1>2. PICK f \in Nat : f = k - b
  BY SMTT(60)
<1> DEFINE later == {i \in DOMAIN s : s[i].seq > k}
           Place(i) == Cardinality({j \in later : j <= i})
<1>3. later = f + 1 .. l
  <2>1. \A i \in 1 .. l : s[i].seq > k <=> i >= f + 1
    BY <1>1, <1>2, SMTT(60)
  <2>2. \A i \in later : i \in f + 1 .. l
    BY <1>1, <1>2, <2>1, SMTT(60)
  <2>3. \A i \in f + 1 .. l : i \in later
    BY <1>1, <1>2, <2>1, SMTT(60)
  <2> HIDE DEF later
  <2> QED
    BY <2>2, <2>3, Zenon
<1> HIDE DEF later
<1>4. Cardinality(later) = IF f + 1 > l THEN 0 ELSE l - f
  <2>1. Cardinality(f + 1 .. l) = IF f + 1 > l THEN 0 ELSE l - (f + 1) + 1
    BY FS_Interval, SMTT(60)
  <2> QED
    BY <1>3, <2>1, SMTT(60)
<1>5. ASSUME NEW i \in later PROVE Place(i) = i - f
  <2>1. i \in f + 1 .. l
    BY <1>3, Zenon
  <2>2. {j \in later : j <= i} = f + 1 .. i
    <3>1. {j \in f + 1 .. l : j <= i} = f + 1 .. i
      BY <2>1, SMTT(60)
    <3> QED
      BY <1>3, <3>1, Zenon
  <2>3. Cardinality(f + 1 .. i) = IF f + 1 > i THEN 0 ELSE i - (f + 1) + 1
    BY <2>1, FS_Interval, SMTT(60)
  <2>4. Place(i) = Cardinality(f + 1 .. i)
    BY <2>2, Zenon
  <2> HIDE DEF Place
  <2> QED
    BY <2>1, <2>3, <2>4, SMTT(60)
<1> HIDE DEF Place
<1>6. PICK c \in Nat : c = Cardinality(later) /\ c = IF f < l THEN l - f ELSE 0
  <2>1. PICK c : c = Cardinality(later) /\ c = IF f + 1 > l THEN 0 ELSE l - f
    BY <1>4, Zenon
  <2>2. c \in Nat /\ c = IF f < l THEN l - f ELSE 0
    BY <2>1, SMTT(60)
  <2> QED
    BY <2>1, <2>2, Zenon
<1>7. ASSUME NEW n \in 1 .. c PROVE (CHOOSE i \in later : Place(i) = n) = f + n
  <2>1. f + n \in later
    BY <1>1, <1>2, <1>3, <1>6, SMTT(60)
  <2>2. Place(f + n) = n
    BY <1>2, <1>5, <2>1, SMTT(60)
  <2>3. \A i \in later : Place(i) = n => i = f + n
    <3> SUFFICES ASSUME NEW i \in later, Place(i) = n PROVE i = f + n
      BY Zenon
    <3>1. i \in f + 1 .. l /\ n = i - f
      BY <1>3, <1>5, Zenon
    <3> QED
      BY <3>1, SMTT(60)
  <2> QED
    BY <2>1, <2>2, <2>3, Zenon
<1>8. EventsAfter(s, k) = [n \in 1 .. c |-> s[CHOOSE i \in later : Place(i) = n]]
  BY <1>6, Zenon DEF EventsAfter, later, Place
<1>9. EventsAfter(s, k) = [n \in 1 .. c |-> s[f + n]]
  BY <1>7, <1>8, Zenon
<1>10. \A n \in 1 .. c : s[f + n] \in Event
  BY <1>1, <1>2, <1>6, SMTT(60)
<1>11. PICK e : e = [n \in 1 .. c |-> s[f + n]]
  BY Zenon
<1>12. e \in Seq(Event) /\ Len(e) = c /\ \A n \in 1 .. c : e[n] = s[f + n]
  BY <1>10, <1>11, SMTT(60)
<1> QED
  BY <1>1, <1>2, <1>6, <1>9, <1>11, <1>12, ZenonT(60) DEF Remainder

\* agentEventsAfterLocked gives exactly what the transcript has beyond the cursor,
\* as long as the memory has the newest part of it.
LEMMA BacklogIsRemainder ==
  ASSUME NEW a, NEW k \in Nat, Numbered(disk[a], 0), mem[a].events = Trim(disk[a])
  PROVE  Remainder(Backlog(a, k), disk[a], k)
<1>1. PICK d, w : d = disk[a] /\ w = mem[a].events
  BY Zenon
<1>2. PICK b \in Nat : Windowed(w, d, b)
  BY <1>1, TrimIsWindow, Zenon
<1>3. PICK l \in Nat : l = Len(d) /\ \A i \in 1 .. l : d[i] \in Event /\ d[i].seq = i
  BY <1>1, SeqPlaces, SeqElement, SMTT(60) DEF Numbered
<1>4. PICK v \in Nat : /\ v = Len(w) /\ b + v = l /\ \A i \in 1 .. v : w[i] = d[b + i]
                       /\ d # <<>> => v >= 1
  BY <1>2, <1>3, SeqPlaces, SeqNothing, SMTT(60) DEF Windowed, Numbered
<1>5. d \in Seq(Event) /\ w \in Seq(Event) /\ Numbered(w, b) /\ Numbered(d, 0)
  BY <1>1, <1>2, Zenon DEF Windowed, Numbered
<1>6. CASE w = <<>> \/ k >= w[1].seq - 1 \/ d = <<>>
  <2>1. Backlog(a, k) = EventsAfter(w, k)
    BY <1>1, <1>6, Zenon DEF Backlog
  <2>2. b <= k
    <3>1. CASE w = <<>>
      BY <1>3, <1>4, <1>5, <3>1, SeqNothing, SMTT(60)
    <3>2. CASE w # <<>>
      <4>1. v >= 1
        BY <1>4, <1>5, <3>2, SeqNothing, SMTT(60)
      <4>2. w[1].seq = b + 1 /\ d # <<>>
        BY <1>3, <1>4, <1>5, <4>1, SMTT(60) DEF Numbered
      <4> QED
        BY <1>6, <3>2, <4>2, SMTT(60)
    <3> QED
      BY <3>1, <3>2, Zenon
  <2>3. PICK e : e = EventsAfter(w, k) /\ Remainder(e, w, k - b)
    BY <1>2, <2>2, FilterIsRemainder, Zenon DEF Windowed
  <2>4. Remainder(e, d, k)
    <3>1. e \in Seq(Event) /\ Len(e) = IF k - b < v THEN v - (k - b) ELSE 0
      BY <1>4, <2>3, Zenon DEF Remainder
    <3>2. ASSUME NEW n \in 1 .. Len(e) PROVE e[n] = d[k + n]
      <4>1. e[n] = w[k - b + n]
        BY <2>3, Zenon DEF Remainder
      <4>2. k - b + n \in 1 .. v /\ b + (k - b + n) = k + n
        BY <2>2, <3>1, SMTT(60)
      <4> QED
        BY <1>4, <4>1, <4>2, Zenon
    <3>3. Len(e) = IF k < l THEN l - k ELSE 0
      BY <1>4, <2>2, <3>1, SMTT(60)
    <3> QED
      BY <1>3, <3>1, <3>2, <3>3, Zenon DEF Remainder
  <2> QED
    BY <1>1, <2>1, <2>3, <2>4, Zenon
<1>7. CASE ~(w = <<>> \/ k >= w[1].seq - 1 \/ d = <<>>)
  <2>1. Newest(d).seq = l /\ l >= 1
    BY <1>3, <1>5, <1>7, SeqNothing, SMTT(60) DEF Newest
  <2>2. PICK e : e = EventsAfter(w, l) /\ Remainder(e, w, l - b)
    BY <1>2, <1>4, FilterIsRemainder, SMTT(60) DEF Windowed
  <2>3. e = <<>>
    BY <1>4, <2>2, SeqNothing, SMTT(60) DEF Remainder
  <2>4. Backlog(a, k) = EventsAfter(d \o e, k)
    BY <1>1, <1>7, <2>1, <2>2, Zenon DEF Backlog
  <2>5. Backlog(a, k) = EventsAfter(d, k)
    BY <1>5, <2>3, <2>4, SeqConcatNothing, Zenon
  <2>6. Remainder(EventsAfter(d, k), d, k - 0)
    BY <1>5, FilterIsRemainder, SMTT(60)
  <2> QED
    BY <1>1, <2>5, <2>6, SMTT(60)
<1> QED
  BY <1>6, <1>7, Zenon

\* Whoever sees a terminal status can fetch the whole session at once, its last event
\* being that status: for any length of the session and of the memory window.
THEOREM CompletionIsWhole == Spec => []CompletionHasBacklog
<1>1. SessionInv => CompletionHasBacklog
  <2> SUFFICES ASSUME SessionInv, NEW a \in Agent, Present(mem[a]), Terminal(mem[a].status),
                      ~mem[a].truncated, NEW b, b = Backlog(a, 0)
               PROVE  /\ Contiguous(b, 1) /\ Len(b) = mem[a].lastSeq
                      /\ mem[a].status # "interrupted" => b # <<>> /\ Newest(b).data = mem[a].status
    BY Zenon DEF CompletionHasBacklog
  <2>1. PICK m, d, t : m = mem[a] /\ d = disk[a] /\ t = th[a]
    BY Zenon
  <2>2. /\ MemOK(m, d, t) /\ DiskOK(d, t) /\ d \in Seq(Event)
    <3>1. SessionOK(a) /\ d \in Seq(Event)
      BY <2>1, Zenon DEF SessionInv, AgentTypeOK
    <3> QED
      BY <2>1, <3>1, Zenon DEF SessionOK
  <2>3. PICK l \in Nat : l = Len(d) /\ (d # <<>> => l >= 1)
    BY <2>2, SeqPlaces, SeqNothing, SMTT(60)
  <2>4. Remainder(b, d, 0)
    <3>1. Numbered(disk[a], 0) /\ mem[a].events = Trim(disk[a])
      BY <2>1, <2>2, SMTT(60) DEF Numbered, DiskOK, MemOK
    <3> QED
      BY <2>1, <3>1, BacklogIsRemainder, Zenon
  <2>5. b \in Seq(Event) /\ Len(b) = l /\ \A n \in 1 .. l : b[n] = d[n]
    BY <2>3, <2>4, SMTT(60) DEF Remainder
  <2>6. Contiguous(b, 1)
    <3>1. DOMAIN b = 1 .. l
      BY <2>5, SeqPlaces, Zenon
    <3>2. \A n \in 1 .. l : b[n].seq = n
      BY <2>2, <2>3, <2>5, Zenon DEF DiskOK
    <3> QED
      BY <3>1, <3>2, SMTT(60) DEF Contiguous
  <2>7. Len(b) = m.lastSeq
    BY <2>1, <2>2, <2>3, <2>5, ZenonT(60) DEF MemOK
  <2>8. m.status # "interrupted" => b # <<>> /\ Newest(b).data = m.status
    <3> SUFFICES ASSUME m.status # "interrupted" PROVE b # <<>> /\ Newest(b).data = m.status
      BY Zenon
    <3>1. m.status \in Ends
      BY <2>1, Zenon DEF Terminal, Final, Ends
    <3>2. m.status = t.status /\ d # <<>> /\ d[Len(d)].data = t.status
      BY <2>1, <2>2, <3>1, Zenon DEF MemOK, Marks
    <3>3. l >= 1 /\ b # <<>>
      BY <2>3, <2>5, <3>2, SMTT(60)
    <3> QED
      BY <2>3, <2>5, <3>2, <3>3, SMTT(60) DEF Newest
  <2> QED
    BY <2>1, <2>6, <2>7, <2>8, Zenon
<1> QED
  BY <1>1, SessionsHold, PTL

-----------------------------------------------------------------------------
(* The streams of clients *)

LEMMA SubscribeStreams ==
  ASSUME SessionInv, StreamInv, UNCHANGED <<up, mem, file, disk, th>>, NEW c \in Client, NEW a \in Agent,
         Subscribe(c, a)
  PROVE  StreamInv'
<1>1. PICK s, m, d, t, z : /\ s = sub[c] /\ m = mem[a] /\ d = disk[a] /\ t = th[a]
                           /\ z = (file[a].status = "interrupted")
  BY Zenon
<1>2. up = TRUE /\ Present(m) /\ ~s.open /\ s.a \in {"none", a} /\ ~s.ended /\ ClientOK(s) /\ a # "none"
  BY <1>1, AgentAssumption, Zenon DEF StreamInv, Subscribe, SessionInv, AgentTypeOK
<1>3. /\ m \in Session /\ d \in Seq(Event) /\ t \in ThreadState /\ MemOK(m, d, t) /\ DiskOK(d, t)
      /\ m.status = "interrupted" => z
  <2>1. m \in Session \cup {Absent} /\ d \in Seq(Event) /\ t \in ThreadState /\ SessionOK(a)
    BY <1>1, Zenon DEF SessionInv, AgentTypeOK
  <2> QED
    BY <1>1, <1>2, <2>1, Zenon DEF SessionOK, Present
<1>4. PICK g, k, b, o, e, l : /\ g = s.got /\ k = (IF s.got = <<>> THEN 0 ELSE Newest(s.got).seq)
                              /\ b = Backlog(a, k) /\ o = ~Terminal(m.status) /\ e = Terminal(m.status)
                              /\ l = (s.lossy \/ m.truncated)
  BY Zenon
<1>5. PICK g2, s2 : /\ g2 = g \o b
                    /\ s2 = [a |-> a, open |-> o, queue |-> <<>>, got |-> g2, ended |-> e, lossy |-> l]
  BY Zenon
<1>6. sub' = [sub EXCEPT ![c] = s2]
  BY <1>1, <1>4, <1>5, Zenon DEF Subscribe
<1>7. /\ s2.a = a /\ s2.open = o /\ s2.queue = <<>> /\ s2.got = g2 /\ s2.ended = e /\ s2.lossy = l
      /\ o \in BOOLEAN /\ e \in BOOLEAN /\ l \in BOOLEAN
  <2>1. o \in BOOLEAN /\ e \in BOOLEAN /\ l \in BOOLEAN
    BY <1>4, SMTT(60) DEF Terminal
  <2> QED
    BY <1>5, <2>1, Zenon
<1>8. ASSUME ~l
      PROVE  /\ g \in Seq(Event) /\ b \in Seq(Event) /\ g2 \in Seq(Event)
             /\ StreamOK(s2, g2 \o <<>>, m, d, t, TRUE, z)
  <2>1. ~s.lossy /\ ~m.truncated
    BY <1>4, <1>8, Zenon
  <2>2. g \in Seq(Event) /\ StreamOK(s, g, m, d, t, TRUE, z)
    <3>1. CASE s.a = "none"
      <4>1. s = NoStream
        BY <1>2, <3>1, Zenon DEF ClientOK
      <4>2. g = <<>> /\ Len(g) = 0 /\ ~s.open /\ ~s.ended
        BY <1>4, <4>1, Zenon DEF NoStream
      <4>3. 0 <= m.lastSeq /\ 0 <= Len(d)
        BY <1>3, SeqPlaces, SMTT(60) DEF Session
      <4>4. g \in Seq(Event)
        BY <4>2, SMTT(60)
      <4> QED
        BY <4>2, <4>3, <4>4, SMTT(60) DEF StreamOK
    <3>2. CASE s.a = a
      <4>1. Followed(s, m, d, t, TRUE, z) /\ StreamShape(s)
        BY <1>1, <1>2, <3>2, Zenon DEF ClientOK
      <4>2. s.queue = <<>> /\ s.got \in Seq(Event) /\ StreamOK(s, s.got \o s.queue, m, d, t, TRUE, z)
        BY <1>2, <2>1, <4>1, ZenonT(60) DEF Followed, StreamShape
      <4>3. s.got \o <<>> = s.got
        BY <4>2, SeqConcatNothing, ZenonT(60)
      <4> QED
        BY <1>4, <4>2, <4>3, Zenon
    <3> QED
      BY <1>2, <3>1, <3>2, Zenon
  <2>3. k = Len(g) /\ k \in Nat
    <3>1. Len(g) \in Nat /\ (g # <<>> => Len(g) >= 1) /\ (g = <<>> => Len(g) = 0)
      BY <2>2, SeqPlaces, SeqNothing, SMTT(60)
    <3>2. g # <<>> => g[Len(g)].seq = Len(g)
      BY <2>2, <3>1, SMTT(60) DEF StreamOK
    <3> QED
      BY <1>4, <3>1, <3>2, ZenonT(60) DEF Newest
  <2>4. Remainder(b, d, Len(g))
    <3>1. Numbered(disk[a], 0) /\ mem[a].events = Trim(disk[a])
      BY <1>1, <1>3, <2>1, SMTT(60) DEF Numbered, DiskOK, MemOK
    <3>2. Remainder(Backlog(a, k), disk[a], k)
      BY <2>3, <3>1, BacklogIsRemainder, Zenon
    <3> QED
      BY <1>1, <1>4, <2>3, <3>2, Zenon
  <2>5. b \in Seq(Event) /\ g2 \in Seq(Event)
    BY <1>5, <2>2, <2>4, SeqConcat, Zenon DEF Remainder
  <2>6. s2.open = ~Terminal(m.status) /\ s2.ended = Terminal(m.status)
    BY <1>4, <1>7, Zenon
  <2>7. StreamOK(s2, (g \o b) \o <<>>, m, d, t, TRUE, z)
    BY <1>3, <2>1, <2>2, <2>4, <2>6, StreamSubscribes, ZenonT(60)
  <2> QED
    BY <1>5, <2>2, <2>5, <2>7, ZenonT(60)
<1>9. StreamShape(s2)
  <2>1. s2 = [a |-> s2.a, open |-> s2.open, queue |-> s2.queue, got |-> s2.got, ended |-> s2.ended,
              lossy |-> s2.lossy]
    BY <1>5, Zenon
  <2>2. ~l => <<>> \in Seq(Event) /\ g2 \in Seq(Event)
    BY <1>8, SMTT(60)
  <2> QED
    BY <1>7, <2>1, <2>2, Zenon DEF StreamShape
<1>10. o => t.pc \in InMemory
  <2>1. t.pc \in InMemory \cup Over /\ (t.pc \in Over => Terminal(m.status))
    BY <1>3, Zenon DEF ThreadState, MemOK, Terminal, Final, Ends
  <2> QED
    BY <1>4, <2>1, Zenon
<1>11. Followed(s2, m, d, t, TRUE, z)
  <2>1. ~s2.lossy => StreamOK(s2, s2.got \o s2.queue, m, d, t, TRUE, z)
    BY <1>7, <1>8, Zenon
  <2>2. t.pc \notin {"idle", "found"}
    BY <1>3, Zenon DEF MemOK
  <2>3. o => ~e
    BY <1>4, Zenon
  <2> QED
    BY <1>7, <1>10, <2>1, <2>2, <2>3, ZenonT(60) DEF Followed
<1>12. Followed(s2, mem[s2.a], disk[s2.a], th[s2.a], up, file[s2.a].status = "interrupted")
  BY <1>1, <1>2, <1>7, <1>11, Zenon
<1> QED
  BY <1>2, <1>6, <1>7, <1>9, <1>12, OneClient, ZenonT(60)

LEMMA OtherStreams ==
  ASSUME SessionInv, StreamInv, OtherStep
  PROVE  StreamInv'
<1>1. UNCHANGED <<up, mem, file, disk, th>>
  BY OtherChanges, Zenon
<1>2. CASE \E c \in Client : Receive(c) \/ Leave(c) \/ \E a \in Agent : Subscribe(c, a)
  BY <1>1, <1>2, ReceiveStreams, LeaveStreams, SubscribeStreams, Zenon
<1>3. CASE KillCancel \/ KillRemove \/ Close
  <2>1. sub' = sub
    BY <1>3, Zenon DEF KillCancel, KillRemove, Close
  <2> QED
    BY <1>1, <2>1, IdleClient, Zenon DEF StreamInv
<1> QED
  BY <1>2, <1>3, Zenon DEF OtherStep

LEMMA StreamStep == SessionInv /\ SessionInv' /\ StreamInv /\ [Next]_vars => StreamInv'
<1> SUFFICES ASSUME SessionInv, SessionInv', StreamInv, [Next]_vars PROVE StreamInv'
  BY Zenon
<1>1. ASSUME NEW a \in Agent, QuietStep(a) PROVE StreamInv'
  BY <1>1, QuietStreams, Zenon
<1>2. ASSUME NEW a \in Agent, Announce(a) \/ Output(a) \/ Marker(a) PROVE StreamInv'
  BY <1>2, AppendStreams, Zenon
<1>3. CASE OtherStep
  BY <1>3, OtherStreams, Zenon
<1>4. CASE up /\ Stop
  BY <1>4, StopStreams, Zenon
<1>5. CASE Restart
  BY <1>5, RestartStreams, Zenon
<1>6. CASE UNCHANGED vars
  <2>1. UNCHANGED <<up, mem, file, disk, th>> /\ sub' = sub
    BY <1>6, Zenon DEF vars
  <2> QED
    BY <2>1, IdleClient, Zenon DEF StreamInv
<1> QED
  BY <1>1, <1>2, <1>3, <1>4, <1>5, <1>6, AgentSteps, ZenonT(60)

LEMMA StreamInit == Init => StreamInv
<1> SUFFICES ASSUME Init PROVE StreamInv
  BY Zenon
<1>1. sub = [c \in Client |-> NoStream]
  BY Zenon DEF Init
<1>2. StreamShape(NoStream) /\ NoStream.a = "none"
  BY SMTT(60) DEF StreamShape, NoStream
<1>3. ClientOK(NoStream)
  BY <1>2, Zenon DEF ClientOK
<1> QED
  BY <1>1, <1>3, Zenon DEF StreamInv

LEMMA StreamsHold == Spec => [](SessionInv /\ StreamInv)
<1>1. SessionInv /\ StreamInv /\ [Next]_vars => SessionInv' /\ StreamInv'
  BY SessionStep, StreamStep, Zenon
<1> QED
  BY <1>1, SessionInit, StreamInit, PTL DEF Spec

\* A client that follows a session over any number of reconnects, stops and restarts
\* has each event once and in order, unless its channel overflowed or the transcript
\* it read was cut: for any number of sessions and clients, any length of the window
\* and of the channels.
THEOREM StreamsHaveNoGap == Spec => []StreamHasNoGap
<1>1. StreamInv => StreamHasNoGap
  <2> SUFFICES ASSUME StreamInv, NEW c \in Client, ~sub[c].lossy
               PROVE  Contiguous(sub[c].got \o sub[c].queue, 1)
    BY Zenon DEF StreamHasNoGap
  <2>1. PICK s, all : s = sub[c] /\ all = s.got \o s.queue
    BY Zenon
  <2>2. ClientOK(s) /\ ~s.lossy
    BY <2>1, Zenon DEF StreamInv
  <2>3. s.got \in Seq(Event) /\ s.queue \in Seq(Event) /\ all \in Seq(Event)
    BY <2>1, <2>2, SeqConcat, Zenon DEF ClientOK, StreamShape
  <2>4. DOMAIN all = 1 .. Len(all) /\ Len(all) \in Nat
    BY <2>3, SeqPlaces, Zenon
  <2>5. \A i \in 1 .. Len(all) : all[i].seq = i
    <3>1. CASE s.a = "none"
      <4>1. s.got = <<>> /\ s.queue = <<>>
        BY <2>2, <3>1, SMTT(60) DEF ClientOK, NoStream
      <4>2. all = <<>>
        BY <2>1, <2>3, <4>1, SeqConcatNothing, Zenon
      <4>3. Len(all) = 0
        BY <4>2, Zenon
      <4> QED
        BY <4>3, SMTT(60)
    <3>2. CASE s.a # "none"
      BY <2>1, <2>2, <3>2, Zenon DEF ClientOK, Followed, StreamOK
    <3> QED
      BY <3>1, <3>2, Zenon
  <2>6. Contiguous(all, 1)
    BY <2>4, <2>5, SMTT(60) DEF Contiguous
  <2> QED
    BY <2>1, <2>6, Zenon
<1> QED
  BY <1>1, StreamsHold, PTL

\* A stream that its session ended has given, or has waiting, the session's final
\* status as its last event, whether it was closed by the session or found it over
\* when it was opened.
THEOREM EndedStreamsAreComplete == Spec => []EndedStreamIsComplete
<1>1. SessionInv /\ StreamInv => EndedStreamIsComplete
  <2> SUFFICES ASSUME SessionInv, StreamInv, NEW c \in Client, NEW s, NEW a, NEW all,
                      s = sub[c], a = s.a, all = s.got \o s.queue,
                      up, s.ended, ~s.lossy, Present(mem[a]), mem[a].status # "interrupted"
               PROVE  all # <<>> /\ Newest(all).data = mem[a].status
    BY ZenonT(60) DEF EndedStreamIsComplete
  <2>1. PICK m, d, t, z : /\ m = mem[a] /\ d = disk[a] /\ t = th[a]
                          /\ z = (file[a].status = "interrupted")
    BY Zenon
  <2>2. ClientOK(s)
    BY Zenon DEF StreamInv
  <2>3. a # "none"
    BY <2>2, SMTT(60) DEF ClientOK, NoStream
  <2>4. a \in Agent /\ StreamOK(s, all, m, d, t, TRUE, z)
    BY <2>1, <2>2, <2>3, ZenonT(60) DEF ClientOK, StreamShape, Followed, SessionInv, AgentTypeOK
  <2>5. MemOK(m, d, t) /\ ~z
    BY <2>1, <2>4, Zenon DEF SessionInv, SessionOK
  <2>6. t.pc \in Finished /\ Marks(all, t) /\ t.status \in Ends
    BY <2>4, <2>5, Zenon DEF StreamOK
  <2>7. m.status = t.status
    <3>1. CASE t.pc \in {"final", "writeFinal", "closing"}
      BY <2>5, <3>1, ZenonT(60) DEF MemOK
    <3>2. CASE t.pc \in {"done", "dead"}
      <4>1. m.status \in Ends \cup {"interrupted"}
        BY <2>5, <3>2, Zenon DEF MemOK, Over
      <4> QED
        BY <2>1, <2>5, <4>1, Zenon DEF MemOK
    <3> QED
      BY <2>6, <3>1, <3>2, ZenonT(60) DEF Finished
  <2> QED
    BY <2>1, <2>6, <2>7, Zenon DEF Marks, Newest
<1> QED
  BY <1>1, StreamsHold, PTL
=============================================================================
