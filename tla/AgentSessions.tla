--------------------------- MODULE AgentSessions ---------------------------
(***************************************************************************)
(* Durable agent sessions (internal/controlplane/agent_sessions.go): the   *)
(* asynchronous launch, the transcript, the metadata file every session    *)
(* rewrites, live subscribers with bounded channels, cancellation by       *)
(* KillSandbox and Close, and recovery after a restart.                    *)
(*                                                                         *)
(* agentMu is held for one step at a time; saveAgentSessions takes its     *)
(* snapshot under agentMu and writes it later, so a save is two steps.     *)
(***************************************************************************)
EXTENDS Integers, Sequences, FiniteSets

CONSTANTS
  Agent,      \* agent session ids
  Client,     \* clients that follow a session
  Outcomes,   \* how a command that is not canceled may end
  Faults,     \* subset of {"save", "transcript", "crash", "close", "kill"}
  Window,     \* maxAgentEventsMemory
  Buffer,     \* capacity of a subscriber's channel
  MaxLines,   \* bound on output events of a session
  MaxStops    \* bound on crashes and clean stops

ASSUME AgentAssumption ==
  /\ Outcomes \in SUBSET {"completed", "failed", "denied"}
  /\ Faults \in SUBSET {"save", "transcript", "crash", "close", "kill"}
  /\ Window \in Nat \ {0} /\ Buffer \in Nat \ {0}
  /\ MaxLines \in Nat /\ MaxStops \in Nat
  /\ "none" \notin Agent

VARIABLES
  up,       \* the control plane is running
  closing,  \* Manager.Close has canceled the sessions and waits for them
  stops,    \* crashes and clean stops so far
  mem,      \* mem[a]: agentSessions[a], or Absent
  cancels,  \* the keys of agentCancels
  canceled, \* sessions whose context is canceled
  file,     \* agent-sessions.json: file[a] is a's metadata, or Absent
  disk,     \* disk[a]: the events of a's transcript file
  th,       \* th[a]: the thread that starts and then runs a
  citadel,  \* the Citadel is in the session table
  killing,  \* KillSandbox has canceled and not yet removed the session
  answered, \* sessions whose start was answered without an error
  sub       \* sub[c]: the stream of client c

vars == <<up, closing, stops, mem, cancels, canceled, file, disk, th, citadel,
          killing, answered, sub>>

-----------------------------------------------------------------------------
(* Data *)

Final == {"completed", "failed", "denied", "canceled", "interrupted"}

Status == {"queued", "running"} \cup Final

\* A status event carries the status, an output event "out".
Event == [seq: Nat, data: Status \cup {"out"}]

Absent == [status |-> "absent"]

\* From the lookup to the end of the command.
Unfinished == {"found", "registered", "writeStart", "launched", "running",
               "writeRunning", "announce", "exec"}

\* The points at which agentWG counts the session.
Counted == {"launched", "running", "writeRunning", "announce", "exec", "finish",
            "marked", "final", "writeFinal", "closing"}

Terminal(status) == status \in Final

Newest(events) == events[Len(events)]

Present(s) == s # Absent

\* cloneAgentSession
Clone(s) ==
  IF Present(s)
  THEN [status |-> s.status, lastSeq |-> s.lastSeq, truncated |-> s.truncated]
  ELSE Absent

\* The memory window: the newest maxAgentEventsMemory events.
Trim(events) ==
  IF Len(events) > Window
  THEN SubSeq(events, Len(events) - Window + 1, Len(events))
  ELSE events

\* Mutant of EventsAfter: the event at the cursor is sent again.
EventsAfterInclusive(events, after) ==
  LET Later(e) == e.seq >= after IN SelectSeq(events, Later)

\* eventsAfter: the events beyond the cursor, in their order.
EventsAfter(events, after) ==
  LET later == {i \in DOMAIN events : events[i].seq > after}
      Place(i) == Cardinality({j \in later : j <= i})
  IN  [n \in 1 .. Cardinality(later) |-> events[CHOOSE i \in later : Place(i) = n]]

\* Mutant of Backlog: only the memory window is replayed.
BacklogMemory(a, after) == EventsAfter(mem[a].events, after)

\* agentEventsAfterLocked: the window, preceded by the transcript when the
\* cursor lies before it.
Backlog(a, after) ==
  LET recent == mem[a].events
      stored == disk[a]
  IN  IF recent = <<>> \/ after >= recent[1].seq - 1 \/ stored = <<>>
      THEN EventsAfter(recent, after)
      ELSE EventsAfter(stored \o EventsAfter(recent, Newest(stored).seq), after)

\* Mutant of Recovered: every unfinished session is interrupted.
RecoveredInterrupted(s, events) ==
  IF s.status \in {"queued", "running"} THEN "interrupted" ELSE s.status

\* The status a restart gives the session from its metadata s and events: an
\* unfinished one takes the final status its transcript ends with, if any.
Recovered(s, events) ==
  CASE ~(s.status \in {"queued", "running"}) -> s.status
    [] s.status \in {"queued", "running"} /\ events # <<>> /\ Terminal(Newest(events).data) ->
         Newest(events).data
    [] OTHER -> "interrupted"

-----------------------------------------------------------------------------
NoStream == [a |-> "none", open |-> FALSE, queue |-> <<>>, got |-> <<>>,
             ended |-> FALSE, lossy |-> FALSE]

Init ==
  /\ up = TRUE /\ closing = FALSE /\ stops = 0
  /\ mem = [a \in Agent |-> Absent]
  /\ cancels = {} /\ canceled = {}
  /\ file = [a \in Agent |-> Absent]
  /\ disk = [a \in Agent |-> <<>>]
  /\ th = [a \in Agent |-> [pc |-> "idle", snap |-> [b \in Agent |-> Absent], status |-> "queued"]]
  /\ citadel = TRUE /\ killing = FALSE
  /\ answered = {}
  /\ sub = [c \in Client |-> NoStream]

Goto(a, pc) == th' = [th EXCEPT ![a].pc = pc]

At(a, pc) == up /\ th[a].pc = pc

-----------------------------------------------------------------------------
(* The transcript and its subscribers *)

\* The channels of a's subscribers after event e is offered to each of them:
\* a full channel drops it.
Offered(a, e) ==
  [c \in Client |->
     CASE ~(sub[c].open /\ sub[c].a = a) -> sub[c]
       [] sub[c].open /\ sub[c].a = a /\ Len(sub[c].queue) < Buffer ->
            [sub[c] EXCEPT !.queue = Append(@, e)]
       [] OTHER -> [sub[c] EXCEPT !.lossy = TRUE]]

\* appendAgentEvent: number, remember, store unless storing failed before,
\* and offer to the subscribers.
AppendEvent(a, data) ==
  LET e == [seq |-> mem[a].lastSeq + 1, data |-> data] IN
  /\ \E stored \in BOOLEAN :
       /\ stored => ~mem[a].truncated
       /\ ~stored => mem[a].truncated \/ "transcript" \in Faults
       /\ disk' = IF stored THEN [disk EXCEPT ![a] = Append(@, e)] ELSE disk
       /\ mem' = [mem EXCEPT ![a].lastSeq = @ + 1, ![a].events = Trim(Append(@, e)),
                             ![a].truncated = ~stored]
  /\ sub' = Offered(a, e)

\* Mutant of Subscribe: the channel is registered without the backlog.
SubscribeLive(c, a) ==
  /\ up /\ Present(mem[a]) /\ ~sub[c].open /\ sub[c].a \in {"none", a} /\ ~sub[c].ended
  /\ sub' = [sub EXCEPT ![c] =
       [a |-> a, open |-> ~Terminal(mem[a].status), queue |-> <<>>,
        got |-> @.got, ended |-> Terminal(mem[a].status), lossy |-> @.lossy]]
  /\ UNCHANGED <<up, closing, stops, mem, cancels, canceled, file, disk, th, citadel, killing, answered>>

\* SubscribeAgentSession, with the cursor at the last event the client has.  The
\* client is given the backlog at once; the channel of a finished session is
\* closed from the start.
Subscribe(c, a) ==
  /\ up /\ Present(mem[a]) /\ ~sub[c].open /\ sub[c].a \in {"none", a} /\ ~sub[c].ended
  /\ LET after == IF sub[c].got = <<>> THEN 0 ELSE Newest(sub[c].got).seq
     IN  sub' = [sub EXCEPT ![c] =
           [a |-> a, open |-> ~Terminal(mem[a].status), queue |-> <<>>,
            got |-> @.got \o Backlog(a, after), ended |-> Terminal(mem[a].status),
            lossy |-> @.lossy \/ mem[a].truncated]]
  /\ UNCHANGED <<up, closing, stops, mem, cancels, canceled, file, disk, th, citadel, killing, answered>>

\* The stream handler passes on one event of the channel.
Receive(c) ==
  /\ sub[c].queue # <<>>
  /\ sub' = [sub EXCEPT ![c].queue = Tail(@), ![c].got = Append(@, Head(sub[c].queue))]
  /\ UNCHANGED <<up, closing, stops, mem, cancels, canceled, file, disk, th, citadel, killing, answered>>

\* The client goes away: cancel removes and closes the channel.
Leave(c) ==
  /\ sub[c].open
  /\ sub' = [sub EXCEPT ![c].open = FALSE, ![c].queue = <<>>]
  /\ UNCHANGED <<up, closing, stops, mem, cancels, canceled, file, disk, th, citadel, killing, answered>>

-----------------------------------------------------------------------------
(* saveAgentSessions *)

\* The snapshot, under agentMu.
Snapshot(a, from, to) ==
  /\ At(a, from)
  /\ th' = [th EXCEPT ![a].pc = to, ![a].snap = [b \in Agent |-> Clone(mem[b])]]
  /\ UNCHANGED <<up, closing, stops, mem, cancels, canceled, file, disk, citadel, killing, answered, sub>>

\* writeStateFile replaces the file by the snapshot, or fails and leaves it.
Write(a, from, ok, failed) ==
  /\ At(a, from)
  /\ \/ file' = th[a].snap /\ Goto(a, ok)
     \/ "save" \in Faults /\ file' = file /\ Goto(a, failed)
  /\ UNCHANGED <<up, closing, stops, mem, cancels, canceled, disk, citadel, killing, sub>>

-----------------------------------------------------------------------------
(* StartAgentSession *)

\* The Citadel is looked up; the request is refused when it is gone.  Requests
\* stop arriving once the server shuts down.
Lookup(a) ==
  /\ At(a, "idle") /\ citadel /\ ~closing
  /\ Goto(a, "found")
  /\ UNCHANGED <<up, closing, stops, mem, cancels, canceled, file, disk, citadel, killing, answered, sub>>

Register(a) ==
  /\ At(a, "found")
  /\ mem' = [mem EXCEPT ![a] =
       [status |-> "queued", lastSeq |-> 0, truncated |-> FALSE, events |-> <<>>]]
  /\ cancels' = cancels \cup {a}
  /\ Goto(a, "registered")
  /\ UNCHANGED <<up, closing, stops, canceled, file, disk, citadel, killing, answered, sub>>

SnapshotStart(a) == Snapshot(a, "registered", "writeStart")

\* The first save; when it succeeds the goroutine is started and the caller
\* answered.
WriteStart(a) ==
  /\ Write(a, "writeStart", "launched", "rollback")
  /\ answered' = IF th'[a].pc = "launched" THEN answered \cup {a} ELSE answered

\* The first save failed: the context is canceled and the session forgotten.
Rollback(a) ==
  /\ At(a, "rollback")
  /\ mem' = [mem EXCEPT ![a] = Absent]
  /\ cancels' = cancels \ {a}
  /\ canceled' = canceled \cup {a}
  /\ Goto(a, "refused")
  /\ UNCHANGED <<up, closing, stops, file, disk, citadel, killing, answered, sub>>

-----------------------------------------------------------------------------
(* runAgentSession and finishAgentSession *)

SetRunning(a) ==
  /\ At(a, "launched")
  /\ mem' = [mem EXCEPT ![a].status = "running"]
  /\ Goto(a, "running")
  /\ UNCHANGED <<up, closing, stops, cancels, canceled, file, disk, citadel, killing, answered, sub>>

SnapshotRunning(a) == Snapshot(a, "running", "writeRunning")

\* This save's error is ignored.
WriteRunning(a) == Write(a, "writeRunning", "announce", "announce") /\ answered' = answered

Announce(a) ==
  /\ At(a, "announce")
  /\ AppendEvent(a, "running")
  /\ Goto(a, "exec")
  /\ UNCHANGED <<up, closing, stops, cancels, canceled, file, citadel, killing, answered>>

\* The governed command writes a line of output.
Output(a) ==
  /\ At(a, "exec") /\ mem[a].lastSeq <= MaxLines
  /\ AppendEvent(a, "out")
  /\ UNCHANGED <<up, closing, stops, cancels, canceled, file, th, citadel, killing, answered>>

\* govern returns; "canceled" needs a canceled context.
Return(a) ==
  /\ At(a, "exec")
  /\ \E status \in Outcomes \cup {"canceled"} :
       /\ status = "canceled" => a \in canceled
       /\ th' = [th EXCEPT ![a].pc = "finish", ![a].status = status]
  /\ UNCHANGED <<up, closing, stops, mem, cancels, canceled, file, disk, citadel, killing, answered, sub>>

\* The final status event goes to the transcript first.
Marker(a) ==
  /\ At(a, "finish")
  /\ AppendEvent(a, th[a].status)
  /\ Goto(a, "marked")
  /\ UNCHANGED <<up, closing, stops, cancels, canceled, file, citadel, killing, answered>>

\* The terminal status becomes visible.
SetFinal(a) ==
  /\ At(a, "marked")
  /\ mem' = [mem EXCEPT ![a].status = th[a].status]
  /\ cancels' = cancels \ {a}
  /\ Goto(a, "final")
  /\ UNCHANGED <<up, closing, stops, canceled, file, disk, citadel, killing, answered, sub>>

SnapshotFinal(a) == Snapshot(a, "final", "writeFinal")

WriteFinal(a) == Write(a, "writeFinal", "closing", "closing") /\ answered' = answered

\* Every subscriber's channel is closed.
CloseStreams(a) ==
  /\ At(a, "closing")
  /\ sub' = [c \in Client |->
       IF sub[c].open /\ sub[c].a = a
       THEN [sub[c] EXCEPT !.open = FALSE, !.ended = TRUE] ELSE sub[c]]
  /\ Goto(a, "done")
  /\ UNCHANGED <<up, closing, stops, mem, cancels, canceled, file, disk, citadel, killing, answered>>

-----------------------------------------------------------------------------
(* Cancellation, stops and recovery *)

\* cancelAgentSessions, the first step of KillSandbox.
KillCancel ==
  /\ up /\ "kill" \in Faults /\ citadel /\ ~killing
  /\ canceled' = canceled \cup cancels
  /\ killing' = TRUE
  /\ UNCHANGED <<up, closing, stops, mem, cancels, file, disk, th, citadel, answered, sub>>

\* KillSandbox then removes the Citadel's session.
KillRemove ==
  /\ up /\ killing
  /\ citadel' = FALSE
  /\ killing' = FALSE
  /\ UNCHANGED <<up, closing, stops, mem, cancels, canceled, file, disk, th, answered, sub>>

\* Manager.Close cancels every session ...
Close ==
  /\ up /\ "close" \in Faults /\ ~closing /\ stops < MaxStops
  /\ canceled' = canceled \cup cancels
  /\ closing' = TRUE
  /\ UNCHANGED <<up, stops, mem, cancels, file, disk, th, citadel, killing, answered, sub>>

\* The process is gone: its memory, threads and connections with it.
Stop ==
  /\ up' = FALSE /\ closing' = FALSE /\ stops' = stops + 1
  /\ mem' = [a \in Agent |-> Absent]
  /\ cancels' = {} /\ canceled' = {}
  /\ th' = [a \in Agent |-> [th[a] EXCEPT !.pc = IF @ \in {"idle", "done", "refused"} THEN @ ELSE "dead"]]
  /\ citadel' = FALSE /\ killing' = FALSE
  /\ sub' = [c \in Client |-> [sub[c] EXCEPT !.open = FALSE, !.queue = <<>>,
                                                !.ended = @ /\ sub[c].queue = <<>>]]
  /\ UNCHANGED <<file, disk, answered>>

\* ... and returns once agentWG is zero.
CloseReturn == up /\ closing /\ (\A a \in Agent : th[a].pc \notin Counted) /\ Stop

Crash == up /\ "crash" \in Faults /\ stops < MaxStops /\ Stop

\* loadAgentSessions' view of one session of the file.
Loaded(a) ==
  LET events == Trim(disk[a])
      seen == IF events = <<>> THEN 0 ELSE Newest(events).seq
  IN  [status |-> Recovered(file[a], disk[a]),
       lastSeq |-> IF seen > file[a].lastSeq THEN seen ELSE file[a].lastSeq,
       truncated |-> file[a].truncated, events |-> events]

\* New loads the file and saves it again when a status changed; a new Citadel
\* is launched.
Restart ==
  /\ ~up
  /\ up' = TRUE /\ citadel' = TRUE
  /\ mem' = [a \in Agent |-> IF Present(file[a]) THEN Loaded(a) ELSE Absent]
  /\ file' = IF \E a \in Agent : Present(file[a]) /\ ~Terminal(file[a].status)
             THEN [a \in Agent |-> Clone(mem'[a])] ELSE file
  /\ UNCHANGED <<closing, stops, cancels, canceled, disk, th, killing, answered, sub>>

-----------------------------------------------------------------------------
\* The steps of the thread that starts and runs a.
Thread(a) ==
  \/ Register(a) \/ SnapshotStart(a) \/ WriteStart(a) \/ Rollback(a)
  \/ SetRunning(a) \/ SnapshotRunning(a) \/ WriteRunning(a) \/ Announce(a)
  \/ Marker(a) \/ SetFinal(a) \/ SnapshotFinal(a) \/ WriteFinal(a) \/ CloseStreams(a)

Next ==
  \/ \E a \in Agent : Lookup(a) \/ Thread(a) \/ Output(a) \/ Return(a)
  \/ \E c \in Client : Receive(c) \/ Leave(c) \/ \E a \in Agent : Subscribe(c, a)
  \/ KillCancel \/ KillRemove \/ Close \/ CloseReturn \/ Crash \/ Restart

Spec == Init /\ [][Next]_vars

\* Threads run; a command whose context is canceled returns; Close and the
\* kill go on.  Clients may stop reading.
Fairness ==
  /\ \A a \in Agent : WF_vars(Thread(a)) /\ WF_vars(Return(a) /\ a \in canceled)
  /\ WF_vars(CloseReturn) /\ WF_vars(KillRemove)

FairSpec == Spec /\ Fairness

-----------------------------------------------------------------------------
(* Properties *)

\* Events are numbered without gaps or repetitions from first on.
Contiguous(events, first) == \A i \in DOMAIN events : events[i].seq = first + i - 1

\* finishAgentSession commits the final marker first: whoever sees a terminal
\* status can fetch every event of the session at once, the last one being that
\* status, unless storing the transcript failed.  It stays so after a restart,
\* where an interrupted session has what was stored.
CompletionHasBacklog ==
  \A a \in Agent :
    Present(mem[a]) /\ Terminal(mem[a].status) /\ ~mem[a].truncated =>
      LET b == Backlog(a, 0) IN
      /\ Contiguous(b, 1) /\ Len(b) = mem[a].lastSeq
      /\ mem[a].status # "interrupted" => b # <<>> /\ Newest(b).data = mem[a].status

\* A terminal status a client can see is the one a restart comes back with, at
\* whatever point the process stops and whichever save was last to reach the
\* file, as long as the file has the session and its transcript is whole.
FinalSurvivesRestart ==
  \A a \in Agent :
    up /\ Present(mem[a]) /\ Terminal(mem[a].status) /\ ~mem[a].truncated /\ Present(file[a]) =>
      Recovered(file[a], disk[a]) = mem[a].status

\* SubscribeAgentSession leaves no gap between backlog and live events: over
\* any number of reconnects, and a restart, a client that never overflowed its
\* channel and never read a truncated transcript has every event exactly once.
StreamHasNoGap ==
  \A c \in Client : ~sub[c].lossy => Contiguous(sub[c].got \o sub[c].queue, 1)

\* A stream that was ended by the session, not by the client, delivers the
\* session's last event unless the channel overflowed.
EndedStreamIsComplete ==
  \A c \in Client :
    LET a == sub[c].a
        all == sub[c].got \o sub[c].queue
    IN  up /\ sub[c].ended /\ ~sub[c].lossy /\ Present(mem[a]) /\ mem[a].status # "interrupted" =>
          all # <<>> /\ Newest(all).data = mem[a].status

\* A start that was answered has a record in the metadata file
\* (StartAgentSession's comment).
StartedIsDurable == \A a \in answered : Present(file[a])

\* A session whose context is canceled ends, and with it the streams on it.
CanceledEnds ==
  \A a \in Agent : a \in canceled ~> th[a].pc \in {"done", "refused", "dead"}

\* Close returns once every command it could not cancel, because the request
\* that started it was still being served, has come to its end.
CloseReturns ==
  closing /\ (\A a \in Agent : th[a].pc \in Unfinished => a \in canceled) ~> ~up
=============================================================================
