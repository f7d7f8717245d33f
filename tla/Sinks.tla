-------------------------------- MODULE Sinks --------------------------------
(***************************************************************************)
(* The audit fan-out: appendAudit hands every event to the sinks after the *)
(* Chronicle has it (controlplane/manager.go), the webhook and OTLP sinks  *)
(* queue it for a worker of their own, the file sink writes it at once     *)
(* (auditsink).  Emit never blocks, so a full queue loses its oldest event.*)
(* Manager.Close closes the sinks one after the other while calls that are *)
(* still running go on recording.                                          *)
(***************************************************************************)
EXTENDS Integers, Sequences, FiniteSets

CONSTANTS
  Producer,    \* calls that record events
  Configs,     \* the sets of sinks the environment may configure
  QueueSize,   \* webhookQueueSize, otlpQueueSize
  MaxTries,    \* webhookMaxTries
  MaxEvents,   \* bound on the events recorded
  MaxFaults    \* bound on failed writes, exports and first tries of a delivery

VARIABLES
  sinks,     \* the sinks of Multi, in order
  book,      \* the records of the Chronicle
  recorded,  \* number of events recorded so far
  prod,      \* prod[p]: the event p holds and the sinks it still has to give it to
  queue,     \* queue[k]: the queue of sink k
  worker,    \* worker[k]: what the worker of k does
  done,      \* sinks whose done channel is closed
  dropped,   \* dropped[k]: the counter of recordDrop
  shut,      \* the provider of the OTLP exporter was shut down
  sinkFile,  \* the file sink's file is open
  closer,    \* Manager.Close: the sinks it still has to close
  received,  \* received[k]: what the collector, or the file, holds
  faults,    \* number of failures so far
  enq, missed \* history: what was queued, in order; what was dropped or given up

sinkVars == <<sinks, book, recorded, prod, queue, worker, done, dropped, shut, sinkFile,
              closer, received, faults, enq, missed>>
workers == <<queue, worker, dropped, received, enq, missed>>

Kinds == {"webhook", "otlp", "file"}
Queued == {"webhook", "otlp"}

\* FromEnv: the sinks the environment asks for, in this order.
FromEnv(S) ==
  LET If(k) == IF k \in S THEN <<k>> ELSE <<>> IN If("webhook") \o If("file") \o If("otlp")

Idle == [at |-> "idle", ev |-> [id |-> 0, seq |-> 0], try |-> 0]
Resting == [at |-> "idle", ev |-> Idle.ev, rest |-> <<>>]

Fault == faults < MaxFaults /\ faults' = faults + 1

SinkInit ==
  /\ sinks \in {FromEnv(S) : S \in Configs \cup {{}}}
  /\ book = <<>> /\ recorded = 0
  /\ prod = [p \in Producer |-> Resting]
  /\ queue = [k \in Queued |-> <<>>]
  /\ worker = [k \in Queued |-> Idle]
  /\ done = {} /\ dropped = [k \in Queued |-> 0]
  /\ shut = FALSE /\ sinkFile = TRUE
  /\ closer = [at |-> "open", rest |-> <<>>]
  /\ received = [k \in Kinds |-> <<>>]
  /\ faults = 0
  /\ enq = [k \in Queued |-> <<>>] /\ missed = [k \in Queued |-> {}]

-----------------------------------------------------------------------------
(* Recording an event *)

\* appendAudit: Append numbers its own copy of the event, and an error is only
\* logged.  What goes to the sinks is the event as the caller made it.
AppendAudit(p) ==
  /\ prod[p].at = "idle" /\ recorded < MaxEvents
  /\ recorded' = recorded + 1
  /\ \/ closer.at # "closed" /\ book' = Append(book, [id |-> recorded + 1, seq |-> Len(book) + 1]) /\ UNCHANGED faults
     \/ closer.at = "closed" /\ UNCHANGED <<book, faults>>
     \/ closer.at # "closed" /\ Fault /\ UNCHANGED book
  /\ prod' = [prod EXCEPT ![p] = IF sinks = <<>> THEN Resting
                               ELSE [at |-> "emit", ev |-> [id |-> recorded + 1, seq |-> 0], rest |-> sinks]]
  /\ UNCHANGED <<sinks, workers, done, shut, sinkFile, closer>>

Target(p) == Head(prod[p].rest)

\* Multi.Emit goes on with the next sink, if there is one.
Advance(p) ==
  prod' = [prod EXCEPT ![p] = IF Len(@.rest) = 1 THEN Resting ELSE [@ EXCEPT !.at = "emit", !.rest = Tail(@)]]

\* The outer select of Emit: a free slot takes the event.
Enqueue(p, k) ==
  /\ prod[p].at = "emit" /\ prod[p].rest # <<>> /\ Target(p) = k
  /\ \/ /\ Len(queue[k]) < QueueSize
        /\ queue' = [queue EXCEPT ![k] = Append(@, prod[p].ev)]
        /\ enq' = [enq EXCEPT ![k] = Append(@, prod[p].ev.id)]
        /\ Advance(p)
     \/ /\ Len(queue[k]) = QueueSize
        /\ prod' = [prod EXCEPT ![p].at = "drop"]
        /\ UNCHANGED <<queue, enq>>
  /\ UNCHANGED <<sinks, faults, book, recorded, worker, done, dropped, shut, sinkFile, closer, received, missed>>

WebhookEmit(p) == Enqueue(p, "webhook")
OTLPEmit(p) == Enqueue(p, "otlp")

RecordDrop(k) == dropped' = [dropped EXCEPT ![k] = @ + 1]

\* The inner select: the oldest event goes, unless the worker was faster.
DropOldest(p) ==
  /\ prod[p].at = "drop"
  /\ prod' = [prod EXCEPT ![p].at = "emit"]
  /\ LET k == Target(p) IN
     IF queue[k] = <<>> THEN UNCHANGED <<queue, dropped, missed>>
     ELSE /\ queue' = [queue EXCEPT ![k] = Tail(@)]
          /\ missed' = [missed EXCEPT ![k] = @ \cup {[id |-> Head(queue[k]).id, why |-> "dropped"]}]
          /\ RecordDrop(k)
  /\ UNCHANGED <<sinks, faults, book, recorded, worker, done, shut, sinkFile, closer, received, enq>>

\* The file sink writes under its lock; a write error is logged only.
FileEmit(p) ==
  /\ prod[p].at = "emit" /\ prod[p].rest # <<>> /\ Target(p) = "file"
  /\ Advance(p)
  /\ \/ sinkFile /\ received' = [received EXCEPT !["file"] = Append(@, prod[p].ev)] /\ UNCHANGED faults
     \/ ~sinkFile /\ UNCHANGED <<received, faults>>
     \/ sinkFile /\ Fault /\ UNCHANGED received
  /\ UNCHANGED <<sinks, book, recorded, queue, worker, done, dropped, shut, sinkFile, closer, enq, missed>>

-----------------------------------------------------------------------------
(* The workers *)

Take(k) ==
  /\ worker[k].at = "idle" /\ queue[k] # <<>>
  /\ queue' = [queue EXCEPT ![k] = Tail(@)]
  /\ worker' = [worker EXCEPT ![k] = [at |-> "deliver", ev |-> Head(queue[k]), try |-> 1]]
  /\ UNCHANGED <<sinks, faults, book, recorded, prod, done, dropped, shut, sinkFile, closer, received, enq, missed>>

\* Once done is closed the worker leaves as soon as the queue is empty.
WorkerLeaves(k) ==
  /\ worker[k].at = "idle" /\ queue[k] = <<>> /\ k \in done
  /\ worker' = [worker EXCEPT ![k].at = "gone"]
  /\ UNCHANGED <<sinks, faults, book, recorded, prod, queue, done, dropped, shut, sinkFile, closer, received, enq, missed>>

WebhookWorker == Take("webhook") \/ WorkerLeaves("webhook")
OTLPWorker == Take("otlp") \/ WorkerLeaves("otlp")

Reaches(k) == received' = [received EXCEPT ![k] = Append(@, worker[k].ev)]
GiveUp(k) == missed' = [missed EXCEPT ![k] = @ \cup {[id |-> worker[k].ev.id, why |-> "failed"]}]

\* post: a request that times out may have been processed all the same.
Post ==
  LET w == worker["webhook"] IN
  /\ w.at = "deliver"
  /\ \/ Reaches("webhook") /\ worker' = [worker EXCEPT !["webhook"] = Idle] /\ UNCHANGED <<missed, faults>>
     \/ /\ IF w.try = 1 THEN Fault ELSE UNCHANGED faults
        /\ Reaches("webhook") \/ UNCHANGED received
        /\ IF w.try < MaxTries
           THEN worker' = [worker EXCEPT !["webhook"].at = "backoff"] /\ UNCHANGED missed
           ELSE worker' = [worker EXCEPT !["webhook"] = Idle] /\ GiveUp("webhook")
  /\ UNCHANGED <<sinks, book, recorded, prod, queue, done, dropped, shut, sinkFile, closer, enq>>

\* Mutant of Backoff: the event goes back into the queue for its next try.
BackoffRequeues ==
  /\ worker["webhook"].at = "backoff" /\ Len(queue["webhook"]) < QueueSize
  /\ queue' = [queue EXCEPT !["webhook"] = Append(@, worker["webhook"].ev)]
  /\ worker' = [worker EXCEPT !["webhook"] = Idle]
  /\ UNCHANGED <<sinks, faults, book, recorded, prod, done, dropped, shut, sinkFile, closer, received, enq, missed>>

\* deliver: the next try after the backoff, none once the sink is closed.
Backoff ==
  /\ worker["webhook"].at = "backoff"
  /\ \/ /\ worker' = [worker EXCEPT !["webhook"].at = "deliver", !["webhook"].try = @ + 1]
        /\ UNCHANGED missed
     \/ /\ "webhook" \in done
        /\ worker' = [worker EXCEPT !["webhook"] = Idle]
        /\ GiveUp("webhook")
  /\ UNCHANGED <<sinks, faults, book, recorded, prod, queue, done, dropped, shut, sinkFile, closer, received, enq>>

\* The exporter of the OTLP sink reports no error; after the shutdown it is silent.
Export ==
  /\ worker["otlp"].at = "deliver"
  /\ \/ ~shut /\ Reaches("otlp") /\ UNCHANGED <<missed, faults>>
     \/ shut /\ GiveUp("otlp") /\ UNCHANGED <<received, faults>>
     \/ ~shut /\ Fault /\ GiveUp("otlp") /\ UNCHANGED received
  /\ worker' = [worker EXCEPT !["otlp"] = Idle]
  /\ UNCHANGED <<sinks, book, recorded, prod, queue, done, dropped, shut, sinkFile, closer, enq>>

-----------------------------------------------------------------------------
(* Manager.Close *)

StartClose ==
  /\ closer.at = "open"
  /\ closer' = [at |-> "next", rest |-> sinks]
  /\ UNCHANGED <<sinks, faults, book, recorded, prod, workers, done, shut, sinkFile>>

\* Mutant of CloseSink: Close waits for a worker that it does not stop.
CloseSinkNoSignal ==
  /\ closer.at = "next" /\ closer.rest # <<>>
  /\ LET k == Head(closer.rest) IN
     IF k = "file" THEN sinkFile' = FALSE /\ closer' = [closer EXCEPT !.rest = Tail(@)] /\ UNCHANGED done
     ELSE closer' = [closer EXCEPT !.at = "wait"] /\ UNCHANGED <<done, sinkFile>>
  /\ UNCHANGED <<sinks, faults, book, recorded, prod, workers, shut>>

\* Multi.Close, the next sink: the file is closed, a worker is told to leave.
CloseSink ==
  /\ closer.at = "next" /\ closer.rest # <<>>
  /\ LET k == Head(closer.rest) IN
     IF k = "file" THEN sinkFile' = FALSE /\ closer' = [closer EXCEPT !.rest = Tail(@)] /\ UNCHANGED done
     ELSE done' = done \cup {k} /\ closer' = [closer EXCEPT !.at = "wait"] /\ UNCHANGED sinkFile
  /\ UNCHANGED <<sinks, faults, book, recorded, prod, workers, shut>>

\* The worker has left.
Stopped ==
  /\ closer.at = "wait" /\ worker[Head(closer.rest)].at = "gone"
  /\ closer' = [at |-> "next", rest |-> Tail(closer.rest)]
  /\ shut' = (shut \/ Head(closer.rest) = "otlp")
  /\ UNCHANGED <<sinks, faults, book, recorded, prod, workers, done, sinkFile>>

\* The close timeout is over first.
CloseTimeout ==
  /\ closer.at = "wait" /\ worker[Head(closer.rest)].at # "gone"
  /\ closer' = [at |-> "next", rest |-> Tail(closer.rest)]
  /\ shut' = (shut \/ Head(closer.rest) = "otlp")
  /\ UNCHANGED <<sinks, faults, book, recorded, prod, workers, done, sinkFile>>

\* All sinks are closed, and then the Chronicle.
FinishClose ==
  /\ closer.at = "next" /\ closer.rest = <<>>
  /\ closer' = [closer EXCEPT !.at = "closed"]
  /\ UNCHANGED <<sinks, faults, book, recorded, prod, workers, done, shut, sinkFile>>

-----------------------------------------------------------------------------
WorkersStep == WebhookWorker \/ OTLPWorker \/ Post \/ Backoff \/ Export
CloseStep == CloseSink \/ Stopped \/ FinishClose

SinkNext ==
  \/ \E p \in Producer : AppendAudit(p) \/ WebhookEmit(p) \/ OTLPEmit(p) \/ FileEmit(p)
                         \/ DropOldest(p)
  \/ WorkersStep \/ StartClose \/ CloseStep \/ CloseTimeout

\* A worker works on (every POST has a timeout) and so does Close; the close
\* timeout itself is not relied on.
SinkFairness == WF_sinkVars(WorkersStep) /\ WF_sinkVars(CloseStep)

-----------------------------------------------------------------------------
(* Properties *)

\* A collector gets the events in the order in which they were queued, an event
\* more than once only in a row (a retry), and between what it got nothing is
\* missing but what the drop counter counts or a delivery gave up.
CollectorKeepsOrder ==
  \A k \in Queued :
    LET got == received[k]
        Position(i) == CHOOSE j \in DOMAIN enq[k] : enq[k][j] = got[i].id
        Missing == {m.id : m \in missed[k]}
        Counted == {m \in missed[k] : m.why = "dropped"} IN
    /\ \A i \in 1 .. Len(got) - 1 :
         /\ Position(i) <= Position(i + 1)
         /\ \A j \in Position(i) + 1 .. Position(i + 1) - 1 : enq[k][j] \in Missing
    /\ dropped[k] = Cardinality(Counted)

\* Manager.Close returns however the collectors behave.
CloseEnds == closer.at = "next" ~> closer.at = "closed"

\* "the streamed event matches the ledger record" (manager.go:245): what a
\* collector holds is a record of the Chronicle.
StreamedMatchesLedger ==
  \A k \in Kinds : \A i \in DOMAIN received[k] : \E j \in DOMAIN book : received[k][i] = book[j]
=============================================================================
