------------------------------ MODULE Chronicle ------------------------------
(***************************************************************************)
(* The Chronicle: the append-only, hash-chained, signed ledger file of     *)
(* internal/ledger, with the processes that open it, failed writes and     *)
(* fsyncs, crashes, power loss and accidental damage to the file.          *)
(*                                                                         *)
(* SHA-256 is taken as injective: the hash of a record is the sequence of  *)
(* the contents of the records it chains back to.  A signature covers the  *)
(* stored hash, so a signed record is one whose hash was signed.           *)
(***************************************************************************)
EXTENDS Integers, Sequences

CONSTANTS
  Process,     \* control-plane processes that may open the ledger
  Session,     \* session identifiers of events
  SignModes,   \* values RUNEWARD_LEDGER_SIGN may have at a start
  Faults,      \* which faults happen: subset of {"write","sync","power","damage"}
  MaxAppends,  \* bound on appends
  MaxDamage    \* bound on accidental changes to the file

ASSUME ChronicleAssumption ==
  /\ Session # {}
  /\ SignModes \in SUBSET BOOLEAN
  /\ Faults \in SUBSET {"write", "sync", "power", "damage"}
  /\ MaxAppends \in Nat
  /\ MaxDamage \in Nat

VARIABLES
  file,     \* the lines of ledger.jsonl
  eol,      \* the file ends with a newline (or is empty)
  synced,   \* number of lines known to be on stable storage
  proc,     \* proc[p]: the Ledger of process p, or Closed
  serial,   \* appends attempted so far; the next one's payload
  answered, \* the events Append has returned without an error
  hurt,     \* the kinds of faults there have been
  damages   \* accidental changes made so far

vars == <<file, eol, synced, proc, serial, answered, hurt, damages>>

-----------------------------------------------------------------------------
(* Records *)

Content == [seq: Nat, session: Session, body: Nat]

Hash == Seq(Content)

\* A line of the file.  ok is whether it parses as one JSON object.
Line ==
  [ok: BOOLEAN, seq: Nat, session: Session, body: Nat, prev: Hash, hash: Hash,
   sig: BOOLEAN]

\* hashEvent
HashEvent(e) ==
  Append(e.prev, [seq |-> e.seq, session |-> e.session, body |-> e.body])

\* A line that does not parse.
Junk ==
  [ok |-> FALSE, seq |-> 0, session |-> CHOOSE s \in Session : TRUE, body |-> 0,
   prev |-> <<>>, hash |-> <<>>, sig |-> FALSE]

Closed == [open |-> FALSE, seq |-> 0, tip |-> <<>>, signer |-> FALSE]

Ledger == [open: BOOLEAN, seq: Nat, tip: Hash, signer: BOOLEAN]

-----------------------------------------------------------------------------
(* Reading and checking *)

\* readAll succeeds.
Readable == \A i \in DOMAIN file : file[i].ok

\* The loop of Verify over records f.
Linked(f) ==
  \A i \in DOMAIN f :
    /\ f[i].seq = i
    /\ f[i].prev = (IF i = 1 THEN <<>> ELSE f[i-1].hash)
    /\ f[i].hash = HashEvent(f[i])

\* Verify returns nil.
Verify == Readable /\ Linked(file)

\* verifyRecords with the signer's key.  Holding a key makes a signature
\* required of every record, whatever requireAll says.
VerifySignatures == Verify /\ \A i \in DOMAIN file : file[i].sig

\* The indices of the records ExportBundle selects; {} is the empty session id.
Selected(scope) == {i \in DOMAIN file : scope = {} \/ file[i].session \in scope}

\* Mutant of BundleLinks: every pair of neighbours in the bundle must link.
BundleLinksAlways(i, j, scope) == file[j].prev = file[i].hash

\* The link VerifyBundle requires between neighbours i and j of a bundle.
BundleLinks(i, j, scope) ==
  scope = {} \/ file[j].seq = file[i].seq + 1 => file[j].prev = file[i].hash

\* Mutant of VerifyBundle: hashes are not recomputed.
VerifyBundleTrusting(scope) ==
  LET S == Selected(scope) IN
  /\ \A i \in S : file[i].sig
  /\ \A i, j \in S :
       i < j /\ ~(\E k \in S : i < k /\ k < j) =>
         file[i].seq < file[j].seq /\ BundleLinks(i, j, scope)

\* VerifyBundle accepts the bundle exported for scope.
VerifyBundle(scope) ==
  LET S == Selected(scope) IN
  /\ \A i \in S : file[i].hash = HashEvent(file[i]) /\ file[i].sig
  /\ \A i, j \in S :
       i < j /\ ~(\E k \in S : i < k /\ k < j) =>
         file[i].seq < file[j].seq /\ BundleLinks(i, j, scope)

-----------------------------------------------------------------------------
(* Writing *)

\* The file after the bytes of line l, and of its newline when whole, reach it.
\* What is written behind an unfinished line becomes part of that line.
Written(l, whole) ==
  /\ file' = IF eol THEN Append(file, l) ELSE [file EXCEPT ![Len(file)] = Junk]
  /\ eol' = whole

\* The record Append builds in process p for session s.
NewRecord(p, s) ==
  LET e == [seq |-> proc[p].seq + 1, session |-> s, body |-> serial, prev |-> proc[p].tip]
  IN  [ok |-> TRUE, seq |-> e.seq, session |-> s, body |-> serial, prev |-> e.prev,
       hash |-> HashEvent(e), sig |-> proc[p].signer]

Init ==
  /\ file = <<>>
  /\ eol = TRUE
  /\ synced = 0
  /\ proc = [p \in Process |-> Closed]
  /\ serial = 1
  /\ answered = {}
  /\ hurt = {}
  /\ damages = 0

Fault(kind) == kind \in Faults /\ hurt' = hurt \cup {kind}

\* lockFile: some process has the file open.
Locked == \E q \in Process : proc[q].open

\* Open and SetSigner.
Open(p) ==
  /\ ~proc[p].open
  /\ ~Locked
  /\ Readable
  /\ \E sign \in SignModes :
       proc' = [proc EXCEPT ![p] =
         [open   |-> TRUE,
          seq    |-> IF file = <<>> THEN 0 ELSE file[Len(file)].seq,
          tip    |-> IF file = <<>> THEN <<>> ELSE file[Len(file)].hash,
          signer |-> sign]]
  /\ UNCHANGED <<file, eol, synced, serial, answered, hurt, damages>>

\* Close, or the end of the process.
Close(p) ==
  /\ proc[p].open
  /\ proc' = [proc EXCEPT ![p] = Closed]
  /\ UNCHANGED <<file, eol, synced, serial, answered, hurt, damages>>

CanAppend(p) == proc[p].open /\ serial <= MaxAppends

\* Mutant of AppendOK: the tip is not moved on.
AppendOKStaleTip(p, s) ==
  LET r == NewRecord(p, s) IN
  /\ CanAppend(p)
  /\ Written(r, TRUE)
  /\ synced' = Len(file')
  /\ proc' = [proc EXCEPT ![p].seq = r.seq]
  /\ serial' = serial + 1
  /\ answered' = answered \cup {r}
  /\ UNCHANGED <<hurt, damages>>

\* Mutant of AppendOK: the event is returned before it is synced.
AppendOKNoSync(p, s) ==
  LET r == NewRecord(p, s) IN
  /\ CanAppend(p)
  /\ Written(r, TRUE)
  /\ proc' = [proc EXCEPT ![p].seq = r.seq, ![p].tip = r.hash]
  /\ serial' = serial + 1
  /\ answered' = answered \cup {r}
  /\ UNCHANGED <<synced, hurt, damages>>

\* Append: the line is written and synced, and the tip moves.
AppendOK(p, s) ==
  LET r == NewRecord(p, s) IN
  /\ CanAppend(p)
  /\ Written(r, TRUE)
  /\ synced' = Len(file')
  /\ proc' = [proc EXCEPT ![p].seq = r.seq, ![p].tip = r.hash]
  /\ serial' = serial + 1
  /\ answered' = answered \cup {r}
  /\ UNCHANGED <<hurt, damages>>

\* Append: Write fails, having written nothing, a part of the object, or all but
\* the newline.  The tip stays.
AppendWriteFails(p, s) ==
  /\ Fault("write")
  /\ CanAppend(p)
  /\ \/ UNCHANGED <<file, eol>>
     \/ Written(Junk, FALSE)
     \/ Written(NewRecord(p, s), FALSE)
  /\ serial' = serial + 1
  /\ UNCHANGED <<synced, proc, answered, damages>>

\* Append: Sync fails after the line was written.  The tip stays.
AppendSyncFails(p, s) ==
  /\ Fault("sync")
  /\ CanAppend(p)
  /\ Written(NewRecord(p, s), TRUE)
  /\ serial' = serial + 1
  /\ UNCHANGED <<synced, proc, answered, damages>>

\* The machine stops: lines that were never synced may be lost.
PowerLoss ==
  /\ Fault("power")
  /\ \E k \in synced..Len(file) :
       /\ file' = SubSeq(file, 1, k)
       /\ eol' = IF k = Len(file) THEN eol ELSE TRUE
       /\ synced' = k
  /\ proc' = [p \in Process |-> Closed]
  /\ UNCHANGED <<serial, answered, damages>>

\* Something other than the ledger rewrites the file: a payload is edited, a line
\* is inserted again elsewhere, two lines change places or a line goes missing.
Damage ==
  /\ Fault("damage")
  /\ damages < MaxDamage
  /\ damages' = damages + 1
  /\ \/ \E i \in DOMAIN file : file' = [file EXCEPT ![i].body = 0]
     \/ \E i \in DOMAIN file, k \in 0..Len(file) :
          file' = SubSeq(file, 1, k) \o <<file[i]>> \o SubSeq(file, k + 1, Len(file))
     \/ \E i, j \in DOMAIN file :
          i < j /\ file' = [file EXCEPT ![i] = file[j], ![j] = file[i]]
     \/ \E i \in DOMAIN file :
          file' = SubSeq(file, 1, i - 1) \o SubSeq(file, i + 1, Len(file))
  /\ eol' = TRUE
  /\ synced' = Len(file')
  /\ UNCHANGED <<proc, serial, answered>>

Next ==
  \/ \E p \in Process : Open(p) \/ Close(p)
  \/ \E p \in Process, s \in Session :
       AppendOK(p, s) \/ AppendWriteFails(p, s) \/ AppendSyncFails(p, s)
  \/ PowerLoss
  \/ Damage

Spec == Init /\ [][Next]_vars

-----------------------------------------------------------------------------
(* Properties *)

\* Type invariant of the file and of the ledgers that have it open.
TypeOK ==
  /\ file \in Seq(Line)
  /\ eol \in BOOLEAN
  /\ file = <<>> => eol
  /\ synced \in 0..Len(file)
  /\ proc \in [Process -> Ledger]
  /\ serial \in Nat
  /\ answered \in SUBSET Line
  /\ hurt \in SUBSET Faults
  /\ damages \in Nat

\* While no write or sync fails and nothing else touches the file, the chain
\* verifies at every moment, whichever processes start, stop and compete for the
\* file, and whenever the machine stops (Open, lockFile, Append).
ChainVerifies == hurt \subseteq {"power"} => Verify

\* The open ledger's memory is the end of the file: what Append chains to.
TipIsEnd ==
  \A p \in Process : proc[p].open =>
    /\ proc[p].seq = Len(file)
    /\ proc[p].tip = (IF file = <<>> THEN <<>> ELSE file[Len(file)].hash)

\* The inductive invariant behind ChainVerifies: one process has the file open,
\* its memory is the end of the file, and the file is synced to its last newline.
ChainInv ==
  hurt \subseteq {"power"} =>
    /\ Verify
    /\ eol
    /\ synced = Len(file)
    /\ TipIsEnd
    /\ \A p, q \in Process : proc[p].open /\ proc[q].open => p = q

\* A bundle exported from a ledger whose signatures verify is accepted by
\* VerifyBundle, for the whole ledger and for each session with its gaps.
BundleRoundTrip ==
  VerifySignatures =>
    /\ VerifyBundle({})
    /\ \A s \in Session : VerifyBundle({s})

Stored == \A e \in answered : \E i \in DOMAIN file : file[i] = e

\* Append "returns the stored event": unless a write failed or something else
\* touched the file, an event it returned is a line of the file, and stays one
\* over failed syncs, crashes and power loss.
AnsweredIsStored == hurt \subseteq {"sync", "power"} => Stored

\* If Verify passes, no event that Append returned is missing from the file: a
\* failed write or sync may break the ledger but never hides an event.
VerifyMeansComplete == "damage" \notin hurt /\ Verify => Stored

\* What a check accepts was appended.  If Verify passes, the lines are events that
\* Append returned, in the order it returned them: an edited, inserted or moved
\* line is caught (package comment of ledger.go).  If VerifyBundle accepts a
\* session's bundle, its events are ones that Append returned.
AcceptedIsAppended ==
  hurt \subseteq {"damage", "power"} =>
    /\ Verify =>
         /\ \A i \in DOMAIN file : file[i] \in answered
         /\ \A i, j \in DOMAIN file : i < j => file[i].body < file[j].body
    /\ \A s \in Session : VerifyBundle({s}) =>
         \A i \in Selected({s}) : file[i] \in answered

\* The same, and after a single accident an accepted bundle of a session has each
\* event at most once and in the order of the appends (VerifyBundle).
AcceptedIsGenuine ==
  /\ AcceptedIsAppended
  /\ hurt \subseteq {"damage", "power"} /\ damages <= 1 =>
       \A s \in Session : VerifyBundle({s}) =>
         \A i, j \in Selected({s}) : i < j => file[i].body < file[j].body

-----------------------------------------------------------------------------
(* A statement of the code's comments that it does not keep *)

\* "Append writes ev as one JSON line with chain fields set, fsyncs, and returns
\* the stored event."
ReturnedIsStored == Stored
=============================================================================
