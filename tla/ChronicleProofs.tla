--------------------------- MODULE ChronicleProofs ---------------------------
(***************************************************************************)
(* Proofs about Chronicle, for every set of processes and sessions and any *)
(* number of appends.                                                      *)
(***************************************************************************)
EXTENDS Chronicle, SequenceTheorems, WellFoundedInduction, TLAPS

\* The hash of a record chained to a hash is a hash.
LEMMA HashType ==
  ASSUME NEW e, e.prev \in Hash, e.seq \in Nat, e.session \in Session, e.body \in Nat
  PROVE  HashEvent(e) \in Hash
BY DEF HashEvent, Hash, Content

\* What Append builds is a line, chained to the ledger's tip.
LEMMA NewRecordType ==
  ASSUME TypeOK, NEW p \in Process, NEW s \in Session
  PROVE  /\ NewRecord(p, s) \in Line
         /\ NewRecord(p, s).ok
         /\ NewRecord(p, s).seq = proc[p].seq + 1
         /\ NewRecord(p, s).prev = proc[p].tip
         /\ NewRecord(p, s).hash = HashEvent(NewRecord(p, s))
<1> DEFINE e == [seq |-> proc[p].seq + 1, session |-> s, body |-> serial,
                 prev |-> proc[p].tip]
           h == HashEvent(e)
           r == [ok |-> TRUE, seq |-> e.seq, session |-> s, body |-> serial,
                 prev |-> e.prev, hash |-> h, sig |-> proc[p].signer]
<1>1. NewRecord(p, s) = r
  BY DEF NewRecord
<1>2. /\ proc[p].seq + 1 \in Nat /\ proc[p].tip \in Hash /\ proc[p].signer \in BOOLEAN
      /\ serial \in Nat
  BY DEF TypeOK, Ledger
<1>3. h \in Hash
  BY <1>2, HashType
<1>4. HashEvent(r) = h
  BY DEF HashEvent
<1> HIDE DEF h
<1>5. r \in Line
  BY <1>2, <1>3 DEF Line
<1> QED
  BY <1>1, <1>4, <1>5

\* A line that does not parse is a line; a closed ledger is a ledger.
LEMMA JunkType == Junk \in Line /\ Closed \in Ledger
<1>1. <<>> \in Hash
  BY DEF Hash
<1>2. (CHOOSE s \in Session : TRUE) \in Session
  BY ChronicleAssumption
<1> QED
  BY <1>1, <1>2 DEF Junk, Line, Closed, Ledger

\* Writing a line keeps the file a sequence of lines and shortens nothing.
LEMMA WrittenType ==
  ASSUME TypeOK, NEW l \in Line, NEW whole \in BOOLEAN, Written(l, whole)
  PROVE  /\ file' \in Seq(Line)
         /\ eol' \in BOOLEAN
         /\ Len(file) <= Len(file')
         /\ eol => file' = Append(file, l)
<1>1. CASE eol
  BY <1>1 DEF Written, TypeOK
<1>2. CASE ~eol
  <2>1. file' = [file EXCEPT ![Len(file)] = Junk]
    BY <1>2 DEF Written
  <2>2. file' \in Seq(Line) /\ Len(file') = Len(file)
    <3>1. file \in Seq(Line) /\ Len(file) \in 1..Len(file) /\ Junk \in Line
      BY <1>2, JunkType, EmptySeq, LenProperties DEF TypeOK
    <3> QED
      BY <2>1, <3>1, ExceptSeq
  <2>3. eol' \in BOOLEAN
    BY DEF Written
  <2>4. Len(file) \in Nat
    BY LenProperties DEF TypeOK
  <2> QED
    BY <1>2, <2>2, <2>3, <2>4
<1> QED
  BY <1>1, <1>2

\* An append in process p that ends with tip and sequence number of record r.
LEMMA MovedType ==
  ASSUME TypeOK, NEW p \in Process, NEW r \in Line,
         proc' = [proc EXCEPT ![p].seq = r.seq, ![p].tip = r.hash]
  PROVE  proc' \in [Process -> Ledger]
BY ZenonT(60) DEF TypeOK, Ledger, Line

\* An accident to a file of lines of S leaves lines of S, if editing a payload does.
LEMMA DamagedFile ==
  ASSUME NEW S, file \in Seq(S), \A l \in S : [l EXCEPT !.body = 0] \in S, Damage
  PROVE  file' \in Seq(S)
<1>0. /\ Len(file) \in Nat
      /\ \A i \in DOMAIN file : i \in 1..Len(file) /\ file[i] \in S
  BY LenProperties, ElementOfSeq
<1>1. ASSUME NEW i \in DOMAIN file, file' = [file EXCEPT ![i].body = 0]
      PROVE  file' \in Seq(S)
  <2>1. [file[i] EXCEPT !.body = 0] \in S
    BY <1>0
  <2>2. i \in 1..Len(file) /\ file' = [file EXCEPT ![i] = [file[i] EXCEPT !.body = 0]]
    BY <1>0, <1>1
  <2> QED
    BY <2>1, <2>2, ExceptSeq
<1>2. ASSUME NEW i \in DOMAIN file, NEW k \in 0..Len(file),
             file' = SubSeq(file, 1, k) \o <<file[i]>> \o SubSeq(file, k + 1, Len(file))
      PROVE  file' \in Seq(S)
  <2>1. SubSeq(file, 1, k) \in Seq(S)
    BY <1>0
  <2>2. SubSeq(file, k + 1, Len(file)) \in Seq(S)
    BY <1>0
  <2>3. <<file[i]>> \in Seq(S)
    BY <1>0
  <2>4. SubSeq(file, 1, k) \o <<file[i]>> \in Seq(S)
    BY <2>1, <2>3, ConcatProperties
  <2> QED
    BY <1>2, <2>2, <2>4, ConcatProperties
<1>3. ASSUME NEW i \in DOMAIN file, NEW j \in DOMAIN file,
             file' = [file EXCEPT ![i] = file[j], ![j] = file[i]]
      PROVE  file' \in Seq(S)
  <2>1. [file EXCEPT ![i] = file[j]] \in Seq(S)
        /\ Len([file EXCEPT ![i] = file[j]]) = Len(file)
    BY <1>0, ExceptSeq
  <2>2. file' = [[file EXCEPT ![i] = file[j]] EXCEPT ![j] = file[i]]
    BY <1>3
  <2> QED
    BY <1>0, <2>1, <2>2, ExceptSeq
<1>4. ASSUME NEW i \in DOMAIN file,
             file' = SubSeq(file, 1, i - 1) \o SubSeq(file, i + 1, Len(file))
      PROVE  file' \in Seq(S)
  <2>0. i \in 1..Len(file)
    BY <1>0
  <2>1. SubSeq(file, 1, i - 1) \in Seq(S)
    BY <1>0, <2>0
  <2>2. SubSeq(file, i + 1, Len(file)) \in Seq(S)
    BY <1>0, <2>0
  <2> QED
    BY <1>4, <2>1, <2>2, ConcatProperties
<1> QED
  BY <1>1, <1>2, <1>3, <1>4, Zenon DEF Damage

\* Every step keeps the types.
LEMMA TypeStep == TypeOK /\ [Next]_vars => TypeOK'
<1> SUFFICES ASSUME TypeOK, [Next]_vars PROVE TypeOK'
  OBVIOUS
<1> USE DEF vars
<1>0. /\ Len(file) \in Nat
      /\ \A i \in DOMAIN file : i \in 1..Len(file) /\ file[i] \in Line
  BY LenProperties, ElementOfSeq DEF TypeOK
<1>1. ASSUME NEW p \in Process, Open(p) PROVE TypeOK'
  <2>1. PICK sign \in SignModes :
          proc' = [proc EXCEPT ![p] =
            [open   |-> TRUE,
             seq    |-> IF file = <<>> THEN 0 ELSE file[Len(file)].seq,
             tip    |-> IF file = <<>> THEN <<>> ELSE file[Len(file)].hash,
             signer |-> sign]]
    BY <1>1, Zenon DEF Open
  <2>2. sign \in BOOLEAN
    BY ChronicleAssumption
  <2>3. file # <<>> => file[Len(file)] \in Line
    BY EmptySeq, LenProperties, ElementOfSeq DEF TypeOK
  <2>4. (IF file = <<>> THEN 0 ELSE file[Len(file)].seq) \in Nat
    BY <2>3 DEF Line
  <2>5. (IF file = <<>> THEN <<>> ELSE file[Len(file)].hash) \in Hash
    <3>1. <<>> \in Hash
      BY DEF Hash
    <3> QED
      BY <2>3, <3>1 DEF Line
  <2>6. proc' \in [Process -> Ledger]
    BY <2>1, <2>2, <2>4, <2>5 DEF TypeOK, Ledger
  <2> QED
    BY <1>1, <2>6 DEF Open, TypeOK
<1>2. ASSUME NEW p \in Process, Close(p) PROVE TypeOK'
  BY <1>2, JunkType DEF Close, TypeOK
<1>3. ASSUME NEW p \in Process, NEW s \in Session, AppendOK(p, s) PROVE TypeOK'
  <2>1. NewRecord(p, s) \in Line /\ Written(NewRecord(p, s), TRUE)
    BY <1>3, NewRecordType, Zenon DEF AppendOK
  <2>2. file' \in Seq(Line) /\ eol' \in BOOLEAN /\ eol' = TRUE
    BY <2>1, WrittenType, ZenonT(60) DEF Written
  <2>3. Len(file') \in Nat
    BY <2>2, LenProperties
  <2>4. proc' \in [Process -> Ledger]
    BY <1>3, <2>1, MovedType, Zenon DEF AppendOK
  <2> QED
    BY <1>3, <2>1, <2>2, <2>3, <2>4 DEF AppendOK, TypeOK
<1>4. ASSUME NEW p \in Process, NEW s \in Session, AppendWriteFails(p, s) PROVE TypeOK'
  <2>1. NewRecord(p, s) \in Line /\ Junk \in Line
    BY NewRecordType, JunkType
  <2>2. /\ file' \in Seq(Line) /\ eol' \in BOOLEAN
        /\ Len(file) <= Len(file')
        /\ file' = <<>> => eol'
    <3>1. CASE UNCHANGED <<file, eol>>
      BY <3>1, <1>0 DEF TypeOK
    <3>2. ASSUME NEW l \in Line, Written(l, FALSE)
          PROVE  /\ file' \in Seq(Line) /\ eol' \in BOOLEAN
                 /\ Len(file) <= Len(file')
                 /\ file' = <<>> => eol'
      <4>1. /\ file' \in Seq(Line) /\ eol' \in BOOLEAN /\ Len(file) <= Len(file')
            /\ eol => file' = Append(file, l)
        BY <3>2, WrittenType, Zenon
      <4>2. file' # <<>>
        <5>1. CASE eol
          BY <4>1, <5>1, AppendProperties, EmptySeq DEF TypeOK
        <5>2. CASE ~eol
          BY <4>1, <5>2, <1>0, EmptySeq, LenProperties DEF TypeOK
        <5> QED
          BY <5>1, <5>2
      <4> QED
        BY <4>1, <4>2
    <3> QED
      BY <1>4, <2>1, <3>1, <3>2, Zenon DEF AppendWriteFails
  <2>3. Len(file') \in Nat
    BY <2>2, LenProperties
  <2> QED
    BY <1>0, <1>4, <2>2, <2>3 DEF AppendWriteFails, Fault, TypeOK
<1>5. ASSUME NEW p \in Process, NEW s \in Session, AppendSyncFails(p, s) PROVE TypeOK'
  <2>1. NewRecord(p, s) \in Line /\ Written(NewRecord(p, s), TRUE)
    BY <1>5, NewRecordType, Zenon DEF AppendSyncFails
  <2>2. file' \in Seq(Line) /\ eol' = TRUE /\ Len(file) <= Len(file')
    BY <2>1, WrittenType, Zenon DEF Written
  <2>3. Len(file') \in Nat
    BY <2>2, LenProperties
  <2> QED
    BY <1>0, <1>5, <2>2, <2>3 DEF AppendSyncFails, Fault, TypeOK
<1>6. ASSUME PowerLoss PROVE TypeOK'
  <2>1. PICK k \in synced..Len(file) :
          /\ file' = SubSeq(file, 1, k)
          /\ eol' = IF k = Len(file) THEN eol ELSE TRUE
          /\ synced' = k
    BY <1>6, Zenon DEF PowerLoss
  <2>2. k \in Nat /\ k <= Len(file)
    BY <1>0 DEF TypeOK
  <2>3. file' \in Seq(Line) /\ Len(file') = k
    BY <2>1, <2>2, <1>0, SubSeqProperties DEF TypeOK
  <2>4. file' = <<>> => eol'
    BY <2>1, <2>3, EmptySeq, LenProperties DEF TypeOK
  <2>5. eol' \in BOOLEAN
    BY <2>1, Zenon DEF TypeOK
  <2>6. synced' \in 0..Len(file')
    BY <2>1, <2>2, <2>3
  <2>7. proc' \in [Process -> Ledger]
    BY <1>6, JunkType DEF PowerLoss
  <2>8. UNCHANGED <<serial, answered, damages>> /\ hurt' \in SUBSET Faults
    BY <1>6 DEF PowerLoss, Fault, TypeOK
  <2> QED
    BY <2>3, <2>4, <2>5, <2>6, <2>7, <2>8 DEF TypeOK
<1>7. ASSUME Damage PROVE TypeOK'
  <2>0. \A l \in Line : [l EXCEPT !.body = 0] \in Line
    BY DEF Line
  <2>1. file' \in Seq(Line)
    BY <1>7, <2>0, DamagedFile DEF TypeOK
  <2>2. Len(file') \in Nat
    BY <2>1, LenProperties
  <2> QED
    BY <1>7, <2>1, <2>2, SMTT(60) DEF Damage, Fault, TypeOK
<1>8. CASE UNCHANGED vars
  BY <1>8 DEF TypeOK
<1> QED
  BY <1>1, <1>2, <1>3, <1>4, <1>5, <1>6, <1>7, <1>8 DEF Next

\* The initial state has the types.
LEMMA TypeInit == Init => TypeOK
<1>1. <<>> \in Seq(Line) /\ Len(<<>>) = 0
  OBVIOUS
<1> QED
  BY <1>1, JunkType DEF Init, TypeOK

\* Whatever faults happen, the file is a sequence of lines, synced no further
\* than its end, and every Ledger is well formed.
THEOREM ChronicleTypeCorrect == Spec => []TypeOK
BY TypeInit, TypeStep, PTL DEF Spec

\* While at most the power fails, every step keeps the chain whole and the open
\* ledger at its end.
LEMMA ChainStep ==
  ASSUME TypeOK, ChainInv, [Next]_vars
  PROVE  ChainInv'
<1> SUFFICES ASSUME hurt' \subseteq {"power"} PROVE ChainInv'
  BY SMTT(60) DEF ChainInv
<1> USE DEF vars
<1>a. hurt \subseteq {"power"}
  BY Zenon DEF Next, Open, Close, AppendOK, AppendWriteFails, AppendSyncFails, PowerLoss,
     Damage, Fault
<1>b. /\ Verify /\ eol /\ synced = Len(file) /\ TipIsEnd
      /\ \A p, q \in Process : proc[p].open /\ proc[q].open => p = q
  BY <1>a DEF ChainInv
<1>0. /\ Len(file) \in Nat
      /\ DOMAIN file = 1..Len(file)
      /\ file # <<>> => Len(file) \in 1..Len(file)
  BY LenProperties, EmptySeq DEF TypeOK
<1>1. ASSUME NEW p \in Process, Open(p) PROVE ChainInv'
  <2>1. PICK sign \in SignModes :
          proc' = [proc EXCEPT ![p] =
            [open   |-> TRUE,
             seq    |-> IF file = <<>> THEN 0 ELSE file[Len(file)].seq,
             tip    |-> IF file = <<>> THEN <<>> ELSE file[Len(file)].hash,
             signer |-> sign]]
    BY <1>1, Zenon DEF Open
  <2>2. file' = file /\ eol' = eol /\ synced' = synced /\ \A q \in Process : ~proc[q].open
    BY <1>1 DEF Open, Locked
  <2>3. proc \in [Process -> Ledger]
    BY DEF TypeOK
  <2>4. \A q \in Process : q # p => ~proc'[q].open
    BY <2>1, <2>2, <2>3
  <2>5. file # <<>> => file[Len(file)].seq = Len(file)
    BY <1>0, <1>b DEF Verify, Linked
  <2>6. file = <<>> => Len(file) = 0
    BY EmptySeq
  <2>7. /\ proc'[p].seq = Len(file)
        /\ proc'[p].tip = (IF file = <<>> THEN <<>> ELSE file[Len(file)].hash)
    BY <2>1, <2>3, <2>5, <2>6
  <2>8. TipIsEnd'
    BY <2>2, <2>4, <2>7 DEF TipIsEnd
  <2>9. Verify'
    BY <1>b, <2>2 DEF Verify, Readable, Linked
  <2> QED
    BY <1>b, <2>2, <2>4, <2>8, <2>9 DEF ChainInv
<1>2. ASSUME NEW p \in Process, Close(p) PROVE ChainInv'
  <2>1. file' = file /\ eol' = eol /\ synced' = synced /\ proc' = [proc EXCEPT ![p] = Closed]
    BY <1>2 DEF Close
  <2>2. \A q \in Process : proc'[q].open => proc'[q] = proc[q] /\ proc[q].open
    BY <2>1 DEF TypeOK, Closed
  <2>3. TipIsEnd'
    BY <1>b, <2>1, <2>2 DEF TipIsEnd
  <2>4. Verify'
    BY <1>b, <2>1 DEF Verify, Readable, Linked
  <2> QED
    BY <1>b, <2>1, <2>2, <2>3, <2>4 DEF ChainInv
<1>3. ASSUME NEW p \in Process, NEW s \in Session, AppendOK(p, s) PROVE ChainInv'
  <2> DEFINE r == NewRecord(p, s)
             n == Len(file) + 1
  <2>1. /\ r \in Line /\ r.ok
        /\ r.seq = proc[p].seq + 1 /\ r.prev = proc[p].tip
        /\ r.hash = HashEvent(r)
    BY NewRecordType
  <2>2. /\ proc[p].open /\ Written(r, TRUE) /\ synced' = Len(file')
        /\ proc' = [proc EXCEPT ![p].seq = r.seq, ![p].tip = r.hash]
    BY <1>3, Zenon DEF AppendOK, CanAppend
  <2> HIDE DEF r
  <2>3. file' = Append(file, r) /\ eol'
    BY <1>b, <2>2 DEF Written
  <2>4. /\ DOMAIN file' = 1..n /\ Len(file') = n /\ file' # <<>>
        /\ file'[n] = r
        /\ \A i \in 1..Len(file) : file'[i] = file[i]
    <3>1. file \in Seq(Line)
      BY DEF TypeOK
    <3>2. /\ file' \in Seq(Line) /\ file' # <<>> /\ Len(file') = n
          /\ file'[n] = r
          /\ \A i \in 1..Len(file) : file'[i] = file[i]
      BY <2>1, <2>3, <3>1, AppendProperties
    <3> QED
      BY <3>2, LenProperties
  <2>5. r.seq = n /\ r.prev = (IF n = 1 THEN <<>> ELSE file[n-1].hash)
    <3>1. /\ proc[p].seq = Len(file)
          /\ proc[p].tip = (IF file = <<>> THEN <<>> ELSE file[Len(file)].hash)
      BY <1>b, <2>2 DEF TipIsEnd
    <3>2. file = <<>> <=> n = 1
      BY <1>0, EmptySeq
    <3> QED
      BY <2>1, <3>1, <3>2, <1>0
  <2>6. Verify'
    <3>1. ASSUME NEW i \in 1..n
          PROVE  /\ file'[i].ok
                 /\ file'[i].seq = i
                 /\ file'[i].prev = (IF i = 1 THEN <<>> ELSE file'[i-1].hash)
                 /\ file'[i].hash = HashEvent(file'[i])
      <4>1. CASE i = n
        <5>1. i # 1 => i - 1 \in 1..Len(file)
          BY <4>1, <1>0
        <5> QED
          BY <4>1, <5>1, <2>1, <2>4, <2>5
      <4>2. CASE i # n
        <5>1. i \in 1..Len(file) /\ (i # 1 => i - 1 \in 1..Len(file))
          BY <4>2, <1>0
        <5> QED
          BY <5>1, <2>4, <1>0, <1>b DEF Verify, Readable, Linked
      <4> QED
        BY <4>1, <4>2
    <3> QED
      BY <2>4, <3>1, Zenon DEF Verify, Readable, Linked, HashEvent
  <2>7. \A q \in Process : proc'[q].open = proc[q].open
    BY <2>2 DEF TypeOK, Ledger
  <2>8. proc'[p].seq = n /\ proc'[p].tip = r.hash
    BY <2>2, <2>5 DEF TypeOK, Ledger
  <2>9. \A q \in Process : proc'[q].open => q = p
    BY <1>b, <2>2, <2>7
  <2>10. TipIsEnd'
    BY <2>4, <2>8, <2>9 DEF TipIsEnd
  <2> QED
    BY <2>2, <2>3, <2>6, <2>9, <2>10, Zenon DEF ChainInv
<1>4. ASSUME PowerLoss PROVE ChainInv'
  <2>1. PICK k \in synced..Len(file) :
          /\ file' = SubSeq(file, 1, k)
          /\ eol' = IF k = Len(file) THEN eol ELSE TRUE
          /\ synced' = k
    BY <1>4, Zenon DEF PowerLoss
  <2>2. k = Len(file)
    BY <1>0, <1>b
  <2>3. file' = file
    BY <2>1, <2>2, SubSeqFull DEF TypeOK
  <2>4. \A p \in Process : ~proc'[p].open
    BY <1>4 DEF PowerLoss, Closed
  <2>5. Verify'
    BY <1>b, <2>3 DEF Verify, Readable, Linked
  <2> QED
    BY <1>b, <2>1, <2>2, <2>3, <2>4, <2>5 DEF ChainInv, TipIsEnd
<1>5. CASE UNCHANGED vars
  <2>1. Verify' /\ TipIsEnd'
    BY <1>5, <1>b DEF Verify, Readable, Linked, TipIsEnd
  <2> QED
    BY <1>5, <1>b, <2>1 DEF ChainInv
<1>6. ~Damage /\ \A p \in Process, s \in Session : ~AppendWriteFails(p, s) /\ ~AppendSyncFails(p, s)
  <2>1. ~Fault("damage") /\ ~Fault("write") /\ ~Fault("sync")
    BY DEF Fault
  <2> QED
    BY <2>1, Zenon DEF Damage, AppendWriteFails, AppendSyncFails
<1> QED
  BY <1>1, <1>2, <1>3, <1>4, <1>5, <1>6 DEF Next

\* As long as no write or sync has failed and nothing else has touched the file,
\* one process at most has the ledger open, what it remembers is the end of the file, and
\* Verify accepts the file: for any number of processes, restarts and events.
THEOREM ChainAlwaysVerifies == Spec => [](ChainInv /\ ChainVerifies)
<1>1. Init => ChainInv
  <2> SUFFICES ASSUME Init PROVE ChainInv
    OBVIOUS
  <2>1. DOMAIN file = {} /\ Len(file) = 0 /\ \A p \in Process : ~proc[p].open
    BY DEF Init, Closed
  <2> QED
    BY <2>1 DEF Init, ChainInv, Verify, Readable, Linked, TipIsEnd
<1>2. ChainInv => ChainVerifies
  BY DEF ChainInv, ChainVerifies
<1>3. TypeOK /\ ChainInv /\ [Next]_vars => ChainInv'
  BY ChainStep
<1> QED
  BY <1>1, <1>2, <1>3, ChronicleTypeCorrect, PTL DEF Spec

\* What Append has returned is among the synced lines, and the file is never
\* left with an unfinished line, unless a write failed or there was damage.
AnsweredSynced ==
  hurt \subseteq {"sync", "power"} =>
    /\ eol
    /\ \A e \in answered : \E i \in 1..synced : file[i] = e

\* A failed sync, a crash or a power loss keeps every answered event synced.
LEMMA SyncedStep ==
  ASSUME TypeOK, AnsweredSynced, [Next]_vars
  PROVE  AnsweredSynced'
<1> SUFFICES ASSUME hurt' \subseteq {"sync", "power"} PROVE AnsweredSynced'
  BY DEF AnsweredSynced
<1> USE DEF vars
<1>a. hurt \subseteq {"sync", "power"}
  BY Zenon DEF Next, Open, Close, AppendOK, AppendWriteFails, AppendSyncFails, PowerLoss,
     Damage, Fault
<1>b. eol /\ \A e \in answered : \E i \in 1..synced : file[i] = e
  BY <1>a DEF AnsweredSynced
<1>0. /\ Len(file) \in Nat /\ synced \in 0..Len(file) /\ file \in Seq(Line)
  BY LenProperties DEF TypeOK
<1>1. ASSUME NEW p \in Process, Open(p) \/ Close(p) PROVE AnsweredSynced'
  BY <1>1, <1>b, Zenon DEF Open, Close, AnsweredSynced
<1>2. ASSUME NEW p \in Process, NEW s \in Session, AppendOK(p, s) \/ AppendSyncFails(p, s)
      PROVE  AnsweredSynced'
  <2> DEFINE r == NewRecord(p, s)
  <2>1. r \in Line /\ Written(r, TRUE)
    BY <1>2, NewRecordType, Zenon DEF AppendOK, AppendSyncFails
  <2>2. file' = Append(file, r) /\ eol'
    BY <1>b, <2>1 DEF Written
  <2>3. \/ answered' = answered \cup {r} /\ synced' = Len(file')
        \/ answered' = answered /\ synced' = synced
    BY <1>2, Zenon DEF AppendOK, AppendSyncFails
  <2> HIDE DEF r
  <2>4. /\ Len(file') = Len(file) + 1
        /\ file'[Len(file) + 1] = r
        /\ \A i \in 1..Len(file) : file'[i] = file[i]
    BY <1>0, <2>1, <2>2, AppendProperties
  <2>5. \A i \in 1..synced : i \in 1..synced' /\ file'[i] = file[i]
    BY <1>0, <2>3, <2>4
  <2>6. \A e \in answered : \E i \in 1..synced' : file'[i] = e
    BY <1>b, <2>5
  <2>7. r \in answered' => r \in answered \/ Len(file) + 1 \in 1..synced'
    BY <1>0, <2>3, <2>4
  <2>8. \A e \in answered' : \E i \in 1..synced' : file'[i] = e
    BY <2>3, <2>4, <2>6, <2>7
  <2> QED
    BY <2>2, <2>8, Zenon DEF AnsweredSynced
<1>3. ASSUME PowerLoss PROVE AnsweredSynced'
  <2>1. PICK k \in synced..Len(file) :
          /\ file' = SubSeq(file, 1, k)
          /\ eol' = IF k = Len(file) THEN eol ELSE TRUE
          /\ synced' = k
    BY <1>3, Zenon DEF PowerLoss
  <2>2. k \in Nat /\ k <= Len(file)
    BY <1>0
  <2>3. \A i \in 1..k : file'[i] = file[i]
    BY <1>0, <2>1, <2>2
  <2>4. \A i \in 1..synced : i \in 1..k
    BY <1>0, <2>2
  <2>5. answered' = answered
    BY <1>3 DEF PowerLoss
  <2> QED
    BY <1>b, <2>1, <2>3, <2>4, <2>5 DEF AnsweredSynced
<1>4. ~Damage /\ \A p \in Process, s \in Session : ~AppendWriteFails(p, s)
  <2>1. ~Fault("damage") /\ ~Fault("write")
    BY DEF Fault
  <2> QED
    BY <2>1, Zenon DEF Damage, AppendWriteFails
<1>5. CASE UNCHANGED vars
  BY <1>5 DEF AnsweredSynced
<1> QED
  BY <1>1, <1>2, <1>3, <1>4, <1>5 DEF Next

\* As long as no Write has failed and there was no damage, an event that Append returned stays a
\* line of the file over failed syncs, restarts and power loss.
THEOREM AnsweredStaysStored == Spec => []AnsweredIsStored
<1>1. Init => AnsweredSynced
  BY DEF Init, AnsweredSynced
<1>2. TypeOK /\ AnsweredSynced => AnsweredIsStored
  <2> SUFFICES ASSUME TypeOK, AnsweredSynced, hurt \subseteq {"sync", "power"}, NEW e \in answered
               PROVE  \E i \in DOMAIN file : file[i] = e
    BY DEF AnsweredIsStored, Stored
  <2>1. PICK i \in 1..synced : file[i] = e
    BY DEF AnsweredSynced
  <2>2. i \in DOMAIN file
    BY LenProperties DEF TypeOK
  <2> QED
    BY <2>1, <2>2
<1>3. TypeOK /\ AnsweredSynced /\ [Next]_vars => AnsweredSynced'
  BY SyncedStep
<1> QED
  BY <1>1, <1>2, <1>3, ChronicleTypeCorrect, PTL DEF Spec

\* A line that does not parse is on stable storage.
SyncedJunk == \E i \in 1..synced : ~file[i].ok

\* Without damage to the file, either a broken line has been synced, and then it
\* stays, or every event Append has returned is a finished, synced line.
CompleteInv ==
  "damage" \notin hurt =>
    \/ SyncedJunk
    \/ \A e \in answered : \E i \in 1..synced : file[i] = e /\ (eol \/ i < Len(file))

\* A synced line that does not parse is never overwritten by a well-formed one:
\* later writes only append, or break the last line further.
LEMMA JunkStays ==
  ASSUME TypeOK, SyncedJunk, synced' \in Nat, synced <= synced',
         \A i \in 1..synced : file'[i] = file[i] \/ file'[i] = Junk
  PROVE  SyncedJunk'
<1>1. PICK i \in 1..synced : ~file[i].ok
  BY DEF SyncedJunk
<1>2. i \in 1..synced'
  BY DEF TypeOK
<1>3. ~Junk.ok
  BY DEF Junk
<1> QED
  BY <1>1, <1>2, <1>3 DEF SyncedJunk

\* What a write does to the lines already there: behind a newline they all stay,
\* behind an unfinished line that line becomes junk.
LEMMA WrittenLines ==
  ASSUME TypeOK, NEW l \in Line, NEW whole \in BOOLEAN, Written(l, whole)
  PROVE  /\ Len(file) \in Nat /\ Len(file') \in Nat /\ Len(file) <= Len(file')
         /\ \A i \in 1..Len(file) : file'[i] = file[i] \/ file'[i] = Junk
         /\ eol => /\ Len(file') = Len(file) + 1
                   /\ file'[Len(file) + 1] = l
                   /\ \A i \in 1..Len(file) : file'[i] = file[i]
         /\ ~eol => /\ Len(file') = Len(file)
                    /\ Len(file) >= 1
                    /\ file'[Len(file)] = Junk
                    /\ \A i \in 1..Len(file) : i < Len(file) => file'[i] = file[i]
<1>0. Len(file) \in Nat /\ file \in Seq(Line)
  BY LenProperties DEF TypeOK
<1>1. CASE eol
  <2>1. file' = Append(file, l)
    BY <1>1 DEF Written
  <2>2. /\ Len(file') = Len(file) + 1
        /\ file'[Len(file) + 1] = l
        /\ \A i \in 1..Len(file) : file'[i] = file[i]
    BY <1>0, <2>1, AppendProperties
  <2> QED
    BY <1>0, <1>1, <2>2
<1>2. CASE ~eol
  <2>1. file' = [file EXCEPT ![Len(file)] = Junk]
    BY <1>2 DEF Written
  <2>2. Len(file) \in 1..Len(file) /\ Junk \in Line
    BY <1>0, <1>2, JunkType, EmptySeq, LenProperties DEF TypeOK
  <2>3. file' \in Seq(Line) /\ Len(file') = Len(file)
    BY <1>0, <2>1, <2>2, ExceptSeq
  <2>4. DOMAIN file = 1..Len(file)
    BY <1>0, LenProperties
  <2>5. /\ file'[Len(file)] = Junk
        /\ \A i \in 1..Len(file) : i # Len(file) => file'[i] = file[i]
    BY <2>1, <2>2, <2>4
  <2> QED
    BY <1>0, <1>2, <2>2, <2>3, <2>5
<1> QED
  BY <1>1, <1>2

\* A write keeps the answered events where they are, or leaves junk where no
\* finished line was; a write that is synced behind an unfinished line syncs junk.
LEMMA CompleteWrite ==
  ASSUME TypeOK, "damage" \notin hurt, CompleteInv,
         NEW l \in Line, NEW whole \in BOOLEAN, Written(l, whole),
         \/ answered' = answered /\ synced' = synced
         \/ answered' = answered \cup {l} /\ synced' = Len(file') /\ whole
  PROVE  CompleteInv'
<1>0. synced \in Nat /\ synced <= Len(file)
  BY LenProperties DEF TypeOK
<1>1. synced' \in Nat /\ synced <= synced' /\ synced' <= Len(file')
  BY <1>0, WrittenLines
<1>2. CASE SyncedJunk
  <2>1. \A i \in 1..synced : file'[i] = file[i] \/ file'[i] = Junk
    BY <1>0, WrittenLines
  <2>2. SyncedJunk'
    BY <1>1, <1>2, <2>1, JunkStays
  <2> QED
    BY <2>2 DEF CompleteInv
<1>3. ASSUME \A e \in answered : \E i \in 1..synced : file[i] = e /\ (eol \/ i < Len(file))
      PROVE  CompleteInv'
  <2>1. ASSUME NEW e \in answered
        PROVE  \E i \in 1..synced' : file'[i] = e /\ (eol' \/ i < Len(file'))
    <3>1. PICK i \in 1..synced : file[i] = e /\ (eol \/ i < Len(file))
      BY <1>3
    <3>2. file'[i] = e
      BY <1>0, <3>1, WrittenLines
    <3>3. i < Len(file')
      BY <1>0, <3>1, WrittenLines
    <3> QED
      BY <1>0, <1>1, <3>2, <3>3
  <2>2. CASE answered' = answered
    BY <2>1, <2>2 DEF CompleteInv
  <2>3. CASE answered' = answered \cup {l} /\ synced' = Len(file') /\ whole
    <3>1. CASE eol
      <4>0. /\ Len(file) \in Nat /\ Len(file') = Len(file) + 1
            /\ file'[Len(file) + 1] = l
        BY <3>1, WrittenLines
      <4>1. Len(file) + 1 \in 1..synced' /\ file'[Len(file) + 1] = l
        BY <2>3, <4>0
      <4>2. eol'
        BY <2>3 DEF Written
      <4>3. \A e \in answered' : \E i \in 1..synced' : file'[i] = e /\ (eol' \/ i < Len(file'))
        BY <2>1, <2>3, <4>1, <4>2
      <4> QED
        BY <4>3 DEF CompleteInv
    <3>2. CASE ~eol
      <4>0. /\ Len(file) \in Nat /\ Len(file') = Len(file) /\ Len(file) >= 1
            /\ file'[Len(file)] = Junk
        BY <3>2, WrittenLines
      <4>1. Len(file) \in 1..synced' /\ file'[Len(file)] = Junk
        BY <2>3, <4>0
      <4>2. SyncedJunk'
        BY <4>1 DEF SyncedJunk, Junk
      <4> QED
        BY <4>2 DEF CompleteInv
    <3> QED
      BY <3>1, <3>2
  <2> QED
    BY <2>2, <2>3
<1> QED
  BY <1>2, <1>3 DEF CompleteInv

\* Every step keeps answered events finished and synced, or junk synced.
LEMMA CompleteStep ==
  ASSUME TypeOK, CompleteInv, [Next]_vars
  PROVE  CompleteInv'
<1> SUFFICES ASSUME "damage" \notin hurt' PROVE CompleteInv'
  BY DEF CompleteInv
<1> USE DEF vars
<1>a. "damage" \notin hurt
  BY Zenon DEF Next, Open, Close, AppendOK, AppendWriteFails, AppendSyncFails, PowerLoss,
     Damage, Fault
<1>0. /\ Len(file) \in Nat /\ synced \in 0..Len(file) /\ file \in Seq(Line)
  BY LenProperties DEF TypeOK
<1>1. ASSUME UNCHANGED <<file, eol, synced, answered>> PROVE CompleteInv'
  BY <1>1, <1>a DEF CompleteInv, SyncedJunk
<1>2. ASSUME NEW p \in Process, NEW s \in Session, AppendOK(p, s) PROVE CompleteInv'
  <2>1. /\ NewRecord(p, s) \in Line /\ TRUE \in BOOLEAN /\ Written(NewRecord(p, s), TRUE)
        /\ answered' = answered \cup {NewRecord(p, s)} /\ synced' = Len(file')
    BY <1>2, NewRecordType, Zenon DEF AppendOK
  <2> QED
    BY <1>a, <2>1, CompleteWrite, Zenon
<1>3. ASSUME NEW p \in Process, NEW s \in Session,
             AppendWriteFails(p, s) \/ AppendSyncFails(p, s)
      PROVE  CompleteInv'
  <2>1. answered' = answered /\ synced' = synced
    BY <1>3, Zenon DEF AppendWriteFails, AppendSyncFails
  <2>2. \/ UNCHANGED <<file, eol>>
        \/ \E l \in Line, whole \in BOOLEAN : Written(l, whole)
    BY <1>3, NewRecordType, JunkType, Zenon DEF AppendWriteFails, AppendSyncFails
  <2>3. CASE UNCHANGED <<file, eol>>
    BY <1>1, <2>1, <2>3
  <2>4. ASSUME NEW l \in Line, NEW whole \in BOOLEAN, Written(l, whole) PROVE CompleteInv'
    BY <1>a, <2>1, <2>4, CompleteWrite, Zenon
  <2> QED
    BY <2>2, <2>3, <2>4
<1>4. ASSUME PowerLoss PROVE CompleteInv'
  <2>1. PICK k \in synced..Len(file) :
          /\ file' = SubSeq(file, 1, k)
          /\ eol' = IF k = Len(file) THEN eol ELSE TRUE
          /\ synced' = k
    BY <1>4, Zenon DEF PowerLoss
  <2>2. k \in Nat /\ k <= Len(file) /\ synced <= k
    BY <1>0
  <2>3. Len(file') = k /\ \A i \in 1..k : file'[i] = file[i]
    BY <1>0, <2>1, <2>2
  <2>4. answered' = answered
    BY <1>4 DEF PowerLoss
  <2>5. ASSUME SyncedJunk PROVE CompleteInv'
    <3>1. SyncedJunk'
      BY <1>0, <2>1, <2>2, <2>3, <2>5 DEF SyncedJunk
    <3> QED
      BY <3>1 DEF CompleteInv
  <2>6. ASSUME \A e \in answered : \E i \in 1..synced : file[i] = e /\ (eol \/ i < Len(file))
        PROVE  CompleteInv'
    <3>1. ASSUME NEW e \in answered
          PROVE  \E i \in 1..synced' : file'[i] = e /\ (eol' \/ i < Len(file'))
      <4>1. PICK i \in 1..synced : file[i] = e /\ (eol \/ i < Len(file))
        BY <2>6
      <4>2. i \in 1..k /\ file'[i] = e
        BY <1>0, <2>2, <2>3, <4>1
      <4>3. eol' \/ i < Len(file')
        BY <2>1, <2>3, <4>1
      <4> QED
        BY <2>1, <4>2, <4>3
    <3> QED
      BY <2>4, <3>1 DEF CompleteInv
  <2> QED
    BY <1>a, <2>5, <2>6 DEF CompleteInv
<1>5. ~Damage
  <2>1. ~Fault("damage")
    BY DEF Fault
  <2> QED
    BY <2>1, Zenon DEF Damage
<1>6. ASSUME NEW p \in Process, Open(p) \/ Close(p) PROVE CompleteInv'
  <2>1. UNCHANGED <<file, eol, synced, answered>>
    BY <1>6, Zenon DEF Open, Close
  <2> QED
    BY <1>1, <2>1
<1> QED
  BY <1>1, <1>2, <1>3, <1>4, <1>5, <1>6 DEF Next

\* If the file is undamaged and Verify passes, every event that Append returned is
\* in it, whatever writes and syncs failed and whenever the machine stopped.
THEOREM VerifiedIsComplete == Spec => []VerifyMeansComplete
<1>1. Init => CompleteInv
  BY DEF Init, CompleteInv
<1>2. TypeOK /\ CompleteInv => VerifyMeansComplete
  <2> SUFFICES ASSUME TypeOK, CompleteInv, "damage" \notin hurt, Verify PROVE Stored
    BY DEF VerifyMeansComplete
  <2>1. \A i \in 1..synced : i \in DOMAIN file
    BY LenProperties DEF TypeOK
  <2>2. ~SyncedJunk
    BY <2>1 DEF SyncedJunk, Verify, Readable
  <2> QED
    BY <2>1, <2>2 DEF CompleteInv, Stored
<1>3. TypeOK /\ CompleteInv /\ [Next]_vars => CompleteInv'
  BY CompleteStep
<1> QED
  BY <1>1, <1>2, <1>3, ChronicleTypeCorrect, PTL DEF Spec

\* The records selected by a scope are lines of the file.
LEMMA SelectedLines ==
  ASSUME TypeOK, NEW scope
  PROVE  Selected(scope) \subseteq 1..Len(file) /\ Len(file) \in Nat
BY LenProperties DEF TypeOK, Selected

\* A ledger whose signatures verify exports bundles that VerifyBundle accepts.
\* In a verified file the sequence number of a line is its place, so neighbours
\* with consecutive numbers are adjacent lines and link to each other.
LEMMA VerifiedBundle ==
  ASSUME TypeOK, VerifySignatures, NEW scope
  PROVE  VerifyBundle(scope)
<1> DEFINE S == Selected(scope)
<1>1. S \subseteq 1..Len(file) /\ Len(file) \in Nat /\ DOMAIN file = 1..Len(file)
  BY SelectedLines, LenProperties DEF TypeOK
<1>2. \A i \in 1..Len(file) :
        /\ file[i].seq = i
        /\ file[i].prev = (IF i = 1 THEN <<>> ELSE file[i-1].hash)
        /\ file[i].hash = HashEvent(file[i])
        /\ file[i].sig
  BY <1>1 DEF VerifySignatures, Verify, Linked
<1>3. scope = {} => S = 1..Len(file)
  BY <1>1 DEF Selected
<1> HIDE DEF S
<1>4. ASSUME NEW i \in S, NEW j \in S, i < j, ~(\E k \in S : i < k /\ k < j)
      PROVE  file[i].seq < file[j].seq /\ BundleLinks(i, j, scope)
  <2>1. file[i].seq = i /\ file[j].seq = j /\ i \in Nat /\ j \in Nat /\ j # 1
    BY <1>1, <1>2, <1>4
  <2>2. scope = {} => j = i + 1
    <3> SUFFICES ASSUME scope = {}, j # i + 1 PROVE FALSE
      OBVIOUS
    <3>1. i + 1 \in S /\ i < i + 1 /\ i + 1 < j
      BY <1>1, <1>3, <1>4
    <3> QED
      BY <1>4, <3>1
  <2>3. j = i + 1 => file[j].prev = file[i].hash
    BY <1>1, <1>2, <2>1
  <2> QED
    BY <1>4, <2>1, <2>2, <2>3 DEF BundleLinks
<1> QED
  BY <1>1, <1>2, <1>4 DEF VerifyBundle, S

\* Every bundle exported from a ledger whose signatures verify is accepted, for
\* any number of events, sessions and gaps.
THEOREM BundlesRoundTrip == Spec => []BundleRoundTrip
<1>1. TypeOK => BundleRoundTrip
  BY VerifiedBundle DEF BundleRoundTrip
<1> QED
  BY <1>1, ChronicleTypeCorrect, PTL

\* The record a hash ends with has a payload older than n.
EndsBefore(h, n) == h # <<>> => h[Len(h)].body < n

\* What Append returns: its own hash, a payload later than its predecessor's.
Original(e) ==
  /\ e.body >= 1
  /\ e.body < serial
  /\ e.hash = HashEvent(e)
  /\ EndsBefore(e.prev, e.body)

\* A line that Append returned, or such a line with its payload edited.
Traced ==
  {l \in Line : /\ EndsBefore(l.hash, serial)
                /\ l \in answered \/ (l.body = 0 /\ l.hash # HashEvent(l))}

\* As long as writes and syncs succeed, every line goes back to an append.
GenuineInv ==
  hurt \subseteq {"damage", "power"} =>
    /\ eol
    /\ serial >= 1
    /\ file \in Seq(Traced)
    /\ \A e \in answered : Original(e)
    /\ \A p \in Process : EndsBefore(proc[p].tip, serial)

\* The hash of a record ends with its contents.
LEMMA HashEnds ==
  ASSUME NEW e \in Line
  PROVE  /\ HashEvent(e) # <<>>
         /\ HashEvent(e)[Len(HashEvent(e))].body = e.body
<1> DEFINE c == [seq |-> e.seq, session |-> e.session, body |-> e.body]
<1>1. e.prev \in Seq(Content) /\ c \in Content
  BY DEF Line, Hash, Content
<1>2. HashEvent(e) = Append(e.prev, c) /\ c.body = e.body
  BY DEF HashEvent
<1> HIDE DEF c
<1>3. /\ Append(e.prev, c) # <<>>
      /\ Append(e.prev, c)[Len(Append(e.prev, c))] = c
  BY <1>1, AppendProperties
<1> QED
  BY <1>2, <1>3

\* Editing the payload of a line Append returned breaks its hash, for good.
LEMMA EditedIsTraced ==
  ASSUME TypeOK, \A e \in answered : Original(e), NEW l \in Traced
  PROVE  [l EXCEPT !.body = 0] \in Traced
<1> DEFINE m == [l EXCEPT !.body = 0]
<1>1. l \in Line /\ EndsBefore(l.hash, serial)
  BY DEF Traced
<1>2. m \in Line /\ m.body = 0 /\ m.hash = l.hash
  BY <1>1 DEF Line
<1>3. m.hash # HashEvent(m)
  <2>1. CASE l \in answered
    <3>1. l.body >= 1 /\ l.hash = HashEvent(l) /\ l.body \in Nat
      BY <1>1, <2>1 DEF Original, Line
    <3>2. HashEvent(l)[Len(HashEvent(l))].body = l.body
      BY <1>1, HashEnds
    <3>3. HashEvent(m)[Len(HashEvent(m))].body = 0
      BY <1>2, HashEnds
    <3> HIDE DEF m
    <3> QED
      BY <1>2, <3>1, <3>2, <3>3
  <2>2. CASE l.body = 0 /\ l.hash # HashEvent(l)
    <3>1. m = l
      BY <1>1, <2>2 DEF Line
    <3> QED
      BY <2>2, <3>1
  <2> QED
    BY <2>1, <2>2 DEF Traced
<1> HIDE DEF m
<1>4. m \in Traced
  BY <1>1, <1>2, <1>3 DEF Traced
<1> QED
  BY <1>4 DEF m

\* Later appends keep lines traced and events original.
LEMMA TracedGrows ==
  ASSUME TypeOK, serial' \in Nat, serial <= serial', answered \subseteq answered'
  PROVE  /\ Traced \subseteq Traced'
         /\ \A e \in answered : Original(e) => Original(e)'
         /\ \A h \in Hash : EndsBefore(h, serial) => EndsBefore(h, serial')
<1>1. ASSUME NEW h \in Hash, EndsBefore(h, serial) PROVE EndsBefore(h, serial')
  <2>1. CASE h = <<>>
    BY <2>1 DEF EndsBefore
  <2>2. CASE h # <<>>
    <3>1. h[Len(h)] \in Content
      BY <2>2, EmptySeq, LenProperties, ElementOfSeq DEF Hash
    <3>2. h[Len(h)].body \in Nat
      BY <3>1 DEF Content
    <3> QED
      BY <1>1, <2>2, <3>2 DEF EndsBefore, TypeOK
  <2> QED
    BY <2>1, <2>2
<1>2. ASSUME NEW l \in Traced PROVE l \in Traced'
  <2>1. l \in Line /\ l.hash \in Hash
    BY DEF Traced, Line
  <2> QED
    BY <1>1, <1>2, <2>1 DEF Traced
<1>3. ASSUME NEW e \in answered, Original(e) PROVE Original(e)'
  <2>1. e.body \in Nat
    BY DEF TypeOK, Line
  <2> QED
    BY <1>3, <2>1 DEF Original, TypeOK
<1> QED
  BY <1>1, <1>2, <1>3

\* A step that appends nothing keeps the invariant if the file stays traced and the
\* ledgers' tips are ends of the file, empty, or the ones they were.
LEMMA GenuineQuiet ==
  ASSUME TypeOK, TypeOK', GenuineInv, hurt \subseteq {"damage", "power"},
         UNCHANGED <<serial, answered>>, eol', file' \in Seq(Traced),
         \A p \in Process : EndsBefore(proc'[p].tip, serial)
  PROVE  GenuineInv'
<1>1. Traced' = Traced /\ \A e \in answered : Original(e)' = Original(e)
  BY DEF Traced, Original
<1> QED
  BY <1>1 DEF GenuineInv

\* Every step keeps every line traced to an append.
LEMMA GenuineStep ==
  ASSUME TypeOK, TypeOK', GenuineInv, [Next]_vars
  PROVE  GenuineInv'
<1> SUFFICES ASSUME hurt' \subseteq {"damage", "power"} PROVE GenuineInv'
  BY DEF GenuineInv
<1> USE DEF vars
<1>a. hurt \subseteq {"damage", "power"}
  BY Zenon DEF Next, Open, Close, AppendOK, AppendWriteFails, AppendSyncFails, PowerLoss,
     Damage, Fault
<1>b. /\ eol /\ serial >= 1 /\ file \in Seq(Traced)
      /\ \A e \in answered : Original(e)
      /\ \A p \in Process : EndsBefore(proc[p].tip, serial)
  BY <1>a DEF GenuineInv
<1>c. EndsBefore(<<>>, serial)
  BY DEF EndsBefore
<1>0. /\ Len(file) \in Nat /\ synced \in 0..Len(file)
      /\ proc \in [Process -> Ledger]
  BY LenProperties DEF TypeOK
<1>1. ASSUME NEW p \in Process, Open(p) PROVE GenuineInv'
  <2>1. PICK sign \in SignModes :
          proc' = [proc EXCEPT ![p] =
            [open   |-> TRUE,
             seq    |-> IF file = <<>> THEN 0 ELSE file[Len(file)].seq,
             tip    |-> IF file = <<>> THEN <<>> ELSE file[Len(file)].hash,
             signer |-> sign]]
    BY <1>1, Zenon DEF Open
  <2>2. file # <<>> => file[Len(file)] \in Traced
    BY <1>b, EmptySeq, LenProperties, ElementOfSeq
  <2>3. EndsBefore(IF file = <<>> THEN <<>> ELSE file[Len(file)].hash, serial)
    BY <1>c, <2>2 DEF Traced
  <2>4. /\ proc'[p].tip = (IF file = <<>> THEN <<>> ELSE file[Len(file)].hash)
        /\ \A q \in Process : q # p => proc'[q] = proc[q]
    BY <1>0, <2>1
  <2>5. \A q \in Process : EndsBefore(proc'[q].tip, serial)
    BY <1>b, <2>3, <2>4
  <2>6. UNCHANGED <<file, eol, serial, answered>>
    BY <1>1, Zenon DEF Open
  <2> QED
    BY <1>a, <1>b, <2>5, <2>6, GenuineQuiet
<1>2. ASSUME NEW p \in Process, Close(p) PROVE GenuineInv'
  <2>1. proc' = [proc EXCEPT ![p] = Closed] /\ UNCHANGED <<file, eol, serial, answered>>
    BY <1>2, Zenon DEF Close
  <2>2. \A q \in Process : EndsBefore(proc'[q].tip, serial)
    BY <1>0, <1>b, <1>c, <2>1 DEF Closed
  <2> QED
    BY <1>a, <1>b, <2>1, <2>2, GenuineQuiet
<1>3. ASSUME NEW p \in Process, NEW s \in Session, AppendOK(p, s) PROVE GenuineInv'
  <2>0. PICK r : r = NewRecord(p, s)
    OBVIOUS
  <2>1. r \in Line /\ r.hash = HashEvent(r) /\ r.prev = proc[p].tip /\ r.body = serial
    BY <2>0, NewRecordType DEF NewRecord
  <2>2. /\ Written(r, TRUE)
        /\ proc' = [proc EXCEPT ![p].seq = r.seq, ![p].tip = r.hash]
        /\ serial' = serial + 1
        /\ answered' = answered \cup {r}
    BY <1>3, <2>0, Zenon DEF AppendOK
  <2>3. file' = Append(file, r) /\ eol'
    BY <1>b, <2>2 DEF Written
  <2>4. serial \in Nat /\ serial' \in Nat /\ serial <= serial' /\ serial' >= 1 /\ r.body < serial'
    BY <2>1, <2>2 DEF TypeOK
  <2>5. /\ Traced \subseteq Traced'
        /\ \A e \in answered : Original(e) => Original(e)'
        /\ \A h \in Hash : EndsBefore(h, serial) => EndsBefore(h, serial')
    BY <2>2, <2>4, TracedGrows
  <2>6. EndsBefore(r.hash, serial')
    BY <2>1, <2>4, HashEnds DEF EndsBefore
  <2>7. r \in Traced'
    BY <2>1, <2>2, <2>6 DEF Traced
  <2>8. file' \in Seq(Traced')
    <3>1. file \in Seq(Traced')
      BY <1>b, <2>5
    <3> QED
      BY <2>3, <2>7, <3>1, AppendProperties
  <2>9. Original(r)'
    BY <1>b, <2>1, <2>4 DEF Original
  <2>10. \A e \in answered' : Original(e)'
    BY <1>b, <2>2, <2>5, <2>9
  <2>11. ASSUME NEW q \in Process PROVE EndsBefore(proc'[q].tip, serial')
    <3>1. CASE q = p
      <4>1. proc'[p].tip = r.hash
        BY <1>0, <2>2 DEF Ledger
      <4> QED
        BY <2>6, <3>1, <4>1
    <3>2. CASE q # p
      <4>1. proc'[q] = proc[q] /\ proc[q].tip \in Hash
        BY <1>0, <2>2, <3>2 DEF Ledger
      <4> QED
        BY <1>b, <2>5, <4>1
    <3> QED
      BY <3>1, <3>2
  <2> QED
    BY <2>3, <2>4, <2>8, <2>10, <2>11 DEF GenuineInv
<1>4. ASSUME PowerLoss PROVE GenuineInv'
  <2>1. PICK k \in synced..Len(file) :
          /\ file' = SubSeq(file, 1, k)
          /\ eol' = IF k = Len(file) THEN eol ELSE TRUE
    BY <1>4, Zenon DEF PowerLoss
  <2>2. k \in Nat /\ k <= Len(file)
    BY <1>0
  <2>3. file' \in Seq(Traced)
    BY <1>b, <2>1, <2>2
  <2>4. proc' = [p \in Process |-> Closed] /\ UNCHANGED <<serial, answered>>
    BY <1>4, Zenon DEF PowerLoss
  <2>5. \A p \in Process : EndsBefore(proc'[p].tip, serial)
    BY <1>c, <2>4 DEF Closed
  <2> QED
    BY <1>a, <1>b, <2>1, <2>3, <2>4, <2>5, GenuineQuiet
<1>5. ASSUME Damage PROVE GenuineInv'
  <2>1. file' \in Seq(Traced)
    BY <1>5, <1>b, EditedIsTraced, DamagedFile
  <2>2. eol' /\ UNCHANGED <<proc, serial, answered>>
    BY <1>5, Zenon DEF Damage
  <2> QED
    BY <1>a, <1>b, <2>1, <2>2, GenuineQuiet
<1>6. \A p \in Process, s \in Session : ~AppendWriteFails(p, s) /\ ~AppendSyncFails(p, s)
  <2>1. ~Fault("write") /\ ~Fault("sync")
    BY DEF Fault
  <2> QED
    BY <2>1, Zenon DEF AppendWriteFails, AppendSyncFails
<1>7. CASE UNCHANGED vars
  BY <1>7, <1>a, <1>b, GenuineQuiet
<1> QED
  BY <1>1, <1>2, <1>3, <1>4, <1>5, <1>6, <1>7 DEF Next

\* A set of naturals that is not empty has a least element.
LEMMA LeastNumber ==
  ASSUME NEW T \in SUBSET Nat, T # {}
  PROVE  \E x \in T : \A y \in T : x <= y
<1>1. PICK x \in T : \A y \in T : ~(<<y, x>> \in OpToRel(<, Nat))
  BY NatLessThanWellFounded, WFMin, Zenon
<1>2. \A y \in T : ~(y < x)
  BY <1>1 DEF OpToRel
<1> QED
  BY <1>2

\* Payloads that grow from each line to the next grow over the whole file.
LEMMA GrowingPayloads ==
  ASSUME TypeOK, \A i \in DOMAIN file : i > 1 => file[i-1].body < file[i].body
  PROVE  \A i, j \in DOMAIN file : i < j => file[i].body < file[j].body
<1> SUFFICES ASSUME NEW i \in DOMAIN file,
                    ~ \A j \in DOMAIN file : i < j => file[i].body < file[j].body
             PROVE  FALSE
  BY Zenon
<1> DEFINE T == {j \in DOMAIN file : i < j /\ ~(file[i].body < file[j].body)}
<1>0. /\ DOMAIN file = 1..Len(file) /\ Len(file) \in Nat
      /\ \A j \in DOMAIN file : file[j].body \in Nat
  <2>1. DOMAIN file = 1..Len(file) /\ Len(file) \in Nat /\ \A j \in DOMAIN file : file[j] \in Line
    BY LenProperties, ElementOfSeq DEF TypeOK
  <2> QED
    BY <2>1 DEF Line
<1>1. T \in SUBSET Nat /\ T # {}
  BY <1>0
<1>2. PICK j \in T : \A k \in T : j <= k
  BY <1>1, LeastNumber
<1>3. /\ j \in DOMAIN file /\ i < j /\ j - 1 \in DOMAIN file
      /\ ~(file[i].body < file[j].body)
  BY <1>0, <1>2
<1>4. j - 1 \notin T
  BY <1>0, <1>2, <1>3
<1>5. j - 1 = i \/ file[i].body < file[j-1].body
  BY <1>0, <1>3, <1>4
<1>6. file[j-1].body < file[j].body
  BY <1>0, <1>3
<1>7. /\ file[i].body \in Nat /\ file[j].body \in Nat /\ file[j-1].body \in Nat
  BY <1>0, <1>3
<1> QED
  BY <1>3, <1>5, <1>6, <1>7

\* While writes and syncs succeed, a file that Verify passes holds events Append
\* returned, in order, and an accepted bundle holds events Append returned,
\* however often the file was edited, reordered, cut or added to.
THEOREM AcceptedWasAppended == Spec => []AcceptedIsAppended
<1>1. Init => GenuineInv
  BY DEF Init, GenuineInv, Closed, EndsBefore
<1>2. TypeOK /\ GenuineInv => AcceptedIsAppended
  <2> SUFFICES ASSUME TypeOK, GenuineInv, hurt \subseteq {"damage", "power"}
               PROVE  AcceptedIsAppended
    BY DEF AcceptedIsAppended
  <2>1. file \in Seq(Traced) /\ \A e \in answered : Original(e)
    BY DEF GenuineInv
  <2>2. \A i \in DOMAIN file : file[i] \in Traced
    BY <2>1, ElementOfSeq, LenProperties
  <2>3. \A i \in DOMAIN file : file[i].hash = HashEvent(file[i]) => file[i] \in answered
    BY <2>2 DEF Traced
  <2>4. ASSUME Verify
        PROVE  /\ \A i \in DOMAIN file : file[i] \in answered
               /\ \A i, j \in DOMAIN file : i < j => file[i].body < file[j].body
    <3>1. \A i \in DOMAIN file : file[i] \in answered
      BY <2>3, <2>4 DEF Verify, Linked
    <3>2. ASSUME NEW i \in DOMAIN file, i > 1 PROVE file[i-1].body < file[i].body
      <4>1. i - 1 \in DOMAIN file /\ i # 1
        BY <3>2, LenProperties DEF TypeOK
      <4>2. file[i].prev = file[i-1].hash /\ file[i-1].hash = HashEvent(file[i-1])
        BY <2>4, <4>1 DEF Verify, Linked
      <4>3. EndsBefore(file[i].prev, file[i].body)
        BY <2>1, <3>1 DEF Original
      <4>4. file[i-1] \in Line
        BY <2>2, <4>1 DEF Traced
      <4> QED
        BY <4>2, <4>3, <4>4, HashEnds DEF EndsBefore
    <3> QED
      BY <3>1, <3>2, GrowingPayloads
  <2>5. ASSUME NEW s \in Session, VerifyBundle({s})
        PROVE  \A i \in Selected({s}) : file[i] \in answered
    BY <2>3, <2>5 DEF VerifyBundle, Selected
  <2> QED
    BY <2>4, <2>5 DEF AcceptedIsAppended
<1>3. TypeOK /\ TypeOK' /\ GenuineInv /\ [Next]_vars => GenuineInv'
  BY GenuineStep
<1> QED
  BY <1>1, <1>2, <1>3, ChronicleTypeCorrect, PTL DEF Spec
=============================================================================
