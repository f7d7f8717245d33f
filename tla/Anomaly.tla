------------------------------- MODULE Anomaly -------------------------------
(***************************************************************************)
(* The anomaly detector (anomaly/detector.go), a sink of the audit fan-out.*)
(* Events come without a time, so Emit reads the clock, and only then does *)
(* it take the lock: two calls may reach the summary of a session in the   *)
(* other order.  Sessions share nothing but the lock; one is modelled.     *)
(***************************************************************************)
EXTENDS Integers, Sequences, FiniteSets, SequencesExt

CONSTANTS
  Emitter,     \* concurrent calls of Emit
  Events,      \* the events: [tool, host, verdict]
  MaxHosts, ExecBurst, MaxDenies, \* the thresholds
  Window,      \* the window of the exec burst
  WarnCooldown,\* warnCooldown
  MaxNow,      \* bound on the time
  MaxEmits     \* bound on the events

VARIABLES
  clk,       \* the time
  emit,      \* emit[e]: the event e holds and the time it read
  hosts, execTimes, denies, lastWarn, \* sessionState
  emits,     \* number of events so far
  log        \* history: the events in the order in which they were processed

detVars == <<clk, emit, hosts, execTimes, denies, lastWarn, emits, log>>

Alarms == {"novel_host", "exec_burst", "denial_spike"}
Never == -(WarnCooldown + 1)

DetInit ==
  /\ clk = 0 /\ emits = 0 /\ log = <<>>
  /\ emit = [e \in Emitter |-> <<>>]
  /\ hosts = {} /\ execTimes = <<>> /\ denies = 0
  /\ lastWarn = [a \in Alarms |-> Never]

\* Mutant of appendWithinWindow: an entry at the edge of the window is dropped.
appendWithinWindowStrict(times, t) ==
  SelectSeq(Append(times, t), LAMBDA u : u > t - Window)

\* The entries older than the window are dropped from the front.
appendWithinWindow(times, t) ==
  LET all == Append(times, t)
      keep == CHOOSE i \in DOMAIN all : /\ all[i] >= t - Window
                                        /\ \A j \in 1 .. i - 1 : all[j] < t - Window
  IN  SubSeq(all, keep, Len(all))

\* warn is silent for a time after a warning of the same kind.
Warned(S, t) == [a \in Alarms |-> IF a \in S /\ t - lastWarn[a] >= WarnCooldown THEN t ELSE lastWarn[a]]

\* Emit before the lock.
ReadClock(e) ==
  /\ emit[e] = <<>> /\ emits < MaxEmits
  /\ emits' = emits + 1
  /\ \E ev \in Events : emit' = [emit EXCEPT ![e] = <<ev, clk>>]
  /\ UNCHANGED <<clk, hosts, execTimes, denies, lastWarn, log>>

\* Emit under the lock.
Inspect(e) ==
  /\ emit[e] # <<>>
  /\ LET ev == emit[e][1]
         t == emit[e][2] IN
     /\ hosts' = IF ev.tool = "net" /\ ev.verdict = "allow" THEN hosts \cup {ev.host} ELSE hosts
     /\ execTimes' = IF ev.tool = "shell" THEN appendWithinWindow(execTimes, t) ELSE execTimes
     /\ denies' = IF ev.verdict = "deny" THEN denies + 1 ELSE denies
     /\ lastWarn' = Warned((IF hosts' # hosts /\ Cardinality(hosts') > MaxHosts THEN {"novel_host"} ELSE {})
                           \cup (IF ev.tool = "shell" /\ Len(execTimes') > ExecBurst THEN {"exec_burst"} ELSE {})
                           \cup (IF ev.verdict = "deny" /\ denies' > MaxDenies THEN {"denial_spike"} ELSE {}), t)
     /\ log' = Append(log, [ev |-> ev, t |-> t])
  /\ emit' = [emit EXCEPT ![e] = <<>>]
  /\ UNCHANGED <<clk, emits>>

DetTick ==
  /\ clk < MaxNow
  /\ clk' = clk + 1
  /\ UNCHANGED <<emit, hosts, execTimes, denies, lastWarn, emits, log>>

DetNext == DetTick \/ \E e \in Emitter : ReadClock(e) \/ Inspect(e)

-----------------------------------------------------------------------------
(* Properties *)

\* As long as the events reach the detector in the order of their times, a
\* command that makes more than ExecBurst within the window, a destination
\* beyond MaxHosts and a denial beyond MaxDenies never pass without a warning
\* in the cooldown before; and every warning has its cause in the log.
AlarmsAreRaised ==
  LET Shells(n, t) == {i \in 1 .. n : log[i].ev.tool = "shell" /\ log[i].t \in t - Window .. t}
      Denied(n) == {i \in 1 .. n : log[i].ev.verdict = "deny"}
      Reached(n) == {log[i].ev.host : i \in {j \in 1 .. n : log[j].ev.tool = "net" /\ log[j].ev.verdict = "allow"}}
      Due(a, n) == CASE a = "exec_burst" -> log[n].ev.tool = "shell" /\ Cardinality(Shells(n, log[n].t)) > ExecBurst
                     [] a = "denial_spike" -> log[n].ev.verdict = "deny" /\ Cardinality(Denied(n)) > MaxDenies
                     [] a = "novel_host" -> Reached(n) # Reached(n - 1) /\ Cardinality(Reached(n)) > MaxHosts
      Ordered == \A i, j \in DOMAIN log : i < j => log[i].t <= log[j].t
  IN  Ordered => \A a \in Alarms :
        /\ \A n \in DOMAIN log : Due(a, n) => lastWarn[a] > log[n].t - WarnCooldown
        /\ lastWarn[a] # Never => \E n \in DOMAIN log : Due(a, n) /\ log[n].t = lastWarn[a]
=============================================================================
