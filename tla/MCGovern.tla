------------------------------- MODULE MCGovern -------------------------------
(***************************************************************************)
(* The path of a governed call, for TLC: what the authority says of an     *)
(* action, and what the control plane makes of the answer.  A behaviour    *)
(* takes one of four parts:                                                *)
(*   "calls"      two calls of every verdict, operators, and kills;        *)
(*   "rationing"  three allowed calls, a usage report, failing appends,    *)
(*                kills and crashes;                                       *)
(*   "quota"      four allowed calls for two executions and one request;   *)
(*   "authority"  one question to the policy engines.                      *)
(***************************************************************************)
EXTENDS Govern, TLC

CONSTANTS c1, c2, c3, c4, o1, o2, r1, GlobChars

VARIABLES part, ask, reply

allVars == <<vars, part, ask, reply>>

TwoCalls == {c1, c2}
ThreeCalls == {c1, c2, c3}
FourCalls == {c1, c2, c3, c4}
OneKey == [c \in TwoCalls |-> "k"]

Rationed == INSTANCE Govern WITH
  Call <- ThreeCalls, KeyOf <- [c \in ThreeCalls |-> "k"], Verdicts <- {"allow"},
  Operator <- {}, Reporter <- {r1}, Faults <- {"audit", "crash", "kill"}

Quota == INSTANCE Govern WITH
  Call <- FourCalls, KeyOf <- [c \in FourCalls |-> "k"], Verdicts <- {"allow"},
  Operator <- {}, Reporter <- {}, Faults <- {"crash"}

-----------------------------------------------------------------------------
(* The questions: globs and strings of three characters; command lines of    *)
(* five words around env, busybox and sh -c; Charters of two rules.          *)

Rule(tool, match, argv, v) == [tool |-> tool, match |-> match, argv |-> argv, verdict |-> v]

MCRules ==
  {Rule("*", {}, {}, "allow"), Rule("shell", {"x"}, {}, "deny"),
   Rule("shell", {}, {"rm"}, "require-approval"), Rule("net", {}, {}, "deny")}

MCActions ==
  {[tool |-> "shell", arg |-> "x", args |-> <<"/bin/sh", "-c", "rm x">>],
   [tool |-> "shell", arg |-> "y", args |-> <<"/bin/rm">>],
   [tool |-> "net", arg |-> "h", args |-> <<>>]}

Authority == INSTANCE Authority WITH
  answer <- reply, Unset <- "",
  PatternChars <- {"a", "b", "*", "?"}, StringChars <- GlobChars, MaxLen <- 3, MaxArgv <- 5,
  Tokens <- {"/usr/bin/env", "A=1", "--", "-i", "/bin/sh", "busybox", "-c", "rm x"},
  BaseOf <- ("/usr/bin/env" :> "env" @@ "/bin/sh" :> "sh" @@ "/bin/rm" :> "rm"),
  FirstOf <- ("rm x" :> "rm"),
  Rules <- MCRules, Actions <- MCActions,
  CELRules <- [outcome : {"true", "false", "error"}, verdict : {"", "deny"}],
  RegoResults <- {"error", "allow", "require-approval", "junk"}

-----------------------------------------------------------------------------
NoQuestion == ask = [about |-> "nothing"] /\ reply = <<>>

MCInit ==
  \/ part = "calls" /\ Init /\ NoQuestion
  \/ part = "rationing" /\ Rationed!Init /\ NoQuestion
  \/ part = "quota" /\ Quota!Init /\ NoQuestion
  \/ part = "authority" /\ Authority!AuthInit /\ Init /\ verdict = [c \in Call |-> "allow"]

MCNext ==
  /\ \/ part = "calls" /\ Next /\ UNCHANGED <<ask, reply>>
     \/ part = "rationing" /\ Rationed!Next /\ UNCHANGED <<ask, reply>>
     \/ part = "quota" /\ Quota!Next /\ UNCHANGED <<ask, reply>>
     \/ part = "authority" /\ Authority!AuthNext /\ UNCHANGED vars
  /\ UNCHANGED part

\* The fairness of Govern's FairSpec, for the part that has calls and operators.
MCSpec ==
  /\ MCInit /\ [][MCNext]_allVars
  /\ \A c \in Call : WF_allVars(part = "calls" /\ CallStep(c) /\ UNCHANGED <<part, ask, reply>>)
  /\ \A o \in Operator : WF_allVars(part = "calls" /\ (Send(o) \/ Audit(o)) /\ UNCHANGED <<part, ask, reply>>)

\* Every call that found its session is answered, whatever the operators do, and
\* a command that ran because an operator approved it ends up attributed (unless
\* the control plane crashes or the Chronicle fails).
CallsAreSettled == part = "calls" => CallAnswered /\ ApprovalAttributed

\* matchGlob decides what its comment says (policy.go:184): "'*' matches any
\* run of characters and '?' exactly one".
GlobMatchesAnyRun == Authority!GlobMatchesAnyRun

\* A rule on the executable sees the command inside env, busybox and a shell
\* wrapper (argvCandidates).
WrappedCommandIsSeen == Authority!WrappedCommandIsSeen

\* The simulation endpoint and the policy test of the CLI foretell the verdict
\* the control plane's engine gives, where no environment default intervenes.
OracleForetells == Authority!OracleForetells
=============================================================================
