------------------------------ MODULE Authority ------------------------------
(***************************************************************************)
(* The authority engines of a Charter and their rehearsals: the built-in   *)
(* first-match engine with its glob and argv matching (policy/policy.go),  *)
(* the CEL and Rego engines (policy/cel.go, policy/rego.go), the choice of *)
(* the engine (newEngine), the simulation endpoint with its trace          *)
(* (handlePolicySimulate) and `runeward policy test`.                      *)
(*                                                                         *)
(* A state is a question, one from each of three families, and its answer. *)
(***************************************************************************)
EXTENDS Integers, Sequences, SequencesExt

CONSTANTS
  PatternChars, \* characters of glob patterns
  StringChars,  \* characters of the strings they are matched with
  MaxLen,       \* longest pattern and string
  Tokens,       \* words of a command line
  BaseOf,       \* BaseOf[t]: the base name of a word with a directory
  FirstOf,      \* FirstOf[t]: the first word of a script
  MaxArgv,      \* longest command line
  Rules,        \* rules of the built-in engine: [tool, match, argv, verdict], {} is an empty pattern
  CELRules,     \* rules of a CEL Charter: [outcome, verdict]
  RegoResults,  \* what the query of a Rego Charter returns
  Actions,      \* actions: [tool, arg, args]
  Unset         \* an empty verdict

VARIABLES
  ask,    \* the question
  answer  \* <<the answer>>, or <<>>

-----------------------------------------------------------------------------
(* matchGlob *)

\* The loop of matchGlob: si and pi are its two positions, star and starMark
\* the place to go back to.
RECURSIVE GlobLoop(_, _, _, _, _, _)
GlobLoop(p, s, si, pi, star, starMark) ==
  IF si > Len(s) THEN \A k \in pi .. Len(p) : p[k] = "*"
  ELSE IF pi <= Len(p) /\ (p[pi] = "?" \/ p[pi] = s[si]) THEN GlobLoop(p, s, si + 1, pi + 1, star, starMark)
  ELSE IF pi <= Len(p) /\ p[pi] = "*" THEN GlobLoop(p, s, si, pi + 1, pi, si)
  ELSE star # 0 /\ GlobLoop(p, s, starMark + 1, star + 1, star, starMark + 1)

\* Mutant of matchGlob: after a mismatch the star does not take one more character.
matchGlobNoRetry(p, s) ==
  \/ p = s
  \/ \E k \in DOMAIN p : /\ p[k] = "*" /\ k - 1 <= Len(s)
                         /\ \A i \in 1 .. k - 1 : p[i] \in {"?", s[i]}
                         /\ k = Len(p)

matchGlob(p, s) == GlobLoop(p, s, 1, 1, 0, 0)

\* What the comment of matchGlob says: '*' is any run of characters, '?' exactly one.
RECURSIVE Glob(_, _)
Glob(p, s) ==
  IF p = <<>> THEN s = <<>>
  ELSE IF Head(p) = "*" THEN \E k \in 0 .. Len(s) : Glob(Tail(p), SubSeq(s, k + 1, Len(s)))
  ELSE s # <<>> /\ Head(p) \in {"?", Head(s)} /\ Glob(Tail(p), Tail(s))

-----------------------------------------------------------------------------
(* argvCandidates *)

ShellNames == {"sh", "bash", "dash", "ash", "ksh", "zsh", "fish", "busybox"}
Flags == {"-i", "-c", "--"}
Assignments == {"A=1"}

baseName(t) == IF t \in DOMAIN BaseOf THEN BaseOf[t] ELSE t
firstToken(t) == IF t \in DOMAIN FirstOf THEN FirstOf[t] ELSE t
isShellName(t) == baseName(t) \in ShellNames

\* Mutant of unwrapEnvPrefix: assignments end the prefix.
unwrapEnvPrefixFlagsOnly(argv) ==
  IF argv = <<>> \/ baseName(argv[1]) # "env" THEN argv
  ELSE LET Ends == {i \in 2 .. Len(argv) : argv[i] = "--" \/ argv[i] \notin Flags} IN
       IF Ends = {} THEN <<>>
       ELSE LET i == CHOOSE i \in Ends : \A j \in Ends : i <= j IN
            SubSeq(argv, IF argv[i] = "--" THEN i + 1 ELSE i, Len(argv))

\* What env runs: its flags and assignments are skipped, "--" ends them.
unwrapEnvPrefix(argv) ==
  IF argv = <<>> \/ baseName(argv[1]) # "env" THEN argv
  ELSE LET Ends == {i \in 2 .. Len(argv) : argv[i] = "--" \/ argv[i] \notin Flags \cup Assignments} IN
       IF Ends = {} THEN <<>>
       ELSE LET i == CHOOSE i \in Ends : \A j \in Ends : i <= j IN
            SubSeq(argv, IF argv[i] = "--" THEN i + 1 ELSE i, Len(argv))

\* The first word of the script of a shell wrapper, if it is one.
wrappedShellToken(argv) ==
  LET un == unwrapEnvPrefix(argv)
      busy == un # <<>> /\ baseName(un[1]) = "busybox"
      sh == IF busy THEN Tail(un) ELSE un
      Scripts == {i \in 2 .. Len(sh) - 1 : sh[i] = "-c"}
  IN  IF sh = <<>> \/ ~isShellName(sh[1]) \/ Scripts = {} THEN {}
      ELSE LET i == CHOOSE i \in Scripts : \A j \in Scripts : i <= j IN {firstToken(sh[i + 1])}

argvCandidates(argv) ==
  IF argv = <<>> THEN {}
  ELSE LET W == {argv[1]} \cup wrappedShellToken(argv) IN W \cup {baseName(t) : t \in W}

-----------------------------------------------------------------------------
(* The engines.  A glob is given here by the set of what it matches. *)

Decision(verdict, rule) == [verdict |-> verdict, rule |-> rule]

RuleMatches(r, a) ==
  /\ r.tool \in {"*", a.tool}
  /\ r.match = {} \/ a.arg \in r.match
  /\ r.argv = {} \/ argvCandidates(a.args) \cap r.argv # {}

\* The lowest of the rules that hit decides, with its entry in verdicts.
First(hits, verdicts, def) ==
  IF hits = {} THEN Decision(def, 0)
  ELSE LET i == CHOOSE i \in hits : \A j \in hits : i <= j IN Decision(verdicts[i], i)

\* Engine.Evaluate; rule 0 is no rule.
Evaluate(rules, def, a) ==
  First({i \in DOMAIN rules : RuleMatches(rules[i], a)}, [i \in DOMAIN rules |-> rules[i].verdict], def)

\* CELEngine.Evaluate: an evaluation error denies; an empty verdict allows.
CELEvaluate(rules, def) ==
  First({i \in DOMAIN rules : rules[i].outcome # "false"},
        [i \in DOMAIN rules |-> IF rules[i].outcome = "error" THEN "deny"
                                ELSE IF rules[i].verdict = Unset THEN "allow" ELSE rules[i].verdict],
        def)

\* RegoEngine.Evaluate: an error or a panic denies, no result or an unknown
\* verdict falls back to the default.
RegoEvaluate(result, def) ==
  CASE result = "error" -> Decision("deny", 1)
    [] result \in {"allow", "deny", "require-approval"} -> Decision(result, 1)
    [] OTHER -> Decision(def, 0)

NewEngine(p, def, a) ==
  CASE p.engine = "builtin" -> Evaluate(p.rules, def, a)
    [] p.engine = "cel" -> CELEvaluate(p.rules, def)
    [] p.engine = "rego" -> RegoEvaluate(p.rules[1], def)

\* noMatchPolicyVerdict: the Charter's default, else the environment's, else allow.
noMatchPolicyVerdict(p, env) ==
  IF p.default \in {"deny", "allow"} THEN p.default
  ELSE IF env \in {"deny", "allow"} THEN env ELSE "allow"

\* What governs a call in a session.
newEngine(p, env, a) == NewEngine(p, noMatchPolicyVerdict(p, env), a)

\* Mutant of simulationEngineForProfile: the Charter's own default is left out.
simulationEngineNoDefault(p, a) == NewEngine(p, "allow", a)

\* What the simulation endpoint shows: it knows the Charter's default only.
simulationEngineForProfile(p, a) == NewEngine(p, IF p.default = "deny" THEN "deny" ELSE "allow", a)

\* firstMatchTrace asks one rule after the other, each in an engine of its own,
\* and ends with the first that matches.
firstMatchTrace(p, a) ==
  LET Matched(i) == IF p.engine = "rego" THEN TRUE
                    ELSE NewEngine([p EXCEPT !.rules = <<@[i]>>], "deny", a).rule # 0
      Hits == {i \in DOMAIN p.rules : Matched(i)}
      last == IF Hits = {} THEN Len(p.rules) ELSE CHOOSE i \in Hits : \A j \in Hits : i <= j
  IN  [i \in 1 .. last |-> Matched(i)]

\* `runeward policy test` has no default but allow.
policyEngineForProfile(p, a) == NewEngine(p, "allow", a)

-----------------------------------------------------------------------------
(* Questions and answers *)

Charters ==
  [engine : {"builtin"}, rules : SeqOf(Rules, 2), default : {Unset, "allow", "deny"}]
    \cup [engine : {"cel"}, rules : SeqOf(CELRules, 2), default : {Unset, "deny"}]
    \cup [engine : {"rego"}, rules : {<<r>> : r \in RegoResults}, default : {Unset, "deny"}]

AuthInit ==
  /\ answer = <<>>
  /\ \/ ask \in [about : {"glob"}, pattern : SeqOf(PatternChars, MaxLen), string : SeqOf(StringChars, MaxLen)]
     \/ ask \in [about : {"argv"}, argv : SeqOf(Tokens, MaxArgv)]
     \/ ask \in [about : {"charter"}, charter : Charters, action : Actions, env : {Unset, "allow", "deny"}]

AskGlob ==
  /\ ask.about = "glob" /\ answer = <<>>
  /\ answer' = <<matchGlob(ask.pattern, ask.string)>>
  /\ UNCHANGED ask

AskArgv ==
  /\ ask.about = "argv" /\ answer = <<>>
  /\ answer' = <<argvCandidates(ask.argv)>>
  /\ UNCHANGED ask

\* handlePolicySimulate evaluates the action and adds the trace.
HandlePolicySimulate ==
  /\ ask.about = "charter" /\ answer = <<>>
  /\ answer' = <<[simulated |-> simulationEngineForProfile(ask.charter, ask.action),
                  trace |-> firstMatchTrace(ask.charter, ask.action),
                  tested |-> policyEngineForProfile(ask.charter, ask.action),
                  governed |-> newEngine(ask.charter, ask.env, ask.action)]>>
  /\ UNCHANGED ask

AuthNext == AskGlob \/ AskArgv \/ HandlePolicySimulate

-----------------------------------------------------------------------------
(* Properties *)

\* matchGlob decides what its comment says (policy.go:184): "'*' matches any
\* run of characters and '?' exactly one".
GlobMatchesAnyRun ==
  ask.about = "glob" /\ answer # <<>> => answer[1] = Glob(ask.pattern, ask.string)

\* A rule on the executable sees through a shell wrapper: whatever flags and
\* assignments of env, busybox and flags of the shell come before -c, the first
\* word of the script is a candidate.
WrappedCommandIsSeen ==
  ask.about = "argv" /\ answer # <<>> =>
    LET argv == ask.argv
        Shell(i) == baseName(argv[i]) \in ShellNames \ {"busybox"}
        EnvPart(n) == n = 0 \/ (baseName(argv[1]) = "env" /\ \A k \in 2 .. n : argv[k] \in {"-i"} \cup Assignments
                                                                               \/ (k = n /\ argv[k] = "--"))
    IN  \A n \in 0 .. Len(argv) - 3, c \in 2 .. Len(argv) - 1 :
          \A b \in {0, 1} :
            LET s == n + b + 1 IN
            /\ EnvPart(n) /\ s < c /\ (b = 1 => baseName(argv[n + 1]) = "busybox") /\ Shell(s)
            /\ argv[c] = "-c" /\ (\A k \in s + 1 .. c - 1 : argv[k] = "-i")
            => baseName(firstToken(argv[c + 1])) \in answer[1]

\* The simulation endpoint foretells what the session's engine decides, by the
\* same rule, unless only the environment of the server sets the default; its
\* trace ends with that rule; and `policy test` agrees whenever a rule decides.
OracleForetells ==
  ask.about = "charter" /\ answer # <<>> =>
    LET g == answer[1].governed
        t == answer[1].trace IN
    /\ ask.charter.default # Unset \/ ask.env # "deny" \/ g.rule # 0 => answer[1].simulated = g
    /\ g.rule # 0 => answer[1].tested = g
    /\ ask.charter.engine # "rego" => IF g.rule = 0 THEN TRUE \notin Range(t)
                                      ELSE Len(t) = g.rule /\ t[g.rule]
=============================================================================
