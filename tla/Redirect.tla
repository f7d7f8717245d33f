------------------------------ MODULE Redirect ------------------------------
(***************************************************************************)
(* The kernel side of strict egress: SetupRedirect (egress/                *)
(* iptables_linux.go) runs iptables commands one by one from an init       *)
(* container or a privileged sidecar.  A command can fail, the process can *)
(* die between two commands, and the orchestrator runs it again in the same*)
(* network namespace, over whatever the earlier runs left there.           *)
(*                                                                         *)
(* The tables are functions from chains to sequences of rules.  Chain names*)
(* are unique over the tables.                                             *)
(***************************************************************************)
EXTENDS Integers, Sequences, SequencesExt, Functions

CONSTANTS
  ResolverLists,  \* values of parseDNSResolvers: sequences of addresses
  Address,        \* IPv4 destinations, "lo" is the loopback
  MaxRefused,     \* bound on commands that fail by themselves
  MaxSetups       \* bound on runs of SetupRedirect

VARIABLES
  resolvers,  \* the resolvers configured for the Citadel
  tables,     \* chain -> sequence of rules
  commands,   \* the commands the current run has not executed yet
  setup,      \* "none", "running", "ok", "error"
  clean,      \* no command of this run failed by itself
  refused, setups

redirVars == <<resolvers, tables, commands, setup, clean, refused, setups>>

RedirInit ==
  /\ resolvers \in ResolverLists
  /\ tables = [c \in {"nat", "filter", "filter6"} |-> <<>>]   \* the three OUTPUT chains
  /\ commands = <<>> /\ setup = "none" /\ clean = TRUE /\ refused = 0 /\ setups = 0

-----------------------------------------------------------------------------
(* The kernel's side, as far as the commands use it *)

\* A rule matches by owner, destination, protocol and port; "any" matches all.
Rule(owner, dst, proto, port, target) ==
  [owner |-> owner, dst |-> dst, proto |-> proto, port |-> port, target |-> target]

Matches(r, p) ==
  /\ r.owner \in {"any", p.owner} /\ r.dst \in {"any", p.dst}
  /\ r.proto \in {"any", p.proto} /\ r.port \in {"any", p.port}

\* What the first matching rule of a chain says, "RETURN" if there is none.
ChainVerdict(c, p) ==
  LET hits == SelectSeq(tables[c], LAMBDA r : Matches(r, p)) IN
  IF hits = <<>> THEN "RETURN" ELSE Head(hits).target

\* The OUTPUT chain of a table jumps to chains until one has a verdict.
OutputVerdict(table, p) ==
  LET hits == SelectSeq(tables[table], LAMBDA r : Matches(r, p) /\ ChainVerdict(r.target, p) # "RETURN") IN
  IF hits = <<>> THEN "ACCEPT" ELSE ChainVerdict(Head(hits).target, p)

Fate(p) == IF OutputVerdict("filter", p) # "ACCEPT" THEN "DROP" ELSE OutputVerdict("nat", p)

CanRun(cmd) ==
  CASE cmd.op = "N" -> cmd.chain \notin DOMAIN tables
    [] cmd.op = "A" -> cmd.chain \in DOMAIN tables /\ cmd.rule.target \in DOMAIN tables \cup {"RETURN", "DROP", "REDIRECT"}
    [] cmd.op = "D" -> cmd.chain \in DOMAIN tables /\ cmd.rule \in ToSet(tables[cmd.chain])
    [] cmd.op = "F" -> cmd.chain \in DOMAIN tables
    [] cmd.op = "X" -> /\ cmd.chain \in DOMAIN tables /\ tables[cmd.chain] = <<>>
                       /\ \A c \in DOMAIN tables : \A r \in ToSet(tables[c]) : r.target # cmd.chain

Effect(cmd) ==
  CASE cmd.op \in {"N", "F"} -> [c \in DOMAIN tables \cup {cmd.chain} |-> IF c = cmd.chain THEN <<>> ELSE tables[c]]
    [] cmd.op = "A" -> [tables EXCEPT ![cmd.chain] = Append(@, cmd.rule)]
    [] cmd.op = "D" -> [tables EXCEPT ![cmd.chain] = RemoveFirst(@, cmd.rule)]
    [] cmd.op = "X" -> Restrict(tables, DOMAIN tables \ {cmd.chain})

-----------------------------------------------------------------------------
(* The commands of SetupRedirect *)

NoRule == Rule("any", "any", "any", "any", "RETURN")
Command(op, chain, rule, strict) == [op |-> op, chain |-> chain, rule |-> rule, strict |-> strict]
Add(chain, owner, dst, proto, port, target) == Command("A", chain, Rule(owner, dst, proto, port, target), TRUE)
New(chain) == Command("N", chain, NoRule, TRUE)

\* Mutant of Flush: the rules are not flushed, so the chain cannot be deleted.
FlushNothing(table, proto, port, chain) ==
  <<Command("D", table, Rule("any", "any", proto, port, chain), FALSE), Command("X", chain, NoRule, FALSE)>>

\* The hook, the rules and the chain of an earlier run; errors are ignored.
Flush(table, proto, port, chain) ==
  <<Command("D", table, Rule("any", "any", proto, port, chain), FALSE),
    Command("F", chain, NoRule, FALSE), Command("X", chain, NoRule, FALSE)>>

\* The proxy's own traffic and the loopback pass.
Exempt(chain) == <<New(chain), Add(chain, "proxy", "any", "any", "any", "RETURN"), Add(chain, "any", "lo", "any", "any", "RETURN")>>

ToResolvers(chain, proto) ==
  [i \in DOMAIN resolvers |-> Add(chain, "any", resolvers[i], proto, "dns", "RETURN")]

NatSteps ==
  Exempt("OUT") \o
  <<Add("OUT", "any", "any", "udp", "dns", "RETURN"), Add("OUT", "any", "any", "tcp", "dns", "RETURN"),
    Add("OUT", "any", "any", "tcp", "any", "REDIRECT"), Add("nat", "any", "any", "tcp", "any", "OUT")>>

\* Without resolvers all of DNS passes; other UDP never does.
UDPSteps ==
  Exempt("UDP") \o
  (IF resolvers # <<>> THEN ToResolvers("UDP", "udp") ELSE <<Add("UDP", "any", "any", "udp", "dns", "RETURN")>>) \o
  <<Add("UDP", "any", "any", "udp", "any", "DROP"), Add("filter", "any", "any", "udp", "any", "UDP")>>

DNSTCPSteps ==
  IF resolvers = <<>> THEN <<>>
  ELSE Exempt("DNST") \o ToResolvers("DNST", "tcp") \o
       <<Add("DNST", "any", "any", "tcp", "dns", "DROP"), Add("filter", "any", "any", "tcp", "dns", "DNST")>>

\* setupDropIPv6: all of it is best effort.
IPv6Steps ==
  LET steps == <<New("OUT6"), Add("OUT6", "any", "lo", "any", "any", "RETURN"),
                 Add("OUT6", "any", "any", "udp", "dns", "RETURN"), Add("OUT6", "any", "any", "tcp", "dns", "RETURN"),
                 Add("OUT6", "any", "any", "any", "any", "DROP"), Add("filter6", "any", "any", "any", "any", "OUT6")>> IN
  Flush("filter6", "any", "any", "OUT6") \o [i \in DOMAIN steps |-> [steps[i] EXCEPT !.strict = FALSE]]

SetupRedirect ==
  /\ setup # "running" /\ setup # "ok" /\ setups < MaxSetups
  /\ setup' = "running" /\ clean' = TRUE /\ setups' = setups + 1
  /\ commands' = Flush("nat", "tcp", "any", "OUT") \o Flush("filter", "udp", "any", "UDP")
               \o Flush("filter", "tcp", "dns", "DNST") \o NatSteps \o UDPSteps \o DNSTCPSteps \o IPv6Steps
  /\ UNCHANGED <<resolvers, tables, refused>>

\* Mutant of CmdFails: an error of a step is logged and the next one tried.
CmdFailsOn(cmd) == commands' = Tail(commands) /\ UNCHANGED setup

\* The first error of a step ends the run.
CmdFails(cmd) ==
  IF cmd.strict THEN setup' = "error" /\ commands' = <<>>
  ELSE commands' = Tail(commands) /\ UNCHANGED setup

\* One command: it takes effect, fails because it cannot apply, or fails by itself.
RunCommand ==
  LET cmd == Head(commands) IN
  /\ setup = "running" /\ commands # <<>>
  /\ \/ CanRun(cmd) /\ tables' = Effect(cmd) /\ commands' = Tail(commands) /\ UNCHANGED <<setup, clean, refused>>
     \/ ~CanRun(cmd) /\ CmdFails(cmd) /\ UNCHANGED <<tables, clean, refused>>
     \/ CanRun(cmd) /\ refused < MaxRefused /\ CmdFails(cmd) /\ refused' = refused + 1 /\ clean' = FALSE /\ UNCHANGED tables
  /\ UNCHANGED <<resolvers, setups>>

Return ==
  /\ setup = "running" /\ commands = <<>>
  /\ setup' = "ok"
  /\ UNCHANGED <<resolvers, tables, commands, clean, refused, setups>>

\* The container is killed, and started again later; or, once it has set the
\* redirect up, it is restarted by the orchestrator and sets it up once more.
Die ==
  /\ setup \in {"running", "ok"} /\ setups < MaxSetups
  /\ setup' = "none" /\ commands' = <<>>
  /\ UNCHANGED <<resolvers, tables, clean, refused, setups>>

RedirNext == SetupRedirect \/ RunCommand \/ Return \/ Die

-----------------------------------------------------------------------------
(* Properties *)

Packets == [owner : {"app", "proxy"}, dst : Address, proto : {"tcp", "udp"}, port : {"dns", "web"}]

\* The promise of SetupRedirect's comment, for IPv4: the proxy's own traffic and
\* the loopback are left alone; DNS passes, to the configured resolvers if there
\* are any; other TCP goes to the proxy and other UDP is dropped.
Intended(p) ==
  CASE p.owner = "proxy" \/ p.dst = "lo" -> "ACCEPT"
    [] p.owner = "app" /\ p.dst # "lo" /\ p.port = "dns" ->
         IF resolvers = <<>> \/ p.dst \in ToSet(resolvers) THEN "ACCEPT" ELSE "DROP"
    [] OTHER -> IF p.proto = "tcp" THEN "REDIRECT" ELSE "DROP"

\* Once SetupRedirect has returned without an error, the kernel treats every kind
\* of packet as intended, whatever failed or died in earlier runs and in this one.
RedirectEnforced == setup = "ok" => \A p \in Packets : Fate(p) = Intended(p)

\* A run whose commands do not fail by themselves succeeds over whatever earlier
\* runs left behind: an aborted setup never locks a Citadel out for good.
RerunRecovers == setup = "error" => ~clean
=============================================================================
