------------------------------- MODULE Egress -------------------------------
(***************************************************************************)
(* The egress proxies of a Citadel: the forward proxy for CONNECT and plain*)
(* HTTP requests (egress/proxy.go), the transparent proxy behind the       *)
(* redirect (egress/transparent_linux.go), the policy and the resolution   *)
(* they share (egress/policy.go, egress/resolve.go), and the bounded log   *)
(* of decisions (egress/decisionlog.go).                                   *)
(*                                                                         *)
(* A name is the sequence of its labels; the text of an address is one     *)
(* label.  The proxies modelled know the Citadel they serve; one that does *)
(* not records nothing.  The transport of Proxy is nil outside its tests.  *)
(***************************************************************************)
EXTENDS Integers, Sequences, SequencesExt

CONSTANTS
  Conn,       \* connections
  Requests,   \* what connections ask for: [kind, auth, name, addr]; no name is <<>>
  Policies,   \* egress policies: [rules, default]
  Answers,    \* Answers[name]: the answers of the resolver, <<>> is a failure
  IPv4,       \* the IPv4 addresses
  NoAddr,     \* no address
  LogSize     \* maxDecisionsPerSandbox

VARIABLES
  policy,  \* the policy of the Citadel
  conn,    \* conn[c]: the connection
  ring,    \* decisionRing: items, next, full
  decided  \* history: all decisions that were recorded

egressVars == <<policy, conn, ring, decided>>

NoItem == [name |-> <<>>, addr |-> NoAddr, allow |-> FALSE]

EgressInit ==
  /\ policy \in Policies
  /\ conn \in [Conn -> {[req |-> q, pc |-> "new", pinned |-> NoAddr, found |-> <<>>] : q \in Requests}]
  /\ ring = [items |-> [i \in 1 .. LogSize |-> NoItem], next |-> 1, full |-> FALSE]
  /\ decided = <<>>

-----------------------------------------------------------------------------
(* Policy.  A rule has a hostname pattern (none is <<>>) and a CIDR, which is *)
(* given by its addresses.                                                    *)

\* "*.suffix" is any name below the suffix, not the suffix itself.
hostnameMatches(pattern, name) ==
  /\ pattern.labels # <<>>
  /\ IF pattern.wild THEN Len(name) > Len(pattern.labels) /\ IsSuffix(pattern.labels, name)
     ELSE pattern.labels = name

FirstVerdict(Matching, default) ==
  IF Matching = {} THEN default
  ELSE policy.rules[CHOOSE i \in Matching : \A j \in Matching : i <= j].verdict = "allow"

NameRules(name) == {i \in DOMAIN policy.rules : hostnameMatches(policy.rules[i], name)}

\* Only a hostname rule that names the host lets it pass.
AllowListedHostname(name) == FirstVerdict(NameRules(name), FALSE)

\* An address goes by the rules that name it or contain it, then by the default.
AllowAddr(addr) ==
  FirstVerdict(NameRules(<<addr>>) \cup {i \in DOMAIN policy.rules : addr \in policy.rules[i].cidr},
               policy.default \in {"", "allow"})

\* The destination the client dialed if it is among the answers, else the first
\* IPv4 address, else the first.
pickPinnedIP(found, hint) ==
  IF hint # NoAddr /\ hint \in ToSet(found) THEN hint
  ELSE LET v4 == SelectSeq(found, LAMBDA a : a \in IPv4) IN Head(v4 \o found)

-----------------------------------------------------------------------------
(* RecordDecision and ListDecisions *)

Put(r, d) ==
  LET n == (r.next % LogSize) + 1 IN
  [items |-> [r.items EXCEPT ![r.next] = d], next |-> n, full |-> r.full \/ n = 1]

Record(name, addr, allow) ==
  LET d == [name |-> name, addr |-> addr, allow |-> allow] IN
  ring' = Put(ring, d) /\ decided' = Append(decided, d)

\* Oldest to newest.
ListDecisions ==
  IF ~ring.full THEN SubSeq(ring.items, 1, ring.next - 1)
  ELSE SubSeq(ring.items, ring.next, LogSize) \o SubSeq(ring.items, 1, ring.next - 1)

-----------------------------------------------------------------------------
(* The handlers *)

Of(c, kind, pc) == conn[c].req.kind = kind /\ conn[c].pc = pc
MoveTo(c, pc) == conn' = [conn EXCEPT ![c].pc = pc]
Quiet == UNCHANGED <<ring, decided>>

Label(q) == IF q.name # <<>> THEN q.name ELSE <<q.addr>>
Refuse(c, addr) == MoveTo(c, "refused") /\ Record(Label(conn[c].req), addr, FALSE)
Pin(c, found, addr) ==
  conn' = [conn EXCEPT ![c].pc = "dial", ![c].found = found, ![c].pinned = addr] /\ Quiet

\* authOK, or an authority or a destination that cannot be read: no decision.
Reject(c) ==
  /\ conn[c].pc = "new" /\ ~conn[c].req.auth
  /\ MoveTo(c, "refused") /\ Quiet /\ UNCHANGED policy

\* A name that is on the list is resolved, one that is not is refused; an
\* address goes by the policy.  A refusal is recorded with the address given.
Screen(c, named, unnamed) ==
  LET q == conn[c].req IN
  /\ q.auth
  /\ CASE q.name # <<>> /\ AllowListedHostname(q.name) -> MoveTo(c, "resolve") /\ Quiet
       [] q.name # <<>> /\ ~AllowListedHostname(q.name) -> Refuse(c, named)
       [] q.name = <<>> /\ AllowAddr(q.addr) -> Pin(c, <<>>, q.addr)
       [] OTHER -> Refuse(c, unnamed)
  /\ UNCHANGED policy

\* pinnedAddrForHost: one resolution, whose result is what will be dialed.
Resolve(c, hint) ==
  \E found \in Answers[conn[c].req.name] \ {<<>>} : Pin(c, found, pickPinnedIP(found, hint))

Unresolved(c) == <<>> \in Answers[conn[c].req.name]

HandleConnect(c) == Of(c, "connect", "new") /\ Screen(c, NoAddr, conn[c].req.addr)
HandleHTTP(c) == Of(c, "http", "new") /\ Screen(c, NoAddr, NoAddr)

ResolveForward(c) ==
  /\ Of(c, "connect", "resolve") \/ Of(c, "http", "resolve")
  /\ Resolve(c, NoAddr) \/ (Unresolved(c) /\ Refuse(c, NoAddr))
  /\ UNCHANGED policy

\* A tunnel is recorded once it stands or the dial has failed; a client that is
\* gone by then leaves no record.
DialConnect(c) ==
  /\ Of(c, "connect", "dial")
  /\ \/ (MoveTo(c, "open") \/ MoveTo(c, "failed")) /\ Record(Label(conn[c].req), conn[c].pinned, TRUE)
     \/ MoveTo(c, "failed") /\ Quiet
  /\ UNCHANGED policy

\* A plain request is recorded before the pinned transport dials.
RecordHTTP(c) ==
  /\ Of(c, "http", "dial")
  /\ MoveTo(c, "recorded") /\ Record(Label(conn[c].req), conn[c].pinned, TRUE)
  /\ UNCHANGED policy

RoundTrip(c) ==
  /\ Of(c, "http", "recorded")
  /\ MoveTo(c, "open") \/ MoveTo(c, "failed")
  /\ Quiet /\ UNCHANGED policy

\* The transparent proxy knows the original destination and perhaps a name it
\* sniffed.  The name decides if there is one.
HandleTransparent(c) == Of(c, "transparent", "new") /\ Screen(c, conn[c].req.addr, conn[c].req.addr)

\* Mutant of ResolveTransparent: the original destination stays the target.
ResolveTransparentKeepsDst(c) ==
  /\ Of(c, "transparent", "resolve")
  /\ \E found \in Answers[conn[c].req.name] \ {<<>>} : Pin(c, found, conn[c].req.addr)
  /\ UNCHANGED policy

\* A failed resolution is recorded, and the refusal once more after the switch.
ResolveTransparent(c) ==
  LET q == conn[c].req
      d(addr) == [name |-> q.name, addr |-> addr, allow |-> FALSE] IN
  /\ Of(c, "transparent", "resolve")
  /\ \/ Resolve(c, q.addr)
     \/ /\ Unresolved(c)
        /\ MoveTo(c, "refused")
        /\ ring' = Put(Put(ring, d(NoAddr)), d(q.addr))
        /\ decided' = decided \o <<d(NoAddr), d(q.addr)>>
  /\ UNCHANGED policy

RecordTransparent(c) ==
  /\ Of(c, "transparent", "dial")
  /\ MoveTo(c, "recorded") /\ Record(Label(conn[c].req), conn[c].pinned, TRUE)
  /\ UNCHANGED policy

Splice(c) ==
  /\ Of(c, "transparent", "recorded")
  /\ MoveTo(c, "open") \/ MoveTo(c, "failed")
  /\ Quiet /\ UNCHANGED policy

EgressNext ==
  \E c \in Conn :
    \/ Reject(c) \/ ResolveForward(c)
    \/ HandleConnect(c) \/ DialConnect(c)
    \/ HandleHTTP(c) \/ RecordHTTP(c) \/ RoundTrip(c)
    \/ HandleTransparent(c) \/ ResolveTransparent(c) \/ RecordTransparent(c) \/ Splice(c)

-----------------------------------------------------------------------------
(* Properties *)

\* Where a connection ends up: at an address the policy allows, or at an
\* address the resolver gave, in this very connection, for a name whose first
\* matching rule allows it; a workload that names an allowed host cannot choose
\* the address behind it.  Every open connection is in the record.
AddressWasAllowed ==
  \A c \in Conn :
    conn[c].pc = "open" =>
      /\ conn[c].req.auth
      /\ IF conn[c].req.name # <<>>
         THEN /\ AllowListedHostname(conn[c].req.name)
              /\ conn[c].pinned \in ToSet(conn[c].found)
         ELSE AllowAddr(conn[c].pinned)
      /\ [name |-> Label(conn[c].req), addr |-> conn[c].pinned, allow |-> TRUE] \in ToSet(decided)

\* The log of a Citadel lists its most recent decisions, oldest first, at every
\* fill level of the ring.
DecisionsAreRecent ==
  ListDecisions = SubSeq(decided, IF Len(decided) > LogSize THEN Len(decided) - LogSize + 1 ELSE 1, Len(decided))

\* The proxies connect a workload only to an address the policy allows or the
\* resolver gave for an allowed name, and list the most recent decisions.
DialedWasAllowed == AddressWasAllowed /\ DecisionsAreRecent
=============================================================================
