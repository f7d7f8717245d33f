--------------------------- MODULE GatewayProofs ----------------------------
(***************************************************************************)
(* Proofs about what stands between a request and the control plane: the   *)
(* key set of the OIDC verifier, the admission webhook, and the HTTP API   *)
(* with the MCP tools beside it; for every number of concurrent requests   *)
(* and every bound.                                                        *)
(***************************************************************************)
EXTENDS MCP, OIDCKeys, Admission, TLAPS

-----------------------------------------------------------------------------
(* OIDCKeys *)

Token == [kid : AllKeys \cup {""}, genuine : BOOLEAN, exp : Nat]

Verifying ==
  [pc : {"none", "look", "again", "check", "lock", "nokey", "fetch", "error", "accepted", "refused"},
   token : Token, steady : BOOLEAN, excused : BOOLEAN]

OIDCTypeOK ==
  /\ time \in Nat /\ published \in Nat
  /\ ver \in [Verification -> Verifying]

\* A steady key is in the set that the provider publishes; and a call that looks
\* a second time finds it unless the cooldown kept it from fetching: what was
\* fetched since the call began has the key, whoever fetched it.
OIDCInv ==
  /\ OIDCTypeOK
  /\ lastRefresh = fetchedAt
  /\ \A c \in Verification :
       /\ ver[c].steady => ver[c].token.kid \in KeySets[published]
       /\ ver[c].pc = "again" /\ ver[c].steady => ver[c].excused \/ ver[c].token.kid \in keys
  /\ NewKeysAreFound

\* What one call changes is its own entry: enough of the new entry is said, and
\* the others keep what holds of them.
LEMMA OIDCEntry ==
  ASSUME OIDCInv, NEW c \in Verification, NEW new \in Verifying,
         ver' = [ver EXCEPT ![c] = new],
         time' = time, published' = published, lastRefresh' = fetchedAt',
         keys' = keys \/ keys' = KeySets[published],
         new.steady => new.token.kid \in KeySets[published],
         new.pc = "again" /\ new.steady => new.excused \/ new.token.kid \in keys',
         new.pc = "nokey" /\ new.steady => new.excused
  PROVE  OIDCInv'
<1>1. /\ ver' \in [Verification -> Verifying] /\ ver'[c] = new
      /\ \A d \in Verification \ {c} : ver'[d] = ver[d]
  BY Zenon DEF OIDCInv, OIDCTypeOK
<1> QED
  BY <1>1, Zenon DEF OIDCInv, OIDCTypeOK, NewKeysAreFound

\* Verify with a token, and its lookups.
LEMMA LookStep ==
  ASSUME OIDCInv, NEW c \in Verification, Present(c) \/ LookUp(c) \/ CheckToken(c)
  PROVE  OIDCInv'
<1>0. ver \in [Verification -> Verifying] /\ time \in Nat /\ published \in Nat
  BY Zenon DEF OIDCInv, OIDCTypeOK
<1>1. CASE Present(c)
  <2>1. PICK k \in AllKeys, g \in BOOLEAN :
          ver' = [ver EXCEPT ![c] = [pc |-> "look", token |-> [kid |-> k, genuine |-> g, exp |-> time + Lifetime],
                                  steady |-> k \in KeySets[published], excused |-> FALSE]]
    BY <1>1, Zenon DEF Present
  <2>b. (k \in KeySets[published]) \in BOOLEAN
    BY SMT
  <2>a. PICK s \in BOOLEAN : s = (k \in KeySets[published])
    BY <2>b, Zenon
  <2> DEFINE new == [pc |-> "look", token |-> [kid |-> k, genuine |-> g, exp |-> time + Lifetime],
                     steady |-> s, excused |-> FALSE]
  <2>2. new \in Verifying
    <3>1. time + Lifetime \in Nat
      BY <1>0, OIDCAssumption, SMTT(60)
    <3>2. [kid |-> k, genuine |-> g, exp |-> time + Lifetime] \in Token
      BY <3>1, Zenon DEF Token
    <3> QED
      BY <3>2, Zenon DEF Verifying
  <2>3. new.pc = "look" /\ (new.steady => new.token.kid \in KeySets[published])
    BY <2>a, Zenon
  <2>4. ver' = [ver EXCEPT ![c] = new]
    BY <2>1, <2>a, Zenon
  <2> HIDE DEF new
  <2> QED
    BY <1>1, <2>2, <2>3, <2>4, OIDCEntry, Zenon DEF Present, OIDCInv
<1>2. CASE LookUp(c)
  <2> DEFINE new == [ver[c] EXCEPT !.pc = IF ver[c].token.kid \in keys THEN "check"
                                          ELSE IF @ = "look" THEN "lock" ELSE "nokey"]
  <2>1. /\ new \in Verifying /\ new.steady = ver[c].steady /\ new.excused = ver[c].excused
        /\ new.token = ver[c].token /\ new.pc # "again"
        /\ new.pc = "nokey" => ver[c].pc = "again" /\ ver[c].token.kid \notin keys
    BY <1>0, <1>2, Zenon DEF LookUp, Verifying
  <2>2. ver' = [ver EXCEPT ![c] = new]
    BY <1>0, <1>2, Zenon DEF LookUp
  <2> HIDE DEF new
  <2> QED
    BY <1>2, <2>1, <2>2, OIDCEntry, ZenonT(60) DEF LookUp, OIDCInv
<1>3. CASE CheckToken(c)
  <2> DEFINE new == [ver[c] EXCEPT !.pc = IF ver[c].token.genuine /\ time < ver[c].token.exp
                                          THEN "accepted" ELSE "refused"]
  <2>1. /\ new \in Verifying /\ new.steady = ver[c].steady
        /\ new.token = ver[c].token /\ new.pc \notin {"again", "nokey"}
    BY <1>0, Zenon DEF Verifying
  <2>2. ver' = [ver EXCEPT ![c] = new]
    BY <1>0, <1>3, Zenon DEF CheckToken
  <2> HIDE DEF new
  <2> QED
    BY <1>3, <2>1, <2>2, OIDCEntry, Zenon DEF CheckToken, OIDCInv
<1> QED
  BY <1>1, <1>2, <1>3, Zenon

\* refreshKeys: the cooldown it observes is the one since the last fetch.
LEMMA RefreshStep ==
  ASSUME OIDCInv, NEW c \in Verification, Lock(c) \/ Fetch(c) \/ FetchFails(c)
  PROVE  OIDCInv'
<1>0. ver \in [Verification -> Verifying] /\ time \in Nat /\ published \in Nat
  BY DEF OIDCInv, OIDCTypeOK
<1>1. CASE Lock(c) /\ time - lastRefresh < Cooldown
  <2>d. (time - fetchedAt < Cooldown) \in BOOLEAN
    BY SMT
  <2>a. PICK e \in BOOLEAN : e = (time - fetchedAt < Cooldown)
    BY <2>d, Zenon
  <2>b. e = TRUE
    BY <1>1, <2>a, Zenon DEF OIDCInv
  <2> DEFINE new == [ver[c] EXCEPT !.pc = "again", !.excused = TRUE]
  <2>2. /\ new \in Verifying /\ new.steady = ver[c].steady /\ new.excused = TRUE
        /\ new.token = ver[c].token /\ new.pc = "again"
    BY <1>0, Zenon DEF Verifying
  <2>c. ver' = [ver EXCEPT ![c].pc = "again", ![c].excused = e]
    BY <1>1, <2>a, Zenon DEF Lock
  <2>3. ver' = [ver EXCEPT ![c] = new]
    BY <1>0, <2>b, <2>c, Zenon DEF Verifying
  <2> HIDE DEF new
  <2> QED
    BY <1>1, <2>2, <2>3, OIDCEntry, Zenon DEF Lock, OIDCInv
<1>2. CASE (Lock(c) /\ ~(time - lastRefresh < Cooldown)) \/ Fetch(c) \/ FetchFails(c)
  <2>1. PICK p \in {"fetch", "again", "error"} :
          ver' = [ver EXCEPT ![c].pc = p] /\ (p = "again" => keys' = KeySets[published])
    BY <1>2, Zenon DEF Lock, Fetch, FetchFails
  <2> DEFINE new == [ver[c] EXCEPT !.pc = p]
  <2>2. /\ new \in Verifying /\ new.steady = ver[c].steady
        /\ new.token = ver[c].token /\ new.pc = p
    BY <1>0, Zenon DEF Verifying
  <2>3. ver' = [ver EXCEPT ![c] = new]
    BY <1>0, <2>1, Zenon
  <2>4. /\ time' = time /\ published' = published /\ lastRefresh' = fetchedAt'
        /\ keys' = keys \/ keys' = KeySets[published]
    BY <1>2, Zenon DEF Lock, Fetch, FetchFails, OIDCInv
  <2>5. ver[c].steady => ver[c].token.kid \in KeySets[published]
    BY Zenon DEF OIDCInv
  <2> HIDE DEF new
  <2> QED
    BY <2>1, <2>2, <2>3, <2>4, <2>5, OIDCEntry, Zenon
<1> QED
  BY <1>1, <1>2, Zenon

\* The provider rotates its keys; time passes.
LEMMA ProviderStep ==
  ASSUME OIDCInv, Rotate \/ OIDCTick
  PROVE  OIDCInv'
<1>0. ver \in [Verification -> Verifying] /\ time \in Nat /\ published \in Nat
  BY Zenon DEF OIDCInv, OIDCTypeOK
<1>1. CASE Rotate
  <2>1. ASSUME NEW c \in Verification
        PROVE  /\ ver'[c] \in Verifying /\ ver'[c].pc = ver[c].pc /\ ver'[c].token = ver[c].token
               /\ ver'[c].excused = ver[c].excused
               /\ ver'[c].steady => ver[c].steady /\ ver[c].token.kid \in KeySets[published + 1]
    <3>a. (ver[c].steady /\ ver[c].token.kid \in KeySets[published + 1]) \in BOOLEAN
      BY Zenon
    <3>1. PICK s \in BOOLEAN : s = (ver[c].steady /\ ver[c].token.kid \in KeySets[published + 1])
      BY <3>a, Zenon
    <3>2. ver'[c] = [ver[c] EXCEPT !.steady = ver[c].steady /\ ver[c].token.kid \in KeySets[published + 1]]
      BY <1>1, Zenon DEF Rotate
    <3>3. ver'[c] = [ver[c] EXCEPT !.steady = s]
      BY <3>1, <3>2, Zenon
    <3>4. s => ver[c].steady /\ ver[c].token.kid \in KeySets[published + 1]
      BY <3>1, Zenon
    <3> QED
      BY <1>0, <3>3, <3>4, ZenonT(60) DEF Verifying
  <2>2. ver' = [c \in Verification |-> ver'[c]]
    BY <1>1, Zenon DEF Rotate
  <2>3. ver' \in [Verification -> Verifying]
    BY <2>1, <2>2, Zenon
  <2>4. /\ published' = published + 1 /\ time' = time /\ keys' = keys
        /\ lastRefresh' = lastRefresh /\ fetchedAt' = fetchedAt
    BY <1>1, Zenon DEF Rotate
  <2> QED
    BY <1>0, <2>1, <2>3, <2>4, SMTT(60) DEF OIDCInv, OIDCTypeOK, NewKeysAreFound
<1>2. CASE OIDCTick
  BY <1>0, <1>2 DEF OIDCTick, OIDCInv, OIDCTypeOK, NewKeysAreFound
<1> QED
  BY <1>1, <1>2, Zenon

\* OIDCVerifier.Verify never locks a published key out for longer than the
\* cooldown after a successful fetch: for any number of concurrent calls, any
\* key sets the provider goes through and any number of failed fetches.
THEOREM NewKeys == OIDCSpec => []NewKeysAreFound
<1>1. OIDCInit => OIDCInv
  <2> SUFFICES ASSUME OIDCInit PROVE OIDCInv
    BY Zenon
  <2>1. Waiting \in Verifying
    BY Zenon DEF Waiting, NoToken, Verifying, Token
  <2>2. Waiting.steady = FALSE
    BY Zenon DEF Waiting
  <2> QED
    BY <2>1, <2>2, Zenon DEF OIDCInit, OIDCInv, OIDCTypeOK, NewKeysAreFound
<1>2. OIDCInv /\ [OIDCNext]_oidcVars => OIDCInv'
  <2>1. CASE UNCHANGED oidcVars
    BY <2>1, Zenon DEF oidcVars, OIDCInv, OIDCTypeOK, NewKeysAreFound
  <2> QED
    BY <2>1, LookStep, RefreshStep, ProviderStep, Zenon DEF OIDCNext
<1>3. OIDCInv => NewKeysAreFound
  BY Zenon DEF OIDCInv
<1> QED
  BY <1>1, <1>2, <1>3, PTL DEF OIDCSpec

-----------------------------------------------------------------------------
(* Admission *)

\* Policy set v is the current one, or was still in force d before t.
InForce(v, t, d) == v \in 1 .. version /\ (v = version \/ t <= replaced[v] + d)

IsAdmission(a) ==
  a \in [hook : {"mutate", "validate"}, pc : {"list", "listed", "failed", "decide", "answered"},
         obj : {a.obj}, v : Nat, at : Nat, allowed : BOOLEAN]

\* How old the policy set in an admission's hands may be, step by step: what a
\* list returned, what the handler decides with, what it decided.
AgeOK(a) ==
  /\ a.pc = "listed" => /\ InForce(a.v, a.at, 0)
                        /\ a.at <= now /\ now <= a.at + ListLatency
  /\ a.pc = "decide" /\ a.v # 0 => InForce(a.v, now, CacheTTL + ListLatency)
  /\ a.pc = "answered" => a.at <= now
  /\ a.pc = "answered" /\ a.allowed => /\ InForce(a.v, a.at, CacheTTL + ListLatency)
                                       /\ Decide(PolicySets[a.v], a.obj)

AdmTypeOK ==
  /\ now \in Nat /\ version \in 1 .. Len(PolicySets)
  /\ replaced \in [DOMAIN PolicySets -> Nat]
  /\ cache \in [loaded : BOOLEAN, v : Nat, at : Nat]
  /\ adm = [r \in Request |-> adm[r]]
  /\ \A r \in Request : IsAdmission(adm[r])

CacheOK == cache.loaded => InForce(cache.v, cache.at, ListLatency) /\ cache.at <= now

AdmInv == AdmTypeOK /\ CacheOK /\ \A r \in Request : AgeOK(adm[r])

\* A step of one admission changes its entry and, at most, the cache.
LEMMA AdmEntry ==
  ASSUME AdmInv, NEW r \in Request, NEW new,
         IsAdmission(new), AgeOK(new), adm' = [adm EXCEPT ![r] = new],
         now' = now, version' = version, replaced' = replaced,
         cache' \in [loaded : BOOLEAN, v : Nat, at : Nat], CacheOK'
  PROVE  AdmInv'
<1>1. /\ adm' = [q \in Request |-> adm'[q]] /\ adm'[r] = new
      /\ \A q \in Request \ {r} : adm'[q] = adm[q]
  BY Zenon DEF AdmInv, AdmTypeOK
<1>2. AdmTypeOK'
  BY <1>1, Zenon DEF AdmInv, AdmTypeOK, IsAdmission
<1>3. \A q \in Request : AgeOK(adm[q])'
  BY <1>1, ZenonT(60) DEF AdmInv, AgeOK, InForce
<1> QED
  BY <1>2, <1>3, Zenon DEF AdmInv

\* policySnapshot, whatever the API server answers.
LEMMA SnapshotStep ==
  ASSUME AdmInv, NEW r \in Request,
         ListPolicies(r) \/ ListFails(r) \/ StoreSnapshot(r) \/ Fallback(r)
  PROVE  AdmInv'
<1> DEFINE a == adm[r]
<1>0. /\ IsAdmission(a) /\ AgeOK(a) /\ CacheOK
      /\ now \in Nat /\ version \in Nat \ {0} /\ adm = [q \in Request |-> adm[q]]
      /\ cache \in [loaded : BOOLEAN, v : Nat, at : Nat]
      /\ \A v \in 1 .. version : replaced[v] \in Nat
  BY AdmAssumption, SMTT(60) DEF AdmInv, AdmTypeOK
<1>1. CASE ListPolicies(r)
  <2> DEFINE new == [a EXCEPT !.pc = "listed", !.v = version, !.at = now]
  <2>1. adm' = [adm EXCEPT ![r] = new]
    BY <1>0, <1>1, Zenon DEF ListPolicies, IsAdmission
  <2>2. IsAdmission(new) /\ AgeOK(new)
    <3>1. /\ IsAdmission(new) /\ new.pc = "listed" /\ new.obj = a.obj
          /\ new.v = version /\ new.at = now /\ new.allowed = a.allowed
      BY <1>0, Zenon DEF IsAdmission
    <3> HIDE DEF new
    <3> QED
      BY <3>1, <1>0, AdmAssumption, SMTT(60) DEF IsAdmission, AgeOK, InForce
  <2> HIDE DEF new
  <2> QED
    BY <1>0, <1>1, <2>1, <2>2, AdmEntry, Zenon DEF ListPolicies, CacheOK, InForce
<1>2. CASE ListFails(r)
  <2> DEFINE new == [a EXCEPT !.pc = "failed"]
  <2>1. adm' = [adm EXCEPT ![r] = new]
    BY <1>0, <1>2, Zenon DEF ListFails, IsAdmission
  <2>2. IsAdmission(new) /\ AgeOK(new)
    <3>1. /\ IsAdmission(new) /\ new.pc = "failed" /\ new.obj = a.obj
          /\ new.v = a.v /\ new.at = a.at /\ new.allowed = a.allowed
      BY <1>0, Zenon DEF IsAdmission
    <3> HIDE DEF new
    <3> QED
      BY <3>1, <1>0, Zenon DEF IsAdmission, AgeOK
  <2> HIDE DEF new
  <2> QED
    BY <1>0, <1>2, <2>1, <2>2, AdmEntry, Zenon DEF ListFails, CacheOK, InForce
<1>3. CASE StoreSnapshot(r)
  <2> DEFINE new == [a EXCEPT !.pc = "decide"]
  <2>1. adm' = [adm EXCEPT ![r] = new]
    BY <1>0, <1>3, Zenon DEF StoreSnapshot, IsAdmission
  <2>2. InForce(a.v, now, ListLatency)
    BY <1>0, <1>3, AdmAssumption, SMTT(60) DEF StoreSnapshot, AgeOK, InForce, IsAdmission
  <2>3. IsAdmission(new) /\ AgeOK(new)
    <3>1. /\ IsAdmission(new) /\ new.pc = "decide" /\ new.obj = a.obj
          /\ new.v = a.v /\ new.at = a.at /\ new.allowed = a.allowed
      BY <1>0, Zenon DEF IsAdmission
    <3> HIDE DEF new
    <3> QED
      BY <3>1, <1>0, <2>2, AdmAssumption, SMTT(60) DEF IsAdmission, AgeOK, InForce
  <2>4. CacheOK' /\ cache' \in [loaded : BOOLEAN, v : Nat, at : Nat]
    BY <1>0, <1>3, <2>2, SMTT(60) DEF StoreSnapshot, CacheOK, InForce, IsAdmission
  <2> HIDE DEF new
  <2> QED
    BY <1>3, <2>1, <2>3, <2>4, AdmEntry, Zenon DEF StoreSnapshot
<1>4. CASE Fallback(r)
  <2>1. PICK v : v = IF Fresh THEN cache.v ELSE 0
    BY Zenon
  <2> DEFINE new == [a EXCEPT !.pc = "decide", !.v = v]
  <2>2. adm' = [adm EXCEPT ![r] = new]
    BY <1>0, <1>4, <2>1, Zenon DEF Fallback, IsAdmission
  <2>3. v \in Nat /\ (v # 0 => InForce(v, now, CacheTTL + ListLatency))
    BY <1>0, <2>1, AdmAssumption, SMTT(60) DEF Fresh, CacheOK, InForce
  <2>4. IsAdmission(new) /\ AgeOK(new)
    <3>1. /\ IsAdmission(new) /\ new.pc = "decide" /\ new.obj = a.obj
          /\ new.v = v /\ new.at = a.at /\ new.allowed = a.allowed
      BY <1>0, <2>3, Zenon DEF IsAdmission
    <3> HIDE DEF new
    <3> QED
      BY <3>1, <1>0, <2>3, Zenon DEF IsAdmission, AgeOK
  <2> HIDE DEF new
  <2> QED
    BY <1>0, <1>4, <2>2, <2>4, AdmEntry, Zenon DEF Fallback, CacheOK, InForce
<1> QED
  BY <1>1, <1>2, <1>3, <1>4, Zenon

\* The two handlers.
LEMMA HandlerStep ==
  ASSUME AdmInv, NEW r \in Request, HandleMutate(r) \/ HandleValidate(r)
  PROVE  AdmInv'
<1> DEFINE a == adm[r]
<1>0. /\ IsAdmission(a) /\ AgeOK(a) /\ CacheOK
      /\ now \in Nat /\ adm = [q \in Request |-> adm[q]]
      /\ cache \in [loaded : BOOLEAN, v : Nat, at : Nat]
  BY Zenon DEF AdmInv, AdmTypeOK
<1>1. CASE HandleMutate(r)
  <2>1. PICK obj : adm' = [adm EXCEPT ![r].hook = "validate", ![r].pc = "list", ![r].obj = obj]
    BY <1>0, <1>1, Zenon DEF HandleMutate, IsAdmission
  <2> DEFINE new == [a EXCEPT !.hook = "validate", !.pc = "list", !.obj = obj]
  <2>2. adm' = [adm EXCEPT ![r] = new]
    BY <1>0, <2>1, Zenon DEF IsAdmission
  <2>3. IsAdmission(new) /\ AgeOK(new)
    <3>1. /\ IsAdmission(new) /\ new.pc = "list" /\ new.obj = obj
          /\ new.v = a.v /\ new.at = a.at /\ new.allowed = a.allowed
      BY <1>0, Zenon DEF IsAdmission
    <3> HIDE DEF new
    <3> QED
      BY <3>1, <1>0, Zenon DEF IsAdmission, AgeOK
  <2> HIDE DEF new
  <2> QED
    BY <1>0, <1>1, <2>2, <2>3, AdmEntry, Zenon DEF HandleMutate, CacheOK, InForce
<1>2. CASE HandleValidate(r)
  <2>1. (a.v # 0 /\ Decide(PolicySets[a.v], a.obj)) \in BOOLEAN
    BY Zenon
  <2>2. PICK ok \in BOOLEAN : ok = (a.v # 0 /\ Decide(PolicySets[a.v], a.obj))
    BY <2>1, Zenon
  <2> DEFINE new == [a EXCEPT !.pc = "answered", !.at = now, !.allowed = ok]
  <2>3. adm' = [adm EXCEPT ![r].pc = "answered", ![r].at = now, ![r].allowed = ok]
    BY <1>2, <2>2, Zenon DEF HandleValidate
  <2>4. adm' = [adm EXCEPT ![r] = new]
    BY <1>0, <2>3, Zenon DEF IsAdmission
  <2>5. ok => a.v # 0 /\ Decide(PolicySets[a.v], a.obj)
    BY <2>2, Zenon
  <2>6. a.v # 0 => InForce(a.v, now, CacheTTL + ListLatency)
    BY <1>0, <1>2, Zenon DEF HandleValidate, AgeOK
  <2>7. IsAdmission(new) /\ AgeOK(new)
    <3>1. /\ IsAdmission(new) /\ new.pc = "answered" /\ new.obj = a.obj
          /\ new.v = a.v /\ new.at = now /\ new.allowed = ok
      BY <1>0, Zenon DEF IsAdmission
    <3> HIDE DEF new
    <3> QED
      BY <3>1, <1>0, <2>5, <2>6 DEF IsAdmission, AgeOK
  <2> HIDE DEF new
  <2> QED
    BY <1>0, <1>2, <2>4, <2>7, AdmEntry, Zenon DEF HandleValidate, CacheOK, InForce
<1> QED
  BY <1>1, <1>2, Zenon

\* The policies are replaced, and time passes.
LEMMA ClusterStep ==
  ASSUME AdmInv, ReplacePolicies \/ AdmTick
  PROVE  AdmInv'
<1>0. /\ now \in Nat /\ version \in Nat \ {0} /\ \A v \in 1 .. version : replaced[v] \in Nat
      /\ \A r \in Request : IsAdmission(adm[r]) /\ AgeOK(adm[r])
      /\ cache \in [loaded : BOOLEAN, v : Nat, at : Nat] /\ CacheOK
  BY AdmAssumption, SMTT(60) DEF AdmInv, AdmTypeOK
<1>1. CASE ReplacePolicies
  <2>1. AdmTypeOK'
    BY <1>0, <1>1, AdmAssumption, SMTT(60) DEF AdmInv, AdmTypeOK, ReplacePolicies, IsAdmission
  <2>2. ASSUME NEW v, NEW t \in Nat, NEW d \in Nat, t <= now + d, InForce(v, t, d)
        PROVE  v \in 1 .. version' /\ (v = version' \/ t <= replaced'[v] + d)
    BY <1>0, <1>1, <2>2, AdmAssumption, SMTT(60) DEF AdmInv, AdmTypeOK, ReplacePolicies, InForce
  <2>3. CacheOK'
    BY <1>0, <1>1, <2>2, AdmAssumption, SMTT(60) DEF CacheOK, InForce, ReplacePolicies
  <2>4. ASSUME NEW r \in Request PROVE AgeOK(adm[r])'
    <3>1. adm[r].v \in Nat /\ adm[r].at \in Nat /\ AgeOK(adm[r])
      BY <1>0, Zenon DEF IsAdmission
    <3>2. now' = now /\ adm' = adm /\ CacheTTL + ListLatency \in Nat
      BY <1>1, AdmAssumption, SMTT(60) DEF ReplacePolicies
    <3>3. adm[r].pc = "listed" => InForce(adm[r].v, adm[r].at, 0)'
      BY <1>0, <2>2, <3>1, <3>2, SMTT(60) DEF AgeOK, InForce
    <3>4. adm[r].pc = "decide" /\ adm[r].v # 0 => InForce(adm[r].v, now, CacheTTL + ListLatency)'
      BY <1>0, <2>2, <3>1, <3>2, SMTT(60) DEF AgeOK, InForce
    <3>5. adm[r].pc = "answered" /\ adm[r].allowed => InForce(adm[r].v, adm[r].at, CacheTTL + ListLatency)'
      BY <1>0, <2>2, <3>1, <3>2, SMTT(60) DEF AgeOK, InForce
    <3> QED
      BY <3>1, <3>2, <3>3, <3>4, <3>5, Zenon DEF AgeOK
  <2> QED
    BY <2>1, <2>3, <2>4, Zenon DEF AdmInv
<1>2. CASE AdmTick
  <2>1. AdmTypeOK'
    BY <1>0, <1>2, SMTT(60) DEF AdmInv, AdmTypeOK, AdmTick, IsAdmission
  <2>2. CacheOK'
    BY <1>0, <1>2, SMTT(60) DEF CacheOK, InForce, AdmTick
  <2>3. ASSUME NEW r \in Request PROVE AgeOK(adm[r])'
    BY <1>0, <1>2, AdmAssumption, SMTT(60) DEF AgeOK, InForce, AdmTick, IsAdmission
  <2> QED
    BY <2>1, <2>2, <2>3, SMTT(60) DEF AdmInv
<1> QED
  BY <1>1, <1>2, Zenon

\* The webhook admits an object only under a policy set that was in force at
\* most the cache's lifetime and a list's latency ago: for any number of
\* requests, any history of policies and any pattern of failing lists.
THEOREM Admitted == AdmSpec => []AdmittedWasChecked
<1>1. AdmInit => AdmInv
  <2> SUFFICES ASSUME AdmInit PROVE AdmInv
    BY Zenon
  <2>1. ASSUME NEW r \in Request PROVE IsAdmission(adm[r]) /\ adm[r].pc = "list"
    <3>1. PICK o \in Objects :
            adm[r] = [hook |-> "mutate", pc |-> "list", obj |-> o, v |-> 0, at |-> 0, allowed |-> FALSE]
      BY Zenon DEF AdmInit
    <3> QED
      BY <3>1 DEF IsAdmission
  <2>2. AdmTypeOK
    BY <2>1, AdmAssumption DEF AdmInit, AdmTypeOK
  <2> QED
    BY <2>1, <2>2, Zenon DEF AdmInit, AdmInv, CacheOK, AgeOK
<1>2. AdmInv /\ [AdmNext]_admVars => AdmInv'
  <2>1. CASE UNCHANGED admVars
    BY <2>1, ZenonT(60) DEF admVars, AdmInv, AdmTypeOK, IsAdmission, CacheOK, AgeOK, InForce
  <2> QED
    BY <2>1, SnapshotStep, HandlerStep, ClusterStep, Zenon DEF AdmNext
<1>3. AdmInv => AdmittedWasChecked
  <2> SUFFICES ASSUME AdmInv, NEW r \in Request, adm[r].pc = "answered", adm[r].allowed
               PROVE  \E v \in 1 .. version :
                        /\ v = version \/ adm[r].at <= replaced[v] + CacheTTL + ListLatency
                        /\ Decide(PolicySets[v], adm[r].obj)
    BY Zenon DEF AdmittedWasChecked
  <2>1. InForce(adm[r].v, adm[r].at, CacheTTL + ListLatency) /\ Decide(PolicySets[adm[r].v], adm[r].obj)
    BY Zenon DEF AdmInv, AgeOK
  <2>2. \A v \in 1 .. version : replaced[v] \in Nat
    BY AdmAssumption, SMTT(60) DEF AdmInv, AdmTypeOK
  <2> QED
    BY <2>1, <2>2, AdmAssumption, SMTT(60) DEF InForce
<1> QED
  BY <1>1, <1>2, <1>3, PTL DEF AdmSpec
-----------------------------------------------------------------------------
(* The HTTP API and the MCP tools: what holds of the state *)

\* A record of a Citadel or a snapshot.  The name of its Charter tells one that
\* was made from one that was not, also after a kill.
CitadelOK(r) ==
  /\ r \in [owner : {r.owner}, charter : {r.charter}, live : BOOLEAN]
  /\ r.live => r.charter # "none"

CohortOK(r) ==
  \/ r = Lifeless
  \/ r.charter # "none" /\ r \in [owner : {r.owner}, charter : {r.charter}, live : BOOLEAN, member : Citadel]

ObjectsOK ==
  /\ citadel = [c \in Citadel |-> citadel[c]] /\ \A c \in Citadel : CitadelOK(citadel[c])
  /\ snap = [n \in Snap |-> snap[n]] /\ \A n \in Snap : CitadelOK(snap[n])
  /\ cohort = [k \in Cohort |-> cohort[k]] /\ \A k \in Cohort : CohortOK(cohort[k])

\* A ticket in the store is the one that was issued and has not been used.
TicketOK(t) ==
  /\ uses[t] \in {0, 1}
  /\ issued[t] = NoTicket => uses[t] = 0 /\ tickets[t] = NoTicket
  /\ tickets[t] # NoTicket => tickets[t] = issued[t] /\ uses[t] = 0
  /\ issued[t].expires \in Int
  /\ issued[t] # NoTicket /\ mode = "rbac" => issued[t].who # Nobody
  /\ issued[t] # NoTicket /\ issued[t].kind # "download" =>
       \E op \in {"terminal", "stream", "ide"} :
         issued[t].kind = KindFor(op) /\ issued[t].path = [op |-> op, on |-> issued[t].path.on]

\* A session of the store serves what its ticket was for, and ends in time.
SessionOK(k) ==
  /\ sessions[k].expires \in Int
  /\ sessions[k] # NoSession =>
       /\ origin[k] \in Ticket
       /\ LET i == issued[origin[k]] IN
          /\ i # NoTicket /\ i.path = [op |-> "ide", on |-> sessions[k].on]
          /\ i.who = sessions[k].who /\ sessions[k].expires <= i.expires + SessionTTL

StoresOK ==
  /\ tickets = [t \in Ticket |-> tickets[t]] /\ issued = [t \in Ticket |-> issued[t]]
  /\ uses = [t \in Ticket |-> uses[t]]
  /\ sessions = [k \in Cookie |-> sessions[k]] /\ origin = [k \in Cookie |-> origin[k]]
  /\ \A t \in Ticket : TicketOK(t)
  /\ \A k \in Cookie : SessionOK(k)

\* The credential of a request, and the principal it stands for.
CredOK(c, p) ==
  /\ mode # "open" => c.by # "nothing"
  /\ c.by \in {"nothing", "token", "stdio", "ticket", "cookie"}
  /\ c.by = "ticket" => c.id \in Ticket /\ issued[c.id] # NoTicket
  /\ c.by = "cookie" => /\ c.id \in Cookie /\ origin[c.id] # "none"
                        /\ origin[c.id] \in Ticket /\ issued[origin[c.id]] # NoTicket
  /\ mode = "rbac" => p # Nobody /\ p = Holder(c)

InTime(q) ==
  /\ q.cred.by = "ticket" =>
       LET i == issued[q.cred.id] IN q.at <= i.expires /\ q.who = i.who /\ i.path = q.target
  /\ q.cred.by = "cookie" =>
       LET i == issued[origin[q.cred.id]] IN
       q.target = i.path /\ q.who = i.who /\ q.at < i.expires + SessionTTL

\* What the guard or the authorization of a tool saw, in so far as no later
\* request can change it: owners and Charters stay.
Cleared(p, x) ==
  /\ x.op \in CitadelOps \cup CitadelTools => citadel[x.on].charter # "none" /\ citadel[x.on].owner = p.tenant
  /\ x.op \in CohortOps \cup CohortTools => cohort[x.on].charter # "none" /\ cohort[x.on].owner = p.tenant
  /\ x.op = "restore" => snap[x.on].charter # "none" /\ snap[x.on].owner = p.tenant
  /\ x.op \in LaunchTools => x.on \in p.profiles
  /\ x.op # "export"

\* A request that is being served.
RequestOK(q) ==
  /\ q.target \in Endpoints \cup Registered
  /\ CredOK(q.cred, q.who)
  /\ q.pc = "handle" => InTime(q)
  /\ mode = "rbac" => q.who.admin \/ Cleared(q.who, q.target)
  /\ q.pc \in {"handle", "filter", "ready"}
  /\ q.pc = "filter" => q.target.op \in {"list", "show"}
  /\ q.pc = "ready" => q.target.op = "browser_open"

Busy(w) == req[w].pc \notin {"idle", "served"}

GatewayInv ==
  /\ clock \in Nat
  /\ ObjectsOK /\ StoresOK
  /\ req = [w \in Worker |-> req[w]]
  /\ \A w \in Worker : Busy(w) => RequestOK(req[w])

\* What the kind of a request says of what it names.
LEMMA TargetFacts ==
  ASSUME NEW x \in Endpoints \cup Registered
  PROVE  /\ x.op \in CitadelOps \cup CitadelTools \cup {"run", "agent", "approve", "ticket"} => x.on \in Citadel
         /\ x.op \in CohortOps \cup CohortTools => x.on \in Cohort
         /\ x.op = "restore" => x.on \in Snap
         /\ x.op \in {"create", "createCohort"} \cup LaunchTools => x.on \in Charters
         /\ x.op \in {"list", "show"} => x.on \in Lists
         /\ x = [op |-> x.op, on |-> x.on]
  BY Zenon DEF Endpoints, Registered, CitadelOps, CohortOps, CitadelTools, GovernedTools, ObservingTools, BrowserTools,
         BoardTools, CohortTools, LaunchTools, FreeTools

\* What a step may do to the objects: what was made keeps its owner and Charter.
Keeps(old, new) == old.charter # "none" => new.charter = old.charter /\ new.owner = old.owner

CitadelsKept ==
  /\ citadel' = [c \in Citadel |-> citadel'[c]]
  /\ \A c \in Citadel : CitadelOK(citadel'[c]) /\ Keeps(citadel[c], citadel'[c])
SnapsKept ==
  /\ snap' = [n \in Snap |-> snap'[n]]
  /\ \A n \in Snap : CitadelOK(snap'[n]) /\ Keeps(snap[n], snap'[n])
CohortsKept ==
  /\ cohort' = [k \in Cohort |-> cohort'[k]]
  /\ \A k \in Cohort : CohortOK(cohort'[k]) /\ Keeps(cohort[k], cohort'[k])
ObjectsKept == CitadelsKept /\ SnapsKept /\ CohortsKept

\* ... and to the stores: what was issued stays what it was.
StoresKept ==
  /\ StoresOK' /\ mode' = mode
  /\ \A t \in Ticket : issued[t] # NoTicket => issued'[t] = issued[t]
  /\ \A k \in Cookie : origin[k] # "none" => origin'[k] = origin[k]

\* A request that was cleared stays so, whatever the others do.
LEMMA RequestKept ==
  ASSUME ObjectsKept, StoresKept, NEW q, RequestOK(q), NEW r,
         r.target = q.target, r.cred = q.cred, r.who = q.who, r.pc \in {"handle", "filter", "ready"},
         r.pc = "handle" => q.pc = "handle" /\ r.at = q.at,
         r.pc = "filter" => r.target.op \in {"list", "show"},
         r.pc = "ready" => r.target.op = "browser_open"
  PROVE  RequestOK(r)'
<1>1. CredOK(r.cred, r.who)'
  BY SMTT(60) DEF RequestOK, CredOK, StoresKept, Holder
<1>2. r.pc = "handle" => InTime(r)'
  BY SMTT(60) DEF RequestOK, CredOK, InTime, StoresKept
<1>3. Cleared(q.who, q.target) => Cleared(r.who, r.target)'
  <2>1. q.target \in Endpoints \cup Registered
    BY Zenon DEF RequestOK
  <2> QED
    BY <2>1, TargetFacts, SMTT(60) DEF Cleared, ObjectsKept, CitadelsKept, SnapsKept, CohortsKept, Keeps
<1> QED
  BY <1>1, <1>2, <1>3, Zenon DEF RequestOK, StoresKept

\* A step of one worker.
LEMMA WorkerStep ==
  ASSUME GatewayInv, ObjectsKept, StoresKept, clock' \in Nat,
         NEW w \in Worker, NEW r, req' = [req EXCEPT ![w] = r],
         r.pc \in {"idle", "served"} \/ RequestOK(r)'
  PROVE  GatewayInv'
<1>1. /\ req' = [v \in Worker |-> req'[v]] /\ req'[w] = r
      /\ \A v \in Worker \ {w} : req'[v] = req[v]
  BY Zenon DEF GatewayInv
<1>2. ASSUME NEW v \in Worker, Busy(v)' PROVE RequestOK(req[v])'
  <2>1. CASE v = w
    BY <1>1, <1>2, <2>1, Zenon DEF Busy
  <2>2. CASE v # w
    <3>1. req'[v] = req[v] /\ RequestOK(req[v])
      BY <1>1, <1>2, <2>2, Zenon DEF Busy, GatewayInv
    <3>2. PICK q : q = req[v]
      BY Zenon
    <3>3. RequestOK(q) /\ q.pc \in {"handle", "filter", "ready"}
      BY <3>1, <3>2, Zenon DEF RequestOK
    <3>4. RequestOK(q)'
      BY <3>3, RequestKept, Zenon DEF RequestOK
    <3>5. req'[v] = q
      BY <3>1, <3>2, Zenon
    <3> QED
      BY <3>4, <3>5, Zenon
  <2> QED
    BY <2>1, <2>2, Zenon
<1>3. ObjectsOK'
  BY Zenon DEF ObjectsKept, CitadelsKept, SnapsKept, CohortsKept, ObjectsOK
<1> QED
  BY <1>1, <1>2, <1>3, Zenon DEF GatewayInv, StoresKept

\* A step that only takes time, or that refuses a request.
LEMMA NoWorkerStep ==
  ASSUME GatewayInv, ObjectsKept, StoresKept, clock' \in Nat, req' = req
  PROVE  GatewayInv'
<1>1. ASSUME NEW v \in Worker, Busy(v)' PROVE RequestOK(req[v])'
  <2>1. PICK q : q = req[v]
    BY Zenon
  <2>2. RequestOK(q) /\ q.pc \in {"handle", "filter", "ready"}
    BY <1>1, <2>1, Zenon DEF RequestOK, Busy, GatewayInv
  <2>3. RequestOK(q)'
    BY <2>2, RequestKept, Zenon DEF RequestOK
  <2>4. req'[v] = q
    BY <2>1, Zenon
  <2> QED
    BY <2>3, <2>4, Zenon
<1>2. ObjectsOK'
  BY Zenon DEF ObjectsKept, CitadelsKept, SnapsKept, CohortsKept, ObjectsOK
<1> QED
  BY <1>1, <1>2, Zenon DEF GatewayInv, StoresKept

\* What is not touched is kept.
LEMMA Untouched ==
  ASSUME GatewayInv
  PROVE  /\ citadel' = citadel => CitadelsKept
         /\ snap' = snap => SnapsKept
         /\ cohort' = cohort => CohortsKept
         /\ UNCHANGED <<setting, stores>> => StoresKept
<1>1. citadel' = citadel => CitadelsKept
  BY Zenon DEF GatewayInv, ObjectsOK, CitadelsKept, Keeps
<1>2. snap' = snap => SnapsKept
  BY Zenon DEF GatewayInv, ObjectsOK, SnapsKept, Keeps
<1>3. cohort' = cohort => CohortsKept
  BY Zenon DEF GatewayInv, ObjectsOK, CohortsKept, Keeps
<1>4. UNCHANGED <<setting, stores>> => StoresKept
  <2> SUFFICES ASSUME UNCHANGED <<setting, stores>> PROVE StoresKept
    BY Zenon
  <2>1. mode' = mode /\ tickets' = tickets /\ issued' = issued /\ uses' = uses /\ sessions' = sessions /\ origin' = origin
    BY Zenon DEF setting, stores
  <2>2. StoresOK
    BY Zenon DEF GatewayInv
  <2>3. \A t \in Ticket : TicketOK(t)'
    BY <2>1, <2>2, Zenon DEF StoresOK, TicketOK
  <2>4. \A k \in Cookie : SessionOK(k)'
    BY <2>1, <2>2, Zenon DEF StoresOK, SessionOK
  <2> QED
    BY <2>1, <2>2, <2>3, <2>4, Zenon DEF StoresOK, StoresKept
<1> QED
  BY <1>1, <1>2, <1>3, <1>4, Zenon

\* An object that was not made.
LEMMA LifelessFacts == Lifeless.charter = "none" /\ Lifeless.owner = "" /\ Lifeless.live = FALSE
  BY Zenon DEF Lifeless

\* New makes a Citadel of what was none.
LEMMA NewKeeps ==
  ASSUME GatewayInv, NEW c \in Citadel, NEW owner, NEW charter, charter # "none", New(c, owner, charter)
  PROVE  CitadelsKept
<1> DEFINE r == [owner |-> owner, charter |-> charter, live |-> TRUE]
<1>1. CitadelOK(r)
  BY Zenon DEF CitadelOK
<1>2. citadel' = [citadel EXCEPT ![c] = r] /\ citadel[c].charter = "none"
  BY LifelessFacts, Zenon DEF New
<1> HIDE DEF r
<1> QED
  BY <1>1, <1>2, Zenon DEF GatewayInv, ObjectsOK, CitadelsKept, Keeps

\* A kill leaves the owner and the Charter.
LEMMA KillKeeps ==
  ASSUME GatewayInv, NEW c \in Citadel, citadel' = [citadel EXCEPT ![c].live = FALSE]
  PROVE  CitadelsKept
<1> DEFINE r == [citadel[c] EXCEPT !.live = FALSE]
<1>1. CitadelOK(citadel[c])
  BY Zenon DEF GatewayInv, ObjectsOK
<1>2. r.owner = citadel[c].owner /\ r.charter = citadel[c].charter /\ CitadelOK(r)
  BY <1>1, Zenon DEF CitadelOK
<1>3. citadel' = [citadel EXCEPT ![c] = r]
  BY Zenon DEF GatewayInv, ObjectsOK
<1> HIDE DEF r
<1> QED
  BY <1>2, <1>3, Zenon DEF GatewayInv, ObjectsOK, CitadelsKept, Keeps

\* A snapshot copies them.
LEMMA SnapshotKeeps ==
  ASSUME GatewayInv, NEW c \in Citadel, NEW n \in Snap, snap[n] = Lifeless, snap' = [snap EXCEPT ![n] = citadel[c]]
  PROVE  SnapsKept
<1>1. CitadelOK(citadel[c]) /\ snap[n].charter = "none"
  BY LifelessFacts, Zenon DEF GatewayInv, ObjectsOK
<1> QED
  BY <1>1, Zenon DEF GatewayInv, ObjectsOK, SnapsKept, Keeps

\* A Cohort is made of what was none, ...
LEMMA NewCohortKeeps ==
  ASSUME GatewayInv, NEW k \in Cohort, NEW owner, NEW charter, NEW c \in Citadel, charter # "none", cohort[k] = Lifeless,
         cohort' = [cohort EXCEPT ![k] = [owner |-> owner, charter |-> charter, live |-> TRUE, member |-> c]]
  PROVE  CohortsKept
<1> DEFINE r == [owner |-> owner, charter |-> charter, live |-> TRUE, member |-> c]
<1>1. CohortOK(r)
  BY Zenon DEF CohortOK
<1>2. cohort' = [cohort EXCEPT ![k] = r] /\ cohort[k].charter = "none"
  BY LifelessFacts, Zenon
<1> HIDE DEF r
<1> QED
  BY <1>1, <1>2, Zenon DEF GatewayInv, ObjectsOK, CohortsKept, Keeps

\* ... and is killed with its member.
LEMMA KillCohortKeeps ==
  ASSUME GatewayInv, NEW k \in Cohort, cohort[k].live, cohort' = [cohort EXCEPT ![k].live = FALSE],
         citadel' = [citadel EXCEPT ![cohort[k].member].live = FALSE]
  PROVE  CohortsKept /\ CitadelsKept
<1> DEFINE r == [cohort[k] EXCEPT !.live = FALSE]
<1>1. /\ cohort[k].charter # "none"
      /\ cohort[k] \in [owner : {cohort[k].owner}, charter : {cohort[k].charter}, live : BOOLEAN, member : Citadel]
  BY LifelessFacts, Zenon DEF GatewayInv, ObjectsOK, CohortOK
<1>2. r.owner = cohort[k].owner /\ r.charter = cohort[k].charter /\ CohortOK(r)
  BY <1>1, Zenon DEF CohortOK
<1>3. cohort' = [cohort EXCEPT ![k] = r]
  BY Zenon DEF GatewayInv, ObjectsOK
<1>4. CohortsKept
  <2> HIDE DEF r
  <2> QED
    BY <1>2, <1>3, Zenon DEF GatewayInv, ObjectsOK, CohortsKept, Keeps
<1>5. cohort[k].member \in Citadel
  BY <1>1, Zenon
<1> QED
  BY <1>4, <1>5, KillKeeps, Zenon

\* issueTicket: the ticket is new, and the expired ones go.
LEMMA IssueKeeps ==
  ASSUME GatewayInv, NEW kind, NEW path, NEW p, IssueTicket(kind, path, p), mode' = mode,
         kind # "none", mode = "rbac" => p # Nobody,
         kind # "download" => \E op \in {"terminal", "stream", "ide"} :
                                kind = KindFor(op) /\ path = [op |-> op, on |-> path.on]
  PROVE  StoresKept
<1>1. PICK t \in Ticket :
        LET new == [kind |-> kind, path |-> path, who |-> p, expires |-> clock + TicketTTL] IN
        /\ issued[t] = NoTicket
        /\ tickets' = [Pruned(tickets, NoTicket) EXCEPT ![t] = new]
        /\ issued' = [issued EXCEPT ![t] = new]
        /\ UNCHANGED <<sessions, uses, origin>>
  BY Zenon DEF IssueTicket
<1> DEFINE new == [kind |-> kind, path |-> path, who |-> p, expires |-> clock + TicketTTL]
<1>2. new # NoTicket /\ new.kind = kind /\ new.path = path /\ new.who = p /\ new.expires \in Int
  <2>1. NoTicket.kind = "none"
    BY Zenon DEF NoTicket
  <2>2. new.kind = kind /\ new.path = path /\ new.who = p /\ new.expires = clock + TicketTTL
    BY Zenon
  <2> HIDE DEF new
  <2> QED
    BY <2>1, <2>2, GatewayAssumption, SMTT(60) DEF GatewayInv
<1>3. /\ issued[t] = NoTicket /\ issued' = [issued EXCEPT ![t] = new]
      /\ tickets' = [Pruned(tickets, NoTicket) EXCEPT ![t] = new]
      /\ sessions' = sessions /\ uses' = uses /\ origin' = origin
  BY <1>1, Zenon
<1> HIDE DEF new
<1>4. StoresOK
  BY Zenon DEF GatewayInv
<1>5. /\ issued'[t] = new /\ \A s \in Ticket \ {t} : issued'[s] = issued[s]
      /\ tickets'[t] = new /\ \A s \in Ticket \ {t} : tickets'[s] \in {NoTicket, tickets[s]}
      /\ tickets' = [s \in Ticket |-> tickets'[s]] /\ issued' = [s \in Ticket |-> issued'[s]]
  BY <1>3, <1>4, Zenon DEF StoresOK, Pruned
<1>6. ASSUME NEW s \in Ticket PROVE TicketOK(s)'
  <2>1. TicketOK(s)
    BY <1>4, Zenon DEF StoresOK
  <2>2. CASE s = t
    BY <1>2, <1>3, <1>5, <2>1, <2>2, Zenon DEF TicketOK
  <2>3. CASE s # t
    BY <1>3, <1>5, <2>1, <2>3, ZenonT(60) DEF TicketOK
  <2> QED
    BY <2>2, <2>3, Zenon
<1>7. ASSUME NEW k \in Cookie PROVE SessionOK(k)'
  BY <1>3, <1>4, <1>5, Zenon DEF StoresOK, SessionOK
<1> QED
  BY <1>3, <1>4, <1>5, <1>6, <1>7, Zenon DEF StoresOK, StoresKept

\* A session that prune leaves is the one that was there, and has not run out.
LEMMA PrunedSessions ==
  ASSUME GatewayInv, NEW k \in Cookie
  PROVE  LET s == Pruned(sessions, NoSession)[k] IN
         s = NoSession \/ (s = sessions[k] /\ clock < sessions[k].expires)
<1>1. k \in DOMAIN sessions /\ clock \in Nat /\ sessions[k].expires \in Int
  BY Zenon DEF GatewayInv, StoresOK, SessionOK
<1>2. Pruned(sessions, NoSession)[k] = IF clock >= sessions[k].expires THEN NoSession ELSE sessions[k]
  BY <1>1, Zenon DEF Pruned
<1> QED
  BY <1>1, <1>2, SMTT(60)

\* consumeTicket and attachIDESession.
LEMMA TicketKeeps ==
  ASSUME GatewayInv, NEW w, NEW x \in Endpoints, NEW t \in Ticket, ByTicket(w, x, t), mode' = mode
  PROVE  StoresKept
<1>0. StoresOK /\ clock \in Nat
  BY Zenon DEF GatewayInv
<1>1. /\ tickets' = [s \in Ticket |-> tickets'[s]] /\ issued' = issued
      /\ tickets'[t] = NoTicket /\ \A s \in Ticket \ {t} : tickets'[s] = tickets[s]
  BY <1>0, Zenon DEF ByTicket, Drop, StoresOK
<1>2. /\ uses' = [s \in Ticket |-> uses'[s]]
      /\ \A s \in Ticket \ {t} : uses'[s] = uses[s]
      /\ uses'[t] = uses[t] \/ (tickets[t] # NoTicket /\ uses'[t] = uses[t] + 1)
  BY <1>0, Zenon DEF ByTicket, StoresOK, TicketFits
<1>3. ASSUME NEW s \in Ticket PROVE TicketOK(s)'
  <2>1. TicketOK(s)
    BY <1>0, Zenon DEF StoresOK
  <2>2. CASE s = t
    <3>1. uses'[t] \in {0, 1} /\ (issued[t] = NoTicket => uses'[t] = 0)
      BY <1>2, <2>1, <2>2, SMTT(60) DEF TicketOK
    <3> QED
      BY <1>1, <2>1, <2>2, <3>1, Zenon DEF TicketOK
  <2>3. CASE s # t
    BY <1>1, <1>2, <2>1, <2>3, Zenon DEF TicketOK
  <2> QED
    BY <2>2, <2>3, Zenon
<1>4. /\ sessions' = [k \in Cookie |-> sessions'[k]] /\ origin' = [k \in Cookie |-> origin'[k]]
      /\ \A k \in Cookie : SessionOK(k)' /\ (origin[k] # "none" => origin'[k] = origin[k])
  <2>1. CASE UNCHANGED <<sessions, origin>>
    BY <1>0, <1>1, <2>1, Zenon DEF StoresOK, SessionOK
  <2>2. CASE /\ x.op = "ide" /\ TicketFits(t, x)
             /\ \E k \in Cookie : origin[k] = "none" /\ AttachIDESession(k, t, x, tickets[t].who)
    <3>1. PICK k \in Cookie : origin[k] = "none" /\ AttachIDESession(k, t, x, tickets[t].who)
      BY <2>2, Zenon
    <3> DEFINE s == [on |-> x.on, who |-> tickets[t].who, expires |-> clock + SessionTTL]
    <3>2. /\ s.on = x.on /\ s.who = tickets[t].who /\ s.expires = clock + SessionTTL
          /\ sessions' = [Pruned(sessions, NoSession) EXCEPT ![k] = s] /\ origin' = [origin EXCEPT ![k] = t]
      BY <3>1, Zenon DEF AttachIDESession
    <3> HIDE DEF s
    <3>3. /\ sessions' = [j \in Cookie |-> sessions'[j]] /\ origin' = [j \in Cookie |-> origin'[j]]
          /\ sessions'[k] = s /\ origin'[k] = t
          /\ \A j \in Cookie \ {k} : sessions'[j] = Pruned(sessions, NoSession)[j] /\ origin'[j] = origin[j]
      BY <1>0, <3>2, Zenon DEF StoresOK, Pruned
    <3>4. SessionOK(k)'
      <4>1. /\ tickets[t] = issued[t] /\ tickets[t] # NoTicket /\ clock <= issued[t].expires /\ issued[t].expires \in Int
            /\ issued[t].kind = "ide" /\ issued[t].path.on = x.on
        BY <1>0, <2>2, Zenon DEF StoresOK, TicketOK, TicketFits, KindFor
      <4>2. issued[t].path = [op |-> "ide", on |-> x.on]
        BY <1>0, <4>1, Zenon DEF StoresOK, TicketOK, KindFor
      <4> QED
        BY <1>0, <1>1, <3>2, <3>3, <4>1, <4>2, GatewayAssumption, SMTT(60) DEF SessionOK
    <3>5. ASSUME NEW j \in Cookie \ {k} PROVE SessionOK(j)'
      <4>1. SessionOK(j) /\ NoSession.expires \in Int
        BY <1>0 DEF StoresOK, NoSession
      <4>2. sessions'[j] = NoSession \/ sessions'[j] = sessions[j]
        BY <3>3, PrunedSessions, Zenon
      <4> QED
        BY <1>1, <3>3, <4>1, <4>2, Zenon DEF SessionOK
    <3> QED
      BY <3>1, <3>3, <3>4, <3>5, Zenon
  <2> QED
    BY <2>1, <2>2, Zenon DEF ByTicket
<1> QED
  BY <1>0, <1>1, <1>2, <1>3, <1>4, Zenon DEF StoresOK, StoresKept

\* ideSessionFromCookie sweeps the sessions.
LEMMA CookieKeeps ==
  ASSUME GatewayInv, NEW w, NEW x, NEW k, ByCookie(w, x, k), mode' = mode
  PROVE  StoresKept
<1>0. StoresOK /\ clock \in Nat
  BY Zenon DEF GatewayInv
<1>1. tickets' = tickets /\ issued' = issued /\ uses' = uses /\ origin' = origin
  BY Zenon DEF ByCookie
<1>2. /\ sessions' = [j \in Cookie |-> sessions'[j]]
      /\ \A j \in Cookie : sessions'[j] = NoSession \/ sessions'[j] = sessions[j]
  <2>1. sessions' = sessions \/ sessions' = Pruned(sessions, NoSession)
    BY Zenon DEF ByCookie
  <2> QED
    BY <1>0, <2>1, PrunedSessions, Zenon DEF StoresOK, Pruned
<1>3. ASSUME NEW j \in Cookie PROVE SessionOK(j)'
  <2>1. SessionOK(j) /\ NoSession.expires \in Int
    BY <1>0, SMTT(60) DEF StoresOK, NoSession
  <2> QED
    BY <1>1, <1>2, <2>1, Zenon DEF SessionOK
<1>4. ASSUME NEW t \in Ticket PROVE TicketOK(t)'
  BY <1>0, <1>1, Zenon DEF StoresOK, TicketOK
<1> QED
  BY <1>0, <1>1, <1>2, <1>3, <1>4, Zenon DEF StoresOK, StoresKept

\* No request of the HTTP API has the name of a tool, and no tool that of a request.
LEMMA OpsDiffer ==
  /\ \A x \in Endpoints : x.op \notin CitadelTools \cup CohortTools \cup LaunchTools \cup FreeTools \cup {"show"}
  /\ \A x \in Registered : x.op \notin CitadelOps \cup CohortOps \cup {"restore", "export"}
  BY DEF Endpoints, Registered, CitadelOps, CohortOps, CitadelTools, GovernedTools, ObservingTools, BrowserTools,
         BoardTools, CohortTools, LaunchTools, FreeTools

\* What lives was made.
LEMMA LiveIsMade ==
  ASSUME GatewayInv
  PROVE  /\ \A c \in Citadel : citadel[c].live => citadel[c].charter # "none"
         /\ \A n \in Snap : snap[n].live => snap[n].charter # "none"
         /\ \A k \in Cohort : cohort[k].live => cohort[k].charter # "none"
<1>1. \A k \in Cohort : cohort[k].live => cohort[k].charter # "none"
  BY LifelessFacts, Zenon DEF GatewayInv, ObjectsOK, CohortOK
<1> QED
  BY <1>1, Zenon DEF GatewayInv, ObjectsOK, CitadelOK

\* ownershipGuard lets a principal through to what is of the same tenant.
LEMMA GuardClears ==
  ASSUME GatewayInv, NEW x \in Endpoints, NEW p, p # Nobody, OwnershipGuard(p, x)
  PROVE  p.admin \/ Cleared(p, x)
<1>1. TenantID(p) = p.tenant
  BY Zenon DEF TenantID
<1> QED
  BY <1>1, OpsDiffer, LiveIsMade, TargetFacts, Zenon DEF OwnershipGuard, Cleared

\* A request with a credential that holds is taken up.
LEMMA AcceptStep ==
  ASSUME GatewayInv, StoresKept, UNCHANGED <<clock, objects>>,
         NEW w \in Worker, NEW x \in Endpoints, NEW c, NEW p, Accept(w, x, c, p),
         CredOK(c, p)', mode = "rbac" => p # Nobody,
         NEW r, r = [pc |-> "handle", target |-> x, cred |-> c, who |-> p,
                     at |-> IF c.by \in {"ticket", "cookie"} THEN clock ELSE 0],
         InTime(r)'
  PROVE  GatewayInv'
<1>1. req' = [req EXCEPT ![w] = r]
  BY Zenon DEF Accept
<1>2. r.pc = "handle" /\ r.target = x /\ r.cred = c /\ r.who = p
  BY Zenon
<1>3. citadel' = citadel /\ snap' = snap /\ cohort' = cohort /\ clock' = clock /\ mode' = mode
  BY Zenon DEF objects, StoresKept
<1>4. mode = "rbac" => p.admin \/ Cleared(p, x)
  BY GuardClears, Zenon DEF Accept
<1>5. Cleared(p, x) => Cleared(p, x)'
  BY <1>3, Zenon DEF Cleared
<1>6. RequestOK(r)'
  BY <1>2, <1>3, <1>4, <1>5, Zenon DEF RequestOK
<1>7. ObjectsKept /\ clock' \in Nat
  BY <1>3, Untouched, Zenon DEF ObjectsKept, GatewayInv
<1> QED
  BY <1>1, <1>6, <1>7, WorkerStep, Zenon

\* A request that is refused leaves no trace but in the stores.
LEMMA RefuseStep ==
  ASSUME GatewayInv, StoresKept, UNCHANGED <<clock, objects>>, Refuse
  PROVE  GatewayInv'
  BY Untouched, NoWorkerStep, Zenon DEF Refuse, objects, ObjectsKept, GatewayInv

\* authenticate, by token or without.
LEMMA TokenStep ==
  ASSUME GatewayInv, UNCHANGED <<setting, clock, objects>>, UNCHANGED stores,
         NEW w \in Worker, NEW x \in Endpoints, NEW c \in Credentials,
         \/ mode = "open" /\ c.by = "nothing" /\ Accept(w, x, c, Nobody)
         \/ mode # "open" /\ c.by = "token" /\ Accept(w, x, c, IF mode = "rbac" THEN c.id ELSE Nobody)
  PROVE  GatewayInv'
<1>1. StoresKept /\ mode' = mode
  BY Untouched, Zenon DEF setting
<1>2. PICK p : /\ Accept(w, x, c, p) /\ (mode = "rbac" => c.by = "token" /\ p = c.id)
               /\ c.by \in {"nothing", "token"} /\ (mode # "open" => c.by = "token")
  BY Zenon
<1>3. mode = "rbac" => p \in Principals
  BY <1>2 DEF Credentials
<1>4. CredOK(c, p)'
  BY <1>1, <1>2, <1>3, GatewayAssumption, Zenon DEF CredOK, Holder
<1>5. PICK r : r = [pc |-> "handle", target |-> x, cred |-> c, who |-> p,
                    at |-> IF c.by \in {"ticket", "cookie"} THEN clock ELSE 0]
  BY Zenon
<1>6. InTime(r)'
  BY <1>2, <1>5, Zenon DEF InTime
<1>7. mode = "rbac" => p # Nobody
  BY <1>3, GatewayAssumption, Zenon
<1> QED
  BY <1>1, <1>2, <1>4, <1>5, <1>6, <1>7, AcceptStep, Zenon

\* authenticate, by ticket: what fits is what was issued.
LEMMA TicketStep ==
  ASSUME GatewayInv, UNCHANGED <<setting, clock, objects>>,
         NEW w \in Worker, NEW x \in Endpoints, NEW t \in Ticket, ByTicket(w, x, t)
  PROVE  GatewayInv'
<1>1. StoresKept /\ mode' = mode
  BY TicketKeeps, Zenon DEF setting
<1>2. CASE ~TicketFits(t, x) \/ Refuse
  BY <1>1, <1>2, RefuseStep, Zenon DEF ByTicket
<1>3. CASE TicketFits(t, x) /\ ~Refuse
  <2> DEFINE c == [by |-> "ticket", id |-> t]
  <2>1. PICK p : p = tickets[t].who /\ Accept(w, x, c, p)
    BY <1>3, Zenon DEF ByTicket, Screen
  <2>2. /\ tickets[t] = issued[t] /\ issued[t] # NoTicket /\ clock <= issued[t].expires
        /\ mode = "rbac" => issued[t].who # Nobody
    BY <1>3, Zenon DEF TicketFits, GatewayInv, StoresOK, TicketOK
  <2>3. issued[t].path = x
    <3>1. CASE issued[t].kind = "download"
      BY <1>3, <2>2, <3>1, Zenon DEF TicketFits
    <3>2. CASE issued[t].kind # "download"
      <4>1. PICK op \in {"terminal", "stream", "ide"} :
              issued[t].kind = KindFor(op) /\ issued[t].path = [op |-> op, on |-> issued[t].path.on]
        BY <2>2, <3>2, Zenon DEF GatewayInv, StoresOK, TicketOK
      <4>2. issued[t].kind = KindFor(x.op) /\ issued[t].path.on = x.on
        BY <1>3, <2>2, <3>2, Zenon DEF TicketFits
      <4>3. x.op = op
        BY <4>1, <4>2, Zenon DEF KindFor
      <4>4. x = [op |-> x.op, on |-> x.on]
        BY TargetFacts, Zenon
      <4> QED
        BY <4>1, <4>2, <4>3, <4>4, Zenon
    <3> QED
      BY <3>1, <3>2, Zenon
  <2>4. issued' = issued /\ clock' = clock
    BY Zenon DEF ByTicket
  <2>5. c.by = "ticket" /\ c.id = t
    BY Zenon
  <2> HIDE DEF c
  <2>6. CredOK(c, p)'
    BY <1>1, <2>1, <2>2, <2>4, <2>5, Zenon DEF CredOK, Holder
  <2>7. PICK r : r = [pc |-> "handle", target |-> x, cred |-> c, who |-> p,
                      at |-> IF c.by \in {"ticket", "cookie"} THEN clock ELSE 0]
    BY Zenon
  <2>8. r.cred = c /\ r.at = clock /\ r.who = p /\ r.target = x
    BY <2>5, <2>7, Zenon
  <2>9. InTime(r)'
    BY <2>1, <2>2, <2>3, <2>4, <2>5, <2>8, Zenon DEF InTime
  <2> QED
    BY <1>1, <2>1, <2>2, <2>6, <2>7, <2>9, AcceptStep, ZenonT(60)
<1> QED
  BY <1>2, <1>3, Zenon

\* authenticate, by cookie.
LEMMA CookieStep ==
  ASSUME GatewayInv, UNCHANGED <<setting, clock, objects>>,
         NEW w \in Worker, NEW x \in Endpoints, NEW k \in Cookie, origin[k] # "none", ByCookie(w, x, k)
  PROVE  GatewayInv'
<1>1. StoresKept /\ mode' = mode
  BY CookieKeeps, Zenon DEF setting
<1>2. CASE Refuse
  BY <1>1, <1>2, RefuseStep, Zenon
<1>3. CASE ~Refuse
  <2> DEFINE c == [by |-> "cookie", id |-> k]
  <2>1. PICK p : /\ p = sessions'[k].who /\ Accept(w, x, c, p)
                 /\ x.op = "ide" /\ sessions'[k] # NoSession /\ sessions'[k].on = x.on
                 /\ sessions' = Pruned(sessions, NoSession)
    BY <1>3, Zenon DEF ByCookie, Screen
  <2>2. sessions'[k] = sessions[k] /\ clock < sessions[k].expires
    BY <2>1, PrunedSessions, Zenon
  <2>3. /\ origin[k] \in Ticket /\ issued[origin[k]] # NoTicket
        /\ issued[origin[k]].path = [op |-> "ide", on |-> x.on] /\ issued[origin[k]].who = p
        /\ sessions[k].expires <= issued[origin[k]].expires + SessionTTL
        /\ sessions[k].expires \in Int /\ issued[origin[k]].expires \in Int /\ clock \in Nat
    <3>1. SessionOK(k) /\ clock \in Nat /\ sessions[k] # NoSession /\ sessions[k].who = p /\ sessions[k].on = x.on
      BY <2>1, <2>2, Zenon DEF GatewayInv, StoresOK
    <3>2. origin[k] \in Ticket /\ TicketOK(origin[k])
      BY <3>1, Zenon DEF SessionOK, GatewayInv, StoresOK
    <3> QED
      BY <3>1, <3>2, Zenon DEF SessionOK, TicketOK
  <2>4. mode = "rbac" => p # Nobody
    BY <2>3, Zenon DEF GatewayInv, StoresOK, TicketOK
  <2>5. issued' = issued /\ origin' = origin /\ clock' = clock
    BY Zenon DEF ByCookie
  <2>6. issued[origin[k]].path = x
    <3>1. x = [op |-> x.op, on |-> x.on]
      BY TargetFacts, Zenon
    <3> QED
      BY <2>1, <2>3, <3>1, Zenon
  <2>7. c.by = "cookie" /\ c.id = k
    BY Zenon
  <2> HIDE DEF c
  <2>8. CredOK(c, p)'
    BY <1>1, <2>3, <2>4, <2>5, <2>7, Zenon DEF CredOK, Holder
  <2>9. PICK r : r = [pc |-> "handle", target |-> x, cred |-> c, who |-> p,
                      at |-> IF c.by \in {"ticket", "cookie"} THEN clock ELSE 0]
    BY Zenon
  <2>10. r.cred = c /\ r.at = clock /\ r.who = p /\ r.target = x
    BY <2>7, <2>9, Zenon
  <2>11. clock < issued[origin[k]].expires + SessionTTL
    BY <2>2, <2>3, GatewayAssumption, SMTT(60)
  <2>12. InTime(r)'
    BY <2>3, <2>5, <2>6, <2>7, <2>10, <2>11, Zenon DEF InTime
  <2> QED
    BY <1>1, <2>1, <2>4, <2>8, <2>9, <2>12, AcceptStep, Zenon
<1> QED
  BY <1>2, <1>3, Zenon

\* What the four kinds of credentials carry.
LEMMA CredentialKinds ==
  ASSUME NEW c \in Credentials
  PROVE  /\ c.by \in {"nothing", "token", "ticket", "cookie"}
         /\ c.by = "token" => c = [by |-> "token", id |-> c.id]
         /\ c.by = "ticket" => c.id \in Ticket
         /\ c.by = "cookie" => c.id \in Cookie /\ origin[c.id] # "none"
<1>1. PICK tokens : tokens = IF mode = "rbac" THEN Principals ELSE {CHOOSE p \in Principals : TRUE}
  BY Zenon
<1>2. \/ c = [by |-> "nothing", id |-> "none"]
      \/ c \in [by: {"token"}, id: tokens]
      \/ c \in [by: {"ticket"}, id: {t \in Ticket : issued[t] # NoTicket}]
      \/ c \in [by: {"cookie"}, id: {k \in Cookie : origin[k] # "none"}]
  BY <1>1, Zenon DEF Credentials
<1>3. CASE c = [by |-> "nothing", id |-> "none"]
  BY <1>3, Zenon
<1>4. CASE c \in [by: {"token"}, id: tokens]
  BY <1>4, Zenon
<1>5. CASE c \in [by: {"ticket"}, id: {t \in Ticket : issued[t] # NoTicket}]
  BY <1>5, Zenon
<1>6. CASE c \in [by: {"cookie"}, id: {k \in Cookie : origin[k] # "none"}]
  BY <1>6, Zenon
<1> QED
  BY <1>2, <1>3, <1>4, <1>5, <1>6, Zenon

\* authenticate and ownershipGuard.
LEMMA AuthenticateStep ==
  ASSUME GatewayInv, NEW w \in Worker, Authenticate(w)
  PROVE  GatewayInv'
<1>1. UNCHANGED <<setting, clock, objects>>
  BY Zenon DEF Authenticate
<1>2. PICK x \in Targets, c \in Credentials :
        \/ mode = "open" /\ c.by = "nothing" /\ Accept(w, x, c, Nobody) /\ UNCHANGED stores
        \/ mode # "open" /\ c.by = "ticket" /\ ByTicket(w, x, c.id)
        \/ mode # "open" /\ c.by = "cookie" /\ ByCookie(w, x, c.id)
        \/ mode # "open" /\ c.by = "token" /\ ByToken(w, x, c.id)
  BY Zenon DEF Authenticate
<1>3. x \in Endpoints
  BY Zenon DEF Targets
<1>4. CASE mode = "open" /\ c.by = "nothing" /\ Accept(w, x, c, Nobody) /\ UNCHANGED stores
  BY <1>1, <1>3, <1>4, TokenStep, Zenon
<1>5. CASE mode # "open" /\ c.by = "token" /\ ByToken(w, x, c.id)
  <2>1. c = [by |-> "token", id |-> c.id]
    BY <1>5, CredentialKinds, Zenon
  <2> QED
    BY <1>1, <1>3, <1>5, <2>1, TokenStep, Zenon DEF ByToken
<1>6. CASE c.by = "ticket" /\ ByTicket(w, x, c.id)
  <2>1. c.id \in Ticket
    BY <1>6, CredentialKinds, Zenon
  <2> QED
    BY <1>1, <1>3, <1>6, <2>1, TicketStep, Zenon
<1>7. CASE c.by = "cookie" /\ ByCookie(w, x, c.id)
  <2>1. c.id \in Cookie /\ origin[c.id] # "none"
    BY <1>7, CredentialKinds, Zenon
  <2> QED
    BY <1>1, <1>3, <1>7, <2>1, CookieStep, Zenon
<1> QED
  BY <1>2, <1>4, <1>5, <1>6, <1>7, Zenon

\* A handler that ends, with an answer or without.
LEMMA AnswerStep ==
  ASSUME GatewayInv, ObjectsKept, StoresKept, clock' = clock, NEW w \in Worker, NEW shown,
         req' = [req EXCEPT ![w] = Answer(shown)] \/ req' = [req EXCEPT ![w] = Idle]
  PROVE  GatewayInv'
<1>1. Answer(shown).pc = "served" /\ Idle.pc = "idle" /\ clock' \in Nat
  BY Zenon DEF Answer, Idle, GatewayInv
<1> QED
  BY <1>1, WorkerStep, Zenon

\* The handlers that leave the objects as they are.
LEMMA LookingStep ==
  ASSUME GatewayInv, NEW w \in Worker,
         \/ Fail(w) \/ HandleTool(w) \/ HandleRead(w) \/ HandleTerminal(w) \/ HandleConversationStream(w)
         \/ HandleIDE(w) \/ HandleTask(w) \/ HandleGetRun(w) \/ HandleAgentSession(w) \/ ResolveApproval(w)
         \/ HandleAuditExport(w) \/ FilterList(w)
  PROVE  GatewayInv'
<1>1. /\ UNCHANGED <<setting, stores>> /\ citadel' = citadel /\ snap' = snap /\ cohort' = cohort /\ clock' = clock
      /\ \E shown : req' = [req EXCEPT ![w] = Answer(shown)] \/ req' = [req EXCEPT ![w] = Idle]
  BY Zenon DEF Fail, HandleTool, HandleRead, HandleTerminal, HandleConversationStream, HandleIDE, HandleTask, HandleGetRun,
         HandleAgentSession, ResolveApproval, HandleAuditExport, FilterList, objects, Ok, Served
<1> QED
  BY <1>1, Untouched, AnswerStep, Zenon DEF ObjectsKept

\* The handlers that make, kill or capture.
LEMMA MakingStep ==
  ASSUME GatewayInv, NEW w \in Worker,
         \/ HandleCreateSandbox(w) \/ HandleKillSandbox(w) \/ HandleSnapshot(w) \/ HandleRestoreSnapshot(w)
         \/ HandleCreateFleet(w) \/ HandleKillFleet(w)
  PROVE  GatewayInv'
<1> DEFINE x == req[w].target
<1>0. req[w].pc = "handle" /\ UNCHANGED <<setting, stores>> /\ clock' = clock /\ req' = [req EXCEPT ![w] = Answer({})]
  BY Zenon DEF HandleCreateSandbox, HandleKillSandbox, HandleSnapshot, HandleRestoreSnapshot, HandleCreateFleet,
         HandleKillFleet, Serving, Ok, Served
<1>1. x \in Endpoints \cup Registered
  BY <1>0, Zenon DEF GatewayInv, Busy, RequestOK
<1>2. StoresKept
  BY <1>0, Untouched, Zenon
<1>3. CASE HandleCreateSandbox(w)
  <2>1. x.on # "none"
    BY <1>1, <1>3, TargetFacts, GatewayAssumption, Zenon DEF HandleCreateSandbox, Serving
  <2>2. CitadelsKept
    BY <1>3, <2>1, NewKeeps, Zenon DEF HandleCreateSandbox, On
  <2> QED
    BY <1>0, <1>2, <1>3, <2>2, Untouched, AnswerStep, Zenon DEF HandleCreateSandbox, ObjectsKept
<1>4. CASE HandleKillSandbox(w)
  <2>1. x.on \in Citadel
    BY <1>1, <1>4, TargetFacts, Zenon DEF HandleKillSandbox, Serving, CitadelOps
  <2>2. CitadelsKept
    BY <1>4, <2>1, KillKeeps, Zenon DEF HandleKillSandbox, On
  <2> QED
    BY <1>0, <1>2, <1>4, <2>2, Untouched, AnswerStep, Zenon DEF HandleKillSandbox, ObjectsKept
<1>5. CASE HandleSnapshot(w)
  <2>1. x.on \in Citadel
    BY <1>1, <1>5, TargetFacts, Zenon DEF HandleSnapshot, Serving, CitadelOps
  <2>2. SnapsKept
    BY <1>5, <2>1, SnapshotKeeps, Zenon DEF HandleSnapshot, On
  <2> QED
    BY <1>0, <1>2, <1>5, <2>2, Untouched, AnswerStep, Zenon DEF HandleSnapshot, ObjectsKept
<1>6. CASE HandleRestoreSnapshot(w)
  <2>1. snap[x.on].charter # "none"
    BY <1>1, <1>6, TargetFacts, LiveIsMade, Zenon DEF HandleRestoreSnapshot, Serving, On
  <2>2. CitadelsKept
    BY <1>6, <2>1, NewKeeps, Zenon DEF HandleRestoreSnapshot, On
  <2> QED
    BY <1>0, <1>2, <1>6, <2>2, Untouched, AnswerStep, Zenon DEF HandleRestoreSnapshot, ObjectsKept
<1>7. CASE HandleCreateFleet(w)
  <2>1. x.on # "none"
    BY <1>1, <1>7, TargetFacts, GatewayAssumption, Zenon DEF HandleCreateFleet, Serving
  <2>2. CitadelsKept /\ CohortsKept
    BY <1>7, <2>1, NewKeeps, NewCohortKeeps, Zenon DEF HandleCreateFleet, On
  <2> QED
    BY <1>0, <1>2, <1>7, <2>2, Untouched, AnswerStep, Zenon DEF HandleCreateFleet, ObjectsKept
<1>8. CASE HandleKillFleet(w)
  <2>1. x.on \in Cohort
    BY <1>1, <1>8, TargetFacts, Zenon DEF HandleKillFleet, Serving, CohortOps
  <2>2. CitadelsKept /\ CohortsKept
    BY <1>8, <2>1, KillCohortKeeps, Zenon DEF HandleKillFleet, On
  <2> QED
    BY <1>0, <1>2, <1>8, <2>2, Untouched, AnswerStep, Zenon DEF HandleKillFleet, ObjectsKept
<1> QED
  BY <1>3, <1>4, <1>5, <1>6, <1>7, <1>8, Zenon

\* The handlers that give tickets.
LEMMA GrantingStep ==
  ASSUME GatewayInv, NEW w \in Worker, HandleCreateTicket(w) \/ HandleTerminalTicket(w) \/ HandleIDETicket(w)
  PROVE  GatewayInv'
<1>1. /\ req[w].pc = "handle" /\ mode' = mode /\ clock' = clock /\ req' = [req EXCEPT ![w] = Answer({})]
      /\ citadel' = citadel /\ snap' = snap /\ cohort' = cohort
  BY Zenon DEF HandleCreateTicket, HandleTerminalTicket, HandleIDETicket, Serving, Ok, Served, setting, objects
<1>2. mode = "rbac" => Caller(w) # Nobody
  BY <1>1, Zenon DEF GatewayInv, Busy, RequestOK, CredOK, Caller
<1>3. StoresKept
  <2>1. PICK kind, path : /\ IssueTicket(kind, path, Caller(w))
                          /\ \/ kind = "download"
                             \/ \E op \in {"terminal", "stream", "ide"} :
                                  kind = KindFor(op) /\ path = [op |-> op, on |-> On(w)]
    BY Zenon DEF HandleCreateTicket, HandleTerminalTicket, HandleIDETicket, KindFor
  <2>2. kind # "none"
    BY <2>1, Zenon DEF KindFor
  <2>3. kind # "download" => \E op \in {"terminal", "stream", "ide"} :
                               kind = KindFor(op) /\ path = [op |-> op, on |-> path.on]
    BY <2>1
  <2> QED
    BY <1>1, <1>2, <2>1, <2>2, <2>3, IssueKeeps, Zenon
<1> QED
  BY <1>1, <1>3, Untouched, AnswerStep, Zenon DEF ObjectsKept

\* A request goes on to its next step.
LEMMA GoOnStep ==
  ASSUME GatewayInv, ObjectsKept, StoresKept, clock' = clock, NEW w \in Worker, req[w].pc = "handle",
         NEW r, req' = [req EXCEPT ![w] = r],
         r.target = req[w].target, r.cred = req[w].cred, r.who = req[w].who, r.pc \in {"filter", "ready"},
         r.pc = "filter" => r.target.op \in {"list", "show"},
         r.pc = "ready" => r.target.op = "browser_open"
  PROVE  GatewayInv'
<1>1. PICK q : q = req[w]
  BY Zenon
<1>2. RequestOK(q)
  BY <1>1, Zenon DEF GatewayInv, Busy
<1>3. RequestOK(r)'
  BY <1>1, <1>2, RequestKept, Zenon
<1> QED
  BY <1>3, WorkerStep, Zenon DEF GatewayInv

\* The lists of the HTTP API and of the tools.
LEMMA ListStep ==
  ASSUME GatewayInv, NEW w \in Worker, HandleList(w) \/ ListTool(w)
  PROVE  GatewayInv'
<1>1. /\ UNCHANGED <<setting, stores>> /\ citadel' = citadel /\ snap' = snap /\ cohort' = cohort /\ clock' = clock
      /\ req[w].pc = "handle" /\ req[w].target.op \in {"list", "show"}
  BY Zenon DEF HandleList, ListTool, objects, quiet, Serving
<1>2. ObjectsKept /\ StoresKept
  BY <1>1, Untouched, Zenon DEF ObjectsKept
<1>3. PICK at : \/ req' = [req EXCEPT ![w] = Answer(All(On(w)))]
                \/ req' = [req EXCEPT ![w] = [pc |-> "filter", target |-> req[w].target, cred |-> req[w].cred,
                                              who |-> Caller(w), at |-> at, items |-> All(On(w))]]
  BY Zenon DEF HandleList, ListTool
<1>4. CASE req' = [req EXCEPT ![w] = Answer(All(On(w)))]
  BY <1>1, <1>2, <1>4, AnswerStep, Zenon
<1>5. CASE req' = [req EXCEPT ![w] = [pc |-> "filter", target |-> req[w].target, cred |-> req[w].cred,
                                      who |-> Caller(w), at |-> at, items |-> All(On(w))]]
  <2>1. PICK r : r = [pc |-> "filter", target |-> req[w].target, cred |-> req[w].cred,
                      who |-> Caller(w), at |-> at, items |-> All(On(w))]
    BY Zenon
  <2>2. /\ r.target = req[w].target /\ r.cred = req[w].cred /\ r.who = req[w].who /\ r.pc = "filter"
        /\ req' = [req EXCEPT ![w] = r]
    BY <1>5, <2>1, Zenon DEF Caller
  <2> QED
    BY <1>1, <1>2, <2>2, GoOnStep, Zenon
<1> QED
  BY <1>3, <1>4, <1>5, Zenon

\* Time passes.
LEMMA TickStep ==
  ASSUME GatewayInv, Tick
  PROVE  GatewayInv'
  BY Untouched, NoWorkerStep, SMTT(60) DEF Tick, objects, ObjectsKept, GatewayInv

\* A tool call is taken up: its caller and what it names have been looked up.
LEMMA CallToolStep ==
  ASSUME GatewayInv, NEW w \in Worker, CallTool(w)
  PROVE  GatewayInv'
<1>1. /\ UNCHANGED <<setting, stores>> /\ citadel' = citadel /\ snap' = snap /\ cohort' = cohort /\ clock' = clock
      /\ mode' = mode
  BY Zenon DEF CallTool, objects, setting
<1>2. ObjectsKept /\ StoresKept
  BY <1>1, Untouched, Zenon DEF ObjectsKept
<1>3. PICK x \in Tools, c \in Bearers :
        /\ Resolves(c) /\ Authorized(Resolved(c), x)
        /\ req' = [req EXCEPT ![w] = [pc |-> "handle", target |-> x, cred |-> c, who |-> Resolved(c), at |-> 0]]
  BY Zenon DEF CallTool
<1>4. PICK p : p = Resolved(c)
  BY Zenon
<1>5. PICK r : r = [pc |-> "handle", target |-> x, cred |-> c, who |-> p, at |-> 0]
  BY Zenon
<1>6. r.pc = "handle" /\ r.target = x /\ r.cred = c /\ r.who = p /\ req' = [req EXCEPT ![w] = r]
  BY <1>3, <1>4, <1>5, Zenon
<1>7. c.by \in {"token", "stdio"} /\ (mode = "rbac" => p = c.id /\ p # Nobody)
  BY <1>3, <1>4, SMTT(60) DEF Bearers, Resolves, Resolved
<1>8. CredOK(c, p)' /\ InTime(r)'
  BY <1>1, <1>6, <1>7, Zenon DEF CredOK, InTime, Holder
<1>9. x \in Registered
  BY Zenon DEF Tools
<1>10. p # Nobody => p.admin \/ Cleared(p, x)
  <2> SUFFICES ASSUME p # Nobody, ~p.admin PROVE Cleared(p, x)
    BY Zenon
  <2>1. Owner(p) = p.tenant
    BY Zenon DEF Owner
  <2>2. Authorized(p, x)
    BY <1>3, <1>4, Zenon
  <2> QED
    BY <1>9, <2>1, <2>2, OpsDiffer, LiveIsMade, TargetFacts, Zenon
    DEF Authorized, AuthorizeSandbox, AuthorizeFleet, MayLaunch, CanLaunch, Cleared
<1>11. Cleared(p, x) => Cleared(p, x)'
  BY <1>1, Zenon DEF Cleared
<1>12. RequestOK(r)'
  BY <1>1, <1>6, <1>7, <1>8, <1>9, <1>10, <1>11, Zenon DEF RequestOK
<1> QED
  BY <1>1, <1>2, <1>6, <1>12, WorkerStep, Zenon DEF GatewayInv

\* The tools that leave the objects as they are.
LEMMA LookingToolStep ==
  ASSUME GatewayInv, NEW w \in Worker,
         \/ Exec(w) \/ Observe(w) \/ BrowserReady(w) \/ BrowserUnready(w) \/ BrowserAct(w) \/ BrowserClose(w)
         \/ UseBoard(w) \/ Inform(w) \/ FilterTool(w)
  PROVE  GatewayInv'
<1>1. /\ UNCHANGED <<setting, stores>> /\ citadel' = citadel /\ snap' = snap /\ cohort' = cohort /\ clock' = clock
      /\ \E shown : req' = [req EXCEPT ![w] = Answer(shown)] \/ req' = [req EXCEPT ![w] = Idle]
  BY Zenon DEF Exec, Observe, BrowserReady, BrowserUnready, BrowserAct, BrowserClose, UseBoard, Inform, FilterTool, objects,
         quiet, Ok, Served
<1> QED
  BY <1>1, Untouched, AnswerStep, Zenon DEF ObjectsKept

\* A browser is opened.
LEMMA BrowserOpenStep ==
  ASSUME GatewayInv, NEW w \in Worker, BrowserOpen(w)
  PROVE  GatewayInv'
<1>1. /\ UNCHANGED <<setting, stores>> /\ citadel' = citadel /\ snap' = snap /\ cohort' = cohort /\ clock' = clock
      /\ req[w].pc = "handle" /\ req[w].target.op = "browser_open"
  BY Zenon DEF BrowserOpen, quiet, Serving
<1>2. ObjectsKept /\ StoresKept
  BY <1>1, Untouched, Zenon DEF ObjectsKept
<1>3. PICK b : \/ req' = [req EXCEPT ![w] = Answer({})]
               \/ req' = [req EXCEPT ![w] = [pc |-> "ready", target |-> req[w].target, cred |-> req[w].cred,
                                             who |-> Caller(w), at |-> 0, driver |-> b]]
  BY Zenon DEF BrowserOpen, Ok, Served
<1>4. CASE req' = [req EXCEPT ![w] = Answer({})]
  BY <1>1, <1>2, <1>4, AnswerStep, Zenon
<1>5. CASE req' = [req EXCEPT ![w] = [pc |-> "ready", target |-> req[w].target, cred |-> req[w].cred,
                                      who |-> Caller(w), at |-> 0, driver |-> b]]
  <2>1. PICK r : r = [pc |-> "ready", target |-> req[w].target, cred |-> req[w].cred,
                      who |-> Caller(w), at |-> 0, driver |-> b]
    BY Zenon
  <2>2. /\ r.target = req[w].target /\ r.cred = req[w].cred /\ r.who = req[w].who /\ r.pc = "ready"
        /\ req' = [req EXCEPT ![w] = r]
    BY <1>5, <2>1, Zenon DEF Caller
  <2> QED
    BY <1>1, <1>2, <2>2, GoOnStep, Zenon
<1> QED
  BY <1>3, <1>4, <1>5, Zenon

\* The tools that make, kill or capture.
LEMMA MakingToolStep ==
  ASSUME GatewayInv, NEW w \in Worker,
         CreateCitadel(w) \/ KillCitadel(w) \/ SnapshotCitadel(w) \/ CreateCohort(w) \/ KillCohort(w)
  PROVE  GatewayInv'
<1> DEFINE x == req[w].target
<1>0. req[w].pc = "handle" /\ UNCHANGED <<setting, stores>> /\ clock' = clock /\ req' = [req EXCEPT ![w] = Answer({})]
  BY Zenon DEF CreateCitadel, KillCitadel, SnapshotCitadel, CreateCohort, KillCohort, quiet, Serving, Ok, Served
<1>1. x \in Endpoints \cup Registered
  BY <1>0, Zenon DEF GatewayInv, Busy, RequestOK
<1>2. StoresKept
  BY <1>0, Untouched, Zenon
<1>3. CASE CreateCitadel(w)
  <2>1. x.on # "none"
    BY <1>1, <1>3, TargetFacts, GatewayAssumption, Zenon DEF CreateCitadel, Serving, LaunchTools
  <2>2. CitadelsKept
    BY <1>3, <2>1, NewKeeps, Zenon DEF CreateCitadel, On
  <2> QED
    BY <1>0, <1>2, <1>3, <2>2, Untouched, AnswerStep, Zenon DEF CreateCitadel, ObjectsKept
<1>4. CASE KillCitadel(w)
  <2>1. x.on \in Citadel
    BY <1>1, <1>4, TargetFacts, Zenon DEF KillCitadel, Serving, CitadelTools
  <2>2. CitadelsKept
    BY <1>4, <2>1, KillKeeps, Zenon DEF KillCitadel, On
  <2> QED
    BY <1>0, <1>2, <1>4, <2>2, Untouched, AnswerStep, Zenon DEF KillCitadel, ObjectsKept
<1>5. CASE SnapshotCitadel(w)
  <2>1. x.on \in Citadel
    BY <1>1, <1>5, TargetFacts, Zenon DEF SnapshotCitadel, Serving, CitadelTools
  <2>2. SnapsKept
    BY <1>5, <2>1, SnapshotKeeps, Zenon DEF SnapshotCitadel, On
  <2> QED
    BY <1>0, <1>2, <1>5, <2>2, Untouched, AnswerStep, Zenon DEF SnapshotCitadel, ObjectsKept
<1>6. CASE CreateCohort(w)
  <2>1. x.on # "none"
    BY <1>1, <1>6, TargetFacts, GatewayAssumption, Zenon DEF CreateCohort, Serving, LaunchTools
  <2>2. CitadelsKept /\ CohortsKept
    BY <1>6, <2>1, NewKeeps, NewCohortKeeps, Zenon DEF CreateCohort, On
  <2> QED
    BY <1>0, <1>2, <1>6, <2>2, Untouched, AnswerStep, Zenon DEF CreateCohort, ObjectsKept
<1>7. CASE KillCohort(w)
  <2>1. x.on \in Cohort
    BY <1>1, <1>7, TargetFacts, Zenon DEF KillCohort, Serving, CohortTools
  <2>2. CitadelsKept /\ CohortsKept
    BY <1>7, <2>1, KillCohortKeeps, Zenon DEF KillCohort, On
  <2> QED
    BY <1>0, <1>2, <1>7, <2>2, Untouched, AnswerStep, Zenon DEF KillCohort, ObjectsKept
<1> QED
  BY <1>3, <1>4, <1>5, <1>6, <1>7, Zenon

\* The HTTP API and the MCP server keep the invariant, whatever requests they
\* serve together.
THEOREM GatewayInvariant == MCPSpec => []GatewayInv
<1>1. MCPInit => GatewayInv
  <2> SUFFICES ASSUME Init PROVE GatewayInv
    BY Zenon DEF MCPInit
  <2>1. ObjectsOK
    BY Zenon DEF Init, ObjectsOK, CitadelOK, CohortOK, Lifeless
  <2>2. NoTicket.expires \in Int /\ NoSession.expires \in Int
    BY DEF NoTicket, NoSession
  <2>3. StoresOK
    BY <2>2, Zenon DEF Init, StoresOK, TicketOK, SessionOK
  <2>4. \A w \in Worker : ~Busy(w)
    BY Zenon DEF Init, Busy, Idle
  <2> QED
    BY <2>1, <2>3, <2>4, Zenon DEF Init, GatewayInv
<1>2. GatewayInv /\ [MCPNext]_mcpVars => GatewayInv'
  <2> SUFFICES ASSUME GatewayInv, [MCPNext]_mcpVars PROVE GatewayInv'
    BY Zenon
  <2>1. CASE UNCHANGED mcpVars
    <3>1. UNCHANGED <<clock, objects, setting, stores, req>>
      BY <2>1, Zenon DEF mcpVars, vars, objects, setting, stores
    <3> QED
      BY <3>1, Untouched, NoWorkerStep, Zenon DEF ObjectsKept, objects, GatewayInv
  <2>2. ASSUME NEW w \in Worker, Serve(w) PROVE GatewayInv'
    BY <2>2, AuthenticateStep, LookingStep, MakingStep, GrantingStep, ListStep, Zenon DEF Serve, Handle
  <2>3. ASSUME NEW w \in Worker, Tool(w) PROVE GatewayInv'
    BY <2>3, CallToolStep, LookingToolStep, BrowserOpenStep, MakingToolStep, ListStep, Zenon DEF Tool
  <2> QED
    BY <2>1, <2>2, <2>3, TickStep, Zenon DEF MCPNext
<1> QED
  BY <1>1, <1>2, PTL DEF MCPSpec

\* consumeTicket: a ticket is accepted once, in its time, for what it was issued
\* for and for whom; for any number of requests, tickets and principals.
THEOREM OneShot == MCPSpec => []TicketsAreOneShot
<1>1. GatewayInv => TicketsAreOneShot
  <2> SUFFICES ASSUME GatewayInv PROVE TicketsAreOneShot
    BY Zenon
  <2>1. \A t \in Ticket : uses[t] <= 1
    <3>1. \A t \in Ticket : uses[t] \in {0, 1}
      BY Zenon DEF GatewayInv, StoresOK, TicketOK
    <3> QED
      BY <3>1
  <2>2. \A w \in Worker : req[w].pc = "handle" => InTime(req[w])
    BY Zenon DEF GatewayInv, Busy, RequestOK
  <2> QED
    BY <2>1, <2>2, Zenon DEF InTime, TicketsAreOneShot
<1> QED
  BY <1>1, GatewayInvariant, PTL

\* The cookies of attachIDESession: they open the IDE that their ticket was for,
\* and end in time.
THEOREM IDESessionsEnd == MCPSpec => []IDEAccessEnds
<1>1. GatewayInv => IDEAccessEnds
  BY Zenon DEF GatewayInv, Busy, RequestOK, InTime, IDEAccessEnds
<1> QED
  BY <1>1, GatewayInvariant, PTL

-----------------------------------------------------------------------------
(* OnlyEntitled *)

\* What the served step of worker w shows.
WellServed(w) ==
  req[w].pc \notin {"idle", "served"} /\ req'[w].pc = "served" =>
    LET x == req[w].target IN
    IF x.op \in BrowserTools
    THEN /\ WithinRights(w, AsRequest(x), {})
         /\ \A b \in req'[w].shows : browsers[b].on = x.on
    ELSE WithinRights(w, AsRequest(x), req'[w].shows)

\* The rights behind a request that is being served.
LEMMA Rights ==
  ASSUME GatewayInv, NEW w \in Worker, Busy(w), NEW shows,
         mode = "rbac" => LET p == req[w].who
                              x == req[w].target IN
                          p # Nobody /\ ~p.admin /\ Cleared(p, x) =>
                            Entitled(p, AsRequest(x)) /\ \A i \in shows : MaySee(p, x.on, i)
  PROVE  WithinRights(w, AsRequest(req[w].target), shows)
<1>1. RequestOK(req[w])
  BY Zenon DEF GatewayInv
<1>2. (mode # "open" => req[w].cred.by # "nothing") /\ (mode = "rbac" => req[w].who = Holder(req[w].cred) /\ req[w].who # Nobody)
  BY <1>1, Zenon DEF RequestOK, CredOK
<1>3. mode = "rbac" => req[w].who.admin \/ Cleared(req[w].who, req[w].target)
  BY <1>1, Zenon DEF RequestOK
<1>4. AsRequest(req[w].target).on = req[w].target.on
  BY Zenon DEF AsRequest
<1> QED
  BY <1>2, <1>3, <1>4, Zenon DEF WithinRights

\* The guard and the authorization of the tools are enough for what no handler
\* looks at again.
LEMMA ClearedIsEntitled ==
  ASSUME NEW x \in Endpoints \cup Registered, NEW p, Cleared(p, x),
         x.op \notin {"run", "agent", "create", "createCohort", "restore", "approve"}
  PROVE  Entitled(p, AsRequest(x))
<1>1. CASE x \in Endpoints
  <2>1. AsRequest(x) = x
    BY <1>1, OpsDiffer, Zenon DEF AsRequest
  <2>2. x.op \in CitadelOps \cup CohortOps \cup {"ticket", "list"}
    BY <1>1, Zenon DEF Endpoints, Cleared
  <2> QED
    BY <2>1, <2>2, Zenon DEF Entitled, Cleared, CitadelOps, CohortOps
<1>2. CASE x \in Registered
  <2>1. x.op \in CitadelTools \cup CohortTools \cup LaunchTools \cup {"show"} \cup FreeTools
    BY <1>2, Zenon DEF Registered
  <2>2. CASE x.op \in CitadelTools
    <3>1. AsRequest(x) = [op |-> "tool", on |-> x.on]
      BY <2>2, Zenon DEF AsRequest, FreeTools, LaunchTools, CohortTools, BoardTools, CitadelTools, GovernedTools,
                  ObservingTools, BrowserTools
    <3>2. AsRequest(x).op = "tool" /\ AsRequest(x).on = x.on
      BY <3>1, SMTT(60)
    <3> QED
      BY <2>2, <3>2, Zenon DEF Entitled, Cleared, CitadelOps, CohortOps
  <2>3. CASE x.op \in CohortTools
    <3>1. AsRequest(x) = [op |-> "task", on |-> x.on]
      BY <2>3, Zenon DEF AsRequest, FreeTools, LaunchTools, CohortTools, BoardTools, CitadelTools, GovernedTools,
                  ObservingTools, BrowserTools
    <3>2. AsRequest(x).op = "task" /\ AsRequest(x).on = x.on
      BY <3>1, SMTT(60)
    <3> QED
      BY <2>3, <3>2, Zenon DEF Entitled, Cleared, CitadelOps, CohortOps
  <2>4. CASE x.op \in LaunchTools
    <3>1. AsRequest(x) = [op |-> "create", on |-> x.on]
      BY <2>4, Zenon DEF AsRequest, FreeTools, LaunchTools, CohortTools, BoardTools, CitadelTools, GovernedTools,
                  ObservingTools, BrowserTools
    <3>2. AsRequest(x).op = "create" /\ AsRequest(x).on = x.on
      BY <3>1, SMTT(60)
    <3> QED
      BY <2>4, <3>2, Zenon DEF Entitled, Cleared, CitadelOps, CohortOps
  <2>5. CASE x.op \in {"show"} \cup FreeTools
    <3>1. AsRequest(x) = [op |-> "list", on |-> x.on]
      BY <2>5, Zenon DEF AsRequest, FreeTools, LaunchTools, CohortTools, BoardTools, CitadelTools, GovernedTools,
                  ObservingTools, BrowserTools
    <3>2. AsRequest(x).op = "list"
      BY <3>1, SMTT(60)
    <3> QED
      BY <3>2, Zenon DEF Entitled, CitadelOps, CohortOps
  <2> QED
    BY <2>1, <2>2, <2>3, <2>4, <2>5, Zenon
<1> QED
  BY <1>1, <1>2, Zenon

\* A step that serves nobody, or worker w.
LEMMA ServedStep ==
  ASSUME GatewayInv, NEW w \in Worker, NEW r, req' = [req EXCEPT ![w] = r],
         Busy(w) /\ r.pc = "served" =>
           IF req[w].target.op \in BrowserTools
           THEN /\ WithinRights(w, AsRequest(req[w].target), {})
                /\ \A b \in r.shows : browsers[b].on = req[w].target.on
           ELSE WithinRights(w, AsRequest(req[w].target), r.shows)
  PROVE  \A v \in Worker : WellServed(v)
<1>1. req'[w] = r /\ \A v \in Worker \ {w} : req'[v] = req[v]
  BY Zenon DEF GatewayInv
<1>2. WellServed(w)
  BY <1>1, Zenon DEF WellServed, Busy
<1> QED
  BY <1>1, <1>2, Zenon DEF WellServed

\* An answer without contents.
LEMMA OkStep ==
  ASSUME GatewayInv, NEW w \in Worker, Ok(w) \/ req' = [req EXCEPT ![w] = Idle],
         LET p == req[w].who
             x == req[w].target IN
         Busy(w) /\ Ok(w) /\ mode = "rbac" /\ p # Nobody /\ ~p.admin /\ Cleared(p, x) => Entitled(p, AsRequest(x))
  PROVE  \A v \in Worker : WellServed(v)
<1>1. CASE Ok(w)
  <2>1. req' = [req EXCEPT ![w] = Served] /\ Served.shows = {}
    BY <1>1, Zenon DEF Ok, Served, Answer
  <2>2. Busy(w) => WithinRights(w, AsRequest(req[w].target), {})
    BY <1>1, Rights, Zenon
  <2> QED
    BY <2>1, <2>2, ServedStep, Zenon
<1>2. CASE req' = [req EXCEPT ![w] = Idle]
  <2>1. Idle.pc # "served"
    BY Zenon DEF Idle
  <2> QED
    BY <1>2, <2>1, ServedStep, Zenon
<1> QED
  BY <1>1, <1>2, Zenon

\* The handlers of the HTTP API that leave the rights to the guard.
LEMMA GuardedServe ==
  ASSUME GatewayInv, NEW w \in Worker,
         \/ Fail(w) \/ HandleTool(w) \/ HandleRead(w) \/ HandleTerminal(w) \/ HandleConversationStream(w)
         \/ HandleIDE(w) \/ HandleKillSandbox(w) \/ HandleSnapshot(w) \/ HandleTask(w) \/ HandleKillFleet(w)
         \/ HandleCreateTicket(w) \/ HandleTerminalTicket(w) \/ HandleIDETicket(w)
  PROVE  \A v \in Worker : WellServed(v)
<1>1. /\ Ok(w) \/ req' = [req EXCEPT ![w] = Idle]
      /\ req[w].pc = "handle"
      /\ Fail(w) \/ req[w].target.op \in CitadelOps \cup CohortOps \cup {"ticket"}
  BY Zenon DEF Fail, HandleTool, HandleRead, HandleTerminal, HandleConversationStream, HandleIDE, HandleKillSandbox,
         HandleSnapshot, HandleTask, HandleKillFleet, HandleCreateTicket, HandleTerminalTicket, HandleIDETicket,
         Serving, CitadelOps, CohortOps
<1>2. req[w].target \in Endpoints \cup Registered
  BY <1>1, Zenon DEF GatewayInv, Busy, RequestOK
<1>3. CASE Fail(w)
  <2>1. req' = [req EXCEPT ![w] = Idle] /\ Idle.pc # "served"
    BY <1>3, Zenon DEF Fail, Idle
  <2> QED
    BY <2>1, ServedStep, Zenon
<1>4. CASE req[w].target.op \in CitadelOps \cup CohortOps \cup {"ticket"}
  <2>1. Cleared(req[w].who, req[w].target) => Entitled(req[w].who, AsRequest(req[w].target))
    BY <1>2, <1>4, ClearedIsEntitled, Zenon DEF CitadelOps, CohortOps
  <2> QED
    BY <1>1, <2>1, OkStep, Zenon
<1> QED
  BY <1>1, <1>3, <1>4, Zenon

\* The handlers of the HTTP API that look at the caller themselves.
LEMMA CheckedServe ==
  ASSUME GatewayInv, NEW w \in Worker,
         \/ HandleCreateSandbox(w) \/ HandleCreateFleet(w) \/ HandleRestoreSnapshot(w) \/ HandleGetRun(w)
         \/ HandleAgentSession(w) \/ ResolveApproval(w) \/ HandleAuditExport(w)
  PROVE  \A v \in Worker : WellServed(v)
<1> DEFINE x == req[w].target
<1> DEFINE p == req[w].who
<1>1. Ok(w) /\ x.op \in {"create", "createCohort", "restore", "run", "agent", "approve", "export"}
  BY Zenon DEF HandleCreateSandbox, HandleCreateFleet, HandleRestoreSnapshot, HandleGetRun, HandleAgentSession,
         ResolveApproval, HandleAuditExport, Serving
<1>2. AsRequest(x) = x
  BY <1>1, Zenon DEF AsRequest, FreeTools, LaunchTools, CohortTools, BoardTools, CitadelTools, GovernedTools,
              ObservingTools, BrowserTools
<1>3. ASSUME p # Nobody, ~p.admin, Cleared(p, x) PROVE Entitled(p, x)
  <2>0. TenantID(p) = p.tenant
    BY <1>3, Zenon DEF TenantID
  <2>1. CASE HandleCreateSandbox(w) \/ HandleCreateFleet(w)
    BY <1>3, <2>1, Zenon DEF HandleCreateSandbox, HandleCreateFleet, Serving, CanLaunch, Caller, On, Entitled, CitadelOps, CohortOps
  <2>2. CASE HandleRestoreSnapshot(w)
    BY <1>3, <2>0, <2>2, Zenon DEF HandleRestoreSnapshot, Serving, CanLaunch, Caller, On, Entitled, CitadelOps, CohortOps
  <2>3. CASE HandleGetRun(w) \/ HandleAgentSession(w)
    BY <1>3, <2>0, <2>3, Zenon DEF HandleGetRun, HandleAgentSession, Serving, Caller, On, Entitled, CitadelOps, CohortOps
  <2>4. CASE ResolveApproval(w)
    BY <1>3, <2>4, Zenon DEF ResolveApproval, Serving, MayApprove, CanApproveProfile, Caller, On, Entitled, CitadelOps, CohortOps
  <2>5. CASE HandleAuditExport(w)
    BY <1>3, <2>5, Zenon DEF HandleAuditExport, Caller
  <2> QED
    BY <2>1, <2>2, <2>3, <2>4, <2>5, Zenon
<1> QED
  BY <1>1, <1>2, <1>3, OkStep, Zenon

\* The tools that answer with what was authorized.
LEMMA ToolServe ==
  ASSUME GatewayInv, NEW w \in Worker,
         \/ CreateCitadel(w) \/ Exec(w) \/ Observe(w) \/ BrowserReady(w) \/ BrowserUnready(w) \/ KillCitadel(w)
         \/ SnapshotCitadel(w) \/ CreateCohort(w) \/ UseBoard(w) \/ KillCohort(w) \/ Inform(w)
  PROVE  \A v \in Worker : WellServed(v)
<1>1. (Ok(w) \/ req' = [req EXCEPT ![w] = Idle]) /\ req[w].pc \in {"handle", "ready"}
  BY Zenon DEF CreateCitadel, Exec, Observe, BrowserReady, BrowserUnready, KillCitadel, SnapshotCitadel, CreateCohort,
         UseBoard, KillCohort, Inform, Serving
<1>2. RequestOK(req[w])
  BY <1>1, Zenon DEF GatewayInv, Busy
<1>3. req[w].target.op \in CitadelTools \cup CohortTools \cup LaunchTools \cup FreeTools
  BY <1>2, Zenon DEF CreateCitadel, Exec, Observe, BrowserReady, BrowserUnready, KillCitadel, SnapshotCitadel, CreateCohort,
         UseBoard, KillCohort, Inform, Serving, RequestOK, FreeTools, LaunchTools, CohortTools, BoardTools, CitadelTools,
         BrowserTools
<1>4. req[w].target \in Endpoints \cup Registered
  BY <1>2, Zenon DEF RequestOK
<1>5. Cleared(req[w].who, req[w].target) => Entitled(req[w].who, AsRequest(req[w].target))
  BY <1>3, <1>4, ClearedIsEntitled, Zenon DEF FreeTools, LaunchTools, CohortTools, BoardTools, CitadelTools, GovernedTools,
         ObservingTools, BrowserTools
<1> QED
  BY <1>1, <1>5, OkStep, Zenon

\* The driver of a browser action is listed in the Citadel that the call named.
LEMMA BrowserServe ==
  ASSUME GatewayInv, NEW w \in Worker, BrowserOpen(w) \/ BrowserAct(w) \/ BrowserClose(w)
  PROVE  \A v \in Worker : WellServed(v)
<1> DEFINE x == req[w].target
<1>1. req[w].pc = "handle" /\ x.op \in BrowserTools
  BY Zenon DEF BrowserOpen, BrowserAct, BrowserClose, Serving, BrowserTools
<1>2. x \in Endpoints \cup Registered
  BY <1>1, Zenon DEF GatewayInv, Busy, RequestOK
<1>3. WithinRights(w, AsRequest(x), {})
  <2>1. Cleared(req[w].who, x) => Entitled(req[w].who, AsRequest(x))
    BY <1>1, <1>2, ClearedIsEntitled, Zenon DEF BrowserTools
  <2> QED
    BY <1>1, <2>1, Rights, Zenon DEF Busy
<1>4. CASE BrowserOpen(w)
  <2>1. PICK b : \/ req' = [req EXCEPT ![w] = Served]
                 \/ req' = [req EXCEPT ![w] = [pc |-> "ready", target |-> req[w].target, cred |-> req[w].cred,
                                               who |-> Caller(w), at |-> 0, driver |-> b]]
    BY <1>4, Zenon DEF BrowserOpen, Ok
  <2>2. PICK r : req' = [req EXCEPT ![w] = r] /\ (r = Served \/ r.pc = "ready")
    BY <2>1
  <2>3. Served.shows = {}
    BY Zenon DEF Served, Answer
  <2> QED
    BY <1>1, <1>3, <2>2, <2>3, ServedStep, Zenon
<1>5. CASE BrowserAct(w) \/ BrowserClose(w)
  <2>1. PICK b \in Listed(On(w)) : req' = [req EXCEPT ![w] = Answer({b})]
    BY <1>5, Zenon DEF BrowserAct, BrowserClose
  <2>2. Answer({b}).shows = {b} /\ browsers[b].on = x.on
    BY Zenon DEF Answer, Listed, On
  <2> QED
    BY <1>1, <1>3, <2>1, <2>2, ServedStep, Zenon
<1> QED
  BY <1>4, <1>5, Zenon

\* The lists go out as they are only to administrators, or without principals.
LEMMA ListServe ==
  ASSUME GatewayInv, NEW w \in Worker, HandleList(w) \/ ListTool(w)
  PROVE  \A v \in Worker : WellServed(v)
<1>1. req[w].pc = "handle" /\ req[w].target.op \in {"list", "show"} /\ req[w].target.op \notin BrowserTools
  BY Zenon DEF HandleList, ListTool, Serving, BrowserTools
<1>2. CASE Caller(w) = Nobody \/ Caller(w).admin
  <2>1. req' = [req EXCEPT ![w] = Answer(All(On(w)))]
    BY <1>2, Zenon DEF HandleList, ListTool
  <2>2. WithinRights(w, AsRequest(req[w].target), Answer(All(On(w))).shows)
    BY <1>1, <1>2, Rights, Zenon DEF Busy, Caller
  <2> QED
    BY <1>1, <2>1, <2>2, ServedStep, Zenon
<1>3. CASE ~(Caller(w) = Nobody \/ Caller(w).admin)
  <2>1. PICK at : req' = [req EXCEPT ![w] = [pc |-> "filter", target |-> req[w].target, cred |-> req[w].cred,
                                             who |-> Caller(w), at |-> at, items |-> All(On(w))]]
    BY <1>3, Zenon DEF HandleList, ListTool
  <2> DEFINE r == [pc |-> "filter", target |-> req[w].target, cred |-> req[w].cred,
                   who |-> Caller(w), at |-> at, items |-> All(On(w))]
  <2>2. req' = [req EXCEPT ![w] = r] /\ r.pc = "filter"
    BY <2>1, Zenon
  <2> HIDE DEF r
  <2> QED
    BY <2>2, ServedStep, Zenon
<1> QED
  BY <1>2, <1>3, Zenon

\* What the filters leave of a list is what the principal may learn of, as things
\* are when they look.
LEMMA FilterServe ==
  ASSUME GatewayInv, NEW w \in Worker, FilterList(w) \/ FilterTool(w)
  PROVE  \A v \in Worker : WellServed(v)
<1> DEFINE x == req[w].target
<1> DEFINE p == req[w].who
<1>1. req[w].pc = "filter" /\ x.op \in {"list", "show"} /\ x.op \notin BrowserTools
  BY Zenon DEF FilterList, FilterTool, BrowserTools
<1>2. x \in Endpoints \cup Registered
  BY <1>1, Zenon DEF GatewayInv, Busy, RequestOK
<1>3. PICK shown : req' = [req EXCEPT ![w] = Answer(shown)]
                   /\ \A i \in shown : Visible(p, x.on, i) \/ (x.on = "cohorts" /\ cohort[i].owner = Owner(p))
  <2>1. CASE FilterList(w)
    <3> DEFINE s == {i \in req[w].items : Visible(p, x.on, i)}
    <3>1. req' = [req EXCEPT ![w] = Answer(s)]
      BY <2>1, Zenon DEF FilterList, Caller, On
    <3>2. \A i \in s : Visible(p, x.on, i)
      BY Zenon
    <3> HIDE DEF s
    <3> QED
      BY <3>1, <3>2, Zenon
  <2>2. CASE FilterTool(w)
    <3> DEFINE s == {i \in req[w].items : ToolShows(p, x.on, i)}
    <3>1. req' = [req EXCEPT ![w] = Answer(s)]
      BY <2>2, Zenon DEF FilterTool, Caller, On
    <3>2. \A i \in s : Visible(p, x.on, i) \/ (x.on = "cohorts" /\ cohort[i].owner = Owner(p))
      BY Zenon DEF ToolShows
    <3> HIDE DEF s
    <3> QED
      BY <3>1, <3>2, Zenon
  <2> QED
    BY <2>1, <2>2, Zenon
<1>4. Answer(shown).shows = shown
  BY Zenon DEF Answer
<1>5. x.on \in Lists
  BY <1>1, <1>2, TargetFacts, Zenon
<1>6. ASSUME p # Nobody, ~p.admin, NEW i \in shown PROVE MaySee(p, x.on, i)
  <2>1. TenantID(p) = p.tenant /\ Owner(p) = p.tenant
    BY <1>6, Zenon DEF TenantID, Owner
  <2> QED
    BY <1>3, <1>5, <1>6, <2>1, Zenon DEF Visible, MaySee, Lists, CanLaunch, CanApproveProfile, MayApprove
<1>7. Cleared(p, x) => Entitled(p, AsRequest(x))
  BY <1>1, <1>2, ClearedIsEntitled, Zenon
<1>8. WithinRights(w, AsRequest(x), shown)
  BY <1>1, <1>6, <1>7, Rights, Zenon DEF Busy
<1> QED
  BY <1>1, <1>3, <1>4, <1>8, ServedStep, Zenon

\* A worker that takes up a request was not serving one.
LEMMA TakeUpServe ==
  ASSUME GatewayInv, NEW w \in Worker, Authenticate(w) \/ CallTool(w)
  PROVE  \A v \in Worker : WellServed(v)
<1>1. req[w].pc \in {"idle", "served"}
  BY Zenon DEF Authenticate, CallTool
<1>2. req' = req \/ \E r : req' = [req EXCEPT ![w] = r]
  <2>1. CASE CallTool(w)
    BY <2>1, Zenon DEF CallTool
  <2>2. CASE Authenticate(w)
    <3>1. PICK x \in Targets, c \in Credentials :
            \/ Accept(w, x, c, Nobody) \/ ByTicket(w, x, c.id) \/ ByCookie(w, x, c.id) \/ ByToken(w, x, c.id)
      BY <2>2, Zenon DEF Authenticate
    <3> QED
      BY <3>1, Zenon DEF ByTicket, ByCookie, ByToken, Screen, Accept, Refuse
  <2> QED
    BY <2>1, <2>2, Zenon
<1>3. CASE req' = req
  BY <1>3, Zenon DEF WellServed
<1>4. CASE \E r : req' = [req EXCEPT ![w] = r]
  BY <1>1, <1>4, ServedStep, Zenon DEF Busy
<1> QED
  BY <1>2, <1>3, <1>4, Zenon

\* No request and no tool call is served unless its credential leads back to a
\* principal with the right to it: for any number of principals, tenants and
\* objects, and any requests served together by the two surfaces.
THEOREM Entitlement == MCPSpec => OnlyEntitled
<1>1. GatewayInv /\ [MCPNext]_mcpVars =>
        [\A w \in Worker :
           req[w].pc \notin {"idle", "served"} /\ req'[w].pc = "served" =>
             LET x == req[w].target IN
             IF x.op \in BrowserTools
             THEN /\ WithinRights(w, AsRequest(x), {})
                  /\ \A b \in req'[w].shows : browsers[b].on = x.on
             ELSE WithinRights(w, AsRequest(x), req'[w].shows)]_mcpVars
  <2> SUFFICES ASSUME GatewayInv, MCPNext PROVE \A v \in Worker : WellServed(v)
    BY Zenon DEF WellServed
  <2>1. ASSUME NEW w \in Worker, Serve(w) PROVE \A v \in Worker : WellServed(v)
    BY <2>1, TakeUpServe, GuardedServe, CheckedServe, ListServe, FilterServe, Zenon DEF Serve, Handle
  <2>2. ASSUME NEW w \in Worker, Tool(w) PROVE \A v \in Worker : WellServed(v)
    BY <2>2, TakeUpServe, ToolServe, BrowserServe, ListServe, FilterServe, Zenon DEF Tool
  <2>3. ASSUME Tick PROVE \A v \in Worker : WellServed(v)
    BY <2>3, Zenon DEF Tick, WellServed
  <2> QED
    BY <2>1, <2>2, <2>3, Zenon DEF MCPNext
<1> QED
  BY <1>1, GatewayInvariant, PTL DEF MCPSpec, OnlyEntitled
=============================================================================
