------------------------------ MODULE OIDCKeys ------------------------------
(***************************************************************************)
(* The OIDC verifier (authz/oidc.go): signing keys are fetched at the      *)
(* start and again when a token names a key that is not known, one fetch   *)
(* at a time and none within the cooldown after the last success.          *)
(***************************************************************************)
EXTENDS Integers, Sequences

CONSTANTS
  Verification, \* calls of Verify
  KeySets,      \* the key sets the provider publishes one after the other
  Cooldown,     \* the 30 seconds between two refreshes
  Lifetime,     \* lifetime of a token
  MaxTime,      \* bound on the time
  MaxErrors,    \* bound on the failed requests to the provider
  NoOne         \* nobody holds refreshMu

ASSUME OIDCAssumption ==
  Cooldown \in Nat /\ Lifetime \in Nat /\ MaxTime \in Nat /\ MaxErrors \in Nat

VARIABLES
  time,        \* the time
  published,   \* index of the key set the provider publishes
  keys,        \* OIDCVerifier.keys
  lastRefresh, \* OIDCVerifier.lastRefresh
  refreshMu,   \* who holds refreshMu
  ver,         \* ver[c]: the call c of Verify
  errors,      \* number of failed requests
  fetchedAt    \* history: when keys were last fetched with success

oidcVars == <<time, published, keys, lastRefresh, refreshMu, ver, errors, fetchedAt>>

AllKeys == UNION {KeySets[i] : i \in DOMAIN KeySets}

NoToken == [kid |-> "", genuine |-> FALSE, exp |-> 0]
Waiting == [pc |-> "none", token |-> NoToken, steady |-> FALSE, excused |-> FALSE]

\* NewOIDCFromEnv fetches the keys or fails.
OIDCInit ==
  /\ time = 0 /\ published = 1
  /\ keys = KeySets[1] /\ lastRefresh = 0 /\ fetchedAt = 0
  /\ refreshMu = NoOne /\ errors = 0
  /\ ver = [c \in Verification |-> Waiting]

-----------------------------------------------------------------------------
(* Verify *)

\* A token arrives.  Its signature may not be that of the key it names.
Present(c) ==
  /\ ver[c].pc = "none"
  /\ \E k \in AllKeys, g \in BOOLEAN :
       ver' = [ver EXCEPT ![c] = [pc |-> "look", token |-> [kid |-> k, genuine |-> g, exp |-> time + Lifetime],
                                  steady |-> k \in KeySets[published], excused |-> FALSE]]
  /\ UNCHANGED <<time, published, keys, lastRefresh, refreshMu, errors, fetchedAt>>

\* The key is looked up, before and after the refresh.
LookUp(c) ==
  /\ ver[c].pc \in {"look", "again"}
  /\ ver' = [ver EXCEPT ![c].pc = IF ver[c].token.kid \in keys THEN "check"
                                  ELSE IF @ = "look" THEN "lock" ELSE "nokey"]
  /\ UNCHANGED <<time, published, keys, lastRefresh, refreshMu, errors, fetchedAt>>

\* Mutant of Lock: the cooldown lasts one moment longer.
LockLonger(c) ==
  /\ ver[c].pc = "lock" /\ refreshMu = NoOne
  /\ IF time - lastRefresh <= Cooldown
     THEN /\ ver' = [ver EXCEPT ![c].pc = "again", ![c].excused = time - fetchedAt < Cooldown]
          /\ UNCHANGED refreshMu
     ELSE ver' = [ver EXCEPT ![c].pc = "fetch"] /\ refreshMu' = c
  /\ UNCHANGED <<time, published, keys, lastRefresh, errors, fetchedAt>>

\* refreshKeys: within the cooldown nothing is fetched.
Lock(c) ==
  /\ ver[c].pc = "lock" /\ refreshMu = NoOne
  /\ IF time - lastRefresh < Cooldown
     THEN /\ ver' = [ver EXCEPT ![c].pc = "again", ![c].excused = time - fetchedAt < Cooldown]
          /\ UNCHANGED refreshMu
     ELSE ver' = [ver EXCEPT ![c].pc = "fetch"] /\ refreshMu' = c
  /\ UNCHANGED <<time, published, keys, lastRefresh, errors, fetchedAt>>

\* The provider answers with the keys of this moment.
Fetch(c) ==
  /\ ver[c].pc = "fetch"
  /\ ver' = [ver EXCEPT ![c].pc = "again"]
  /\ keys' = KeySets[published] /\ lastRefresh' = time /\ fetchedAt' = time
  /\ refreshMu' = NoOne
  /\ UNCHANGED <<time, published, errors>>

\* No answer, or no usable key in it: the old keys stay.
FetchFails(c) ==
  /\ ver[c].pc = "fetch" /\ errors < MaxErrors
  /\ errors' = errors + 1
  /\ ver' = [ver EXCEPT ![c].pc = "error"]
  /\ refreshMu' = NoOne
  /\ UNCHANGED <<time, published, keys, lastRefresh, fetchedAt>>

\* The signature and the claims.
CheckToken(c) ==
  /\ ver[c].pc = "check"
  /\ ver' = [ver EXCEPT ![c].pc = IF ver[c].token.genuine /\ time < ver[c].token.exp
                                  THEN "accepted" ELSE "refused"]
  /\ UNCHANGED <<time, published, keys, lastRefresh, refreshMu, errors, fetchedAt>>

-----------------------------------------------------------------------------
(* The provider rotates its keys, and time passes *)

Rotate ==
  /\ published < Len(KeySets)
  /\ published' = published + 1
  /\ ver' = [c \in Verification |-> [ver[c] EXCEPT !.steady = @ /\ ver[c].token.kid \in KeySets[published + 1]]]
  /\ UNCHANGED <<time, keys, lastRefresh, refreshMu, errors, fetchedAt>>

OIDCTick ==
  /\ time < MaxTime
  /\ time' = time + 1
  /\ UNCHANGED <<published, keys, lastRefresh, refreshMu, ver, errors, fetchedAt>>

OIDCNext ==
  \/ Rotate \/ OIDCTick
  \/ \E c \in Verification : \/ Present(c) \/ LookUp(c) \/ Lock(c) \/ Fetch(c) \/ FetchFails(c)
                             \/ CheckToken(c)

OIDCSpec == OIDCInit /\ [][OIDCNext]_oidcVars

-----------------------------------------------------------------------------
(* Properties *)

\* A token whose key the provider has been publishing throughout the call is
\* refused for want of a key only within the cooldown after a fetch that
\* succeeded: a failed fetch, a waiting call or a rotation between two fetches
\* never locks a new key out for longer.
NewKeysAreFound ==
  \A c \in Verification : ver[c].pc = "nokey" /\ ver[c].steady => ver[c].excused
=============================================================================
