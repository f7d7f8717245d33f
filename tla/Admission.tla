------------------------------ MODULE Admission ------------------------------
(***************************************************************************)
(* The admission webhook (webhook/webhook.go, webhook/policy.go).  The API *)
(* server sends an object to /mutate and then, as patched, to /validate.   *)
(* Both list the ClusterPolicies; when the list fails the last one that    *)
(* succeeded is used for a limited time.                                   *)
(***************************************************************************)
EXTENDS Integers, Sequences

CONSTANTS
  Request,      \* objects on their way through admission
  Objects,      \* the objects: [namespace, labels, profile]
  PolicySets,   \* the policy sets the cluster goes through, a sequence
  CacheTTL,     \* Server.cacheTTL
  ListLatency,  \* the longest a list may take to come back
  MaxAdmTime,   \* bound on the time
  NoName        \* the empty string

ASSUME AdmAssumption ==
  /\ CacheTTL \in Nat /\ ListLatency \in Nat /\ MaxAdmTime \in Nat
  /\ Len(PolicySets) \in Nat \ {0} /\ DOMAIN PolicySets = 1 .. Len(PolicySets)

VARIABLES
  now,        \* the time
  version,    \* index of the current policy set
  replaced,   \* replaced[v]: when policy set v was replaced
  cache,      \* cached, cachedAt, cacheLoaded
  adm         \* adm[r]: the admission of r

admVars == <<now, version, replaced, cache, adm>>

AdmInit ==
  /\ now = 0 /\ version = 1
  /\ replaced = [v \in DOMAIN PolicySets |-> 0]
  /\ cache = [loaded |-> FALSE, v |-> 0, at |-> 0]
  /\ adm \in [Request -> {[hook |-> "mutate", pc |-> "list", obj |-> o, v |-> 0, at |-> 0, allowed |-> FALSE] : o \in Objects}]

-----------------------------------------------------------------------------
(* policy.go.  A glob pattern is given by the set of names it matches. *)

matchAny(patterns, name) == \E pat \in patterns : name \in pat

\* The first policy with a default supplies it.
Effective(policies, profile) ==
  LET Defaulting == SelectSeq(policies, LAMBDA p : p.DefaultProfile # NoName) IN
  IF profile # NoName \/ Defaulting = <<>> THEN profile ELSE Head(Defaulting).DefaultProfile

\* Every policy must agree to the effective profile, the namespace and the labels.
Decide(policies, obj) ==
  LET effective == Effective(policies, obj.profile) IN
  \A i \in DOMAIN policies :
    LET p == policies[i] IN
    /\ ~matchAny(p.DeniedProfiles, effective)
    /\ p.AllowedProfiles # {} => matchAny(p.AllowedProfiles, effective)
    /\ obj.namespace # NoName /\ p.AllowedNamespaces # {} => matchAny(p.AllowedNamespaces, obj.namespace)
    /\ p.RequiredLabels \subseteq obj.labels

-----------------------------------------------------------------------------
(* policySnapshot *)

\* The API server answers the list with the policy set of this moment.
ListPolicies(r) ==
  /\ adm[r].pc = "list"
  /\ adm' = [adm EXCEPT ![r].pc = "listed", ![r].v = version, ![r].at = now]
  /\ UNCHANGED <<now, version, replaced, cache>>

ListFails(r) ==
  /\ adm[r].pc = "list"
  /\ adm' = [adm EXCEPT ![r].pc = "failed"]
  /\ UNCHANGED <<now, version, replaced, cache>>

\* The answer becomes the cache, whatever another request stored meanwhile.
StoreSnapshot(r) ==
  /\ adm[r].pc = "listed"
  /\ cache' = [loaded |-> TRUE, v |-> adm[r].v, at |-> now]
  /\ adm' = [adm EXCEPT ![r].pc = "decide"]
  /\ UNCHANGED <<now, version, replaced>>

Fresh == cache.loaded /\ CacheTTL > 0 /\ now - cache.at <= CacheTTL

\* After a failure the cache is used while it is fresh.
Fallback(r) ==
  /\ adm[r].pc = "failed"
  /\ adm' = [adm EXCEPT ![r].pc = "decide", ![r].v = IF Fresh THEN cache.v ELSE 0]
  /\ UNCHANGED <<now, version, replaced, cache>>

-----------------------------------------------------------------------------
(* The handlers; version 0 is the error of policySnapshot *)

\* handleMutate always admits; it patches an empty profile if it can.
HandleMutate(r) ==
  /\ adm[r].hook = "mutate" /\ adm[r].pc = "decide"
  /\ adm' = [adm EXCEPT ![r].hook = "validate", ![r].pc = "list",
               ![r].obj.profile = IF adm[r].v = 0 THEN @ ELSE Effective(PolicySets[adm[r].v], @)]
  /\ UNCHANGED <<now, version, replaced, cache>>

\* Mutant of HandleValidate: without policies it fails open.
HandleValidateOpen(r) ==
  /\ adm[r].hook = "validate" /\ adm[r].pc = "decide"
  /\ adm' = [adm EXCEPT ![r].pc = "answered", ![r].at = now,
               ![r].allowed = adm[r].v # 0 => Decide(PolicySets[adm[r].v], adm[r].obj)]
  /\ UNCHANGED <<now, version, replaced, cache>>

\* handleValidate fails closed.
HandleValidate(r) ==
  /\ adm[r].hook = "validate" /\ adm[r].pc = "decide"
  /\ adm' = [adm EXCEPT ![r].pc = "answered", ![r].at = now,
               ![r].allowed = adm[r].v # 0 /\ Decide(PolicySets[adm[r].v], adm[r].obj)]
  /\ UNCHANGED <<now, version, replaced, cache>>

-----------------------------------------------------------------------------
(* The cluster *)

ReplacePolicies ==
  /\ version < Len(PolicySets)
  /\ version' = version + 1
  /\ replaced' = [replaced EXCEPT ![version] = now]
  /\ UNCHANGED <<now, cache, adm>>

\* Time passes; a handler takes none, and a list at most ListLatency.
AdmTick ==
  /\ now < MaxAdmTime
  /\ \A r \in Request : /\ adm[r].pc \notin {"failed", "decide"}
                        /\ adm[r].pc = "listed" => now < adm[r].at + ListLatency
  /\ now' = now + 1
  /\ UNCHANGED <<version, replaced, cache, adm>>

AdmNext ==
  \/ ReplacePolicies \/ AdmTick
  \/ \E r \in Request : \/ ListPolicies(r) \/ ListFails(r) \/ StoreSnapshot(r) \/ Fallback(r)
                        \/ HandleMutate(r) \/ HandleValidate(r)

AdmSpec == AdmInit /\ [][AdmNext]_admVars

-----------------------------------------------------------------------------
(* Properties *)

\* An object is admitted only if the profile it will run with, its namespace
\* and its labels satisfy a policy set that was in force at most CacheTTL plus
\* the latency of a list ago, whatever the API server did in between.
AdmittedWasChecked ==
  \A r \in Request :
    adm[r].pc = "answered" /\ adm[r].allowed =>
      \E v \in 1 .. version :
        /\ v = version \/ adm[r].at <= replaced[v] + CacheTTL + ListLatency
        /\ Decide(PolicySets[v], adm[r].obj)
=============================================================================
