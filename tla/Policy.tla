------------------------------- MODULE Policy -------------------------------
(***************************************************************************)
(* The policy engine that admits workloads (pkg/policy/engine.go, called   *)
(* by AdmitWorkload of pkg/coordinator/policy_integration.go): requests    *)
(* evaluate their workload against the policies while other requests add   *)
(* and remove policies.  Evaluate takes three locks one after the other:   *)
(* the cache's for the lookup, the engine's for the policies, the cache's  *)
(* for the result.  The policies change, and the cache is emptied, in one  *)
(* critical section.                                                       *)
(***************************************************************************)
EXTENDS PolicyRules

CONSTANTS
  Requests,         \* concurrent admissions
  Submitted,        \* API workloads that CreateWorkload and UpdateWorkload admit
  DirectSpecs,      \* specs handed to the engine itself
  AddedPolicies,    \* policies that AddPolicy brings in
  MaxPolicyChanges

VARIABLES
  policies,         \* e.policies: at most one of a name
  resultCache,      \* e.cache: cache key -> entry
  request,          \* the state of each Evaluate
  policyChanges

policyVars == <<policies, resultCache, request, policyChanges>>

getCacheKey(spec) == <<spec.namespace, spec.name, spec.image>>

NoSecurity ==
  [present |-> FALSE, privileged |-> FALSE, runAsNonRoot |-> "unset", readOnlyRoot |-> FALSE,
   user |-> "unset", runtimeClass |-> "", seccomp |-> "nil", appArmor |-> "nil",
   seLinux |-> [type |-> "nil", level |-> ""]]

(* What the conversion does not set keeps its zero value: the capabilities, *)
(* the host namespaces, the egress domains and the security context.       *)
convertToPolicyWorkloadSpec(workload) ==
  [name |-> workload.name, namespace |-> workload.namespace, image |-> workload.image,
   labels |-> workload.labels, request |-> workload.request, limit |-> workload.limit,
   volumes |-> workload.volumes, selector |-> workload.selector,
   privileged |-> FALSE, capabilities |-> {}, hostNamespaces |-> {}, egress |-> {},
   security |-> NoSecurity]

Specs == {convertToPolicyWorkloadSpec(w) : w \in Submitted} \cup DirectSpecs
CacheKeys == {getCacheKey(s) : s \in Specs}

NotCached == [allowed |-> FALSE, spec |-> <<>>, fresh |-> FALSE]
Unsubmitted ==
  [step |-> "none", spec |-> <<>>, todo |-> {}, allowed |-> TRUE, matched |-> {}, seen |-> {},
   during |-> {}, hit |-> "none"]

PolicyInit ==
  /\ policies = DefaultPolicies
  /\ resultCache = [k \in CacheKeys |-> NotCached]
  /\ request = [r \in Requests |-> Unsubmitted]
  /\ policyChanges = 0

---------------------------------------------------------------------------

Cached(spec) == resultCache[getCacheKey(spec)] # NotCached

(* AdmitWorkload starts Evaluate, which looks into the cache.  "during"    *)
(* collects the policies in force at some time of the call, and "hit" says *)
(* whether a cached result was computed for this very spec and stored      *)
(* while the policies that it was computed from were still in force.       *)
AdmitWorkload(r, spec) ==
  /\ request[r].step = "none"
  /\ request' = [request EXCEPT ![r] =
       IF Cached(spec)
       THEN LET entry == resultCache[getCacheKey(spec)]
            IN  [@ EXCEPT !.step = "answered", !.spec = spec, !.allowed = entry.allowed,
                          !.during = {policies},
                          !.hit = IF entry.fresh /\ entry.spec = spec THEN "own" ELSE "other"]
       ELSE [@ EXCEPT !.step = "policies", !.spec = spec, !.during = {policies}]]
  /\ UNCHANGED <<policies, resultCache, policyChanges>>

getSortedPolicies(r) ==
  /\ request[r].step = "policies"
  /\ request' = [request EXCEPT ![r].step = "evaluating", ![r].todo = policies, ![r].seen = policies]
  /\ UNCHANGED <<policies, resultCache, policyChanges>>

Applied(policy, spec) == {rule \in policy.rules : evaluateConditions(rule.conditions, spec)}

(* A policy matches when a rule of it applies, violated or not; an allow   *)
(* policy without rules always does.                                       *)
evaluatePolicy(policy, spec) ==
  [matched |-> \/ policy.rules = {} /\ policy.action = "Allow"
               \/ Applied(policy, spec) # {},
   violated |-> \E rule \in Applied(policy, spec) : EvaluateRule(rule, spec) # {}]

(* One turn of the loop of Evaluate.                                       *)
Evaluated(r, p) ==
  LET q == request[r]
      result == evaluatePolicy(p, q.spec)
      counts == p.enabled /\ policyApplies(p, q.spec) /\ result.matched
  IN  [q EXCEPT !.todo = @ \ {p},
                !.matched = IF counts THEN @ \cup {p.name} ELSE @,
                !.allowed = @ /\ ~(counts /\ p.action = "Deny" /\ result.violated)]

(* Policies of the same priority come in any order: the map they are       *)
(* listed from has none, and the sort is not stable.                       *)
EvaluateNextPolicy(r) ==
  /\ request[r].step = "evaluating"
  /\ \E p \in request[r].todo :
       /\ \A other \in request[r].todo : other.priority =< p.priority
       /\ request' = [request EXCEPT ![r] = Evaluated(r, p)]
  /\ UNCHANGED <<policies, resultCache, policyChanges>>

EvaluationTimeout(r) ==
  /\ request[r].step = "evaluating" /\ request[r].todo # {}
  /\ request' = [request EXCEPT ![r] = Unsubmitted]
  /\ UNCHANGED <<policies, resultCache, policyChanges>>

(* The default action is to deny.                                          *)
cacheResult(r) ==
  LET q == request[r]
      allowed == q.allowed /\ q.matched # {}
  IN  /\ q.step = "evaluating" /\ q.todo = {}
      /\ resultCache' = [resultCache EXCEPT ![getCacheKey(q.spec)] =
                     [allowed |-> allowed, spec |-> q.spec, fresh |-> q.seen = policies]]
      /\ request' = [request EXCEPT ![r] = [q EXCEPT !.step = "answered", !.allowed = allowed]]
      /\ UNCHANGED <<policies, policyChanges>>

ReturnResult(r) ==
  /\ request[r].step = "answered"
  /\ request' = [request EXCEPT ![r] = Unsubmitted]
  /\ UNCHANGED <<policies, resultCache, policyChanges>>

Evaluate(r) ==
  \/ \E spec \in Specs : AdmitWorkload(r, spec)
  \/ getSortedPolicies(r) \/ EvaluateNextPolicy(r) \/ EvaluationTimeout(r)
  \/ cacheResult(r) \/ ReturnResult(r)

CacheTTL(key) ==
  /\ resultCache[key] # NotCached
  /\ resultCache' = [resultCache EXCEPT ![key] = NotCached]
  /\ UNCHANGED <<policies, request, policyChanges>>

ChangedKeepingCache(new) ==
  /\ policies' = new
  /\ request' = [r \in Requests |-> IF request[r].step = "none" THEN request[r]
                                    ELSE [request[r] EXCEPT !.during = @ \cup {new}]]
  /\ UNCHANGED resultCache

(* The change of the policies and clearCache.                              *)
Changed(new) ==
  /\ policies' = new
  /\ resultCache' = [k \in CacheKeys |-> NotCached]
  /\ request' = [r \in Requests |-> IF request[r].step = "none" THEN request[r]
                                    ELSE [request[r] EXCEPT !.during = @ \cup {new}]]

AddPolicy(policy) ==
  /\ policyChanges < MaxPolicyChanges /\ policyChanges' = policyChanges + 1
  /\ Changed({p \in policies : p.name # policy.name} \cup {policy})

RemovePolicy(name) ==
  /\ policyChanges < MaxPolicyChanges /\ policyChanges' = policyChanges + 1
  /\ \E p \in policies : p.name = name
  /\ Changed({p \in policies : p.name # name})

PolicyNext ==
  \/ \E r \in Requests : Evaluate(r)
  \/ \E key \in CacheKeys : CacheTTL(key)
  \/ \E policy \in AddedPolicies : AddPolicy(policy)
  \/ \E policy \in AddedPolicies \cup DefaultPolicies : RemovePolicy(policy.name)

PolicySpec == PolicyInit /\ [][PolicyNext]_policyVars

---------------------------------------------------------------------------

(* What the policies say of a spec, without an order: some policy matches, *)
(* and no deny policy that applies has a violated rule.                    *)
Complies(ps, spec) ==
  LET inForce == {p \in ps : /\ p.enabled /\ policyApplies(p, spec)
                             /\ evaluatePolicy(p, spec).matched}
  IN  /\ inForce # {}
      /\ \A p \in inForce : p.action = "Deny" => ~evaluatePolicy(p, spec).violated

(* What AdmitWorkload is told is what policies in force at some time of    *)
(* the call say of the workload, in whatever order Evaluate goes over the  *)
(* policies of one priority, unless it is a cached result of another       *)
(* workload with the same key or of policies replaced before it was        *)
(* stored: AddPolicy and RemovePolicy leave no other outdated result.      *)
AnswersAreCurrent ==
  \A r \in Requests :
    request[r].step = "answered" /\ request[r].hit # "other" =>
      \E ps \in request[r].during : request[r].allowed <=> Complies(ps, request[r].spec)
=============================================================================
