---------------------------- MODULE PolicyRules ----------------------------
(***************************************************************************)
(* The rules of the admission policies and how a workload is held against  *)
(* them (pkg/policy/evaluator.go and the conditions of engine.go).         *)
(*                                                                         *)
(* A rule evaluates to the set of what violates it: only whether the set   *)
(* is empty decides an admission.  A pattern is the set of the names that  *)
(* it matches, an absent list of a rule's configuration the empty set, and *)
(* an image the part before its first slash, if it has one.                *)
(***************************************************************************)
EXTENDS Integers, FiniteSets

CONSTANTS
  RegistryHosts, \* first parts that look like a registry: a dot or a colon
  MatchedHosts   \* those of them under azurecr.io and amazonaws.com

extractRegistry(image) ==
  IF image.slash /\ image.first \in RegistryHosts THEN image.first ELSE "docker.io"

(* A denied entry violates the rule; so does one missing from the allowed  *)
(* list, when there is one.                                                *)
Offending(used, allowed, denied) ==
  {x \in used : x \in denied \/ (allowed # {} /\ x \notin allowed)}

evaluateImageRegistry(rule, spec) ==
  Offending({extractRegistry(spec.image)}, rule.config.allowed, rule.config.denied)
evaluateCapabilities(rule, spec) == Offending(spec.capabilities, rule.config.allowed, rule.config.denied)
evaluateEgressDestination(rule, spec) == Offending(spec.egress, rule.config.allowed, rule.config.denied)
evaluateVolumeType(rule, spec) == Offending(spec.volumes, rule.config.allowed, rule.config.denied)

evaluateResourceLimit(rule, spec) ==
  LET c == rule.config
  IN  {d \in {"cpu", "mem"} : \/ c.max[d] > 0 /\ spec.request[d] > c.max[d]
                              \/ c.requireLimits /\ spec.limit[d] = 0}

(* An empty value in the rule stands for any value of the label.           *)
evaluateNodeSelector(rule, spec) ==
  LET has(key) == key \in DOMAIN spec.selector
      is(key, v) == has(key) /\ v \in {"", spec.selector[key]}
  IN  {key \in DOMAIN rule.config.required : ~is(key, rule.config.required[key])}
      \cup {key \in DOMAIN rule.config.denied : is(key, rule.config.denied[key])}

evaluatePrivilegedMode(rule, spec) == {spec.privileged} \ {FALSE, rule.config.allow}
evaluateHostNetwork(rule, spec) == spec.hostNamespaces \ rule.config.allow

(* The fields of the security context count only if there is one.          *)
evaluateSecurityContext(rule, spec) ==
  LET c == rule.config
      s == spec.security
  IN  IF ~s.present THEN {f \in {"context"} : "context" \in c.require}
      ELSE {f \in c.require : CASE f = "unprivileged" -> s.privileged
                                [] f = "nonRoot" -> s.runAsNonRoot # "true"
                                [] f = "readOnlyRoot" -> ~s.readOnlyRoot
                                [] OTHER -> FALSE}

(* Seccomp and AppArmor profiles, "nil" when there is none.                *)
evaluateProfile(rule, present, profile) ==
  IF ~present \/ profile = "nil" THEN {f \in {"missing"} : rule.config.require}
  ELSE {f \in {"unconfined"} : rule.config.forbidUnconfined /\ profile = "Unconfined"}
       \cup Offending({profile}, rule.config.allowed, {})
evaluateSeccompProfile(rule, spec) == evaluateProfile(rule, spec.security.present, spec.security.seccomp)
evaluateAppArmorProfile(rule, spec) == evaluateProfile(rule, spec.security.present, spec.security.appArmor)

evaluateSELinuxOptions(rule, spec) ==
  LET c == rule.config
      o == spec.security.seLinux
  IN  IF ~spec.security.present \/ o.type = "nil" THEN {f \in {"missing"} : c.require}
      ELSE Offending({o.type}, c.allowed, {})
           \cup {f \in {"type"} : c.type \notin {"", o.type}}
           \cup {f \in {"level"} : c.level \notin {"", o.level}}

SandboxedRuntimes == {"gvisor", "kata", "firecracker"}
evaluateRuntimeClass(rule, spec) ==
  LET c == rule.config
      class == IF spec.security.present THEN spec.security.runtimeClass ELSE ""
  IN  IF c.require /\ class = "" THEN {"missing"}
      ELSE {f \in {"sandbox"} : c.requireSandboxed /\ class \notin SandboxedRuntimes}
           \cup ({class} \cap c.forbidden)
           \cup Offending({class} \ {""}, c.allowed, {})

(* An explicit root user violates the rule whatever RunAsNonRoot says.     *)
evaluateRunAsNonRoot(rule, spec) ==
  LET s == spec.security
      ok == s.present /\ s.user # "root" /\ (s.runAsNonRoot = "true" \/ s.user = "other")
  IN  {f \in {"nonRoot"} : rule.config.enforce /\ ~ok}

evaluateReadOnlyRootFS(rule, spec) ==
  {f \in {"readOnlyRoot"} :
     /\ rule.config.enforce /\ spec.name \notin rule.config.exceptions
     /\ ~(spec.security.present /\ spec.security.readOnlyRoot)}

EvaluateRule(rule, spec) ==
  CASE rule.type = "ImageRegistry" -> evaluateImageRegistry(rule, spec)
    [] rule.type = "Capabilities" -> evaluateCapabilities(rule, spec)
    [] rule.type = "EgressDestination" -> evaluateEgressDestination(rule, spec)
    [] rule.type = "ResourceLimit" -> evaluateResourceLimit(rule, spec)
    [] rule.type = "NodeSelector" -> evaluateNodeSelector(rule, spec)
    [] rule.type = "PrivilegedMode" -> evaluatePrivilegedMode(rule, spec)
    [] rule.type = "HostNetwork" -> evaluateHostNetwork(rule, spec)
    [] rule.type = "VolumeType" -> evaluateVolumeType(rule, spec)
    [] rule.type = "SecurityContext" -> evaluateSecurityContext(rule, spec)
    [] rule.type = "SeccompProfile" -> evaluateSeccompProfile(rule, spec)
    [] rule.type = "AppArmorProfile" -> evaluateAppArmorProfile(rule, spec)
    [] rule.type = "SELinuxOptions" -> evaluateSELinuxOptions(rule, spec)
    [] rule.type = "RuntimeClass" -> evaluateRuntimeClass(rule, spec)
    [] rule.type = "RunAsNonRoot" -> evaluateRunAsNonRoot(rule, spec)
    [] rule.type = "ReadOnlyRootFS" -> evaluateReadOnlyRootFS(rule, spec)
    [] OTHER -> {}

(* The fields a condition may name; "nil" is no value.                     *)
getFieldValue(field, spec) ==
  CASE field = "namespace" -> spec.namespace
    [] field = "name" -> spec.name
    [] field = "image" -> spec.image.first
    [] field = "privileged" -> IF spec.privileged THEN "true" ELSE "false"
    [] field = "hostNetwork" -> IF "network" \in spec.hostNamespaces THEN "true" ELSE "false"
    [] field = "labels.env" -> IF "env" \in DOMAIN spec.labels THEN spec.labels["env"] ELSE ""
    [] OTHER -> "nil"

evaluateCondition(condition, spec) ==
  LET value == getFieldValue(condition.field, spec)
  IN  CASE condition.operator = "Equal" -> value \in condition.values
        [] condition.operator = "NotEqual" -> value \notin condition.values
        [] condition.operator = "In" -> value \in condition.values
        [] condition.operator = "NotIn" -> value \notin condition.values
        [] condition.operator = "Exists" -> value # "nil"
        [] condition.operator = "DoesNotExist" -> value = "nil"
        [] OTHER -> FALSE

evaluateConditions(conditions, spec) == \A c \in conditions : evaluateCondition(c, spec)

policyApplies(policy, spec) ==
  /\ policy.namespace \in {"", "*", spec.namespace}
  /\ \A key \in DOMAIN policy.labels :
       key \in DOMAIN spec.labels /\ spec.labels[key] = policy.labels[key]

---------------------------------------------------------------------------
(* The policies InitializePolicyEngine loads (rules.go), and the others    *)
(* that the package offers.  The options no evaluator reads are left out:  *)
(* require_signed_images, max_limit_to_request_ratio, allow_private_ips.   *)
(* CPU is in cores and memory in GB.                                       *)

Rule(type, config) == [type |-> type, conditions |-> {}, config |-> config]
DenyAll(name, priority, rule) ==
  [name |-> name, namespace |-> "*", labels |-> <<>>, enabled |-> TRUE, priority |-> priority,
   action |-> "Deny", rules |-> {rule}]
Lists(allowed, denied) == [allowed |-> allowed, denied |-> denied]

RestrictPrivilegedContainersPolicy ==
  DenyAll("restrict-privileged-containers", 100, Rule("PrivilegedMode", [allow |-> FALSE]))
RestrictHostNamespacesPolicy ==
  DenyAll("restrict-host-namespaces", 100, Rule("HostNetwork", [allow |-> {}]))
AllowedRegistriesPolicy ==
  DenyAll("allowed-registries", 90, Rule("ImageRegistry", Lists({"docker.io", "gcr.io", "ghcr.io", "quay.io"} \cup MatchedHosts, {})))
DenyDangerousCapabilitiesPolicy ==
  DenyAll("deny-dangerous-capabilities", 95,
          Rule("Capabilities",
               Lists({"CHOWN", "DAC_OVERRIDE", "FOWNER", "FSETID", "KILL", "SETGID", "SETUID", "NET_BIND_SERVICE"},
                     {"SYS_ADMIN", "SYS_MODULE", "SYS_RAWIO", "SYS_PTRACE", "SYS_BOOT", "MAC_ADMIN",
                      "NET_ADMIN", "SETPCAP", "ALL"})))
RequireResourceLimitsPolicy ==
  DenyAll("require-resource-limits", 80,
          Rule("ResourceLimit", [requireLimits |-> TRUE, max |-> [cpu |-> 16, mem |-> 32]]))
AllowDefaultNamespacePolicy ==
  [name |-> "allow-default-namespace", namespace |-> "default", labels |-> <<>>, enabled |-> TRUE,
   priority |-> 10, action |-> "Allow", rules |-> {}]

DefaultPolicies ==
  {AllowDefaultNamespacePolicy, RestrictPrivilegedContainersPolicy, RestrictHostNamespacesPolicy,
   AllowedRegistriesPolicy, DenyDangerousCapabilitiesPolicy, RequireResourceLimitsPolicy}

(* The pattern gcr.io/company-prod matches no registry: one has no path.   *)
ProductionNamespacePolicy ==
  [name |-> "production-namespace-restrictions", namespace |-> "production",
   labels |-> [env |-> "production"], enabled |-> TRUE, priority |-> 110, action |-> "Deny",
   rules |-> {Rule("ImageRegistry", Lists({"company.azurecr.io"}, {})),
              Rule("ResourceLimit", [requireLimits |-> TRUE, max |-> [cpu |-> 8, mem |-> 16]])}]
DevelopmentNamespacePolicy ==
  [name |-> "development-namespace-permissions", namespace |-> "development",
   labels |-> [env |-> "development"], enabled |-> TRUE, priority |-> 50, action |-> "Audit",
   rules |-> {Rule("ImageRegistry", Lists(RegistryHosts \cup {"docker.io"}, {}))}]
RestrictHostPathVolumesPolicy ==
  DenyAll("restrict-hostpath-volumes", 95,
          Rule("VolumeType", Lists({"emptyDir", "configMap", "secret", "persistentVolume"}, {"hostPath"})))
RestrictEgressPolicy ==
  [DenyAll("restrict-egress-destinations", 85,
           Rule("EgressDestination", Lists({"api.company.com", "www.example.com"}, {"www.suspicious.com"})))
   EXCEPT !.enabled = FALSE]
RequireNodeAffinityPolicy(requiredLabels) ==
  [DenyAll("require-node-affinity", 70,
           Rule("NodeSelector", [required |-> requiredLabels, denied |-> <<>>]))
   EXCEPT !.enabled = FALSE]
=============================================================================
