----------------------------- MODULE MCServices -----------------------------
(***************************************************************************)
(* Small instances of the coordinator's services: the replicated store and *)
(* the metadata caches above it, the policy engine, the secrets manager    *)
(* and the agents' client of it, the service registry and the load         *)
(* balancer.  A behaviour has one of them in focus and leaves the others   *)
(* as they started.                                                        *)
(***************************************************************************)
EXTENDS MetadataRaft, Policy, Secrets, AgentSecrets, ServiceRegistry, LoadBalancer, TLC

CONSTANTS s1, r1, r2, n1

TwoCalls == {r1, r2}
Symmetry == Permutations(TwoCalls)

-----------------------------------------------------------------------------
(* Workloads and policies that reach every kind of rule.                   *)
Hosts == {"gcr.io", "company.azurecr.io", "registry.example"}
AzureHosts == {"company.azurecr.io"}

Web(namespace, host, limit) ==
  [name |-> "web", namespace |-> namespace, image |-> [first |-> host, slash |-> TRUE],
   labels |-> [env |-> "production"], request |-> [cpu |-> 1, mem |-> 1],
   limit |-> [cpu |-> limit, mem |-> limit], volumes |-> {"hostPath"}, selector |-> [zone |-> "a"]]

SomeWorkloads == {Web("default", "gcr.io", 0), Web("default", "gcr.io", 2)}

SomeSpecs ==
  {[convertToPolicyWorkloadSpec(Web("production", "registry.example", 2)) EXCEPT
      !.privileged = TRUE, !.capabilities = {"KILL"}, !.hostNamespaces = {"pid"},
      !.egress = {"api.company.com"},
      !.security = [NoSecurity EXCEPT
         !.present = TRUE, !.privileged = TRUE, !.user = "root", !.runtimeClass = "runc",
         !.seccomp = "Unconfined", !.appArmor = "RuntimeDefault",
         !.seLinux = [type |-> "t", level |-> "s0"]]]}

Condition(field, operator, values) == [field |-> field, operator |-> operator, values |-> values]

Strict ==
  [DenyAll("strict", 90,
     [Rule("NodeSelector", [required |-> [zone |-> "b"], denied |-> [zone |-> ""]]) EXCEPT
        !.conditions = {Condition("namespace", "NotIn", {"default"}), Condition("labels.env", "Exists", {}),
                        Condition("gpu", "DoesNotExist", {}), Condition("privileged", "Equal", {"true"})}])
   EXCEPT !.namespace = "production",
     !.rules = @ \cup RestrictHostPathVolumesPolicy.rules \cup RestrictEgressPolicy.rules \cup
       {Rule("SecurityContext", [require |-> {"context", "unprivileged", "nonRoot", "readOnlyRoot"}]),
        Rule("SeccompProfile", [require |-> FALSE, forbidUnconfined |-> TRUE, allowed |-> {}]),
        Rule("AppArmorProfile", [require |-> FALSE, forbidUnconfined |-> TRUE, allowed |-> {"RuntimeDefault"}]),
        Rule("SELinuxOptions", [require |-> FALSE, allowed |-> {}, type |-> "t", level |-> "s1"]),
        Rule("RuntimeClass", [require |-> FALSE, requireSandboxed |-> FALSE, forbidden |-> {"runc"}, allowed |-> {"kata"}]),
        Rule("RunAsNonRoot", [enforce |-> TRUE]),
        Rule("ReadOnlyRootFS", [enforce |-> TRUE, exceptions |-> {"web"}])}]

SomePolicies == {ProductionNamespacePolicy, DevelopmentNamespacePolicy, Strict}

(* Two endpoints of one region, the first with twice the weight.           *)
TwoEndpoints == <<"e", "f">>
Weights == [e |-> 2, f |-> 0]
Regions == [e |-> "r", f |-> "r"]

-----------------------------------------------------------------------------
VARIABLE focus  \* what the behaviour runs

MCInit ==
  /\ focus \in {"store", "metadata", "policy", "secrets", "client", "addresses", "registry", "balancer"}
  /\ MetaInit /\ PolicyInit /\ SecretsInit /\ AgentSecretsInit /\ RegistryInit /\ LBInit
  /\ leader = s1 /\ (focus # "balancer" => algorithm = "WeightedRoundRobin")

(* The first server takes the snapshots, the clock of the second runs      *)
(* ahead, one entry of the log is about a key with an expiry, and of the   *)
(* two other keys, which the store treats alike, the first entry is about  *)
(* BucketKey; the store has other clients than the metadata there, so that *)
(* a cache may be stale from the start.  Above the store, a behaviour ends *)
(* with an event after which a cache may be stale; what a follower has     *)
(* applied matters only then.                                              *)
Replicating ==
  /\ \/ /\ focus = "store" /\ RaftNext /\ now'[s1] = 1
        /\ UNCHANGED <<leader, cache, ready, metaCall>> /\ upset' = TRUE
        /\ \A i, j \in DOMAIN log', k \in TtlKeys : log'[i][k] # NoCommand /\ log'[j][k] # NoCommand => i = j
        /\ log' # <<>> => \E k \in {BucketKey} \cup TtlKeys : log'[1][k] # NoCommand
     \/ focus = "metadata" /\ ~upset /\ MetaNext /\ \A s \in Servers \ {leader'} : applied'[s] = 0
  /\ \A s \in Servers \ {s1} : snapshot'[s].index = 0

(* Requests pass the policies one at a time: a pass reads and writes what  *)
(* is the request's own.  Of the default policies the ones that the        *)
(* workloads' answers depend on may be removed.                            *)
Admitting ==
  /\ focus = "policy" /\ PolicyNext
  /\ DefaultPolicies \ policies' \subseteq {RequireResourceLimitsPolicy, AllowDefaultNamespacePolicy}
  /\ \A r, q \in Requests : request'[r].todo # {} /\ request'[q].todo # {} => r = q

(* Three registrations without endpoints; or two with them.                *)
Registering ==
  /\ RegistryNext
  /\ \/ focus = "addresses" /\ regCount'.endpointCalls = 0
     \/ focus = "registry" /\ regCount'.registrations < 3

(* Of the two secrets, which the manager treats alike, the token is for    *)
(* the first.                                                              *)
KeepingSecrets == focus = "secrets" /\ SecretsNext /\ \A i \in TokenIds : token'[i].name \in {NoToken.name, n1}

(* A round of three requests by weight while no endpoint fails; or of two  *)
(* in turn, while endpoints may fail; or to the endpoint with the fewest   *)
(* connections, while the second may fail.                                 *)
Balancing ==
  /\ focus = "balancer" /\ LBNext
  /\ algorithm = "WeightedRoundRobin" => healthy' = Endpoints
  /\ algorithm = "LocalityAware" => rrCounter' < 3
  /\ algorithm = "LeastConnections" => "e" \in healthy'

MCNext ==
  /\ \/ /\ Replicating
        /\ UNCHANGED <<policyVars, secretVars, agentSecretVars, registryVars, lbVars>>
     \/ /\ Admitting
        /\ UNCHANGED <<raftVars, metaVars, secretVars, agentSecretVars, registryVars, lbVars>>
     \/ /\ KeepingSecrets
        /\ UNCHANGED <<raftVars, metaVars, policyVars, agentSecretVars, registryVars, lbVars>>
     \/ /\ focus = "client" /\ AgentSecretsNext
        /\ UNCHANGED <<raftVars, metaVars, policyVars, secretVars, registryVars, lbVars>>
     \/ /\ Registering
        /\ UNCHANGED <<raftVars, metaVars, policyVars, secretVars, agentSecretVars, lbVars>>
     \/ /\ Balancing
        /\ UNCHANGED <<raftVars, metaVars, policyVars, secretVars, agentSecretVars, registryVars>>
  /\ focus' = focus

MCSpec ==
  MCInit /\ [][MCNext]_<<focus, raftVars, metaVars, policyVars, secretVars, agentSecretVars, registryVars, lbVars>>
=============================================================================
