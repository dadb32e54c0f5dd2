------------------------------ MODULE KubeChecks -------------------------------
(* kube-score: RegisterAllChecks binds the checks that relate objects of      *)
(* different kinds to the parsed lists; Score runs every check over its list. *)
(* The scorecard that keeps the results is Scorecard.                         *)
EXTENDS KubeObjects, PodChecks, Integers

CONSTANTS MinReplicasDeployment, MinReplicasHPA,
          KubernetesVersion,  \* the minor version; the major version is 1
          Half,               \* 2^31: an int32 is one of -Half..Half - 1
          Fold                \* [kind |-> what it is in any case of its letters]

ASSUME FlagsAssumption ==
    MinReplicasDeployment \in Int /\ MinReplicasHPA \in Int /\ Half \in Nat \ {0}

\* The fields of a decoded Deployment that the checks on replicas read.
ASSUME FieldsAssumption ==
    \A d \in Documents : (d.form = "object" /\ "deployments" \in ListsOf(d.gvk)) =>
        {"gvk", "ns", "name", "labels", "replicas"} \subseteq DOMAIN d

VARIABLES results   \* [check |-> what it returned for each object of its list]

vars == <<input, todo, parsed, status, results>>

\* The elements of a list, for the checks that look for any that fits.
Listed(l) == {parsed[l][i] : i \in DOMAIN parsed[l]}

\* The labels of an object are one value, a selector is what it matches:
\* [valid |-> FALSE, matches |-> {}] if LabelSelectorAsSelector rejects it,
\* everything if it is empty, nothing if it is nil.
LabelSelectorMatchesLabels(selector, labels) == selector.valid /\ labels \in selector.matches

\* (Mutant: the namespace that the template states, if any, is used.)
StatedNamespace(o) == IF o.gvk[2] = "Pod" THEN o.ns ELSE o.templateNs

\* GetPodTemplateSpec puts the template into the namespace of its object,
\* whatever the template states.
TemplateNamespace(o) == o.ns

PodLike == Listed("pods") \cup Listed("podspecers")

-----------------------------------------------------------------------------
(* networkpolicy.go                                                          *)

\* The policies that select the pod, and what they are about.
PodHasNetworkPolicy(o) ==
    LET selecting == {n \in Listed("networkPolicies") :
                        /\ n.ns = TemplateNamespace(o)
                        /\ LabelSelectorMatchesLabels(n.selector, o.labels)}
        ingress == \E n \in selecting : n.types = {} \/ "Ingress" \in n.types
        egress == \E n \in selecting :
                     (n.types = {} /\ n.hasEgress) \/ "Egress" \in n.types
    IN  IF ingress /\ egress THEN AllOK
        ELSE IF ingress \/ egress THEN Warning ELSE Critical

NetworkPolicyTargetsPod(n) ==
    CriticalIf(~\E o \in PodLike : /\ o.ns = n.ns
                                   /\ LabelSelectorMatchesLabels(n.selector, o.labels))

-----------------------------------------------------------------------------
(* service.go, probes.go, and the strategy of deployment.go: who is targeted *)
(* by a service is found out in three places.                                *)

\* (Mutant: only Pods count as targets, not what makes pods.)
ServiceTargetsOnlyPods(s) ==
    CriticalIf(/\ s.type # "ExternalName"
               /\ ~\E o \in Listed("pods") : /\ o.ns = s.ns
                                            /\ LabelSelectorMatchesLabels(s.selector, o.labels))

ServiceTargetsPod(s) ==
    CriticalIf(/\ s.type # "ExternalName"
               /\ ~\E o \in PodLike : /\ o.ns = s.ns
                                      /\ LabelSelectorMatchesLabels(s.selector, o.labels))

ServiceType(s) == IF s.type = "NodePort" THEN Warning ELSE AllOK

IsTargetedByService(o) ==
    \E s \in Listed("services") : /\ TemplateNamespace(o) = s.ns
                                  /\ LabelSelectorMatchesLabels(s.selector, o.labels)

ContainerProbes(o) ==
    IF IsBatch(o) THEN AllOK
    ELSE IF ~IsTargetedByService(o) THEN Skipped(10)
    ELSE CriticalIf(~\E c \in o.containers : c.readiness # << >>)

\* svcsInNamespace of the two checks on deployments.
ReferencedByService(d) ==
    \E s \in Listed("services") : s.ns = d.ns /\ LabelSelectorMatchesLabels(s.selector, d.labels)

DeploymentRolloutStrategy(d) ==
    IF ~ReferencedByService(d) THEN Skipped(0)
    ELSE IF d.strategy \in {"RollingUpdate", ""} THEN AllOK ELSE Warning

-----------------------------------------------------------------------------
(* The replicas: deployment.go, hpa.go and the HPA check of apps.go.         *)

\* The flags are of type int, and converted: a large minimum wraps around.
Int32(n) == ((n + Half) % (2 * Half)) - Half

\* (Mutant: that an autoscaler sets the replicas is not considered.)
DeploymentReplicasAlways(d) ==
    IF ~ReferencedByService(d) THEN Skipped(0)
    ELSE IF Deref(d.replicas, 1) >= Int32(MinReplicasDeployment) THEN AllOK ELSE Warning

\* This check compares the apiVersion, and the kind as it is written.
ScaledBy(d, h) == h.ns = d.ns /\ h.target = [gvk |-> d.gvk, name |-> d.name]

DeploymentReplicas(d) ==
    IF ~ReferencedByService(d) \/ \E h \in Listed("hpaTargeters") : ScaledBy(d, h)
    THEN Skipped(0)
    ELSE IF Deref(d.replicas, 1) >= Int32(MinReplicasDeployment) THEN AllOK ELSE Warning

\* strings.EqualFold on the kind.
EqualFold(k, l) == Fold[k] = Fold[l]

\* This check does not compare the apiVersion.
NamedBy(d, h) ==
    h.ns = d.ns /\ EqualFold(h.target.gvk[2], d.gvk[2]) /\ h.target.name = d.name

HpaDeploymentNoReplicas(d) ==
    IF \E h \in Listed("hpaTargeters") : NamedBy(d, h)
    THEN CriticalIf(d.replicas # << >>)
    ELSE Skipped(10)

HpaHasTarget(h) ==
    CriticalIf(~\E o \in Listed("bothMetas") :
                  o.ns = h.ns /\ h.target = [gvk |-> o.gvk, name |-> o.name])

HpaHasMultipleReplicas(h) ==
    IF Deref(h.minReplicas, 1) >= Int32(MinReplicasHPA) THEN AllOK ELSE Warning

-----------------------------------------------------------------------------
(* The rest of apps.go, for a Deployment or a StatefulSet; disruptionbudget. *)

FewReplicas(o) == Deref(o.replicas, 2) < 2

HasAntiAffinity(o) ==
    IF FewReplicas(o) THEN Skipped(0)
    ELSE IF \E term \in o.antiAffinity :
               term.approved /\ LabelSelectorMatchesLabels(term.selector, o.labels)
         THEN AllOK ELSE Warning

StatefulSetHasServiceName(o) ==
    CriticalIf(~\E s \in Listed("services") :
                  /\ s.ns = o.ns /\ s.name = o.serviceName /\ s.headless
                  /\ LabelSelectorMatchesLabels(s.selector, o.labels))

\* An invalid selector is graded, but returned as an error: it ends the run.
SelectorLabelsMatching(o) ==
    IF ~o.selector.valid THEN Failed ELSE CriticalIf(o.labels \notin o.selector.matches)

\* (Mutant: a budget that matches in another namespace ends the search.)
HasMatchingEarly(budgets, ns, labels) ==
    LET stops == {i \in DOMAIN budgets :
                    ~budgets[i].selector.valid \/ labels \in budgets[i].selector.matches}
        first == CHOOSE i \in stops : \A j \in stops : i <= j
    IN  IF stops = {} THEN Critical
        ELSE IF ~budgets[first].selector.valid THEN Failed
        ELSE CriticalIf(budgets[first].ns # ns)

\* (Mutant: a budget whose selector cannot be read is passed over.)
HasMatchingSkips(budgets, ns, labels) ==
    CriticalIf(~\E i \in DOMAIN budgets :
                  /\ budgets[i].ns = ns
                  /\ LabelSelectorMatchesLabels(budgets[i].selector, labels))

\* hasMatching stops at the first budget that fits or cannot be read.
HasMatching(budgets, ns, labels) ==
    LET stops == {i \in DOMAIN budgets :
                    \/ ~budgets[i].selector.valid
                    \/ labels \in budgets[i].selector.matches /\ budgets[i].ns = ns}
        first == CHOOSE i \in stops : \A j \in stops : i <= j
    IN  IF stops = {} THEN Critical
        ELSE IF budgets[first].selector.valid THEN AllOK ELSE Failed

HasDisruptionBudget(o) ==
    IF FewReplicas(o) THEN Skipped(0)
    ELSE HasMatching(parsed.podDisruptionBudgets, o.ns, o.labels)

HasPolicy(b) == CriticalIf(~b.hasPolicy)

-----------------------------------------------------------------------------
(* ingress.go, cronjob.go, stable_version.go, meta.go                        *)

\* A port given by number that differs is still compared by name, so that a
\* port without a name fits every number.
PortMatches(backend, port) ==
    \/ backend.number > 0 /\ port.number = backend.number
    \/ port.name = backend.portName

IngressTargetsService(g) ==
    CriticalIf(\E b \in g.backends :
                 ~\E s \in Listed("services") :
                    /\ s.ns = g.ns /\ b.isService /\ s.name = b.service
                    /\ \E port \in s.ports : PortMatches(b, port))

CronJobHasDeadline(j) == CriticalIf(~j.deadline)

CronJobHasRestartPolicy(j) == CriticalIf(j.restartPolicy \notin {"Never", "OnFailure"})

\* withStable: deprecated versions, what replaces them and since when.
WithStable ==
    LET since(v, kinds, new, minor) ==
          {[gvk |-> <<v, k>>, new |-> new, since |-> minor] : k \in kinds}
    IN  UNION {since("extensions/v1beta1", {"Deployment", "DaemonSet"}, "apps/v1", 9),
               since("extensions/v1beta1", {"Ingress", "IngressClass"}, "networking.k8s.io/v1", 19),
               since("apps/v1beta1", {"Deployment", "StatefulSet"}, "apps/v1", 9),
               since("apps/v1beta2", {"Deployment", "StatefulSet", "DaemonSet"}, "apps/v1", 9),
               since("batch/v1beta1", {"CronJob"}, "batch/v1", 21),
               since("policy/v1beta1", {"PodDisruptionBudget"}, "policy/v1", 21),
               since("networking.k8s.io/v1beta1", {"Ingress", "IngressClass"},
                     "networking.k8s.io/v1", 19)}

MetaStableAvailable(o) ==
    IF \E r \in WithStable : r.gvk = o.gvk /\ KubernetesVersion >= r.since
    THEN Warning ELSE AllOK

ValidateLabelValues(o) == CriticalIf(~o.validLabels)

-----------------------------------------------------------------------------
\* All registered checks over their lists.  Score makes a pod specer of a Pod.
Verdicts ==
    LET pods == parsed.pods \o parsed.podspecers
        metas == parsed.bothMetas
        services == parsed.services
        deployments == parsed.deployments
        sets == parsed.statefulsets
        netpols == parsed.networkPolicies
        jobs == parsed.cronjobs
        hpas == parsed.hpaTargeters
        pdbs == parsed.podDisruptionBudgets
    IN  [resources |-> [i \in DOMAIN pods |-> ContainerResources(pods[i])],
         cpuEqual |-> [i \in DOMAIN pods |-> ContainerCPURequestsEqualLimits(pods[i])],
         memoryEqual |-> [i \in DOMAIN pods |-> ContainerMemoryRequestsEqualLimits(pods[i])],
         requestsEqual |->
             [i \in DOMAIN pods |-> ContainerResourceRequestsEqualLimits(pods[i])],
         imageTag |-> [i \in DOMAIN pods |-> ContainerImageTag(pods[i])],
         pullPolicy |-> [i \in DOMAIN pods |-> ContainerImagePullPolicy(pods[i])],
         storage |-> [i \in DOMAIN pods |-> ContainerStorageEphemeralRequestAndLimit(pods[i])],
         storageEqual |->
             [i \in DOMAIN pods |-> ContainerStorageEphemeralRequestEqualsLimit(pods[i])],
         ports |-> [i \in DOMAIN pods |-> ContainerPortsCheck(pods[i])],
         envKeys |-> [i \in DOMAIN pods |-> EnvironmentVariableKeyDuplication(pods[i])],
         readOnly |->
             [i \in DOMAIN pods |-> ContainerSecurityContextReadOnlyRootFilesystem(pods[i])],
         privileged |-> [i \in DOMAIN pods |-> ContainerSecurityContextPrivileged(pods[i])],
         userGroup |-> [i \in DOMAIN pods |-> ContainerSecurityContextUserGroupID(pods[i])],
         seccomp |-> [i \in DOMAIN pods |-> PodSeccompProfile(pods[i])],
         spread |-> [i \in DOMAIN pods |-> PodTopologySpreadConstraints(pods[i])],
         identical |-> [i \in DOMAIN pods |-> ContainerProbesIdentical(pods[i])],
         probes |-> [i \in DOMAIN pods |-> ContainerProbes(pods[i])],
         networkPolicy |-> [i \in DOMAIN pods |-> PodHasNetworkPolicy(pods[i])],
         stable |-> [i \in DOMAIN metas |-> MetaStableAvailable(metas[i])],
         labels |-> [i \in DOMAIN metas |-> ValidateLabelValues(metas[i])],
         serviceTarget |-> [i \in DOMAIN services |-> ServiceTargetsPod(services[i])],
         serviceType |-> [i \in DOMAIN services |-> ServiceType(services[i])],
         strategy |-> [i \in DOMAIN deployments |-> DeploymentRolloutStrategy(deployments[i])],
         replicas |-> [i \in DOMAIN deployments |-> DeploymentReplicas(deployments[i])],
         noReplicas |-> [i \in DOMAIN deployments |-> HpaDeploymentNoReplicas(deployments[i])],
         affinity |-> [i \in DOMAIN deployments |-> HasAntiAffinity(deployments[i])],
         selector |-> [i \in DOMAIN deployments |-> SelectorLabelsMatching(deployments[i])],
         budget |-> [i \in DOMAIN deployments |-> HasDisruptionBudget(deployments[i])],
         setService |-> [i \in DOMAIN sets |-> StatefulSetHasServiceName(sets[i])],
         setAffinity |-> [i \in DOMAIN sets |-> HasAntiAffinity(sets[i])],
         setSelector |-> [i \in DOMAIN sets |-> SelectorLabelsMatching(sets[i])],
         setBudget |-> [i \in DOMAIN sets |-> HasDisruptionBudget(sets[i])],
         netpolTarget |-> [i \in DOMAIN netpols |-> NetworkPolicyTargetsPod(netpols[i])],
         ingress |->
             [i \in DOMAIN parsed.ingresses |-> IngressTargetsService(parsed.ingresses[i])],
         deadline |-> [i \in DOMAIN jobs |-> CronJobHasDeadline(jobs[i])],
         restart |-> [i \in DOMAIN jobs |-> CronJobHasRestartPolicy(jobs[i])],
         hpaTarget |-> [i \in DOMAIN hpas |-> HpaHasTarget(hpas[i])],
         hpaReplicas |-> [i \in DOMAIN hpas |-> HpaHasMultipleReplicas(hpas[i])],
         policy |-> [i \in DOMAIN pdbs |-> HasPolicy(pdbs[i])]]

NoResults == [c \in {} |-> << >>]

\* An error of a check ends the run without results.
Score ==
    /\ status = "parsed"
    /\ LET all == Verdicts
           failed == \E c \in DOMAIN all : \E i \in DOMAIN all[c] : all[c][i].err
       IN  /\ results' = IF failed THEN NoResults ELSE all
           /\ status' = IF failed THEN "error" ELSE "scored"
    /\ UNCHANGED <<input, todo, parsed>>

Init == ParserInit /\ results = NoResults

Next == \/ (ReadDocument \/ EndOfInput) /\ UNCHANGED results
        \/ Score

Spec == Init /\ [][Next]_vars

-----------------------------------------------------------------------------
(* Properties.                                                               *)

Scored == status = "scored"

PodSeq == parsed.pods \o parsed.podspecers

\* A policy that says nothing of its types is about ingress at least.
Directs(n) == n.types = {} \/ "Ingress" \in n.types \/ "Egress" \in n.types

\* The two ends of a network policy agree: some pod has a policy for a direction
\* exactly if some policy that is about one has a pod; so they agree on the
\* namespace a template is in.  (A policy about neither direction counts for the
\* policy, whose types are not looked at there, and not for the pod.)
NetworkPoliciesAgree ==
    Scored =>
        ((\E i \in DOMAIN PodSeq : results.networkPolicy[i] # Critical) <=>
         (\E i \in DOMAIN parsed.networkPolicies :
             Directs(parsed.networkPolicies[i]) /\ results.netpolTarget[i] = AllOK))

\* The checks that find out separately whether pods are behind a service give
\* the same answer: a Deployment has to roll and to have replicas exactly if
\* its pods need probes, a StatefulSet with a service has pods that need them,
\* and a pod that needs probes is behind a service that has a target.
ServicesAgree ==
    Scored =>
        /\ \A i \in DOMAIN PodSeq : \A k \in DOMAIN parsed.deployments :
              PodSeq[i] = parsed.deployments[k] =>
                  (results.probes[i].skipped <=> results.strategy[k].skipped)
        /\ \A i \in DOMAIN PodSeq : \A k \in DOMAIN parsed.statefulsets :
              (PodSeq[i] = parsed.statefulsets[k] /\ results.setService[k] = AllOK) =>
                  ~results.probes[i].skipped
        /\ (\E i \in DOMAIN PodSeq : ~IsBatch(PodSeq[i]) /\ ~results.probes[i].skipped) =>
              \E k \in DOMAIN parsed.services : results.serviceTarget[k] = AllOK
        /\ \A k \in DOMAIN parsed.services :
              (/\ results.serviceTarget[k] = AllOK
               /\ parsed.services[k].type # "ExternalName") =>
                  \E i \in DOMAIN PodSeq : IsBatch(PodSeq[i]) \/ ~results.probes[i].skipped

\* The checks that look, each in its own way, at the two ends of a relation, a
\* policy or a service and the pods it selects, agree on who is selected.
TargetingAgrees == NetworkPoliciesAgree /\ ServicesAgree

Named(d) == \E h \in Listed("hpaTargeters") : NamedBy(d, h)
Scaled(d) == \E h \in Listed("hpaTargeters") : ScaledBy(d, h)

\* What the two checks on replicas demand can be met together, by some number of
\* replicas or none, exactly unless the Deployment is behind a service, the
\* minimum is above the default of one, and it is named by an autoscaler, but by
\* none with its apiVersion and the case of its kind: then one check wants no
\* number to be set and the other a high one.
ReplicasSatisfiable ==
    Scored =>
        \A k \in DOMAIN parsed.deployments :
            LET d == parsed.deployments[k]
                satisfiable ==
                    \E r \in {<< >>} \cup {<<n>> : n \in 0..Int32(MinReplicasDeployment)} :
                        LET fixed == [d EXCEPT !.replicas = r]
                        IN  \A v \in {DeploymentReplicas(fixed), HpaDeploymentNoReplicas(fixed)} :
                                v.skipped \/ v = AllOK
                conflict == /\ Named(d) /\ ~Scaled(d)
                            /\ ReferencedByService(d) /\ Int32(MinReplicasDeployment) > 1
            IN  satisfiable <=> ~conflict

Fits(b, o) == b.ns = o.ns /\ LabelSelectorMatchesLabels(b.selector, o.labels)

BudgetsFound(list, verdicts) ==
    \A k \in DOMAIN list : ~FewReplicas(list[k]) =>
        (verdicts[k] = AllOK <=>
            \E b \in Listed("podDisruptionBudgets") : Fits(b, list[k]))

\* In a run that is scored the order of the documents does not decide whether
\* a workload has a disruption budget: it has if any budget fits.  (A budget
\* that fits hides an invalid one behind it, never one before it.)
BudgetAnyOrder ==
    Scored => /\ BudgetsFound(parsed.deployments, results.budget)
              /\ BudgetsFound(parsed.statefulsets, results.setBudget)

\* The search for a budget of the workload comes upon one that cannot be read.
MeetsInvalid(o) ==
    LET pdbs == parsed.podDisruptionBudgets
    IN  \E i \in DOMAIN pdbs : /\ ~pdbs[i].selector.valid
                               /\ ~\E j \in 1..i - 1 : Fits(pdbs[j], o)

\* A run ends with an error, and without any results, exactly if a Deployment or a
\* StatefulSet has a selector that cannot be read, or several replicas and no
\* budget that fits before one with such a selector; so no other object, on
\* whatever list, costs the results of the rest.
OnlyInvalidSelectorsFail ==
    status \in {"scored", "error"} =>
        (status = "error" <=>
           \E o \in Listed("deployments") \cup Listed("statefulsets") :
              ~o.selector.valid \/ (~FewReplicas(o) /\ MeetsInvalid(o)))

\* Who follows the advice to use a newer apiVersion loses no check by it: the
\* parser knows the newer version and puts it on all lists of the old one, and
\* no further advice is given for it.
AdviceKeepsChecks ==
    Scored =>
        \A i \in DOMAIN parsed.bothMetas : results.stable[i] = Warning =>
            \A r \in WithStable : r.gvk = parsed.bothMetas[i].gvk =>
                /\ ListsOf(r.gvk) \subseteq ListsOf(<<r.new, r.gvk[2]>>)
                /\ ~\E further \in WithStable : further.gvk = <<r.new, r.gvk[2]>>

\* probes.go says that readiness probes are not required of a pod that no
\* service targets; a service of type ExternalName has no selector and targets
\* none.
ProbesOnlyIfTargeted ==
    Scored =>
        \A i \in DOMAIN PodSeq : results.probes[i] = Critical =>
            \E s \in Listed("services") :
                /\ s.type # "ExternalName" /\ s.ns = PodSeq[i].ns
                /\ LabelSelectorMatchesLabels(s.selector, PodSeq[i].labels)
=============================================================================
