----------------------------- MODULE MCKubeChecks ------------------------------
(* Two namespaces, two sets of labels, one name per kind; all sequences of up *)
(* to two documents, of three of those that interact, and pods with up to two *)
(* containers.                                                                *)
EXTENDS KubeChecks, TLC

A == [valid |-> TRUE, matches |-> {"a"}]
Everything == [valid |-> TRUE, matches |-> {"a", "b"}]
None == [valid |-> TRUE, matches |-> {}]
Invalid == [valid |-> FALSE, matches |-> {}]

Nothing == [cpu |-> 0, memory |-> 0, storage |-> 0]
Plain == [init |-> FALSE, requests |-> Nothing, limits |-> Nothing, tag |-> "v1",
          pull |-> "Always", ports |-> << >>, env |-> << >>, secured |-> FALSE,
          readOnly |-> FALSE, privileged |-> FALSE, user |-> << >>, group |-> << >>,
          seccomp |-> FALSE, readiness |-> << >>, liveness |-> << >>]

Get(path, number) ==
    [handler |-> "httpGet", path |-> path, port |-> [name |-> "", number |-> number]]
Ready == [Plain EXCEPT !.readiness = <<Get("p", 1)>>]

Containers ==
    {[Plain EXCEPT !.tag = t, !.pull = p] : t \in {"", "latest", "v1"},
                                            p \in {"", "Always", "IfNotPresent"}}
    \cup {[Plain EXCEPT !.requests = [cpu |-> rc, memory |-> rm, storage |-> rc],
                        !.limits = [cpu |-> lc, memory |-> lm, storage |-> lc]] :
             rc \in 0..1, rm \in 0..1, lc \in 0..2, lm \in 0..1}
    \cup {[Ready EXCEPT !.liveness = l] : l \in {<<Get("p", 1)>>, <<Get("q", 1)>>}}
    \cup {[Plain EXCEPT !.secured = TRUE, !.user = u, !.seccomp = s] :
             u \in {<< >>, <<10000>>, <<9999>>}, s \in BOOLEAN}
    \cup {[Plain EXCEPT !.env = <<"k", "k">>],
          [Plain EXCEPT !.ports = <<[name |-> "", number |-> 1, tooLong |-> FALSE],
                                    [name |-> "", number |-> 1, tooLong |-> FALSE]>>]}

Object(v, kind, ns) ==
    [form |-> "object", gvk |-> <<v, kind>>, decodes |-> TRUE, ns |-> ns, name |-> "n",
     validLabels |-> TRUE]

Workload(v, kind, ns, labels, replicas) ==
    Object(v, kind, ns) @@
    [templateNs |-> "", labels |-> labels, containers |-> {Plain}, annotated |-> FALSE,
     secured |-> FALSE, seccomp |-> FALSE, user |-> << >>, group |-> << >>, spreads |-> {},
     replicas |-> replicas, strategy |-> "", selector |-> A, serviceName |-> "n",
     antiAffinity |-> {}, deadline |-> FALSE, restartPolicy |-> ""]

NetPol(ns, sel, types) ==
    Object("networking.k8s.io/v1", "NetworkPolicy", ns) @@
    [selector |-> sel, types |-> types, hasEgress |-> FALSE]
Service(ns, sel, type) ==
    Object("v1", "Service", ns) @@
    [selector |-> sel, type |-> type, headless |-> TRUE,
     ports |-> {[number |-> 80, name |-> ""]}]
Budget(v, ns, sel) ==
    Object(v, "PodDisruptionBudget", ns) @@ [selector |-> sel, hasPolicy |-> TRUE]
Hpa(ns, v, kind) ==
    Object("autoscaling/v2", "HorizontalPodAutoscaler", ns) @@
    [target |-> [gvk |-> <<v, kind>>, name |-> "n"], minReplicas |-> << >>]
Ingress(v, number) ==
    Object(v, "Ingress", "x") @@
    [backends |-> {[isService |-> TRUE, service |-> "n", number |-> number, portName |-> ""]}]
ListDoc(items) == [form |-> "list", decodes |-> TRUE, items |-> items]

\* Documents that relate to each other.
Core ==
    {Workload("apps/v1", "Deployment", ns, l, r) :
        ns \in {"x", "y"}, l \in {"a", "b"}, r \in {<< >>, <<2>>}}
    \cup {Workload("apps/v1", "StatefulSet", "x", "a", << >>),
          Workload("v1", "Pod", "x", "a", << >>)}
    \cup {NetPol(ns, A, {}) : ns \in {"x", ""}}
    \cup {Service("x", A, "ClusterIP"), Service("y", Everything, "ExternalName"),
          Service("", A, "ClusterIP")}
    \cup {Budget("policy/v1", ns, s) : ns \in {"x", "y"}, s \in {A, Invalid}}
    \cup {Hpa("x", "apps/v1", "Deployment"), Hpa("x", "apps/v1beta1", "Deployment"),
          Hpa("x", "apps/v1", "DEPLOYMENT")}

Others ==
    {Workload("apps/v1", "Deployment", "x", "a", <<1>>),
     [Workload("apps/v1", "Deployment", "x", "a", <<2>>) EXCEPT !.selector = Invalid],
     [Workload("apps/v1", "Deployment", "x", "a", <<2>>) EXCEPT
         !.antiAffinity = {[approved |-> TRUE, selector |-> A]}, !.strategy = "Recreate"],
     [Workload("apps/v1", "Deployment", "x", "a", <<2>>) EXCEPT !.decodes = FALSE],
     [Workload("v1", "Pod", "x", "b", << >>) EXCEPT !.containers = {Ready}],
     Workload("apps/v1beta1", "Deployment", "x", "a", << >>),
     Workload("extensions/v1beta1", "DaemonSet", "x", "a", << >>),
     Workload("batch/v1", "Job", "x", "a", << >>),
     Workload("batch/v1beta1", "CronJob", "x", "a", << >>),
     [Workload("batch/v1", "CronJob", "y", "a", << >>) EXCEPT !.restartPolicy = "Never"],
     NetPol("x", A, {"Other"}), Hpa("x", "apps/v1", "deployment"),
     NetPol("x", None, {"Egress"}), NetPol("x", Everything, {"Ingress", "Egress"}),
     Service("x", Invalid, "NodePort"), Budget("policy/v1beta1", "x", None),
     Ingress("networking.k8s.io/v1", 80), Ingress("extensions/v1beta1", 81),
     Object("v1", "ConfigMap", "x"),
     [form |-> "blank"], [form |-> "garbled"],
     [form |-> "list", decodes |-> FALSE, items |-> << >>],
     ListDoc(<<Service("x", A, "ClusterIP"), Workload("v1", "Pod", "x", "a", << >>)>>),
     ListDoc(<<ListDoc(<<NetPol("x", A, {}), Object("v1", "ConfigMap", "x")>>),
               Workload("v1", "Pod", "x", "a", << >>), [form |-> "garbled"]>>),
     ListDoc(<<ListDoc(<<Hpa("x", "apps/v1", "Deployment"), NetPol("x", A, {})>>),
               Workload("apps/v1", "Deployment", "x", "a", << >>)>>)}

MCInputs ==
    {<<>>} \cup {<<d>> : d \in Core \cup Others}
    \cup {<<d, e>> : d \in Core \cup Others, e \in Core \cup Others}
    \cup {<<c, d, e>> : c \in Core, d \in Core, e \in Core}
    \cup {<<[Workload("v1", "Pod", "x", "a", << >>) EXCEPT !.containers = cs]>> :
             cs \in {{}} \cup {{c, d} : c, d \in Containers}}

WithItems(docs) == docs \cup UNION {Range(d.items) : d \in {e \in docs : e.form = "list"}}
MCDocuments == WithItems(WithItems(UNION {Range(docs) : docs \in MCInputs}))

MCFold ==
    LET objects == {d \in MCDocuments : d.form = "object"}
        targets == {d.target.gvk : d \in {o \in objects : "target" \in DOMAIN o}}
        kinds == {gvk[2] : gvk \in targets \cup {d.gvk : d \in objects}}
    IN  [k \in kinds |-> IF k \in {"DEPLOYMENT", "deployment"} THEN "Deployment" ELSE k]

IsList(d) == d.form = "list"
MCNesting == 2
MCDepth == [d \in MCDocuments |->
              IF ~IsList(d) THEN 0
              ELSE IF \E e \in Range(d.items) : IsList(e) THEN 2 ELSE 1]
=============================================================================
