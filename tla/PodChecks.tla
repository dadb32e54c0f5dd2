------------------------------- MODULE PodChecks --------------------------------
(* kube-score: the checks that look at one pod alone, its containers and its  *)
(* security context.  A pod is [containers |-> set of containers, annotated,  *)
(* secured, user, group, spreads, ...]; a pointer is << >> (nil) or <<value>>.*)
EXTENDS Naturals, Sequences

CONSTANTS RequireCPULimit, RequireMemoryLimit   \* the --ignore-container-*-limit flags

\* What a check returns; GradeAlmostOK and GradeAllOK count alike.
Graded(g) == [grade |-> g, skipped |-> FALSE, err |-> FALSE]
AllOK == Graded(10)
Warning == Graded(5)
Critical == Graded(1)
Skipped(g) == [grade |-> g, skipped |-> TRUE, err |-> FALSE]
Failed == [grade |-> 1, skipped |-> FALSE, err |-> TRUE]

CriticalIf(bad) == IF bad THEN Critical ELSE AllOK

Deref(pointer, default) == IF pointer = << >> THEN default ELSE pointer[1]

-----------------------------------------------------------------------------
(* container.go.  A resource that is not set is 0.                           *)

ContainerResources(pod) ==
    LET limitMissing == \E c \in pod.containers :
                          \/ RequireCPULimit /\ c.limits.cpu = 0
                          \/ RequireMemoryLimit /\ c.limits.memory = 0
        requestMissing == \E c \in pod.containers :
                            c.requests.cpu = 0 \/ c.requests.memory = 0
    IN  IF pod.containers = {} \/ limitMissing THEN Critical
        ELSE IF requestMissing THEN Warning ELSE AllOK

ContainerCPURequestsEqualLimits(pod) ==
    CriticalIf(\E c \in pod.containers : c.requests.cpu # c.limits.cpu)

ContainerMemoryRequestsEqualLimits(pod) ==
    CriticalIf(\E c \in pod.containers : c.requests.memory # c.limits.memory)

ContainerResourceRequestsEqualLimits(pod) ==
    CriticalIf(\/ ContainerCPURequestsEqualLimits(pod) = Critical
               \/ ContainerMemoryRequestsEqualLimits(pod) = Critical)

\* containerTag is what follows the last colon; here the tag is given.
Floating(tag) == tag \in {"", "latest"}

ContainerImageTag(pod) == CriticalIf(\E c \in pod.containers : Floating(c.tag))

\* Without a policy Kubernetes pulls a floating tag always.
ContainerImagePullPolicy(pod) ==
    CriticalIf(\E c \in pod.containers :
                 /\ ~(c.pull = "" /\ Floating(c.tag))
                 /\ c.pull # "Always")

ContainerStorageEphemeralRequestAndLimit(pod) ==
    IF pod.containers = {} \/ \E c \in pod.containers : c.limits.storage = 0
    THEN Critical
    ELSE IF \E c \in pod.containers : c.requests.storage = 0 THEN Warning ELSE AllOK

ContainerStorageEphemeralRequestEqualsLimit(pod) ==
    CriticalIf(\E c \in pod.containers :
                 /\ c.limits.storage # 0 /\ c.requests.storage # 0
                 /\ c.limits.storage # c.requests.storage)

\* Port names are unique but for the empty one, at most 15 characters long.
ContainerPortsCheck(pod) ==
    CriticalIf(\E c \in pod.containers : \E i \in DOMAIN c.ports :
                 \/ c.ports[i].number = 0
                 \/ c.ports[i].tooLong
                 \/ /\ c.ports[i].name # ""
                    /\ \E j \in 1..i - 1 : c.ports[j].name = c.ports[i].name)

EnvironmentVariableKeyDuplication(pod) ==
    CriticalIf(\E c \in pod.containers :
                 \E i, j \in DOMAIN c.env : i # j /\ c.env[i] = c.env[j])

-----------------------------------------------------------------------------
(* security.go.  A container without a security context has secured = FALSE  *)
(* and nothing set in it; so has a pod.                                      *)

ContainerSecurityContextReadOnlyRootFilesystem(pod) ==
    CriticalIf(\E c \in pod.containers : ~c.secured \/ ~c.readOnly)

ContainerSecurityContextPrivileged(pod) ==
    CriticalIf(\E c \in pod.containers : c.privileged)

\* What the container leaves open is taken from the pod.  (The code writes it
\* into the container's context, which no other check reads.)
Effective(own, inherited) == IF own = << >> THEN inherited ELSE own

Low(id) == Deref(id, 0) < 10000

ContainerSecurityContextUserGroupID(pod) ==
    CriticalIf(\E c \in pod.containers :
                 \/ ~c.secured /\ ~pod.secured
                 \/ Low(Effective(c.user, pod.user))
                 \/ Low(Effective(c.group, pod.group)))

\* Init containers are not looked at.  (The names of a pod's containers differ.)
PodSeccompProfile(pod) ==
    LET main == {c \in pod.containers : ~c.init}
        secured == \/ pod.annotated
                   \/ pod.seccomp
                   \/ main # {} /\ \A c \in main : c.seccomp
    IN  IF secured THEN AllOK ELSE Warning

-----------------------------------------------------------------------------
(* podtopologyspreadconstraints.go; probes.go as far as it needs no Service. *)

PodTopologySpreadConstraints(pod) ==
    CriticalIf(\E s \in pod.spreads :
                 \/ ~s.selector \/ s.maxSkew = 0 \/ s.minDomains = <<0>>
                 \/ s.key = ""
                 \/ s.unsatisfiable \notin {"DoNotSchedule", "ScheduleAnyway"})

\* A port is [name, number], the number 0 when it is given by name: two HTTP
\* probes are compared by the number.
AreProbesIdentical(r, l) ==
    /\ r.handler = l.handler
    /\ CASE r.handler = "httpGet"   -> r.path = l.path /\ r.port.number = l.port.number
         [] r.handler = "tcpSocket" -> r.port = l.port
         [] r.handler = "exec"      -> r.command = l.command
         [] OTHER                   -> FALSE

\* Jobs need no probes.
IsBatch(o) == o.gvk[2] \in {"CronJob", "Job"}

ContainerProbesIdentical(pod) ==
    CriticalIf(/\ ~IsBatch(pod)
               /\ \E c \in pod.containers :
                    /\ c.readiness # << >> /\ c.liveness # << >>
                    /\ AreProbesIdentical(c.readiness[1], c.liveness[1]))

=============================================================================
