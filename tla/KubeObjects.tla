------------------------------ MODULE KubeObjects ------------------------------
(* kube-score: ParseFiles cuts the input into documents, opens Lists, decodes *)
(* what is left and sorts it, by apiVersion and kind, into the lists that the *)
(* checks and the loops of Score go over.                                     *)
EXTENDS Naturals, Sequences, SequencesExt

CONSTANTS Inputs,     \* the documents of all files, in order: a set of sequences
          Documents,  \* their documents, those inside of Lists included
          Depth,      \* how deep Lists nest in each document, 0 if it is no List
          Nesting     \* and in all of them

\* A document is an object, a List of documents, blank, or not even YAML:
\* [form |-> "object" | "list" | "blank" | "garbled", ...].

ASSUME DocumentsAssumption ==
    /\ Inputs \subseteq Seq(Documents)
    /\ \A d \in Documents : d.form = "list" => d.items \in Seq(Documents)

\* Documents are finite: a List is deeper than what it holds.
ASSUME NestingAssumption ==
    /\ Nesting \in Nat /\ Depth \in [Documents -> 0..Nesting]
    /\ \A d \in Documents : d.form = "list" =>
          Depth[d] > 0 /\ \A e \in Range(d.items) : Depth[e] < Depth[d]

\* The cases of decodeItem.  Only the newest Deployment and StatefulSet are
\* also on the list of their kind.
PodSpecers ==
    {<<"batch/v1", "Job">>, <<"batch/v1", "CronJob">>, <<"batch/v1beta1", "CronJob">>}
    \cup {<<v, "Deployment">> : v \in {"apps/v1", "apps/v1beta1", "apps/v1beta2",
                                        "extensions/v1beta1"}}
    \cup {<<v, "StatefulSet">> : v \in {"apps/v1", "apps/v1beta1", "apps/v1beta2"}}
    \cup {<<v, "DaemonSet">> : v \in {"apps/v1", "apps/v1beta2", "extensions/v1beta1"}}

\* (Mutant: the version that others are told to move to is not known.)
OldBudgets == {<<"policy/v1beta1", "PodDisruptionBudget">>}

Budgets == {<<v, "PodDisruptionBudget">> : v \in {"policy/v1", "policy/v1beta1"}}

OtherKinds ==
    [networkPolicies      |-> {<<"networking.k8s.io/v1", "NetworkPolicy">>},
     services             |-> {<<"v1", "Service">>},
     podDisruptionBudgets |-> Budgets,
     ingresses            |-> {<<v, "Ingress">> :
                                  v \in {"extensions/v1beta1", "networking.k8s.io/v1",
                                         "networking.k8s.io/v1beta1"}},
     hpaTargeters         |-> {<<v, "HorizontalPodAutoscaler">> :
                                  v \in {"autoscaling/v1", "autoscaling/v2",
                                         "autoscaling/v2beta1", "autoscaling/v2beta2"}}]

ListNames == DOMAIN OtherKinds \cup
             {"bothMetas", "pods", "podspecers", "cronjobs", "deployments", "statefulsets"}

\* The lists that an object of this apiVersion and kind goes to.
ListsOf(gvk) ==
    LET kinds ==
          {l \in DOMAIN OtherKinds : gvk \in OtherKinds[l]}
          \cup (IF gvk = <<"v1", "Pod">> THEN {"pods"} ELSE {})
          \cup (IF gvk \in PodSpecers THEN {"podspecers"} ELSE {})
          \cup (IF gvk \in PodSpecers /\ gvk[2] = "CronJob" THEN {"cronjobs"} ELSE {})
          \cup (IF gvk = <<"apps/v1", "Deployment">> THEN {"deployments"} ELSE {})
          \cup (IF gvk = <<"apps/v1", "StatefulSet">> THEN {"statefulsets"} ELSE {})
    IN  IF kinds = {} THEN {} ELSE kinds \cup {"bothMetas"}

VARIABLES
    input,    \* the documents given
    todo,     \* documents still to read
    parsed,   \* parsedObjects: [list |-> objects in order]
    status    \* "reading", "failed", "parsed", and what Score makes of it

ParserInit ==
    /\ input \in Inputs /\ todo = input
    /\ parsed = [l \in ListNames |-> << >>]
    /\ status = "reading"

\* decodeItem appends the object even when its decoding fails, but then
\* ParseFiles returns no objects at all.  Unknown kinds are left out.
DecodeItem(doc) ==
    /\ parsed' = [l \in ListNames |->
                    IF l \in ListsOf(doc.gvk) THEN Append(parsed[l], doc) ELSE parsed[l]]
    /\ status' = IF doc.decodes \/ ListsOf(doc.gvk) = {} THEN status ELSE "failed"

\* (Mutant: the handler of a List returns after the first item.)
OpenListFirst(doc) ==
    /\ IF doc.decodes
       THEN todo' = SubSeq(doc.items, 1, 1) \o Tail(todo) /\ UNCHANGED status
       ELSE status' = "failed" /\ todo' = Tail(todo)
    /\ UNCHANGED parsed

\* A List stands for its items, which may be Lists again.
OpenList(doc) ==
    /\ IF doc.decodes
       THEN todo' = doc.items \o Tail(todo) /\ UNCHANGED status
       ELSE status' = "failed" /\ todo' = Tail(todo)
    /\ UNCHANGED parsed

\* detectAndDecode on the next document that is not blank.
ReadDocument ==
    /\ status = "reading" /\ todo # << >>
    /\ LET doc == Head(todo)
       IN  \/ doc.form = "blank" /\ todo' = Tail(todo) /\ UNCHANGED <<parsed, status>>
           \/ doc.form = "garbled" /\ status' = "failed" /\ todo' = Tail(todo)
              /\ UNCHANGED parsed
           \/ doc.form = "list" /\ OpenList(doc)
           \/ doc.form = "object" /\ DecodeItem(doc) /\ todo' = Tail(todo)
    /\ UNCHANGED input

EndOfInput ==
    /\ status = "reading" /\ todo = << >>
    /\ status' = "parsed"
    /\ UNCHANGED <<input, todo, parsed>>

-----------------------------------------------------------------------------
(* Properties.                                                               *)

Opened(docs) ==
    FlattenSeq([i \in DOMAIN docs |->
                  IF docs[i].form = "list" THEN docs[i].items ELSE <<docs[i]>>])

\* What is left when all Lists, those inside of others too, are opened.
Leaves(docs) ==
    LET opened[n \in 0..Nesting] == IF n = 0 THEN docs ELSE Opened(opened[n - 1])
    IN  opened[Nesting]

\* The objects among the documents whose kind goes to a list.
Known(l, docs) ==
    FlattenSeq([i \in DOMAIN docs |->
                  IF docs[i].form = "object" /\ l \in ListsOf(docs[i].gvk)
                  THEN <<docs[i]>> ELSE << >>])

\* A run that gets past the parser has every object, those inside nested Lists
\* included, exactly once and in the order of the input on each list that its
\* kind goes to, and read nothing that fails to decode.
NothingLost ==
    status \notin {"reading", "failed"} =>
        /\ \A l \in ListNames : parsed[l] = Known(l, Leaves(input))
        /\ \A i \in DOMAIN parsed.bothMetas : parsed.bothMetas[i].decodes
        /\ \A i \in DOMAIN Leaves(input) : Leaves(input)[i].form # "garbled"
=============================================================================
