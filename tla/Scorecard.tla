------------------------------ MODULE Scorecard --------------------------------
(* kube-score: Score runs the registered checks over the objects, kind after  *)
(* kind, collects the results per object in a Scorecard, and the command ends *)
(* with exit code 1 when a result that is not skipped is bad enough.          *)
EXTENDS Naturals, Sequences

CONSTANTS Objects,      \* parsed objects: [ref |-> key, kinds |-> loops it is part of]
          Checks,       \* all checks: [id |-> name, type |-> loop, optional |-> BOOLEAN]
          Annotations,  \* values of the annotations: [ignore |-> ids, enable |-> ids]
          Enabled,      \* values of --enable-optional-test: sets of ids
          Ignored,      \* values of --ignore-test: sets of ids
          Implied       \* [id -> ids]: what an annotation with id names besides

\* The loops of Score in their order.
Kinds == <<"Ingresses", "Metas", "Pods", "PodSpeccers", "Services", "StatefulSets",
           "Deployments", "NetworkPolicies", "CronJobs",
           "HorizontalPodAutoscalers", "PodDisruptionBudgets">>

\* GradeAlmostOK and GradeAllOK count alike; 0 is the grade of a result that
\* was never graded.
Grades == {0, 1, 5, 10}
GradeCritical == 1
GradeWarning == 5

Ids == {c.id : c \in Checks} \cup DOMAIN Implied
Refs == {Objects[i].ref : i \in DOMAIN Objects}

ASSUME KindsAssumption ==
    \A i \in DOMAIN Objects : Objects[i].kinds \subseteq {Kinds[k] : k \in DOMAIN Kinds}
ASSUME IdAssumption == \A c, d \in Checks : c.id = d.id => c = d

VARIABLES
    cnf,       \* the flags of the command
    ann,       \* annotations of the objects
    template,  \* annotations of the objects' pod templates
    todo,      \* loop steps to come: <<loop, object>>
    at,        \* the current step
    pending,   \* checks that have still to run on the current object
    card,      \* [ref -> results]: the Scorecard, in its domain the objects so far
    exit       \* exit code of the command, or "none"

vars == <<cnf, ann, template, todo, at, pending, card, exit>>

\* No annotations; an object that is no pod specer has no template.
Nothing == [ignore |-> {}, enable |-> {}]

Work == {w \in (DOMAIN Kinds) \X (DOMAIN Objects) : Kinds[w[1]] \in Objects[w[2]].kinds}

Results == [obj : DOMAIN Objects, kind : DOMAIN Kinds, check : Ids,
            grade : Grades, skipped : BOOLEAN]

TypeOK ==
    /\ cnf \in [useIgnore : BOOLEAN, useOptional : BOOLEAN, warnings : BOOLEAN,
                enabled : Enabled, ignored : Ignored]
    /\ ann \in [DOMAIN Objects -> Annotations]
    /\ template \in [DOMAIN Objects -> Annotations \cup {Nothing}]
    /\ todo \subseteq Work /\ at \in Work \cup {<<0, 0>>}
    /\ pending \subseteq Checks
    /\ DOMAIN card \subseteq Refs
    /\ \A r \in DOMAIN card : \A n \in DOMAIN card[r] :
          card[r][n] \in Results /\ Objects[card[r][n].obj].ref = r
    /\ exit \in {"none", "zero", "one", "two"}   \* 2 only before the scoring

Init ==
    /\ cnf \in [useIgnore : BOOLEAN, useOptional : BOOLEAN, warnings : BOOLEAN,
                enabled : Enabled, ignored : Ignored]
    /\ ann \in [DOMAIN Objects -> Annotations]
    /\ template \in {f \in [DOMAIN Objects -> Annotations \cup {Nothing}] :
                       \A i \in DOMAIN Objects :
                          "PodSpeccers" \notin Objects[i].kinds => f[i] = Nothing}
    /\ todo = Work /\ at = <<0, 0>> /\ pending = {}
    /\ card = [r \in {} |-> << >>]
    /\ exit = "none"

-----------------------------------------------------------------------------
\* reg puts a check in the map of its kind unless --ignore-test names it; the pod
\* checks run in two loops.
Registered(kind) ==
    {c \in Checks : /\ c.type = IF kind = "PodSpeccers" THEN "Pods" ELSE kind
                    /\ c.id \notin cnf.ignored}

\* (Mutant: an object with the key of an earlier one replaces it.)
NewObjectReplaces(ref) ==
    [r \in DOMAIN card \cup {ref} |-> IF r = ref THEN << >> ELSE card[r]]

\* NewObject returns the object with this key if there is one.
NewObject(ref) ==
    [r \in DOMAIN card \cup {ref} |-> IF r \in DOMAIN card THEN card[r] ELSE << >>]

Before(v, w) == v[1] < w[1] \/ (v[1] = w[1] /\ v[2] < w[2])

\* The next object in the order of the loops.
Visit ==
    /\ exit = "none" /\ pending = {}
    /\ \E w \in todo :
          /\ \A v \in todo : ~Before(v, w)
          /\ at' = w /\ todo' = todo \ {w}
          /\ pending' = Registered(Kinds[w[1]])
          /\ card' = NewObject(Objects[w[2]].ref)
    /\ UNCHANGED <<cnf, ann, template, exit>>

-----------------------------------------------------------------------------
\* isIn: the annotation names the check, or one that implies it.
IsIn(ids, id) == \E v \in ids : v = id \/ (v \in DOMAIN Implied /\ id \in Implied[v])

\* (Mutant: what the object says is looked at before its template.)
IsEnabledOwnFirst(c, own, child) ==
    IF cnf.useIgnore /\ IsIn(own.ignore, c.id) THEN FALSE
    ELSE \/ cnf.useOptional /\ IsIn(own.enable, c.id)
         \/ /\ ~(cnf.useIgnore /\ IsIn(child.ignore, c.id))
            /\ \/ cnf.useOptional /\ IsIn(child.enable, c.id)
               \/ c.id \in cnf.enabled
               \/ ~c.optional

\* isEnabled: an object without a template has nothing in child.
IsEnabled(c, own, child) ==
    IF cnf.useIgnore /\ IsIn(child.ignore, c.id) THEN FALSE
    ELSE \/ cnf.useOptional /\ IsIn(child.enable, c.id)
         \/ /\ ~(cnf.useIgnore /\ IsIn(own.ignore, c.id))
            /\ \/ cnf.useOptional /\ IsIn(own.enable, c.id)
               \/ c.id \in cnf.enabled
               \/ ~c.optional

Child(w) == IF Kinds[w[1]] = "PodSpeccers" THEN template[w[2]] ELSE Nothing

\* (Mutant: whether the check skipped itself is forgotten.)
AddOverwrites(c, grade, self) ==
    Append(card[Objects[at[2]].ref],
           [obj |-> at[2], kind |-> at[1], check |-> c.id, grade |-> grade,
            skipped |-> ~IsEnabled(c, ann[at[2]], Child(at))])

\* Add: the result of a disabled check is kept, but as skipped.
Add(c, grade, self) ==
    Append(card[Objects[at[2]].ref],
           [obj |-> at[2], kind |-> at[1], check |-> c.id, grade |-> grade,
            skipped |-> self \/ ~IsEnabled(c, ann[at[2]], Child(at))])

\* What a check finds: a grade of the object, or nothing and it skips itself; it
\* then leaves the grade 0 or has set GradeAllOK.
Findings == {<<g, FALSE>> : g \in Grades \ {0}} \cup {<<0, TRUE>>, <<10, TRUE>>}

\* (Mutant: the error of any check is ignored, and its result left out.)
RunCheckErrorIgnored ==
    /\ exit = "none"
    /\ \E c \in pending :
          /\ pending' = pending \ {c}
          /\ \/ \E result \in Findings :
                    card' = [card EXCEPT ![Objects[at[2]].ref] =
                                Add(c, result[1], result[2])]
             \/ c.type # "Pods" /\ UNCHANGED card
    /\ UNCHANGED <<cnf, ann, template, todo, at, exit>>

\* Checks run in the order of a Go map.  An error ends the run; the error of a
\* pod check is ignored, but none of them has one.
RunCheck ==
    /\ exit = "none"
    /\ \E c \in pending :
          /\ pending' = pending \ {c}
          /\ \/ /\ \E result \in Findings :
                      card' = [card EXCEPT ![Objects[at[2]].ref] =
                                  Add(c, result[1], result[2])]
                /\ UNCHANGED exit
             \/ /\ c.type # "Pods" /\ exit' = "one"
                /\ UNCHANGED card
    /\ UNCHANGED <<cnf, ann, template, todo, at>>

-----------------------------------------------------------------------------
AnyBelowOrEqualToGrade(threshold) ==
    \E r \in DOMAIN card : \E n \in DOMAIN card[r] :
        ~card[r][n].skipped /\ card[r][n].grade <= threshold

ExitCode ==
    IF \/ AnyBelowOrEqualToGrade(GradeCritical)
       \/ cnf.warnings /\ AnyBelowOrEqualToGrade(GradeWarning)
    THEN "one" ELSE "zero"

Finish ==
    /\ exit = "none" /\ todo = {} /\ pending = {}
    /\ exit' = ExitCode
    /\ UNCHANGED <<cnf, ann, template, todo, at, pending, card>>

Next == Visit \/ RunCheck \/ Finish

Spec == Init /\ [][Next]_vars

-----------------------------------------------------------------------------
(* Properties.                                                               *)

All == UNION {{card[r][n] : n \in DOMAIN card[r]} : r \in DOMAIN card}

\* Two objects with the same key (one file given twice) share an entry of the
\* card: when the run is over each object has one result for every check of
\* each of its loops, whatever the order, except the tests --ignore-test names.
ResultsExact ==
    (todo = {} /\ pending = {} /\ exit = "none") =>
        /\ {<<x.obj, x.kind, x.check>> : x \in All} =
              UNION {{<<w[2], w[1], c.id>> :
                        c \in Registered(Kinds[w[1]])} : w \in Work}
        /\ \A x \in All : x.check \notin cnf.ignored
        /\ \A r \in DOMAIN card : \A m, n \in DOMAIN card[r] :
              /\ card[r][m].obj = card[r][n].obj /\ card[r][m].kind = card[r][n].kind
              /\ card[r][m].check = card[r][n].check
              => m = n

\* What is said about a check, the nearest first, as <<is it said, verdict>>:
\* on the pod template, on the object, on the command line, by default.
Said(x) ==
    LET c == CHOOSE d \in Checks : d.id = x.check
        child == Child(<<x.kind, x.obj>>)
        own == ann[x.obj]
    IN  << <<cnf.useIgnore /\ IsIn(child.ignore, c.id), FALSE>>,
           <<cnf.useOptional /\ IsIn(child.enable, c.id), TRUE>>,
           <<cnf.useIgnore /\ IsIn(own.ignore, c.id), FALSE>>,
           <<cnf.useOptional /\ IsIn(own.enable, c.id), TRUE>>,
           <<c.id \in cnf.enabled, TRUE>>,
           <<TRUE, ~c.optional>> >>

Wanted(x) ==
    LET s == Said(x)
    IN  \E i \in 1..6 : s[i][1] /\ s[i][2] /\ \A j \in 1..i - 1 : ~s[j][1]

\* The nearest statement about a check decides whether its result counts: the
\* template's annotations before the object's, ignoring before enabling.  A result
\* that is not wanted never counts, and a wanted one that is critical or a warning
\* always does: a check that skips itself has graded nothing, or all as OK.
NearestStatementWins ==
    \A x \in All : /\ ~Wanted(x) => x.skipped
                   /\ Wanted(x) /\ x.grade \notin {0, 10} => ~x.skipped
=============================================================================
