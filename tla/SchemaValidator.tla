---------------------------- MODULE SchemaValidator ----------------------------
(* The JSON schema validator of the policy check: the schemas a rule is made  *)
(* of, with the custom keys Datree adds, and the errors of a configuration.   *)
(* The jsonschema, gojq, rego and CEL libraries are external: a plain keyword *)
(* holds or not, a quantity parses or not, a program gives some results.      *)
EXTENDS Integers, Sequences

CONSTANTS Schemas,   \* the schemas of the rules, with all their parts
          Depth      \* how deep each is nested

\* A schema is a tree of records: [op |-> "key", key, arg] for a keyword or
\* custom key, [op |-> "not", of], [op |-> "ifThen", if, then], and
\* [op |-> "all" or "anyOf", of] with a sequence.  The data are a record: to each
\* key the part of the configuration that it is asked about, if it has one.
Parts(s) ==
    CASE s.op = "key"    -> {}
      [] s.op = "not"    -> {s.of}
      [] s.op = "ifThen" -> {s.if, s.then}
      [] OTHER           -> {s.of[i] : i \in 1..Len(s.of)}

\* Schemas are read from JSON and so are finite, of any depth.
ASSUME SchemasAssumption ==
    /\ \A s \in Schemas : s.op \in {"key", "not", "ifThen", "all", "anyOf"}
    /\ Depth \in [Schemas -> Nat]
    /\ \A s \in Schemas : \A t \in Parts(s) : t \in Schemas /\ Depth[t] < Depth[s]

Key(key, arg) == [op |-> "key", key |-> key, arg |-> arg]

-----------------------------------------------------------------------------
(* The custom keys.  The data of a key satisfy it, violate it, cannot be     *)
(* judged ("broken"), or make its code panic.                                *)

\* A value: a number of units, or what ParseQuantity refuses (or no string).
Quantity(n)  == [parses |-> TRUE, units |-> n]
NoQuantity   == [parses |-> FALSE, units |-> 0]

ResourceMinimum(min, value) ==
    IF ~value.parses \/ ~min.parses THEN "broken"
    ELSE IF min.units > value.units THEN "violated" ELSE "ok"

ResourceMaximum(max, value) ==
    IF ~value.parses \/ ~max.parses THEN "broken"
    ELSE IF max.units < value.units THEN "violated" ELSE "ok"

\* Requests and limits of memory, compared as text, "" if missing; resources in
\* another form are let through.
CustomKeyRule81(resources) ==
    IF resources.wellFormed /\ resources.requests # resources.limits
    THEN "violated" ELSE "ok"

\* Role rules that let pods be created; in another form, let through.
CustomKeyRule101(role) ==
    IF role.wellFormed /\ \E i \in 1..Len(role.rules) :
          /\ role.rules[i].resources \cap {"pods", "*"} # {}
          /\ role.rules[i].verbs \cap {"create", "*"} # {}
    THEN "violated" ELSE "ok"

\* What customKeyRule89 is asked about.  A mount without a readOnly has "unset", a
\* volume or mount without a name is "nil"; no name is "error".
PodSpecs ==
    LET mount     == [name : STRING \ {"error"}, readOnly : {"unset", "false", "true"}]
        container == [hasMounts : BOOLEAN, mounts : Seq(mount)]
        volume    == [name : STRING, hostPath : BOOLEAN]
    IN  [volumes : Seq(volume), containers : Seq(container)]

\* A stream of names as gojq yields them, and "error" where it cannot go on:
\* only what precedes the first error or missing name ("nil") is collected.
Collected(stream) ==
    {stream[i] : i \in {k \in 1..Len(stream) :
                          \A j \in 1..k : stream[j] \notin {"nil", "error"}}}

NamesOfVolumesWithHostPath(pod) ==
    {pod.volumes[i].name : i \in {k \in 1..Len(pod.volumes) : pod.volumes[k].hostPath}}

\* The names of the mounts whose readOnly is one of these.
NamesOfMounts(mounts, readOnly) ==
    LET names[i \in 0..Len(mounts)] ==
          IF i = 0 THEN << >>
          ELSE IF mounts[i].readOnly \in readOnly THEN Append(names[i - 1], mounts[i].name)
          ELSE names[i - 1]
    IN  names[Len(mounts)]

\* (Mutant: a mount whose readOnly is written as false is taken for read-only.)
MountsAsFalse(container) ==
    IF container.hasMounts THEN NamesOfMounts(container.mounts, {"unset"}) ELSE <<"error">>

\* The names of the mounts of a container without readOnly; a container that has
\* no volumeMounts at all is an error of the query.
MountsWithoutReadonly(container) ==
    IF container.hasMounts THEN NamesOfMounts(container.mounts, {"unset", "false"})
    ELSE <<"error">>

NamesOfVolumeMountsWithoutReadonly(pod) ==
    LET after[i \in 0..Len(pod.containers)] ==
          IF i = 0 THEN << >>
          ELSE after[i - 1] \o MountsWithoutReadonly(pod.containers[i])
    IN  Collected(after[Len(pod.containers)])

\* A hostPath volume without a name makes the type assertion on it panic.
CustomKeyRule89(pod) ==
    IF "nil" \in NamesOfVolumesWithHostPath(pod) THEN "panic"
    ELSE IF NamesOfVolumesWithHostPath(pod)
              \cap NamesOfVolumeMountsWithoutReadonly(pod) # {} THEN "violated"
    ELSE "ok"

\* The first element that stops a loop over results decides.
FirstOf(results, stops) ==
    LET at == {i \in 1..Len(results) : results[i] \in stops}
    IN  IF at = {} THEN "none" ELSE results[CHOOSE i \in at : \A j \in at : i <= j]

\* What the rego program makes of the data: it cannot be compiled or evaluated,
\* does not give one result ("error"), or gives one that is no list ("scalar"),
\* or a list of violations ("list").
CustomKeyRegoRule(run) ==
    CASE run.gives = "error"  -> "broken"
      [] run.gives = "scalar" -> "panic"
      [] OTHER ->
           CASE FirstOf(run.results, {"true", "other"}) = "true"  -> "violated"
             [] FirstOf(run.results, {"true", "other"}) = "other" -> "broken"
             [] OTHER -> "ok"

\* What each CEL expression gives: a Boolean, something else or an error.
CustomKeyCELRule(results) ==
    CASE FirstOf(results, {"false", "other", "error"}) = "false" -> "violated"
      [] FirstOf(results, {"false", "other", "error"}) = "none"  -> "ok"
      [] OTHER -> "broken"

KeyOutcome(s, data) ==
    LET value == data[s.key]
    IN  IF s.key \notin DOMAIN data THEN "ok"
        ELSE
        CASE s.key = "resourceMinimum"  -> ResourceMinimum(s.arg, value)
          [] s.key = "resourceMaximum"  -> ResourceMaximum(s.arg, value)
          [] s.key = "customKeyRule81"  -> CustomKeyRule81(value)
          [] s.key = "customKeyRule89"  -> CustomKeyRule89(value)
          [] s.key = "customKeyRule101" -> CustomKeyRule101(value)
          [] s.key = "regoDefinition"   -> CustomKeyRegoRule(value)
          [] s.key = "CELDefinition"    -> CustomKeyCELRule(value)
          [] OTHER -> IF value = s.arg THEN "ok" ELSE "violated"

-----------------------------------------------------------------------------
(* Validate.                                                                 *)

\* Every custom key checks its argument when it is compiled: resourceMinimum and
\* resourceMaximum a string, the rules an object, regoDefinition an object with
\* code, CELDefinition a list of expressions that is not empty.
BadArgument == [malformed |-> TRUE]

Compiles(s) ==
    LET compiles[t \in Schemas] ==
          IF t.op = "key" THEN t.arg # BadArgument ELSE \A u \in Parts(t) : compiles[u]
    IN  compiles[s]

\* getLeafErrors of what the library finds: the errors of the keys, those of all
\* the parts together; a failed anyOf counts as one error, and so does a not,
\* whose part has no error to show.
LeafErrors(s, data) ==
    LET Failed(key, custom) == {[key |-> key, custom |-> custom]}
        errors[t \in Schemas] ==
          CASE t.op = "key" ->
                 (IF KeyOutcome(t, data) = "ok" THEN {}
                  ELSE Failed(t.key, KeyOutcome(t, data) = "broken"))
            [] t.op = "all"   -> UNION {errors[u] : u \in Parts(t)}
            [] t.op = "anyOf" -> (IF \E u \in Parts(t) : errors[u] = {} THEN {}
                                  ELSE Failed("anyOf", FALSE))
            [] t.op = "not"   -> (IF errors[t.of] = {} THEN Failed("not", FALSE) ELSE {})
            [] OTHER          -> (IF errors[t.if] = {} THEN errors[t.then] ELSE {})
    IN  errors[s]

\* The library judges every part but the then of an if that does not hold.
Judged(s, data) ==
    LET judged[t \in Schemas] ==
          CASE t.op = "key" -> {t}
            [] t.op = "ifThen" /\ LeafErrors(t.if, data) # {} -> judged[t.if]
            [] OTHER -> UNION {judged[u] : u \in Parts(t)}
    IN  judged[s]

\* Validate: the schema is compiled unless it is in the cache; the answer is an
\* error, a panic or the leaf errors.
Validate(cache, s, data) ==
    CASE s \notin cache /\ ~Compiles(s) -> [is |-> "error", errors |-> {}]
      [] \E k \in Judged(s, data) : KeyOutcome(k, data) = "panic" ->
           [is |-> "panic", errors |-> {}]
      [] OTHER -> [is |-> "errors", errors |-> LeafErrors(s, data)]

\* The cache afterwards: only what compiled is stored.
Cached(cache, s) == IF Compiles(s) THEN cache \cup {s} ELSE cache
=============================================================================
