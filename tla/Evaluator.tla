------------------------------ MODULE Evaluator -------------------------------
(* The policy check: every rule of the policy on every configuration of every *)
(* file, judged by the SchemaValidator, gathered per file name and rule, then *)
(* counted (Evaluate).                                                        *)
EXTENDS SchemaValidator, FiniteSets

CONSTANTS Names,    \* file names
          Rules,    \* rule identifiers
          Policies, \* the policies: functions, rule -> its schema
          Inputs    \* files to check: sequences of [name, configs], the configs
                    \* a sequence of [data, skipped, texts]: what the schemas are
                    \* asked about, the rules in its datree.skip annotations, and
                    \* whether the values of those are all strings

ASSUME PoliciesAssumption == IsFiniteSet(Rules) /\ Policies \subseteq [Rules -> Schemas]
ASSUME InputsAssumption ==
    \A input \in Inputs :
        /\ Len(input) \in Nat
        /\ \A i \in 1..Len(input) :
              /\ input[i].name \in Names /\ Len(input[i].configs) \in Nat
              /\ \A j \in 1..Len(input[i].configs) : input[i].configs[j].skipped \subseteq Rules
ASSUME PodsAssumption ==
    \A input \in Inputs : \A i \in 1..Len(input) : \A j \in 1..Len(input[i].configs) :
        LET data == input[i].configs[j].data
        IN  "customKeyRule89" \in DOMAIN data => data["customKeyRule89"] \in PodSpecs

VARIABLES
    input,     \* policyCheckData.FilesConfigurations
    schemas,   \* policyCheckData.Policy: rule -> schema, a member of Policies
    cache,     \* rulesSchemasCache: the schemas compiled so far
    file, config, left,  \* the loops: indices, and the rules left for the config
    failed,    \* FailedRulesByFiles: file name -> rule -> its occurrences
    status,    \* "checking", "formatted", "error", "panicked"
    summary    \* EvaluationResultsSummary

vars == <<input, schemas, cache, file, config, left, failed, status, summary>>

NoSummary == [failedRules |-> 0, skippedRules |-> 0, passedRules |-> 0,
              filesPassed |-> 0]

Occurrence == [occurrences : BOOLEAN, isSkipped : BOOLEAN, messages : BOOLEAN]

TypeOK ==
    /\ input \in Inputs /\ schemas \in Policies
    /\ cache \subseteq {schemas[r] : r \in Rules}
    /\ file \in 1..Len(input) + 1
    /\ config \in Nat \ {0}
    /\ left \subseteq Rules
    /\ \A n \in DOMAIN failed :
          /\ n \in Names /\ DOMAIN failed[n] \subseteq Rules /\ DOMAIN failed[n] # {}
          /\ \A r \in DOMAIN failed[n] :
                /\ Len(failed[n][r]) > 0
                /\ \A i \in 1..Len(failed[n][r]) : failed[n][r][i] \in Occurrence
    /\ status \in {"checking", "formatted", "error", "panicked"}
    /\ summary.failedRules \in Nat /\ summary.skippedRules \in Nat
    /\ summary.passedRules \in Int /\ summary.filesPassed \in 0..Len(input)

Init ==
    /\ input \in Inputs /\ schemas \in Policies /\ cache = {}
    /\ file = 1 /\ config = 1 /\ left = Rules
    /\ failed = << >>
    /\ status = "checking"
    /\ summary = NoSummary

-----------------------------------------------------------------------------
(* evaluateConfiguration, evaluateRule and addFailedRule.                    *)

Checking == status = "checking" /\ file <= Len(input)
InConfig == Checking /\ config <= Len(input[file].configs)
Current  == input[file].configs[config]

\* (Mutant: a skipped rule is not validated.)
EvaluateRuleSkippedFirst(skipped, r, errors) ==
    IF errors # {} \/ r \in skipped
    THEN <<[occurrences |-> errors # {} /\ r \notin skipped, isSkipped |-> r \in skipped,
            messages |-> r \notin skipped /\ \E e \in errors : e.custom]>>
    ELSE << >>

\* evaluateRule: nothing to tell, or one occurrence: of a rule that is violated,
\* or that an annotation skips, violated or not; with the messages of the custom
\* keys that could not be judged.
EvaluateRule(skipped, r, errors) ==
    IF errors # {} \/ r \in skipped
    THEN <<[occurrences |-> errors # {}, isSkipped |-> r \in skipped,
            messages |-> \E e \in errors : e.custom]>>
    ELSE << >>

Extend(f, key, value) == [k \in DOMAIN f \cup {key} |-> IF k = key THEN value ELSE f[k]]

\* (Mutant: the occurrences of a later configuration replace the earlier ones.)
AddFailedRuleReplacing(f, n, r, found) ==
    IF n \notin DOMAIN f
    THEN Extend(f, n, [x \in {r} |-> found])
    ELSE Extend(f, n, Extend(f[n], r, found))

\* addFailedRule: appended to those of the same file name and rule.
AddFailedRule(f, n, r, found) ==
    CASE n \notin DOMAIN f -> Extend(f, n, [x \in {r} |-> found])
      [] n \in DOMAIN f /\ r \in DOMAIN f[n] ->
            [f EXCEPT ![n][r] = @ \o found]
      [] OTHER -> [f EXCEPT ![n] = Extend(@, r, found)]

\* An error ends the check, a panic the program: what was kept is dropped.
Abort(how) == status' = how /\ failed' = << >> /\ UNCHANGED left

\* extractSkipAnnotations, before any rule: the value of an annotation may be
\* a number, which its type assertion does not expect.
ExtractSkipAnnotations ==
    /\ InConfig /\ ~Current.texts
    /\ Abort("panicked")
    /\ UNCHANGED <<input, schemas, cache, file, config, summary>>

\* One rule on one configuration.  The policy's rules are a list; their order
\* changes nothing that is kept.  The path of a violation may find no node in the
\* document, whose line and column are then read from nil.
CheckRule ==
    /\ InConfig /\ Current.texts
    /\ \E r \in left :
          LET answer == Validate(cache, schemas[r], Current.data)
              found  == EvaluateRule(Current.skipped, r, answer.errors)
          IN  /\ cache' = Cached(cache, schemas[r])
              /\ \/ /\ answer.is = "errors"
                    /\ left' = left \ {r}
                    /\ failed' = IF found = << >> THEN failed
                                 ELSE AddFailedRule(failed, input[file].name, r, found)
                    /\ UNCHANGED status
                 \/ answer.is = "error" /\ Abort("error")
                 \/ answer.is = "panic" /\ Abort("panicked")
                 \/ answer.is = "errors" /\ answer.errors # {} /\ Abort("panicked")
    /\ UNCHANGED <<input, schemas, file, config, summary>>

NextConfig ==
    /\ InConfig /\ Current.texts /\ left = {}
    /\ config' = config + 1 /\ left' = Rules
    /\ UNCHANGED <<input, schemas, cache, file, failed, status, summary>>

NextFile ==
    /\ Checking /\ config > Len(input[file].configs)
    /\ file' = file + 1 /\ config' = 1
    /\ UNCHANGED <<input, schemas, cache, left, failed, status, summary>>

-----------------------------------------------------------------------------
(* formatEvaluationResults.                                                  *)

Pairs(f) == {p \in Names \X Rules : p[1] \in DOMAIN f /\ p[2] \in DOMAIN f[p[1]]}

SomeOccurrence(occurrences, skipped) ==
    \E i \in 1..Len(occurrences) : occurrences[i].isSkipped = skipped

\* A rule with a skipped and an unskipped occurrence in a file counts twice.
SkippedPairs(f) == {p \in Pairs(f) : SomeOccurrence(f[p[1]][p[2]], TRUE)}
FailedPairs(f)  == {p \in Pairs(f) : SomeOccurrence(f[p[1]][p[2]], FALSE)}

\* A file all of whose rules are skipped everywhere is not failed.
FailedFiles(f) == {n \in DOMAIN f : \E p \in FailedPairs(f) : p[1] = n}

\* Evaluate returns early, without results, when there is no file.
Format ==
    /\ status = "checking" /\ file > Len(input)
    /\ status' = "formatted"
    /\ summary' =
          IF input = << >> THEN NoSummary
          ELSE LET f == Cardinality(FailedPairs(failed))
                   s == Cardinality(SkippedPairs(failed))
               IN  [failedRules  |-> f, skippedRules |-> s,
                    passedRules  |-> Cardinality(Rules) * Len(input) - (f + s),
                    filesPassed  |-> Len(input) - Cardinality(FailedFiles(failed))]
    /\ UNCHANGED <<input, schemas, cache, file, config, left, failed>>

Next == ExtractSkipAnnotations \/ CheckRule \/ NextConfig \/ NextFile \/ Format

Spec == Init /\ [][Next]_vars

-----------------------------------------------------------------------------
(* Correctness: the summary against the files themselves.                    *)

Configs(n) == UNION {{input[i].configs[j] : j \in 1..Len(input[i].configs)} :
                       i \in {k \in 1..Len(input) : input[k].name = n}}

\* What a schema means.
Holds(s, data) ==
    LET holds[t \in Schemas] ==
          CASE t.op = "key"   -> KeyOutcome(t, data) = "ok"
            [] t.op = "all"   -> \A u \in Parts(t) : holds[u]
            [] t.op = "anyOf" -> \E u \in Parts(t) : holds[u]
            [] t.op = "not"   -> ~holds[t.of]
            [] OTHER          -> holds[t.if] => holds[t.then]
    IN  holds[s]

Violates(n, r) == \E c \in Configs(n) : ~Holds(schemas[r], c.data) /\ r \notin c.skipped
Skips(n, r)    == \E c \in Configs(n) : r \in c.skipped
DistinctNames  == \A i, j \in 1..Len(input) : input[i].name = input[j].name => i = j

\* The exit status depends on TotalFailedRules: it is the number of rules, per
\* file, that some configuration violates without a skip annotation, though
\* every other one may skip it (main.go:683-693).
FailedRulesCounted ==
    summary.failedRules = Cardinality({p \in Names \X Rules : Violates(p[1], p[2])})

\* A rule is counted as skipped in a file when some configuration skips it,
\* whether it would have failed or not.
SkippedRulesCounted ==
    summary.skippedRules = Cardinality({p \in Names \X Rules : Skips(p[1], p[2])})

\* While no file is given twice, FilesPassedCount is the number of files
\* without a violation: skipped rules do not fail a file.
FilesPassedCounted ==
    DistinctNames =>
        summary.filesPassed =
            Cardinality({i \in 1..Len(input) :
                           \A r \in Rules : ~Violates(input[i].name, r)})

\* The counts of the summary, each against the files and their configurations.
CountsExact ==
    status = "formatted" =>
        FailedRulesCounted /\ SkippedRulesCounted /\ FilesPassedCounted

\* What the label of the summary table says: the rules that passed.
PassedRulesCounted ==
    status = "formatted" /\ DistinctNames =>
        summary.passedRules =
            Cardinality({p \in (1..Len(input)) \X Rules :
                           /\ ~Violates(input[p[1]].name, p[2])
                           /\ ~Skips(input[p[1]].name, p[2])})

\* The keys a schema asks for whatever else it says: those reached through all.
DirectKeys(s) ==
    LET within[n \in 0..Depth[s]] ==
          IF n = 0 THEN {s}
          ELSE within[n - 1] \cup UNION {Parts(t) : t \in {u \in within[n - 1] : u.op = "all"}}
    IN  {k \in within[Depth[s]] : k.op = "key"}

\* A custom key that could not be judged (a quantity that does not parse, a rego
\* or CEL program that fails) never passes for a rule that holds: the rule is
\* reported for the file, with the message of the key, whatever else its schema
\* says.  Only below a not, an if or an anyOf is it lost.
BrokenKeyTold ==
    status = "formatted" =>
        \A n \in Names, r \in Rules :
            (\E c \in Configs(n), k \in DirectKeys(schemas[r]) :
                KeyOutcome(k, c.data) = "broken")
            => /\ <<n, r>> \in Pairs(failed)
               /\ \E i \in 1..Len(failed[n][r]) : failed[n][r][i].messages

\* The mounts that are not read-only: container, index.
WritableMounts(pod) ==
    UNION {{<<i, m>> : m \in {k \in 1..Len(pod.containers[i].mounts) :
                                 pod.containers[i].mounts[k].readOnly # "true"}} :
             i \in 1..Len(pod.containers)}

\* A mount, not read-only, of a hostPath volume, that nothing hides: each container
\* up to it has volume mounts, and each such mount up to it a name.
MountsHostPath(pod) ==
    \E w \in WritableMounts(pod), v \in 1..Len(pod.volumes) :
        /\ pod.volumes[v].hostPath
        /\ pod.containers[w[1]].mounts[w[2]].name = pod.volumes[v].name
        /\ \A j \in 1..w[1] : pod.containers[j].hasMounts
        /\ \A x \in WritableMounts(pod) :
              (x[1] < w[1] \/ (x[1] = w[1] /\ x[2] < w[2]))
              => pod.containers[x[1]].mounts[x[2]].name # "nil"

\* The rule on hostPath volumes (customKeyRule89) fails for a file exactly when one
\* of its pods, unless skipped, can write to such a volume, hidden mounts apart.
HostPathMountsReported ==
    status = "formatted" =>
        \A n \in Names, r \in Rules :
            schemas[r].op = "key" /\ schemas[r].key = "customKeyRule89" =>
                (<<n, r>> \in FailedPairs(failed) <=>
                    \E c \in Configs(n) :
                        /\ r \notin c.skipped /\ "customKeyRule89" \in DOMAIN c.data
                        /\ MountsHostPath(c.data.customKeyRule89))
=============================================================================
