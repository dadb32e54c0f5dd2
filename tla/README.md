# A verification development for the Kubernetes misconfiguration study and its tools

The repository holds three programs and the data of a study:

* **Datree** (`src/Tools/Datree`, Go): a command line tool that checks
  Kubernetes files against schemas and policies;
* **kube-score** (`src/Tools/KubeScore`, Go): a linter that grades Kubernetes
  objects;
* the **study's own programs** (`src/Code/392-MSR2026`, Java): they send a
  configuration to a language model, and judge the answer with kubeval, Datree,
  kube-score and Snyk.

The TLA+ modules here model the parts of them in which something can go wrong
that tests hardly reach: goroutines and channels, a configuration file shared by
processes without a lock, child processes and their pipes, failures in the middle
of a run, counts that are derived from one another, and checks that find out the
same thing separately.

    tlc -workers 2 -config MCTestPipeline.cfg MCTestPipeline     # check a run
    tlapm TestPipelineProofs.tla                                 # check the proofs

`PROJECT.json` lists the components, the runs, one mutant of the model for every
property (a plausible bug the property must notice), the source lines each
definition stands for, the hazards and the theorems.

## 1. Inventory

| component | state | operations | hard behaviours | module |
|---|---|---|---|---|
| Datree test pipeline (`cmd/test/main.go` `evaluate`, `bl/files`, `bl/validation`, `validationManager.go`) | channels, wait group, the lists of the ValidationManager | extract, filter, validate, aggregate, close, wait | interleavings of up to 11 goroutines and a worker pool, bounded channels, close order, unlocked reads after `Wait`, files that vanish | `TestPipeline`, `FileAudit` |
| Datree test and publish commands (`main.go`, `cmd/test`, `cmd/kustomize`, `cmd/publish`, `pkg/executor`, `pkg/cliClient`, `bl/messager`, `bl/errorReporter`) | configuration in memory, temporary file, requests made, error, exit status | one per call in the order of the code | a failure at every call, answers that never come, deferred removal, panics in and outside the main goroutine, the configuration loaded a second time by the error reporter | `TestCommand` |
| Local configuration (`pkg/localConfig`, `cmd/config`) | `~/.datree/config.yaml`, viper's maps in each process | load, `config set` | several processes, truncate-then-write, kill, full disk, environment variables that come before the file | `LocalConfig` |
| Policies file (`pkg/validatePoliciesYaml`, `bl/policy`, `pkg/defaultRules`) | the file, the default rules on disk, the policy built | validation in three steps, `CreatePolicy` | validated by one set of tests and used by another; the default rules are read anew by each step | `PolicyFile` |
| Policy evaluator (`pkg/evaluation/evaluator.go`) | map file -> rule -> occurrences, summary | evaluate a rule, format the results | counts derived from one another, files given twice, skip annotations, errors and panics of one rule | `Evaluator` |
| JSON schema validator (`pkg/jsonSchemaValidator`) | cache of compiled schemas | compile, validate, the custom keys | keys that cannot be judged, nested under `not`, `if` and `anyOf`; streams that end at the first error | `SchemaValidator` |
| Printing of the results (`pkg/evaluation/printer.go`, `junit_output.go`, `pkg/printer`) | the report, `lastPolicyCheck.json` | five output formats, saving in CI | each format derives on its own what failed and what is skipped | `EvaluationOutput` |
| kube-score scoring (`score/score.go`, `scorecard`, `score/checks`) | the scorecard | visit an object, run a check, exit code | objects with one key, annotations at three levels, grade 0 | `Scorecard` |
| kube-score command and renderers (`cmd/kube-score`, `renderer/*`) | progress, the report | choose the command, refuse, score, print | an exit code computed before the report, five renderers with a judgement each | `ScoreOutput` |
| kube-score parser (`parser/parse.go`) | documents to read, `parsedObjects` | open a List, sort an object into lists | Lists in Lists, unknown kinds and versions, one bad document | `KubeObjects` |
| kube-score checks (`score/*`) | none: functions of an object and the parsed lists | grade, skip or fail | 39 checks, some of which relate objects of different kinds, each with a comparison of its own | `PodChecks`, `KubeChecks` |
| Answer evaluation (`LLM/promptExecuteEvaluate.java`, `LLM/KubevalRunner.java`, `replications/K8sMultiScanner.java`) | child process, pipes, pump threads, findings, score | ask, save, validate, scan with three tools, correct | full pipes, timeouts, joins with a limit, processes left behind, tools that are missing | `Subprocess`, `PromptEvaluate` |
| Backend client, network validator, file reader, experiment driver | offline mode | requests, filters | every call may fail | partly, in `TestCommand` and `PromptEvaluate` |
| Other commands, the study's section extraction, scripts, data | - | - | - | not modelled, see section 6 |

How they interact: `main` runs one command; the command loads the local
configuration (which may ask the backend for a token), asks the backend for the
policies, builds the policy (`PolicyFile`), runs the pipeline (`TestPipeline`),
hands the valid files to the evaluator (`Evaluator`), which asks the schema validator
(`SchemaValidator`) about every configuration and rule, sends and prints the results
(`EvaluationOutput`), and turns the error it ends with into the exit status (`TestCommand`). kube-score
parses its files into lists (`KubeObjects`), binds the checks to the lists
(`KubeChecks`, with the checks of a single pod in `PodChecks`), and keeps what they
return in the scorecard (`Scorecard`), which is then printed (`ScoreOutput`). Several
commands share `config.yaml` (`LocalConfig`). The study runs Datree and
kube-score (whose exit and output are `TestCommand`'s and `Scorecard`'s) as child
processes (`Subprocess`) of its scanner (`PromptEvaluate`).

## 2. Modules and the code

**TestPipeline** has a state for every goroutine of `evaluate` (`alive`), for the
messages in every buffered channel (`chan`, of the worker pool's size) and for
what a goroutine has computed and must still send (`hand`) or close (`toClose`).
A receive with the computation that follows is one step, since nothing else can
see the inside of it; every send and every `close` is a step of its own, which is
where a goroutine can block or be overtaken. `ExtractFile`, `FilterFile` and
`ValidateFile` are the loop bodies of `ExtractFilesConfigurations`, `GetK8sFiles`
and `ValidateResources`; `AppendToList` and `RecordWarning` those of the
aggregators. A file can vanish between the two times it is opened (`Vanish`).
A goroutine that sends on a closed channel panics in Go: the model has no such
step, and `NoSendOnClosed` states that none is ever about to do it.

**FileAudit** is what `evaluate` promises before policies are looked at: every
path receives one verdict, a verdict is never withdrawn, and the run goes on when
no path is left. `TestPipeline` implements it under the mapping `Audit`: the
verdict of a path is the list it is on.

**TestCommand** is one process of `test`, `kustomize test` or `publish` from the
arguments to the exit status. `pc` names the call that is next; each call succeeds, or
fails and returns the error, as in the code. `viper` has what was set in memory, what the
environment gives (`AutomaticEnv`) and what was last read, in this order of precedence
(`Merged`): a failed write leaves a value set in memory that the second load finds, and
`Written` is what `WriteConfig` stores, values of the environment for keys that are
stored anyway included. `RunDeferred` is the deferred `os.Remove`, whose error nobody
looks at. The pipeline and the policy are one step here, with the outcomes the modules
above give them; a panic in one of the pipeline's goroutines (`GoroutinePanic`) is
covered by no `recover` and ends the process at once. The messager goroutine runs beside
the main one. `WaitsOutside` says where a run waits for something that has no limit.

**LocalConfig** has any number of processes at the granularity of system calls:
test that the file exists, create it (which empties a file that was made
meanwhile), read, truncate, write, read back. A write that meets a file another
process has filled since the truncation may leave a mixture (`Corrupt`). A load reads
and writes through viper, which puts the environment before the file (`Over`,
`AllSettings`); `config set` does not look at the environment. `store` is what the
processes, one after the other, were to leave.

**PolicyFile** validates a file and builds a policy, with the default rules read at
each step and possibly edited between. Rule schemas are reduced to what the code
tells apart: an object, a boolean, an object that `gojsonschema` accepts and `json.Unmarshal`
does not (text after it, a number out of range), not a schema, two schemas, none.

**SchemaValidator** is the schema validator: a schema is a tree of keywords under `all`,
`anyOf`, `not` and `if`, the data say of each key what it is asked about, and the
custom keys (resource bounds, rules 81, 89 and 101, rego, CEL) answer as their code
does: satisfied, violated, an error that goes to the user as a message, or a panic. What
`getLeafErrors` and the library do along that tree are recursive functions over `Schemas`, a
set that is closed under parts; `Depth` ranks it, so every schema is finite. What
the libraries do with one keyword, one quantity or one program is an input.
**Evaluator** is the nested loop over files, configurations and rules that asks it, with the
cache of schemas, the skip annotations (one that is no text is a panic), the place of a
violation that may not be found (a panic too), and the counting of `formatEvaluationResults`.
**EvaluationOutput** extends it with the end of the run: the result saved in CI and the
report. A report is the set of its entries, derived for each format as that format's
code does: `parseToPrinterWarnings` for text, the occurrences for JSON, YAML and XML, a
test case for each file and rule for JUnit, a result for each location for SARIF.

**Scorecard** is the loop of `Score` over kinds and objects, with a check that
grades the object arbitrarily, skips itself (with grade 0, or with 10 as the checks of
probes and of anti-affinity do) or fails, and `isEnabled` word for word.
**ScoreOutput** extends it to the whole command: `Main` picks the command, `Refuse` is
every end of `scoreFiles` before the scoring, `ListChecks` the command `list` with its own flags, `Scoring` the steps of `Scorecard`, and
`PrintCard` the choice of the renderer, which comes after the exit code was computed.

**KubeObjects** reads documents one after the other as `ParseFiles` and
`detectAndDecode` do: a blank one is passed over, a List is replaced by its items,
anything else goes to the lists its apiVersion and kind belong to, or to none. `Depth`
is how deep Lists nest in a document, and `Nesting` a bound on it, of any size.
**PodChecks** has one operator for each check that looks at one pod alone, and
**KubeChecks** one for each check that looks at several objects, `Verdicts`, which runs
them all as `RegisterAllChecks` registers them, and `Score`, which one error ends.
The labels of an object are one value and a selector is the set of values it
matches, or invalid: the checks ask nothing else of them. Namespaces, names, versions
and kinds are compared as the code compares them, each check in its own way, because
because
that is where two checks can disagree. `Fold` is what `strings.EqualFold` takes kinds
for, and `Int32` the conversion of the least numbers configured, with `Half` standing for
2^31, so that it can be exceeded.

**Subprocess** is a child with two bounded pipes, two pump threads and a caller that
waits with a limit; a process the child started may keep the pipes open (`heir`). A pump
may be ended by an `IOException`, which both classes swallow (`broken`): what is in the pipe
is lost, and what is still written goes nowhere. `blank` says that a stream is white space
only, which `promptANDevaluat` takes for nothing.
**PromptEvaluate** composes it with the sequence of `promptANDevaluat`: kubeval,
the three scanners, the score.

## 3. Runs

| run | instance and bounds | what it shows | distinct states |
|---|---|---|---|
| `pipeline_safety` | two paths on the command line (perhaps one file twice), two workers, channels of two messages, five kinds of file, three flag sets; symmetry of files and of workers | no file lost, counted twice or misjudged; no send on a closed channel; no write after `Wait`; the summary's number is right | 1.1 million |
| `pipeline_liveness` | one worker and channels of one message, so that every send can block; files with warnings too; no symmetry | the pipeline ends, no goroutine stays behind, and it implements `FileAudit` | 259 thousand |
| `test_command` | all four commands, every pair of flags, six configurations, four environments; a failure at every call, a panic in any goroutine, answers that are lost or never come | exit status, report, requests, token, temporary file, policy and termination | 999 thousand |
| `local_config` | three processes with any mixture of loading, with or without an environment, setting the mode and setting the token; one kill or failed write; symmetry of processes | a load returns something usable; processes that do not overlap leave just what each was to leave; only overlap corrupts | 3.2 million |
| `policy_file` | one or two policies of up to two rules, up to two custom rules with every kind of schema, default rules edited once | a file found valid gives an unambiguous policy, with the exceptions stated | 610 thousand |
| `evaluator` | up to two files, the first of up to two configurations and the second of one, two rules under five policies that nest the custom keys in each other; one configuration with every combination of the values two keys can be asked about; a skip annotation that is no text; a file the validation refused | the counts of the summary against a definition from the files, what each format tells against the files and the exit status, no key that could not be judged is passed over, a writable mount of the host is found | 320 thousand |
| `rules_passed` | the same | finding 1 | - |
| `scorecard` | a deployment read twice, three checks (one optional, two on pods), every combination of flags and of annotations on object and template; seven outputs, one of an unknown version; every command | results complete and unique, nearest statement wins, each report agrees with the exit code, exit 0 only after a complete scoring that was printed | 2.0 million |
| `kube_checks` | two namespaces, two sets of labels, three spellings of a kind; every pair of 47 documents, every three of the 22 that relate to each other, every pod of up to two of 42 containers | each list has all objects of its kinds; checks that find out the same thing separately agree; the two checks on replicas can be met together but for one case; the order of budgets decides only whether the run ends; advised versions are read into the same lists | 79 thousand |
| `probes_targeted` | the same | finding 3 | - |
| `prompt_evaluate` | two calls, pipes of one chunk, children that write nothing, exactly a pipe, more than a pipe, and on both; white space; pumps that fail; processes left behind by every tool | calls end unless kubeval leaves a process behind, pipes drain, complaints are kept unless a pump fails, findings are used as a whole | 329 thousand |
| `score_of_answer` | the same | finding 2 | - |

Why these bounds are enough for the question asked: the pipeline's channels treat
all messages alike and a worker's step touches one file, so two messages and two
workers show every pair of them in every order, and a channel of one message is
the fullest channel there can be. Two
writers are what it takes to lose an update, and the third process reads what
they left or starts in the middle. The evaluator's counts are sums over pairs of
file and rule: two of each, with two configurations in a file, show every way in
which a pair can be counted twice. Keys meet only where a policy nests them, so the values
are combined for those pairs. The scorecard's order of statements is the same
for every check. A chunk more than a pipe holds is what makes a child wait.
The checks of kube-score relate at most two kinds to a workload (a service and an
autoscaler, two budgets in either order), so three documents show each check with
all it looks at; a container has every combination of values within the checks that
read them together, and checks of different fields do not meet.

The proofs of section 5 drop all of these bounds.

Every bound is a constant with a name (`MaxFaults`, `MaxEdits`, `MaxCalls`,
`Capacity`, `N`). Deadlock is checked in the pipeline's runs, where an end state has
the step `Terminated`; the other models stop for good when the program ends.

**Fairness.** `TestPipeline!Fairness` is weak fairness of the main goroutine and of
each goroutine: the Go scheduler runs what can run. No fairness is assumed of
files that vanish. `TestCommand!FairSpec` assumes that the main goroutine goes on where it
waits for nothing outside of the program, and that the messager does, whose request has a
limit of 900 ms. It assumes nothing where the run waits for what has no limit
(`WaitsOutside`): the other requests, since their HTTP client has no timeout
(`pkg/httpClient/client.go:37`), the schemas that are downloaded in the pipeline, the
kustomize binary, the standard input and the keyboard. So `Terminates` says that a run ends
or stays at one of these, and that it waits for ever at nothing else, the messager
included. `PromptEvaluate!FairSpec` assumes the caller, its timers and the pump threads go
on, and nothing of the children and of what they leave behind, which may hang: `CallEnds`
rests on `waitFor`'s limit and on the limited joins of `K8sMultiScanner`. The joins of
`KubevalRunner` have no limit: a process that kubeval leaves behind makes the call wait,
which `CallEnds` states as its one exception (`HeirAwaited`).

## 4. What disagrees with its documentation

1. **`rules_passed`**: a rule that one configuration of a file skips and another
   violates is subtracted twice from "Total rules passed"
   (`pkg/evaluation/evaluator.go:389`).
2. **`score_of_answer`**: the number of corrected configurations the study prints
   counts answers in which the tools would find something: the answer is
   saved as `temp.yaml` but `temp/temp.yaml` is scanned, and a tool that fails
   counts as one that finds nothing (`promptExecuteEvaluate.java:60`).
3. **`probes_targeted`**: a service of type ExternalName has no selector, and a missing
   selector matches every pod: each pod of its namespace is required to have
   readiness probes as if the service targeted it (`score/probes/probes.go:162`).

Seen while modelling, and left without a property:

* without `--save-rendered` the help promises that rendered files are deleted;
  `CreateTempFile` (`pkg/executor/executor.go:89`) leaves the file behind when writing it
  fails. The error of removing such a file is ignored (`cmd/test/main.go:422`):
  `TempFileRemoved` states both;
* a panic in a goroutine of the pipeline is covered by no `recover`: the process ends with 2, the
  status of violations, without results, without the report and without removing its temporary
  file. One cause is in the code: `newKubeconformValidator` drops the error that leaves it without
  a client (`bl/validation/k8sValidator.go:220`). `ExitCodeSound`, `FailureReportedOnce` and
  `TempFileRemoved` state the exception;
* a failed write empties `config.yaml`, and the error reporter loads it again: the mode `local` that
  was in it is gone, and a token is requested. `RequestsJustified` states the exception, and that no
  prerun data or results can follow;
* a load that has something to add to `config.yaml` also stores what `DATREE_TOKEN` and its like say
  over what was in it for these keys (`pkg/localConfig/localConfig.go:51`): `SerialSettingsKept` takes it
  for what such a load leaves;
* two `datree config set` at the same time can lose one of the values or leave a file
  that is not YAML (`pkg/localConfig/localConfig.go:119`), and two first runs can empty the file each other has
  made (line 153): the properties of `local_config` speak of what is not overlapped;
* a backend port given by number that differs is still compared by name, so a service
  port without a name fits any number (`score/ingress/ingress.go:45`);
* two HTTP probes on ports given by name count as the same port
  (`score/probes/probes.go:121`);
* Deployments and StatefulSets of the older versions get the pod checks only
  (`parser/parse.go:298`); a comment there says so;
* the error of a kube-score pod check is dropped (`score/score.go:124`); no pod check
  returns one today, or `CleanExitComplete` would fail. A selector that is not valid (`score/apps/apps.go:179`) is an error
  of one object's check and ends the run for all objects;
* a boolean `jsonSchema`, one with text after its object and one with a number out of range pass the
  validation of the policies file and make `CreatePolicy` fail: `ValidFileUsable` states the exceptions;
* a `datree.skip` annotation whose value is a number ends the policy check in a panic
  (`pkg/evaluation/evaluator.go:420`), and so does a violation whose place is not found in the
  document (line 437);
* one check of kube-score wants no replicas to be set if an autoscaler names the Deployment, in any
  case and version (`score/apps/apps.go:35`), the other wants many unless one names it exactly
  (`score/deployment/deployment.go:87`): for one behind a service no number satisfies both
  (`ReplicasSatisfiable`);
* the first budget of the right namespace that fits or cannot be read ends the search
  (`score/disruptionbudget/disruptionbudget.go:25`), so the order of the documents decides whether an
  invalid selector ends the run (`OnlyInvalidSelectorsFail`);
* the advice of one check of a container can lead into another: an image without a tag and without a
  pull policy passes the check of the policy, and with the fixed tag that the other advises it fails it
  (`score/container/container.go:186`);
* a network policy of another type than Ingress and Egress is read, counts for the policy and not for
  the pods it selects (`score/networkpolicy/networkpolicy.go:54`): `TargetingAgrees` leaves it out;
* a pump thread that fails does so in silence (`KubevalRunner.java:69`), and what kubeval had to say
  is then taken for nothing: `KubevalVerdict` states the exception;
* the error report and the version message are sent in local mode too:
  `RequestsJustified` leaves the report out; `publish` asks the backend in every mode;
* a request of `publish` that was accepted while its answer was lost is reported as failed:
  `ExitCodeSound` promises of exit 1 nothing about what was published;
* a schema key that cannot be judged (a quantity that does not parse, a rego program that
  fails) is told to the user as a failure of its rule, except under `not`, `if` and
  `anyOf`, where it counts as a violation of that part and its message is lost
  (`pkg/jsonSchemaValidator/validator.go`): `BrokenKeyTold` states the exception;
* rule 89 reads the mounts of all containers as one stream that ends at the first error:
  a container without `volumeMounts` hides the writable mounts of those after it
  (`extensions/customKeyRule89.go:73`), which `HostPathMountsReported` states. A hostPath
  volume without a name, and a rego program whose result is no list, end the run in a panic;
* the schemas of a policies file are validated without the custom keys, so a malformed
  argument of one is found only by the policy check, and ends the run;
* a rule that one configuration of a file violates and another skips is listed as failed and as
  skipped in the text, and as failed in JUnit, while the counts take it for both:
  `CountsMatchEntries` states the difference. JUnit marks a rule as a failure even if
  every occurrence of it is skipped, and adds the skip;
* SARIF tells skipped violations as violations and has no place for invalid files, so
  it can be empty when the exit status is 2 (`SarifTellsViolations`);
* kube-score finds out that an output version is unknown after the scoring
  (`cmd/kube-score/main.go:267`): the card is lost and the exit code 1 whatever it was. A flag
  it does not know ends with 2, `--help` with 0, `help` and no command at all with 1;
* kube-score's SARIF has a result for each comment, so a warning without one (the seccomp
  check of a pod without containers) is left out although it may have decided the exit
  code; its JUnit does not tell warnings from failures (`ReportTellsVerdict` states both);
* `isBackendAvailable` is written and never read, and the test of the local mode
  that follows a network error is never true (`pkg/cliClient/evaluation.go:109`);
* `ExtractFilesFromGithub` builds the path of a file from the literal `"path"`, and
  looks up all three mapping tables in the one of Snyk.

## 5. Proofs

Eight modules hold the proofs. Each proves an inductive invariant of its specification, with
a lemma for each action, and the theorems from it. Every constant is arbitrary but for the
named assumptions of the module it is declared in, which TLC evaluates in every run. The
invariants were model-checked on the instances of section 3 before they were proved.

| module | theorem | statement |
|---|---|---|
| `TestPipelineProofs` | `TypeCorrect` | `Spec => []TypeOK`; that the wait group never becomes negative is part of it |
| | `SendSafety` | `Spec => []NoSendOnClosed` |
| | `NoFileLost` | `Spec => []EveryFileHasVerdict` |
| | `RaceFree` | `Spec => NoWriteAfterWait` |
| | `VerdictsSound` | `Spec => []VerdictSound` |
| | `AuditImplemented` | `Spec => Audit!Safety`: the pipeline implements `FileAudit`, fairness apart |
| | `EachReportedOnce` | `Spec => []ReportedOnce` |
| | `WarningsFit` | `Spec => []WarningsMatchVerdicts` |
| | `SummaryCounts` | `Spec => []SummaryCountsChecked` |
| `TestCommandProofs` | `TypeCorrect` | `Spec => []TypeOK` |
| | `ExitTold` | `Spec => []ExitCodeSound` |
| | `ReportedExactlyOnce` | `Spec => []FailureReportedOnce` |
| | `RequestsKeptJustified` | `Spec => []RequestsJustified` |
| | `TempFileGone` | `Spec => []TempFileRemoved` |
| | `PolicyAllowed` | `Spec => ResultsUnderAllowedPolicy` |
| `LocalConfigProofs` | `TypeCorrect` | `Spec => []TypeOK` |
| | `LoadsUsable` | `Spec => []LoadedConfigUsable` |
| | `NoCorruptionAlone` | `Spec => []CorruptOnlyByOverlap` |
| | `SerialKept` | `Spec => []SerialSettingsKept` |
| `PolicyFileProofs` | `TypeCorrect` | `Spec => []TypeOK` |
| | `FileUsable` | `Spec => []ValidFileUsable` |
| | `Unambiguous` | `Spec => []RulesUnambiguous` |
| `ScoreOutputProofs` | `TypeCorrect` | `OutputSpec => []TypeOK` |
| | `ResultsComplete` | `OutputSpec => []ResultsExact` |
| | `NearestStatement` | `OutputSpec => []NearestStatementWins` |
| | `CleanExit` | `OutputSpec => []CleanExitComplete` |
| | `VerdictTold` | `OutputSpec => []ReportTellsVerdict` |
| `KubeChecksProofs` | `Invariant` | `Spec => []Inv`: the parser's lists hold objects of their kinds, in the order of the input, and the checks that are compared agree |
| | `AllKept` | `Spec => []NothingLost` |
| | `Agree` | `Spec => []TargetingAgrees` |
| | `AnyOrder` | `Spec => []BudgetAnyOrder` |
| | `Satisfiable` | `Spec => []ReplicasSatisfiable` |
| | `AdviceKept` | `Spec => []AdviceKeepsChecks` |
| | `OnlySelectorsFail` | `Spec => []OnlyInvalidSelectorsFail` |
| `EvaluatorProofs` | `TypeCorrect` | `OutputSpec => []TypeOK` |
| | `Counts` | `OutputSpec => []CountsExact` |
| | `BrokenTold` | `OutputSpec => []BrokenKeyTold` |
| | `HostPathsReported` | `OutputSpec => []HostPathMountsReported` |
| | `VerdictTells` | `OutputSpec => []ReportsTellVerdict` |
| | `HeadlineCounts` | `OutputSpec => []CountsMatchEntries` |
| `PromptEvaluateProofs` | `TypeCorrect` | `Spec => []TypeOK` |
| | `AllOrNone` | `Spec => []FindingsAllOrNone` |
| | `NoComplaintLost` | `Spec => KubevalVerdict` |

### The pipeline

`TestPipelineProofs` is about every number of paths and of workers, every channel size,
every content and every flag set.
The one assumption is `PipelineAssumption`: `N` is a natural number, contents and
flags are of their types, the workers are a finite set that is not empty and has
none of the other goroutines' names.

`TypeOK` is not inductive: that `wg` stays a natural number needs `wg` to be the
number of running aggregators (`Counted`), and then that an aggregator exits once.
None of the safety properties is inductive either. The invariant `Inv` adds:

* `Routed`: a goroutine holds messages for its own output channels only, and none
  unless it runs; each channel has one goroutine that closes it;
* `ClosedLate`: a channel is closed only when its closer has nothing to send and
  its input has ended: for the coordinator, when all workers have exited;
* `ExitedLate`: a worker or aggregator that has exited has drained its channel;
* `Staged`: what exists at each stage of the main goroutine;
* `Located`: every path is in a hand, in a channel or on a list;
* `Counted`, `FinalCount`: the wait group, and that it is zero at the end.

A send cannot meet a closed channel by `Routed` and `ClosedLate`. At the end `wg` is
zero, so by `Counted` no aggregator runs, by `ExitedLate` their channels are closed and
empty, by `ClosedLate` so are the channels before them, back to the feeder (`Emptied`); with
`Located` every path must then be on a list. There is a lemma per action
(`SendInv`, `ExtractInv`, `CloseInv`, ...), and `ReceiveInv` and `LaunchInv` hold what the
receiving steps and the starting steps have in common.

For the verdicts the second half of the module adds to `Inv` where an occurrence is and why it may be there.
`OnePlace`: it is in a hand for, in, or on the list of one channel only; `OneCopy`: before
a verdict there is one message for it, so that a receiver takes it away from where it was;
`Vouched`: what the file holds is what its place says (a file on its way to `k8s` is a
Kubernetes file, one on its way to `valid` has passed), which stays true when files vanish.
The verdict that `AuditVerdict` chooses is then the only one, an append to a list decides
an undecided occurrence or lists an unreadable file for the second time, which the audit
does not see, and `WaitReturns` finishes the audit because of `EveryFileHasVerdict`.

That nothing is listed twice does not follow from `OneCopy`, because it ends at the verdict:
from there on one occurrence may have two messages (`ValidateResources` sends an unreadable
file as invalid and goes on). `Single` counts them. `Bounded`: the copies in a goroutine's
hand, in the channel and on the list are together no more than `Limit`, two for a file that
could no longer be opened and one for any other; and `OneHolder`, that two goroutines never
hold a verdict on the same occurrence, without which the copies in the hands would not add
up. The lemmas `CopiesAppend`, `CopiesTail` and `CopiesPair` say what a step of a sequence
does to a number of copies. `Warned` does for the warnings, which travel by a
channel of their own past the verdicts, what `Located` and `Vouched` do for the verdicts:
each warns of a valid file and for its reason, and one that is due is on its way until it
is recorded. At the end nothing is on its way, so the map and the list agree, and with
`EachReportedOnce` the number in the summary is that of the files that were checked.

### Datree's commands

The assumptions are that commands, flag sets, configurations and environments are of their
types; the theorems are about any run, whichever calls fail. The main goroutine is
sequential, and the invariant says what is over when it has come to a label: `Control`, the
command, the caller and the error there; `Counted`, the requests made so far; `Settings`, that
after the configuration was loaded memory and file agree; `Untold` and `Told`, what has not
and what has been printed, recorded and published; `Kept`, when the temporary file still has
its deferred removal, for what reason it may stay. What makes `RequestsJustified` hard is that
the error reporter loads the configuration once more, over what the first load has left in
memory and in the file. `Silent` is about a run that began in local mode: as long as the
wrapper goes on without an error, the mode is still the one it began with, because writing
what is merged and reading it back changes no mode (`MergedAgain`), so only the reporter can
meet another one, when a write has failed; and then it asks for a token at most once more.

### The local configuration

The assumptions are that no process's name stands for an absent value and the corrupt file
is no configuration (`NoneAssumption`), that the number of faults is a natural number
(`FaultsAssumption`) and that settings and environments are of their types
(`SettingsAssumption`, `EnvsAssumption`). `LoadedConfigUsable` rests on
what a process knows at its stage (`Shaped`, `Loaded`, `Asking`), where the stage of a
process that is rewriting the file is the one it goes back to; nothing about the others is
needed, which is why it survives any interference. `CorruptOnlyByOverlap` needs that the
processes that never overlapped ran one at a time (`Alone`). `SerialSettingsKept` is about the
one that runs: `Held`, it has set just what was missing, as far as it has come; `Agrees`, what
it would write is that over what was stored, under its environment, although it has read the
file again since; `Tracked`, the file is `AsLeft` by the last of its writes unless it is
being rewritten, or there is none yet (`NoFile`). That a second write over the first gives what
one would have given is `AllAgain`, and when all that was missing has been set the file is what
the process was to leave (`HeldDone`).

### The policies file

Files, policy names and sets of default rules are arbitrary of their types
(`FilesAssumption`, `NamesAssumption`, `BrokenAssumption`). `Checked` keeps what each
validation step has found, and of what it has found with the default rules what an edit
leaves true: with no edit all of it; `Looked` says that the policy built is
the one asked for and that it is made exactly when each of its rules is found. The lookups take the
first that fits; that there is a first one is the lemma `Least`. `RulesUnambiguous` then follows from the uniqueness that
was checked, and from a custom rule having no identifier of a default one.

### kube-score's command

The assumptions are `KindsAssumption` (objects are part of loops that exist),
`IdAssumption` (no two checks have one id) and `OutputAssumption` (formats and versions
are of their types). The invariant says which results there are in the middle of
the loops: `Expected`, each is of a step that was reached and of a check that is no longer
pending; `Present`, unless an error ended the run, each such check has one; `Once`, not
two. `Judged` says what the Skipped flag of a graded result means, in the words of
`isEnabled`, and a lemma, `EnabledWanted`, that its nested conditions are the
first of six statements that is made. `Ended` says what is over at each progress of the
command. Exit 0 then means that every loop has ended (`Present`) and that no result that is
not skipped is critical (the exit code), which `Judged` carries over to the wanted ones.

`ReportTellsVerdict` is about each renderer: `CompleteTells` (JSON, CI and
the human format), `JUnitTells` and `SarifTells` go from an entry of the report to a result of the card and back
(`EntryIs`, `Leveled`), and `HumanHeadsTell` from the worst grade at the head of an object to
one of its results. `BelowIsCounted` relates "any below the grade" to the exit code.

### kube-score's parser and checks

The proofs are about any documents, any selectors and any values of the flags. Assumed are
`DocumentsAssumption` (a List has documents), `NestingAssumption` (a List is deeper than what
it holds, and there is a deepest), `FlagsAssumption` (the flags are numbers) and
`FieldsAssumption` (a decoded Deployment has the fields that the checks on replicas read).

`Sorted` says that each list holds objects of its kinds only. `Progress` says that the
leaves of the input are the documents already read followed by the leaves of those still
to read, and that the lists hold what was read, in order; opening a List leaves the leaves as
they are (`LeavesOfHead`), so that at the end each list holds the leaves of its kinds. The leaves are what is
left when all Lists have been opened `Nesting` times; that this is enough, and that once
more changes nothing (`LeavesStay`), is by induction: after `k` openings no List deeper than
`Nesting - k` is left (`OpenedShallower`). The two sides of
`TargetingAgrees` are compared check by check, each as its code computes it: for a policy in
its namespace and for the pod against all policies, for a service and for the workload. The
search for a budget fails exactly if it meets one that cannot be read, and otherwise finds one
exactly if one fits (`SearchTells`), which gives `AnyOrder`, and with the lemmas that no other
check returns an error (`PodChecksAnswer` and those after it) `OnlySelectorsFail`. `Satisfiable`
gives the number that satisfies both checks, and refutes every one in the case of the
conflict. `AdviceKept`
is about the tables of versions and holds in every state; it is listed because the tables are
far apart in the code.

### The answer evaluation

Programs, capacities of the pipes, answers, findings and numbers of calls are arbitrary.
`Conserved` says that of each stream the chunks in the buffer, in the pipe and still to write add
up to what the tool writes, unless a pump has failed; `Ends` who must have ended before whom; `Caller` that kubeval's
pumps are waited for without a limit before its streams are looked at. So when its output is
judged, a pump has failed, or program and pipes are empty and the buffers are everything it
wrote (`KubevalVerdict`). An output that is cut short cannot be parsed and contributes nothing, which a complete
one of a tool without findings does as well: `Gathered` keeps which tools are in the findings, each with all or
none of its rules. `dedupKeepOrder` is a fold over rows; that it keeps the elements and no
duplicate is proved for sequences of any length, by induction on the prefix.

### The policy check and its reports

Rules, policies, the nesting of their schemas, files, configurations, annotations and what the
libraries answer are arbitrary. Assumed are `SchemasAssumption` (schemas are finite trees of
the five forms), `PoliciesAssumption` (a policy has finitely many rules, each with a schema),
`InputsAssumption` (files have configurations, whose annotations name rules),
`PodsAssumption` (rule 89 is asked about pods) and `InvalidsAssumption` (a file is invalid as
YAML or as Kubernetes). The invariant `IInv` has

* `Cursor` and `Shaped`: where the loops are, and that a file name has no empty entry;
* `Gathered`: of each file name and rule, the occurrences kept are those of the
  configurations that the loops have passed (`Checked`), each with what the validator found
  there, and no others. It is what makes the summary a statement about the files;
* `Survived`: no key of what has been checked made its code panic;
* `Counted`: the summary is that of the occurrences.

`OInv` adds `Printing`, that a report or a saved result was made from the final results.
At the end every configuration is `Checked`, so the counts are those of the pairs of
file and rule that the files give (`FailedPairsAre`), and a file name stands for one file when
the names differ (`FailedNamesCount`).

What the validator finds is compared with what a schema means by induction over its parts
(`SchemaInduction`, along `Depth`): it finds no error exactly if the schema holds
(`ErrorsMeanFailure`); and a key that cannot be judged leaves its error behind as long as it is
reached through `all` (`BrokenKeyLeft`), which ends at `not`, `if` and `anyOf`. For rule 89
the names that gojq yields are followed along a container and then along the containers up
to the first that stops the stream (`NamesOfMountsCollected`, `PodCollected`), which gives the
exception that `MountsHostPath` states; here `Survived` is needed, because the stream is not
looked at if a volume without a name ends the run.

For each format a lemma goes from its entries to the pairs of the results and back (`TextTold`,
`StructuredTold`, `SarifTold`, `JUnitTold`). That the printed counts are the numbers of
entries takes a bijection in each case, since a set of entries is counted against a set of
pairs (`ListedCount`, `JUnitCounts`).

### Induction over data

What a fold (`FoldSeq`, `FlattenSeq`) or a recursive function computes for sequences of any
length is proved with the lemma `Reaches`: a set of numbers with 0 and with each successor is
all of `Nat`, since otherwise the well-founded order of the naturals has a least element
outside. The library's own induction theorem takes an operator as parameter, which the
backends here cannot instantiate; a set they can.

### What is only model-checked

Liveness: `Terminates` of the pipeline and of the command, `CallEnds`, `PipesDrained`, and the
fairness that `ImplementsAudit` includes. TLAPS does not handle it. Every other property that a
passing run checks is a theorem. The three properties of section 4 are refuted, by the code.

## 6. What is not modelled

The text and the layout of outputs: wording, colours, hints, the nesting of JUnit and SARIF
elements. The libraries: what one schema keyword, one quantity, one rego or CEL program says
of one value, YAML and Kubernetes decoding, kubeconform; their verdicts are inputs.
Of the kube-score checks, the comments they attach to a grade are left out, label
selectors and label values are reduced to what they match and to valid or not, and the
file a document is found in is not kept; the stable version check, which compares a version
with the one configured, is an arbitrary grade. `KubeChecks` runs every check, the optional
ones too: which of them are wanted is the matter of `Scorecard`.
Datree's other commands (version, upgrade, schema-validator, docs, completion) are one call
each, and `httpClient` encodes and decodes.
The study's section extraction (`P01`) is sequential text processing, of which
`promptANDevaluat` uses `YamlSectionExtractor`; `PromptEvaluate` has its outcome only. The
data, prompts and release scripts have no behaviour. `PROJECT.json` gives the reason for
every component.

## 7. Plan

The order of the modules was: pipeline (the core), its proofs, command, local
configuration, evaluator, answer evaluation, scoring, policies file, kube-score's parser and
checks, schema validator, the outputs of both tools. Next:

*Models*
1. the composition of `KubeChecks` with `Scorecard`, so that a card starts from documents
   and a check's verdict instead of an arbitrary one;
2. the composition of `Evaluator` with `TestPipeline`'s lists, so that a file that is listed
   twice reaches the summary.

*Proofs*
1. of the two compositions above, the theorems of their parts under a refinement mapping;
2. that `rules_passed` has no other cause: `PassedRulesCounted` where no configuration of a file
   violates a rule that another one skips.
