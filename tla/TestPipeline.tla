----------------------------- MODULE TestPipeline -----------------------------
(***************************************************************************)
(* The concurrent half of `datree test`: the goroutines that `evaluate`    *)
(* (cmd/test/main.go:544-591) starts, the buffered channels between them,  *)
(* and the wait group after which the lists they filled are read.          *)
(*                                                                         *)
(*   feeder --paths--> workers --yaml--> [filter --k8s-->] validator       *)
(*                        |                 |               |   |   |      *)
(*                     badYaml           ignored        valid invalid warn *)
(*                                                                         *)
(* Each of the five channels of the last row is drained by an aggregator,  *)
(* named here after its channel.  A goroutine that has computed what it    *)
(* will send holds it in `hand`; a send is one step, so it can block on a  *)
(* full channel with every other goroutine in any state.                   *)
(***************************************************************************)
EXTENDS Integers, Sequences, FiniteSets, SequencesExt

CONSTANTS Paths,       \* the files of the file system
          N,           \* how many paths the command line has (a file may repeat)
          Contents,    \* what a file may hold: a set of [yaml, statuses] records
          Workers,     \* the extracting goroutines; their number is `concurrency`
          OptionSets   \* the combinations of flags and connectivity of a run

Occ == 1..N

YamlKinds == {"bad", "notK8s", "k8s"}
Statuses  == {"Valid", "Invalid", "Error", "Skipped", "Empty"}
Kinds     == {"none", "NetworkError", "Skipped"}      \* a warning's WarningKind

Helpers     == {"feeder", "coordinator", "filter", "validator"}
Aggregators == {"badYaml", "ignored", "valid", "invalid", "warning"}
Goroutines  == Workers \cup Helpers \cup Aggregators
Channels    == {"paths", "yaml", "k8s"} \cup Aggregators
Verdicts    == Aggregators \ {"warning"}

Options == [onlyK8s : BOOLEAN, skip : BOOLEAN, offline : BOOLEAN, custom : BOOLEAN]

ASSUME PipelineAssumption ==
    /\ N \in Nat
    /\ Contents \subseteq [yaml : YamlKinds, statuses : SUBSET Statuses]
    /\ OptionSets \subseteq Options
    /\ IsFiniteSet(Workers) /\ Workers # {}
    /\ Workers \cap (Helpers \cup Aggregators) = {}

Concurrency == Cardinality(Workers)

VARIABLES
  opts,        \* the flags of the run, and InitClient's isOffline
  path,        \* the file each occurrence names
  disk,        \* what each file holds
  present,     \* the files that can (still) be opened
  mainPc,      \* where `evaluate` is: extract, filter, validate, wait or done
  alive,       \* of each goroutine: unborn, running or exited
  chan,        \* the messages in each channel
  closed,      \* the channels that are closed
  hand,        \* what each goroutine has still to send, in order
  toClose,     \* the channels each goroutine has still to close, in order
  collected,   \* the lists of the ValidationManager
  warnings,    \* its map from file name to warning
  wg           \* the wait group's counter

input == <<opts, path, disk>>
vars  == <<opts, path, disk, present, mainPc, alive, chan, closed, hand,
           toClose, collected, warnings, wg>>

Messages == [occ : Occ, kind : Kinds]
Sends    == [to : Channels, msg : Messages]

To(c, o)      == [to |-> c, msg |-> [occ |-> o, kind |-> "none"]]
Warn(o, kind) == [to |-> "warning", msg |-> [occ |-> o, kind |-> kind]]

Init == /\ opts \in OptionSets
        /\ path \in [Occ -> Paths]
        /\ disk \in [Paths -> Contents]
        /\ present = Paths
        /\ mainPc = "extract"
        /\ alive = [g \in Goroutines |-> "unborn"]
        /\ chan = [c \in Channels |-> <<>>]
        /\ closed = {}
        /\ hand = [g \in Goroutines |-> <<>>]
        /\ toClose = [g \in Helpers |-> <<>>]
        /\ collected = [v \in Verdicts |-> <<>>]
        /\ warnings = [p \in Paths |-> "none"]
        /\ wg = 0
-----------------------------------------------------------------------------
(***************************************************************************)
(* The main goroutine.  Between `wg.Add` and the `go` statements that      *)
(* follow it nothing can be observed, so each stage is started in one step.*)
(***************************************************************************)
Launch(gs) == alive' = [g \in Goroutines |-> IF g \in gs THEN "running" ELSE alive[g]]

\* ExtractFilesConfigurations starts the feeder, with all the paths to send,
\* and the coordinator; then the first aggregator is started.
StartExtraction ==
    /\ mainPc = "extract"
    /\ mainPc' = IF opts.onlyK8s THEN "filter" ELSE "validate"
    /\ Launch({"feeder", "coordinator", "badYaml"})
    /\ hand' = [hand EXCEPT !["feeder"] = [o \in Occ |-> To("paths", o)]]
    /\ toClose' = [toClose EXCEPT !["feeder"] = <<"paths">>,
                                  !["coordinator"] = <<"yaml", "badYaml">>]
    /\ wg' = wg + 1
    /\ UNCHANGED <<input, present, chan, closed, collected, warnings>>

\* Mutant: the filter does not close the channel of the ignored files.
StartFilterLeaksIgnored ==
    /\ mainPc = "filter"
    /\ mainPc' = "validate"
    /\ Launch({"filter", "ignored"})
    /\ toClose' = [toClose EXCEPT !["filter"] = <<"k8s">>]
    /\ wg' = wg + 1
    /\ UNCHANGED <<input, present, chan, closed, hand, collected, warnings>>

\* --only-k8s-files: GetK8sFiles stands between the workers and the validator.
StartFilter ==
    /\ mainPc = "filter"
    /\ mainPc' = "validate"
    /\ Launch({"filter", "ignored"})
    /\ toClose' = [toClose EXCEPT !["filter"] = <<"k8s", "ignored">>]
    /\ wg' = wg + 1
    /\ UNCHANGED <<input, present, chan, closed, hand, collected, warnings>>

\* Mutant: the counter is raised for two of the three aggregators only.
StartValidationAddsTwo ==
    /\ mainPc = "validate"
    /\ mainPc' = "wait"
    /\ Launch({"validator", "valid", "invalid", "warning"})
    /\ toClose' = [toClose EXCEPT !["validator"] = <<"invalid", "valid", "warning">>]
    /\ wg' = wg + 2
    /\ UNCHANGED <<input, present, chan, closed, hand, collected, warnings>>

StartValidation ==
    /\ mainPc = "validate"
    /\ mainPc' = "wait"
    /\ Launch({"validator", "valid", "invalid", "warning"})
    /\ toClose' = [toClose EXCEPT !["validator"] = <<"invalid", "valid", "warning">>]
    /\ wg' = wg + 3
    /\ UNCHANGED <<input, present, chan, closed, hand, collected, warnings>>

\* wg.Wait returns: from here on the lists are read without a lock.
WaitReturns ==
    /\ mainPc = "wait"
    /\ wg = 0
    /\ mainPc' = "done"
    /\ UNCHANGED <<input, present, alive, chan, closed, hand, toClose,
                   collected, warnings, wg>>
-----------------------------------------------------------------------------
(***************************************************************************)
(* What every goroutine does with channels.                                *)
(***************************************************************************)
\* The channel a goroutine ranges over; an aggregator drains its own.
Source(g) == IF g \in Workers THEN "paths"
             ELSE IF g = "filter" THEN "yaml"
             ELSE IF g = "validator" THEN (IF opts.onlyK8s THEN "k8s" ELSE "yaml")
             ELSE g

Idle(g) == alive[g] = "running" /\ hand[g] = <<>>

Drained(c) == c \in closed /\ chan[c] = <<>>

\* g receives the first message of its channel and will send what `out` says.
Receive(g, out(_)) ==
    /\ Idle(g)
    /\ chan[Source(g)] # <<>>
    /\ hand' = [hand EXCEPT ![g] = out(Head(chan[Source(g)]).occ)]
    /\ chan' = [chan EXCEPT ![Source(g)] = Tail(@)]

\* A send blocks while the channel's buffer is full.
Send(g) ==
    /\ hand[g] # <<>>
    /\ LET s == Head(hand[g]) IN
       /\ Len(chan[s.to]) < Concurrency
       /\ chan' = [chan EXCEPT ![s.to] = Append(@, s.msg)]
    /\ hand' = [hand EXCEPT ![g] = Tail(@)]
    /\ UNCHANGED <<input, present, mainPc, alive, closed, toClose, collected,
                   warnings, wg>>

\* Mutant: the coordinator does not wait for its workers.
InputEndedUnjoined(g) ==
    \/ g \in {"feeder", "coordinator"}
    \/ g \in {"filter", "validator"} /\ Drained(Source(g))

\* When a goroutine that closes channels has nothing more to wait for.
InputEnded(g) ==
    \/ g = "feeder"
    \/ g = "coordinator" /\ \A w \in Workers : alive[w] = "exited"
    \/ g \in {"filter", "validator"} /\ Drained(Source(g))

\* Its close statements (the deferred ones too) run one after the other.
Close(g) ==
    /\ Idle(g)
    /\ InputEnded(g)
    /\ toClose[g] # <<>>
    /\ closed' = closed \cup {Head(toClose[g])}
    /\ toClose' = [toClose EXCEPT ![g] = Tail(@)]
    /\ alive' = IF Len(toClose[g]) = 1 THEN [alive EXCEPT ![g] = "exited"] ELSE alive
    /\ UNCHANGED <<input, present, mainPc, chan, hand, collected, warnings, wg>>
-----------------------------------------------------------------------------
(***************************************************************************)
(* ExtractFilesConfigurations.                                             *)
(***************************************************************************)
\* The coordinator starts the workers it will wait for.
LaunchWorkers ==
    /\ alive["coordinator"] = "running"
    /\ \A w \in Workers : alive[w] = "unborn"
    /\ Launch(Workers)
    /\ UNCHANGED <<input, present, mainPc, chan, closed, hand, toClose,
                   collected, warnings, wg>>

Readable(o) == path[o] \in present

\* ExtractConfigurationsFromYamlFile: stat, read and parse.
Extracted(o) ==
    IF Readable(o) /\ disk[path[o]].yaml # "bad"
    THEN <<To("yaml", o)>>
    ELSE <<To("badYaml", o)>>

\* Mutant: a file that cannot be parsed is dropped.
ExtractFileDropsBad(w) ==
    /\ Receive(w, LAMBDA o : IF Extracted(o)[1].to = "yaml" THEN Extracted(o) ELSE <<>>)
    /\ UNCHANGED <<input, present, mainPc, alive, closed, toClose, collected,
                   warnings, wg>>

ExtractFile(w) ==
    /\ Receive(w, Extracted)
    /\ UNCHANGED <<input, present, mainPc, alive, closed, toClose, collected,
                   warnings, wg>>

WorkerExits(w) ==
    /\ Idle(w)
    /\ Drained("paths")
    /\ alive' = [alive EXCEPT ![w] = "exited"]
    /\ UNCHANGED <<input, present, mainPc, chan, closed, hand, toClose,
                   collected, warnings, wg>>
-----------------------------------------------------------------------------
(***************************************************************************)
(* GetK8sFiles and ValidateResources.                                      *)
(***************************************************************************)
FilterFile ==
    /\ Receive("filter", LAMBDA o : IF disk[path[o]].yaml = "k8s"
                                    THEN <<To("k8s", o)>>
                                    ELSE <<To("ignored", o)>>)
    /\ UNCHANGED <<input, present, mainPc, alive, closed, toClose, collected,
                   warnings, wg>>

NoSchemas == opts.offline /\ ~opts.custom

\* validateResource and the sends that follow it.  A file that cannot be
\* opened is sent twice: once for the error, and once because isValid is false.
Validated(o) ==
    LET results == disk[path[o]].statuses IN
    IF ~Readable(o)
      THEN <<To("invalid", o), To("invalid", o)>>
    ELSE IF NoSchemas
      THEN <<To("valid", o), Warn(o, "NetworkError")>>
    ELSE IF results \subseteq {"Empty"} \/ results \cap {"Invalid", "Error"} # {}
      THEN <<To("invalid", o)>>
    ELSE IF "Skipped" \in results
      THEN <<To("valid", o), Warn(o, "Skipped")>>
    ELSE <<To("valid", o)>>

\* Mutant: a file without resources is not reported.
OutcomeLosesEmpty(o) ==
    IF Readable(o) /\ ~NoSchemas /\ disk[path[o]].statuses \subseteq {"Empty"}
    THEN <<>>
    ELSE Validated(o)

\* Mutant: the branches for valid and for invalid files are not exclusive.
OutcomeFallsThrough(o) ==
    IF Readable(o) /\ Validated(o) = <<To("invalid", o)>>
    THEN <<To("invalid", o), To("valid", o)>>
    ELSE Validated(o)

\* Mutant: the warning is not guarded by isValid.
OutcomeWarnsAlways(o) ==
    IF "Skipped" \in disk[path[o]].statuses /\ Validated(o) = <<To("invalid", o)>>
    THEN <<To("invalid", o), Warn(o, "Skipped")>>
    ELSE Validated(o)

\* Mutant: one Skipped result is enough for the file to count as valid.
OutcomeSkipsErrors(o) ==
    IF "Skipped" \in disk[path[o]].statuses /\ Validated(o) = <<To("invalid", o)>>
    THEN <<To("valid", o), Warn(o, "Skipped")>>
    ELSE Validated(o)

\* Mutant: validation that was switched off leaves no trace.
OutcomeSkipsSilently(o) == IF opts.skip THEN <<To("valid", o)>> ELSE Validated(o)

\* --no-schema-validation: every file is passed on with a warning.
Outcome(o) == IF opts.skip THEN <<To("valid", o), Warn(o, "Skipped")>>
                           ELSE Validated(o)

ValidateFile ==
    /\ Receive("validator", Outcome)
    /\ UNCHANGED <<input, present, mainPc, alive, closed, toClose, collected,
                   warnings, wg>>
-----------------------------------------------------------------------------
(***************************************************************************)
(* The ValidationManager's aggregators.                                    *)
(***************************************************************************)
AppendToList(v) ==
    /\ Idle(v)
    /\ chan[v] # <<>>
    /\ collected' = [collected EXCEPT ![v] = Append(@, Head(chan[v]).occ)]
    /\ chan' = [chan EXCEPT ![v] = Tail(@)]
    /\ UNCHANGED <<input, present, mainPc, alive, closed, hand, toClose,
                   warnings, wg>>

\* AggregateK8sValidationWarningsPerValidFile: the map's key is the file name.
RecordWarning ==
    /\ Idle("warning")
    /\ chan["warning"] # <<>>
    /\ LET m == Head(chan["warning"]) IN
       warnings' = [warnings EXCEPT ![path[m.occ]] = m.kind]
    /\ chan' = [chan EXCEPT !["warning"] = Tail(@)]
    /\ UNCHANGED <<input, present, mainPc, alive, closed, hand, toClose,
                   collected, wg>>

\* Mutant: the goroutine calls wg.Done although its channel is only empty.
AggregatorExitsEarly(a) ==
    /\ Idle(a)
    /\ chan[a] = <<>>
    /\ alive' = [alive EXCEPT ![a] = "exited"]
    /\ wg' = wg - 1
    /\ UNCHANGED <<input, present, mainPc, chan, closed, hand, toClose,
                   collected, warnings>>

\* The range over the channel ends and wg.Done is called.
AggregatorExits(a) ==
    /\ Idle(a)
    /\ Drained(a)
    /\ alive' = [alive EXCEPT ![a] = "exited"]
    /\ wg' = wg - 1
    /\ UNCHANGED <<input, present, mainPc, chan, closed, hand, toClose,
                   collected, warnings>>
-----------------------------------------------------------------------------
\* Somebody else removes a file, or makes it unreadable, during the run.
Vanish(p) ==
    /\ p \in present
    /\ mainPc # "done"
    /\ present' = present \ {p}
    /\ UNCHANGED <<input, mainPc, alive, chan, closed, hand, toClose, collected,
                   warnings, wg>>

\* After wg.Wait there is nothing left to run: not a deadlock.
Terminated ==
    /\ mainPc = "done"
    /\ \A g \in Goroutines : alive[g] # "running"
    /\ UNCHANGED vars

MainStep == StartExtraction \/ StartFilter \/ StartValidation \/ WaitReturns

WorkerStep(w) == ExtractFile(w) \/ WorkerExits(w)

AggregatorStep(a) ==
    \/ a \in Verdicts /\ AppendToList(a)
    \/ a = "warning" /\ RecordWarning
    \/ AggregatorExits(a)

\* The statements of one goroutine.
Step(g) ==
    \/ Send(g)
    \/ g \in Workers /\ WorkerStep(g)
    \/ g = "coordinator" /\ LaunchWorkers
    \/ g = "filter" /\ FilterFile
    \/ g = "validator" /\ ValidateFile
    \/ g \in Helpers /\ Close(g)
    \/ g \in Aggregators /\ AggregatorStep(g)

Next == \/ MainStep
        \/ \E g \in Goroutines : Step(g)
        \/ \E p \in Paths : Vanish(p)
        \/ Terminated

\* The Go scheduler runs every goroutine that can run; nothing obliges a file
\* to vanish.
Fairness == WF_vars(MainStep) /\ \A g \in Goroutines : WF_vars(Step(g))

Spec == Init /\ [][Next]_vars
FairSpec == Spec /\ Fairness
-----------------------------------------------------------------------------
(***************************************************************************)
(* Properties.                                                             *)
(***************************************************************************)
TypeOK ==
    /\ opts \in Options
    /\ path \in [Occ -> Paths]
    /\ disk \in [Paths -> [yaml : YamlKinds, statuses : SUBSET Statuses]]
    /\ present \subseteq Paths
    /\ mainPc \in {"extract", "filter", "validate", "wait", "done"}
    /\ alive \in [Goroutines -> {"unborn", "running", "exited"}]
    /\ chan \in [Channels -> Seq(Messages)]
    /\ closed \subseteq Channels
    /\ hand \in [Goroutines -> Seq(Sends)]
    /\ toClose \in [Helpers -> Seq(Channels)]
    /\ collected \in [Verdicts -> Seq(Occ)]
    /\ warnings \in [Paths -> Kinds]
    /\ wg \in Nat

\* No goroutine is ever about to send on a closed channel, which would panic:
\* the coordinator closes only after its workers (files.go:54-56), a filter or
\* validator only after its own range (k8sValidator.go:71-75, 124-127).
NoSendOnClosed ==
    \A g \in Goroutines : \A s \in ToSet(hand[g]) : s.to \notin closed

ListedAs(v) == ToSet(collected[v])

\* When wg.Wait has returned no path is missing from the ValidationManager:
\* none was left in a channel or in a goroutine (main.go:591).
EveryFileHasVerdict ==
    mainPc = "done" => \A o \in Occ : \E v \in Verdicts : o \in ListedAs(v)

Times(o, v) == Cardinality({i \in DOMAIN collected[v] : collected[v][i] = o})

\* No path is counted under two verdicts, and none twice under one, except
\* that a file which could no longer be opened for the schema validation is
\* listed twice as invalid (k8sValidator.go:92-112).
ReportedOnce ==
    \A o \in Occ, v \in Verdicts :
        Times(o, v) > 0 =>
            /\ \A u \in Verdicts \ {v} : Times(o, u) = 0
            /\ Times(o, v) > 1 => Times(o, v) = 2 /\ v = "invalid" /\ ~Readable(o)

\* Which files the policies are evaluated on (main.go:596): unless validation
\* was switched off or there was no connection, only files all of whose
\* resources passed or were skipped; and no such file is reported as invalid
\* as long as it can be read.
VerdictSound ==
    /\ \A o \in ListedAs("valid") :
          LET results == disk[path[o]].statuses IN
          /\ disk[path[o]].yaml # "bad"
          /\ opts.onlyK8s => disk[path[o]].yaml = "k8s"
          /\ ~opts.skip /\ ~NoSchemas => /\ results \cap {"Invalid", "Error"} = {}
                                         /\ results \cap {"Valid", "Skipped"} # {}
    /\ \A o \in ListedAs("invalid") :
          Readable(o) => /\ ~opts.skip /\ ~NoSchemas
                         /\ \/ disk[path[o]].statuses \cap {"Invalid", "Error"} # {}
                            \/ disk[path[o]].statuses \subseteq {"Empty"}
    /\ \A o \in ListedAs("badYaml") : Readable(o) => disk[path[o]].yaml = "bad"

ValidPaths == {path[o] : o \in ListedAs("valid")}

\* Once the lists are read, every warning belongs to a valid file, although
\* verdicts and warnings are gathered by different goroutines; and without a
\* connection every valid file has the warning that makes the summary say
\* "skipped since there is no internet connection" (validationManager.go:66-72).
WarningsMatchVerdicts ==
    mainPc = "done" =>
        /\ {p \in Paths : warnings[p] # "none"} \subseteq ValidPaths
        /\ (NoSchemas /\ ~opts.skip) =>
              \A p \in ValidPaths : warnings[p] = "NetworkError"

SchemaChecked == {o \in ListedAs("valid") :
                    /\ ~opts.skip /\ ~NoSchemas
                    /\ "Skipped" \notin disk[path[o]].statuses}

DistinctPaths == \A a, b \in Occ : path[a] = path[b] => a = b

\* The numerator of the schema validation line of the summary is the number of
\* files whose every resource was checked, if no file was named twice
\* (validationManager.go:71; the map counts a file once, the list each time).
SummaryCountsChecked ==
    (mainPc = "done" /\ DistinctPaths /\ \A p \in Paths : warnings[p] # "NetworkError")
    => Len(collected["valid"]) - Cardinality({p \in Paths : warnings[p] = "Skipped"})
         = Cardinality(SchemaChecked)

\* After wg.Wait nobody writes what the main goroutine reads without a lock.
NoWriteAfterWait == [][mainPc = "done" => UNCHANGED <<collected, warnings>>]_vars

\* The run always gets to the policy checks and leaves no goroutine behind:
\* the bounded channels never block each other for good.
Terminates == <>(mainPc = "done" /\ \A g \in Goroutines : alive[g] # "running")

\* The audit that this pipeline implements: the verdict of an occurrence is the
\* list it is on.
AuditVerdict == [o \in Occ |-> IF \E v \in Verdicts : o \in ListedAs(v)
                               THEN CHOOSE v \in Verdicts : o \in ListedAs(v)
                               ELSE "pending"]

Audit == INSTANCE FileAudit WITH verdict <- AuditVerdict, finished <- (mainPc = "done")

\* Every step of the pipeline decides one file, ends the audit, or changes
\* nothing that the audit is about; and the audit is always finished.
ImplementsAudit == Audit!Spec
=============================================================================
