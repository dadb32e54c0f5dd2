----------------------------- MODULE TestCommand ------------------------------
(* One run of `datree test <files>`, `datree test -`, `datree kustomize test` *)
(* or `datree publish <file>`: from the arguments to the exit status, with    *)
(* the local configuration, the backend calls, the temporary file and the     *)
(* error report.  The pipeline inside evaluate() is module TestPipeline; here *)
(* it is one step with its possible outcomes.  Every system call and backend  *)
(* call may fail, and a request may never be answered.                        *)
EXTENDS Naturals

CONSTANTS Commands,    \* subset of {"files", "stdin", "kustomize", "publish"}
          FlagSets,    \* flags of a run: records of the five flags below
          Configs,     \* ~/.datree/config.yaml before the run
          Envs         \* the settings given by DATREE_TOKEN, _CLIENT_ID, _OFFLINE

Flag == [formatted : BOOLEAN, noRecord : BOOLEAN, saveRendered : BOOLEAN,
         saveResults : BOOLEAN, policyConfig : BOOLEAN]

\* What matters of the configuration: whether a token and a client id are
\* there, and the offline mode.
Config == [token : BOOLEAN, clientId : BOOLEAN,
           offline : {"", "fail", "local", "other"}]

NoConfig == [token |-> FALSE, clientId |-> FALSE, offline |-> ""]

NoFlags == [formatted |-> FALSE, noRecord |-> FALSE, saveRendered |-> FALSE,
            saveResults |-> FALSE, policyConfig |-> FALSE]

ASSUME CommandsAssumption == Commands \subseteq {"files", "stdin", "kustomize", "publish"}
ASSUME FlagsAssumption == FlagSets \subseteq Flag
ASSUME ConfigsAssumption == Configs \subseteq Config /\ Envs \subseteq Config

VARIABLES
    pc,          \* where the main goroutine is
    command, flags,
    given,       \* the configuration file as the run found it; no step reads it
    disk,        \* the configuration file
    viper,       \* the configuration in memory: values set, those of the
                 \* environment, the file as last read
    offlineMode, \* NetworkValidator.offlineMode
    caller,      \* who called GetLocalConfiguration: "wrapper" or "reporter"
    prerun,      \* the prerun data: [pac, rulesText], meaningful once received
    err,         \* the error RunE returns
    outcome,     \* what was computed, shown and recorded (see Init)
    temp,        \* the temporary file: exists, deferred removal, and whether
                 \* its writing or its removal has failed
    requests,    \* backend requests made, per endpoint
    tokens,      \* non-empty tokens received from the backend
    rulesSaved,  \* ~/.datree/defaultRules.yaml was rewritten
    messager,    \* the version-message goroutine and its channel
    exit         \* exit status of the process, 99 while it runs

cfg  == <<disk, viper, offlineMode, caller, tokens>>
io   == <<temp, rulesSaved>>
vars == <<pc, command, flags, given, cfg, prerun, err, outcome, io, requests,
          messager, exit>>

Endpoints == {"token", "prerun", "result", "publish", "report"}
Labels == {"args", "messages", "run", "mkTemp", "config", "offline", "mode",
           "token", "clientId", "prerun", "data", "stdin", "copy", "filter",
           "evaluate", "send", "print", "save", "prompt", "finish", "return",
           "main", "report", "exited", "file", "publish"}

TypeOK ==
    /\ pc \in Labels
    /\ command \in Commands /\ flags \in FlagSets \cup {NoFlags}
    /\ given \in Config /\ disk \in Config
    /\ viper \in [set : Config, env : Config, read : Config]
    /\ offlineMode \in {"fail", "local", "other"}
    /\ caller \in {"wrapper", "reporter"}
    /\ prerun \in [pac : BOOLEAN, rulesText : BOOLEAN]
    /\ err \in {"none", "error", "violations", "panic", "crash"}
    /\ outcome \in [violations : BOOLEAN, recorded : BOOLEAN, prompt : BOOLEAN,
                    printed : BOOLEAN, printErr : BOOLEAN, published : BOOLEAN]
    /\ temp \in [exists : BOOLEAN, deferred : BOOLEAN, failed : BOOLEAN]
    /\ requests \in [Endpoints -> 0..2]
    /\ tokens \in 0..2
    /\ rulesSaved \in BOOLEAN
    /\ messager \in [state : {"idle", "asking", "closing", "closed"},
                     buffered : 0..1]
    /\ exit \in {0, 1, 2, 99}

\* A fresh process: viper is empty until the file is read.
Init ==
    /\ pc = "args"
    /\ command \in Commands
    /\ flags \in IF command = "publish" THEN {NoFlags} ELSE FlagSets
    /\ given \in Configs /\ disk = given
    /\ \E env \in Envs : viper = [set |-> NoConfig, env |-> env, read |-> NoConfig]
    /\ offlineMode = "fail"
    /\ caller = "wrapper"
    /\ prerun = [pac |-> FALSE, rulesText |-> FALSE]
    /\ err = "none"
    /\ outcome = [violations |-> FALSE, recorded |-> FALSE, prompt |-> FALSE,
                  printed |-> FALSE, printErr |-> FALSE, published |-> FALSE]
    /\ temp = [exists |-> FALSE, deferred |-> FALSE, failed |-> FALSE]
    /\ requests = [e \in Endpoints |-> 0]
    /\ tokens = 0
    /\ rulesSaved = FALSE
    /\ messager = [state |-> "idle", buffered |-> 0]
    /\ exit = 99

At(l)     == pc = l
Goto(l)   == pc' = l /\ UNCHANGED err
Return(e) == pc' = "return" /\ err' = e
Ask(e)    == requests' = [requests EXCEPT ![e] = @ + 1]
IsLocalMode == offlineMode = "local"

-----------------------------------------------------------------------------
(* Before RunE: arguments and version messages.                              *)

\* Args: a bad flag or argument makes Execute fail before PreRunE and RunE.
\* PreRunE starts the messager unless the output format is for programs.
Args ==
    /\ At("args")
    /\ \/ pc' = "main" /\ err' = "error" /\ UNCHANGED messager
       \/ /\ flags.formatted
          /\ Goto("run") /\ UNCHANGED messager
       \/ /\ ~flags.formatted
          /\ Goto("messages")
          /\ messager' = [messager EXCEPT !.state = "asking"]
    /\ UNCHANGED <<command, flags, given, cfg, prerun, outcome, io, requests, exit>>

\* The goroutine of LoadVersionMessages: an answer with a text is buffered,
\* an error, a timeout or an empty answer is not; the channel is closed.
MessagerAnswer ==
    /\ messager.state = "asking"
    /\ \E n \in 0..1 : messager' = [state |-> "closing", buffered |-> n]
    /\ UNCHANGED <<pc, command, flags, given, cfg, prerun, err, outcome, io, requests, exit>>

\* (Mutant: the channel is closed only after a message.)
MessagerCloseAfterMessage ==
    /\ messager.state = "closing" /\ messager.buffered = 1
    /\ messager' = [messager EXCEPT !.state = "closed"]
    /\ UNCHANGED <<pc, command, flags, given, cfg, prerun, err, outcome, io, requests, exit>>

MessagerClose ==
    /\ messager.state = "closing"
    /\ messager' = [messager EXCEPT !.state = "closed"]
    /\ UNCHANGED <<pc, command, flags, given, cfg, prerun, err, outcome, io, requests, exit>>

\* for msg := range messages: receive, or leave the loop when closed and empty.
RangeMessages ==
    /\ At("messages")
    /\ \/ /\ messager.buffered > 0
          /\ messager' = [messager EXCEPT !.buffered = @ - 1]
          /\ Goto("messages")
       \/ /\ messager.buffered = 0 /\ messager.state = "closed"
          /\ Goto("run") /\ UNCHANGED messager
    /\ UNCHANGED <<command, flags, given, cfg, prerun, outcome, io, requests, exit>>

-----------------------------------------------------------------------------
(* RunE of the two commands, up to TestWrapper.                              *)

\* `test` calls TestWrapper; `kustomize test` first runs the kustomize binary;
\* `publish` loads the configuration in PreRunE.
RunE ==
    /\ At("run")
    /\ \/ command # "kustomize" /\ Goto("config")
       \/ command = "kustomize" /\ Goto("mkTemp")
       \/ command = "kustomize" /\ Return("error")
    /\ UNCHANGED <<command, flags, given, cfg, prerun, outcome, io, requests, messager, exit>>

\* CreateTempFile: os.CreateTemp fails, or the write fails and leaves a file
\* nobody will remove, or the caller gets the name and registers its removal.
CreateTempFile ==
    /\ At("mkTemp")
    /\ \/ Return("error") /\ UNCHANGED temp
       \/ /\ Return("error")
          /\ temp' = [temp EXCEPT !.exists = TRUE, !.failed = TRUE]
       \/ /\ Goto("config")
          /\ temp' = [temp EXCEPT !.exists = TRUE, !.deferred = ~flags.saveRendered]
    /\ UNCHANGED <<command, flags, given, cfg, prerun, outcome, rulesSaved, requests,
                   messager, exit>>

-----------------------------------------------------------------------------
(* GetLocalConfiguration, called by TestWrapper and by the error reporter.   *)

\* Where an error of GetLocalConfiguration goes: TestWrapper returns it, the
\* reporter goes on with an unknown client.
ConfigError ==
    IF caller = "wrapper" THEN Return("error") ELSE Goto("report")

\* What viper.Get returns: a value set in this process comes before one of the
\* environment, and that before the one of the file.
Merged(v) ==
    [token    |-> v.set.token \/ v.env.token \/ v.read.token,
     clientId |-> v.set.clientId \/ v.env.clientId \/ v.read.clientId,
     offline  |-> IF v.set.offline # "" THEN v.set.offline
                  ELSE IF v.env.offline # "" THEN v.env.offline ELSE v.read.offline]

\* What WriteConfig writes: the keys that were set or are in the file, each with
\* what Get returns, so that a value of the environment may replace the file's.
Written(v) ==
    [token    |-> v.set.token \/ v.read.token,
     clientId |-> v.set.clientId \/ v.read.clientId,
     offline  |-> IF v.set.offline = "" /\ v.read.offline = "" THEN ""
                  ELSE Merged(v).offline]

Value == Merged(viper)

\* The directory or the file cannot be made or read, or the file is read.
InitLocalConfigFile ==
    /\ At("config")
    /\ \/ ConfigError /\ UNCHANGED viper
       \/ Goto("offline") /\ viper' = [viper EXCEPT !.read = disk]
    /\ UNCHANGED <<command, flags, given, disk, offlineMode, caller, tokens, prerun,
                   outcome, io, requests, messager, exit>>

\* (Mutant: the value is set in memory only once it is saved.)
SetViperVariableAfterWrite(key, value, next) ==
    LET new == [viper EXCEPT !.set[key] = value]
    IN  \/ /\ Goto(next)
           /\ disk' = Written(new) /\ viper' = [new EXCEPT !.read = Written(new)]
        \/ /\ ConfigError
           /\ disk' \in {disk, NoConfig, Written(new)} /\ UNCHANGED viper

\* setViperVariable: set in memory, write the file, read it back.  A failure
\* leaves the value set in memory, and the file as it was, emptied (it is
\* truncated first) or written.
SetViperVariable(key, value, next) ==
    LET new == [viper EXCEPT !.set[key] = value]
    IN  \/ /\ Goto(next)
           /\ disk' = Written(new) /\ viper' = [new EXCEPT !.read = Written(new)]
        \/ /\ ConfigError
           /\ disk' \in {disk, NoConfig, Written(new)} /\ viper' = new

\* An empty offline mode is replaced by "fail" and saved.
DefaultOffline ==
    /\ At("offline")
    /\ \/ Value.offline # "" /\ Goto("mode") /\ UNCHANGED <<viper, disk>>
       \/ Value.offline = "" /\ SetViperVariable("offline", "fail", "mode")
    /\ UNCHANGED <<command, flags, given, offlineMode, caller, tokens, prerun, outcome,
                   io, requests, messager, exit>>

\* The backend client learns the mode before the token is asked for.
\* (Mutant: it does not.)
SetOfflineModeForgotten ==
    /\ At("mode") /\ Goto("token")
    /\ UNCHANGED <<command, flags, given, cfg, prerun, outcome, io, requests, messager, exit>>

SetOfflineMode ==
    /\ At("mode")
    /\ offlineMode' = Value.offline
    /\ Goto("token")
    /\ UNCHANGED <<command, flags, given, disk, viper, caller, tokens, prerun, outcome,
                   io, requests, messager, exit>>

\* CreateToken, when there is no token: nothing is asked in local mode; an
\* empty token in the answer is not saved.
CreateToken ==
    /\ At("token")
    /\ \/ /\ Value.token \/ IsLocalMode
          /\ Goto("clientId") /\ UNCHANGED <<viper, disk, tokens, requests>>
       \/ /\ ~Value.token /\ ~IsLocalMode
          /\ Ask("token")
          /\ \/ ConfigError /\ UNCHANGED <<viper, disk, tokens>>
             \/ Goto("clientId") /\ UNCHANGED <<viper, disk, tokens>>
             \/ /\ tokens' = tokens + 1
                /\ SetViperVariable("token", TRUE, "clientId")
    /\ UNCHANGED <<command, flags, given, offlineMode, caller, prerun, outcome, io,
                   messager, exit>>

\* A missing client id is generated and saved; then the caller goes on.
ClientId ==
    /\ At("clientId")
    /\ LET next == IF caller = "reporter" THEN "report"
                   ELSE IF command = "publish" THEN "file"
                   ELSE "prerun"
       IN  \/ Value.clientId /\ Goto(next) /\ UNCHANGED <<viper, disk>>
           \/ ~Value.clientId /\ SetViperVariable("clientId", TRUE, next)
    /\ UNCHANGED <<command, flags, given, offlineMode, caller, tokens, prerun, outcome,
                   io, requests, messager, exit>>

-----------------------------------------------------------------------------
(* TestWrapper and test.                                                     *)

\* RequestEvaluationPrerunData: built-in data in local mode, the backend's
\* otherwise.
RequestPrerunData ==
    /\ At("prerun")
    /\ \/ /\ IsLocalMode
          /\ prerun' = [pac |-> TRUE, rulesText |-> FALSE]
          /\ Goto("data") /\ UNCHANGED requests
       \/ /\ ~IsLocalMode
          /\ Ask("prerun")
          /\ \/ Return("error") /\ UNCHANGED prerun
             \/ /\ \E pac, text \in BOOLEAN :
                       prerun' = [pac |-> pac, rulesText |-> text]
                /\ Goto("data")
    /\ UNCHANGED <<command, flags, given, cfg, outcome, io, messager, exit>>

\* A policy file may be used in local mode or in policy-as-code mode only.
PolicyConfigAllowed == flags.policyConfig => IsLocalMode \/ prerun.pac

\* (Mutant: a policy file is used without asking whether it may be.)
GenerateDataUnchecked ==
    /\ At("data")
    /\ rulesSaved' \in {rulesSaved, prerun.rulesText}
    /\ Return("error") \/ Goto(IF command = "stdin" THEN "stdin" ELSE "filter")
    /\ UNCHANGED <<command, flags, given, cfg, prerun, outcome, temp, requests,
                   messager, exit>>

\* saveDefaultRulesAsFile (its failures are ignored), then
\* GenerateTestCommandData: a refused or unreadable policy file, or a policy
\* that cannot be built, is an error.
GenerateData ==
    /\ At("data")
    /\ rulesSaved' \in {rulesSaved, prerun.rulesText}
    /\ \/ Return("error")
       \/ /\ PolicyConfigAllowed
          /\ Goto(IF command = "stdin" THEN "stdin" ELSE "filter")
    /\ UNCHANGED <<command, flags, given, cfg, prerun, outcome, temp, requests,
                   messager, exit>>

\* `test -`: the standard input is copied to a temporary file, whose removal
\* is registered before the copy.
StdinTempFile ==
    /\ At("stdin")
    /\ \/ Return("error") /\ UNCHANGED temp
       \/ /\ Goto("copy")
          /\ temp' = [temp EXCEPT !.exists = TRUE, !.deferred = ~flags.saveRendered]
    /\ UNCHANGED <<command, flags, given, cfg, prerun, outcome, rulesSaved, requests,
                   messager, exit>>

CopyStdin ==
    /\ At("copy")
    /\ Goto("filter") \/ Return("error")
    /\ UNCHANGED <<command, flags, given, cfg, prerun, outcome, io, requests, messager, exit>>

\* FilterFiles: a path that cannot be read, or no file left, is an error.
FilterFiles ==
    /\ At("filter")
    /\ Goto("evaluate") \/ Return("error")
    /\ UNCHANGED <<command, flags, given, cfg, prerun, outcome, io, requests, messager, exit>>

\* evaluate() up to its result: wereViolationsFound is decided here; the
\* evaluator, which runs in the main goroutine, may return an error or panic.
Evaluate ==
    /\ At("evaluate")
    /\ \/ \E e \in {"error", "panic"} : Return(e) /\ UNCHANGED outcome
       \/ /\ \E v \in BOOLEAN : outcome' = [outcome EXCEPT !.violations = v]
          /\ Goto(IF flags.noRecord THEN "print" ELSE "send")
    /\ UNCHANGED <<command, flags, given, cfg, prerun, io, requests, messager, exit>>

\* A goroutine of the pipeline panics, for one because newKubeconformValidator drops
\* the error that left it without a client.  No recover covers it: the process ends
\* at once, with the status Go gives to a panic and without the deferred calls.
GoroutinePanic ==
    /\ At("evaluate")
    /\ pc' = "exited" /\ err' = "crash" /\ exit' = 2
    /\ UNCHANGED <<command, flags, given, cfg, prerun, outcome, io, requests, messager>>

\* SendEvaluationResult: skipped in local mode, else the backend must accept
\* the result; its answer may ask for a prompt.
SendEvaluationResult ==
    /\ At("send")
    /\ \/ IsLocalMode /\ Goto("print") /\ UNCHANGED <<outcome, requests>>
       \/ /\ ~IsLocalMode
          /\ Ask("result")
          /\ \/ Return("error") /\ UNCHANGED outcome
             \/ /\ \E p \in BOOLEAN :
                      outcome' = [outcome EXCEPT !.recorded = TRUE, !.prompt = p]
                /\ Goto("print")
    /\ UNCHANGED <<command, flags, given, cfg, prerun, io, messager, exit>>

\* PrintResults: its error is kept until the end of test().
PrintResults ==
    /\ At("print")
    /\ \E ok \in BOOLEAN :
           outcome' = [outcome EXCEPT !.printed = ok, !.printErr = ~ok]
    /\ Goto("save")
    /\ UNCHANGED <<command, flags, given, cfg, prerun, io, requests, messager, exit>>

\* --save-results: formatting or writing the JSON may fail.
SaveResults ==
    /\ At("save")
    /\ \/ Goto("prompt")
       \/ flags.saveResults /\ Return("error")
    /\ UNCHANGED <<command, flags, given, cfg, prerun, outcome, io, requests, messager, exit>>

\* The prompt: the key or the browser may fail.
Prompt ==
    /\ At("prompt")
    /\ \/ Goto("finish")
       \/ outcome.prompt /\ Return("error")
    /\ UNCHANGED <<command, flags, given, cfg, prerun, outcome, io, requests, messager, exit>>

\* (Mutant: the violations come before the error of the printing.)
TestErrorViolationsFirst(o) ==
    IF o.violations THEN "violations" ELSE IF o.printErr THEN "error" ELSE "none"

\* The error test() returns: of the printing first, then the violations.
TestError(o) ==
    IF o.printErr THEN "error" ELSE IF o.violations THEN "violations" ELSE "none"

Finish ==
    /\ At("finish")
    /\ Return(TestError(outcome))
    /\ UNCHANGED <<command, flags, given, cfg, prerun, outcome, io, requests, messager, exit>>

-----------------------------------------------------------------------------
(* publish.                                                                  *)

\* The policies file must be readable YAML and, if its custom rules are a list,
\* each regoDefinition of the right form.
ValidateFile ==
    /\ At("file")
    /\ Goto("publish") \/ Return("error")
    /\ UNCHANGED <<command, flags, given, cfg, prerun, outcome, io, requests, messager, exit>>

\* What becomes of a request of the HTTP client: it is not answered, answered with
\* an error status, or accepted, but the answer perhaps lost.
RequestOutcomes == {"unanswered", "refused", "accepted", "answerLost"}

\* (Mutant: any answer of the backend is taken for success.)
FailsUnanswered(o) == o \in {"unanswered", "answerLost"}

Fails(o) == o # "accepted"

\* PublishPolicies: asked whatever the mode, with the token there is.  The message
\* printed, of the answer or of the error, goes with the error returned.
PublishPolicies ==
    /\ At("publish")
    /\ Ask("publish")
    /\ \E o \in RequestOutcomes :
          /\ outcome' = [outcome EXCEPT !.published = o \in {"accepted", "answerLost"}]
          /\ Return(IF Fails(o) THEN "error" ELSE "none")
    /\ UNCHANGED <<command, flags, given, cfg, prerun, io, messager, exit>>

-----------------------------------------------------------------------------
(* The deferred calls, and main.                                             *)

\* os.Remove, whose error nobody looks at, if the removal was registered.
Removed(t) ==
    IF ~t.deferred THEN {t}
    ELSE {[t EXCEPT !.deferred = FALSE, !.exists = ~ok, !.failed = ~ok] : ok \in BOOLEAN}

\* (Mutant: the file is removed on a return, not on a panic.)
RunDeferredOnReturn ==
    /\ At("return")
    /\ IF err = "panic" THEN UNCHANGED temp ELSE temp' \in Removed(temp)
    /\ Goto("main")
    /\ UNCHANGED <<command, flags, given, cfg, prerun, outcome, rulesSaved, requests,
                   messager, exit>>

\* The deferred calls run on a return and on a panic of the main goroutine.
RunDeferred ==
    /\ At("return")
    /\ temp' \in Removed(temp)
    /\ Goto("main")
    /\ UNCHANGED <<command, flags, given, cfg, prerun, outcome, rulesSaved, requests,
                   messager, exit>>

\* (Mutant: a panic ends the process without a report.)
MainPanicUnreported ==
    /\ At("main")
    /\ \/ /\ err \in {"none", "violations", "panic"}
          /\ exit' = [none |-> 0, panic |-> 1, violations |-> 2][err]
          /\ Goto("exited") /\ UNCHANGED caller
       \/ err = "error" /\ caller' = "reporter" /\ Goto("config") /\ UNCHANGED exit
    /\ UNCHANGED <<command, flags, given, disk, viper, offlineMode, tokens, prerun,
                   outcome, io, requests, messager>>

\* main: exit 0, exit 2 on violations; any other error, and a recovered panic,
\* is reported first, with the local configuration.
Main ==
    /\ At("main")
    /\ \/ err = "none" /\ exit' = 0 /\ Goto("exited") /\ UNCHANGED caller
       \/ err = "violations" /\ exit' = 2 /\ Goto("exited") /\ UNCHANGED caller
       \/ /\ err \in {"error", "panic"}
          /\ caller' = "reporter" /\ Goto("config") /\ UNCHANGED exit
    /\ UNCHANGED <<command, flags, given, disk, viper, offlineMode, tokens, prerun,
                   outcome, io, requests, messager>>

\* ReportCliError: its outcome is ignored.
Report ==
    /\ At("report")
    /\ Ask("report")
    /\ exit' = 1
    /\ Goto("exited")
    /\ UNCHANGED <<command, flags, given, cfg, prerun, outcome, io, messager>>

-----------------------------------------------------------------------------
MainStep ==
    \/ Args \/ RangeMessages \/ RunE \/ CreateTempFile
    \/ InitLocalConfigFile \/ DefaultOffline \/ SetOfflineMode \/ CreateToken
    \/ ClientId \/ RequestPrerunData \/ GenerateData \/ StdinTempFile
    \/ CopyStdin \/ FilterFiles \/ Evaluate \/ GoroutinePanic \/ SendEvaluationResult
    \/ PrintResults \/ SaveResults \/ Prompt \/ Finish \/ ValidateFile
    \/ PublishPolicies \/ RunDeferred \/ Main \/ Report

MessagerStep == MessagerAnswer \/ MessagerClose

Next == MainStep \/ MessagerStep

Spec == Init /\ [][Next]_vars

\* What a run waits for without a limit: the backend, since the HTTP client has no
\* timeout, the schemas that kubeconform downloads, the kustomize binary, the standard
\* input, and a key.
WaitsOutside ==
    \/ At("run") /\ command = "kustomize"
    \/ At("token") /\ ~Value.token /\ ~IsLocalMode
    \/ At("prerun") /\ ~IsLocalMode
    \/ At("copy") \/ At("evaluate")
    \/ At("send") /\ ~IsLocalMode
    \/ At("prompt") /\ outcome.prompt
    \/ At("publish") \/ At("report")

\* Neither goroutine stops while it can go on by itself; the version request, the
\* only one with a limit, ends after 900 ms.
FairSpec == Spec /\ WF_vars(~WaitsOutside /\ MainStep) /\ WF_vars(MessagerStep)

-----------------------------------------------------------------------------
(* Correctness.                                                              *)

\* The exit status tells the truth (main.go:67-77): 0 and 2 mean that the
\* files were evaluated, the results printed, and recorded by the backend
\* unless the user opted out; 2 that there were violations, 0 that there were
\* none; and neither hides an error or a panic of the main goroutine.  A panic of
\* another one has the status of violations, without results.  0 of `publish` means
\* that the backend accepted the policies, though 1 does not mean that it did not.
ExitCodeSound ==
    /\ exit \in {0, 2} /\ command # "publish" =>
          \/ /\ outcome.printed
             /\ exit = 2 <=> outcome.violations
             /\ outcome.recorded \/ flags.noRecord \/ IsLocalMode
             /\ err \in {"none", "violations"}
          \/ err = "crash" /\ exit = 2 /\ ~outcome.printed /\ ~outcome.recorded
    /\ exit # 99 /\ command = "publish" =>
          /\ exit = 0 => outcome.published /\ err = "none"
          /\ exit \in {0, 1}

\* A run that ends with an error, or with a panic of the main goroutine, is reported
\* to the backend once, and no other run is; nor is a panic of another goroutine.
FailureReportedOnce ==
    exit # 99 => requests["report"] = (IF err \in {"error", "panic"} THEN 1 ELSE 0)

\* Whether the mode is local, by the environment or else by such a file.
LocalBy(file) ==
    IF viper.env.offline # "" THEN viper.env.offline = "local" ELSE file.offline = "local"

\* A test whose environment or file says `local` when it begins never asks for prerun
\* data and never sends results (networkValidator.IsLocalMode guards each call, and
\* must be set before the first).  It asks for a token only after a write of the file
\* has failed and emptied it, when the error reporter loads it again and finds no
\* mode.  The report, the version message and `publish` have no such guard.
LocalModeSilent ==
    LocalBy(given) =>
        /\ requests["prerun"] = 0 /\ requests["result"] = 0
        /\ requests["token"] # 0 => caller = "reporter" /\ ~LocalBy(disk)

\* A run gets at most one token, though the error reporter loads the
\* configuration again after a failure in the middle of creating one.
OneTokenPerRun == tokens <= 1

\* The requests of a run: silent in local mode, and one token at most.
RequestsJustified == LocalModeSilent /\ OneTokenPerRun

\* When the process ends, the temporary file is gone unless it was to be kept, a call
\* on it failed, or a goroutine's panic left no time for its removal.
TempFileRemoved ==
    exit # 99 /\ temp.exists => flags.saveRendered \/ temp.failed \/ err = "crash"

\* The policy used is never one of a file in a run that may not use one.
ResultsUnderAllowedPolicy == [][outcome' # outcome => PolicyConfigAllowed]_vars

\* Every run ends, whatever fails, unless it waits for ever for something outside of it
\* that has no limit: it waits for nothing else, and not for the messager.
Terminates == <>[](exit # 99 \/ WaitsOutside)
=============================================================================
