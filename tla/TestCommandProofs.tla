--------------------------- MODULE TestCommandProofs ---------------------------
(* Proofs about TestCommand, for any commands, flags, environments and files: *)
(*   TypeCorrect          Spec => []TypeOK                                    *)
(*   ExitTold             Spec => []ExitCodeSound                             *)
(*   ReportedExactlyOnce  Spec => []FailureReportedOnce                       *)
(*   RequestsKeptJustified  Spec => []RequestsJustified                       *)
(*   TempFileGone         Spec => []TempFileRemoved                           *)
(*   PolicyAllowed        Spec => ResultsUnderAllowedPolicy                   *)
(* The main goroutine is sequential: each part of the invariant says what has *)
(* happened by the time a label is reached.  The parts are:                   *)
(*   Control   which command and caller are at a label, with which error;     *)
(*   Counted   how many requests a label comes after;                         *)
(*   Settings  how the memory, the file and the offline mode agree;           *)
(*   Silent    what local mode keeps from being asked for;                    *)
(*   Untold    what has been shown and recorded before that;                  *)
(*   Told      what has been shown and recorded when there is no error;       *)
(*   Kept      when the temporary file still has its removal registered.      *)
EXTENDS TestCommand, TLAPS

\* The labels in the order the wrapper reaches them.
Early      == {"args", "messages", "run", "mkTemp"}
Loading    == {"config", "offline", "mode", "token", "clientId"}
Evaluating == {"stdin", "copy", "filter", "evaluate", "send", "print", "save",
               "prompt", "finish"}
Testing    == {"prerun", "data"} \cup Evaluating
Publishing == {"file", "publish"}

\* Every label between the start and the return of RunE, but for the loading of the
\* configuration, which the error reporter does too.
Running == Early \cup Testing \cup Publishing

Control ==
    /\ pc \in Running => caller = "wrapper" /\ err = "none"
    /\ pc \in Loading => /\ caller = "wrapper" => err = "none"
                         /\ caller = "reporter" => err \in {"error", "panic"}
    /\ pc \in {"return", "main"} => caller = "wrapper"
    /\ pc = "report" => caller = "reporter" /\ err \in {"error", "panic"}
    /\ pc = "exited" <=> exit # 99
    /\ pc = "exited" => exit = (CASE err = "none" -> 0
                                  [] err \in {"violations", "crash"} -> 2
                                  [] OTHER -> 1)
    /\ err = "crash" => pc = "exited"
    /\ pc \in Testing => command # "publish"
    /\ pc \in Publishing => command = "publish"
    /\ err \in {"violations", "crash"} => command # "publish"
    /\ command = "publish" => flags = NoFlags
    /\ pc \in Evaluating => PolicyConfigAllowed

\* The labels the wrapper passes before it asks for e.
Before(e) ==
    CASE e = "token"   -> Early \cup {"config", "offline", "mode", "token"}
      [] e = "prerun"  -> Early \cup Loading \cup {"prerun"}
      [] e = "result"  -> Early \cup Loading
                             \cup {"prerun", "data", "stdin", "copy", "filter",
                                   "evaluate", "send"}
      [] e = "publish" -> Early \cup Loading \cup Publishing
      [] e = "report"  -> Labels \ {"exited"}

\* Each request is made once, but a token may be asked for again by the reporter.
Counted ==
    /\ \A e \in Endpoints \ {"report"} :
          pc \in Before(e) /\ caller = "wrapper" => requests[e] = 0
    /\ \A e \in Endpoints \ {"report", "token"} : requests[e] <= 1
    /\ requests["token"] <= 2
    /\ caller = "wrapper" \/ pc \in Before("token") => requests["token"] <= 1
    /\ requests["report"] = IF pc = "exited" /\ exit = 1 THEN 1 ELSE 0

\* Once the configuration is loaded, the memory holds the file; a mode is set only where
\* there is none.
Settings ==
    /\ pc \in (Loading \ {"config"}) \cup Testing \cup Publishing => disk = viper.read
    /\ pc = "mode" => Value.offline # ""
    /\ pc \in {"token", "clientId"} \cup Testing => offlineMode = Value.offline
    /\ viper.set.offline \in {"", "fail"}
    /\ viper.set.offline # "" => viper.env.offline = "" /\ disk.offline # "local"
    /\ tokens <= 1
    /\ tokens = 1 => viper.set.token

\* While the mode is local nothing is asked for, and a wrapper loses that mode only with
\* an error, so that only the reporter can ask then.
Silent ==
    /\ LocalBy(disk) => \A e \in {"token", "prerun", "result"} : requests[e] = 0
    /\ LocalBy(given) =>
          /\ caller = "wrapper" /\ pc \notin {"return", "main", "exited"} => LocalBy(disk)
          /\ requests["prerun"] = 0 /\ requests["result"] = 0
          /\ requests["token"] # 0 => caller = "reporter"

\* Nothing is printed or recorded before the results are sent, nor by a run that crashes.
Untold ==
    (pc \in Before("result") /\ caller = "wrapper") \/ err = "crash" =>
        ~outcome.printed /\ ~outcome.recorded

\* Without an error, the results were printed, and recorded unless that was not asked.
Told ==
    /\ pc \in {"print", "save", "prompt", "finish"} =>
          outcome.recorded \/ flags.noRecord \/ IsLocalMode
    /\ pc \in {"save", "prompt", "finish"} => outcome.printErr = ~outcome.printed
    /\ pc \in {"return", "main", "exited"} /\ command # "publish"
          /\ err \in {"none", "violations"} =>
             /\ outcome.printed
             /\ outcome.recorded \/ flags.noRecord \/ IsLocalMode
             /\ err = "violations" <=> outcome.violations
    /\ pc \in {"return", "main", "exited"} /\ command = "publish" /\ err = "none" =>
          outcome.published

\* A temporary file that is there will be removed, unless it is kept, or a call on it
\* failed, or there was no time.
Kept ==
    /\ temp.exists => \/ flags.saveRendered \/ temp.failed \/ temp.deferred
                      \/ err = "crash"
    /\ pc \in {"args", "main", "report", "exited"} \/ caller = "reporter" =>
          ~temp.deferred \/ err = "crash"

Inv == TypeOK /\ Control /\ Counted /\ Settings /\ Silent /\ Untold /\ Told /\ Kept

-----------------------------------------------------------------------------
(* The configuration in memory.                                              *)

Memory == [set : Config, env : Config, read : Config]

LEMMA MergedFields ==
    ASSUME NEW w
    PROVE  /\ Merged(w).token = (w.set.token \/ w.env.token \/ w.read.token)
           /\ Merged(w).offline = IF w.set.offline # "" THEN w.set.offline
                                  ELSE IF w.env.offline # "" THEN w.env.offline
                                  ELSE w.read.offline
  BY DEF Merged

LEMMA WrittenFields ==
    ASSUME NEW w
    PROVE  Written(w).offline = IF w.set.offline = "" /\ w.read.offline = "" THEN ""
                                ELSE Merged(w).offline
  BY DEF Written

LEMMA MergedTyped ==
    ASSUME NEW v \in Memory
    PROVE  Merged(v) \in Config /\ Written(v) \in Config
  <1>1. v.set \in Config /\ v.env \in Config /\ v.read \in Config
    BY DEF Memory
  <1>2. /\ (v.set.token \/ v.env.token \/ v.read.token) \in BOOLEAN
        /\ (v.set.clientId \/ v.env.clientId \/ v.read.clientId) \in BOOLEAN
        /\ (v.set.token \/ v.read.token) \in BOOLEAN
        /\ (v.set.clientId \/ v.read.clientId) \in BOOLEAN
    OBVIOUS
  <1>3. /\ v.set.offline \in {"", "fail", "local", "other"}
        /\ v.env.offline \in {"", "fail", "local", "other"}
        /\ v.read.offline \in {"", "fail", "local", "other"}
    BY <1>1 DEF Config
  <1>4. /\ Merged(v).offline \in {"", "fail", "local", "other"}
        /\ (IF v.set.offline = "" /\ v.read.offline = "" THEN "" ELSE Merged(v).offline)
              \in {"", "fail", "local", "other"}
    BY <1>3, MergedFields
  <1>5. Merged(v) \in Config
    BY <1>2, <1>4 DEF Merged, Config
  <1>6. Written(v) \in Config
    BY <1>2, <1>4 DEF Written, Config
  <1> QED  BY <1>5, <1>6

\* Writing the settings and reading them back changes no mode.
LEMMA MergedAgain ==
    ASSUME NEW v, NEW w, v.set = w.set, v.env = w.env, v.read = Written(w)
    PROVE  Merged(v).offline = Merged(w).offline
  BY MergedFields, WrittenFields

LEMMA NoConfigTyped == NoConfig \in Config
  BY DEF NoConfig, Config

\* The memory once a value is set, before the file is written.
With(key, value) == [viper EXCEPT !.set[key] = value]

\* What setting a value leaves in memory and in the file: what With merges, when written.
LEMMA SetViper ==
    ASSUME TypeOK, NEW key \in {"offline", "token", "clientId"}, NEW value, NEW next \in Labels,
           [viper.set EXCEPT ![key] = value] \in Config,
           SetViperVariable(key, value, next)
    PROVE  /\ With(key, value) \in Memory
           /\ With(key, value).set = [viper.set EXCEPT ![key] = value]
           /\ With(key, value).env = viper.env /\ With(key, value).read = viper.read
           /\ viper' \in Memory /\ disk' \in Config
           /\ viper'.set = With(key, value).set /\ viper'.env = viper.env
           /\ \/ /\ pc' = next /\ err' = err
                 /\ disk' = Written(With(key, value)) /\ viper'.read = disk'
                 /\ Merged(viper').offline = Merged(With(key, value)).offline
              \/ /\ ConfigError
                 /\ viper' = With(key, value)
                 /\ disk' \in {disk, NoConfig, Written(With(key, value))}
  <1>1. /\ With(key, value) \in Memory
        /\ With(key, value).set = [viper.set EXCEPT ![key] = value]
        /\ With(key, value).env = viper.env /\ With(key, value).read = viper.read
    BY DEF TypeOK, With, Memory
  <1>2. Written(With(key, value)) \in Config
    BY <1>1, MergedTyped
  <1>3. \/ /\ Goto(next)
           /\ disk' = Written(With(key, value))
           /\ viper' = [With(key, value) EXCEPT !.read = Written(With(key, value))]
        \/ /\ ConfigError
           /\ disk' \in {disk, NoConfig, Written(With(key, value))}
           /\ viper' = With(key, value)
    BY DEF SetViperVariable, With
  <1>4. CASE /\ Goto(next)
             /\ disk' = Written(With(key, value))
             /\ viper' = [With(key, value) EXCEPT !.read = Written(With(key, value))]
    <2>1. /\ viper' \in Memory /\ disk' \in Config
          /\ viper'.set = With(key, value).set /\ viper'.env = With(key, value).env
          /\ viper'.read = Written(With(key, value))
      BY <1>1, <1>2, <1>4 DEF Memory
    <2>2. Merged(viper').offline = Merged(With(key, value)).offline
      BY <2>1, MergedAgain
    <2> QED  BY <1>1, <1>4, <2>1, <2>2 DEF Goto
  <1>5. CASE /\ ConfigError
             /\ disk' \in {disk, NoConfig, Written(With(key, value))}
             /\ viper' = With(key, value)
    BY <1>1, <1>2, <1>5, NoConfigTyped DEF TypeOK
  <1> QED  BY <1>3, <1>4, <1>5

-----------------------------------------------------------------------------
(* Type correctness.                                                         *)

Outcomes == [violations : BOOLEAN, recorded : BOOLEAN, prompt : BOOLEAN,
             printed : BOOLEAN, printErr : BOOLEAN, published : BOOLEAN]
Temps == [exists : BOOLEAN, deferred : BOOLEAN, failed : BOOLEAN]

LEMMA OutcomeTyped ==
    ASSUME NEW o \in Outcomes, NEW b \in BOOLEAN, NEW c \in BOOLEAN
    PROVE  /\ [o EXCEPT !.violations = b] \in Outcomes
           /\ [o EXCEPT !.recorded = TRUE, !.prompt = b] \in Outcomes
           /\ [o EXCEPT !.printed = b, !.printErr = c] \in Outcomes
           /\ [o EXCEPT !.published = b] \in Outcomes
  BY DEF Outcomes

LEMMA TempTyped ==
    ASSUME NEW t \in Temps, NEW b \in BOOLEAN
    PROVE  /\ [t EXCEPT !.exists = TRUE, !.failed = TRUE] \in Temps
           /\ [t EXCEPT !.exists = TRUE, !.deferred = b] \in Temps
           /\ Removed(t) \subseteq Temps
  <1>1. \A ok \in BOOLEAN :
           [t EXCEPT !.deferred = FALSE, !.exists = ~ok, !.failed = ~ok] \in Temps
    BY DEF Temps
  <1>2. Removed(t) \subseteq Temps
    BY <1>1, Zenon DEF Removed
  <1> QED  BY <1>2 DEF Temps

\* Each request is made at a label it has not been made before.
LEMMA Countable ==
    ASSUME TypeOK, Counted, Control, NEW e \in Endpoints,
           \/ pc \in Before(e) /\ caller = "wrapper"
           \/ pc = "report" /\ e = "report"
           \/ pc = "token" /\ e = "token",
           Ask(e)
    PROVE  requests' \in [Endpoints -> 0..2]
  <1>1. requests[e] \in 0..1
    BY DEF TypeOK, Counted, Control, Endpoints, Before
  <1> QED  BY <1>1 DEF TypeOK, Ask

LEMMA SetTyped ==
    ASSUME TypeOK, NEW key \in {"offline", "token", "clientId"}, NEW value,
           IF key = "offline" THEN value = "fail" ELSE value = TRUE
    PROVE  [viper.set EXCEPT ![key] = value] \in Config
  BY DEF TypeOK, Config

LEMMA FlagsTyped == TypeOK => flags \in Flag
  <1>1. NoFlags \in Flag
    BY DEF NoFlags, Flag
  <1> QED  BY <1>1, FlagsAssumption DEF TypeOK

\* Where a value is set, what it leaves is typed.
LEMMA SetMoves ==
    ASSUME TypeOK, NEW key \in {"offline", "token", "clientId"}, NEW value, NEW next \in Labels,
           IF key = "offline" THEN value = "fail" ELSE value = TRUE,
           SetViperVariable(key, value, next)
    PROVE  /\ viper' \in Memory /\ disk' \in Config
           /\ pc' \in Labels /\ err' \in {"none", "error", "violations", "panic", "crash"}
  <1>1. err \in {"none", "error", "violations", "panic", "crash"}
    BY DEF TypeOK
  <1>2. [viper.set EXCEPT ![key] = value] \in Config
    BY SetTyped
  <1> QED  BY <1>1, <1>2, SetViper DEF ConfigError, Goto, Return, Labels

\* What the actions make of the outcome and of the temporary file.
LEMMA OutcomeMoves ==
    ASSUME outcome \in Outcomes,
           Evaluate \/ SendEvaluationResult \/ PrintResults \/ PublishPolicies
    PROVE  outcome' \in Outcomes
  <1>1. /\ TRUE \in BOOLEAN
        /\ \A ok \in BOOLEAN : (~ok) \in BOOLEAN
        /\ \A o : (o \in {"accepted", "answerLost"}) \in BOOLEAN
    OBVIOUS
  <1>2. CASE Evaluate
    BY <1>1, <1>2, OutcomeTyped, Zenon DEF Evaluate
  <1>3. CASE SendEvaluationResult
    BY <1>1, <1>3, OutcomeTyped, Zenon DEF SendEvaluationResult
  <1>4. CASE PrintResults
    BY <1>1, <1>4, OutcomeTyped, Zenon DEF PrintResults
  <1>5. CASE PublishPolicies
    BY <1>1, <1>5, OutcomeTyped, Zenon DEF PublishPolicies
  <1> QED  BY <1>2, <1>3, <1>4, <1>5

LEMMA TempMoves ==
    ASSUME temp \in Temps, flags.saveRendered \in BOOLEAN,
           CreateTempFile \/ StdinTempFile \/ RunDeferred
    PROVE  temp' \in Temps
  <1>1. (~flags.saveRendered) \in BOOLEAN
    OBVIOUS
  <1>2. CASE CreateTempFile
    BY <1>1, <1>2, TempTyped, Zenon DEF CreateTempFile
  <1>3. CASE StdinTempFile
    BY <1>1, <1>3, TempTyped, Zenon DEF StdinTempFile
  <1>4. CASE RunDeferred
    BY <1>1, <1>4, TempTyped, Zenon DEF RunDeferred
  <1> QED  BY <1>2, <1>3, <1>4

LEMMA TypeStep ==
    ASSUME Inv, [Next]_vars
    PROVE  TypeOK'
  <1> USE DEF Inv, TypeOK, Memory
  <1>1. CASE Args
    BY <1>1 DEF Args, Goto, Labels, cfg, io
  <1>2. CASE RangeMessages
    BY <1>2 DEF RangeMessages, Goto, Labels, cfg, io
  <1>3. CASE RunE
    BY <1>3 DEF RunE, Goto, Return, Labels, cfg, io
  <1>4. CASE CreateTempFile
    <2>1. temp' \in Temps
      BY <1>4, TempMoves, FlagsTyped DEF Temps, Flag
    <2> QED  BY <1>4, <2>1 DEF CreateTempFile, Goto, Return, Labels, cfg, Temps
  <1>5. CASE InitLocalConfigFile
    BY <1>5 DEF InitLocalConfigFile, ConfigError, Goto, Return, Labels, io
  <1>6. CASE DefaultOffline
    <2>1. UNCHANGED <<command, flags, given, offlineMode, caller, tokens, prerun, outcome,
                      temp, rulesSaved, requests, messager, exit>>
      BY <1>6 DEF DefaultOffline, io
    <2>2. viper' \in Memory /\ disk' \in Config
          /\ pc' \in Labels /\ err' \in {"none", "error", "violations", "panic", "crash"}
      <3>1. CASE Goto("mode") /\ UNCHANGED <<viper, disk>>
        BY <3>1 DEF Goto, Labels
      <3>2. CASE SetViperVariable("offline", "fail", "mode")
        BY <3>2, SetMoves DEF Labels
      <3> QED  BY <1>6, <3>1, <3>2 DEF DefaultOffline
    <2> QED  BY <2>1, <2>2
  <1>7. CASE SetOfflineMode
    <2>1. Merged(viper) \in Config
      BY MergedTyped
    <2>2. Value.offline \in {"fail", "local", "other"}
      BY <1>7, <2>1 DEF SetOfflineMode, At, Settings, Value, Config
    <2> QED  BY <1>7, <2>2 DEF SetOfflineMode, Goto, Labels, io
  <1>8. CASE CreateToken
    <2> USE <1>8
    <2>1. pc = "token" /\ UNCHANGED <<command, flags, given, offlineMode, caller, prerun,
                                      outcome, io, messager, exit>>
      BY DEF CreateToken, At
    <2>2. CASE /\ Goto("clientId") /\ UNCHANGED <<viper, disk, tokens, requests>>
      BY <2>1, <2>2 DEF Goto, Labels, io
    <2>3. ASSUME Ask("token")
          PROVE  requests' \in [Endpoints -> 0..2]
      BY <2>1, <2>3, Countable DEF Endpoints
    <2>4. CASE /\ Ask("token") /\ (ConfigError \/ Goto("clientId"))
               /\ UNCHANGED <<viper, disk, tokens>>
      BY <2>1, <2>3, <2>4 DEF Goto, Labels, io, ConfigError, Return
    <2>5. CASE /\ ~Value.token /\ Ask("token") /\ tokens' = tokens + 1
               /\ SetViperVariable("token", TRUE, "clientId")
      <3>1. ~viper.set.token
        BY <2>5, MergedFields, Zenon DEF Value
      <3>2. tokens # 1
        BY <3>1, Zenon DEF Settings
      <3>3. tokens = 0
        <4>1. tokens <= 1
          BY Zenon DEF Settings
        <4> QED  BY <3>2, <4>1
      <3>4. tokens' \in 0..2
        BY <2>5, <3>3
      <3>5. viper' \in Memory /\ disk' \in Config
            /\ pc' \in Labels /\ err' \in {"none", "error", "violations", "panic", "crash"}
        BY <2>5, SetMoves DEF Labels
      <3> QED  BY <2>1, <2>3, <2>5, <3>4, <3>5 DEF io
    <2> QED  BY <2>2, <2>4, <2>5 DEF CreateToken
  <1>9. CASE ClientId
    <2>1. ASSUME NEW next \in {"report", "file", "prerun"},
                 \/ Goto(next) /\ UNCHANGED <<viper, disk>>
                 \/ SetViperVariable("clientId", TRUE, next)
          PROVE  viper' \in Memory /\ disk' \in Config
                 /\ pc' \in Labels /\ err' \in {"none", "error", "violations", "panic", "crash"}
      <3>1. next \in Labels
        BY DEF Labels
      <3> QED  BY <2>1, <3>1, SetMoves, ZenonT(30) DEF Goto
    <2>2. viper' \in Memory /\ disk' \in Config
          /\ pc' \in Labels /\ err' \in {"none", "error", "violations", "panic", "crash"}
      BY <1>9, <2>1, Zenon DEF ClientId
    <2> QED  BY <1>9, <2>2 DEF ClientId, io
  <1>10. CASE RequestPrerunData
    <2>1. requests' \in [Endpoints -> 0..2]
      BY <1>10, Countable DEF RequestPrerunData, At, Endpoints, Before, Control, Running, Testing
    <2>2. prerun' \in [pac : BOOLEAN, rulesText : BOOLEAN]
      <3>1. \A pac, text \in BOOLEAN :
               [pac |-> pac, rulesText |-> text] \in [pac : BOOLEAN, rulesText : BOOLEAN]
        OBVIOUS
      <3>2. TRUE \in BOOLEAN /\ FALSE \in BOOLEAN
        OBVIOUS
      <3> QED  BY <1>10, <3>1, <3>2, Zenon DEF RequestPrerunData
    <2> QED  BY <1>10, <2>1, <2>2 DEF RequestPrerunData, Goto, Return, Labels, cfg, io
  <1>11. CASE GenerateData
    BY <1>11 DEF GenerateData, Goto, Return, Labels, cfg
  <1>12. CASE StdinTempFile
    <2>1. temp' \in Temps
      BY <1>12, TempMoves, FlagsTyped DEF Temps, Flag
    <2> QED  BY <1>12, <2>1 DEF StdinTempFile, Goto, Return, Labels, cfg, Temps
  <1>13. CASE CopyStdin \/ FilterFiles \/ ValidateFile \/ SaveResults \/ Prompt
    BY <1>13 DEF CopyStdin, FilterFiles, ValidateFile, SaveResults, Prompt,
                 Goto, Return, Labels, cfg, io
  <1>14. CASE Evaluate
    <2>1. outcome' \in Outcomes
      BY <1>14, OutcomeMoves DEF Outcomes
    <2> QED  BY <1>14, <2>1 DEF Evaluate, Goto, Return, Labels, cfg, io, Outcomes
  <1>15. CASE SendEvaluationResult
    <2>1. requests' \in [Endpoints -> 0..2]
      BY <1>15, Countable
         DEF SendEvaluationResult, At, Endpoints, Before, Control, Running, Testing, Evaluating
    <2>2. outcome' \in Outcomes
      BY <1>15, OutcomeMoves DEF Outcomes
    <2>3. pc' \in {"print", "return"} /\ err' \in {err, "error"}
      BY <1>15 DEF SendEvaluationResult, Goto, Return
    <2>4. UNCHANGED <<command, flags, given, cfg, prerun, io, messager, exit>>
      BY <1>15 DEF SendEvaluationResult
    <2> QED  BY <2>1, <2>2, <2>3, <2>4 DEF Labels, cfg, io, Outcomes
  <1>16. CASE PrintResults
    <2>1. outcome' \in Outcomes
      BY <1>16, OutcomeMoves DEF Outcomes
    <2> QED  BY <1>16, <2>1 DEF PrintResults, Goto, Labels, cfg, io, Outcomes
  <1>17. CASE Finish
    BY <1>17 DEF Finish, TestError, Return, Labels, cfg, io
  <1>18. CASE PublishPolicies
    <2>1. requests' \in [Endpoints -> 0..2]
      BY <1>18, Countable
         DEF PublishPolicies, At, Endpoints, Before, Control, Running, Publishing
    <2>2. outcome' \in Outcomes
      BY <1>18, OutcomeMoves DEF Outcomes
    <2>3. pc' = "return" /\ err' \in {"none", "error"}
      BY <1>18 DEF PublishPolicies, Return
    <2>4. UNCHANGED <<command, flags, given, cfg, prerun, io, messager, exit>>
      BY <1>18 DEF PublishPolicies
    <2> QED  BY <2>1, <2>2, <2>3, <2>4 DEF Labels, cfg, io, Outcomes
  <1>19. CASE RunDeferred
    <2>1. temp' \in Temps
      BY <1>19, TempMoves, FlagsTyped DEF Temps, Flag
    <2> QED  BY <1>19, <2>1 DEF RunDeferred, Goto, Labels, cfg, Temps
  <1>20. CASE Main
    BY <1>20 DEF Main, Goto, Labels, io
  <1>24. CASE GoroutinePanic
    BY <1>24 DEF GoroutinePanic, Labels, cfg, io
  <1>21. CASE Report
    <2>1. requests' \in [Endpoints -> 0..2]
      BY <1>21, Countable DEF Report, At, Endpoints
    <2> QED  BY <1>21, <2>1 DEF Report, Goto, Labels, cfg, io
  <1>22. CASE MessagerStep
    BY <1>22 DEF MessagerStep, MessagerAnswer, MessagerClose, cfg, io
  <1>23. CASE UNCHANGED vars
    BY <1>23 DEF vars, cfg, io
  <1> QED
    BY <1>1, <1>2, <1>3, <1>4, <1>5, <1>6, <1>7, <1>8, <1>9, <1>10, <1>11, <1>12, <1>13,
       <1>14, <1>15, <1>16, <1>17, <1>18, <1>19, <1>20, <1>21, <1>22, <1>23, <1>24
       DEF Next, MainStep

-----------------------------------------------------------------------------
(* Control: which command and caller are at a label, with which error.       *)

LEMMA NoFlagsPlain == ~NoFlags.policyConfig /\ ~NoFlags.formatted
  BY DEF NoFlags

\* What setting a value does to the control, whatever is written.
LEMMA SetGoes ==
    ASSUME NEW key, NEW value, NEW next, SetViperVariable(key, value, next)
    PROVE  (pc' = next /\ err' = err) \/ ConfigError
  BY DEF SetViperVariable, Goto

LEMMA ControlStep ==
    ASSUME Inv, [Next]_vars
    PROVE  Control'
  <1>0. TypeOK /\ Control
    BY DEF Inv
  <1> USE <1>0 DEF At, Goto, Return, cfg, io
  <1>1. CASE Args
    BY <1>1 DEF Args, TypeOK, Control, Running, Early, Loading, Testing, Evaluating, Publishing
  <1>2. CASE RangeMessages
    BY <1>2 DEF RangeMessages, Control, Running, Early, Loading, Testing, Evaluating, Publishing
  <1>3. CASE RunE \/ CreateTempFile
    BY <1>3 DEF RunE, CreateTempFile, Control, Running, Early, Loading, Testing, Evaluating,
                Publishing
  <1>4. ASSUME NEW next \in {"offline", "mode", "token", "clientId"},
               pc \in Loading, (pc' = next /\ err' = err) \/ ConfigError,
               UNCHANGED <<command, flags, caller, exit>>
        PROVE  Control'
    BY <1>4 DEF ConfigError, TypeOK, Control, Running, Early, Loading, Testing, Evaluating,
                Publishing
  <1>5. CASE InitLocalConfigFile
    BY <1>4, <1>5 DEF InitLocalConfigFile, Loading
  <1>6. CASE DefaultOffline
    BY <1>4, <1>6, SetGoes DEF DefaultOffline, Loading
  <1>7. CASE SetOfflineMode
    BY <1>4, <1>7 DEF SetOfflineMode, Loading
  <1>8. CASE CreateToken
    BY <1>4, <1>8, SetGoes DEF CreateToken, Loading
  <1>9. CASE ClientId
    <2> DEFINE next == IF caller = "reporter" THEN "report"
                       ELSE IF command = "publish" THEN "file"
                       ELSE "prerun"
    <2>1. /\ pc = "clientId" /\ UNCHANGED <<command, flags, caller, exit>>
          /\ (pc' = next /\ err' = err) \/ ConfigError
      BY <1>9, SetGoes DEF ClientId
    <2>2. /\ caller = "reporter" => next = "report"
          /\ caller = "wrapper" => next = IF command = "publish" THEN "file" ELSE "prerun"
      BY <2>1
    <2> HIDE DEF next
    <2>3. CASE caller = "reporter"
      BY <2>1, <2>2, <2>3 DEF ConfigError, TypeOK, Control, Running, Early, Loading, Testing,
                              Evaluating, Publishing
    <2>4. CASE caller = "wrapper"
      BY <2>1, <2>2, <2>4 DEF ConfigError, TypeOK, Control, Running, Early, Loading, Testing,
                              Evaluating, Publishing
    <2> QED  BY <2>3, <2>4 DEF TypeOK
  <1>10. CASE RequestPrerunData
    BY <1>10 DEF RequestPrerunData, Control, Running, Early, Loading, Testing, Evaluating,
                 Publishing
  <1>11. CASE GenerateData
    BY <1>11 DEF GenerateData, Control, Running, Early, Loading, Testing, Evaluating, Publishing,
                 PolicyConfigAllowed, IsLocalMode
  <1>12. CASE \/ StdinTempFile \/ CopyStdin \/ FilterFiles \/ Evaluate \/ SendEvaluationResult
              \/ PrintResults \/ SaveResults \/ Prompt
    <2>1. pc \in Evaluating /\ pc' \in Evaluating \cup {"return"}
      BY <1>12 DEF StdinTempFile, CopyStdin, FilterFiles, Evaluate, SendEvaluationResult,
                   PrintResults, SaveResults, Prompt, Evaluating
    <2>2. IF pc' = "return" THEN err' \in {"error", "panic"} ELSE err' = err
      BY <1>12 DEF StdinTempFile, CopyStdin, FilterFiles, Evaluate, SendEvaluationResult,
                   PrintResults, SaveResults, Prompt
    <2>3. UNCHANGED <<command, flags, caller, exit, offlineMode, prerun>>
      BY <1>12 DEF StdinTempFile, CopyStdin, FilterFiles, Evaluate, SendEvaluationResult,
                   PrintResults, SaveResults, Prompt
    <2> QED  BY <2>1, <2>2, <2>3 DEF Control, Running, Early, Loading, Testing, Evaluating,
                                     Publishing, PolicyConfigAllowed, IsLocalMode
  <1>13. CASE Finish
    BY <1>13 DEF Finish, TestError, Control, Running, Early, Loading, Testing, Evaluating,
                 Publishing
  <1>14. CASE ValidateFile \/ PublishPolicies
    BY <1>14 DEF ValidateFile, PublishPolicies, Control, Running, Early, Loading, Testing,
                 Evaluating, Publishing
  <1>15. CASE RunDeferred
    BY <1>15 DEF RunDeferred, Control, Running, Early, Loading, Testing, Evaluating, Publishing
  <1>16. CASE Main
    BY <1>16 DEF Main, Control, Running, Early, Loading, Testing, Evaluating, Publishing
  <1>17. CASE Report
    BY <1>17 DEF Report, Control, Running, Early, Loading, Testing, Evaluating, Publishing
  <1>18. CASE MessagerStep
    BY <1>18 DEF MessagerStep, MessagerAnswer, MessagerClose, Control, PolicyConfigAllowed,
                 IsLocalMode
  <1>20. CASE GoroutinePanic
    BY <1>20 DEF GoroutinePanic, Control, Running, Early, Loading, Testing, Evaluating,
                 Publishing
  <1>19. CASE UNCHANGED vars
    BY <1>19 DEF vars, Control, PolicyConfigAllowed, IsLocalMode
  <1> QED
    BY <1>1, <1>2, <1>3, <1>5, <1>6, <1>7, <1>8, <1>9, <1>10, <1>11, <1>12, <1>13, <1>14,
       <1>15, <1>16, <1>17, <1>18, <1>19, <1>20 DEF Next, MainStep

-----------------------------------------------------------------------------
(* Requests: how many a label comes after.                                   *)

\* A step that asks for nothing and goes to no label before a request it is after.
LEMMA NothingAsked ==
    ASSUME Counted, UNCHANGED <<requests, exit>>,
           caller' = "wrapper" => caller = "wrapper",
           \A e \in Endpoints \ {"report"} :
              pc' \in Before(e) /\ caller' = "wrapper" => pc \in Before(e),
           caller' = "wrapper" \/ pc' \in Before("token")
              => caller = "wrapper" \/ pc \in Before("token"),
           pc' # "exited", pc # "exited"
    PROVE  Counted'
  BY DEF Counted, Before

LEMMA CountedStep ==
    ASSUME Inv, [Next]_vars
    PROVE  Counted'
  <1>0. TypeOK /\ Control /\ Counted
    BY DEF Inv
  <1> USE <1>0 DEF At, Goto, Return, cfg, io
  <1>1. CASE Args \/ RangeMessages \/ RunE \/ CreateTempFile
    <2>1. /\ pc \in Early /\ pc' \in Early \cup {"config", "return", "main"}
          /\ UNCHANGED <<requests, exit, caller>>
      BY <1>1 DEF Args, RangeMessages, RunE, CreateTempFile, Early
    <2> QED  BY <2>1, NothingAsked DEF Before, Early, Endpoints
  <1>2. CASE InitLocalConfigFile \/ DefaultOffline \/ SetOfflineMode
    <2>1. /\ pc \in {"config", "offline", "mode"}
          /\ pc' \in {"offline", "mode", "token"} \/ ConfigError
          /\ UNCHANGED <<requests, exit, caller>>
      BY <1>2, SetGoes DEF InitLocalConfigFile, DefaultOffline, SetOfflineMode
    <2> QED  BY <2>1, NothingAsked DEF ConfigError, TypeOK, Before, Early, Loading, Endpoints
  <1>3. CASE CreateToken
    <2>1. /\ pc = "token" /\ UNCHANGED <<exit, caller>>
          /\ pc' = "clientId" \/ ConfigError
      BY <1>3, SetGoes DEF CreateToken
    <2>2. pc' \in {"clientId", "return", "report"}
          /\ (pc' = "report" => caller = "reporter") /\ pc \notin {"exited"}
      BY <2>1 DEF ConfigError, TypeOK
    <2>3. CASE UNCHANGED requests
      BY <2>1, <2>2, <2>3, NothingAsked DEF Before, Early, Loading, Endpoints
    <2>4. CASE Ask("token")
      <3>1. /\ requests'["token"] = requests["token"] + 1
            /\ \A e \in Endpoints \ {"token"} : requests'[e] = requests[e]
        BY <2>4 DEF Ask, TypeOK, Endpoints
      <3>2. requests["token"] <= 1 /\ (caller = "wrapper" => requests["token"] = 0)
        BY <2>1 DEF Counted, Before, Endpoints
      <3> QED  BY <2>1, <2>2, <3>1, <3>2 DEF TypeOK, Counted, Before, Early, Loading, Endpoints
    <2> QED  BY <1>3, <2>3, <2>4 DEF CreateToken
  <1>4. CASE ClientId
    <2>1. /\ pc = "clientId" /\ UNCHANGED <<exit, caller, requests>>
          /\ pc' \in {"report", "file", "prerun"} \/ ConfigError
          /\ command # "publish" => pc' # "file"
      BY <1>4, SetGoes DEF ClientId, ConfigError
    <2> QED  BY <2>1, NothingAsked
                DEF ConfigError, TypeOK, Before, Early, Loading, Publishing, Endpoints
  <1>5. CASE RequestPrerunData
    <2>1. pc = "prerun" /\ pc' \in {"data", "return"} /\ UNCHANGED <<exit, caller>>
      BY <1>5 DEF RequestPrerunData
    <2>2. CASE UNCHANGED requests
      BY <2>1, <2>2, NothingAsked DEF Before, Early, Loading, Publishing, Endpoints
    <2>3. CASE Ask("prerun")
      <3>1. /\ requests'["prerun"] = requests["prerun"] + 1
            /\ \A e \in Endpoints \ {"prerun"} : requests'[e] = requests[e]
        BY <2>3 DEF Ask, TypeOK, Endpoints
      <3>2. requests["prerun"] = 0 /\ caller = "wrapper"
        BY <2>1 DEF Control, Counted, Before, Endpoints, Running, Testing
      <3> QED  BY <2>1, <3>1, <3>2
                  DEF TypeOK, Counted, Before, Early, Loading, Publishing, Endpoints
    <2> QED  BY <1>5, <2>2, <2>3 DEF RequestPrerunData
  <1>6. CASE SendEvaluationResult
    <2>1. pc = "send" /\ pc' \in {"print", "return"} /\ UNCHANGED <<exit, caller>>
      BY <1>6 DEF SendEvaluationResult
    <2>2. CASE UNCHANGED requests
      BY <2>1, <2>2, NothingAsked DEF Before, Early, Loading, Publishing, Endpoints
    <2>3. CASE Ask("result")
      <3>1. /\ requests'["result"] = requests["result"] + 1
            /\ \A e \in Endpoints \ {"result"} : requests'[e] = requests[e]
        BY <2>3 DEF Ask, TypeOK, Endpoints
      <3>2. requests["result"] = 0 /\ caller = "wrapper"
        BY <2>1 DEF Control, Counted, Before, Endpoints, Running, Testing, Evaluating
      <3> QED  BY <2>1, <3>1, <3>2
                  DEF TypeOK, Counted, Before, Early, Loading, Publishing, Endpoints
    <2> QED  BY <1>6, <2>2, <2>3 DEF SendEvaluationResult
  <1>7. CASE PublishPolicies
    <2>1. pc = "publish" /\ pc' = "return" /\ UNCHANGED <<exit, caller>> /\ Ask("publish")
      BY <1>7 DEF PublishPolicies
    <2>2. /\ requests'["publish"] = requests["publish"] + 1
          /\ \A e \in Endpoints \ {"publish"} : requests'[e] = requests[e]
      BY <2>1 DEF Ask, TypeOK, Endpoints
    <2>3. requests["publish"] = 0 /\ caller = "wrapper"
      BY <2>1 DEF Control, Counted, Before, Endpoints, Running, Publishing
    <2> QED  BY <2>1, <2>2, <2>3
                DEF TypeOK, Counted, Before, Early, Loading, Publishing, Endpoints
  <1>8. CASE \/ GenerateData \/ StdinTempFile \/ CopyStdin \/ FilterFiles \/ Evaluate
             \/ PrintResults \/ SaveResults \/ Prompt \/ Finish
    <2>1. UNCHANGED <<requests, exit, caller>>
      BY <1>8 DEF GenerateData, StdinTempFile, CopyStdin, FilterFiles, Evaluate,
                  PrintResults, SaveResults, Prompt, Finish
    <2>2. \/ pc = "data" /\ pc' \in {"stdin", "filter", "return"}
          \/ pc = "stdin" /\ pc' \in {"copy", "return"}
          \/ pc = "copy" /\ pc' \in {"filter", "return"}
          \/ pc = "filter" /\ pc' \in {"evaluate", "return"}
          \/ pc = "evaluate" /\ pc' \in {"print", "send", "return"}
          \/ /\ pc \in {"print", "save", "prompt", "finish"}
             /\ pc' \in {"save", "prompt", "finish", "return"}
      BY <1>8 DEF GenerateData, StdinTempFile, CopyStdin, FilterFiles, Evaluate,
                  PrintResults, SaveResults, Prompt, Finish
    <2> QED  BY <2>1, <2>2, NothingAsked DEF Before, Early, Loading, Publishing, Endpoints
  <1>9. CASE ValidateFile \/ RunDeferred
    <2>1. /\ UNCHANGED <<requests, exit, caller>>
          /\ \/ pc = "file" /\ pc' \in {"publish", "return"}
             \/ pc = "return" /\ pc' = "main"
      BY <1>9 DEF ValidateFile, RunDeferred
    <2> QED  BY <2>1, NothingAsked DEF Before, Early, Loading, Publishing, Endpoints
  <1>10. CASE Main
    <2>1. pc = "main" /\ UNCHANGED requests /\ caller = "wrapper" /\ requests["report"] = 0
      BY <1>10 DEF Main, Control, Counted
    <2>2. \/ pc' = "exited" /\ exit' \in {0, 2} /\ caller' = caller
          \/ pc' = "config" /\ caller' = "reporter" /\ exit' = exit
      BY <1>10 DEF Main
    <2> QED  BY <2>1, <2>2 DEF TypeOK, Counted, Before, Early, Loading, Publishing, Endpoints
  <1>11. CASE Report
    <2>1. /\ pc = "report" /\ pc' = "exited" /\ exit' = 1 /\ caller = "reporter"
          /\ caller' = caller /\ Ask("report")
      BY <1>11 DEF Report, Control
    <2>2. /\ requests'["report"] = requests["report"] + 1
          /\ \A e \in Endpoints \ {"report"} : requests'[e] = requests[e]
      BY <2>1 DEF Ask, TypeOK, Endpoints
    <2> QED  BY <2>1, <2>2 DEF TypeOK, Counted, Before, Early, Loading, Publishing, Endpoints
  <1>12. CASE MessagerStep \/ UNCHANGED vars
    <2>1. UNCHANGED <<requests, exit, caller, pc>>
      BY <1>12 DEF MessagerStep, MessagerAnswer, MessagerClose, vars
    <2> QED  BY <2>1 DEF Counted, Before
  <1>13. CASE GoroutinePanic
    <2>1. /\ pc = "evaluate" /\ UNCHANGED <<requests, caller>>
          /\ pc' = "exited" /\ exit' = 2
      BY <1>13 DEF GoroutinePanic
    <2> QED  BY <2>1 DEF TypeOK, Counted, Before, Early, Loading, Publishing, Endpoints
  <1> QED
    BY <1>1, <1>2, <1>3, <1>4, <1>5, <1>6, <1>7, <1>8, <1>9, <1>10, <1>11, <1>12, <1>13
       DEF Next, MainStep

-----------------------------------------------------------------------------
(* The configuration: memory, file and offline mode agree.                   *)

\* Setting a value changes no mode but an empty one, and never makes or, unless it fails,
\* ends the local one.
LEMMA SetKeepsOffline ==
    ASSUME TypeOK, Settings, NEW key \in {"offline", "token", "clientId"}, NEW value,
           NEW next \in Labels, IF key = "offline" THEN value = "fail" ELSE value = TRUE,
           pc \in {"offline", "token", "clientId"}, key = "offline" => Value.offline = "",
           SetViperVariable(key, value, next)
    PROVE  /\ key # "offline" => /\ viper'.set.offline = viper.set.offline
                                 /\ viper'.set[key] = TRUE
                                 /\ Value'.offline = Value.offline
           /\ key # "token" => viper'.set.token = viper.set.token
           /\ viper'.env = viper.env
           /\ viper'.set.offline \in {"", "fail"}
           /\ viper'.set.offline # "" => viper.env.offline = "" /\ disk'.offline # "local"
           /\ \/ /\ pc' = next /\ disk' = viper'.read
                 /\ key = "offline" => Value'.offline # ""
                 /\ LocalBy(disk) => LocalBy(disk)'
              \/ ConfigError
           /\ LocalBy(disk)' => LocalBy(disk)
  <1>1. [viper.set EXCEPT ![key] = value] \in Config
    BY SetTyped
  <1> DEFINE new == With(key, value)
  <1>2. /\ new.set = [viper.set EXCEPT ![key] = value] /\ new.read = viper.read
        /\ new.env = viper.env /\ viper'.set = new.set /\ viper'.env = viper.env
        /\ \/ /\ pc' = next /\ disk' = Written(new) /\ viper'.read = disk'
              /\ Merged(viper').offline = Merged(new).offline
           \/ ConfigError /\ viper' = new /\ disk' \in {disk, NoConfig, Written(new)}
    BY <1>1, SetViper, Zenon
  <1> HIDE DEF new
  <1>3. /\ disk = viper.read /\ viper.set \in Config /\ viper.set.offline \in {"", "fail"}
        /\ viper.set.offline # "" => viper.env.offline = "" /\ disk.offline # "local"
    BY DEF Settings, Loading, TypeOK
  <1>4. /\ key # "offline" => new.set.offline = viper.set.offline /\ new.set[key] = TRUE
        /\ key = "offline" => new.set.offline = "fail"
        /\ key # "token" => new.set.token = viper.set.token
    BY <1>2, <1>3 DEF Config
  <1>5. /\ Merged(new).offline = IF new.set.offline # "" THEN new.set.offline
                                 ELSE IF viper.env.offline # "" THEN viper.env.offline
                                 ELSE viper.read.offline
        /\ Merged(viper).offline = IF viper.set.offline # "" THEN viper.set.offline
                                   ELSE IF viper.env.offline # "" THEN viper.env.offline
                                   ELSE viper.read.offline
        /\ Written(new).offline = IF new.set.offline = "" /\ viper.read.offline = "" THEN ""
                                  ELSE Merged(new).offline
    <2>1. Merged(viper).offline = IF viper.set.offline # "" THEN viper.set.offline
                                  ELSE IF viper.env.offline # "" THEN viper.env.offline
                                  ELSE viper.read.offline
      BY MergedFields
    <2>2. Merged(new).offline = IF new.set.offline # "" THEN new.set.offline
                                ELSE IF new.env.offline # "" THEN new.env.offline
                                ELSE new.read.offline
      BY MergedFields
    <2>3. Written(new).offline = IF new.set.offline = "" /\ new.read.offline = "" THEN ""
                                 ELSE Merged(new).offline
      BY WrittenFields
    <2> QED  BY <1>2, <2>1, <2>2, <2>3
  <1>6. key = "offline" => viper.env.offline = "" /\ disk.offline = ""
    BY <1>3, <1>5 DEF Value
  <1>7. /\ key # "offline" => Merged(new).offline = Merged(viper).offline
        /\ key = "offline" => Merged(new).offline = "fail"
    BY <1>4, <1>5
  <1>8. NoConfig.offline = ""
    BY DEF NoConfig
  <1>9. /\ new.set.offline \in {"", "fail"}
        /\ new.set.offline # "" => viper.env.offline = "" /\ disk'.offline # "local"
    BY <1>2, <1>3, <1>4, <1>5, <1>6, <1>8
  <1>10. viper.env.offline = "" =>
            /\ Written(new).offline = "local" => disk.offline = "local"
            /\ disk.offline = "local" => Written(new).offline = "local"
    BY <1>3, <1>4, <1>5, <1>6
  <1>11. LocalBy(disk)' => LocalBy(disk)
    BY <1>2, <1>8, <1>10 DEF LocalBy
  <1>12. disk' = Written(new) => (LocalBy(disk) => LocalBy(disk)')
    BY <1>2, <1>10 DEF LocalBy
  <1>13. key # "offline" => Value'.offline = Value.offline
    BY <1>2, <1>7 DEF Value
  <1> QED  BY <1>2, <1>4, <1>7, <1>9, <1>11, <1>12, <1>13 DEF Value

\* A step that changes no setting, and goes to no label where more has to agree.
LEMMA SettingsKept ==
    ASSUME Settings, UNCHANGED <<disk, viper, offlineMode, tokens>>,
           pc' \in (Loading \ {"config"}) \cup Testing \cup Publishing
              => pc \in (Loading \ {"config"}) \cup Testing \cup Publishing,
           pc' = "mode" => pc = "mode",
           pc' \in {"token", "clientId"} \cup Testing => pc \in {"token", "clientId"} \cup Testing
    PROVE  Settings'
  <1>1. Value' = Value
    BY DEF Value, Merged
  <1> QED  BY <1>1 DEF Settings

LEMMA ConfigErrorGoes == ConfigError => pc' \in {"return", "report"}
  BY DEF ConfigError, Return, Goto

LEMMA SettingsStep ==
    ASSUME Inv, [Next]_vars
    PROVE  Settings'
  <1>0. TypeOK /\ Control /\ Settings
    BY DEF Inv
  <1> USE <1>0 DEF At, Goto, Return, cfg, io
  <1>1. CASE Args \/ RangeMessages \/ RunE \/ CreateTempFile
    <2>1. /\ pc' \in Early \cup {"config", "return", "main"}
          /\ UNCHANGED <<disk, viper, offlineMode, tokens>>
      BY <1>1 DEF Args, RangeMessages, RunE, CreateTempFile, Early
    <2> QED  BY <2>1, SettingsKept DEF Early, Loading, Testing, Evaluating, Publishing
  <1>2. CASE InitLocalConfigFile
    <2>1. UNCHANGED <<disk, offlineMode, tokens>>
      BY <1>2 DEF InitLocalConfigFile
    <2>2. CASE ConfigError /\ UNCHANGED viper
      <3>1. pc' \in {"return", "report"}
        BY <2>2 DEF ConfigError
      <3> QED  BY <2>1, <2>2, <3>1, SettingsKept DEF Loading, Testing, Evaluating, Publishing
    <2>3. CASE Goto("offline") /\ viper' = [viper EXCEPT !.read = disk]
      <3>1. /\ pc' = "offline" /\ viper'.read = disk /\ viper'.set = viper.set
            /\ viper'.env = viper.env
        BY <2>3 DEF TypeOK
      <3> QED  BY <2>1, <3>1 DEF Settings, Testing, Evaluating
    <2> QED  BY <1>2, <2>2, <2>3 DEF InitLocalConfigFile
  <1>3. CASE DefaultOffline
    <2>1. pc = "offline" /\ UNCHANGED <<offlineMode, tokens>>
      BY <1>3 DEF DefaultOffline
    <2>2. disk = viper.read
      BY <2>1 DEF Settings, Loading
    <2>3. CASE Value.offline # "" /\ Goto("mode") /\ UNCHANGED <<viper, disk>>
      <3>1. Value' = Value
        BY <2>3 DEF Value, Merged
      <3> QED  BY <2>1, <2>2, <2>3, <3>1 DEF Settings, Testing, Evaluating
    <2>4. CASE Value.offline = "" /\ SetViperVariable("offline", "fail", "mode")
      <3>1. /\ viper'.set.token = viper.set.token /\ viper'.env = viper.env
            /\ viper'.set.offline \in {"", "fail"}
            /\ viper'.set.offline # "" => viper.env.offline = "" /\ disk'.offline # "local"
            /\ \/ pc' = "mode" /\ disk' = viper'.read /\ Value'.offline # ""
               \/ ConfigError
        BY <2>1, <2>4, SetKeepsOffline DEF Labels
      <3>2. pc' \in {"return", "report"} \/ (pc' = "mode" /\ disk' = viper'.read
                                               /\ Value'.offline # "")
        BY <3>1, ConfigErrorGoes
      <3> QED  BY <2>1, <3>1, <3>2 DEF Settings, Loading, Testing, Evaluating, Publishing
    <2> QED  BY <1>3, <2>3, <2>4 DEF DefaultOffline
  <1>4. CASE SetOfflineMode
    <2>1. /\ pc = "mode" /\ pc' = "token" /\ offlineMode' = Value.offline
          /\ UNCHANGED <<disk, viper, tokens>>
      BY <1>4 DEF SetOfflineMode
    <2>2. Value' = Value
      BY <2>1 DEF Value, Merged
    <2> QED  BY <2>1, <2>2 DEF Settings, Loading, Testing, Evaluating, Publishing
  <1>5. ASSUME pc \in {"token", "clientId"}, NEW key \in {"token", "clientId"},
               NEW next \in {"clientId", "report", "file", "prerun"},
               SetViperVariable(key, TRUE, next), offlineMode' = offlineMode,
               \/ tokens' = tokens
               \/ key = "token" /\ tokens' = 1
        PROVE  Settings'
    <2>1. /\ viper'.set.offline = viper.set.offline /\ viper'.set[key] = TRUE
          /\ key # "token" => viper'.set.token = viper.set.token
          /\ Value'.offline = Value.offline /\ viper'.env = viper.env
          /\ viper'.set.offline \in {"", "fail"}
          /\ viper'.set.offline # "" => viper.env.offline = "" /\ disk'.offline # "local"
          /\ \/ pc' = next /\ disk' = viper'.read
             \/ ConfigError
      <3>1. /\ key \in {"offline", "token", "clientId"} /\ key # "offline"
            /\ pc \in {"offline", "token", "clientId"} /\ next \in Labels
        BY <1>5 DEF Labels
      <3> QED  BY <1>5, <3>1, SetKeepsOffline, ZenonT(30)
    <2>2. \/ pc' \in {"return", "report"}
          \/ pc' \in {"clientId", "file", "prerun"} /\ disk' = viper'.read
      BY <2>1, ConfigErrorGoes
    <2>3. offlineMode = Value.offline
      BY <1>5 DEF Settings
    <2>4. tokens' <= 1 /\ (tokens' = 1 => viper'.set.token)
      <3>1. tokens <= 1 /\ (tokens = 1 => viper.set.token)
        BY DEF Settings
      <3>2. CASE key = "token"
        <4>1. viper'.set.token = TRUE
          BY <2>1, <3>2
        <4> QED  BY <1>5, <3>1, <4>1
      <3>3. CASE key # "token"
        BY <1>5, <2>1, <3>1, <3>3
      <3> QED  BY <3>2, <3>3
    <2>5. /\ pc' \in (Loading \ {"config"}) \cup Testing \cup Publishing => disk' = viper'.read
          /\ pc' # "mode"
          /\ offlineMode' = Value'.offline
      BY <1>5, <2>1, <2>2, <2>3 DEF Loading, Testing, Evaluating, Publishing
    <2> QED  BY <2>1, <2>4, <2>5, Zenon DEF Settings
  <1>6. CASE CreateToken
    <2>1. pc = "token" /\ offlineMode' = offlineMode
      BY <1>6 DEF CreateToken
    <2>2. CASE /\ ConfigError \/ Goto("clientId")
               /\ UNCHANGED <<viper, disk, tokens>>
      <3>1. pc' \in {"return", "report", "clientId"}
        BY <2>2 DEF ConfigError
      <3> QED  BY <2>1, <2>2, <3>1, SettingsKept DEF Loading, Testing, Evaluating, Publishing
    <2>3. CASE /\ ~Value.token /\ tokens' = tokens + 1
               /\ SetViperVariable("token", TRUE, "clientId")
      <3>1. ~viper.set.token
        BY <2>3, MergedFields, Zenon DEF Value
      <3>2. tokens # 1 /\ tokens <= 1
        BY <3>1, Zenon DEF Settings
      <3>3. tokens' = 1
        BY <2>3, <3>2 DEF TypeOK
      <3> QED  BY <1>5, <2>1, <2>3, <3>3
    <2> QED  BY <1>6, <2>2, <2>3 DEF CreateToken
  <1>7. CASE ClientId
    <2>1. pc = "clientId" /\ UNCHANGED <<offlineMode, tokens>>
      BY <1>7 DEF ClientId
    <2>2. ASSUME NEW next \in {"report", "file", "prerun"},
                 Goto(next) /\ UNCHANGED <<viper, disk>>
          PROVE  Settings'
      BY <2>1, <2>2, SettingsKept DEF Loading, Testing, Evaluating, Publishing
    <2>3. ASSUME NEW next \in {"report", "file", "prerun"},
                 SetViperVariable("clientId", TRUE, next)
          PROVE  Settings'
      BY <1>5, <2>1, <2>3
    <2>4. \E next \in {"report", "file", "prerun"} :
             \/ Goto(next) /\ UNCHANGED <<viper, disk>>
             \/ SetViperVariable("clientId", TRUE, next)
      BY <1>7, Zenon DEF ClientId
    <2> QED  BY <2>2, <2>3, <2>4
  <1>8. CASE \/ RequestPrerunData \/ GenerateData \/ StdinTempFile \/ CopyStdin \/ FilterFiles
             \/ Evaluate \/ SendEvaluationResult \/ PrintResults \/ SaveResults \/ Prompt
             \/ Finish
    <2>1. UNCHANGED <<disk, viper, offlineMode, tokens>>
      BY <1>8 DEF RequestPrerunData, GenerateData, StdinTempFile, CopyStdin, FilterFiles,
                  Evaluate, SendEvaluationResult, PrintResults, SaveResults, Prompt, Finish
    <2>2. pc \in Testing /\ pc' \in Testing \cup {"return"}
      BY <1>8 DEF RequestPrerunData, GenerateData, StdinTempFile, CopyStdin, FilterFiles,
                  Evaluate, SendEvaluationResult, PrintResults, SaveResults, Prompt, Finish,
                  Testing, Evaluating
    <2> QED  BY <2>1, <2>2, SettingsKept DEF Loading, Testing, Evaluating, Publishing
  <1>9. CASE ValidateFile \/ PublishPolicies \/ RunDeferred \/ Main \/ Report \/ GoroutinePanic
    <2>1. UNCHANGED <<disk, viper, offlineMode, tokens>>
      BY <1>9 DEF ValidateFile, PublishPolicies, RunDeferred, Main, Report, GoroutinePanic
    <2>2. \/ pc = "file" /\ pc' \in {"publish", "return"}
          \/ pc' \in {"return", "main", "exited", "config"}
      BY <1>9 DEF ValidateFile, PublishPolicies, RunDeferred, Main, Report, GoroutinePanic
    <2> QED  BY <2>1, <2>2, SettingsKept DEF Loading, Testing, Evaluating, Publishing
  <1>10. CASE MessagerStep \/ UNCHANGED vars
    <2>1. UNCHANGED <<disk, viper, offlineMode, tokens, pc>>
      BY <1>10 DEF MessagerStep, MessagerAnswer, MessagerClose, vars
    <2> QED  BY <2>1, SettingsKept
  <1> QED
    BY <1>1, <1>2, <1>3, <1>4, <1>6, <1>7, <1>8, <1>9, <1>10 DEF Next, MainStep

-----------------------------------------------------------------------------
(* Local mode: what it keeps from being asked for.                           *)

\* Where something is asked for that local mode forbids, the mode is not local.
LEMMA AskingIsNotLocal ==
    ASSUME TypeOK, Settings, ~IsLocalMode, pc \in {"token", "clientId"} \cup Testing
    PROVE  ~LocalBy(disk)
  <1>1. offlineMode = Value.offline /\ disk = viper.read
    BY DEF Settings, Loading, Testing, Evaluating
  <1>2. viper.set.offline # "" => viper.env.offline = "" /\ disk.offline # "local"
    BY DEF Settings
  <1> QED  BY <1>1, <1>2, MergedFields DEF IsLocalMode, LocalBy, Value

\* A step that asks for none of it, and after which a wrapper that goes on has the mode
\* it had.
LEMMA NoneAsked ==
    ASSUME Silent, viper'.env = viper.env, given' = given, LocalBy(disk)' => LocalBy(disk),
           \A e \in {"token", "prerun", "result"} : requests'[e] = requests[e],
           caller' = "wrapper" /\ pc' \notin {"return", "main", "exited"} =>
              /\ caller = "wrapper" /\ pc \notin {"return", "main", "exited"}
              /\ LocalBy(disk) => LocalBy(disk)',
           caller = "reporter" => caller' = "reporter"
    PROVE  Silent'
  <1>1. LocalBy(given)' <=> LocalBy(given)
    BY DEF LocalBy
  <1> QED  BY <1>1 DEF Silent

\* A step that asks for one of it, which only a wrapper that has lost no mode and the
\* reporter do.
LEMMA OneAsked ==
    ASSUME TypeOK, Settings, Silent, NEW e \in {"token", "prerun", "result"}, Ask(e),
           ~IsLocalMode, pc \in {"token", "clientId"} \cup Testing,
           caller = "wrapper" \/ e = "token",
           viper'.env = viper.env, given' = given, caller' = caller,
           LocalBy(disk)' => LocalBy(disk)
    PROVE  Silent'
  <1>1. ~LocalBy(disk) /\ ~LocalBy(disk)'
    BY AskingIsNotLocal
  <1>2. LocalBy(given)' <=> LocalBy(given)
    BY DEF LocalBy
  <1>3. \A f \in {"token", "prerun", "result"} \ {e} : requests'[f] = requests[f]
    BY DEF Ask, TypeOK, Endpoints
  <1>4. LocalBy(given) => caller = "reporter" /\ e = "token"
    BY <1>1 DEF Silent, TypeOK, Testing, Evaluating
  <1> QED  BY <1>1, <1>2, <1>3, <1>4 DEF Silent

LEMMA SilentStep ==
    ASSUME Inv, [Next]_vars
    PROVE  Silent'
  <1>0. TypeOK /\ Control /\ Settings /\ Silent
    BY DEF Inv
  <1> USE <1>0 DEF At, Goto, Return, cfg, io
  <1>1. ASSUME UNCHANGED <<disk, viper, given>>
        PROVE  viper'.env = viper.env /\ (LocalBy(disk)' <=> LocalBy(disk))
    BY <1>1 DEF LocalBy
  <1>2. CASE \/ Args \/ RangeMessages \/ RunE \/ CreateTempFile
             \/ GenerateData \/ StdinTempFile \/ CopyStdin \/ FilterFiles
             \/ Evaluate \/ PrintResults \/ SaveResults \/ Prompt \/ Finish \/ ValidateFile
             \/ GoroutinePanic \/ RunDeferred
    <2>1. UNCHANGED <<disk, viper, given, requests, caller>>
      BY <1>2 DEF Args, RangeMessages, RunE, CreateTempFile, GenerateData, StdinTempFile,
                  CopyStdin, FilterFiles, Evaluate, PrintResults, SaveResults, Prompt, Finish,
                  ValidateFile, GoroutinePanic, RunDeferred
    <2>2. pc \in {"return", "main", "exited"} => pc' \in {"return", "main", "exited"}
      BY <1>2 DEF Args, RangeMessages, RunE, CreateTempFile, GenerateData, StdinTempFile,
                  CopyStdin, FilterFiles, Evaluate, PrintResults, SaveResults, Prompt, Finish,
                  ValidateFile, GoroutinePanic, RunDeferred
    <2> QED  BY <1>1, <2>1, <2>2, NoneAsked
  <1>3. CASE Main
    <2>1. /\ UNCHANGED <<disk, viper, given, requests>> /\ caller = "wrapper"
          /\ pc' = "exited" \/ caller' = "reporter"
      BY <1>3 DEF Main, Control
    <2> QED  BY <1>1, <2>1, NoneAsked
  <1>4. CASE PublishPolicies \/ Report
    <2>1. /\ UNCHANGED <<disk, viper, given, caller>> /\ pc' \in {"return", "exited"}
          /\ Ask("publish") \/ Ask("report")
      BY <1>4 DEF PublishPolicies, Report
    <2>2. \A e \in {"token", "prerun", "result"} : requests'[e] = requests[e]
      BY <2>1 DEF Ask, TypeOK, Endpoints
    <2> QED  BY <1>1, <2>1, <2>2, NoneAsked
  <1>5. CASE InitLocalConfigFile
    <2>1. UNCHANGED <<disk, given, requests, caller>> /\ pc = "config"
      BY <1>5 DEF InitLocalConfigFile
    <2>2. viper'.env = viper.env
      BY <1>5 DEF InitLocalConfigFile, TypeOK
    <2>3. LocalBy(disk)' <=> LocalBy(disk)
      BY <2>1, <2>2 DEF LocalBy
    <2> QED  BY <2>1, <2>2, <2>3, NoneAsked
  <1>6. ASSUME NEW key \in {"offline", "token", "clientId"}, NEW value, NEW next \in Labels,
               IF key = "offline" THEN value = "fail" ELSE value = TRUE,
               pc \in {"offline", "token", "clientId"}, key = "offline" => Value.offline = "",
               SetViperVariable(key, value, next), UNCHANGED <<given, caller>>
        PROVE  /\ viper'.env = viper.env
               /\ LocalBy(disk)' => LocalBy(disk)
               /\ caller' = "wrapper" /\ pc' \notin {"return", "main", "exited"} =>
                     (LocalBy(disk) => LocalBy(disk)')
    <2>1. /\ viper'.env = viper.env
          /\ (LocalBy(disk) => LocalBy(disk)') \/ ConfigError
          /\ LocalBy(disk)' => LocalBy(disk)
      BY <1>6, SetKeepsOffline, Zenon
    <2>2. ConfigError /\ caller = "wrapper" => pc' = "return"
      BY DEF ConfigError
    <2> QED  BY <1>6, <2>1, <2>2
  <1>7. CASE DefaultOffline
    <2>1. pc = "offline" /\ UNCHANGED <<given, requests, caller>>
      BY <1>7 DEF DefaultOffline
    <2>2. CASE UNCHANGED <<viper, disk>>
      BY <1>1, <2>1, <2>2, NoneAsked
    <2>3. CASE Value.offline = "" /\ SetViperVariable("offline", "fail", "mode")
      BY <1>6, <2>1, <2>3, NoneAsked DEF Labels
    <2> QED  BY <1>7, <2>2, <2>3 DEF DefaultOffline
  <1>8. CASE SetOfflineMode
    <2>1. pc = "mode" /\ UNCHANGED <<disk, viper, given, requests, caller>>
      BY <1>8 DEF SetOfflineMode
    <2> QED  BY <1>1, <2>1, NoneAsked
  <1>9. CASE CreateToken
    <2>1. pc = "token" /\ UNCHANGED <<given, caller>>
      BY <1>9 DEF CreateToken
    <2>2. CASE UNCHANGED <<viper, disk, requests>>
      BY <1>1, <2>1, <2>2, NoneAsked
    <2>3. CASE ~IsLocalMode /\ Ask("token") /\ UNCHANGED <<viper, disk>>
      BY <1>1, <2>1, <2>3, OneAsked
    <2>4. CASE /\ ~IsLocalMode /\ Ask("token")
               /\ SetViperVariable("token", TRUE, "clientId")
      <3>1. viper'.env = viper.env /\ (LocalBy(disk)' => LocalBy(disk))
        BY <1>6, <2>1, <2>4 DEF Labels
      <3> QED  BY <2>1, <2>4, <3>1, OneAsked
    <2> QED  BY <1>9, <2>2, <2>3, <2>4 DEF CreateToken
  <1>10. CASE ClientId
    <2>1. pc = "clientId" /\ UNCHANGED <<given, requests, caller>>
      BY <1>10 DEF ClientId
    <2>2. CASE UNCHANGED <<viper, disk>>
      BY <1>1, <2>1, <2>2, NoneAsked
    <2>3. ASSUME NEW next \in {"report", "file", "prerun"},
                 SetViperVariable("clientId", TRUE, next)
          PROVE  Silent'
      BY <1>6, <2>1, <2>3, NoneAsked DEF Labels
    <2>4. \E next \in {"report", "file", "prerun"} :
             \/ UNCHANGED <<viper, disk>>
             \/ SetViperVariable("clientId", TRUE, next)
      BY <1>10, Zenon DEF ClientId
    <2> QED  BY <2>2, <2>3, <2>4
  <1>11. CASE RequestPrerunData \/ SendEvaluationResult
    <2>1. pc \in {"prerun", "send"} /\ UNCHANGED <<disk, viper, given, caller>>
      BY <1>11 DEF RequestPrerunData, SendEvaluationResult
    <2>2. caller = "wrapper"
      BY <2>1 DEF Control, Running, Testing, Evaluating
    <2>3. \/ UNCHANGED requests
          \/ ~IsLocalMode /\ (Ask("prerun") \/ Ask("result"))
      BY <1>11 DEF RequestPrerunData, SendEvaluationResult
    <2> QED  BY <1>1, <2>1, <2>2, <2>3, NoneAsked, OneAsked DEF Testing, Evaluating
  <1>12. CASE MessagerStep \/ UNCHANGED vars
    <2>1. UNCHANGED <<disk, viper, given, requests, caller, pc>>
      BY <1>12 DEF MessagerStep, MessagerAnswer, MessagerClose, vars
    <2> QED  BY <1>1, <2>1, NoneAsked
  <1> QED
    BY <1>2, <1>3, <1>4, <1>5, <1>7, <1>8, <1>9, <1>10, <1>11, <1>12 DEF Next, MainStep

-----------------------------------------------------------------------------
(* The outcome: what has been shown and recorded when there is no error.     *)

\* A step that keeps the outcome, and goes to no label where more has to be told,
\* unless with an error.
LEMMA OutcomeKept ==
    ASSUME Told, UNCHANGED <<outcome, flags, command, offlineMode>>,
           pc' \in {"print", "save", "prompt", "finish"} =>
              /\ pc \in {"print", "save", "prompt", "finish"}
              /\ pc' # "print" => pc # "print",
           pc' \in {"return", "main", "exited"} =>
              \/ pc \in {"return", "main", "exited"} /\ err' = err
              \/ err' \in {"error", "panic", "crash"}
    PROVE  Told'
  BY DEF Told, IsLocalMode

LEMMA ToldStep ==
    ASSUME Inv, [Next]_vars
    PROVE  Told'
  <1>0. TypeOK /\ Control /\ Told
    BY DEF Inv
  <1> USE <1>0 DEF At, Goto, Return, cfg, io
  <1>1. CASE Args \/ RangeMessages \/ RunE \/ CreateTempFile
    <2>1. /\ pc' \in Early \cup {"config", "return", "main"}
          /\ pc' \in {"return", "main"} => err' = "error"
          /\ UNCHANGED <<outcome, flags, command, offlineMode>>
      BY <1>1 DEF Args, RangeMessages, RunE, CreateTempFile, Early
    <2> QED  BY <2>1, OutcomeKept DEF Early
  <1>2. ASSUME pc' \in {"offline", "mode", "token", "clientId", "report", "file", "prerun"}
                  \/ ConfigError,
               UNCHANGED <<outcome, flags, command, offlineMode>>
        PROVE  Told'
    BY <1>2, OutcomeKept DEF ConfigError
  <1>3. CASE InitLocalConfigFile \/ DefaultOffline \/ CreateToken
    BY <1>2, <1>3, SetGoes DEF InitLocalConfigFile, DefaultOffline, CreateToken
  <1>4. CASE SetOfflineMode
    BY <1>4 DEF SetOfflineMode, Told
  <1>5. CASE ClientId
    BY <1>2, <1>5, SetGoes DEF ClientId
  <1>6. CASE RequestPrerunData \/ GenerateData \/ StdinTempFile \/ CopyStdin \/ FilterFiles
             \/ ValidateFile
    <2>1. /\ pc' \in {"data", "stdin", "copy", "filter", "evaluate", "publish", "return"}
          /\ pc' = "return" => err' = "error"
      BY <1>6 DEF RequestPrerunData, GenerateData, StdinTempFile, CopyStdin, FilterFiles,
                  ValidateFile
    <2>2. UNCHANGED <<outcome, flags, command, offlineMode>>
      BY <1>6 DEF RequestPrerunData, GenerateData, StdinTempFile, CopyStdin, FilterFiles,
                  ValidateFile
    <2> QED  BY <2>1, <2>2, OutcomeKept
  <1>7. CASE Evaluate
    <2>1. UNCHANGED <<flags, command, offlineMode>>
      BY <1>7 DEF Evaluate
    <2>2. \/ pc' = "return" /\ err' \in {"error", "panic"}
          \/ pc' = "print" /\ flags.noRecord
          \/ pc' = "send"
      BY <1>7 DEF Evaluate
    <2> QED  BY <2>1, <2>2 DEF Told
  <1>8. CASE SendEvaluationResult
    <2>1. UNCHANGED <<flags, command, offlineMode>>
      BY <1>8 DEF SendEvaluationResult
    <2>2. \/ pc' = "return" /\ err' = "error"
          \/ pc' = "print" /\ IsLocalMode
          \/ pc' = "print" /\ \E p \in BOOLEAN :
                outcome' = [outcome EXCEPT !.recorded = TRUE, !.prompt = p]
      BY <1>8 DEF SendEvaluationResult
    <2>3. ASSUME NEW p, outcome' = [outcome EXCEPT !.recorded = TRUE, !.prompt = p]
          PROVE  outcome'.recorded
      BY <2>3 DEF TypeOK
    <2> QED  BY <2>1, <2>2, <2>3 DEF Told, IsLocalMode
  <1>9. CASE PrintResults
    <2>1. UNCHANGED <<flags, command, offlineMode>> /\ pc = "print" /\ pc' = "save"
      BY <1>9 DEF PrintResults
    <2>2. PICK ok \in BOOLEAN : outcome' = [outcome EXCEPT !.printed = ok, !.printErr = ~ok]
      BY <1>9 DEF PrintResults
    <2>3. outcome'.recorded = outcome.recorded /\ outcome'.printErr = ~outcome'.printed
      BY <2>2 DEF TypeOK
    <2> QED  BY <2>1, <2>3 DEF Told, IsLocalMode
  <1>10. CASE SaveResults \/ Prompt
    <2>1. /\ pc \in {"save", "prompt"} /\ pc' \in {"prompt", "finish", "return"}
          /\ pc' = "return" => err' = "error"
          /\ UNCHANGED <<outcome, flags, command, offlineMode>>
      BY <1>10 DEF SaveResults, Prompt
    <2> QED  BY <2>1, OutcomeKept
  <1>11. CASE Finish
    <2>1. /\ pc = "finish" /\ pc' = "return" /\ err' = TestError(outcome)
          /\ UNCHANGED <<outcome, flags, command, offlineMode>>
      BY <1>11 DEF Finish
    <2>2. /\ outcome.recorded \/ flags.noRecord \/ IsLocalMode
          /\ outcome.printErr = ~outcome.printed
          /\ command # "publish"
      BY <2>1 DEF Told, Control, Testing, Evaluating
    <2>3. /\ err' = "error" \/ outcome.printed
          /\ err' # "error" => (err' = "violations" <=> outcome.violations)
      BY <2>1, <2>2 DEF TestError
    <2> QED  BY <2>1, <2>2, <2>3 DEF Told, IsLocalMode
  <1>12. CASE PublishPolicies
    <2>1. UNCHANGED <<flags, command, offlineMode>> /\ pc' = "return" /\ command = "publish"
      BY <1>12 DEF PublishPolicies, Control, Publishing
    <2>2. PICK o \in RequestOutcomes :
             /\ outcome' = [outcome EXCEPT !.published = o \in {"accepted", "answerLost"}]
             /\ err' = IF Fails(o) THEN "error" ELSE "none"
      BY <1>12 DEF PublishPolicies
    <2>3. outcome'.published = (o \in {"accepted", "answerLost"})
      BY <2>2 DEF TypeOK
    <2>4. err' = "none" => o = "accepted"
      BY <2>2 DEF Fails
    <2> QED  BY <2>1, <2>3, <2>4 DEF Told
  <1>13. CASE RunDeferred \/ Main
    <2>1. /\ pc \in {"return", "main"} /\ pc' \in {"main", "exited", "config"} /\ err' = err
          /\ UNCHANGED <<outcome, flags, command, offlineMode>>
      BY <1>13 DEF RunDeferred, Main
    <2> QED  BY <2>1, OutcomeKept
  <1>14. CASE Report
    <2>1. /\ pc' = "exited" /\ err' \in {"error", "panic"}
          /\ UNCHANGED <<outcome, flags, command, offlineMode>>
      BY <1>14 DEF Report, Control
    <2> QED  BY <2>1, OutcomeKept
  <1>16. CASE GoroutinePanic
    <2>1. /\ pc' = "exited" /\ err' = "crash"
          /\ UNCHANGED <<outcome, flags, command, offlineMode>>
      BY <1>16 DEF GoroutinePanic
    <2> QED  BY <2>1, OutcomeKept
  <1>15. CASE MessagerStep \/ UNCHANGED vars
    <2>1. UNCHANGED <<outcome, flags, command, offlineMode, pc, err>>
      BY <1>15 DEF MessagerStep, MessagerAnswer, MessagerClose, vars
    <2> QED  BY <2>1, OutcomeKept
  <1> QED
    BY <1>1, <1>3, <1>4, <1>5, <1>6, <1>7, <1>8, <1>9, <1>10, <1>11, <1>12, <1>13, <1>14,
       <1>15, <1>16 DEF Next, MainStep

\* A step that keeps the outcome, or comes after the results were to be sent.
LEMMA UntoldStep ==
    ASSUME Inv, [Next]_vars
    PROVE  Untold'
  <1>0. TypeOK /\ Control /\ Untold
    BY DEF Inv
  <1> USE <1>0 DEF At, Goto, Return, cfg, io
  <1>1. ASSUME UNCHANGED outcome, err' = "crash" => err = "crash",
               pc' \in Before("result") /\ caller' = "wrapper" =>
                  pc \in Before("result") /\ caller = "wrapper"
        PROVE  Untold'
    BY <1>1 DEF Untold, Before
  <1>2. CASE Args \/ RangeMessages \/ RunE \/ CreateTempFile
    <2>1. UNCHANGED <<outcome, caller>> /\ pc \in Early /\ err' \in {err, "error"}
      BY <1>2 DEF Args, RangeMessages, RunE, CreateTempFile, Early
    <2> QED  BY <1>1, <2>1 DEF Before
  <1>3. CASE InitLocalConfigFile \/ DefaultOffline \/ SetOfflineMode \/ CreateToken \/ ClientId
    <2>1. /\ UNCHANGED <<outcome, caller>> /\ pc \in Loading
          /\ err' = err \/ ConfigError
      BY <1>3, SetGoes DEF InitLocalConfigFile, DefaultOffline, SetOfflineMode, CreateToken,
                           ClientId, Loading
    <2>2. err' = "crash" => err = "crash"
      BY <2>1 DEF ConfigError
    <2> QED  BY <1>1, <2>1, <2>2 DEF Before
  <1>4. CASE RequestPrerunData \/ GenerateData \/ StdinTempFile \/ CopyStdin \/ FilterFiles
    <2>1. /\ UNCHANGED <<outcome, caller>> /\ err' \in {err, "error"}
          /\ pc \in {"prerun", "data", "stdin", "copy", "filter"}
      BY <1>4 DEF RequestPrerunData, GenerateData, StdinTempFile, CopyStdin, FilterFiles
    <2> QED  BY <1>1, <2>1 DEF Before
  <1>5. CASE Evaluate \/ GoroutinePanic
    <2>1. pc = "evaluate" /\ caller = "wrapper" /\ caller' = caller
      BY <1>5 DEF Evaluate, GoroutinePanic, Control, Running, Testing, Evaluating
    <2>2. UNCHANGED outcome \/ \E v \in BOOLEAN : outcome' = [outcome EXCEPT !.violations = v]
      BY <1>5 DEF Evaluate, GoroutinePanic
    <2>3. outcome'.printed = outcome.printed /\ outcome'.recorded = outcome.recorded
      BY <2>2 DEF TypeOK
    <2> QED  BY <2>1, <2>3 DEF Untold, Before
  <1>6. CASE SendEvaluationResult \/ PrintResults \/ SaveResults \/ Prompt \/ Finish
             \/ ValidateFile \/ PublishPolicies \/ Report
    <2>1. /\ pc' \in {"print", "save", "prompt", "finish", "publish", "return", "exited"}
          /\ err' \in {err, "none", "error", "violations"} /\ pc # "exited"
      BY <1>6 DEF SendEvaluationResult, PrintResults, SaveResults, Prompt, Finish, TestError,
                  ValidateFile, PublishPolicies, Report
    <2> QED  BY <2>1 DEF Untold, Before, Early, Loading, Control
  <1>7. CASE RunDeferred \/ Main
    <2>1. /\ UNCHANGED <<outcome, err>>
          /\ pc' \in {"main", "exited"} \/ caller' = "reporter"
      BY <1>7 DEF RunDeferred, Main
    <2> QED  BY <1>1, <2>1 DEF Before, Early, Loading
  <1>8. CASE MessagerStep \/ UNCHANGED vars
    <2>1. UNCHANGED <<outcome, caller, err, pc>>
      BY <1>8 DEF MessagerStep, MessagerAnswer, MessagerClose, vars
    <2> QED  BY <1>1, <2>1
  <1> QED
    BY <1>2, <1>3, <1>4, <1>5, <1>6, <1>7, <1>8 DEF Next, MainStep

-----------------------------------------------------------------------------
(* The temporary file: when its removal is still registered.                 *)

\* The steps that touch no temporary file and come before the deferred calls, or after.
LEMMA FileUntouched ==
    ASSUME Kept, Control, UNCHANGED <<temp, flags>>, pc = "exited" => err' = err,
           pc' \in {"args", "main", "report", "exited"} \/ caller' = "reporter" =>
              pc \in {"args", "main", "report", "exited"} \/ caller = "reporter"
    PROVE  Kept'
  BY DEF Kept, Control

LEMMA KeptStep ==
    ASSUME Inv, [Next]_vars
    PROVE  Kept'
  <1>0. TypeOK /\ Control /\ Kept
    BY DEF Inv
  <1> USE <1>0 DEF At, Goto, Return, cfg, io
  <1>1. CASE Args \/ RangeMessages \/ RunE
    <2>1. /\ UNCHANGED <<temp, flags, caller>>
          /\ pc = "args" \/ pc' \in {"messages", "run", "config", "mkTemp", "return"}
          /\ pc # "exited"
      BY <1>1 DEF Args, RangeMessages, RunE
    <2> QED  BY <2>1, FileUntouched
  <1>2. ASSUME NEW next \in {"config", "copy"},
               caller = "wrapper", UNCHANGED <<flags, caller>>, err # "crash",
               pc' \in {next, "return"},
               \/ UNCHANGED temp
               \/ temp' = [temp EXCEPT !.exists = TRUE, !.failed = TRUE]
               \/ temp' = [temp EXCEPT !.exists = TRUE, !.deferred = ~flags.saveRendered]
        PROVE  Kept'
    <2>1. pc' \notin {"args", "main", "report", "exited"} /\ caller' = "wrapper"
      BY <1>2
    <2>2. CASE UNCHANGED temp
      BY <1>2, <2>1, <2>2 DEF Kept
    <2>3. CASE temp' = [temp EXCEPT !.exists = TRUE, !.failed = TRUE]
      <3>1. temp'.failed
        BY <2>3 DEF TypeOK
      <3> QED  BY <2>1, <3>1 DEF Kept
    <2>4. CASE temp' = [temp EXCEPT !.exists = TRUE, !.deferred = ~flags.saveRendered]
      <3>1. temp'.deferred = ~flags.saveRendered
        BY <2>4 DEF TypeOK
      <3> QED  BY <1>2, <2>1, <3>1 DEF Kept
    <2> QED  BY <1>2, <2>2, <2>3, <2>4
  <1>3. CASE CreateTempFile
    <2>1. caller = "wrapper" /\ err # "crash"
      BY <1>3 DEF CreateTempFile, Control, Running, Early
    <2> QED  BY <1>2, <1>3, <2>1 DEF CreateTempFile
  <1>4. CASE StdinTempFile
    <2>1. caller = "wrapper" /\ err # "crash"
      BY <1>4 DEF StdinTempFile, Control, Running, Testing, Evaluating
    <2> QED  BY <1>2, <1>4, <2>1 DEF StdinTempFile
  <1>5. ASSUME \/ pc' \in {"offline", "mode", "token", "clientId", "file", "prerun"}
               \/ pc' = "report" /\ caller = "reporter"
               \/ ConfigError,
               UNCHANGED <<temp, flags, caller>>, pc # "exited"
        PROVE  Kept'
    <2>1. pc' = "report" => caller = "reporter"
      BY <1>5 DEF ConfigError, TypeOK
    <2>2. pc' \in {"offline", "mode", "token", "clientId", "file", "prerun", "report", "return"}
      BY <1>5, ConfigErrorGoes
    <2> QED  BY <1>5, <2>1, <2>2, FileUntouched
  <1>6. CASE InitLocalConfigFile \/ DefaultOffline \/ SetOfflineMode \/ CreateToken
    BY <1>5, <1>6, SetGoes
       DEF InitLocalConfigFile, DefaultOffline, SetOfflineMode, CreateToken
  <1>7. CASE ClientId
    BY <1>5, <1>7, SetGoes DEF ClientId
  <1>8. CASE \/ RequestPrerunData \/ GenerateData \/ CopyStdin \/ FilterFiles \/ Evaluate
             \/ SendEvaluationResult \/ PrintResults \/ SaveResults \/ Prompt \/ Finish
             \/ ValidateFile \/ PublishPolicies
    <2>1. UNCHANGED <<temp, flags, caller>>
      BY <1>8 DEF RequestPrerunData, GenerateData, CopyStdin, FilterFiles, Evaluate,
                  SendEvaluationResult, PrintResults, SaveResults, Prompt, Finish,
                  ValidateFile, PublishPolicies
    <2>2. pc' \notin {"args", "main", "report", "exited"} /\ pc # "exited"
      BY <1>8 DEF RequestPrerunData, GenerateData, CopyStdin, FilterFiles, Evaluate,
                  SendEvaluationResult, PrintResults, SaveResults, Prompt, Finish,
                  ValidateFile, PublishPolicies
    <2> QED  BY <2>1, <2>2, FileUntouched
  <1>9. CASE RunDeferred
    <2>1. /\ UNCHANGED <<flags, caller>>
          /\ temp' \in Removed(temp) /\ err' = err
      BY <1>9 DEF RunDeferred
    <2>2. CASE ~temp.deferred
      BY <2>1, <2>2 DEF Removed, Kept
    <2>3. CASE temp.deferred
      <3>1. PICK ok \in BOOLEAN :
               temp' = [temp EXCEPT !.deferred = FALSE, !.exists = ~ok, !.failed = ~ok]
        BY <2>1, <2>3 DEF Removed
      <3>2. ~temp'.deferred /\ (temp'.exists => temp'.failed)
        BY <3>1 DEF TypeOK
      <3> QED  BY <3>2 DEF Kept
    <2> QED  BY <2>2, <2>3
  <1>10. CASE Main \/ Report
    <2>1. pc \in {"main", "report"} /\ UNCHANGED <<temp, flags>>
      BY <1>10 DEF Main, Report
    <2> QED  BY <2>1, FileUntouched
  <1>12. CASE GoroutinePanic
    <2>1. UNCHANGED <<temp, flags>> /\ err' = "crash"
      BY <1>12 DEF GoroutinePanic
    <2> QED  BY <2>1 DEF Kept
  <1>11. CASE MessagerStep \/ UNCHANGED vars
    <2>1. UNCHANGED <<temp, flags, caller, pc, err>>
      BY <1>11 DEF MessagerStep, MessagerAnswer, MessagerClose, vars
    <2> QED  BY <2>1, FileUntouched
  <1> QED
    BY <1>1, <1>3, <1>4, <1>6, <1>7, <1>8, <1>9, <1>10, <1>11, <1>12
       DEF Next, MainStep

-----------------------------------------------------------------------------
(* The invariant, and what it gives.                                         *)

LEMMA InitInv == Init => Inv
  <1> SUFFICES ASSUME Init PROVE Inv
    OBVIOUS
  <1>1. /\ pc = "args" /\ caller = "wrapper" /\ err = "none" /\ exit = 99 /\ tokens = 0
        /\ requests = [e \in Endpoints |-> 0]
        /\ temp = [exists |-> FALSE, deferred |-> FALSE, failed |-> FALSE]
    BY DEF Init
  <1>2. TypeOK
    <2>1. /\ pc \in Labels /\ command \in Commands /\ flags \in FlagSets \cup {NoFlags}
          /\ offlineMode = "fail" /\ rulesSaved = FALSE
      BY DEF Init, Labels
    <2>2. disk \in Config /\ given \in Config
      BY ConfigsAssumption DEF Init
    <2>3. viper \in Memory
      <3>1. \E env \in Config : viper = [set |-> NoConfig, env |-> env, read |-> NoConfig]
        BY ConfigsAssumption DEF Init
      <3> QED  BY <3>1, NoConfigTyped DEF Memory
    <2>4. outcome \in Outcomes
      BY DEF Init, Outcomes
    <2>5. /\ prerun \in [pac : BOOLEAN, rulesText : BOOLEAN]
          /\ messager \in [state : {"idle", "asking", "closing", "closed"}, buffered : 0..1]
      BY DEF Init
    <2>6. temp \in Temps /\ requests \in [Endpoints -> 0..2] /\ tokens \in 0..2
          /\ exit \in {0, 1, 2, 99}
      BY <1>1 DEF Temps
    <2> QED  BY <1>1, <2>1, <2>2, <2>3, <2>4, <2>5, <2>6 DEF TypeOK, Outcomes, Temps, Memory
  <1>3. Control
    BY <1>1 DEF Control, Running, Early, Loading, Testing, Evaluating, Publishing, Init
  <1>4. Counted
    BY <1>1 DEF Counted, Before, Endpoints, Labels
  <1>5. Settings
    <2>1. viper.set.offline = ""
      <3>1. PICK env : viper = [set |-> NoConfig, env |-> env, read |-> NoConfig]
        BY DEF Init
      <3> QED  BY <3>1 DEF NoConfig
    <2>2. /\ pc \notin (Loading \ {"config"}) \cup Testing \cup Publishing
          /\ pc \notin {"mode", "token", "clientId"} \cup Testing
      BY <1>1 DEF Loading, Testing, Evaluating, Publishing
    <2>3. tokens <= 1 /\ tokens # 1
      BY <1>1
    <2> QED  BY <2>1, <2>2, <2>3 DEF Settings
  <1>8. Silent
    <2>1. \A e \in {"token", "prerun", "result"} : requests[e] = 0
      BY <1>1 DEF Endpoints
    <2>2. disk = given
      BY DEF Init
    <2> QED  BY <2>1, <2>2 DEF Silent, LocalBy
  <1>9. Untold
    BY DEF Untold, Init
  <1>6. Told
    BY <1>1 DEF Told
  <1>7. Kept
    BY <1>1 DEF Kept
  <1> QED  BY <1>2, <1>3, <1>4, <1>5, <1>6, <1>7, <1>8, <1>9 DEF Inv

LEMMA StepInv == Inv /\ [Next]_vars => Inv'
  BY TypeStep, ControlStep, CountedStep, SettingsStep, SilentStep, UntoldStep, ToldStep, KeptStep
     DEF Inv

LEMMA InvHolds == Spec => []Inv
  BY InitInv, StepInv, PTL DEF Spec

\* Every value has its type: the labels, the settings, and at most two requests of a kind.
THEOREM TypeCorrect == Spec => []TypeOK
  <1>1. Inv => TypeOK
    BY DEF Inv
  <1> QED  BY <1>1, InvHolds, PTL

\* The exit status tells the truth (main.go:67-77): 0 and 2 mean results printed and, unless
\* the user opted out, recorded, and 2 that there were violations, except that 2 is also
\* the status of a panic in a goroutine of the pipeline, of which nothing is printed or
\* recorded; 0 of `publish` means that the backend accepted the policies.
THEOREM ExitTold == Spec => []ExitCodeSound
  <1>1. ASSUME Inv, exit \in {0, 2}, command # "publish"
        PROVE  \/ /\ outcome.printed
                  /\ exit = 2 <=> outcome.violations
                  /\ outcome.recorded \/ flags.noRecord \/ IsLocalMode
                  /\ err \in {"none", "violations"}
               \/ err = "crash" /\ exit = 2 /\ ~outcome.printed /\ ~outcome.recorded
    <2>1. /\ pc = "exited" /\ err \in {"none", "violations", "crash"}
          /\ exit = 2 <=> err \in {"violations", "crash"}
      BY <1>1 DEF Inv, TypeOK, Control
    <2>2. CASE err = "crash"
      BY <2>1, <2>2, <1>1 DEF Inv, Untold
    <2>3. CASE err # "crash"
      BY <1>1, <2>1, <2>3 DEF Inv, Told
    <2> QED  BY <2>2, <2>3
  <1>2. ASSUME Inv, exit # 99, command = "publish"
        PROVE  /\ exit = 0 => outcome.published /\ err = "none"
               /\ exit \in {0, 1}
    <2>1. /\ pc = "exited" /\ err \notin {"violations", "crash"} /\ (exit = 0 <=> err = "none")
          /\ exit \in {0, 1}
      BY <1>2 DEF Inv, TypeOK, Control
    <2> QED  BY <1>2, <2>1 DEF Inv, Told
  <1>3. Inv => ExitCodeSound
    BY <1>1, <1>2 DEF ExitCodeSound
  <1> QED  BY <1>3, InvHolds, PTL

\* A run that ends with an error or with a panic of the main goroutine is reported to the
\* backend exactly once, and no other run is: not one that a panic of another goroutine
\* ends (main.go:62-83 and errorReporter.go).
THEOREM ReportedExactlyOnce == Spec => []FailureReportedOnce
  <1>1. Inv => FailureReportedOnce
    BY DEF Inv, TypeOK, Control, Counted, FailureReportedOnce
  <1> QED  BY <1>1, InvHolds, PTL

\* A mode `local` of the environment or of the file the run begins with keeps a test from
\* asking for prerun data and from sending results; a token is asked for only by the error
\* reporter, once a failed write has emptied the file.  And a run gets at most one token.
THEOREM RequestsKeptJustified == Spec => []RequestsJustified
  <1>1. ASSUME Inv
        PROVE  LocalModeSilent
    BY <1>1 DEF Inv, Silent, LocalModeSilent
  <1>2. ASSUME Inv
        PROVE  OneTokenPerRun
    BY <1>2 DEF Inv, Settings, OneTokenPerRun
  <1>3. Inv => RequestsJustified
    BY <1>1, <1>2 DEF RequestsJustified
  <1> QED  BY <1>3, InvHolds, PTL

\* The temporary file of a run that ended, by a panic of the main goroutine too, is gone
\* unless it was to be kept, its writing or its removal failed, or another goroutine
\* panicked.
THEOREM TempFileGone == Spec => []TempFileRemoved
  <1>1. Inv => TempFileRemoved
    BY DEF Inv, Control, Kept, TempFileRemoved
  <1> QED  BY <1>1, InvHolds, PTL

\* No result is computed, recorded, printed or published in a run whose policy file is not
\* allowed (test/main.go:150-158).
THEOREM PolicyAllowed == Spec => ResultsUnderAllowedPolicy
  <1>1. ASSUME Inv, [Next]_vars, outcome' # outcome
        PROVE  PolicyConfigAllowed
    <2>1. pc \in Evaluating \cup {"publish"}
      <3>1. Evaluate \/ SendEvaluationResult \/ PrintResults \/ PublishPolicies
        BY <1>1 DEF Next, MainStep, MessagerStep, vars, Args, RangeMessages, RunE,
                    CreateTempFile, InitLocalConfigFile, DefaultOffline, SetOfflineMode,
                    CreateToken, ClientId, RequestPrerunData, GenerateData, StdinTempFile,
                    CopyStdin, FilterFiles, SaveResults, Prompt, Finish, ValidateFile,
                    GoroutinePanic, RunDeferred, Main, Report, MessagerAnswer, MessagerClose
      <3> QED  BY <3>1 DEF Evaluate, SendEvaluationResult, PrintResults, PublishPolicies, At,
                           Evaluating
    <2>2. CASE pc \in Evaluating
      BY <1>1, <2>2 DEF Inv, Control
    <2>3. CASE pc = "publish"
      <3>1. flags = NoFlags
        BY <1>1, <2>3 DEF Inv, Control, Publishing
      <3> QED  BY <3>1, NoFlagsPlain DEF PolicyConfigAllowed
    <2> QED  BY <2>1, <2>2, <2>3
  <1>2. Inv /\ [Next]_vars => [outcome' # outcome => PolicyConfigAllowed]_vars
    BY <1>1
  <1> QED  BY <1>2, InvHolds, PTL DEF Spec, ResultsUnderAllowedPolicy
=============================================================================
