----------------------------- MODULE ScoreOutput ------------------------------
(* kube-score, the command around the scoring: main picks the command and     *)
(* scoreFiles reads the flags and the files, scores them (Scorecard) and      *)
(* prints the card in one of the output formats.  A report is the set of its  *)
(* entries; layout and wording are left out.                                  *)
EXTENDS Scorecard

CONSTANTS Outputs,     \* --output-format, --output-version ("" if not given), --verbose
          Uncommented  \* ids of the checks that may warn without a comment

Commands == {"score", "list", "version", "help"}
Formats == {"human", "json", "ci", "sarif", "junit"}
Levels == {"critical", "warning", "failure", "ok", "skipped", "unknown"}

ASSUME OutputAssumption ==
    /\ Outputs \subseteq [format : Formats, version : {"", "v1", "v2", "v3"}, verbose : 0..2]
    /\ Uncommented \subseteq Ids

VARIABLES
    progress,  \* "flags", "scoring", "scored", "over"
    report     \* what is printed: its format, or "none", and its entries

allVars == <<vars, progress, report>>

NoReport == [format |-> "none", entries |-> {}, heads |-> {}]

OutputInit == Init /\ progress = "flags" /\ report = NoReport

-----------------------------------------------------------------------------
(* Before the scoring.                                                       *)

\* parse: the first argument if it is a command; the kubectl plugin, given
\* anything else, scores, and without the plugin there is only the usage.
CommandOf(plugin, first) ==
    IF first \in Commands THEN first
    ELSE IF plugin /\ first # "none" THEN "score" ELSE "help"

\* listChecks: all checks, whatever is ignored, each with its default.
ListChecks ==
    [format |-> "list", heads |-> {},
     entries |-> {[check |-> c.id, optional |-> c.optional] : c \in Checks}]

\* main: only score goes on.  No command and help end with 1.  The flags of list
\* are read at once: --help ends it before the list, an unknown one with 2.
Main ==
    /\ progress = "flags"
    /\ \E plugin \in BOOLEAN, first \in Commands \cup {"file", "none"},
          flags \in {"none", "help", "unknown"} :
          LET command == CommandOf(plugin, first)
          IN  /\ progress' = IF command = "score" THEN "scoring" ELSE "over"
              /\ exit' = CASE command = "score" -> exit
                           [] command = "help"  -> "one"
                           [] command = "list" /\ flags = "unknown" -> "two"
                           [] OTHER             -> "zero"
              /\ report' = IF command = "list" /\ flags = "none" THEN ListChecks ELSE report
    /\ UNCHANGED <<cnf, ann, template, todo, at, pending, card>>

AllDefaultOptional == cnf.enabled = {c.id : c \in {d \in Checks : d.optional}}

\* What ends scoreFiles before the scoring, and how.
Refusals ==
    {"help", "flag", "output-format", "color", "no files", "open",
     "kubernetes-version", "parse"}
    \cup IF AllDefaultOptional /\ cnf.ignored # {} THEN {"all-default-optional"} ELSE {}

\* --help ends with 0 before anything else is looked at; the flag package ends
\* with 2 when it does not know a flag.
Refuse ==
    /\ progress = "scoring" /\ exit = "none" /\ todo = Work
    /\ \E why \in Refusals :
          exit' = CASE why = "help" -> "zero" [] why = "flag" -> "two" [] OTHER -> "one"
    /\ progress' = "over"
    /\ UNCHANGED <<cnf, ann, template, todo, at, pending, card, report>>

-----------------------------------------------------------------------------
(* The entries of each format, of all objects in any order.                  *)

ResultsOf(ref) == {card[ref][n] : n \in DOMAIN card[ref]}

Bad == {GradeCritical, GradeWarning}

\* A grade of no name makes Grade.String panic.
Level(x) ==
    IF x.skipped THEN "skipped"
    ELSE CASE x.grade = GradeCritical -> "critical"
           [] x.grade = GradeWarning  -> "warning"
           [] x.grade > GradeWarning  -> "ok"
           [] OTHER                   -> "unknown"

Entry(ref, x, level) == [ref |-> ref, check |-> x.check, level |-> level]

\* All results, for json_v2 (and v1, the card itself).
CompleteEntries ==
    UNION {{Entry(r, x, Level(x)) : x \in ResultsOf(r)} : r \in DOMAIN card}

\* ci: a line for each comment of a result, one without text for a result that
\* has none.  (Lines do not name the check; an entry stands for the lines of one.)
CIEntries == CompleteEntries

\* outputHumanStep.  (An AlmostOK result, not told from AllOK here, is shown
\* even when not verbose.)
HumanEntries(verbose) ==
    {e \in CompleteEntries : /\ e.level = "skipped" => verbose = 2
                             /\ e.level = "ok" => verbose > 0}

\* The worst an object has, in its header.
HumanHeads ==
    {[ref |-> r,
      worst |->
          IF \E x \in ResultsOf(r) : ~x.skipped /\ x.grade <= GradeCritical THEN "critical"
          ELSE IF \E x \in ResultsOf(r) : ~x.skipped /\ x.grade = GradeWarning THEN "warning"
          ELSE "ok"] : r \in DOMAIN card}

\* JUnit: everything but OK is a failure, a grade that was never given too.
JUnitEntries ==
    UNION {{Entry(r, x, IF Level(x) \in {"ok", "skipped"} THEN Level(x) ELSE "failure") :
              x \in ResultsOf(r)} : r \in DOMAIN card}

\* (Mutant: skipped results have a place in it.)
SarifEntriesOfAll(bare) ==
    UNION {{Entry(r, x, IF x.grade = GradeCritical THEN "critical" ELSE "warning") :
              x \in {y \in ResultsOf(r) \ bare : y.grade \in Bad}} : r \in DOMAIN card}

\* A result for each comment of a check that is critical or warns, and so none
\* for one without comments.
SarifEntries(bare) ==
    UNION {{Entry(r, x, Level(x)) :
              x \in {y \in ResultsOf(r) \ bare : ~y.skipped /\ y.grade \in Bad}} :
              r \in DOMAIN card}

\* Whether a warning has a comment, the check's doing, is chosen when read.
Bares == SUBSET {x \in UNION {ResultsOf(r) : r \in DOMAIN card} :
                   ~x.skipped /\ x.grade = GradeWarning /\ x.check \in Uncommented}

Reports(o) ==
    CASE o.format = "human" ->
           {[format |-> "human", entries |-> HumanEntries(o.verbose), heads |-> HumanHeads]}
      [] o.format = "json" -> {[format |-> "json", entries |-> CompleteEntries, heads |-> {}]}
      [] o.format = "ci" -> {[format |-> "ci", entries |-> CIEntries, heads |-> {}]}
      [] o.format = "junit" -> {[format |-> "junit", entries |-> JUnitEntries, heads |-> {}]}
      [] o.format = "sarif" ->
           {[format |-> "sarif", entries |-> SarifEntries(bare), heads |-> {}] : bare \in Bares}

-----------------------------------------------------------------------------
(* The scoring and after.                                                    *)

\* getOutputVersion
OutputVersion(o) ==
    IF o.version # "" THEN o.version ELSE IF o.format = "json" THEN "v2" ELSE "v1"

Known(o) ==
    \/ o.format \in {"sarif", "junit"}
    \/ o.format = "json" /\ OutputVersion(o) \in {"v1", "v2"}
    \/ o.format \in {"human", "ci"} /\ OutputVersion(o) = "v1"

\* An error of Score ends the run without a report.
Scoring ==
    /\ progress = "scoring"
    /\ \/ Visit /\ UNCHANGED progress
       \/ RunCheck /\ progress' = IF exit' = "none" THEN "scoring" ELSE "over"
       \/ Finish /\ progress' = "scored"
    /\ UNCHANGED report

\* A version that is not known is found only now: the card is lost and the exit
\* code, whatever it was, is 1.
PrintCard ==
    /\ progress = "scored" /\ progress' = "over"
    /\ \E o \in Outputs :
          IF Known(o) THEN report' \in Reports(o) /\ UNCHANGED exit
          ELSE exit' = "one" /\ UNCHANGED report
    /\ UNCHANGED <<cnf, ann, template, todo, at, pending, card>>

OutputNext == Main \/ Refuse \/ Scoring \/ PrintCard

OutputSpec == OutputInit /\ [][OutputNext]_allVars

-----------------------------------------------------------------------------
(* Properties.                                                               *)

\* What a printed report and the exit code say is the same, and it is what the
\* annotations and flags leave of the results: every wanted result that is
\* critical or a warning is told with the key of its object, no other one is,
\* the header of an object is the worst told under it, no result is without a
\* grade, and the exit code is 1 exactly if what is told is bad enough.  JUnit
\* does not tell warnings from failures, and SARIF leaves out a warning without a
\* comment, which may then be the reason of the exit code.
ReportTellsVerdict ==
    LET counted == {x \in All : Wanted(x) /\ x.grade \in Bad}
        told == {e \in report.entries : e.level \in {"critical", "warning", "failure"}}
        fatal == {e \in told : e.level # "warning" \/ cnf.warnings}
        silent == {x \in counted : /\ report.format = "sarif" /\ x.grade = GradeWarning
                                   /\ x.check \in Uncommented}
        Tells(e, x) ==
            /\ e.ref = Objects[x.obj].ref /\ e.check = x.check
            /\ \/ e.level = (IF x.grade = GradeCritical THEN "critical" ELSE "warning")
               \/ report.format = "junit" /\ e.level = "failure"
    IN  report.format \in Formats =>
          /\ \A x \in counted \ silent : \E e \in told : Tells(e, x)
          /\ \A e \in told : \E x \in counted : Tells(e, x)
          /\ \A e \in report.entries : e.level # "unknown"
          /\ \A h \in report.heads :
                LET levels == {e.level : e \in {d \in told : d.ref = h.ref}}
                IN  h.worst = (IF "critical" \in levels THEN "critical"
                               ELSE IF "warning" \in levels THEN "warning" ELSE "ok")
          /\ exit = "one" => fatal # {} \/ (cnf.warnings /\ silent # {})
          /\ fatal # {} => exit = "one" \/ report.format = "junit"

\* Exit code 0 after a scoring means that it was complete: every check that is
\* not ignored has graded, or skipped itself on, each object of its loop, none of
\* the wanted ones found anything critical, and the report was printed.  An error
\* of one check, or an output version found unknown at the end, never ends so.
CleanExitComplete ==
    (progress = "over" /\ exit = "zero" /\ todo # Work) =>
        /\ report.format \in Formats
        /\ \A w \in Work : \A c \in Registered(Kinds[w[1]]) :
              \E x \in All : x.obj = w[2] /\ x.kind = w[1] /\ x.check = c.id
        /\ \A x \in All : Wanted(x) => x.grade # GradeCritical
=============================================================================
