--------------------------- MODULE EvaluationOutput ---------------------------
(* What a run of datree test tells of the policy check: the results formatted *)
(* by the Evaluator and the files found invalid, saved for a CI run and then  *)
(* printed in one of the output formats (PrintResults).  A report is the set  *)
(* of its entries; layout and wording are left out.                           *)
EXTENDS Evaluator

CONSTANTS Invalids,  \* the files the validations may have found invalid:
                     \* functions, file name -> "yaml" or "k8s"
          NoRule     \* an entry for a whole file has no rule

Formats == {"text", "quiet", "structured", "JUnit", "sarif"}

ASSUME InvalidsAssumption ==
    /\ NoRule \notin Rules
    /\ \A invalids \in Invalids : \A n \in DOMAIN invalids :
          invalids[n] \in {"yaml", "k8s"}

VARIABLES
    printing,  \* "no", "saved", "printed", "failed": how far PrintResults is
    invalid,   \* InvalidYamlFiles and InvalidK8sFiles, a member of Invalids
    saved,     \* the entries of lastPolicyCheck.json, as the run leaves it:
               \* "old", "truncated" or "new", and its entries if it is new
    report     \* the report printed: its format, entries and headline counts

outputVars == <<printing, invalid, saved, report>>

Entry(n, part, r, failure, skipped) ==
    [file |-> n, part |-> part, rule |-> r, failure |-> failure, skipped |-> skipped]

NoReport == [format |-> "none", entries |-> {}, failed |-> 0, skipped |-> 0]
OldSaved == [content |-> "old", entries |-> {}]

OutputInit ==
    /\ Init
    /\ printing = "no" /\ invalid = << >>
    /\ saved = OldSaved /\ report = NoReport

-----------------------------------------------------------------------------
(* The entries of each format.                                               *)

\* Every format but SARIF has the invalid files, with or without a policy check.
InvalidEntries == {Entry(n, invalid[n], NoRule, TRUE, FALSE) : n \in DOMAIN invalid}

\* parseToPrinterWarnings: a rule with an occurrence that is not skipped goes to
\* the failed rules of its file's warning, one with a skipped one to the skipped
\* ones, and so perhaps to both.
PrinterWarnings == [failedRules |-> FailedPairs(failed), skippedRules |-> SkippedPairs(failed)]

\* (Mutant: a rule listed under SKIPPED is not listed as failed.)
TextEntriesOnce(quiet) ==
    InvalidEntries
    \cup {Entry(p[1], "policy", p[2], FALSE, TRUE) : p \in PrinterWarnings.skippedRules}
    \cup {Entry(p[1], "policy", p[2], TRUE, FALSE) :
            p \in PrinterWarnings.failedRules \ PrinterWarnings.skippedRules}

\* GetWarningsText: the skipped rules are left out when quiet.
TextEntries(quiet) ==
    InvalidEntries
    \cup {Entry(p[1], "policy", p[2], FALSE, TRUE) :
            p \in IF quiet THEN {} ELSE PrinterWarnings.skippedRules}
    \cup {Entry(p[1], "policy", p[2], TRUE, FALSE) : p \in PrinterWarnings.failedRules}

Occurrences(p) == {failed[p[1]][p[2]][i] : i \in 1..Len(failed[p[1]][p[2]])}

\* getFormattedOutput (JSON, YAML, XML): each occurrence, with isSkipped.
StructuredEntries ==
    InvalidEntries
    \cup UNION {{Entry(p[1], "policy", p[2], o.occurrences, o.isSkipped) :
                   o \in Occurrences(p)} : p \in Pairs(failed)}

\* (Mutant: one skipped occurrence marks the case as skipped.)
AnyOccurrenceSkipped(p) == \E o \in Occurrences(p) : o.isSkipped

AreAllOccurrencesSkipped(p) == \A o \in Occurrences(p) : o.isSkipped

\* getPolicyValidationResultTestSuite, getPassingFileTestSuite: any result of the
\* rule, skipped or not, makes its case a failure.
JUnitCase(n, r) ==
    LET found == <<n, r>> \in Pairs(failed)
    IN  Entry(n, "policy", r, found, found /\ AreAllOccurrencesSkipped(<<n, r>>))

\* FormattedOutputToJUnitOutput: a case for each file that ran the policy check
\* and each rule, after the suites of the invalid files.
JUnitEntries ==
    InvalidEntries \cup {JUnitCase(input[i].name, r) : i \in 1..Len(input), r \in Rules}

\* getSarifOutput: a result for each location of each occurrence, and only a
\* violation has a location; neither skips nor invalid files have a place in it.
SarifEntries ==
    {Entry(p[1], "policy", p[2], TRUE, FALSE) :
       p \in {q \in Pairs(failed) : \E o \in Occurrences(q) : o.occurrences}}

EntriesOf(format) ==
    CASE format = "text"       -> TextEntries(FALSE)
      [] format = "quiet"      -> TextEntries(TRUE)
      [] format = "structured" -> StructuredEntries
      [] format = "JUnit"      -> JUnitEntries
      [] OTHER                 -> SarifEntries

\* The table under the text, the policy summary of the structured formats and the
\* header of JUnit: the counts of the Evaluator.  SARIF has none.
Headline(format) ==
    IF format = "sarif" THEN [failed |-> 0, skipped |-> 0]
    ELSE [failed |-> summary.failedRules, skipped |-> summary.skippedRules]

-----------------------------------------------------------------------------
(* PrintResults.                                                             *)

\* In CI the JSON report is saved first, whatever the format printed.  Each
\* error ends the saving and is ignored: no home directory or no file, and the
\* old one stays; a failed write leaves the file os.Create emptied.  The invalid
\* files, known before the policy check, are chosen here, where first read.
SaveLastResult ==
    /\ status = "formatted" /\ printing = "no"
    /\ UNCHANGED vars
    /\ invalid' \in Invalids
    /\ saved' \in {OldSaved, [content |-> "truncated", entries |-> {}],
                   [content |-> "new", entries |-> StructuredEntries']}
    /\ printing' = "saved"
    /\ UNCHANGED report

\* The text in the chosen format is written; the write, or for text the working
\* directory, may fail, and the run ends with that error.
PrintResults ==
    /\ printing = "saved"
    /\ \/ \E format \in Formats :
             /\ report' = [format |-> format, entries |-> EntriesOf(format),
                           failed |-> Headline(format).failed,
                           skipped |-> Headline(format).skipped]
             /\ printing' = "printed"
       \/ /\ printing' = "failed"
          /\ UNCHANGED report
    /\ UNCHANGED <<vars, invalid, saved>>

EvaluatorStep == Next /\ UNCHANGED outputVars

OutputNext == EvaluatorStep \/ SaveLastResult \/ PrintResults

OutputSpec == OutputInit /\ [][OutputNext]_<<vars, outputVars>>

-----------------------------------------------------------------------------
(* Correctness: each report against the files themselves and the exit status. *)

\* wereViolationsFound: the exit status says there is something to fix.
WereViolationsFound == DOMAIN invalid # {} \/ summary.failedRules > 0

Told(entries) == {<<e.file, e.part, e.rule>> :
                    e \in {x \in entries : x.failure /\ ~x.skipped}}

InvalidItems  == {<<n, invalid[n], NoRule>> : n \in DOMAIN invalid}
ViolatedItems == {<<p[1], "policy", p[2]>> :
                    p \in {q \in Names \X Rules : Violates(q[1], q[2])}}

\* Every format but SARIF tells exactly the invalid files and the rules some
\* configuration of the file violates without a skip annotation, and something
\* exactly when the exit status says so; so does the result saved in CI.
FailuresTold ==
    /\ printing = "printed" /\ report.format # "sarif" =>
          /\ Told(report.entries) = InvalidItems \cup ViolatedItems
          /\ (Told(report.entries) # {}) <=> WereViolationsFound
    /\ saved.content = "new" => Told(saved.entries) = InvalidItems \cup ViolatedItems

\* SARIF tells every violation, those the annotations skip too, and no invalid
\* file: it can be empty when the exit status is not, and the other way round.
SarifTellsViolations ==
    printing = "printed" /\ report.format = "sarif" =>
        Told(report.entries) =
            {<<q[1], "policy", q[2]>> : q \in
               {p \in Names \X Rules :
                  \E c \in Configs(p[1]) : ~Holds(schemas[p[2]], c.data)}}

\* Whatever the format, a report agrees with the files and with the exit status.
ReportsTellVerdict == FailuresTold /\ SarifTellsViolations

PolicyEntries(failure, skipped) ==
    Cardinality({e \in report.entries : /\ e.part = "policy"
                                        /\ e.failure = failure /\ e.skipped = skipped})

BothPairs == FailedPairs(failed) \cap SkippedPairs(failed)

\* The counts printed beside the entries are the numbers of entries: of the rules
\* listed as failed and (unless quiet) as skipped in the text, and, if no file is
\* given twice, of the JUnit cases that fail or are skipped, but for a rule
\* skipped in one configuration of a file and violated in another: it is counted
\* as skipped, its case is not.
CountsMatchEntries ==
    /\ report.format \in {"text", "quiet"} => report.failed = PolicyEntries(TRUE, FALSE)
    /\ report.format = "text" => report.skipped = PolicyEntries(FALSE, TRUE)
    /\ report.format = "JUnit" /\ DistinctNames =>
          /\ report.failed = PolicyEntries(TRUE, FALSE)
          /\ report.skipped = PolicyEntries(TRUE, TRUE) + Cardinality(BothPairs)
=============================================================================
