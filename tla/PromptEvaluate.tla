---------------------------- MODULE PromptEvaluate ----------------------------
(* promptANDevaluat: a model is asked to correct a configuration file, and    *)
(* its answer is saved, validated with kubeval, scanned with three tools      *)
(* (K8sMultiScanner) and given the score 0 or 1.  Calls follow one another    *)
(* (ExtractFilesFromGithub) until one throws, which ends the program.         *)
EXTENDS Subprocess, SequencesExt

CONSTANTS MaxCalls,    \* bound: calls of promptANDevaluat
          Answers,     \* files a model may answer with
          Found        \* [answer -> [tool -> sequence of rules]]: what a tool
                       \* lists for a file, a rule once for every place

Tools == <<"snyk", "datree", "kube-score">>

ASSUME MaxCallsAssumption == MaxCalls \in Nat
ASSUME FoundAssumption ==
    \A a \in Answers, t \in Range(Tools) : Found[a][t] \in Seq(Range(Found[a][t]))

VARIABLES
    pc,          \* "call", "kubeval", "scan", "correct", "again", "ended"
    tool,        \* index of the tool that scans
    saved,       \* temp.yaml: the last answer
    scanned,     \* temp/temp.yaml, a file nothing in the program writes
    findings,    \* findings per tool so far: sequences of [tool, ruleId]
    score,       \* of the last call: 0, 1, or "thrown"
    calls

vars == <<proc, pc, tool, saved, scanned, findings, score, calls>>
eval == <<saved, scanned, calls>>

NoFile == "none"

TypeOK ==
    /\ SubprocessTypeOK
    /\ pc \in {"call", "kubeval", "scan", "correct", "again", "ended"}
    /\ tool \in 1..Len(Tools) + 1
    /\ saved \in Answers \cup {NoFile} /\ scanned \in Answers \cup {NoFile}
    /\ \A i \in 1..Len(findings) : findings[i].tool \in Range(Tools)
    /\ pc = "call" => exec = "idle" /\ child # "running"
    /\ score \in {"none", "zero", "one", "thrown"}
    /\ calls \in 0..MaxCalls

Init ==
    /\ SubprocessInit
    /\ pc = "call"
    /\ tool = 1
    /\ saved = NoFile
    /\ scanned \in Answers \cup {NoFile}
    /\ findings = << >>
    /\ score = "none"
    /\ calls = 0

Returned(s) == pc' = "call" /\ score' = s /\ calls' = calls + 1
Thrown == pc' = "ended" /\ score' = "thrown" /\ calls' = calls + 1

-----------------------------------------------------------------------------
\* generate: the request fails (and promptANDevaluat throws), or the answer is
\* saved as temp.yaml.
Generate ==
    /\ pc = "call" /\ calls < MaxCalls
    /\ findings' = << >> /\ tool' = 1
    /\ \/ Thrown /\ UNCHANGED saved
       \/ /\ \E a \in Answers : saved' = a
          /\ pc' = "kubeval" /\ score' = "none" /\ UNCHANGED calls
    /\ exec' = "idle"
    /\ UNCHANGED <<child, program, size, blank, pipe, buffer, pump, heir, scanned>>

\* pb.start of kubeval.
StartKubeval ==
    /\ pc \in {"kubeval", "again"} /\ exec = "idle"
    /\ StartChild(Programs, [Streams -> BOOLEAN])
    /\ UNCHANGED <<pc, tool, findings, score, eval>>

JoinKubeval ==
    /\ pc \in {"kubeval", "again"}
    /\ Join(FALSE)
    /\ UNCHANGED <<pc, tool, findings, score, eval>>

\* The answer counts as invalid when kubeval printed anything but white space; a
\* failure of kubeval is thrown.  A file that is scanned but absent is thrown as
\* well.
KubevalDone ==
    /\ pc \in {"kubeval", "again"}
    /\ exec \in {"collected", "failed"}
    /\ exec' = "idle"
    /\ \/ exec = "failed" /\ Thrown
       \/ /\ exec = "collected" /\ \E s \in Streams : ~Blank(s)
          /\ Returned("zero")
       \/ /\ exec = "collected" /\ \A s \in Streams : MayBeBlank(s)
          /\ CASE pc = "again" -> Returned("zero")
               [] pc = "kubeval" /\ scanned = NoFile -> Thrown
               [] OTHER -> pc' = "scan" /\ UNCHANGED <<score, calls>>
    /\ UNCHANGED <<child, program, size, blank, pipe, buffer, pump, heir, tool,
                   findings, saved, scanned>>

-----------------------------------------------------------------------------
(* scanMisconfigurations: the tools one after the other.                     *)

\* A tool prints its findings as one JSON document on its output: nothing is
\* printed only when there is nothing to say.
Says(t) == Found[scanned][t] # << >>
ToolPrograms == {p \in Programs : Says(Tools[tool]) => Count("out", p) > 0}
ToolBlanks   == {b \in [Streams -> BOOLEAN] : Says(Tools[tool]) => ~b["out"]}

StartTool ==
    /\ pc = "scan" /\ exec = "idle" /\ tool <= Len(Tools)
    /\ StartChild(ToolPrograms, ToolBlanks)
    /\ UNCHANGED <<pc, tool, findings, score, eval>>

JoinTool ==
    /\ pc = "scan"
    /\ Join(TRUE)
    /\ UNCHANGED <<pc, tool, findings, score, eval>>

Labelled(t, rules) == [i \in DOMAIN rules |-> [tool |-> t, ruleId |-> rules[i]]]

\* dedupKeepOrder keeps the first place of each tool and rule.
DedupKeepOrder(rows) ==
    FoldLeft(LAMBDA kept, r : IF r \in Range(kept) THEN kept ELSE Append(kept, r),
             << >>, rows)

\* (Mutant: an output that was cut short is used as far as it goes.)
ParsedPrefix(rows) ==
    IF Complete("out") THEN rows ELSE SelectSeq(rows, LAMBDA r : r = rows[1])

\* readTree: a document cut short cannot be parsed.
Parsed(rows) == IF Complete("out") THEN rows ELSE << >>

\* runJsonTool: an exec that threw, an empty output and an output that cannot
\* be parsed all give no findings.
ToolDone ==
    /\ pc = "scan" /\ exec \in {"collected", "failed"}
    /\ exec' = "idle"
    /\ LET rows == Labelled(Tools[tool], Found[scanned][Tools[tool]])
       IN  findings' = IF exec = "collected" /\ buffer["out"] > 0
                       THEN DedupKeepOrder(findings \o Parsed(rows))
                       ELSE findings
    /\ tool' = tool + 1
    /\ UNCHANGED <<child, program, size, blank, pipe, buffer, pump, heir, pc, score, eval>>

\* No finding: score 1.  Otherwise the sections of the scanned file are
\* corrected; their file name lies in a directory that need not exist, and then
\* writing throws.
Scanned ==
    /\ pc = "scan" /\ exec = "idle" /\ tool > Len(Tools)
    /\ \/ findings = << >> /\ Returned("one")
       \/ findings # << >> /\ pc' = "correct" /\ UNCHANGED <<score, calls>>
    /\ UNCHANGED <<proc, tool, findings, saved, scanned>>

WriteCorrected ==
    /\ pc = "correct"
    /\ \/ Thrown
       \/ pc' = "again" /\ UNCHANGED <<score, calls>>
    /\ UNCHANGED <<proc, tool, findings, saved, scanned>>

\* The steps of the child, its heir and the pumps, and waitFor.
ProcessStep ==
    /\ \/ ChildWrite \/ WriteLost \/ ChildExit \/ HeirExit
       \/ (\E s \in Streams : Pump(s)) \/ WaitFor
    /\ UNCHANGED <<pc, tool, findings, score, eval>>

CallerStep ==
    \/ Generate \/ StartKubeval \/ JoinKubeval \/ KubevalDone
    \/ StartTool \/ JoinTool \/ ToolDone \/ Scanned \/ WriteCorrected

Next == CallerStep \/ ProcessStep

Spec == Init /\ [][Next]_vars

\* The caller, its timers and the pump threads keep going; the child and its
\* heir may hang.
FairSpec ==
    /\ Spec /\ WF_vars(CallerStep)
    /\ WF_vars(WaitFor /\ UNCHANGED <<pc, tool, findings, score, eval>>)
    /\ \A s \in Streams :
          WF_vars(Pump(s) /\ UNCHANGED <<pc, tool, findings, score, eval>>)

-----------------------------------------------------------------------------
(* Properties.                                                               *)

\* An answer is scanned only if kubeval had nothing but white space to say about
\* it, on either stream, or a pump thread failed: no complaint is lost between
\* the pipes, the pumps and the caller but by an IOException that is ignored.
KubevalVerdict ==
    [][pc = "kubeval" /\ pc' = "scan" =>
          \/ \A s \in Streams : size[s] = 0 \/ blank[s]
          \/ \E s \in Streams : pump[s] = "broken"]_vars

\* Whatever fails, is late or is cut short while the tools run, a tool
\* contributes all the rules it found or none, and no rule twice.
FindingsAllOrNone ==
    /\ \A i, j \in 1..Len(findings) : findings[i] = findings[j] => i = j
    /\ \A t \in Range(Tools) :
          {f.ruleId : f \in {g \in Range(findings) : g.tool = t}}
             \in {{}, IF scanned = NoFile THEN {} ELSE Range(Found[scanned][t])}

\* The pumps of kubeval are waited for as long as a process it has left behind
\* keeps a pipe open.
HeirAwaited ==
    pc \in {"kubeval", "again"} /\ exec \in {"joinOut", "joinErr"} /\ heir

\* A call returns or throws, though the children and what the tools leave behind
\* hang; but for a process left behind by kubeval.
CallEnds == pc # "call" ~> pc \in {"call", "ended"} \/ HeirAwaited

\* A pipe does not stay full: a child that writes much on one stream never
\* waits for a caller that reads the other.
PipesDrained == \A s \in Streams : pipe[s] = Capacity ~> pipe[s] < Capacity

\* ExtractFilesFromGithub prints the sum of the scores as the number of
\* configurations that were corrected: an answer with the score 1 would be one
\* in which the tools find nothing.  (Does not hold.)
ScoreCountsCorrections ==
    score = "one" => \A t \in Range(Tools) : Found[saved][t] = << >>
=============================================================================
