-------------------------- MODULE TestPipelineProofs --------------------------
(* Proofs about TestPipeline, for every number of paths, every set of         *)
(* workers (so every channel capacity) and every content of the files:        *)
(*   TypeCorrect        Spec => []TypeOK                                      *)
(*   SendSafety         Spec => []NoSendOnClosed                              *)
(*   NoFileLost         Spec => []EveryFileHasVerdict                         *)
(*   RaceFree           Spec => NoWriteAfterWait                              *)
(*   VerdictsSound      Spec => []VerdictSound                                *)
(*   AuditImplemented   Spec => Audit!Safety                                  *)
(*   EachReportedOnce   Spec => []ReportedOnce                                *)
(*   WarningsFit        Spec => []WarningsMatchVerdicts                       *)
(*   SummaryCounts      Spec => []SummaryCountsChecked                        *)
(* The inductive invariant Inv says who may send where (Routed), what a       *)
(* closed channel implies about those who feed it (ClosedLate), what an       *)
(* exited goroutine has left behind (ExitedLate), which goroutines a stage of *)
(* the main goroutine has started (Staged), what the wait group counts        *)
(* (Counted) and where every occurrence is (Located).  On top of it, the      *)
(* second half: an occurrence is on its way in one place only (OnePlace,      *)
(* OneCopy), and wherever it is, the file deserves to be there (Vouched).     *)
(* One goroutine at a time has a verdict to send (OneHolder) and no more      *)
(* copies of it are about than are due (Bounded).  A warning goes with a      *)
(* valid file (WarningsSound) and is on its way until it is recorded          *)
(* (WarningsKept).                                                            *)
EXTENDS TestPipeline, FiniteSetTheorems, SequenceTheorems, TLAPS

\* The channels a goroutine sends to.
Outputs(g) == IF g = "feeder" THEN {"paths"}
              ELSE IF g \in Workers THEN {"yaml", "badYaml"}
              ELSE IF g = "filter" THEN {"k8s", "ignored"}
              ELSE IF g = "validator" THEN {"invalid", "valid", "warning"}
              ELSE {}

\* The helper that closes a channel.
Closer(c) == IF c = "paths" THEN "feeder"
             ELSE IF c \in {"yaml", "badYaml"} THEN "coordinator"
             ELSE IF c \in {"k8s", "ignored"} THEN "filter"
             ELSE "validator"

Running == {a \in Aggregators : alive[a] = "running"}

Routed ==
    /\ \A g \in Goroutines : \A s \in ToSet(hand[g]) : s.to \in Outputs(g)
    /\ \A g \in Goroutines : alive[g] # "running" => hand[g] = <<>>
    /\ \A g \in Helpers : \A c \in ToSet(toClose[g]) : Closer(c) = g

ClosedLate ==
    \A c \in closed : /\ alive[Closer(c)] # "unborn"
                      /\ hand[Closer(c)] = <<>>
                      /\ InputEnded(Closer(c))

ExitedLate ==
    /\ \A w \in Workers : alive[w] = "exited" => Drained("paths")
    /\ \A a \in Aggregators : alive[a] = "exited" => Drained(a)

Staged ==
    /\ mainPc = "extract" => \A g \in Goroutines : alive[g] = "unborn"
    /\ mainPc = "filter" => opts.onlyK8s
    /\ mainPc # "extract" => alive["badYaml"] # "unborn"
    /\ mainPc \in {"wait", "done"} =>
          \A a \in {"valid", "invalid", "warning"} : alive[a] # "unborn"
    /\ mainPc \in {"extract", "filter", "validate"} =>
          \A g \in {"validator", "valid", "invalid", "warning"} : alive[g] = "unborn"
    /\ (mainPc \in {"extract", "filter"} \/ ~opts.onlyK8s) =>
          /\ alive["filter"] = "unborn" /\ alive["ignored"] = "unborn"
          /\ chan["k8s"] = <<>> /\ chan["ignored"] = <<>>
    /\ (opts.onlyK8s /\ mainPc \in {"validate", "wait", "done"}) =>
          alive["ignored"] # "unborn"

Counted == wg = Cardinality(Running)

InHand(o) == \E g \in Goroutines : \E s \in ToSet(hand[g]) :
                s.to # "warning" /\ s.msg.occ = o

InChannel(o) == \E c \in Channels \ {"warning"} : \E m \in ToSet(chan[c]) : m.occ = o

Listed(o) == \E v \in Verdicts : o \in ListedAs(v)

Located == mainPc # "extract" =>
              \A o \in Occ : InHand(o) \/ InChannel(o) \/ Listed(o)

FinalCount == mainPc = "done" => wg = 0

Inv == /\ TypeOK /\ Routed /\ ClosedLate /\ ExitedLate /\ Staged /\ Counted
       /\ Located /\ FinalCount
-----------------------------------------------------------------------------
(***************************************************************************)
(* Sequences as the sets of their elements.                                *)
(***************************************************************************)
LEMMA EmptyElements ==
  ASSUME NEW S, NEW s \in Seq(S)
  PROVE  /\ ToSet(<<>>) = {}
         /\ ToSet(s) = {} <=> s = <<>>
         /\ ToSet(s) \subseteq S
<1>1. ToSet(<<>>) = {}
  BY DEF ToSet
<1>2. ASSUME s # <<>> PROVE ToSet(s) # {}
  <2>1. 1 \in DOMAIN s
    BY <1>2, EmptySeq, LenProperties
  <2> QED BY <2>1 DEF ToSet
<1>3. ToSet(s) \subseteq S
  BY ElementOfSeq, LenProperties DEF ToSet
<1> QED BY <1>1, <1>2, <1>3

LEMMA AppendElements ==
  ASSUME NEW S, NEW s \in Seq(S), NEW e \in S
  PROVE  /\ Append(s, e) \in Seq(S)
         /\ ToSet(Append(s, e)) = ToSet(s) \cup {e}
<1>1. Append(s, e) \in Seq(S)
  OBVIOUS
<1>2. ToSet(Append(s, e)) \subseteq ToSet(s) \cup {e}
  BY DEF ToSet
<1>3. e \in ToSet(Append(s, e))
  <2>1. Len(s) + 1 \in DOMAIN Append(s, e) /\ Append(s, e)[Len(s) + 1] = e
    OBVIOUS
  <2> QED BY <2>1 DEF ToSet
<1>4. ASSUME NEW i \in DOMAIN s PROVE s[i] \in ToSet(Append(s, e))
  <2>1. i \in DOMAIN Append(s, e) /\ Append(s, e)[i] = s[i]
    OBVIOUS
  <2> QED BY <2>1 DEF ToSet
<1> QED BY <1>1, <1>2, <1>3, <1>4 DEF ToSet

LEMMA HeadTailElements ==
  ASSUME NEW S, NEW s \in Seq(S), s # <<>>
  PROVE  /\ Head(s) \in S
         /\ Tail(s) \in Seq(S)
         /\ ToSet(s) = {Head(s)} \cup ToSet(Tail(s))
<1>1. /\ Head(s) \in S /\ Tail(s) \in Seq(S) /\ Len(Tail(s)) = Len(s) - 1
      /\ Len(s) \in Nat /\ Len(s) > 0 /\ Head(s) = s[1]
      /\ \A i \in 1..Len(Tail(s)) : Tail(s)[i] = s[i + 1]
  BY HeadTailProperties, EmptySeq, LenProperties
<1>2. Head(s) \in ToSet(s)
  BY <1>1 DEF ToSet
<1>3. ToSet(Tail(s)) \subseteq ToSet(s)
  <2>1. ASSUME NEW i \in DOMAIN Tail(s)
        PROVE  i + 1 \in DOMAIN s /\ Tail(s)[i] = s[i + 1]
    BY <1>1
  <2> QED BY <2>1 DEF ToSet
<1>4. ASSUME NEW i \in DOMAIN s
      PROVE  s[i] \in {Head(s)} \cup ToSet(Tail(s))
  <2>1. CASE i = 1
    BY <2>1, <1>1
  <2>2. CASE i # 1
    <3>1. i - 1 \in DOMAIN Tail(s) /\ Tail(s)[i - 1] = s[i]
      BY <2>2, <1>1
    <3> QED BY <3>1 DEF ToSet
  <2> QED BY <2>1, <2>2
<1> QED BY <1>1, <1>2, <1>3, <1>4 DEF ToSet

LEMMA PairElements ==
  /\ \A a : ToSet(<<a>>) = {a}
  /\ \A a, b : ToSet(<<a, b>>) = {a, b}
BY DEF ToSet
-----------------------------------------------------------------------------
(***************************************************************************)
(* Type correctness of the building blocks.                                *)
(***************************************************************************)
LEMMA SendTypes ==
  ASSUME NEW o \in Occ, NEW c \in Channels, NEW kind \in Kinds
  PROVE  /\ To(c, o) \in Sends /\ To(c, o).to = c /\ To(c, o).msg.occ = o
         /\ Warn(o, kind) \in Sends /\ Warn(o, kind).to = "warning"
BY DEF To, Warn, Sends, Messages, Kinds, Channels, Aggregators

\* The handlers: what they hand on is well-typed and goes to their outputs,
\* and a first verdict or hand-over for the occurrence is always part of it.
LEMMA HandlerOutputs ==
  ASSUME TypeOK, NEW o \in Occ
  PROVE  /\ Extracted(o) \in Seq(Sends)
         /\ \A s \in ToSet(Extracted(o)) : s.to \in {"yaml", "badYaml"}
         /\ \E s \in ToSet(Extracted(o)) : s.to # "warning" /\ s.msg.occ = o
         /\ Outcome(o) \in Seq(Sends)
         /\ \A s \in ToSet(Outcome(o)) : s.to \in {"invalid", "valid", "warning"}
         /\ \E s \in ToSet(Outcome(o)) : s.to # "warning" /\ s.msg.occ = o
<1> DEFINE F == {<<To("yaml", o)>>, <<To("badYaml", o)>>}
           R == {<<To("invalid", o), To("invalid", o)>>, <<To("invalid", o)>>,
                 <<To("valid", o)>>, <<To("valid", o), Warn(o, "NetworkError")>>,
                 <<To("valid", o), Warn(o, "Skipped")>>}
<1>1. Extracted(o) \in F
  BY DEF Extracted
<1>2. Outcome(o) \in R
  BY DEF Outcome, Validated
<1>3. /\ \A c \in Channels : To(c, o) \in Sends /\ To(c, o).to = c /\ To(c, o).msg.occ = o
      /\ \A k \in Kinds : Warn(o, k) \in Sends /\ Warn(o, k).to = "warning"
  BY SendTypes DEF Kinds, Channels
<1>4. {"yaml", "badYaml", "invalid", "valid"} \subseteq Channels
      /\ {"NetworkError", "Skipped"} \subseteq Kinds
  BY DEF Channels, Aggregators, Kinds
<1>5. \A e \in F : /\ e \in Seq(Sends)
                   /\ \A s \in ToSet(e) : s.to \in {"yaml", "badYaml"}
                   /\ \E s \in ToSet(e) : s.to # "warning" /\ s.msg.occ = o
  <2>1. SUFFICES ASSUME NEW c \in {"yaml", "badYaml"}
        PROVE  /\ <<To(c, o)>> \in Seq(Sends)
               /\ \A s \in ToSet(<<To(c, o)>>) : s.to \in {"yaml", "badYaml"}
               /\ \E s \in ToSet(<<To(c, o)>>) : s.to # "warning" /\ s.msg.occ = o
    OBVIOUS
  <2>2. ToSet(<<To(c, o)>>) = {To(c, o)}
    BY PairElements
  <2> QED BY <2>2, <1>3, <1>4
<1>6. ASSUME NEW a \in Sends, NEW b \in Sends, a.to \in {"invalid", "valid"},
             a.msg.occ = o, b.to \in {"invalid", "valid", "warning"}
      PROVE  /\ <<a>> \in Seq(Sends) /\ <<a, b>> \in Seq(Sends)
             /\ \A s \in ToSet(<<a>>) : s.to \in {"invalid", "valid", "warning"}
             /\ \A s \in ToSet(<<a, b>>) : s.to \in {"invalid", "valid", "warning"}
             /\ \E s \in ToSet(<<a>>) : s.to # "warning" /\ s.msg.occ = o
             /\ \E s \in ToSet(<<a, b>>) : s.to # "warning" /\ s.msg.occ = o
  <2>1. ToSet(<<a>>) = {a} /\ ToSet(<<a, b>>) = {a, b}
    BY PairElements
  <2> QED BY <2>1, <1>6
<1>7. \A e \in R : /\ e \in Seq(Sends)
                   /\ \A s \in ToSet(e) : s.to \in {"invalid", "valid", "warning"}
                   /\ \E s \in ToSet(e) : s.to # "warning" /\ s.msg.occ = o
  <2> DEFINE Good(e) == /\ e \in Seq(Sends)
                        /\ \A s \in ToSet(e) : s.to \in {"invalid", "valid", "warning"}
                        /\ \E s \in ToSet(e) : s.to # "warning" /\ s.msg.occ = o
  <2>1. /\ To("invalid", o) \in Sends /\ To("invalid", o).to = "invalid"
        /\ To("invalid", o).msg.occ = o
        /\ To("valid", o) \in Sends /\ To("valid", o).to = "valid"
        /\ To("valid", o).msg.occ = o
    BY <1>3, <1>4
  <2>2. \A k \in {"NetworkError", "Skipped"} :
           Warn(o, k) \in Sends /\ Warn(o, k).to = "warning"
    BY <1>3, <1>4
  <2>3. Good(<<To("invalid", o), To("invalid", o)>>) /\ Good(<<To("invalid", o)>>)
    BY <2>1, <1>6
  <2>4. \A k \in {"NetworkError", "Skipped"} : Good(<<To("valid", o), Warn(o, k)>>)
    BY <2>1, <2>2, <1>6
  <2>5. Good(<<To("valid", o)>>)
    BY <2>1, <1>6
  <2> HIDE DEF Good
  <2>6. \A e \in R : Good(e)
    BY <2>3, <2>4, <2>5
  <2> QED BY <2>6 DEF Good
<1> HIDE DEF F, R
<1> QED BY <1>1, <1>2, <1>5, <1>7
-----------------------------------------------------------------------------
(***************************************************************************)
(* The invariant holds initially.                                          *)
(***************************************************************************)
LEMMA InitInv == Init => Inv
<1> SUFFICES ASSUME Init PROVE Inv
  OBVIOUS
<1>1. TypeOK
  <2>1. \A S : <<>> \in Seq(S)
    BY EmptySeq
  <2>2. opts \in Options /\ disk \in [Paths -> [yaml : YamlKinds, statuses : SUBSET Statuses]]
    BY PipelineAssumption DEF Init
  <2> QED BY <2>1, <2>2 DEF Init, TypeOK, Kinds
<1>2. Routed
  <2>1. ToSet(<<>>) = {}
    BY EmptyElements, EmptySeq
  <2> QED BY <2>1 DEF Init, Routed
<1>3. ClosedLate /\ Located /\ FinalCount
  BY DEF Init, ClosedLate, Located, FinalCount
<1>4. ExitedLate
  BY DEF Init, ExitedLate, Goroutines
<1>5. Staged
  BY DEF Init, Staged, Goroutines, Helpers, Aggregators, Channels
<1>6. Counted
  <2>1. Running = {}
    BY DEF Init, Running, Goroutines
  <2> QED BY <2>1, FS_EmptySet DEF Init, Counted
<1> QED BY <1>1, <1>2, <1>3, <1>4, <1>5, <1>6 DEF Inv

(***************************************************************************)
(* Send                                                                    *)
(***************************************************************************)
\* A pending send never goes to a closed channel: the helper that closes it
\* waits for this goroutine, or is this goroutine and holds nothing.
LEMMA OpenTarget ==
  ASSUME TypeOK, Routed, ClosedLate, ExitedLate,
         NEW g \in Goroutines, NEW s \in ToSet(hand[g])
  PROVE  s.to \notin closed
<1>1. s.to \in Outputs(g) /\ hand[g] # <<>> /\ alive[g] = "running"
  <2>1. hand[g] \in Seq(Sends)
    BY DEF TypeOK
  <2>2. ToSet(<<>>) = {}
    BY EmptyElements, <2>1
  <2> QED BY <2>2 DEF Routed
<1> SUFFICES ASSUME s.to \in closed PROVE FALSE
  OBVIOUS
<1>2. /\ hand[Closer(s.to)] = <<>>
      /\ InputEnded(Closer(s.to))
  BY DEF ClosedLate
<1>3. CASE g \in Workers
  <2>1. Closer(s.to) = "coordinator"
    BY <1>1, <1>3, PipelineAssumption DEF Outputs, Closer, Helpers
  <2>2. alive[g] = "exited"
    BY <2>1, <1>2, <1>3 DEF InputEnded, Helpers
  <2> QED BY <1>1, <2>2
<1>4. CASE g \notin Workers
  <2>1. Closer(s.to) = g
    BY <1>1, <1>4 DEF Outputs, Closer
  <2> QED BY <1>1, <1>2, <2>1
<1> QED BY <1>3, <1>4

LEMMA SendInv ==
  ASSUME Inv, NEW g \in Goroutines, Send(g)
  PROVE  Inv'
<1> DEFINE s == Head(hand[g])
<1> USE DEF Inv
<1>1. /\ hand[g] \in Seq(Sends) /\ hand[g] # <<>>
      /\ s \in Sends /\ Tail(hand[g]) \in Seq(Sends)
      /\ ToSet(hand[g]) = {s} \cup ToSet(Tail(hand[g]))
  BY HeadTailElements DEF Send, TypeOK
<1>2. s.to \in Channels /\ s.msg \in Messages /\ s.to \notin closed
      /\ chan[s.to] \in Seq(Messages)
  BY <1>1, OpenTarget DEF Sends, TypeOK
<1>3. /\ chan' = [chan EXCEPT ![s.to] = Append(chan[s.to], s.msg)]
      /\ hand' = [hand EXCEPT ![g] = Tail(hand[g])]
      /\ Append(chan[s.to], s.msg) \in Seq(Messages)
      /\ ToSet(Append(chan[s.to], s.msg)) = ToSet(chan[s.to]) \cup {s.msg}
  BY <1>2, AppendElements DEF Send
<1>4. TypeOK'
  BY <1>1, <1>2, <1>3 DEF Send, TypeOK, input
<1>5. Routed'
  BY <1>1, <1>3 DEF Send, TypeOK, Routed, input
<1>6. \A c \in Channels : Drained(c) => Drained(c)'
  BY <1>2, <1>3 DEF Send, Drained, TypeOK
<1>7. \A h \in Helpers : InputEnded(h) => InputEnded(h)'
  <2>1. Source("filter") \in Channels /\ Source("validator") \in Channels
    BY PipelineAssumption DEF Source, Channels, Aggregators, Helpers
  <2>2. UNCHANGED <<opts, alive>>
    BY DEF Send, input
  <2> QED BY <1>6, <2>1, <2>2 DEF InputEnded, Source
<1>8. \A c \in Channels : Closer(c) \in Helpers
  BY DEF Closer, Helpers
<1>9. ClosedLate'
  <2>1. \A h \in Helpers : hand[h] = <<>> => hand'[h] = <<>>
    BY <1>1, <1>3 DEF TypeOK, Goroutines
  <2>2. UNCHANGED <<closed, alive>>
    BY DEF Send
  <2> QED BY <1>7, <1>8, <2>1, <2>2 DEF ClosedLate, TypeOK
<1>10. ExitedLate'
  BY <1>6 DEF Send, ExitedLate, Channels
<1>11. Staged'
  <2>1. s.to \in Outputs(g) /\ alive[g] = "running"
    BY <1>1 DEF Routed
  <2>2. g = "filter" \/ s.to \notin {"k8s", "ignored"}
    BY <2>1 DEF Outputs
  <2>3. \A c \in {"k8s", "ignored"} : alive["filter"] = "unborn" => chan'[c] = chan[c]
    BY <1>2, <1>3, <2>1, <2>2 DEF TypeOK, Channels, Aggregators
  <2> QED BY <2>3 DEF Send, Staged, input
<1>12. Counted' /\ FinalCount'
  BY DEF Send, Counted, FinalCount, Running
<1>13. Located'
  <2> SUFFICES ASSUME mainPc # "extract", NEW o \in Occ
               PROVE  InHand(o)' \/ InChannel(o)' \/ Listed(o)'
    BY DEF Send, Located
  <2>1. CASE InHand(o)
    <3>0. PICK h \in Goroutines :
             \E t \in ToSet(hand[h]) : t.to # "warning" /\ t.msg.occ = o
      BY <2>1 DEF InHand
    <3>1. PICK t \in ToSet(hand[h]) : t.to # "warning" /\ t.msg.occ = o
      BY <3>0
    <3>2. CASE h = g /\ t = s
      <4>1. s.msg \in ToSet(chan'[s.to])
        BY <1>2, <1>3 DEF TypeOK
      <4> QED BY <4>1, <3>1, <3>2, <1>2 DEF InChannel
    <3>3. CASE ~(h = g /\ t = s)
      <4>1. t \in ToSet(hand'[h])
        BY <3>3, <1>1, <1>3 DEF TypeOK
      <4> QED BY <4>1, <3>1 DEF InHand
    <3> QED BY <3>2, <3>3
  <2>2. CASE InChannel(o)
    <3>1. \A c \in Channels : ToSet(chan[c]) \subseteq ToSet(chan'[c])
      BY <1>2, <1>3 DEF TypeOK
    <3> QED BY <2>2, <3>1 DEF InChannel
  <2>3. CASE Listed(o)
    BY <2>3 DEF Listed, ListedAs, Send
  <2> QED BY <2>1, <2>2, <2>3 DEF Located
<1> QED BY <1>4, <1>5, <1>9, <1>10, <1>11, <1>12, <1>13

(***************************************************************************)
(* Receiving steps.                                                        *)
(***************************************************************************)
\* A closed channel that is empty stays so while channels only lose messages;
\* this is what keeps ClosedLate and ExitedLate true.
LEMMA DrainedStable ==
  ASSUME TypeOK, opts' = opts, closed \subseteq closed',
         \A c \in closed : chan[c] = <<>> => chan'[c] = <<>>,
         \A w \in Workers : alive[w] = "exited" => alive'[w] = "exited"
  PROVE  /\ \A c \in Channels : Drained(c) => Drained(c)'
         /\ \A h \in Helpers : InputEnded(h) => InputEnded(h)'
<1>1. \A c \in Channels : Drained(c) => Drained(c)'
  BY DEF Drained
<1>2. /\ Source("filter") \in Channels /\ Source("validator") \in Channels
      /\ Source("filter")' = Source("filter") /\ Source("validator")' = Source("validator")
  BY PipelineAssumption DEF Source, Channels, Aggregators, Helpers
<1>3. ASSUME NEW h \in Helpers, InputEnded(h) PROVE InputEnded(h)'
  <2>1. CASE h = "feeder" \/ h = "coordinator"
    BY <2>1, <1>3 DEF InputEnded
  <2>2. CASE h = "filter"
    BY <2>2, <1>1, <1>2, <1>3 DEF InputEnded
  <2>3. CASE h = "validator"
    BY <2>3, <1>1, <1>2, <1>3 DEF InputEnded
  <2> QED BY <2>1, <2>2, <2>3 DEF Helpers
<1> QED BY <1>1, <1>3

LEMMA ReceiveInv ==
  ASSUME Inv, NEW g \in Workers \cup {"filter", "validator"}, NEW e \in Seq(Sends),
         Idle(g), chan[Source(g)] # <<>>,
         hand' = [hand EXCEPT ![g] = e],
         chan' = [chan EXCEPT ![Source(g)] = Tail(@)],
         \A s \in ToSet(e) : s.to \in Outputs(g),
         \E s \in ToSet(e) : s.to # "warning" /\ s.msg.occ = Head(chan[Source(g)]).occ,
         UNCHANGED <<input, present, mainPc, alive, closed, toClose, collected,
                     warnings, wg>>
  PROVE  Inv'
<1> USE DEF Inv
<1> DEFINE c == Source(g)
<1>1. c \in {"paths", "yaml", "k8s"}
  BY PipelineAssumption DEF Source, Helpers
<1>2. /\ c \in Channels /\ g \in Goroutines
      /\ chan[c] \in Seq(Messages) /\ chan[c] # <<>>
      /\ Head(chan[c]) \in Messages /\ Tail(chan[c]) \in Seq(Messages)
      /\ ToSet(chan[c]) = {Head(chan[c])} \cup ToSet(Tail(chan[c]))
      /\ chan' = [chan EXCEPT ![c] = Tail(chan[c])]
  BY <1>1, HeadTailElements DEF TypeOK, Channels, Goroutines, Helpers
<1> HIDE DEF c
<1>3. TypeOK'
  BY <1>2 DEF TypeOK, input
<1>4. Routed'
  BY <1>2 DEF Routed, Idle, TypeOK
<1>5. /\ \A d \in Channels : Drained(d) => Drained(d)'
      /\ \A h \in Helpers : InputEnded(h) => InputEnded(h)'
  <2>1. \A d \in closed : chan[d] = <<>> => chan'[d] = <<>>
    BY <1>2 DEF TypeOK
  <2> QED BY <2>1, DrainedStable DEF input
<1>6. ClosedLate'
  <2> SUFFICES ASSUME NEW d \in closed
               PROVE  (/\ alive[Closer(d)] # "unborn"
                       /\ hand[Closer(d)] = <<>>
                       /\ InputEnded(Closer(d)))'
    BY DEF ClosedLate
  <2>1. Closer(d) \in Helpers
    BY DEF Closer, Helpers
  <2>2. Closer(d) # g
    <3>1. ASSUME Closer(d) = g PROVE FALSE
      <4>1. g \in {"filter", "validator"} /\ InputEnded(g)
        BY <3>1, <2>1, PipelineAssumption DEF ClosedLate
      <4>2. Drained(c)
        BY <4>1 DEF InputEnded, c
      <4> QED BY <4>2, <1>2 DEF Drained
    <3> QED BY <3>1
  <2>3. hand'[Closer(d)] = hand[Closer(d)]
    BY <2>1, <2>2 DEF TypeOK, Goroutines
  <2> QED BY <1>5, <2>1, <2>3 DEF ClosedLate
<1>7. ExitedLate'
  BY <1>5 DEF ExitedLate, Channels
<1>8. Staged'
  <2>1. \A d \in {"k8s", "ignored"} : chan[d] = <<>> => chan'[d] = <<>>
    BY <1>2 DEF TypeOK, Channels, Aggregators
  <2> QED BY <2>1 DEF Staged, input
<1>9. Counted' /\ FinalCount'
  BY DEF Counted, FinalCount, Running
<1>10. Located'
  <2> SUFFICES ASSUME mainPc # "extract", NEW o \in Occ
               PROVE  InHand(o)' \/ InChannel(o)' \/ Listed(o)'
    BY DEF Located
  <2>1. CASE o = Head(chan[c]).occ
    <3>1. hand'[g] = e
      BY <1>2 DEF TypeOK
    <3> QED BY <2>1, <3>1, <1>2 DEF InHand, c
  <2>2. CASE InHand(o)
    <3>1. PICK h \in Goroutines :
             \E t \in ToSet(hand[h]) : t.to # "warning" /\ t.msg.occ = o
      BY <2>2 DEF InHand
    <3>2. h # g
      BY <3>1, EmptyElements, EmptySeq DEF Idle
    <3>3. hand'[h] = hand[h]
      BY <3>2 DEF TypeOK
    <3> QED BY <3>1, <3>3 DEF InHand
  <2>3. CASE InChannel(o) /\ o # Head(chan[c]).occ
    <3>1. PICK d \in Channels \ {"warning"} : \E m \in ToSet(chan[d]) : m.occ = o
      BY <2>3 DEF InChannel
    <3>2. \E m \in ToSet(chan'[d]) : m.occ = o
      BY <3>1, <2>3, <1>2 DEF TypeOK
    <3> QED BY <3>2 DEF InChannel
  <2>4. CASE Listed(o)
    BY <2>4 DEF Listed, ListedAs
  <2> QED BY <2>1, <2>2, <2>3, <2>4 DEF Located
<1> QED BY <1>3, <1>4, <1>6, <1>7, <1>8, <1>9, <1>10

LEMMA HeadOcc ==
  ASSUME TypeOK, NEW c \in Channels, chan[c] # <<>>
  PROVE  Head(chan[c]) \in Messages /\ Head(chan[c]).occ \in Occ
<1>1. Head(chan[c]) \in Messages
  BY HeadTailElements DEF TypeOK
<1> QED BY <1>1 DEF Messages

LEMMA ExtractInv ==
  ASSUME Inv, NEW w \in Workers, ExtractFile(w)
  PROVE  Inv'
<1> DEFINE o == Head(chan["paths"]).occ
<1>1. Source(w) = "paths" /\ chan["paths"] # <<>> /\ o \in Occ
  BY HeadOcc DEF Source, ExtractFile, Receive, Inv, Channels
<1>2. /\ Extracted(o) \in Seq(Sends)
      /\ \A s \in ToSet(Extracted(o)) : s.to \in {"yaml", "badYaml"}
      /\ \E s \in ToSet(Extracted(o)) : s.to # "warning" /\ s.msg.occ = o
  BY <1>1, HandlerOutputs DEF Inv
<1>3. Outputs(w) = {"yaml", "badYaml"}
  BY PipelineAssumption DEF Outputs, Helpers
<1> QED BY <1>1, <1>2, <1>3, ReceiveInv DEF ExtractFile, Receive

LEMMA ValidateInv ==
  ASSUME Inv, ValidateFile
  PROVE  Inv'
<1> DEFINE c == Source("validator")
           o == Head(chan[c]).occ
<1>1. c \in Channels /\ chan[c] # <<>> /\ o \in Occ
  BY HeadOcc, PipelineAssumption DEF Source, ValidateFile, Receive, Inv, Channels, Helpers
<1>2. /\ Outcome(o) \in Seq(Sends)
      /\ \A s \in ToSet(Outcome(o)) : s.to \in {"invalid", "valid", "warning"}
      /\ \E s \in ToSet(Outcome(o)) : s.to # "warning" /\ s.msg.occ = o
  BY <1>1, HandlerOutputs DEF Inv
<1>3. Outputs("validator") = {"invalid", "valid", "warning"}
  BY PipelineAssumption DEF Outputs, Helpers
<1>4. /\ Idle("validator") /\ chan[c] # <<>>
      /\ hand' = [hand EXCEPT !["validator"] = Outcome(o)]
      /\ chan' = [chan EXCEPT ![c] = Tail(@)]
      /\ UNCHANGED <<input, present, mainPc, alive, closed, toClose, collected,
                     warnings, wg>>
  BY DEF ValidateFile, Receive
<1> QED BY <1>1, <1>2, <1>3, <1>4, ReceiveInv

LEMMA FilterInv ==
  ASSUME Inv, FilterFile
  PROVE  Inv'
<1> DEFINE o == Head(chan["yaml"]).occ
           d == IF disk[path[o]].yaml = "k8s" THEN "k8s" ELSE "ignored"
<1>1. Source("filter") = "yaml"
  BY PipelineAssumption DEF Source, Helpers
<1>2. o \in Occ
  BY <1>1, HeadOcc DEF FilterFile, Receive, Inv, Channels
<1>3. /\ <<To(d, o)>> \in Seq(Sends) /\ ToSet(<<To(d, o)>>) = {To(d, o)}
      /\ To(d, o).to = d /\ To(d, o).msg.occ = o
  <2>1. d \in Channels /\ "none" \in Kinds
    BY DEF Channels, Aggregators, Kinds
  <2> HIDE DEF o, d
  <2>2. To(d, o) \in Sends /\ To(d, o).to = d /\ To(d, o).msg.occ = o
    BY <1>2, <2>1, SendTypes
  <2>3. <<To(d, o)>> \in Seq(Sends)
    BY <2>2
  <2> QED BY <2>2, <2>3, PairElements
<1>4. hand' = [hand EXCEPT !["filter"] = <<To(d, o)>>]
  BY <1>1 DEF FilterFile, Receive
<1>5. Outputs("filter") = {"k8s", "ignored"}
  BY PipelineAssumption DEF Outputs, Helpers
<1> HIDE DEF d
<1>6. d \in {"k8s", "ignored"}
  BY DEF d
<1> QED BY <1>1, <1>2, <1>3, <1>4, <1>5, <1>6, ReceiveInv DEF FilterFile, Receive

(***************************************************************************)
(* Closing and exiting.                                                    *)
(***************************************************************************)
LEMMA CloseInv ==
  ASSUME Inv, NEW g \in Helpers, Close(g)
  PROVE  Inv'
<1> USE DEF Inv
<1> DEFINE c == Head(toClose[g])
<1>1. /\ toClose[g] \in Seq(Channels) /\ toClose[g] # <<>>
      /\ c \in Channels /\ Tail(toClose[g]) \in Seq(Channels)
      /\ ToSet(toClose[g]) = {c} \cup ToSet(Tail(toClose[g]))
  BY HeadTailElements DEF Close, TypeOK
<1>2. /\ g \in Goroutines /\ g \notin Workers /\ g \notin Aggregators
      /\ alive[g] = "running" /\ hand[g] = <<>> /\ InputEnded(g)
  BY PipelineAssumption DEF Close, Idle, Goroutines, Helpers, Aggregators
<1>3. Closer(c) = g
  BY <1>1 DEF Routed
<1>4. /\ closed' = closed \cup {c}
      /\ toClose' = [toClose EXCEPT ![g] = Tail(toClose[g])]
      /\ \A h \in Goroutines : h # g => alive'[h] = alive[h]
      /\ alive'[g] \in {"running", "exited"}
      /\ alive' \in [Goroutines -> {"unborn", "running", "exited"}]
  BY <1>2 DEF Close, TypeOK
<1> HIDE DEF c
<1>5. TypeOK'
  BY <1>1, <1>2, <1>4 DEF Close, TypeOK, input
<1>6. Routed'
  <2>1. \A h \in Goroutines : alive'[h] # "running" => hand'[h] = <<>>
    BY <1>2, <1>4 DEF Close, Routed
  <2>2. \A h \in Helpers : \A d \in ToSet(toClose'[h]) : Closer(d) = h
    BY <1>1, <1>4 DEF TypeOK, Routed
  <2> QED BY <2>1, <2>2 DEF Close, Routed
<1>7. /\ \A d \in Channels : Drained(d) => Drained(d)'
      /\ \A h \in Helpers : InputEnded(h) => InputEnded(h)'
  <2>1. \A w \in Workers : alive[w] = "exited" => alive'[w] = "exited"
    BY <1>2, <1>4 DEF Goroutines
  <2> QED BY <2>1, <1>4, DrainedStable DEF Close, input
<1>8. ClosedLate'
  <2>1. \A d \in Channels : Closer(d) \in Helpers
    BY DEF Closer, Helpers
  <2>2. \A h \in Goroutines : alive[h] # "unborn" => alive'[h] # "unborn"
    BY <1>4
  <2>3. Helpers \subseteq Goroutines
    BY DEF Goroutines
  <2> QED BY <1>2, <1>3, <1>4, <1>7, <2>1, <2>2, <2>3 DEF Close, ClosedLate, TypeOK
<1>9. ExitedLate'
  <2>1. \A h \in Workers \cup Aggregators : alive'[h] = alive[h]
    BY <1>2, <1>4 DEF Goroutines
  <2> QED BY <2>1, <1>7 DEF ExitedLate, Channels
<1>10. Staged'
  <2>1. \A h \in Goroutines : alive[h] = "unborn" <=> alive'[h] = "unborn"
    BY <1>2, <1>4
  <2>2. {"badYaml", "valid", "invalid", "warning", "ignored", "validator", "filter"}
          \subseteq Goroutines
    BY DEF Goroutines, Helpers, Aggregators
  <2> QED BY <2>1, <2>2 DEF Close, Staged, input
<1>11. Counted' /\ FinalCount'
  <2>1. Running' = Running
    BY <1>2, <1>4 DEF Running, Goroutines
  <2> QED BY <2>1 DEF Close, Counted, FinalCount
<1>12. Located'
  BY DEF Close, Located, InHand, InChannel, Listed, ListedAs
<1> QED BY <1>5, <1>6, <1>8, <1>9, <1>10, <1>11, <1>12

LEMMA WorkerExitInv ==
  ASSUME Inv, NEW w \in Workers, WorkerExits(w)
  PROVE  Inv'
<1> USE DEF Inv
<1>1. /\ w \in Goroutines /\ w \notin Helpers /\ w \notin Aggregators
      /\ alive[w] = "running" /\ hand[w] = <<>> /\ Drained("paths")
      /\ alive' = [alive EXCEPT ![w] = "exited"]
  BY PipelineAssumption DEF WorkerExits, Idle, Goroutines
<1>2. TypeOK'
  BY <1>1 DEF WorkerExits, TypeOK, input
<1>3. Routed'
  BY <1>1 DEF WorkerExits, Routed, TypeOK
<1>4. /\ \A d \in Channels : Drained(d) => Drained(d)'
      /\ \A h \in Helpers : InputEnded(h) => InputEnded(h)'
  <2>1. \A v \in Workers : alive[v] = "exited" => alive'[v] = "exited"
    BY <1>1 DEF TypeOK, Goroutines
  <2> QED BY <2>1, DrainedStable DEF WorkerExits, input
<1>5. ClosedLate'
  <2>1. \A d \in Channels : Closer(d) \in Helpers /\ Closer(d) # w
    BY <1>1 DEF Closer, Helpers
  <2> QED BY <1>1, <1>4, <2>1 DEF WorkerExits, ClosedLate, TypeOK, Goroutines
<1>6. ExitedLate'
  BY <1>1, <1>4 DEF WorkerExits, ExitedLate, Channels, TypeOK, Goroutines
<1>7. Staged'
  <2>1. \A h \in Goroutines : alive[h] = "unborn" <=> alive'[h] = "unborn"
    BY <1>1 DEF TypeOK
  <2>2. {"badYaml", "valid", "invalid", "warning", "ignored", "validator", "filter"}
          \subseteq Goroutines
    BY DEF Goroutines, Helpers, Aggregators
  <2> QED BY <2>1, <2>2 DEF WorkerExits, Staged, input
<1>8. Counted' /\ FinalCount'
  <2>1. Running' = Running
    BY <1>1 DEF Running, Goroutines, TypeOK
  <2> QED BY <2>1 DEF WorkerExits, Counted, FinalCount
<1>9. Located'
  BY DEF WorkerExits, Located, InHand, InChannel, Listed, ListedAs
<1> QED BY <1>2, <1>3, <1>5, <1>6, <1>7, <1>8, <1>9

LEMMA FiniteRunning == IsFiniteSet(Running)
<1>1. IsFiniteSet(Aggregators)
  <2>1. Aggregators = {"badYaml"} \cup {"ignored"} \cup {"valid"} \cup {"invalid"}
                        \cup {"warning"}
    BY DEF Aggregators
  <2>2. IsFiniteSet({"badYaml"})
    BY FS_Singleton
  <2>3. IsFiniteSet({"badYaml"} \cup {"ignored"} \cup {"valid"})
    BY <2>2, FS_AddElement
  <2>4. IsFiniteSet({"badYaml"} \cup {"ignored"} \cup {"valid"} \cup {"invalid"}
                      \cup {"warning"})
    BY <2>3, FS_AddElement
  <2> QED BY <2>1, <2>4
<1> QED BY <1>1, FS_Subset DEF Running

LEMMA AggregatorExitInv ==
  ASSUME Inv, NEW a \in Aggregators, AggregatorExits(a)
  PROVE  Inv'
<1> USE DEF Inv
<1>1. /\ a \in Goroutines /\ a \notin Workers /\ a \notin Helpers /\ a \in Channels
      /\ alive[a] = "running" /\ hand[a] = <<>> /\ Drained(a)
      /\ alive' = [alive EXCEPT ![a] = "exited"]
  BY PipelineAssumption DEF AggregatorExits, Idle, Goroutines, Channels, Helpers, Aggregators
<1>2. Running' = Running \ {a} /\ a \in Running
  BY <1>1 DEF Running, TypeOK, Goroutines
<1>3. wg' = Cardinality(Running') /\ wg' \in Nat
  <2>1. /\ Cardinality(Running \ {a}) = Cardinality(Running) - 1
        /\ IsFiniteSet(Running \ {a})
    BY <1>2, FiniteRunning, FS_RemoveElement
  <2> QED BY <2>1, <1>2, FS_CardinalityType DEF AggregatorExits, Counted
<1>4. TypeOK'
  BY <1>1, <1>3 DEF AggregatorExits, TypeOK, input
<1>5. Routed'
  BY <1>1 DEF AggregatorExits, Routed, TypeOK
<1>6. /\ \A d \in Channels : Drained(d) => Drained(d)'
      /\ \A h \in Helpers : InputEnded(h) => InputEnded(h)'
  <2>1. \A v \in Workers : alive[v] = "exited" => alive'[v] = "exited"
    BY <1>1 DEF TypeOK, Goroutines
  <2> QED BY <2>1, DrainedStable DEF AggregatorExits, input
<1>7. ClosedLate'
  <2>1. \A d \in Channels : Closer(d) \in Helpers /\ Closer(d) # a
    BY <1>1 DEF Closer, Helpers
  <2> QED BY <1>1, <1>6, <2>1 DEF AggregatorExits, ClosedLate, TypeOK, Goroutines
<1>8. ExitedLate'
  BY <1>1, <1>6 DEF AggregatorExits, ExitedLate, Channels, TypeOK, Goroutines
<1>9. Staged'
  <2>1. \A h \in Goroutines : alive[h] = "unborn" <=> alive'[h] = "unborn"
    BY <1>1 DEF TypeOK
  <2>2. {"badYaml", "valid", "invalid", "warning", "ignored", "validator", "filter"}
          \subseteq Goroutines
    BY DEF Goroutines, Helpers, Aggregators
  <2> QED BY <2>1, <2>2 DEF AggregatorExits, Staged, input
<1>10. Counted'
  BY <1>3 DEF Counted
<1>11. FinalCount'
  <2>1. mainPc # "done"
    BY <1>2, FiniteRunning, FS_EmptySet DEF FinalCount, Counted
  <2> QED BY <2>1 DEF AggregatorExits, FinalCount
<1>12. Located'
  BY DEF AggregatorExits, Located, InHand, InChannel, Listed, ListedAs
<1> QED BY <1>4, <1>5, <1>7, <1>8, <1>9, <1>10, <1>11, <1>12

LEMMA LaunchWorkersInv ==
  ASSUME Inv, LaunchWorkers
  PROVE  Inv'
<1> USE DEF Inv
<1>1. /\ Workers \subseteq Goroutines
      /\ \A w \in Workers : alive[w] = "unborn" /\ alive'[w] = "running"
      /\ \A h \in Goroutines \ Workers : alive'[h] = alive[h]
      /\ alive' \in [Goroutines -> {"unborn", "running", "exited"}]
      /\ mainPc # "extract"
  BY DEF LaunchWorkers, Launch, Goroutines, TypeOK, Staged, Helpers
<1>2. TypeOK'
  BY <1>1 DEF LaunchWorkers, TypeOK, input
<1>3. Routed'
  BY <1>1 DEF LaunchWorkers, Routed
<1>4. /\ \A d \in Channels : Drained(d) => Drained(d)'
      /\ \A h \in Helpers : InputEnded(h) => InputEnded(h)'
  <2>1. \A v \in Workers : alive[v] # "exited"
    BY <1>1
  <2> QED BY <2>1, DrainedStable DEF LaunchWorkers, input
<1>5. Helpers \cap Workers = {} /\ Aggregators \cap Workers = {}
      /\ Helpers \cup Aggregators \subseteq Goroutines
  BY PipelineAssumption DEF Goroutines
<1>6. ClosedLate'
  <2>1. \A d \in Channels : Closer(d) \in Helpers
    BY DEF Closer, Helpers
  <2> QED BY <1>1, <1>4, <1>5, <2>1 DEF LaunchWorkers, ClosedLate, TypeOK
<1>7. ExitedLate'
  BY <1>1, <1>4, <1>5 DEF LaunchWorkers, ExitedLate, Channels
<1>8. Staged'
  <2>1. {"badYaml", "valid", "invalid", "warning", "ignored", "validator", "filter"}
          \subseteq Helpers \cup Aggregators
    BY DEF Helpers, Aggregators
  <2> QED BY <1>1, <1>5, <2>1 DEF LaunchWorkers, Staged, input
<1>9. Counted' /\ FinalCount'
  <2>1. Running' = Running
    BY <1>1, <1>5 DEF Running
  <2> QED BY <2>1 DEF LaunchWorkers, Counted, FinalCount
<1>10. Located'
  BY DEF LaunchWorkers, Located, InHand, InChannel, Listed, ListedAs
<1> QED BY <1>2, <1>3, <1>6, <1>7, <1>8, <1>9, <1>10

(***************************************************************************)
(* The main goroutine.                                                     *)
(***************************************************************************)
\* What the start of a stage has in common: it starts goroutines that were
\* not there before, none of them a worker, and touches no channel.
LEMMA LaunchInv ==
  ASSUME Inv, NEW gs \in SUBSET (Helpers \cup Aggregators),
         \A g \in gs : alive[g] = "unborn",
         Launch(gs),
         UNCHANGED <<input, present, chan, closed, collected, warnings>>,
         \A h \in Helpers : hand[h] = <<>> => hand'[h] = <<>> \/ h \in gs
  PROVE  /\ \A g \in gs : alive'[g] = "running"
         /\ \A g \in Goroutines \ gs : alive'[g] = alive[g]
         /\ alive' \in [Goroutines -> {"unborn", "running", "exited"}]
         /\ ClosedLate'
         /\ ExitedLate'
         /\ Running' = Running \cup (gs \cap Aggregators)
<1> USE DEF Inv
<1>1. /\ gs \subseteq Goroutines
      /\ \A g \in gs : alive'[g] = "running"
      /\ \A g \in Goroutines \ gs : alive'[g] = alive[g]
      /\ alive' \in [Goroutines -> {"unborn", "running", "exited"}]
  BY DEF Launch, Goroutines, TypeOK
<1>2. /\ \A d \in Channels : Drained(d) => Drained(d)'
      /\ \A h \in Helpers : InputEnded(h) => InputEnded(h)'
  <2>1. \A w \in Workers : alive[w] = "exited" => alive'[w] = "exited"
    BY <1>1, PipelineAssumption DEF Goroutines
  <2> QED BY <2>1, DrainedStable DEF input
<1>3. ClosedLate'
  <2>1. \A d \in Channels : Closer(d) \in Helpers
    BY DEF Closer, Helpers
  <2>2. \A d \in closed : Closer(d) \notin gs
    BY DEF ClosedLate
  <2>3. Helpers \subseteq Goroutines
    BY DEF Goroutines
  <2> QED BY <1>1, <1>2, <2>1, <2>2, <2>3 DEF ClosedLate, TypeOK
<1>4. ExitedLate'
  <2>1. \A g \in Workers \cup Aggregators : alive'[g] = "exited" => alive[g] = "exited"
    BY <1>1 DEF Goroutines
  <2> QED BY <2>1, <1>2 DEF ExitedLate, Channels
<1>5. Running' = Running \cup (gs \cap Aggregators)
  BY <1>1 DEF Running, Goroutines
<1> QED BY <1>1, <1>3, <1>4, <1>5

LEMMA StartExtractionInv ==
  ASSUME Inv, StartExtraction
  PROVE  Inv'
<1> USE DEF Inv
<1> DEFINE gs == {"feeder", "coordinator", "badYaml"}
           first == [o \in Occ |-> To("paths", o)]
<1>1. /\ "feeder" \in Helpers /\ "coordinator" \in Helpers
      /\ Helpers \subseteq Goroutines /\ gs \subseteq Helpers \cup Aggregators
      /\ \A g \in Goroutines : alive[g] = "unborn"
      /\ \A g \in gs : g \in Goroutines /\ alive[g] = "unborn"
  BY DEF StartExtraction, Staged, Helpers, Aggregators, Goroutines
<1>2. /\ hand' = [hand EXCEPT !["feeder"] = first]
      /\ \A h \in Helpers : hand[h] = <<>> => hand'[h] = <<>> \/ h \in gs
  BY <1>1 DEF StartExtraction, TypeOK
<1> HIDE DEF first
<1>3. /\ \A g \in gs : alive'[g] = "running"
      /\ \A g \in Goroutines \ gs : alive'[g] = alive[g]
      /\ alive' \in [Goroutines -> {"unborn", "running", "exited"}]
      /\ ClosedLate'
      /\ ExitedLate'
      /\ Running' = Running \cup (gs \cap Aggregators)
  <2>1. Launch(gs)
    BY DEF StartExtraction
  <2>2. UNCHANGED <<input, present, chan, closed, collected, warnings>>
    BY DEF StartExtraction
  <2> HIDE DEF gs
  <2> QED BY <1>1, <1>2, <2>1, <2>2, LaunchInv
<1>4. /\ first \in Seq(Sends)
      /\ \A o \in Occ : To("paths", o) \in ToSet(first)
      /\ \A s \in ToSet(first) : s.to = "paths"
      /\ \A o \in Occ : To("paths", o).to = "paths" /\ To("paths", o).msg.occ = o
  <2>1. \A o \in Occ : /\ To("paths", o) \in Sends
                       /\ To("paths", o).to = "paths" /\ To("paths", o).msg.occ = o
    BY SendTypes DEF Channels, Kinds
  <2>2. first \in [1..N -> Sends] /\ N \in Nat
    BY <2>1, PipelineAssumption DEF first, Occ
  <2>3. first \in Seq(Sends) /\ DOMAIN first = Occ
    BY <2>2 DEF first, Occ
  <2> QED BY <2>1, <2>3 DEF ToSet, first
<1>5. /\ toClose' = [toClose EXCEPT !["feeder"] = <<"paths">>,
                                    !["coordinator"] = <<"yaml", "badYaml">>]
      /\ <<"paths">> \in Seq(Channels) /\ <<"yaml", "badYaml">> \in Seq(Channels)
      /\ ToSet(<<"paths">>) = {"paths"} /\ ToSet(<<"yaml", "badYaml">>) = {"yaml", "badYaml"}
      /\ toClose' \in [Helpers -> Seq(Channels)]
  <2>1. /\ toClose' = [toClose EXCEPT !["feeder"] = <<"paths">>,
                                      !["coordinator"] = <<"yaml", "badYaml">>]
        /\ <<"paths">> \in Seq(Channels) /\ <<"yaml", "badYaml">> \in Seq(Channels)
    BY DEF StartExtraction, Channels, Aggregators
  <2> QED BY <2>1, PairElements DEF TypeOK
<1>6. Running = {} /\ Running' = {"badYaml"}
  BY <1>1, <1>3 DEF Running, Goroutines, Aggregators
<1>7. wg' = 1 /\ Counted'
  BY <1>6, FS_EmptySet, FS_Singleton, SMTT(30) DEF StartExtraction, Counted
<1>8. TypeOK'
  <2>1. hand' \in [Goroutines -> Seq(Sends)]
    BY <1>2, <1>4 DEF TypeOK
  <2>2. mainPc' \in {"filter", "validate"}
    BY DEF StartExtraction
  <2>3. UNCHANGED <<opts, path, disk, present, chan, closed, collected, warnings>>
    BY DEF StartExtraction, input
  <2>4. alive' \in [Goroutines -> {"unborn", "running", "exited"}]
    BY <1>3
  <2>5. toClose' \in [Helpers -> Seq(Channels)] /\ wg' \in Nat
    BY <1>5, <1>7
  <2> QED BY <2>1, <2>2, <2>3, <2>4, <2>5 DEF TypeOK
<1>9. Routed'
  <2>1. \A g \in Goroutines : \A s \in ToSet(hand'[g]) : s.to \in Outputs(g)
    BY <1>1, <1>2, <1>4 DEF TypeOK, Routed, Outputs
  <2>2. \A g \in Goroutines : alive'[g] # "running" => hand'[g] = <<>>
    BY <1>1, <1>2, <1>3 DEF TypeOK, Routed
  <2>3. \A h \in Helpers : \A d \in ToSet(toClose'[h]) : Closer(d) = h
    BY <1>1, <1>5 DEF TypeOK, Routed, Closer
  <2> QED BY <2>1, <2>2, <2>3 DEF Routed
<1>10. Staged'
  <2>1. \A g \in {"validator", "valid", "invalid", "warning", "filter", "ignored"} :
           alive'[g] = "unborn"
    BY <1>1, <1>3 DEF Goroutines, Helpers, Aggregators
  <2>2. alive'["badYaml"] = "running"
    BY <1>3
  <2>3. /\ mainPc' \in {"filter", "validate"} /\ UNCHANGED <<opts, chan>>
        /\ mainPc' = "filter" => opts.onlyK8s
        /\ mainPc' # "filter" => ~opts.onlyK8s
    BY DEF StartExtraction, input
  <2>4. chan["k8s"] = <<>> /\ chan["ignored"] = <<>>
    BY DEF StartExtraction, Staged
  <2> HIDE DEF Inv
  <2> QED BY <2>1, <2>2, <2>3, <2>4 DEF Staged
<1>11. FinalCount'
  BY DEF StartExtraction, FinalCount
<1>12. Located'
  <2>1. "feeder" \in Goroutines /\ hand'["feeder"] = first
    BY <1>1, <1>2 DEF TypeOK
  <2>2. \A o \in Occ : InHand(o)'
    BY <1>4, <2>1 DEF InHand
  <2> QED BY <2>2 DEF Located
<1> QED BY <1>3, <1>7, <1>8, <1>9, <1>10, <1>11, <1>12

LEMMA StartFilterInv ==
  ASSUME Inv, StartFilter
  PROVE  Inv'
<1> USE DEF Inv
<1> DEFINE gs == {"filter", "ignored"}
<1>1. /\ "filter" \in Helpers
      /\ Helpers \subseteq Goroutines /\ gs \subseteq Helpers \cup Aggregators
      /\ \A g \in gs : alive[g] = "unborn"
  BY DEF StartFilter, Staged, Helpers, Aggregators, Goroutines
<1>2. /\ \A g \in gs : alive'[g] = "running"
      /\ \A g \in Goroutines \ gs : alive'[g] = alive[g]
      /\ alive' \in [Goroutines -> {"unborn", "running", "exited"}]
      /\ ClosedLate'
      /\ ExitedLate'
      /\ Running' = Running \cup (gs \cap Aggregators)
  BY <1>1, LaunchInv DEF StartFilter
<1>3. /\ toClose' = [toClose EXCEPT !["filter"] = <<"k8s", "ignored">>]
      /\ <<"k8s", "ignored">> \in Seq(Channels)
      /\ ToSet(<<"k8s", "ignored">>) = {"k8s", "ignored"}
      /\ toClose' \in [Helpers -> Seq(Channels)]
  <2>1. /\ toClose' = [toClose EXCEPT !["filter"] = <<"k8s", "ignored">>]
        /\ <<"k8s", "ignored">> \in Seq(Channels)
    BY DEF StartFilter, Channels, Aggregators
  <2> QED BY <2>1, PairElements DEF TypeOK
<1>4. Running' = Running \cup {"ignored"} /\ "ignored" \notin Running
  BY <1>1, <1>2 DEF Running, Aggregators
<1>5. wg' \in Nat /\ Counted'
  BY <1>4, FiniteRunning, FS_AddElement, FS_CardinalityType DEF StartFilter, Counted
<1>6. TypeOK'
  <2>1. mainPc' = "validate"
    BY DEF StartFilter
  <2> QED BY <1>2, <1>3, <1>5, <2>1 DEF StartFilter, TypeOK, input
<1>7. Routed'
  <2>1. \A g \in Goroutines : alive'[g] # "running" => hand'[g] = <<>>
    BY <1>1, <1>2 DEF StartFilter, Routed
  <2>2. \A h \in Helpers : \A d \in ToSet(toClose'[h]) : Closer(d) = h
    BY <1>1, <1>3 DEF TypeOK, Routed, Closer
  <2> QED BY <2>1, <2>2 DEF StartFilter, Routed
<1>8. Staged'
  BY <1>1, <1>2 DEF StartFilter, Staged, input, Goroutines, Helpers, Aggregators
<1>9. FinalCount' /\ Located'
  BY DEF StartFilter, FinalCount, Located, InHand, InChannel, Listed, ListedAs
<1> QED BY <1>2, <1>5, <1>6, <1>7, <1>8, <1>9

LEMMA StartValidationInv ==
  ASSUME Inv, StartValidation
  PROVE  Inv'
<1> USE DEF Inv
<1> DEFINE gs == {"validator", "valid", "invalid", "warning"}
<1>1. /\ "validator" \in Helpers
      /\ Helpers \subseteq Goroutines /\ gs \subseteq Helpers \cup Aggregators
      /\ \A g \in gs : alive[g] = "unborn"
  BY DEF StartValidation, Staged, Helpers, Aggregators, Goroutines
<1>2. /\ \A g \in gs : alive'[g] = "running"
      /\ \A g \in Goroutines \ gs : alive'[g] = alive[g]
      /\ alive' \in [Goroutines -> {"unborn", "running", "exited"}]
      /\ ClosedLate'
      /\ ExitedLate'
      /\ Running' = Running \cup (gs \cap Aggregators)
  BY <1>1, LaunchInv DEF StartValidation
<1>3. /\ toClose' = [toClose EXCEPT !["validator"] = <<"invalid", "valid", "warning">>]
      /\ <<"invalid", "valid", "warning">> \in Seq(Channels)
      /\ ToSet(<<"invalid", "valid", "warning">>) = {"invalid", "valid", "warning"}
      /\ toClose' \in [Helpers -> Seq(Channels)]
  <2>1. /\ toClose' = [toClose EXCEPT !["validator"] = <<"invalid", "valid", "warning">>]
        /\ <<"invalid", "valid", "warning">> \in Seq(Channels)
    BY DEF StartValidation, Channels, Aggregators
  <2>2. ToSet(<<"invalid", "valid", "warning">>) = {"invalid", "valid", "warning"}
    BY DEF ToSet
  <2> QED BY <2>1, <2>2 DEF TypeOK
<1>4. /\ Running' = ((Running \cup {"valid"}) \cup {"invalid"}) \cup {"warning"}
      /\ Running \cap {"valid", "invalid", "warning"} = {}
  BY <1>1, <1>2 DEF Running, Aggregators
<1>5. wg' \in Nat /\ Counted'
  <2>1. /\ IsFiniteSet(Running \cup {"valid"})
        /\ Cardinality(Running \cup {"valid"}) = Cardinality(Running) + 1
    BY <1>4, FiniteRunning, FS_AddElement
  <2>2. /\ IsFiniteSet((Running \cup {"valid"}) \cup {"invalid"})
        /\ Cardinality((Running \cup {"valid"}) \cup {"invalid"}) = Cardinality(Running) + 1 + 1
    BY <1>4, <2>1, FS_AddElement
  <2>3. Cardinality(Running') = Cardinality(Running) + 1 + 1 + 1
    BY <1>4, <2>2, FS_AddElement
  <2> QED BY <2>3, FiniteRunning, FS_CardinalityType DEF StartValidation, Counted
<1>6. TypeOK'
  <2>1. mainPc' = "wait"
    BY DEF StartValidation
  <2> QED BY <1>2, <1>3, <1>5, <2>1 DEF StartValidation, TypeOK, input
<1>7. Routed'
  <2>1. \A g \in Goroutines : alive'[g] # "running" => hand'[g] = <<>>
    BY <1>1, <1>2 DEF StartValidation, Routed
  <2>2. \A h \in Helpers : \A d \in ToSet(toClose'[h]) : Closer(d) = h
    BY <1>1, <1>3 DEF TypeOK, Routed, Closer
  <2> QED BY <2>1, <2>2 DEF StartValidation, Routed
<1>8. Staged'
  BY <1>1, <1>2 DEF StartValidation, Staged, input, Goroutines, Helpers, Aggregators
<1>9. FinalCount' /\ Located'
  BY DEF StartValidation, FinalCount, Located, InHand, InChannel, Listed, ListedAs
<1> QED BY <1>2, <1>5, <1>6, <1>7, <1>8, <1>9

(***************************************************************************)
(* Steps that change no goroutine and no counter.                          *)
(***************************************************************************)
LEMMA SteadyInv ==
  ASSUME Inv,
         \/ WaitReturns
         \/ \E p \in Paths : Vanish(p)
         \/ UNCHANGED vars
  PROVE  Inv'
<1> USE DEF Inv
<1>1. /\ UNCHANGED <<input, alive, chan, closed, hand, toClose, collected, warnings, wg>>
      /\ mainPc' = mainPc \/ (mainPc = "wait" /\ mainPc' = "done" /\ wg = 0)
      /\ present' \subseteq present
  BY DEF WaitReturns, Vanish, vars, input
<1>2. TypeOK'
  BY <1>1 DEF TypeOK, input
<1>3. Routed' /\ ClosedLate' /\ ExitedLate' /\ Counted'
  BY <1>1 DEF Routed, ClosedLate, InputEnded, Source, Drained, ExitedLate, Counted,
              Running, input
<1>4. Staged' /\ FinalCount'
  BY <1>1 DEF Staged, FinalCount, input
<1>5. Located'
  BY <1>1 DEF Located, InHand, InChannel, Listed, ListedAs
<1> QED BY <1>2, <1>3, <1>4, <1>5

\* An aggregator takes a message from its own channel; only the one for the
\* warnings does not put the occurrence on a list.
LEMMA AggregateInv ==
  ASSUME Inv, NEW a \in Aggregators,
         \/ a \in Verdicts /\ AppendToList(a)
         \/ a = "warning" /\ RecordWarning
  PROVE  Inv'
<1> USE DEF Inv
<1> DEFINE m == Head(chan[a])
<1>1. /\ a \in Channels
      /\ chan[a] \in Seq(Messages) /\ chan[a] # <<>>
      /\ m \in Messages /\ Tail(chan[a]) \in Seq(Messages)
      /\ ToSet(chan[a]) = {m} \cup ToSet(Tail(chan[a]))
      /\ chan' = [chan EXCEPT ![a] = Tail(chan[a])]
  BY HeadTailElements DEF AppendToList, RecordWarning, TypeOK, Channels
<1>2. m.occ \in Occ /\ m.kind \in Kinds
  BY <1>1 DEF Messages
<1>3. /\ UNCHANGED <<input, present, mainPc, alive, closed, hand, toClose, wg>>
      /\ collected' \in [Verdicts -> Seq(Occ)] /\ warnings' \in [Paths -> Kinds]
      /\ \A v \in Verdicts : ToSet(collected[v]) \subseteq ToSet(collected'[v])
      /\ a # "warning" => a \in Verdicts /\ m.occ \in ToSet(collected'[a])
  <2>1. CASE a \in Verdicts /\ AppendToList(a)
    <3>1. /\ collected[a] \in Seq(Occ) /\ Append(collected[a], m.occ) \in Seq(Occ)
          /\ ToSet(Append(collected[a], m.occ)) = ToSet(collected[a]) \cup {m.occ}
      BY <2>1, <1>2, AppendElements DEF TypeOK
    <3>2. collected' = [collected EXCEPT ![a] = Append(collected[a], m.occ)]
      BY <2>1 DEF AppendToList
    <3>3. UNCHANGED <<input, present, mainPc, alive, closed, hand, toClose, wg, warnings>>
      BY <2>1 DEF AppendToList
    <3> QED BY <2>1, <3>1, <3>2, <3>3 DEF TypeOK
  <2>2. CASE a = "warning" /\ RecordWarning
    <3>1. warnings' = [warnings EXCEPT ![path[m.occ]] = m.kind]
      BY <2>2 DEF RecordWarning
    <3>2. UNCHANGED <<input, present, mainPc, alive, closed, hand, toClose, wg, collected>>
      BY <2>2 DEF RecordWarning
    <3> QED BY <2>2, <3>1, <3>2, <1>2 DEF TypeOK
  <2> QED BY <2>1, <2>2
<1> HIDE DEF m
<1>4. TypeOK'
  BY <1>1, <1>3 DEF TypeOK, input
<1>5. Routed' /\ Counted' /\ FinalCount'
  BY <1>3 DEF Routed, Counted, FinalCount, Running
<1>6. /\ \A d \in Channels : Drained(d) => Drained(d)'
      /\ \A h \in Helpers : InputEnded(h) => InputEnded(h)'
  <2>1. \A d \in closed : chan[d] = <<>> => chan'[d] = <<>>
    BY <1>1 DEF TypeOK
  <2> QED BY <2>1, <1>3, DrainedStable DEF input
<1>7. ClosedLate'
  <2>1. \A d \in Channels : Closer(d) \in Helpers
    BY DEF Closer, Helpers
  <2> QED BY <1>3, <1>6, <2>1 DEF ClosedLate, TypeOK
<1>8. ExitedLate'
  BY <1>3, <1>6 DEF ExitedLate, Channels
<1>9. Staged'
  <2>1. \A d \in {"k8s", "ignored"} : chan[d] = <<>> => chan'[d] = <<>>
    BY <1>1 DEF TypeOK, Channels, Aggregators
  <2> QED BY <2>1, <1>3 DEF Staged, input
<1>10. Located'
  <2> SUFFICES ASSUME mainPc # "extract", NEW o \in Occ
               PROVE  InHand(o)' \/ InChannel(o)' \/ Listed(o)'
    BY <1>3 DEF Located
  <2>1. CASE InHand(o)
    BY <2>1, <1>3 DEF InHand
  <2>2. CASE InChannel(o)
    <3>1. PICK d \in Channels \ {"warning"} : \E n \in ToSet(chan[d]) : n.occ = o
      BY <2>2 DEF InChannel
    <3>2. CASE d = a /\ m.occ = o
      BY <3>1, <3>2, <1>3 DEF Listed, ListedAs
    <3>3. CASE ~(d = a /\ m.occ = o)
      <4>1. \E n \in ToSet(chan'[d]) : n.occ = o
        BY <3>1, <3>3, <1>1 DEF TypeOK
      <4> QED BY <4>1 DEF InChannel
    <3> QED BY <3>2, <3>3
  <2>3. CASE Listed(o)
    BY <2>3, <1>3 DEF Listed, ListedAs
  <2> QED BY <2>1, <2>2, <2>3 DEF Located
<1> QED BY <1>4, <1>5, <1>7, <1>8, <1>9, <1>10

(***************************************************************************)
(* The theorems.                                                           *)
(***************************************************************************)
LEMMA NextInv == Inv /\ [Next]_vars => Inv'
<1> SUFFICES ASSUME Inv, [Next]_vars PROVE Inv'
  OBVIOUS
<1>1. ASSUME NEW g \in Goroutines, Step(g) PROVE Inv'
  <2>1. CASE Send(g)
    BY <2>1, SendInv
  <2>2. CASE g \in Workers /\ WorkerStep(g)
    BY <2>2, ExtractInv, WorkerExitInv DEF WorkerStep
  <2>3. CASE g = "coordinator" /\ LaunchWorkers
    BY <2>3, LaunchWorkersInv
  <2>4. CASE g = "filter" /\ FilterFile
    BY <2>4, FilterInv
  <2>5. CASE g = "validator" /\ ValidateFile
    BY <2>5, ValidateInv
  <2>6. CASE g \in Helpers /\ Close(g)
    BY <2>6, CloseInv
  <2>7. CASE g \in Aggregators /\ AggregatorStep(g)
    BY <2>7, AggregateInv, AggregatorExitInv DEF AggregatorStep
  <2> QED BY <1>1, <2>1, <2>2, <2>3, <2>4, <2>5, <2>6, <2>7 DEF Step
<1>2. CASE MainStep
  BY <1>2, StartExtractionInv, StartFilterInv, StartValidationInv, SteadyInv DEF MainStep
<1>3. CASE \E p \in Paths : Vanish(p)
  BY <1>3, SteadyInv
<1>4. CASE Terminated \/ UNCHANGED vars
  BY <1>4, SteadyInv DEF Terminated
<1> QED BY <1>1, <1>2, <1>3, <1>4 DEF Next

LEMMA Invariance == Spec => []Inv
BY InitInv, NextInv, PTL DEF Spec

\* Every variable keeps its type; in particular the wait group's counter never
\* becomes negative, which would be a panic in wg.Done.
THEOREM TypeCorrect == Spec => []TypeOK
BY Invariance, PTL DEF Inv

\* No send on a closed channel, for every capacity and number of workers
\* (files.go:54-56, k8sValidator.go:71-75 and 124-127).
THEOREM SendSafety == Spec => []NoSendOnClosed
<1>1. Inv => NoSendOnClosed
  BY OpenTarget DEF Inv, NoSendOnClosed
<1> QED BY <1>1, Invariance, PTL

\* When the wait group is down to zero, no message is left anywhere.
LEMMA Emptied ==
  ASSUME Inv, mainPc = "done"
  PROVE  /\ \A g \in Goroutines : hand[g] = <<>>
         /\ \A c \in Channels : chan[c] = <<>>
<1> USE DEF Inv
<1>1. Running = {}
  BY FiniteRunning, FS_EmptySet DEF FinalCount, Counted
<1>2. \A a \in Aggregators : alive[a] = "unborn" \/ Drained(a)
  <2>1. \A a \in Aggregators : alive[a] \in {"unborn", "running", "exited"}
    BY DEF TypeOK, Goroutines
  <2> QED BY <1>1, <2>1 DEF Running, ExitedLate
<1>3. /\ Drained("badYaml") /\ Drained("valid")
      /\ Drained("invalid") /\ Drained("warning")
  BY <1>2 DEF Staged, Aggregators
<1>4. /\ \A w \in Workers : alive[w] = "exited" /\ hand[w] = <<>>
      /\ Drained("paths")
  <2>1. \A w \in Workers : alive[w] = "exited"
    BY <1>3 DEF ClosedLate, Drained, Closer, InputEnded, Helpers
  <2> QED BY <2>1, PipelineAssumption DEF ExitedLate, Routed, Goroutines
<1>5. hand["feeder"] = <<>>
  BY <1>4 DEF ClosedLate, Drained, Closer
<1>6. hand["validator"] = <<>> /\ Drained(Source("validator"))
  BY <1>3 DEF ClosedLate, Drained, Closer, InputEnded
<1>7. chan["yaml"] = <<>> /\ chan["k8s"] = <<>> /\ chan["ignored"] = <<>>
      /\ hand["filter"] = <<>>
  <2>1. CASE opts.onlyK8s
    <3>1. Drained("k8s") /\ Drained("ignored")
      BY <2>1, <1>2, <1>6, PipelineAssumption DEF Source, Staged, Helpers, Aggregators
    <3>2. hand["filter"] = <<>> /\ Drained(Source("filter"))
      BY <3>1 DEF ClosedLate, Drained, Closer, InputEnded
    <3> QED BY <3>1, <3>2, PipelineAssumption DEF Drained, Source, Helpers
  <2>2. CASE ~opts.onlyK8s
    BY <2>2, <1>6, PipelineAssumption DEF Staged, Routed, Drained, Source, Helpers, Goroutines
  <2> QED BY <2>1, <2>2
<1>8. \A c \in Channels : chan[c] = <<>>
  BY <1>3, <1>4, <1>7 DEF Drained, Channels, Aggregators
<1>9. ASSUME NEW g \in Goroutines PROVE hand[g] = <<>>
  <2>1. CASE g \in Aggregators \cup {"coordinator"}
    <3>1. ToSet(hand[g]) = {} /\ hand[g] \in Seq(Sends)
      BY <2>1, PipelineAssumption DEF Routed, Outputs, Helpers, Aggregators, TypeOK
    <3> QED BY <3>1, EmptyElements
  <2>2. CASE g \in Workers \cup {"feeder", "filter", "validator"}
    BY <1>4, <1>5, <1>6, <1>7, <2>2
  <2> QED BY <2>1, <2>2 DEF Goroutines, Helpers
<1> QED BY <1>8, <1>9

LEMMA Complete == Inv => EveryFileHasVerdict
<1> SUFFICES ASSUME Inv, mainPc = "done", NEW o \in Occ PROVE Listed(o)
  BY DEF EveryFileHasVerdict, Listed
<1>1. /\ \A g \in Goroutines : ToSet(hand[g]) = {}
      /\ \A c \in Channels : ToSet(chan[c]) = {}
  BY Emptied, EmptyElements, EmptySeq
<1>2. ~InHand(o) /\ ~InChannel(o)
  BY <1>1 DEF InHand, InChannel
<1> QED BY <1>2 DEF Inv, Located

\* When wg.Wait returns, every path of the command line is on one of the
\* lists the main goroutine goes on to read (main.go:591-596).
THEOREM NoFileLost == Spec => []EveryFileHasVerdict
BY Complete, Invariance, PTL

\* After wg.Wait no aggregator runs.
LEMMA Quiet ==
  ASSUME Inv, mainPc = "done"
  PROVE  \A a \in Aggregators : alive[a] # "running"
<1>1. Running = {}
  BY FiniteRunning, FS_EmptySet DEF Inv, FinalCount, Counted
<1> QED BY <1>1 DEF Running

\* Once wg.Wait has returned no goroutine writes the lists or the map that the
\* main goroutine reads without a lock (main.go:591-596).
THEOREM RaceFree == Spec => NoWriteAfterWait
<1>1. ASSUME Inv, [Next]_vars
      PROVE  [mainPc = "done" => UNCHANGED <<collected, warnings>>]_vars
  <2> SUFFICES ASSUME Next, mainPc = "done"
               PROVE  UNCHANGED <<collected, warnings>>
    BY <1>1
  <2> USE <1>1
  <2>1. \A a \in Aggregators : alive[a] # "running"
    BY Quiet
  <2>2. \A a \in Aggregators : ~AggregatorStep(a)
    BY <2>1 DEF AggregatorStep, AppendToList, RecordWarning, AggregatorExits, Idle
  <2>3. ASSUME NEW g \in Goroutines, Step(g) PROVE UNCHANGED <<collected, warnings>>
    <3>1. CASE Send(g)
      BY <3>1 DEF Send
    <3>2. CASE WorkerStep(g)
      BY <3>2 DEF WorkerStep, ExtractFile, WorkerExits, Receive
    <3>3. CASE LaunchWorkers \/ FilterFile \/ ValidateFile
      BY <3>3 DEF LaunchWorkers, FilterFile, ValidateFile, Receive
    <3>4. CASE Close(g)
      BY <3>4 DEF Close
    <3> QED BY <2>2, <2>3, <3>1, <3>2, <3>3, <3>4 DEF Step
  <2> QED BY <2>3 DEF Next, MainStep, StartExtraction, StartFilter, StartValidation,
                      WaitReturns, Vanish, Terminated, vars
<1> QED BY <1>1, Invariance, PTL DEF Spec, NoWriteAfterWait

-----------------------------------------------------------------------------
(* Where each occurrence is, and why it may be there.                        *)

\* A goroutine holds the occurrence o for the channel c; o waits in it.
Heading(g, c, o) == \E s \in ToSet(hand[g]) : s.to = c /\ s.msg.occ = o
Waiting(c, o) == \E m \in ToSet(chan[c]) : m.occ = o

At(c, o) == \/ \E g \in Goroutines : Heading(g, c, o)
            \/ Waiting(c, o)
            \/ c \in Verdicts /\ o \in ListedAs(c)

\* Warnings accompany a verdict and are left out.
Ways == Channels \ {"warning"}

\* The channels that lead to a further decision.
Stages == {"paths", "yaml", "k8s"}

Unstarted == mainPc = "extract" => \A c \in Ways, o \in Occ : ~At(c, o)

OnePlace == \A o \in Occ : \A c, d \in Ways : At(c, o) /\ At(d, o) => c = d

\* Before a verdict there is one message for an occurrence.
OneCopy ==
    \A c \in Stages :
        /\ \A g \in Goroutines : \A i, j \in DOMAIN hand[g] :
              /\ hand[g][i].to = c /\ hand[g][j].to = c
              /\ hand[g][i].msg.occ = hand[g][j].msg.occ
              => i = j
        /\ \A i, j \in DOMAIN chan[c] : chan[c][i].occ = chan[c][j].occ => i = j
        /\ \A o \in Occ : \A g \in Goroutines :
              Heading(g, c, o) => /\ ~Waiting(c, o)
                                  /\ \A h \in Goroutines : Heading(h, c, o) => h = g

\* What is known of a file whose occurrence goes to c, or is on the list of c.
Fits(c, o) ==
    LET file == disk[path[o]]
    IN  /\ c = "yaml" => file.yaml # "bad"
        /\ c = "k8s" => file.yaml = "k8s"
        /\ c = "badYaml" => (Readable(o) => file.yaml = "bad")
        /\ c = "valid" =>
              /\ file.yaml # "bad"
              /\ opts.onlyK8s => file.yaml = "k8s"
              /\ ~opts.skip /\ ~NoSchemas => /\ file.statuses \cap {"Invalid", "Error"} = {}
                                             /\ file.statuses \cap {"Valid", "Skipped"} # {}
        /\ c = "invalid" =>
              (Readable(o) => /\ ~opts.skip /\ ~NoSchemas
                              /\ \/ file.statuses \cap {"Invalid", "Error"} # {}
                                 \/ file.statuses \subseteq {"Empty"})

Vouched == \A c \in Ways, o \in Occ : At(c, o) => Fits(c, o)

Places == Unstarted /\ OnePlace /\ Vouched

AuditInv == Inv /\ Places /\ OneCopy
-----------------------------------------------------------------------------
(***************************************************************************)
(* Where an occurrence is.                                                 *)
(***************************************************************************)
\* What is known of a file stays true when files vanish.
LEMMA FitsKept ==
  ASSUME UNCHANGED input, present' \subseteq present, NEW c, NEW o, Fits(c, o)
  PROVE  Fits(c, o)'
BY DEF input, Fits, Readable, NoSchemas

\* A step after which no occurrence is anywhere it was not before.
LEMMA PlacesKept ==
  ASSUME Places, UNCHANGED input, present' \subseteq present,
         mainPc' = "extract" => mainPc = "extract",
         \A c \in Ways, o \in Occ : At(c, o)' => At(c, o)
  PROVE  Places'
<1>1. Unstarted' /\ OnePlace'
  BY DEF Places, Unstarted, OnePlace
<1>2. Vouched'
  BY FitsKept DEF Places, Vouched
<1> QED BY <1>1, <1>2 DEF Places

\* A step that moves one occurrence on.
LEMMA PlacesMoved ==
  ASSUME Places, UNCHANGED input, present' \subseteq present, mainPc # "extract",
         UNCHANGED mainPc,
         NEW x \in Occ, NEW t \in Ways, Fits(t, x),
         \A c \in Ways, o \in Occ \ {x} : At(c, o)' => At(c, o),
         \A c \in Ways : At(c, x)' => c = t
  PROVE  Places'
<1>1. Unstarted' /\ OnePlace'
  BY DEF Places, Unstarted, OnePlace
<1>2. Vouched'
  BY FitsKept DEF Places, Vouched
<1> QED BY <1>1, <1>2 DEF Places

\* The lists and the channels of other goroutines.
LEMMA HandAt ==
  ASSUME TypeOK, NEW g \in Goroutines, NEW i \in DOMAIN hand[g], NEW c,
         hand[g][i].to = c
  PROVE  Heading(g, c, hand[g][i].msg.occ)
BY DEF Heading, ToSet

LEMMA ChanAt ==
  ASSUME NEW c \in Channels, NEW i \in DOMAIN chan[c]
  PROVE  Waiting(c, chan[c][i].occ)
BY DEF Waiting, ToSet

\* The tail of a sequence, by its indices.
LEMMA TailAt ==
  ASSUME NEW S, NEW s \in Seq(S), s # <<>>
  PROVE  /\ \A i \in DOMAIN Tail(s) : i + 1 \in DOMAIN s /\ Tail(s)[i] = s[i + 1] /\ i + 1 # 1
         /\ \A i, j \in DOMAIN Tail(s) : i + 1 = j + 1 => i = j
         /\ 1 \in DOMAIN s /\ Head(s) = s[1]
<1>1. /\ Tail(s) \in Seq(S) /\ Len(Tail(s)) = Len(s) - 1 /\ Len(s) \in Nat /\ Len(s) > 0
      /\ Head(s) = s[1] /\ \A i \in 1..Len(Tail(s)) : Tail(s)[i] = s[i + 1]
  BY HeadTailProperties, EmptySeq, LenProperties
<1> QED BY <1>1

LEMMA AppendAt ==
  ASSUME NEW S, NEW s \in Seq(S), NEW e \in S
  PROVE  \A i \in DOMAIN Append(s, e) :
            \/ i \in DOMAIN s /\ Append(s, e)[i] = s[i]
            \/ i = Len(s) + 1 /\ Append(s, e)[i] = e
OBVIOUS
-----------------------------------------------------------------------------
(***************************************************************************)
(* The steps.                                                              *)
(***************************************************************************)
LEMMA SendAudit ==
  ASSUME AuditInv, NEW g \in Goroutines, Send(g)
  PROVE  Places' /\ OneCopy'
<1> USE DEF AuditInv, Inv
<1> DEFINE s == Head(hand[g])
<1>1. /\ hand[g] \in Seq(Sends) /\ hand[g] # <<>>
      /\ s \in Sends /\ Tail(hand[g]) \in Seq(Sends)
      /\ ToSet(hand[g]) = {s} \cup ToSet(Tail(hand[g]))
  BY HeadTailElements DEF Send, TypeOK
<1>2. s.to \in Channels /\ s.msg \in Messages /\ s.msg.occ \in Occ
      /\ chan[s.to] \in Seq(Messages)
  BY <1>1 DEF Sends, Messages, TypeOK
<1>3. /\ chan' = [chan EXCEPT ![s.to] = Append(chan[s.to], s.msg)]
      /\ hand' = [hand EXCEPT ![g] = Tail(hand[g])]
      /\ ToSet(Append(chan[s.to], s.msg)) = ToSet(chan[s.to]) \cup {s.msg}
      /\ UNCHANGED <<input, present, mainPc, collected>>
  BY <1>2, AppendElements DEF Send
<1>4. /\ \A h \in Goroutines \ {g} : hand'[h] = hand[h]
      /\ hand'[g] = Tail(hand[g])
      /\ \A c \in Channels \ {s.to} : chan'[c] = chan[c]
      /\ chan'[s.to] = Append(chan[s.to], s.msg)
  BY <1>2, <1>3 DEF TypeOK
<1>5. Heading(g, s.to, s.msg.occ)
  BY <1>1 DEF Heading
<1>6. /\ \A i \in DOMAIN hand'[g] : /\ i + 1 \in DOMAIN hand[g] /\ i + 1 # 1
                                    /\ hand'[g][i] = hand[g][i + 1]
      /\ \A i, j \in DOMAIN hand'[g] : i + 1 = j + 1 => i = j
      /\ 1 \in DOMAIN hand[g] /\ hand[g][1] = s
  <2> HIDE DEF s
  <2>1. \A i \in DOMAIN Tail(hand[g]) : /\ i + 1 \in DOMAIN hand[g] /\ i + 1 # 1
                                        /\ Tail(hand[g])[i] = hand[g][i + 1]
    BY <1>1, TailAt
  <2>2. \A i, j \in DOMAIN Tail(hand[g]) : i + 1 = j + 1 => i = j
    BY <1>1, TailAt
  <2>3. 1 \in DOMAIN hand[g] /\ hand[g][1] = s
    BY <1>1, TailAt DEF s
  <2> QED BY <1>4, <2>1, <2>2, <2>3
<1> HIDE DEF s
<1>7. ASSUME NEW h \in Goroutines, NEW c, NEW o, Heading(h, c, o)'
      PROVE  Heading(h, c, o)
  BY <1>1, <1>4, <1>7 DEF Heading
<1>8. ASSUME NEW c \in Channels, NEW o, Waiting(c, o)'
      PROVE  Waiting(c, o) \/ (c = s.to /\ o = s.msg.occ)
  BY <1>3, <1>4, <1>8 DEF Waiting
<1>9. Places'
  <2>1. ASSUME NEW c \in Ways, NEW o \in Occ, At(c, o)' PROVE At(c, o)
    BY <1>3, <1>5, <1>7, <1>8, <2>1 DEF At, Ways, ListedAs
  <2> QED BY <1>3, <2>1, PlacesKept
<1>10. OneCopy'
  <2> SUFFICES ASSUME NEW c \in Stages
               PROVE  (/\ \A h \in Goroutines : \A i, j \in DOMAIN hand[h] :
                             /\ hand[h][i].to = c /\ hand[h][j].to = c
                             /\ hand[h][i].msg.occ = hand[h][j].msg.occ
                             => i = j
                       /\ \A i, j \in DOMAIN chan[c] : chan[c][i].occ = chan[c][j].occ => i = j
                       /\ \A o \in Occ : \A h \in Goroutines :
                             Heading(h, c, o) =>
                                /\ ~Waiting(c, o)
                                /\ \A k \in Goroutines : Heading(k, c, o) => k = h)'
    BY DEF OneCopy
  <2>1. c \in Channels /\ chan[c] \in Seq(Messages)
    BY DEF Stages, Channels, TypeOK
  <2>2. ASSUME NEW h \in Goroutines, NEW i \in DOMAIN hand'[h], NEW j \in DOMAIN hand'[h],
               hand'[h][i].to = c, hand'[h][j].to = c,
               hand'[h][i].msg.occ = hand'[h][j].msg.occ
        PROVE  i = j
    <3>1. CASE h # g
      BY <1>4, <2>2, <3>1 DEF OneCopy
    <3>2. CASE h = g
      <4>1. /\ i + 1 \in DOMAIN hand[g] /\ hand'[g][i] = hand[g][i + 1]
            /\ j + 1 \in DOMAIN hand[g] /\ hand'[g][j] = hand[g][j + 1]
            /\ i + 1 = j + 1 => i = j
        BY <1>6, <2>2, <3>2
      <4> QED BY <2>2, <3>2, <4>1 DEF OneCopy
    <3> QED BY <3>1, <3>2
  <2>3. ASSUME NEW i \in DOMAIN chan'[c], NEW j \in DOMAIN chan'[c],
               chan'[c][i].occ = chan'[c][j].occ
        PROVE  i = j
    <3>1. CASE c # s.to
      BY <1>4, <2>1, <2>3, <3>1 DEF OneCopy
    <3>2. CASE c = s.to
      <4>1. \A k \in DOMAIN chan'[c] : \/ k \in DOMAIN chan[c] /\ chan'[c][k] = chan[c][k]
                                       \/ k = Len(chan[c]) + 1 /\ chan'[c][k] = s.msg
        <5> DEFINE q == Append(chan[c], s.msg)
        <5>1. chan'[c] = q
          BY <1>4, <3>2
        <5>2. \A k \in DOMAIN q : \/ k \in DOMAIN chan[c] /\ q[k] = chan[c][k]
                                  \/ k = Len(chan[c]) + 1 /\ q[k] = s.msg
          BY <1>2, <2>1, AppendAt
        <5> HIDE DEF q
        <5> QED BY <5>1, <5>2
      <4>2. ~Waiting(c, s.msg.occ)
        BY <1>2, <1>5, <3>2 DEF OneCopy
      <4>3. \A k \in DOMAIN chan[c] : chan[c][k].occ # s.msg.occ
        BY <2>1, <4>2, ChanAt
      <4> QED BY <2>3, <4>1, <4>3 DEF OneCopy
    <3> QED BY <3>1, <3>2
  <2>4. ASSUME NEW o \in Occ, NEW h \in Goroutines, Heading(h, c, o)'
        PROVE  ~Waiting(c, o)'
    <3> SUFFICES ASSUME Waiting(c, o)' PROVE FALSE
      OBVIOUS
    <3>1. Heading(h, c, o) /\ ~Waiting(c, o)
      BY <1>7, <2>4 DEF OneCopy
    <3>2. c = s.to /\ o = s.msg.occ /\ h = g
      BY <1>5, <1>8, <2>1, <3>1 DEF OneCopy
    <3>3. PICK t \in ToSet(hand'[g]) : t.to = c /\ t.msg.occ = o
      BY <2>4, <3>2 DEF Heading
    <3>4. PICK i \in DOMAIN hand'[g] : hand'[g][i] = t
      BY <3>3 DEF ToSet
    <3>5. /\ i + 1 \in DOMAIN hand[g] /\ hand[g][i + 1] = t /\ i + 1 # 1
          /\ 1 \in DOMAIN hand[g] /\ hand[g][1] = s
      BY <1>6, <3>4
    <3> QED BY <3>2, <3>3, <3>5 DEF OneCopy
  <2>5. ASSUME NEW o \in Occ, NEW h \in Goroutines, NEW k \in Goroutines,
               Heading(h, c, o)', Heading(k, c, o)'
        PROVE  k = h
    BY <1>7, <2>5 DEF OneCopy
  <2> QED BY <2>2, <2>3, <2>4, <2>5
<1> QED BY <1>9, <1>10

\* A goroutine that receives x and will pass it on to t.
LEMMA TakeAudit ==
  ASSUME AuditInv, NEW g \in Goroutines, NEW e \in Seq(Sends),
         NEW c \in Stages, Idle(g), chan[c] # <<>>,
         hand' = [hand EXCEPT ![g] = e],
         chan' = [chan EXCEPT ![c] = Tail(@)],
         NEW t \in Ways, t # c, t \in Stages => Len(e) = 1,
         NEW x \in Occ, x = Head(chan[c]).occ, Fits(t, x),
         \A s \in ToSet(e) : s.to = "warning" \/ (s.to = t /\ s.msg.occ = x),
         UNCHANGED <<input, present, mainPc, collected>>
  PROVE  Places' /\ OneCopy'
<1> USE DEF AuditInv, Inv
<1>1. c \in Channels /\ c \in Ways
  BY DEF Stages, Channels, Ways, Aggregators
<1>2. /\ chan[c] \in Seq(Messages) /\ chan[c] # <<>>
      /\ Tail(chan[c]) \in Seq(Messages)
      /\ ToSet(chan[c]) = {Head(chan[c])} \cup ToSet(Tail(chan[c]))
  BY <1>1, HeadTailElements DEF TypeOK
<1>3. /\ \A h \in Goroutines \ {g} : hand'[h] = hand[h]
      /\ hand'[g] = e /\ hand[g] = <<>>
      /\ \A d \in Channels \ {c} : chan'[d] = chan[d]
      /\ chan'[c] = Tail(chan[c])
      /\ x = Head(chan[c]).occ /\ t # c
  BY <1>1 DEF TypeOK, Idle
<1>4. /\ \A i \in DOMAIN chan'[c] : /\ i + 1 \in DOMAIN chan[c] /\ i + 1 # 1
                                    /\ chan'[c][i] = chan[c][i + 1]
      /\ \A i, j \in DOMAIN chan'[c] : i + 1 = j + 1 => i = j
      /\ 1 \in DOMAIN chan[c] /\ chan[c][1].occ = x
  <2> DEFINE q == chan[c]
  <2>0. q \in Seq(Messages) /\ q # <<>> /\ chan'[c] = Tail(q) /\ Head(q).occ = x
    BY <1>2, <1>3
  <2> HIDE DEF q
  <2>1. /\ \A i \in DOMAIN Tail(q) : i + 1 \in DOMAIN q /\ i + 1 # 1 /\ Tail(q)[i] = q[i + 1]
        /\ \A i, j \in DOMAIN Tail(q) : i + 1 = j + 1 => i = j
        /\ 1 \in DOMAIN q /\ Head(q) = q[1]
    BY <2>0, TailAt
  <2>2. /\ \A i \in DOMAIN chan'[c] : i + 1 \in DOMAIN q /\ i + 1 # 1 /\ chan'[c][i] = q[i + 1]
        /\ \A i, j \in DOMAIN chan'[c] : i + 1 = j + 1 => i = j
        /\ 1 \in DOMAIN q /\ q[1].occ = x
    BY <2>0, <2>1
  <2> QED BY <2>2 DEF q
<1>5. mainPc # "extract"
  BY <1>1 DEF Staged, Idle
<1>6. Waiting(c, x) /\ At(c, x)
  BY <1>1, <1>4, ChanAt DEF At
<1>7. /\ \A h \in Goroutines \ {g} : \A d, o : Heading(h, d, o)' => Heading(h, d, o)
      /\ \A d \in Ways : \A o : Heading(g, d, o)' => d = t /\ o = x
  BY <1>3 DEF Heading, Ways
<1>8. \A d \in Channels : \A o : Waiting(d, o)' => Waiting(d, o)
  BY <1>2, <1>3 DEF Waiting
<1>9. ~Waiting(c, x)'
  <2> SUFFICES ASSUME Waiting(c, x)' PROVE FALSE
    OBVIOUS
  <2>1. PICK m \in ToSet(chan'[c]) : m.occ = x
    BY DEF Waiting
  <2>2. PICK i \in DOMAIN chan'[c] : chan'[c][i] = m
    BY <2>1 DEF ToSet
  <2> QED BY <1>1, <1>4, <2>1, <2>2 DEF OneCopy
<1>10. \A d \in Ways : At(d, x) => d = c
  BY <1>1, <1>6 DEF Places, OnePlace
<1>11. \A h \in Goroutines : ~Heading(h, c, x)
  BY <1>1, <1>6 DEF OneCopy
<1>12. c \notin Verdicts
  BY <1>1 DEF Stages, Verdicts, Aggregators
<1>13. Places'
  <2>1. ASSUME NEW d \in Ways, NEW o \in Occ \ {x}, At(d, o)' PROVE At(d, o)
    BY <1>7, <1>8, <2>1 DEF At, Ways, ListedAs
  <2>2. ASSUME NEW d \in Ways, At(d, x)' PROVE d = t
    <3>1. CASE \E h \in Goroutines : Heading(h, d, x)'
      BY <1>7, <1>10, <1>11, <3>1 DEF At
    <3>2. CASE Waiting(d, x)'
      BY <1>8, <1>9, <1>10, <3>2 DEF At, Ways
    <3>3. CASE d \in Verdicts /\ x \in ListedAs(d)'
      BY <1>10, <1>12, <3>3 DEF At, ListedAs
    <3> QED BY <2>2, <3>1, <3>2, <3>3 DEF At
  <2> QED BY <1>5, <2>1, <2>2, PlacesMoved
<1>14. OneCopy'
  <2> SUFFICES ASSUME NEW d \in Stages
               PROVE  (/\ \A h \in Goroutines : \A i, j \in DOMAIN hand[h] :
                             /\ hand[h][i].to = d /\ hand[h][j].to = d
                             /\ hand[h][i].msg.occ = hand[h][j].msg.occ
                             => i = j
                       /\ \A i, j \in DOMAIN chan[d] : chan[d][i].occ = chan[d][j].occ => i = j
                       /\ \A o \in Occ : \A h \in Goroutines :
                             Heading(h, d, o) =>
                                /\ ~Waiting(d, o)
                                /\ \A k \in Goroutines : Heading(k, d, o) => k = h)'
    BY DEF OneCopy
  <2>1. d \in Channels /\ d \in Ways
    BY DEF Stages, Channels, Ways, Aggregators
  <2>2. ASSUME NEW h \in Goroutines, NEW i \in DOMAIN hand'[h], NEW j \in DOMAIN hand'[h],
               hand'[h][i].to = d, hand'[h][j].to = d,
               hand'[h][i].msg.occ = hand'[h][j].msg.occ
        PROVE  i = j
    <3>1. CASE h # g
      BY <1>3, <2>2, <3>1 DEF OneCopy
    <3>2. CASE h = g
      <4>1. i \in DOMAIN e /\ j \in DOMAIN e /\ e[i] \in ToSet(e) /\ e[i].to = d
        BY <1>3, <2>2, <3>2 DEF ToSet
      <4>2. d = t
        BY <2>1, <4>1 DEF Ways
      <4>3. DOMAIN e = 1..1
        BY <4>2
      <4> QED BY <4>1, <4>3
    <3> QED BY <3>1, <3>2
  <2>3. ASSUME NEW i \in DOMAIN chan'[d], NEW j \in DOMAIN chan'[d],
               chan'[d][i].occ = chan'[d][j].occ
        PROVE  i = j
    <3>1. CASE d # c
      BY <1>3, <2>1, <2>3, <3>1 DEF OneCopy
    <3>2. CASE d = c
      BY <1>4, <2>3, <3>2 DEF OneCopy
    <3> QED BY <3>1, <3>2
  <2>4. ~At(t, x)
    BY <1>3, <1>10
  <2>5. ASSUME NEW o \in Occ, NEW h \in Goroutines, Heading(h, d, o)'
        PROVE  ~Waiting(d, o)'
    BY <1>7, <1>8, <2>1, <2>4, <2>5 DEF OneCopy, At
  <2>6. ASSUME NEW o \in Occ, NEW h \in Goroutines, NEW k \in Goroutines,
               Heading(h, d, o)', Heading(k, d, o)'
        PROVE  k = h
    BY <1>7, <2>1, <2>4, <2>6 DEF OneCopy, At
  <2> QED BY <2>2, <2>3, <2>5, <2>6
<1> QED BY <1>13, <1>14

\* What a receiving goroutine finds at the head of its channel.
LEMMA HeadVouched ==
  ASSUME AuditInv, NEW c \in Stages, chan[c] # <<>>
  PROVE  Head(chan[c]).occ \in Occ /\ Fits(c, Head(chan[c]).occ)
<1>1. c \in Channels /\ c \in Ways
  BY DEF Stages, Channels, Ways, Aggregators
<1>2. Head(chan[c]).occ \in Occ /\ Head(chan[c]) \in ToSet(chan[c])
  BY <1>1, HeadOcc, HeadTailElements DEF AuditInv, Inv, TypeOK
<1>3. At(c, Head(chan[c]).occ)
  BY <1>2 DEF At, Waiting
<1> QED BY <1>1, <1>2, <1>3 DEF AuditInv, Places, Vouched

LEMMA ExtractAudit ==
  ASSUME AuditInv, NEW w \in Workers, ExtractFile(w)
  PROVE  Places' /\ OneCopy'
<1> DEFINE x == Head(chan["paths"]).occ
           t == IF Readable(x) /\ disk[path[x]].yaml # "bad" THEN "yaml" ELSE "badYaml"
<1>1. /\ Source(w) = "paths" /\ chan["paths"] # <<>> /\ "paths" \in Stages
      /\ x \in Occ /\ w \in Goroutines
  BY HeadVouched DEF Source, ExtractFile, Receive, Stages, Goroutines
<1>2. Extracted(x) = <<To(t, x)>>
  BY DEF Extracted
<1>3. /\ Idle(w) /\ hand' = [hand EXCEPT ![w] = Extracted(x)]
      /\ chan' = [chan EXCEPT !["paths"] = Tail(@)]
      /\ UNCHANGED <<input, present, mainPc, collected>>
  BY <1>1 DEF ExtractFile, Receive
<1>4. Fits(t, x)
  BY DEF Fits
<1> HIDE DEF x
<1>5. t \in Ways /\ t # "paths" /\ t \in Channels
  BY DEF Ways, Channels, Aggregators
<1> HIDE DEF t
<1>6. /\ <<To(t, x)>> \in Seq(Sends) /\ Len(<<To(t, x)>>) = 1
      /\ \A s \in ToSet(<<To(t, x)>>) : s.to = t /\ s.msg.occ = x
  BY <1>1, <1>5, SendTypes, PairElements DEF Kinds
<1> QED BY <1>1, <1>2, <1>3, <1>4, <1>5, <1>6, TakeAudit DEF x

LEMMA FilterAudit ==
  ASSUME AuditInv, FilterFile
  PROVE  Places' /\ OneCopy'
<1> DEFINE x == Head(chan["yaml"]).occ
           t == IF disk[path[x]].yaml = "k8s" THEN "k8s" ELSE "ignored"
<1>1. /\ Source("filter") = "yaml" /\ chan["yaml"] # <<>> /\ "yaml" \in Stages
      /\ x \in Occ /\ "filter" \in Goroutines
  BY HeadVouched, PipelineAssumption
     DEF Source, FilterFile, Receive, Stages, Goroutines, Helpers
<1>2. /\ Idle("filter") /\ hand' = [hand EXCEPT !["filter"] = <<To(t, x)>>]
      /\ chan' = [chan EXCEPT !["yaml"] = Tail(@)]
      /\ UNCHANGED <<input, present, mainPc, collected>>
  BY <1>1 DEF FilterFile, Receive
<1>3. Fits(t, x)
  BY DEF Fits
<1> HIDE DEF x
<1>4. t \in Ways /\ t # "yaml" /\ t \in Channels
  BY DEF Ways, Channels, Aggregators
<1> HIDE DEF t
<1>5. /\ <<To(t, x)>> \in Seq(Sends) /\ Len(<<To(t, x)>>) = 1
      /\ \A s \in ToSet(<<To(t, x)>>) : s.to = t /\ s.msg.occ = x
  BY <1>1, <1>4, SendTypes, PairElements DEF Kinds
<1> QED BY <1>1, <1>2, <1>3, <1>4, <1>5, TakeAudit DEF x

\* Where the outcome of a validation sends its file, warnings apart.
LEMMA OutcomeFits ==
  ASSUME TypeOK, NEW x \in Occ, disk[path[x]].yaml # "bad",
         opts.onlyK8s => disk[path[x]].yaml = "k8s"
  PROVE  \E t \in {"valid", "invalid"} :
            /\ Fits(t, x)
            /\ \A s \in ToSet(Outcome(x)) : s.to = "warning" \/ (s.to = t /\ s.msg.occ = x)
<1> DEFINE r == disk[path[x]].statuses
<1>1. /\ To("valid", x).to = "valid" /\ To("valid", x).msg.occ = x
      /\ To("invalid", x).to = "invalid" /\ To("invalid", x).msg.occ = x
      /\ Warn(x, "Skipped").to = "warning" /\ Warn(x, "NetworkError").to = "warning"
  BY DEF To, Warn
<1>2. r \subseteq Statuses
  BY DEF TypeOK
<1>3. \/ /\ Outcome(x) \in {<<To("invalid", x), To("invalid", x)>>, <<To("invalid", x)>>}
         /\ Fits("invalid", x)
      \/ /\ Outcome(x) \in {<<To("valid", x)>>, <<To("valid", x), Warn(x, "NetworkError")>>,
                            <<To("valid", x), Warn(x, "Skipped")>>}
         /\ Fits("valid", x)
  <2>1. CASE opts.skip
    BY <2>1 DEF Outcome, Fits
  <2>2. CASE ~opts.skip /\ ~Readable(x)
    BY <2>2 DEF Outcome, Validated, Fits
  <2>3. CASE ~opts.skip /\ Readable(x) /\ NoSchemas
    BY <2>3 DEF Outcome, Validated, Fits
  <2>4. CASE /\ ~opts.skip /\ Readable(x) /\ ~NoSchemas
             /\ r \subseteq {"Empty"} \/ r \cap {"Invalid", "Error"} # {}
    BY <2>4 DEF Outcome, Validated, Fits
  <2>5. CASE /\ ~opts.skip /\ Readable(x) /\ ~NoSchemas
             /\ ~(r \subseteq {"Empty"}) /\ r \cap {"Invalid", "Error"} = {}
    <3>1. r \cap {"Valid", "Skipped"} # {}
      BY <1>2, <2>5 DEF Statuses
    <3>2. Fits("valid", x)
      BY <2>5, <3>1 DEF Fits
    <3>3. Outcome(x) \in {<<To("valid", x)>>, <<To("valid", x), Warn(x, "Skipped")>>}
      BY <2>5 DEF Outcome, Validated
    <3> QED BY <3>2, <3>3
  <2> QED BY <2>1, <2>2, <2>3, <2>4, <2>5
<1> HIDE DEF r
<1>4. CASE /\ Outcome(x) \in {<<To("invalid", x), To("invalid", x)>>, <<To("invalid", x)>>}
           /\ Fits("invalid", x)
  <2>1. ToSet(Outcome(x)) = {To("invalid", x)}
    BY <1>4, PairElements
  <2> QED BY <1>1, <1>4, <2>1
<1>5. CASE /\ Outcome(x) \in {<<To("valid", x)>>, <<To("valid", x), Warn(x, "NetworkError")>>,
                              <<To("valid", x), Warn(x, "Skipped")>>}
           /\ Fits("valid", x)
  <2>1. ToSet(Outcome(x)) \subseteq {To("valid", x), Warn(x, "NetworkError"),
                                     Warn(x, "Skipped")}
    BY <1>5, PairElements
  <2> QED BY <1>1, <1>5, <2>1
<1> QED BY <1>3, <1>4, <1>5

LEMMA ValidateAudit ==
  ASSUME AuditInv, ValidateFile
  PROVE  Places' /\ OneCopy'
<1>1. PICK c \in {"yaml", "k8s"} : /\ c = Source("validator")
                                   /\ opts.onlyK8s => c = "k8s"
  BY PipelineAssumption DEF Source, Helpers
<1> DEFINE x == Head(chan[c]).occ
<1>2. /\ c \in Stages /\ "validator" \in Goroutines
      /\ Idle("validator") /\ chan[c] # <<>>
      /\ hand' = [hand EXCEPT !["validator"] = Outcome(x)]
      /\ chan' = [chan EXCEPT ![c] = Tail(@)]
      /\ UNCHANGED <<input, present, mainPc, collected>>
  BY <1>1 DEF ValidateFile, Receive, Stages, Goroutines, Helpers
<1>3. x \in Occ /\ Fits(c, x)
  BY <1>2, HeadVouched
<1> HIDE DEF x
<1>4. disk[path[x]].yaml # "bad" /\ (opts.onlyK8s => disk[path[x]].yaml = "k8s")
  BY <1>1, <1>3 DEF Fits
<1>5. Outcome(x) \in Seq(Sends)
  BY <1>3, HandlerOutputs DEF AuditInv, Inv
<1>6. PICK t \in {"valid", "invalid"} :
         /\ Fits(t, x)
         /\ \A s \in ToSet(Outcome(x)) : s.to = "warning" \/ (s.to = t /\ s.msg.occ = x)
  BY <1>3, <1>4, OutcomeFits DEF AuditInv, Inv
<1>7. t \in Ways /\ t # c /\ t \notin Stages
  BY <1>1 DEF Ways, Channels, Aggregators, Stages
<1> QED BY <1>2, <1>3, <1>5, <1>6, <1>7, TakeAudit DEF x

\* Steps that leave every message where it is.
LEMMA SteadyAudit ==
  ASSUME AuditInv, UNCHANGED <<input, chan, hand, collected>>, present' \subseteq present,
         mainPc' = "extract" => mainPc = "extract"
  PROVE  Places' /\ OneCopy'
<1>1. /\ \A g, c, o : Heading(g, c, o)' <=> Heading(g, c, o)
      /\ \A c, o : Waiting(c, o)' <=> Waiting(c, o)
  BY DEF Heading, Waiting
<1>2. \A c, o : At(c, o)' <=> At(c, o)
  BY <1>1 DEF At, ListedAs
<1> QED BY <1>1, <1>2, PlacesKept DEF AuditInv, OneCopy

\* An aggregator moves an occurrence from its channel to its list.
LEMMA AggregateAudit ==
  ASSUME AuditInv, NEW a \in Aggregators,
         \/ a \in Verdicts /\ AppendToList(a)
         \/ a = "warning" /\ RecordWarning
  PROVE  Places' /\ OneCopy'
<1> USE DEF AuditInv, Inv
<1> DEFINE m == Head(chan[a])
<1>1. /\ a \in Channels /\ a \notin Stages
      /\ chan[a] \in Seq(Messages) /\ chan[a] # <<>>
      /\ m \in Messages /\ ToSet(chan[a]) = {m} \cup ToSet(Tail(chan[a]))
      /\ chan' = [chan EXCEPT ![a] = Tail(chan[a])]
      /\ UNCHANGED <<input, present, mainPc, hand>>
  BY HeadTailElements DEF AppendToList, RecordWarning, TypeOK, Channels, Stages, Aggregators
<1>2. Waiting(a, m.occ) /\ m.occ \in Occ
  BY <1>1 DEF Waiting, Messages
<1>3. \A c \in Channels \ {a} : chan'[c] = chan[c]
  BY <1>1 DEF TypeOK
<1>4. \A g, c, o : Heading(g, c, o)' <=> Heading(g, c, o)
  BY <1>1 DEF Heading
<1>5. \A c \in Channels : \A o : Waiting(c, o)' => Waiting(c, o)
  BY <1>1 DEF Waiting, TypeOK
<1>6. ASSUME NEW v \in Verdicts, NEW o, o \in ListedAs(v)'
      PROVE  o \in ListedAs(v) \/ (v = a /\ o = m.occ)
  <2>1. CASE a \in Verdicts /\ AppendToList(a)
    <3>1. /\ collected[a] \in Seq(Occ)
          /\ ToSet(Append(collected[a], m.occ)) = ToSet(collected[a]) \cup {m.occ}
      BY <1>2, <2>1, AppendElements DEF TypeOK
    <3>2. collected' = [collected EXCEPT ![a] = Append(collected[a], m.occ)]
      BY <2>1 DEF AppendToList
    <3> QED BY <1>6, <3>1, <3>2 DEF ListedAs, TypeOK
  <2>2. CASE RecordWarning
    BY <1>6, <2>2 DEF RecordWarning, ListedAs
  <2> QED BY <2>1, <2>2
<1> HIDE DEF m
<1>7. Places'
  <2>1. ASSUME NEW c \in Ways, NEW o \in Occ, At(c, o)' PROVE At(c, o)
    BY <1>2, <1>4, <1>5, <1>6, <2>1 DEF At, Ways
  <2> QED BY <1>1, <2>1, PlacesKept
<1>8. OneCopy'
  <2>1. Stages \subseteq Channels \ {a}
    BY <1>1 DEF Stages, Channels
  <2> QED BY <1>1, <1>3, <1>4, <1>5, <2>1 DEF OneCopy
<1> QED BY <1>7, <1>8

\* At the start, every occurrence is in the feeder's hand, once.
LEMMA StartAudit ==
  ASSUME AuditInv, StartExtraction
  PROVE  Places' /\ OneCopy'
<1> USE DEF AuditInv, Inv
<1> DEFINE first == [o \in Occ |-> To("paths", o)]
<1>1. /\ mainPc = "extract" /\ mainPc' # "extract"
      /\ UNCHANGED <<input, present, chan, collected>>
      /\ "feeder" \in Goroutines
      /\ \A c \in Ways, o \in Occ : ~At(c, o)
  BY DEF StartExtraction, Places, Unstarted, Goroutines, Helpers
<1>2. /\ hand'["feeder"] = first
      /\ \A g \in Goroutines \ {"feeder"} : hand'[g] = hand[g]
  BY <1>1 DEF StartExtraction, TypeOK
<1>3. /\ DOMAIN first = Occ
      /\ \A i \in Occ : first[i].to = "paths" /\ first[i].msg.occ = i
  BY DEF To
<1> HIDE DEF first
<1>4. /\ \A g \in Goroutines \ {"feeder"} : \A c, o : Heading(g, c, o)' <=> Heading(g, c, o)
      /\ \A c, o : Waiting(c, o)' <=> Waiting(c, o)
      /\ \A v : ListedAs(v)' = ListedAs(v)
  BY <1>1, <1>2 DEF Heading, Waiting, ListedAs
<1>5. \A c, o : Heading("feeder", c, o)' => c = "paths"
  BY <1>2, <1>3 DEF Heading, ToSet
<1>6. ASSUME NEW c \in Ways, NEW o \in Occ, At(c, o)' PROVE c = "paths"
  BY <1>1, <1>4, <1>5, <1>6 DEF At
<1>7. Places'
  <2>1. Unstarted' /\ OnePlace'
    BY <1>1, <1>6 DEF Unstarted, OnePlace
  <2>2. Vouched'
    BY <1>6 DEF Vouched, Fits
  <2> QED BY <2>1, <2>2 DEF Places
<1>8. OneCopy'
  <2> SUFFICES ASSUME NEW c \in Stages
               PROVE  (/\ \A h \in Goroutines : \A i, j \in DOMAIN hand[h] :
                             /\ hand[h][i].to = c /\ hand[h][j].to = c
                             /\ hand[h][i].msg.occ = hand[h][j].msg.occ
                             => i = j
                       /\ \A i, j \in DOMAIN chan[c] : chan[c][i].occ = chan[c][j].occ => i = j
                       /\ \A o \in Occ : \A h \in Goroutines :
                             Heading(h, c, o) =>
                                /\ ~Waiting(c, o)
                                /\ \A k \in Goroutines : Heading(k, c, o) => k = h)'
    BY DEF OneCopy
  <2>1. c \in Ways
    BY DEF Stages, Ways, Channels, Aggregators
  <2>2. ASSUME NEW h \in Goroutines, NEW i \in DOMAIN hand'[h], NEW j \in DOMAIN hand'[h],
               hand'[h][i].to = c, hand'[h][j].to = c,
               hand'[h][i].msg.occ = hand'[h][j].msg.occ
        PROVE  i = j
    <3>1. CASE h # "feeder"
      BY <1>2, <2>2, <3>1 DEF OneCopy
    <3>2. CASE h = "feeder"
      BY <1>2, <1>3, <2>2, <3>2
    <3> QED BY <3>1, <3>2
  <2>3. \A i, j \in DOMAIN chan'[c] : chan'[c][i].occ = chan'[c][j].occ => i = j
    BY <1>1 DEF OneCopy
  <2>4. \A o \in Occ : /\ ~Waiting(c, o)'
                       /\ \A h \in Goroutines : Heading(h, c, o)' => h = "feeder"
    BY <1>1, <1>4, <2>1 DEF At
  <2> QED BY <2>2, <2>3, <2>4
<1> QED BY <1>7, <1>8

LEMMA InitAudit == Init => AuditInv
<1> SUFFICES ASSUME Init PROVE AuditInv
  OBVIOUS
<1>1. /\ \A g \in Goroutines : hand[g] = <<>>
      /\ \A c \in Channels : chan[c] = <<>>
      /\ \A v \in Verdicts : collected[v] = <<>>
  BY DEF Init
<1>2. ToSet(<<>>) = {} /\ DOMAIN <<>> = {}
  <2>1. ToSet(<<>>) = {}
    BY EmptyElements, EmptySeq
  <2> QED BY <2>1 DEF ToSet
<1>3. /\ \A g \in Goroutines : \A c, o : ~Heading(g, c, o)
      /\ \A c \in Channels : \A o : ~Waiting(c, o)
      /\ \A v \in Verdicts : ListedAs(v) = {}
  BY <1>1, <1>2 DEF Heading, Waiting, ListedAs
<1>4. \A c \in Ways, o \in Occ : ~At(c, o)
  BY <1>3 DEF At, Ways
<1>5. Places
  BY <1>4 DEF Places, Unstarted, OnePlace, Vouched
<1>6. OneCopy
  <2>1. Stages \subseteq Channels
    BY DEF Stages, Channels
  <2> QED BY <1>1, <1>2, <1>3, <2>1 DEF OneCopy
<1> QED BY <1>5, <1>6, InitInv DEF AuditInv

LEMMA NextAudit == AuditInv /\ [Next]_vars => AuditInv'
<1> SUFFICES ASSUME AuditInv, [Next]_vars PROVE Places' /\ OneCopy'
  BY NextInv DEF AuditInv
<1>1. ASSUME NEW g \in Goroutines, Step(g) PROVE Places' /\ OneCopy'
  <2>1. CASE Send(g)
    BY <2>1, SendAudit
  <2>2. CASE g \in Workers /\ ExtractFile(g)
    BY <2>2, ExtractAudit
  <2>3. CASE FilterFile
    BY <2>3, FilterAudit
  <2>4. CASE ValidateFile
    BY <2>4, ValidateAudit
  <2>5. CASE g \in Aggregators /\ (\/ g \in Verdicts /\ AppendToList(g)
                                   \/ g = "warning" /\ RecordWarning)
    BY <2>5, AggregateAudit
  <2>6. CASE WorkerExits(g) \/ LaunchWorkers \/ Close(g) \/ AggregatorExits(g)
    <3>1. UNCHANGED <<input, chan, hand, collected, present, mainPc>>
      BY <2>6 DEF WorkerExits, LaunchWorkers, Close, AggregatorExits
    <3> QED BY <3>1, SteadyAudit
  <2> QED BY <1>1, <2>1, <2>2, <2>3, <2>4, <2>5, <2>6 DEF Step, WorkerStep, AggregatorStep
<1>2. CASE StartExtraction
  BY <1>2, StartAudit
<1>3. CASE StartFilter \/ StartValidation \/ WaitReturns
  <2>1. UNCHANGED <<input, chan, hand, collected, present>> /\ mainPc' # "extract"
    BY <1>3 DEF StartFilter, StartValidation, WaitReturns
  <2> QED BY <2>1, SteadyAudit
<1>4. CASE (\E p \in Paths : Vanish(p)) \/ Terminated \/ UNCHANGED vars
  <2>1. UNCHANGED <<input, chan, hand, collected, mainPc>> /\ present' \subseteq present
    BY <1>4 DEF Vanish, Terminated, vars, input
  <2> QED BY <2>1, SteadyAudit
<1> QED BY <1>1, <1>2, <1>3, <1>4 DEF Next, MainStep

LEMMA AuditInvariance == Spec => []AuditInv
BY InitAudit, NextAudit, PTL DEF Spec
-----------------------------------------------------------------------------
(***************************************************************************)
(* The theorems.                                                           *)
(***************************************************************************)
\* Every list holds only files that deserve to be on it: what the policies are
\* evaluated on has parsed, is a Kubernetes file if only those are wanted, and
\* has passed the schema validation if there was one; and a file that can still
\* be read is called bad or invalid only if it is (main.go:596).
THEOREM VerdictsSound == Spec => []VerdictSound
<1>1. ASSUME AuditInv PROVE VerdictSound
  <2>1. \A v \in Verdicts : \A o \in ListedAs(v) : o \in Occ /\ Fits(v, o)
    <3> SUFFICES ASSUME NEW v \in Verdicts, NEW o \in ListedAs(v) PROVE o \in Occ /\ Fits(v, o)
      OBVIOUS
    <3>1. o \in Occ
      BY <1>1, EmptyElements DEF AuditInv, Inv, TypeOK, ListedAs
    <3>2. v \in Ways
      BY DEF Ways, Channels, Verdicts
    <3> QED BY <1>1, <3>1, <3>2 DEF AuditInv, Places, Vouched, At
  <2>2. {"valid", "invalid", "badYaml"} \subseteq Verdicts
    BY DEF Verdicts, Aggregators
  <2>3. /\ \A o \in ListedAs("valid") : Fits("valid", o)
        /\ \A o \in ListedAs("invalid") : Fits("invalid", o)
        /\ \A o \in ListedAs("badYaml") : Fits("badYaml", o)
    BY <2>1, <2>2
  <2> QED BY <2>3 DEF Fits, VerdictSound
<1> QED BY <1>1, AuditInvariance, PTL

\* The audit's verdict of an occurrence is the one list it is on.
VerdictIs ==
    /\ \A o \in Occ : \A v \in Verdicts : o \in ListedAs(v) => AuditVerdict[o] = v
    /\ \A o \in Occ : ~Listed(o) => AuditVerdict[o] = "pending"

LEMMA OneVerdict == AuditInv => VerdictIs
<1> SUFFICES ASSUME AuditInv PROVE VerdictIs
  OBVIOUS
<1>1. ASSUME NEW o \in Occ, NEW v \in Verdicts, o \in ListedAs(v) PROVE AuditVerdict[o] = v
  <2>1. \A u \in Verdicts : o \in ListedAs(u) => u = v
    BY <1>1 DEF AuditInv, Places, OnePlace, At, Ways, Channels, Verdicts
  <2> QED BY <1>1, <2>1 DEF AuditVerdict
<1>2. ASSUME NEW o \in Occ, ~Listed(o) PROVE AuditVerdict[o] = "pending"
  BY <1>2 DEF AuditVerdict, Listed
<1> QED BY <1>1, <1>2 DEF VerdictIs

\* The verdicts change in one step of an aggregator, as the audit decides.
LEMMA AppendDecides ==
  ASSUME AuditInv, VerdictIs, VerdictIs', NEW a \in Verdicts, AppendToList(a)
  PROVE  [Audit!Next]_(Audit!vars)
<1> USE DEF AuditInv, Inv
<1> DEFINE x == Head(chan[a]).occ
<1>1. /\ a \in Channels /\ a \in Aggregators /\ chan[a] # <<>> /\ x \in Occ
      /\ collected' = [collected EXCEPT ![a] = Append(collected[a], x)]
      /\ mainPc' = mainPc
  BY HeadOcc DEF AppendToList, Channels, Verdicts
<1>2. mainPc # "done"
  BY <1>1, Quiet DEF AppendToList, Idle
<1> HIDE DEF x
<1>3. \A v \in Verdicts : \A o : o \in ListedAs(v)' <=> o \in ListedAs(v) \/ (v = a /\ o = x)
  <2>1. collected[a] \in Seq(Occ)
    BY DEF TypeOK
  <2>2. ToSet(Append(collected[a], x)) = ToSet(collected[a]) \cup {x}
    BY <1>1, <2>1, AppendElements
  <2> QED BY <1>1, <2>2 DEF ListedAs, TypeOK
<1>4. DOMAIN AuditVerdict = Occ /\ DOMAIN AuditVerdict' = Occ
  BY DEF AuditVerdict
<1>5. \A o \in Occ \ {x} : AuditVerdict'[o] = AuditVerdict[o]
  BY <1>3 DEF VerdictIs, Listed
<1>6. AuditVerdict'[x] = a
  BY <1>1, <1>3 DEF VerdictIs
<1>7. CASE x \in ListedAs(a)
  <2>1. AuditVerdict[x] = a
    BY <1>1, <1>7 DEF VerdictIs
  <2>2. AuditVerdict' = AuditVerdict
    BY <1>4, <1>5, <1>6, <2>1 DEF AuditVerdict
  <2> QED BY <1>1, <2>2 DEF Audit!vars
<1>8. CASE x \notin ListedAs(a)
  <2>1. ~Listed(x)
    <3>1. ASSUME NEW v \in Verdicts, x \in ListedAs(v) PROVE v = a
      <4>1. At(v, x) /\ At(a, x) /\ v \in Ways /\ a \in Ways
        BY <1>1, <3>1, HeadTailElements
           DEF At, Waiting, Ways, Channels, Verdicts, TypeOK, x
      <4> QED BY <1>1, <4>1 DEF Places, OnePlace
    <3> QED BY <1>8, <3>1 DEF Listed
  <2>2. AuditVerdict[x] = "pending"
    BY <1>1, <2>1 DEF VerdictIs
  <2>3. AuditVerdict' = [AuditVerdict EXCEPT ![x] = a]
    BY <1>4, <1>5, <1>6, ZenonT(30) DEF AuditVerdict
  <2>4. a \in Audit!Verdicts
    BY DEF Audit!Verdicts, Verdicts, Aggregators
  <2>5. Audit!Decide(x)
    BY <1>1, <1>2, <2>2, <2>3, <2>4 DEF Audit!Decide
  <2> QED BY <1>1, <2>5 DEF Audit!Next
<1> QED BY <1>7, <1>8

\* Every step of the pipeline decides about one occurrence as the audit does,
\* ends the audit when all are decided, or changes nothing the audit speaks of.
THEOREM AuditImplemented == Spec => Audit!Safety
<1>1. ASSUME Init PROVE Audit!Init
  <2>1. \A v \in Verdicts : ListedAs(v) = {}
    <3>1. ToSet(<<>>) = {}
      BY EmptyElements, EmptySeq
    <3> QED BY <1>1, <3>1 DEF Init, ListedAs
  <2>2. AuditVerdict = [o \in Occ |-> "pending"]
    BY <2>1 DEF AuditVerdict
  <2>3. mainPc # "done"
    BY <1>1 DEF Init
  <2> QED BY <2>2, <2>3 DEF Audit!Init
<1>2. ASSUME AuditInv, VerdictIs, VerdictIs', EveryFileHasVerdict', [Next]_vars
      PROVE  [Audit!Next]_(Audit!vars)
  <2>1. CASE \E a \in Verdicts : AppendToList(a)
    BY <1>2, <2>1, AppendDecides
  <2>2. CASE UNCHANGED collected
    <3>1. \A v \in Verdicts : ListedAs(v)' = ListedAs(v)
      BY <2>2 DEF ListedAs
    <3>2. AuditVerdict' = AuditVerdict
      <4>1. \A o \in Occ : AuditVerdict'[o] = AuditVerdict[o]
        BY <1>2, <3>1 DEF VerdictIs, Listed
      <4> QED BY <4>1 DEF AuditVerdict
    <3>3. CASE (mainPc' = "done") <=> (mainPc = "done")
      BY <3>2, <3>3 DEF Audit!vars
    <3>4. CASE mainPc' = "done" /\ mainPc # "done"
      <4>1. \A o \in Occ : AuditVerdict[o] # "pending"
        BY <1>2, <3>1, <3>4 DEF EveryFileHasVerdict, VerdictIs, Verdicts, Aggregators
      <4> QED BY <3>2, <3>4, <4>1 DEF Audit!Next, Audit!Finish
    <3>5. mainPc = "done" => mainPc' = "done"
      BY <1>2 DEF Next, Step, MainStep, WorkerStep, AggregatorStep, StartExtraction, StartFilter,
                  StartValidation, WaitReturns, Send, ExtractFile, WorkerExits, LaunchWorkers,
                  FilterFile, ValidateFile, Close, AppendToList, RecordWarning,
                  AggregatorExits, Vanish, Terminated, vars
    <3> QED BY <3>3, <3>4, <3>5
  <2>3. (\E a \in Verdicts : AppendToList(a)) \/ UNCHANGED collected
    BY <1>2 DEF Next, Step, MainStep, WorkerStep, AggregatorStep, StartExtraction, StartFilter,
                StartValidation, WaitReturns, Send, ExtractFile, WorkerExits, LaunchWorkers,
                FilterFile, ValidateFile, Close, RecordWarning, AggregatorExits,
                Vanish, Terminated, vars
  <2> QED BY <2>1, <2>2, <2>3
<1>3. AuditInv => VerdictIs /\ EveryFileHasVerdict
  BY OneVerdict, Complete DEF AuditInv
<1> QED BY <1>1, <1>2, <1>3, AuditInvariance, PTL DEF Spec, Audit!Safety
-----------------------------------------------------------------------------
(***************************************************************************)
(* How often an occurrence is on its way to a list.                        *)
(***************************************************************************)
\* How many elements of s are in S.
Copies(s, S) == Cardinality({i \in DOMAIN s : s[i] \in S})

SendsOf(c, o) == {s \in Sends : s.to = c /\ s.msg.occ = o}
MessagesOf(o) == {m \in Messages : m.occ = o}

LEMMA CopiesType ==
  ASSUME NEW T, NEW s \in Seq(T), NEW S
  PROVE  /\ IsFiniteSet({i \in DOMAIN s : s[i] \in S})
         /\ Copies(s, S) \in Nat
         /\ (\A i \in DOMAIN s : s[i] \notin S) => Copies(s, S) = 0
         /\ (\E i \in DOMAIN s : s[i] \in S) => Copies(s, S) > 0
<1> DEFINE I == {i \in DOMAIN s : s[i] \in S}
<1>1. DOMAIN s = 1..Len(s) /\ Len(s) \in Nat
  OBVIOUS
<1>2. IsFiniteSet(DOMAIN s)
  BY <1>1, FS_Interval
<1>3. I \in SUBSET DOMAIN s
  OBVIOUS
<1>4. Copies(s, S) = Cardinality(I)
  BY DEF Copies
<1>5. /\ (\A i \in DOMAIN s : s[i] \notin S) => I = {}
      /\ (\E i \in DOMAIN s : s[i] \in S) => I # {}
  OBVIOUS
<1> HIDE DEF I
<1>6. IsFiniteSet(I)
  BY <1>2, <1>3, FS_Subset
<1>7. Cardinality(I) \in Nat /\ (Cardinality(I) = 0 <=> I = {})
  BY <1>6, FS_CardinalityType, FS_EmptySet
<1>8. /\ Copies(s, S) \in Nat
      /\ (\A i \in DOMAIN s : s[i] \notin S) => Copies(s, S) = 0
      /\ (\E i \in DOMAIN s : s[i] \in S) => Copies(s, S) > 0
  BY <1>4, <1>5, <1>7
<1> QED BY <1>6, <1>8 DEF I

LEMMA CopiesAppend ==
  ASSUME NEW T, NEW s \in Seq(T), NEW e \in T, NEW S
  PROVE  Copies(Append(s, e), S) = Copies(s, S) + IF e \in S THEN 1 ELSE 0
<1> DEFINE q == Append(s, e)
           n == Len(s) + 1
           I == {i \in DOMAIN s : s[i] \in S}
           J == {i \in DOMAIN q : q[i] \in S}
<1>1. /\ DOMAIN s = 1..Len(s) /\ Len(s) \in Nat
      /\ DOMAIN q = DOMAIN s \cup {n} /\ n \notin DOMAIN s
      /\ q[n] = e /\ \A i \in DOMAIN s : q[i] = s[i]
  OBVIOUS
<1>2. /\ IsFiniteSet(I) /\ Copies(s, S) = Cardinality(I) /\ Copies(s, S) \in Nat
      /\ Copies(q, S) = Cardinality(J)
  BY CopiesType DEF Copies
<1> HIDE DEF q, n
<1>3. n \notin I /\ J = IF e \in S THEN I \cup {n} ELSE I
  BY <1>1
<1> HIDE DEF I, J
<1>4. Cardinality(I \cup {n}) = Cardinality(I) + 1
  BY <1>2, <1>3, FS_AddElement
<1>5. Cardinality(J) = Cardinality(I) + IF e \in S THEN 1 ELSE 0
  BY <1>2, <1>3, <1>4
<1> QED BY <1>2, <1>5 DEF q

LEMMA CopiesTail ==
  ASSUME NEW T, NEW s \in Seq(T), s # <<>>, NEW S
  PROVE  Copies(s, S) = Copies(Tail(s), S) + IF Head(s) \in S THEN 1 ELSE 0
<1> DEFINE q == Tail(s)
           I == {i \in DOMAIN s : s[i] \in S}
           J == {i \in DOMAIN q : q[i] \in S}
           f == [i \in J |-> i + 1]
<1>1. /\ q \in Seq(T) /\ Len(s) \in Nat /\ Len(s) > 0
      /\ DOMAIN s = 1..Len(s) /\ DOMAIN q = 1..(Len(s) - 1)
      /\ \A i \in 1..(Len(s) - 1) : q[i] = s[i + 1]
      /\ Head(s) = s[1]
  OBVIOUS
<1>2. /\ IsFiniteSet(I) /\ Copies(s, S) = Cardinality(I) /\ Copies(s, S) \in Nat
      /\ IsFiniteSet(J) /\ Copies(q, S) = Cardinality(J) /\ Copies(q, S) \in Nat
  BY <1>1, CopiesType DEF Copies
<1>3. f \in Bijection(J, I \ {1})
  <2>1. \A i \in J : i + 1 \in I \ {1}
    BY <1>1
  <2>2. \A j \in I \ {1} : j - 1 \in J /\ f[j - 1] = j
    BY <1>1
  <2>3. \A i, j \in J : f[i] = f[j] => i = j
    BY <1>1
  <2> QED BY <2>1, <2>2, <2>3 DEF Bijection, Injection, Surjection, IsInjective
<1> HIDE DEF I, J, f
<1>4. Cardinality(J) = Cardinality(I \ {1})
  <2>1. ExistsBijection(J, I \ {1})
    BY <1>3 DEF ExistsBijection
  <2> QED BY <1>2, <2>1, FS_Bijection
<1>5. Cardinality(I \ {1}) = IF 1 \in I THEN Cardinality(I) - 1 ELSE Cardinality(I)
  BY <1>2, FS_RemoveElement
<1>6. 1 \in I <=> Head(s) \in S
  BY <1>1 DEF I
<1> HIDE DEF q
<1>7. Cardinality(I) = Cardinality(J) + IF Head(s) \in S THEN 1 ELSE 0
  BY <1>2, <1>4, <1>5, <1>6
<1> QED BY <1>2, <1>7 DEF q

\* Sequences of one and of two elements.
LEMMA CopiesPair ==
  ASSUME NEW T, NEW a \in T, NEW b \in T, NEW S
  PROVE  /\ Copies(<<a>>, S) <= 1 /\ Copies(<<a, b>>, S) <= 2
         /\ b \notin S => Copies(<<a, b>>, S) <= 1
<1>1. /\ <<a>> \in Seq(T) /\ <<a, b>> \in Seq(T) /\ <<b>> \in Seq(T) /\ <<>> \in Seq(T)
      /\ <<a>> # <<>> /\ <<b>> # <<>> /\ <<a, b>> # <<>>
      /\ Tail(<<a>>) = <<>> /\ Tail(<<b>>) = <<>> /\ Tail(<<a, b>>) = <<b>>
      /\ Head(<<b>>) = b
  OBVIOUS
<1>2. Copies(<<>>, S) = 0
  <2>1. \A i \in DOMAIN <<>> : <<>>[i] \notin S
    OBVIOUS
  <2> QED BY <1>1, <2>1, CopiesType
<1>3. Copies(<<a>>, S) = Copies(<<>>, S) + IF Head(<<a>>) \in S THEN 1 ELSE 0
  BY <1>1, CopiesTail
<1>4. Copies(<<b>>, S) = Copies(<<>>, S) + IF b \in S THEN 1 ELSE 0
  BY <1>1, CopiesTail, ZenonT(30)
<1>5. Copies(<<a, b>>, S) = Copies(<<b>>, S) + IF Head(<<a, b>>) \in S THEN 1 ELSE 0
  BY <1>1, CopiesTail, ZenonT(30)
<1> QED BY <1>2, <1>3, <1>4, <1>5

Held(g, c, o) == Copies(hand[g], SendsOf(c, o))
Queued(c, o) == Copies(chan[c], MessagesOf(o))

\* A file that cannot be opened is sent twice.
Limit(c, o) == IF c = "invalid" /\ ~Readable(o) THEN 2 ELSE 1

\* One goroutine at a time has a verdict on an occurrence still to send, and it
\* sends no more than is due.
OneHolder == \A c \in Verdicts, o \in Occ : \A g, h \in Goroutines :
                Heading(g, c, o) /\ Heading(h, c, o) => g = h

Bounded == \A c \in Verdicts, o \in Occ : \A g \in Goroutines :
              Held(g, c, o) + Queued(c, o) + Times(o, c) <= Limit(c, o)

Single == OneHolder /\ Bounded

LEMMA HeldType ==
  ASSUME NEW g \in Goroutines, NEW c \in Channels, NEW o \in Occ, TypeOK
  PROVE  /\ Held(g, c, o) \in Nat
         /\ ~Heading(g, c, o) => Held(g, c, o) = 0
         /\ Heading(g, c, o) => Held(g, c, o) > 0
<1>1. hand[g] \in Seq(Sends)
  BY DEF TypeOK
<1>2. Heading(g, c, o) <=> \E i \in DOMAIN hand[g] : hand[g][i] \in SendsOf(c, o)
  <2>1. \A i \in DOMAIN hand[g] : hand[g][i] \in Sends
    BY <1>1, ElementOfSeq, LenProperties
  <2> QED BY <2>1 DEF Heading, ToSet, SendsOf
<1>3. /\ Copies(hand[g], SendsOf(c, o)) \in Nat
      /\ (\A i \in DOMAIN hand[g] : hand[g][i] \notin SendsOf(c, o))
         => Copies(hand[g], SendsOf(c, o)) = 0
      /\ (\E i \in DOMAIN hand[g] : hand[g][i] \in SendsOf(c, o))
         => Copies(hand[g], SendsOf(c, o)) > 0
  BY <1>1, CopiesType
<1> QED BY <1>2, <1>3 DEF Held

LEMMA QueuedType ==
  ASSUME NEW c \in Channels, NEW o \in Occ, TypeOK
  PROVE  /\ Queued(c, o) \in Nat
         /\ ~Waiting(c, o) => Queued(c, o) = 0
<1>1. chan[c] \in Seq(Messages)
  BY DEF TypeOK
<1>2. ~Waiting(c, o) => \A i \in DOMAIN chan[c] : chan[c][i] \notin MessagesOf(o)
  BY DEF Waiting, ToSet, MessagesOf
<1>3. /\ Copies(chan[c], MessagesOf(o)) \in Nat
      /\ (\A i \in DOMAIN chan[c] : chan[c][i] \notin MessagesOf(o))
         => Copies(chan[c], MessagesOf(o)) = 0
  BY <1>1, CopiesType
<1> QED BY <1>2, <1>3 DEF Queued

LEMMA TimesCopies == \A o, v : Times(o, v) = Copies(collected[v], {o})
<1> SUFFICES ASSUME NEW o, NEW v PROVE Times(o, v) = Copies(collected[v], {o})
  OBVIOUS
<1>1. {i \in DOMAIN collected[v] : collected[v][i] = o}
        = {i \in DOMAIN collected[v] : collected[v][i] \in {o}}
  OBVIOUS
<1> QED BY <1>1 DEF Times, Copies

LEMMA TimesType ==
  ASSUME NEW v \in Verdicts, NEW o \in Occ, TypeOK
  PROVE  /\ Times(o, v) \in Nat
         /\ o \notin ListedAs(v) => Times(o, v) = 0
         /\ o \in ListedAs(v) => Times(o, v) > 0
<1>1. collected[v] \in Seq(Occ)
  BY DEF TypeOK
<1>2. o \in ListedAs(v) <=> \E i \in DOMAIN collected[v] : collected[v][i] \in {o}
  BY DEF ListedAs, ToSet
<1>3. /\ Copies(collected[v], {o}) \in Nat
      /\ (\A i \in DOMAIN collected[v] : collected[v][i] \notin {o})
         => Copies(collected[v], {o}) = 0
      /\ (\E i \in DOMAIN collected[v] : collected[v][i] \in {o})
         => Copies(collected[v], {o}) > 0
  BY <1>1, CopiesType
<1> QED BY <1>2, <1>3, TimesCopies

\* A send moves a copy from the hand to the channel.
LEMMA SendSingle ==
  ASSUME AuditInv, Single, NEW g \in Goroutines, Send(g)
  PROVE  Single'
<1> USE DEF AuditInv, Inv
<1> DEFINE s == Head(hand[g])
<1>1. /\ hand[g] \in Seq(Sends) /\ hand[g] # <<>>
      /\ s \in Sends /\ Tail(hand[g]) \in Seq(Sends)
      /\ ToSet(hand[g]) = {s} \cup ToSet(Tail(hand[g]))
  BY HeadTailElements DEF Send, TypeOK
<1>2. s.to \in Channels /\ s.msg \in Messages /\ s.msg.occ \in Occ
      /\ chan[s.to] \in Seq(Messages)
  BY <1>1 DEF Sends, Messages, TypeOK
<1>3. /\ \A h \in Goroutines \ {g} : hand'[h] = hand[h]
      /\ hand'[g] = Tail(hand[g])
      /\ \A c \in Channels \ {s.to} : chan'[c] = chan[c]
      /\ chan'[s.to] = Append(chan[s.to], s.msg)
      /\ UNCHANGED <<input, present, collected>>
  BY <1>2 DEF Send, TypeOK
<1> DEFINE Moved(c, o) == s.to = c /\ s.msg.occ = o
<1>4. ASSUME NEW c \in Channels, NEW o \in Occ
      PROVE  /\ \A h \in Goroutines \ {g} : Held(h, c, o)' = Held(h, c, o)
             /\ Held(g, c, o) = Held(g, c, o)' + IF Moved(c, o) THEN 1 ELSE 0
             /\ Held(g, c, o)' \in Nat
             /\ Queued(c, o)' = Queued(c, o) + IF Moved(c, o) THEN 1 ELSE 0
             /\ Times(o, c)' = Times(o, c)
             /\ Limit(c, o)' = Limit(c, o)
  <2>1. \A h \in Goroutines \ {g} : Held(h, c, o)' = Held(h, c, o)
    BY <1>3 DEF Held
  <2>2. Held(g, c, o) = Held(g, c, o)' + IF Moved(c, o) THEN 1 ELSE 0
    <3>1. Copies(hand[g], SendsOf(c, o))
            = Copies(Tail(hand[g]), SendsOf(c, o)) + IF s \in SendsOf(c, o) THEN 1 ELSE 0
      BY <1>1, CopiesTail
    <3>2. s \in SendsOf(c, o) <=> Moved(c, o)
      BY <1>1 DEF SendsOf
    <3> HIDE DEF s, Moved
    <3> QED BY <1>3, <3>1, <3>2 DEF Held
  <2>3. Held(g, c, o)' \in Nat
    <3>1. Copies(Tail(hand[g]), SendsOf(c, o)) \in Nat
      BY <1>1, CopiesType
    <3> QED BY <1>3, <3>1 DEF Held
  <2>4. Queued(c, o)' = Queued(c, o) + IF Moved(c, o) THEN 1 ELSE 0
    <3>1. CASE c = s.to
      <4>1. Copies(Append(chan[s.to], s.msg), MessagesOf(o))
              = Copies(chan[s.to], MessagesOf(o)) + IF s.msg \in MessagesOf(o) THEN 1 ELSE 0
        BY <1>2, CopiesAppend
      <4>2. s.msg \in MessagesOf(o) <=> Moved(c, o)
        BY <1>2, <3>1 DEF MessagesOf
      <4> HIDE DEF s, Moved
      <4> QED BY <1>3, <3>1, <4>1, <4>2 DEF Queued
    <3>2. CASE c # s.to
      <4>1. Queued(c, o)' = Queued(c, o) /\ Queued(c, o) \in Nat
        BY <1>3, <3>2, QueuedType DEF Queued
      <4> QED BY <3>2, <4>1
    <3> QED BY <3>1, <3>2
  <2>5. Times(o, c)' = Times(o, c) /\ Limit(c, o)' = Limit(c, o)
    BY <1>3 DEF Times, Limit, Readable, input
  <2> QED BY <2>1, <2>2, <2>3, <2>4, <2>5
<1>5. ASSUME NEW h \in Goroutines, NEW c, NEW o, Heading(h, c, o)'
      PROVE  Heading(h, c, o)
  BY <1>1, <1>3, <1>5 DEF Heading
<1>6. OneHolder'
  BY <1>5 DEF Single, OneHolder
<1>7. ASSUME NEW c \in Verdicts, NEW o \in Occ, NEW h \in Goroutines
      PROVE  Held(h, c, o)' + Queued(c, o)' + Times(o, c)' <= Limit(c, o)'
  <2>1. c \in Channels
    BY DEF Verdicts, Channels
  <2>2. /\ Held(h, c, o) \in Nat /\ Held(g, c, o) \in Nat
        /\ Queued(c, o) \in Nat /\ Times(o, c) \in Nat
        /\ Limit(c, o) \in Nat
    BY <2>1, HeldType, QueuedType, TimesType DEF Limit
  <2>3. /\ Held(g, c, o) + Queued(c, o) + Times(o, c) <= Limit(c, o)
        /\ Held(h, c, o) + Queued(c, o) + Times(o, c) <= Limit(c, o)
    BY DEF Single, Bounded
  <2>4. Moved(c, o) /\ h # g => Held(h, c, o) = 0
    <3>1. Moved(c, o) => Heading(g, c, o)
      BY <1>1 DEF Heading
    <3> HIDE DEF Moved
    <3> QED BY <2>1, <3>1, HeldType DEF Single, OneHolder
  <2> HIDE DEF Moved
  <2>5. CASE h = g
    BY <1>4, <2>1, <2>2, <2>3, <2>5
  <2>6. CASE h # g
    BY <1>4, <2>1, <2>2, <2>3, <2>4, <2>6
  <2> QED BY <2>5, <2>6
<1> QED BY <1>6, <1>7 DEF Single, Bounded

\* Steps that send nothing, receive nothing and list nothing.
LEMMA SteadySingle ==
  ASSUME AuditInv, Single, UNCHANGED <<input, chan, hand, collected>>,
         present' \subseteq present
  PROVE  Single'
<1>1. ASSUME NEW c \in Verdicts, NEW o \in Occ, NEW h \in Goroutines
      PROVE  /\ Held(h, c, o)' = Held(h, c, o) /\ Queued(c, o)' = Queued(c, o)
             /\ Times(o, c)' = Times(o, c)
             /\ Heading(h, c, o)' <=> Heading(h, c, o)
             /\ Limit(c, o)' \in {Limit(c, o), 2} /\ Limit(c, o) \in {1, 2}
  BY DEF Held, Queued, Times, Heading, Limit, Readable, input
<1>2. OneHolder'
  BY <1>1 DEF Single, OneHolder
<1>3. ASSUME NEW c \in Verdicts, NEW o \in Occ, NEW h \in Goroutines
      PROVE  Held(h, c, o)' + Queued(c, o)' + Times(o, c)' <= Limit(c, o)'
  <2>1. Held(h, c, o) + Queued(c, o) + Times(o, c) <= Limit(c, o)
    BY DEF Single, Bounded
  <2>2. Held(h, c, o) \in Nat /\ Queued(c, o) \in Nat /\ Times(o, c) \in Nat
    BY HeldType, QueuedType, TimesType DEF AuditInv, Inv, Verdicts, Channels
  <2>3. /\ Limit(c, o)' \in {Limit(c, o), 2} /\ Limit(c, o) \in {1, 2}
        /\ Held(h, c, o)' = Held(h, c, o) /\ Queued(c, o)' = Queued(c, o)
        /\ Times(o, c)' = Times(o, c)
    BY <1>1
  <2>4. Limit(c, o) <= Limit(c, o)' /\ Limit(c, o) \in Nat /\ Limit(c, o)' \in Nat
    BY <2>3
  <2> QED BY <2>1, <2>2, <2>3, <2>4
<1> QED BY <1>2, <1>3 DEF Single, Bounded

\* A goroutine that receives x decides on it; nothing was sent to t before.
LEMMA TakeSingle ==
  ASSUME AuditInv, Single, NEW g \in Goroutines, NEW e \in Seq(Sends),
         NEW c \in Stages, Idle(g), chan[c] # <<>>,
         hand' = [hand EXCEPT ![g] = e],
         chan' = [chan EXCEPT ![c] = Tail(@)],
         NEW t \in Ways, t # c,
         NEW x \in Occ, x = Head(chan[c]).occ,
         \A s \in ToSet(e) : s.to = "warning" \/ (s.to = t /\ s.msg.occ = x),
         Copies(e, SendsOf(t, x)) <= Limit(t, x),
         UNCHANGED <<input, present, collected>>
  PROVE  Single'
<1> USE DEF AuditInv, Inv
<1>1. c \in Channels /\ c \in Ways /\ c \notin Verdicts
  BY DEF Stages, Channels, Ways, Verdicts, Aggregators
<1>2. /\ chan[c] \in Seq(Messages) /\ chan[c] # <<>>
      /\ ToSet(chan[c]) = {Head(chan[c])} \cup ToSet(Tail(chan[c]))
  BY <1>1, HeadTailElements DEF TypeOK
<1>3. /\ \A h \in Goroutines \ {g} : hand'[h] = hand[h]
      /\ hand'[g] = e
      /\ \A d \in Channels \ {c} : chan'[d] = chan[d]
  BY <1>1 DEF TypeOK
<1>4. At(c, x)
  BY <1>2 DEF At, Waiting
<1>5. ~At(t, x)
  BY <1>1, <1>4 DEF Places, OnePlace
<1>6. ASSUME NEW d \in Verdicts, NEW o \in Occ
      PROVE  /\ \A h \in Goroutines \ {g} : /\ Held(h, d, o)' = Held(h, d, o)
                                            /\ Heading(h, d, o)' <=> Heading(h, d, o)
             /\ Held(g, d, o)' = Copies(e, SendsOf(d, o))
             /\ Queued(d, o)' = Queued(d, o) /\ Times(o, d)' = Times(o, d)
             /\ Limit(d, o)' = Limit(d, o)
  <2>1. d \in Channels \ {c}
    BY <1>1 DEF Verdicts, Channels
  <2> QED BY <1>3, <2>1 DEF Held, Queued, Times, Heading, Limit, Readable, input
<1>7. ASSUME NEW d \in Verdicts, NEW o \in Occ, ~(d = t /\ o = x)
      PROVE  Held(g, d, o)' = 0 /\ ~Heading(g, d, o)'
  <2>1. d # "warning"
    BY DEF Verdicts
  <2>2. ~Heading(g, d, o)'
    BY <1>3, <1>7, <2>1 DEF Heading
  <2>3. \A i \in DOMAIN e : e[i] \notin SendsOf(d, o)
    BY <1>7, <2>1 DEF SendsOf, ToSet
  <2>4. Copies(e, SendsOf(d, o)) = 0
    BY <2>3, CopiesType
  <2> QED BY <1>6, <2>2, <2>4
<1>8. OneHolder'
  <2> SUFFICES ASSUME NEW d \in Verdicts, NEW o \in Occ, NEW h \in Goroutines,
                      NEW k \in Goroutines, Heading(h, d, o)', Heading(k, d, o)'
               PROVE  h = k
    BY DEF OneHolder
  <2>1. CASE d = t /\ o = x
    BY <1>5, <1>6, <2>1 DEF At
  <2>2. CASE ~(d = t /\ o = x)
    BY <1>6, <1>7, <2>2 DEF Single, OneHolder
  <2> QED BY <2>1, <2>2
<1>9. ASSUME NEW d \in Verdicts, NEW o \in Occ, NEW h \in Goroutines
      PROVE  Held(h, d, o)' + Queued(d, o)' + Times(o, d)' <= Limit(d, o)'
  <2>1. d \in Channels
    BY DEF Verdicts, Channels
  <2>2. /\ Held(h, d, o) \in Nat /\ Held(g, d, o) \in Nat
        /\ Queued(d, o) \in Nat /\ Times(o, d) \in Nat
        /\ Limit(d, o) \in Nat
    BY <2>1, HeldType, QueuedType, TimesType DEF Limit
  <2>3. /\ Held(g, d, o) + Queued(d, o) + Times(o, d) <= Limit(d, o)
        /\ Held(h, d, o) + Queued(d, o) + Times(o, d) <= Limit(d, o)
    BY DEF Single, Bounded
  <2>4. CASE h # g
    BY <1>6, <2>3, <2>4
  <2>5. CASE h = g /\ ~(d = t /\ o = x)
    <3>1. Held(h, d, o)' = 0
      BY <1>7, <2>5
    <3> QED BY <1>6, <2>2, <2>3, <3>1
  <2>6. CASE h = g /\ d = t /\ o = x
    <3>1. Queued(d, o) = 0 /\ Times(o, d) = 0
      BY <1>5, <2>1, <2>6, QueuedType, TimesType DEF At
    <3>2. Copies(e, SendsOf(d, o)) \in Nat
      BY CopiesType
    <3> QED BY <1>6, <2>2, <2>6, <3>1, <3>2
  <2> QED BY <2>4, <2>5, <2>6
<1> QED BY <1>8, <1>9 DEF Single, Bounded

\* An aggregator moves a copy from its channel to its list.
LEMMA AppendSingle ==
  ASSUME AuditInv, Single, NEW a \in Verdicts, AppendToList(a)
  PROVE  Single'
<1> USE DEF AuditInv, Inv
<1> DEFINE x == Head(chan[a]).occ
<1>1. /\ a \in Channels /\ a \in Aggregators /\ chan[a] # <<>> /\ x \in Occ
      /\ Head(chan[a]) \in Messages
      /\ chan[a] \in Seq(Messages) /\ collected[a] \in Seq(Occ)
  BY HeadOcc DEF AppendToList, Channels, Verdicts, TypeOK
<1>2. /\ collected'[a] = Append(collected[a], x)
      /\ \A v \in Verdicts \ {a} : collected'[v] = collected[v]
      /\ chan'[a] = Tail(chan[a])
      /\ \A d \in Channels \ {a} : chan'[d] = chan[d]
      /\ UNCHANGED <<input, present, hand>>
  BY <1>1 DEF AppendToList, TypeOK
<1>3. ASSUME NEW d \in Verdicts, NEW o \in Occ
      PROVE  /\ Queued(d, o)' + Times(o, d)' = Queued(d, o) + Times(o, d)
             /\ Queued(d, o)' \in Nat /\ Times(o, d)' \in Nat
  <2>1. d \in Channels
    BY DEF Verdicts, Channels
  <2>2. Queued(d, o) \in Nat /\ Times(o, d) \in Nat
    BY <2>1, QueuedType, TimesType
  <2>3. CASE d # a
    BY <1>2, <2>1, <2>2, <2>3 DEF Queued, Times
  <2>4. CASE d = a
    <3>1. Copies(chan[a], MessagesOf(o))
            = Copies(Tail(chan[a]), MessagesOf(o))
              + IF Head(chan[a]) \in MessagesOf(o) THEN 1 ELSE 0
      BY <1>1, CopiesTail
    <3>2. Copies(Append(collected[a], x), {o})
            = Copies(collected[a], {o}) + IF x \in {o} THEN 1 ELSE 0
      BY <1>1, CopiesAppend
    <3>3. Head(chan[a]) \in MessagesOf(o) <=> x \in {o}
      BY <1>1 DEF MessagesOf
    <3>4. Copies(Tail(chan[a]), MessagesOf(o)) \in Nat
      BY <1>1, HeadTailElements, CopiesType
    <3>5. /\ Queued(d, o) = Copies(chan[a], MessagesOf(o))
          /\ Queued(d, o)' = Copies(Tail(chan[a]), MessagesOf(o))
          /\ Times(o, d) = Copies(collected[a], {o})
      BY <1>2, <2>4, TimesCopies DEF Queued
    <3>6. Times(o, d)' = Copies(Append(collected[a], x), {o})
      <4>1. {i \in DOMAIN collected'[d] : collected'[d][i] = o}
              = {i \in DOMAIN collected'[d] : collected'[d][i] \in {o}}
        OBVIOUS
      <4>2. Times(o, d)' = Copies(collected'[d], {o})
        BY <4>1 DEF Times, Copies
      <4> QED BY <1>2, <2>4, <4>2
    <3> HIDE DEF x
    <3>7. CASE x \in {o}
      BY <2>2, <3>1, <3>2, <3>3, <3>4, <3>5, <3>6, <3>7
    <3>8. CASE x \notin {o}
      BY <2>2, <3>1, <3>2, <3>3, <3>4, <3>5, <3>6, <3>8
    <3> QED BY <3>7, <3>8
  <2> QED BY <2>3, <2>4
<1> HIDE DEF x
<1>4. ASSUME NEW d \in Verdicts, NEW o \in Occ, NEW h \in Goroutines
      PROVE  /\ Held(h, d, o)' = Held(h, d, o)
             /\ Heading(h, d, o)' <=> Heading(h, d, o)
             /\ Limit(d, o)' = Limit(d, o)
  BY <1>2 DEF Held, Heading, Limit, Readable, input
<1>5. OneHolder'
  BY <1>4 DEF Single, OneHolder
<1>6. ASSUME NEW d \in Verdicts, NEW o \in Occ, NEW h \in Goroutines
      PROVE  Held(h, d, o)' + Queued(d, o)' + Times(o, d)' <= Limit(d, o)'
  <2>1. /\ Held(h, d, o) \in Nat /\ Queued(d, o) \in Nat /\ Times(o, d) \in Nat
        /\ Limit(d, o) \in Nat
    BY HeldType, QueuedType, TimesType DEF Limit, Verdicts, Channels
  <2>2. Held(h, d, o) + Queued(d, o) + Times(o, d) <= Limit(d, o)
    BY DEF Single, Bounded
  <2> QED BY <1>3, <1>4, <2>1, <2>2
<1> QED BY <1>5, <1>6 DEF Single, Bounded

LEMMA OutcomeCopies ==
  ASSUME TypeOK, NEW x \in Occ, NEW t \in {"valid", "invalid"}
  PROVE  Copies(Outcome(x), SendsOf(t, x)) <= Limit(t, x)
<1>1. Limit(t, x) \in {1, 2} /\ (~Readable(x) /\ t = "invalid" => Limit(t, x) = 2)
  BY DEF Limit
<1>2. /\ To("invalid", x) \in Sends /\ To("invalid", x).to = "invalid"
      /\ To("valid", x) \in Sends
      /\ \A k \in Kinds : Warn(x, k) \in Sends /\ Warn(x, k) \notin SendsOf(t, x)
  BY SendTypes DEF SendsOf, Channels, Aggregators, Kinds
<1>3. ASSUME NEW a \in Sends, NEW b \in Sends
      PROVE  /\ Copies(<<a>>, SendsOf(t, x)) \in Nat /\ Copies(<<a, b>>, SendsOf(t, x)) \in Nat
             /\ Copies(<<a>>, SendsOf(t, x)) <= 1 /\ Copies(<<a, b>>, SendsOf(t, x)) <= 2
             /\ b \notin SendsOf(t, x) => Copies(<<a, b>>, SendsOf(t, x)) <= 1
  <2>1. <<a>> \in Seq(Sends) /\ <<a, b>> \in Seq(Sends)
    OBVIOUS
  <2>2. Copies(<<a>>, SendsOf(t, x)) \in Nat /\ Copies(<<a, b>>, SendsOf(t, x)) \in Nat
    BY <2>1, CopiesType
  <2> QED BY <2>2, CopiesPair
<1>4. \A k \in Kinds : /\ Copies(<<To("valid", x), Warn(x, k)>>, SendsOf(t, x)) \in Nat
                       /\ Copies(<<To("valid", x), Warn(x, k)>>, SendsOf(t, x)) <= 1
  BY <1>2, <1>3
<1>5. /\ Copies(<<To("invalid", x), To("invalid", x)>>, SendsOf(t, x)) \in Nat
      /\ Copies(<<To("invalid", x), To("invalid", x)>>, SendsOf(t, x)) <= 2
      /\ t = "valid" => Copies(<<To("invalid", x), To("invalid", x)>>, SendsOf(t, x)) <= 1
  <2>1. t = "valid" => To("invalid", x) \notin SendsOf(t, x)
    BY <1>2 DEF SendsOf
  <2> QED BY <1>2, <1>3, <2>1
<1>6. \/ Outcome(x) = <<To("invalid", x), To("invalid", x)>> /\ ~Readable(x)
      \/ Outcome(x) \in {<<To("invalid", x)>>, <<To("valid", x)>>}
      \/ \E k \in {"NetworkError", "Skipped"} : Outcome(x) = <<To("valid", x), Warn(x, k)>>
  BY DEF Outcome, Validated
<1>7. {"NetworkError", "Skipped"} \subseteq Kinds
  BY DEF Kinds
<1>8. CASE Outcome(x) = <<To("invalid", x), To("invalid", x)>> /\ ~Readable(x)
  BY <1>1, <1>5, <1>8
<1>9. CASE Outcome(x) \in {<<To("invalid", x)>>, <<To("valid", x)>>}
  <2>1. PICK a \in {To("invalid", x), To("valid", x)} : Outcome(x) = <<a>>
    BY <1>9
  <2>2. Copies(<<a>>, SendsOf(t, x)) \in Nat /\ Copies(<<a>>, SendsOf(t, x)) <= 1
    BY <1>2, <1>3
  <2> QED BY <1>1, <2>1, <2>2
<1>10. CASE \E k \in {"NetworkError", "Skipped"} : Outcome(x) = <<To("valid", x), Warn(x, k)>>
  BY <1>1, <1>4, <1>7, <1>10
<1> QED BY <1>6, <1>8, <1>9, <1>10

LEMMA HandlerSingle ==
  ASSUME AuditInv, Single,
         (\E w \in Workers : ExtractFile(w)) \/ FilterFile \/ ValidateFile
  PROVE  Single'
<1>1. ASSUME NEW w \in Workers, ExtractFile(w) PROVE Single'
  <2> DEFINE x == Head(chan["paths"]).occ
             t == IF Readable(x) /\ disk[path[x]].yaml # "bad" THEN "yaml" ELSE "badYaml"
  <2>1. /\ Source(w) = "paths" /\ chan["paths"] # <<>> /\ "paths" \in Stages
        /\ x \in Occ /\ w \in Goroutines
    BY <1>1, HeadVouched DEF Source, ExtractFile, Receive, Stages, Goroutines
  <2>2. /\ Idle(w) /\ hand' = [hand EXCEPT ![w] = <<To(t, x)>>]
        /\ chan' = [chan EXCEPT !["paths"] = Tail(@)]
        /\ UNCHANGED <<input, present, mainPc, collected>>
    BY <1>1, <2>1 DEF ExtractFile, Receive, Extracted
  <2>3. x = Head(chan["paths"]).occ
    OBVIOUS
  <2> HIDE DEF x
  <2>4. t \in Ways /\ t # "paths" /\ t \in Channels
    BY DEF Ways, Channels, Aggregators
  <2>5. Limit(t, x) = 1
    BY DEF Limit
  <2> HIDE DEF t
  <2>6. /\ To(t, x) \in Sends /\ <<To(t, x)>> \in Seq(Sends)
        /\ \A s \in ToSet(<<To(t, x)>>) : s.to = t /\ s.msg.occ = x
    BY <2>1, <2>4, SendTypes, PairElements DEF Kinds
  <2>7. Copies(<<To(t, x)>>, SendsOf(t, x)) <= Limit(t, x)
    BY <2>5, <2>6, CopiesPair
  <2> QED BY <2>1, <2>2, <2>3, <2>4, <2>6, <2>7, TakeSingle DEF x
<1>2. ASSUME FilterFile PROVE Single'
  <2> DEFINE x == Head(chan["yaml"]).occ
             t == IF disk[path[x]].yaml = "k8s" THEN "k8s" ELSE "ignored"
  <2>1. /\ Source("filter") = "yaml" /\ chan["yaml"] # <<>> /\ "yaml" \in Stages
        /\ x \in Occ /\ "filter" \in Goroutines
    BY <1>2, HeadVouched, PipelineAssumption
       DEF Source, FilterFile, Receive, Stages, Goroutines, Helpers
  <2>2. /\ Idle("filter") /\ hand' = [hand EXCEPT !["filter"] = <<To(t, x)>>]
        /\ chan' = [chan EXCEPT !["yaml"] = Tail(@)]
        /\ UNCHANGED <<input, present, mainPc, collected>>
    BY <1>2, <2>1 DEF FilterFile, Receive
  <2>3. x = Head(chan["yaml"]).occ
    OBVIOUS
  <2> HIDE DEF x
  <2>4. t \in Ways /\ t # "yaml" /\ t \in Channels
    BY DEF Ways, Channels, Aggregators
  <2>5. Limit(t, x) = 1
    BY DEF Limit
  <2> HIDE DEF t
  <2>6. /\ To(t, x) \in Sends /\ <<To(t, x)>> \in Seq(Sends)
        /\ \A s \in ToSet(<<To(t, x)>>) : s.to = t /\ s.msg.occ = x
    BY <2>1, <2>4, SendTypes, PairElements DEF Kinds
  <2>7. Copies(<<To(t, x)>>, SendsOf(t, x)) <= Limit(t, x)
    BY <2>5, <2>6, CopiesPair
  <2> QED BY <2>1, <2>2, <2>3, <2>4, <2>6, <2>7, TakeSingle DEF x
<1>3. ASSUME ValidateFile PROVE Single'
  <2>1. PICK c \in {"yaml", "k8s"} : c = Source("validator") /\ (opts.onlyK8s => c = "k8s")
    BY PipelineAssumption DEF Source, Helpers
  <2> DEFINE x == Head(chan[c]).occ
  <2>2. /\ c \in Stages /\ "validator" \in Goroutines
        /\ Idle("validator") /\ chan[c] # <<>>
        /\ hand' = [hand EXCEPT !["validator"] = Outcome(x)]
        /\ chan' = [chan EXCEPT ![c] = Tail(@)]
        /\ UNCHANGED <<input, present, mainPc, collected>>
        /\ x = Head(chan[c]).occ
    BY <1>3, <2>1 DEF ValidateFile, Receive, Stages, Goroutines, Helpers
  <2>3. x \in Occ /\ Fits(c, x)
    BY <2>2, HeadVouched
  <2> HIDE DEF x
  <2>4. disk[path[x]].yaml # "bad" /\ (opts.onlyK8s => disk[path[x]].yaml = "k8s")
    BY <2>1, <2>3 DEF Fits
  <2>5. Outcome(x) \in Seq(Sends)
    BY <2>3, HandlerOutputs DEF AuditInv, Inv
  <2>6. PICK t \in {"valid", "invalid"} :
           \A s \in ToSet(Outcome(x)) : s.to = "warning" \/ (s.to = t /\ s.msg.occ = x)
    BY <2>3, <2>4, OutcomeFits DEF AuditInv, Inv
  <2>7. t \in Ways /\ t # c
    BY <2>1 DEF Ways, Channels, Aggregators
  <2>8. Copies(Outcome(x), SendsOf(t, x)) <= Limit(t, x)
    BY <2>3, OutcomeCopies DEF AuditInv, Inv
  <2> QED BY <2>2, <2>3, <2>5, <2>6, <2>7, <2>8, TakeSingle, ZenonT(30) DEF x
<1> QED BY <1>1, <1>2, <1>3

\* Steps that touch no verdict's channel, and no hand but with other messages.
LEMMA AsideSingle ==
  ASSUME AuditInv, Single, StartExtraction \/ RecordWarning
  PROVE  Single'
<1> USE DEF AuditInv, Inv
<1>1. ASSUME NEW d \in Verdicts, NEW o \in Occ, NEW h \in Goroutines
      PROVE  /\ Queued(d, o)' = Queued(d, o) /\ Times(o, d)' = Times(o, d)
             /\ Limit(d, o)' = Limit(d, o)
             /\ Heading(h, d, o)' => Heading(h, d, o)
             /\ Held(h, d, o)' \in {0, Held(h, d, o)}
  <2>1. d \in Channels /\ d # "warning" /\ d # "paths"
    BY DEF Verdicts, Channels, Aggregators
  <2>2. CASE StartExtraction
    <3> DEFINE first == [i \in Occ |-> To("paths", i)]
    <3>1. UNCHANGED <<input, present, chan, collected>> /\ "feeder" \in Goroutines
      BY <2>2 DEF StartExtraction, Goroutines, Helpers
    <3>2. /\ hand'["feeder"] = first
          /\ \A g \in Goroutines \ {"feeder"} : hand'[g] = hand[g]
      BY <2>2, <3>1 DEF StartExtraction, TypeOK
    <3>3. \A i \in DOMAIN first : first[i].to = "paths" /\ first[i] \in Sends
      BY SendTypes DEF To, Sends, Channels, Messages, Kinds
    <3>4. first \in Seq(Sends)
      <4>1. first = [i \in 1..N |-> first[i]] /\ N \in Nat /\ DOMAIN first = 1..N
        BY PipelineAssumption DEF Occ
      <4> HIDE DEF first
      <4>2. first \in [1..N -> Sends]
        BY <3>3, <4>1
      <4> QED BY <4>1, <4>2
    <3>5. \A i \in DOMAIN first : first[i] \notin SendsOf(d, o)
      BY <2>1, <3>3 DEF SendsOf
    <3> HIDE DEF first
    <3>6. Copies(first, SendsOf(d, o)) = 0
      BY <3>4, <3>5, CopiesType
    <3>7. ~Heading("feeder", d, o)'
      BY <2>1, <3>2, <3>3 DEF Heading, ToSet
    <3>8. h # "feeder" => Held(h, d, o)' = Held(h, d, o) /\ (Heading(h, d, o)' <=> Heading(h, d, o))
      BY <3>2 DEF Held, Heading
    <3>9. Held("feeder", d, o)' = 0
      BY <3>2, <3>6 DEF Held
    <3>10. /\ Queued(d, o)' = Queued(d, o) /\ Times(o, d)' = Times(o, d)
           /\ Limit(d, o)' = Limit(d, o)
      BY <3>1 DEF Queued, Times, Limit, Readable, input
    <3> QED BY <3>7, <3>8, <3>9, <3>10
  <2>3. CASE RecordWarning
    <3>1. UNCHANGED <<input, present, hand, collected>> /\ chan'[d] = chan[d]
      BY <2>1, <2>3 DEF RecordWarning, TypeOK
    <3> QED BY <3>1 DEF Queued, Times, Limit, Readable, Held, Heading, input
  <2> QED BY <2>2, <2>3
<1>2. OneHolder'
  BY <1>1 DEF Single, OneHolder
<1>3. ASSUME NEW c \in Verdicts, NEW o \in Occ, NEW h \in Goroutines
      PROVE  Held(h, c, o)' + Queued(c, o)' + Times(o, c)' <= Limit(c, o)'
  <2>1. Held(h, c, o) + Queued(c, o) + Times(o, c) <= Limit(c, o)
    BY DEF Single, Bounded
  <2>2. /\ Held(h, c, o) \in Nat /\ Queued(c, o) \in Nat /\ Times(o, c) \in Nat
        /\ Limit(c, o) \in Nat
    BY HeldType, QueuedType, TimesType DEF Verdicts, Channels, Limit
  <2>3. /\ Held(h, c, o)' \in {0, Held(h, c, o)} /\ Queued(c, o)' = Queued(c, o)
        /\ Times(o, c)' = Times(o, c) /\ Limit(c, o)' = Limit(c, o)
    BY <1>1
  <2> QED BY <2>1, <2>2, <2>3
<1> QED BY <1>2, <1>3 DEF Single, Bounded

LEMMA InitSingle == Init => Single
<1> SUFFICES ASSUME Init PROVE Single
  OBVIOUS
<1>1. AuditInv /\ TypeOK
  BY InitAudit DEF AuditInv, Inv
<1>2. ToSet(<<>>) = {}
  BY EmptyElements, EmptySeq
<1>3. /\ \A g \in Goroutines : \A c, o : ~Heading(g, c, o)
      /\ \A c \in Channels : \A o : ~Waiting(c, o)
      /\ \A v \in Verdicts : ListedAs(v) = {}
  BY <1>2 DEF Init, Heading, Waiting, ListedAs
<1>4. ASSUME NEW c \in Verdicts, NEW o \in Occ, NEW h \in Goroutines
      PROVE  Held(h, c, o) + Queued(c, o) + Times(o, c) <= Limit(c, o)
  <2>1. Held(h, c, o) = 0 /\ Queued(c, o) = 0 /\ Times(o, c) = 0
    BY <1>1, <1>3, HeldType, QueuedType, TimesType DEF Verdicts, Channels
  <2> QED BY <2>1 DEF Limit
<1> QED BY <1>3, <1>4 DEF Single, OneHolder, Bounded

LEMMA NextSingle == AuditInv /\ Single /\ [Next]_vars => Single'
<1> SUFFICES ASSUME AuditInv, Single, [Next]_vars PROVE Single'
  OBVIOUS
<1>1. ASSUME NEW g \in Goroutines, Step(g) PROVE Single'
  <2>1. CASE Send(g)
    BY <2>1, SendSingle
  <2>2. CASE (g \in Workers /\ ExtractFile(g)) \/ FilterFile \/ ValidateFile
    BY <2>2, HandlerSingle
  <2>3. CASE g \in Verdicts /\ AppendToList(g)
    BY <2>3, AppendSingle
  <2>4. CASE RecordWarning
    BY <2>4, AsideSingle
  <2>5. CASE WorkerExits(g) \/ LaunchWorkers \/ Close(g) \/ AggregatorExits(g)
    <3>1. UNCHANGED <<input, chan, hand, collected, present>>
      BY <2>5 DEF WorkerExits, LaunchWorkers, Close, AggregatorExits
    <3> QED BY <3>1, SteadySingle
  <2> QED BY <1>1, <2>1, <2>2, <2>3, <2>4, <2>5 DEF Step, WorkerStep, AggregatorStep
<1>2. CASE StartExtraction
  BY <1>2, AsideSingle
<1>3. CASE StartFilter \/ StartValidation \/ WaitReturns
  <2>1. UNCHANGED <<input, chan, hand, collected, present>>
    BY <1>3 DEF StartFilter, StartValidation, WaitReturns
  <2> QED BY <2>1, SteadySingle
<1>4. CASE (\E p \in Paths : Vanish(p)) \/ Terminated \/ UNCHANGED vars
  <2>1. UNCHANGED <<input, chan, hand, collected>> /\ present' \subseteq present
    BY <1>4 DEF Vanish, Terminated, vars, input
  <2> QED BY <2>1, SteadySingle
<1> QED BY <1>1, <1>2, <1>3, <1>4 DEF Next, MainStep

LEMMA SingleInvariance == Spec => []Single
<1>1. Spec => [](AuditInv /\ Single)
  BY InitAudit, NextAudit, InitSingle, NextSingle, PTL DEF Spec
<1> QED BY <1>1, PTL

\* No path is counted under two verdicts, and none twice under one, except that
\* a file which could no longer be opened for the schema validation is listed
\* twice as invalid (k8sValidator.go:92-112).
THEOREM EachReportedOnce == Spec => []ReportedOnce
<1>1. ASSUME AuditInv, Single PROVE ReportedOnce
  <2> SUFFICES ASSUME NEW o \in Occ, NEW v \in Verdicts, Times(o, v) > 0
               PROVE  /\ \A u \in Verdicts \ {v} : Times(o, u) = 0
                      /\ Times(o, v) > 1 => Times(o, v) = 2 /\ v = "invalid" /\ ~Readable(o)
    BY DEF ReportedOnce
  <2>1. TypeOK /\ OnePlace /\ Verdicts \subseteq Ways /\ Verdicts \subseteq Channels
    BY <1>1 DEF AuditInv, Inv, Places, Verdicts, Ways, Channels
  <2>2. o \in ListedAs(v)
    BY <2>1, TimesType
  <2>3. ASSUME NEW u \in Verdicts \ {v} PROVE Times(o, u) = 0
    <3>1. o \notin ListedAs(u)
      BY <2>1, <2>2 DEF OnePlace, At
    <3> QED BY <2>1, <3>1, TimesType
  <2>4. PICK g : g \in Goroutines
    BY DEF Goroutines, Helpers
  <2>5. Held(g, v, o) + Queued(v, o) + Times(o, v) <= Limit(v, o)
    BY <1>1, <2>4 DEF Single, Bounded
  <2>6. Held(g, v, o) \in Nat /\ Queued(v, o) \in Nat /\ Times(o, v) \in Nat
    BY <2>1, <2>4, HeldType, QueuedType, TimesType
  <2>7. CASE v = "invalid" /\ ~Readable(o)
    <3>1. Limit(v, o) = 2
      BY <2>7 DEF Limit
    <3> QED BY <2>3, <2>5, <2>6, <2>7, <3>1
  <2>8. CASE ~(v = "invalid" /\ ~Readable(o))
    <3>1. Limit(v, o) = 1
      BY <2>8 DEF Limit
    <3> QED BY <2>3, <2>5, <2>6, <3>1
  <2> QED BY <2>7, <2>8
<1> QED BY <1>1, AuditInvariance, SingleInvariance, PTL
-----------------------------------------------------------------------------
(***************************************************************************)
(* The warnings.                                                           *)
(***************************************************************************)
\* The warning a valid file gets; it depends on the file only.
WarnKind(o) == IF opts.skip THEN "Skipped"
               ELSE IF NoSchemas THEN "NetworkError"
               ELSE IF "Skipped" \in disk[path[o]].statuses THEN "Skipped"
               ELSE "none"

Transit(c, o) == (\E g \in Goroutines : Heading(g, c, o)) \/ Waiting(c, o)

Justified(m) == /\ m.occ \in Occ
                /\ m.kind = WarnKind(m.occ) /\ m.kind # "none"
                /\ At("valid", m.occ)

\* Whatever warns of a file, it warns of a valid one and for its reason.
WarningsSound ==
    /\ \A g \in Goroutines : \A s \in ToSet(hand[g]) : s.to = "warning" => Justified(s.msg)
    /\ \A m \in ToSet(chan["warning"]) : Justified(m)
    /\ \A p \in Paths : warnings[p] # "none" =>
          \E o \in Occ : path[o] = p /\ At("valid", o) /\ warnings[p] = WarnKind(o)

\* A warning that is due is on its way until it is recorded.
WarningsKept ==
    \A o \in Occ : At("valid", o) /\ WarnKind(o) # "none" =>
        Transit("warning", o) \/ warnings[path[o]] = WarnKind(o)

Warned == WarningsSound /\ WarningsKept

LEMMA WarnKindKept ==
  ASSUME UNCHANGED input
  PROVE  \A o : WarnKind(o)' = WarnKind(o)
BY DEF input, WarnKind, NoSchemas

\* A step that takes the sends of E in hand and records no warning.
LEMMA WarnedMoved ==
  ASSUME Warned, UNCHANGED <<input, warnings>>, NEW E \in SUBSET Sends,
         \A o \in Occ : At("valid", o)' <=>
            \/ At("valid", o)
            \/ \E s \in E : s.to = "valid" /\ s.msg.occ = o,
         \A g \in Goroutines : \A s \in ToSet(hand'[g]) : s.to = "warning" =>
            s \in E \/ \E h \in Goroutines : s \in ToSet(hand[h]),
         \A m \in ToSet(chan'["warning"]) :
            \/ m \in ToSet(chan["warning"])
            \/ \E h \in Goroutines : \E s \in ToSet(hand[h]) : s.to = "warning" /\ s.msg = m,
         \A o \in Occ : Transit("warning", o) => Transit("warning", o)',
         \A s \in E : s.to = "warning" =>
            /\ s.msg.kind = WarnKind(s.msg.occ) /\ s.msg.kind # "none"
            /\ \E r \in E : r.to = "valid" /\ r.msg.occ = s.msg.occ,
         \A s \in E : s.to = "valid" /\ WarnKind(s.msg.occ) # "none" =>
            Transit("warning", s.msg.occ)'
  PROVE  Warned'
<1>1. \A o : WarnKind(o)' = WarnKind(o)
  BY WarnKindKept
<1>2. ASSUME NEW m, Justified(m) PROVE Justified(m)'
  BY <1>1, <1>2 DEF Justified
<1>3. \A s \in E : s.msg.occ \in Occ
  BY DEF Sends, Messages
<1>4. \A s \in E : s.to = "warning" => Justified(s.msg)'
  BY <1>1, <1>3 DEF Justified
<1>5. \A g \in Goroutines : \A s \in ToSet(hand'[g]) : s.to = "warning" => Justified(s.msg)'
  BY <1>2, <1>4 DEF Warned, WarningsSound
<1>6. \A m \in ToSet(chan'["warning"]) : Justified(m)'
  BY <1>2 DEF Warned, WarningsSound
<1>7. \A p \in Paths : warnings'[p] # "none" =>
         \E o \in Occ : path'[o] = p /\ At("valid", o)' /\ warnings'[p] = WarnKind(o)'
  BY <1>1 DEF Warned, WarningsSound, input
<1>8. \A o \in Occ : At("valid", o)' /\ WarnKind(o)' # "none" =>
         Transit("warning", o)' \/ warnings'[path'[o]] = WarnKind(o)'
  BY <1>1 DEF Warned, WarningsKept, input
<1> QED BY <1>5, <1>6, <1>7, <1>8 DEF Warned, WarningsSound, WarningsKept

LEMMA AtTransit == \A o : At("valid", o) <=> Transit("valid", o) \/ o \in ListedAs("valid")
BY DEF At, Transit, Verdicts, Aggregators

LEMMA SendWarned ==
  ASSUME TypeOK, Warned, NEW g \in Goroutines, Send(g)
  PROVE  Warned'
<1> DEFINE s == Head(hand[g])
<1>1. /\ hand[g] \in Seq(Sends) /\ hand[g] # <<>>
      /\ s \in Sends /\ ToSet(hand[g]) = {s} \cup ToSet(Tail(hand[g]))
  BY HeadTailElements DEF Send, TypeOK
<1>2. s.to \in Channels /\ s.msg \in Messages /\ chan[s.to] \in Seq(Messages)
  BY <1>1 DEF Sends, TypeOK
<1>3. /\ \A h \in Goroutines \ {g} : hand'[h] = hand[h]
      /\ hand'[g] = Tail(hand[g])
      /\ \A c \in Channels \ {s.to} : chan'[c] = chan[c]
      /\ chan'[s.to] = Append(chan[s.to], s.msg)
      /\ UNCHANGED <<input, present, collected, warnings>>
  BY <1>2 DEF Send, TypeOK
<1>4. ToSet(Append(chan[s.to], s.msg)) = ToSet(chan[s.to]) \cup {s.msg}
  BY <1>2, AppendElements
<1> HIDE DEF s
<1>5. \A h \in Goroutines : ToSet(hand'[h]) \subseteq ToSet(hand[h])
  BY <1>1, <1>3
<1>6. \A h \in Goroutines : \A r \in ToSet(hand[h]) : r \in ToSet(hand'[h]) \/ r = s
  BY <1>1, <1>3
<1>7. \A c \in Channels : \A m : m \in ToSet(chan'[c]) <=>
                                 m \in ToSet(chan[c]) \/ (c = s.to /\ m = s.msg)
  BY <1>3, <1>4
<1>8. s \in ToSet(hand[g])
  BY <1>1
<1>9. ASSUME NEW c \in Channels, NEW o PROVE Transit(c, o)' <=> Transit(c, o)
  <2>1. Transit(c, o) => Transit(c, o)'
    BY <1>6, <1>7 DEF Transit, Heading, Waiting
  <2>2. Transit(c, o)' => Transit(c, o)
    BY <1>5, <1>7, <1>8 DEF Transit, Heading, Waiting
  <2> QED BY <2>1, <2>2
<1>10. {"valid", "warning"} \subseteq Channels
  BY DEF Channels, Aggregators
<1>11. \A o \in Occ : At("valid", o)' <=> At("valid", o)
  <2>1. \A o : At("valid", o)' <=> Transit("valid", o)' \/ o \in ListedAs("valid")'
    BY DEF At, Transit, Verdicts, Aggregators
  <2> QED BY <1>3, <1>9, <1>10, <2>1, AtTransit DEF ListedAs
<1> DEFINE E == {r \in Sends : FALSE}
<1>12. E \in SUBSET Sends /\ \A r : r \notin E
  OBVIOUS
<1> HIDE DEF E
<1>13. \A m \in ToSet(chan'["warning"]) :
          \/ m \in ToSet(chan["warning"])
          \/ \E h \in Goroutines : \E r \in ToSet(hand[h]) : r.to = "warning" /\ r.msg = m
  BY <1>7, <1>8, <1>10
<1>14. \A o \in Occ : Transit("warning", o) => Transit("warning", o)'
  BY <1>9, <1>10
<1> QED BY <1>3, <1>5, <1>11, <1>12, <1>13, <1>14, WarnedMoved

\* A goroutine that receives from c and takes e in hand.
LEMMA TakeWarned ==
  ASSUME TypeOK, Warned, NEW g \in Goroutines, NEW e \in Seq(Sends),
         NEW c \in Stages, Idle(g),
         hand' = [hand EXCEPT ![g] = e],
         chan' = [chan EXCEPT ![c] = Tail(@)],
         UNCHANGED <<input, collected, warnings>>,
         \A s \in ToSet(e) : s.to = "warning" =>
            /\ s.msg.kind = WarnKind(s.msg.occ) /\ s.msg.kind # "none"
            /\ \E r \in ToSet(e) : r.to = "valid" /\ r.msg.occ = s.msg.occ,
         \A s \in ToSet(e) : s.to = "valid" /\ WarnKind(s.msg.occ) # "none" =>
            \E r \in ToSet(e) : r.to = "warning" /\ r.msg.occ = s.msg.occ
  PROVE  Warned'
<1>1. c \in Channels \ {"valid", "warning"} /\ {"valid", "warning"} \subseteq Channels
  BY DEF Stages, Channels, Aggregators
<1>2. /\ \A h \in Goroutines \ {g} : hand'[h] = hand[h]
      /\ hand'[g] = e /\ hand[g] = <<>>
      /\ chan'["valid"] = chan["valid"] /\ chan'["warning"] = chan["warning"]
  BY <1>1 DEF TypeOK, Idle
<1>3. ToSet(hand[g]) = {}
  BY <1>2, EmptyElements, EmptySeq
<1>4. ToSet(e) \in SUBSET Sends
  BY EmptyElements
<1>5. ASSUME NEW d \in {"valid", "warning"}, NEW o
      PROVE  Transit(d, o)' <=> \/ Transit(d, o)
                                \/ \E s \in ToSet(e) : s.to = d /\ s.msg.occ = o
  BY <1>2, <1>3 DEF Transit, Heading, Waiting
<1>6. \A o \in Occ : At("valid", o)' <=>
         \/ At("valid", o)
         \/ \E s \in ToSet(e) : s.to = "valid" /\ s.msg.occ = o
  <2>1. \A o : At("valid", o)' <=> Transit("valid", o)' \/ o \in ListedAs("valid")'
    BY DEF At, Transit, Verdicts, Aggregators
  <2> QED BY <1>5, <2>1, AtTransit DEF ListedAs
<1>7. \A h \in Goroutines : \A s \in ToSet(hand'[h]) : s.to = "warning" =>
         s \in ToSet(e) \/ \E k \in Goroutines : s \in ToSet(hand[k])
  BY <1>2
<1>8. \A o \in Occ : Transit("warning", o) => Transit("warning", o)'
  BY <1>5
<1>9. \A s \in ToSet(e) : s.to = "valid" /\ WarnKind(s.msg.occ) # "none" =>
         Transit("warning", s.msg.occ)'
  BY <1>5
<1> QED BY <1>2, <1>4, <1>6, <1>7, <1>8, <1>9, WarnedMoved

\* What a validation decides: a valid file gets its warning, and no other does.
LEMMA OutcomeWarns ==
  ASSUME TypeOK, NEW x \in Occ
  PROVE  /\ \A s \in ToSet(Outcome(x)) : s.msg.occ = x
         /\ \A s \in ToSet(Outcome(x)) : s.to = "warning" =>
               /\ s.msg.kind = WarnKind(x) /\ s.msg.kind # "none"
               /\ \E r \in ToSet(Outcome(x)) : r.to = "valid"
         /\ \A s \in ToSet(Outcome(x)) : s.to = "valid" /\ WarnKind(x) # "none" =>
               \E r \in ToSet(Outcome(x)) : r.to = "warning"
<1>1. /\ To("valid", x).to = "valid" /\ To("valid", x).msg.occ = x
      /\ To("invalid", x).to = "invalid" /\ To("invalid", x).msg.occ = x
      /\ \A k : /\ Warn(x, k).to = "warning" /\ Warn(x, k).msg.occ = x
                /\ Warn(x, k).msg.kind = k
  BY DEF To, Warn
<1>2. \/ /\ Outcome(x) = <<To("valid", x), Warn(x, WarnKind(x))>>
         /\ WarnKind(x) # "none"
      \/ Outcome(x) = <<To("valid", x)>> /\ WarnKind(x) = "none"
      \/ Outcome(x) \in {<<To("invalid", x), To("invalid", x)>>, <<To("invalid", x)>>}
  BY DEF Outcome, Validated, WarnKind
<1>3. CASE /\ Outcome(x) = <<To("valid", x), Warn(x, WarnKind(x))>>
           /\ WarnKind(x) # "none"
  <2>1. ToSet(Outcome(x)) = {To("valid", x), Warn(x, WarnKind(x))}
    BY <1>3, PairElements
  <2> QED BY <1>1, <1>3, <2>1
<1>4. CASE Outcome(x) = <<To("valid", x)>> /\ WarnKind(x) = "none"
  <2>1. ToSet(Outcome(x)) = {To("valid", x)}
    BY <1>4, PairElements
  <2> QED BY <1>1, <1>4, <2>1
<1>5. CASE Outcome(x) \in {<<To("invalid", x), To("invalid", x)>>, <<To("invalid", x)>>}
  <2>1. ToSet(Outcome(x)) = {To("invalid", x)}
    BY <1>5, PairElements
  <2> QED BY <1>1, <2>1
<1> QED BY <1>2, <1>3, <1>4, <1>5

LEMMA HandlerWarned ==
  ASSUME TypeOK, Warned,
         (\E w \in Workers : ExtractFile(w)) \/ FilterFile \/ ValidateFile
  PROVE  Warned'
<1>1. ASSUME NEW w \in Workers, ExtractFile(w) PROVE Warned'
  <2> DEFINE x == Head(chan["paths"]).occ
  <2>1. /\ Source(w) = "paths" /\ chan["paths"] # <<>> /\ w \in Goroutines
        /\ "paths" \in Stages /\ "paths" \in Channels
    BY <1>1 DEF Source, ExtractFile, Receive, Stages, Channels, Goroutines
  <2>2. /\ Idle(w) /\ hand' = [hand EXCEPT ![w] = Extracted(x)]
        /\ chan' = [chan EXCEPT !["paths"] = Tail(@)]
        /\ UNCHANGED <<input, collected, warnings>>
    BY <1>1, <2>1 DEF ExtractFile, Receive
  <2>3. x \in Occ
    BY <2>1, HeadOcc
  <2> HIDE DEF x
  <2>4. /\ Extracted(x) \in Seq(Sends)
        /\ \A s \in ToSet(Extracted(x)) : s.to \in {"yaml", "badYaml"}
    BY <2>3, HandlerOutputs
  <2>5. \A s \in ToSet(Extracted(x)) : s.to # "warning" /\ s.to # "valid"
    BY <2>4
  <2> QED BY <2>1, <2>2, <2>4, <2>5, TakeWarned
<1>2. ASSUME FilterFile PROVE Warned'
  <2> DEFINE x == Head(chan["yaml"]).occ
             t == IF disk[path[x]].yaml = "k8s" THEN "k8s" ELSE "ignored"
  <2>1. /\ Source("filter") = "yaml" /\ chan["yaml"] # <<>> /\ "filter" \in Goroutines
        /\ "yaml" \in Stages /\ "yaml" \in Channels
    BY <1>2, PipelineAssumption
       DEF Source, FilterFile, Receive, Stages, Channels, Goroutines, Helpers
  <2>2. /\ Idle("filter") /\ hand' = [hand EXCEPT !["filter"] = <<To(t, x)>>]
        /\ chan' = [chan EXCEPT !["yaml"] = Tail(@)]
        /\ UNCHANGED <<input, collected, warnings>>
    BY <1>2, <2>1 DEF FilterFile, Receive
  <2>3. x \in Occ
    BY <2>1, HeadOcc
  <2> HIDE DEF x
  <2>4. t \in Channels /\ t # "warning" /\ t # "valid"
    BY DEF Channels, Aggregators
  <2> HIDE DEF t
  <2>5. /\ <<To(t, x)>> \in Seq(Sends)
        /\ \A s \in ToSet(<<To(t, x)>>) : s.to # "warning" /\ s.to # "valid"
    BY <2>3, <2>4, SendTypes, PairElements DEF Kinds
  <2> QED BY <2>1, <2>2, <2>5, TakeWarned
<1>3. ASSUME ValidateFile PROVE Warned'
  <2>1. PICK c \in {"yaml", "k8s"} : c = Source("validator")
    BY PipelineAssumption DEF Source, Helpers
  <2> DEFINE x == Head(chan[c]).occ
  <2>2. /\ c \in Stages /\ c \in Channels /\ "validator" \in Goroutines
        /\ Idle("validator") /\ chan[c] # <<>>
        /\ hand' = [hand EXCEPT !["validator"] = Outcome(x)]
        /\ chan' = [chan EXCEPT ![c] = Tail(@)]
        /\ UNCHANGED <<input, collected, warnings>>
    BY <1>3, <2>1 DEF ValidateFile, Receive, Stages, Channels, Goroutines, Helpers
  <2>3. x \in Occ
    BY <2>2, HeadOcc
  <2> HIDE DEF x
  <2>4. Outcome(x) \in Seq(Sends)
    BY <2>3, HandlerOutputs
  <2>5. /\ \A s \in ToSet(Outcome(x)) : s.to = "warning" =>
              /\ s.msg.kind = WarnKind(s.msg.occ) /\ s.msg.kind # "none"
              /\ \E r \in ToSet(Outcome(x)) : r.to = "valid" /\ r.msg.occ = s.msg.occ
        /\ \A s \in ToSet(Outcome(x)) : s.to = "valid" /\ WarnKind(s.msg.occ) # "none" =>
              \E r \in ToSet(Outcome(x)) : r.to = "warning" /\ r.msg.occ = s.msg.occ
    BY <2>3, OutcomeWarns
  <2> QED BY <2>2, <2>4, <2>5, TakeWarned
<1> QED BY <1>1, <1>2, <1>3

\* Steps that take nothing in hand and touch no warning.
LEMMA AsideWarned ==
  ASSUME TypeOK, Warned, UNCHANGED <<input, warnings>>,
         UNCHANGED chan["warning"],
         \A g \in Goroutines : \A s \in ToSet(hand'[g]) :
            s.to = "warning" => s \in ToSet(hand[g]),
         \A g \in Goroutines : \A s \in ToSet(hand[g]) : s \in ToSet(hand'[g]),
         \A o \in Occ : At("valid", o)' <=> At("valid", o)
  PROVE  Warned'
<1> DEFINE E == {r \in Sends : FALSE}
<1>1. E \in SUBSET Sends /\ \A r : r \notin E
  OBVIOUS
<1> HIDE DEF E
<1>2. \A o \in Occ : Transit("warning", o) => Transit("warning", o)'
  BY DEF Transit, Heading, Waiting
<1> QED BY <1>1, <1>2, WarnedMoved

LEMMA AppendWarned ==
  ASSUME TypeOK, Warned, NEW a \in Verdicts, AppendToList(a)
  PROVE  Warned'
<1> DEFINE m == Head(chan[a])
<1>1. /\ a \in Channels /\ a # "warning" /\ "warning" \in Channels /\ "valid" \in Channels
      /\ "valid" \in Verdicts
  BY DEF Verdicts, Channels, Aggregators
<1>2. /\ chan[a] \in Seq(Messages) /\ chan[a] # <<>> /\ collected[a] \in Seq(Occ)
      /\ m \in Messages /\ ToSet(chan[a]) = {m} \cup ToSet(Tail(chan[a]))
  BY <1>1, HeadTailElements DEF AppendToList, TypeOK
<1>3. m.occ \in Occ
  BY <1>2 DEF Messages
<1>4. /\ collected'[a] = Append(collected[a], m.occ)
      /\ \A v \in Verdicts \ {a} : collected'[v] = collected[v]
      /\ chan'[a] = Tail(chan[a])
      /\ \A d \in Channels \ {a} : chan'[d] = chan[d]
      /\ UNCHANGED <<input, hand, warnings>>
  BY <1>1 DEF AppendToList, TypeOK
<1>5. ToSet(Append(collected[a], m.occ)) = ToSet(collected[a]) \cup {m.occ}
  BY <1>2, <1>3, AppendElements
<1> HIDE DEF m
<1>6. ASSUME NEW o \in Occ PROVE At("valid", o)' <=> At("valid", o)
  <2>1. \A h \in Goroutines : Heading(h, "valid", o)' <=> Heading(h, "valid", o)
    BY <1>4 DEF Heading
  <2>2. CASE a = "valid"
    <3>1. /\ Waiting("valid", o) <=> Waiting("valid", o)' \/ o = m.occ
          /\ o \in ListedAs("valid")' <=> o \in ListedAs("valid") \/ o = m.occ
      BY <1>2, <1>4, <1>5, <2>2 DEF Waiting, ListedAs
    <3> QED BY <1>1, <2>1, <3>1 DEF At
  <2>3. CASE a # "valid"
    BY <1>1, <1>4, <2>1, <2>3 DEF At, Waiting, ListedAs
  <2> QED BY <2>2, <2>3
<1> QED BY <1>1, <1>4, <1>6, AsideWarned

LEMMA StartWarned ==
  ASSUME Inv, Warned, StartExtraction
  PROVE  Warned'
<1> DEFINE first == [o \in Occ |-> To("paths", o)]
<1>1. /\ UNCHANGED <<input, chan, collected, warnings>> /\ "feeder" \in Goroutines
      /\ hand["feeder"] = <<>>
  BY DEF StartExtraction, Goroutines, Helpers, Inv, Staged, Routed
<1>2. /\ hand'["feeder"] = first
      /\ \A g \in Goroutines \ {"feeder"} : hand'[g] = hand[g]
  BY <1>1 DEF StartExtraction, Inv, TypeOK
<1>3. \A s \in ToSet(first) : s.to = "paths"
  BY DEF To, ToSet
<1> HIDE DEF first
<1>4. ToSet(hand["feeder"]) = {}
  BY <1>1, EmptyElements, EmptySeq
<1>5. \A o \in Occ : At("valid", o)' <=> At("valid", o)
  BY <1>1, <1>2, <1>3, <1>4 DEF At, Heading, Waiting, ListedAs
<1>6. TypeOK
  BY DEF Inv
<1> QED BY <1>1, <1>2, <1>3, <1>4, <1>5, <1>6, AsideWarned

LEMMA SteadyWarned ==
  ASSUME TypeOK, Warned, UNCHANGED <<input, chan, hand, collected, warnings>>
  PROVE  Warned'
<1>1. \A o \in Occ : At("valid", o)' <=> At("valid", o)
  BY DEF At, Heading, Waiting, ListedAs
<1> QED BY <1>1, AsideWarned

\* The map is written for the file of the warning that was received.
LEMMA RecordWarned ==
  ASSUME TypeOK, Warned, RecordWarning
  PROVE  Warned'
<1> DEFINE m == Head(chan["warning"])
<1>1. "warning" \in Channels /\ "valid" \in Channels
  BY DEF Channels, Aggregators
<1>2. /\ m \in Messages /\ ToSet(chan["warning"]) = {m} \cup ToSet(Tail(chan["warning"]))
  BY <1>1, HeadTailElements DEF RecordWarning, TypeOK
<1>3. /\ chan'["warning"] = Tail(chan["warning"]) /\ chan'["valid"] = chan["valid"]
      /\ warnings' = [warnings EXCEPT ![path[m.occ]] = m.kind]
      /\ UNCHANGED <<input, hand, collected>>
  BY <1>1 DEF RecordWarning, TypeOK
<1>4. Justified(m) /\ m.occ \in Occ /\ path[m.occ] \in Paths
  BY <1>2 DEF Warned, WarningsSound, Justified, TypeOK
<1> HIDE DEF m
<1>5. /\ warnings'[path[m.occ]] = m.kind
      /\ \A p \in Paths \ {path[m.occ]} : warnings'[p] = warnings[p]
  BY <1>3, <1>4 DEF TypeOK
<1>6. \A o : WarnKind(o)' = WarnKind(o)
  BY <1>3, WarnKindKept
<1>7. /\ \A o \in Occ : At("valid", o)' <=> At("valid", o)
      /\ \A g, c, o : Heading(g, c, o)' <=> Heading(g, c, o)
  BY <1>3 DEF At, Heading, Waiting, ListedAs
<1>8. ASSUME NEW n, Justified(n) PROVE Justified(n)'
  BY <1>6, <1>7, <1>8 DEF Justified
<1>9. /\ \A g \in Goroutines : \A s \in ToSet(hand'[g]) : s.to = "warning" => Justified(s.msg)'
      /\ \A n \in ToSet(chan'["warning"]) : Justified(n)'
  BY <1>2, <1>3, <1>8 DEF Warned, WarningsSound
<1>10. ASSUME NEW p \in Paths, warnings'[p] # "none"
       PROVE  \E o \in Occ : path'[o] = p /\ At("valid", o)' /\ warnings'[p] = WarnKind(o)'
  <2>1. path' = path
    BY <1>3 DEF input
  <2>2. CASE p = path[m.occ]
    BY <1>4, <1>5, <1>6, <1>7, <2>1, <2>2 DEF Justified
  <2>3. CASE p # path[m.occ]
    <3>1. PICK o \in Occ : path[o] = p /\ At("valid", o) /\ warnings[p] = WarnKind(o)
      BY <1>5, <1>10, <2>3 DEF Warned, WarningsSound
    <3> QED BY <1>5, <1>6, <1>7, <2>1, <2>3, <3>1
  <2> QED BY <2>2, <2>3
<1>11. ASSUME NEW o \in Occ, At("valid", o)', WarnKind(o)' # "none"
       PROVE  Transit("warning", o)' \/ warnings'[path'[o]] = WarnKind(o)'
  <2>1. path' = path /\ path[o] \in Paths
    BY <1>3 DEF input, TypeOK
  <2>2. Transit("warning", o) \/ warnings[path[o]] = WarnKind(o)
    BY <1>6, <1>7, <1>11 DEF Warned, WarningsKept
  <2>3. CASE path[o] = path[m.occ]
    <3>1. WarnKind(o) = WarnKind(m.occ)
      BY <2>3 DEF WarnKind
    <3> QED BY <1>4, <1>5, <1>6, <2>1, <2>3, <3>1 DEF Justified
  <2>4. CASE path[o] # path[m.occ]
    <3>1. o # m.occ
      BY <2>4
    <3>2. Waiting("warning", o) => Waiting("warning", o)'
      BY <1>2, <1>3, <3>1 DEF Waiting
    <3>3. Transit("warning", o) => Transit("warning", o)'
      BY <1>7, <3>2 DEF Transit
    <3> QED BY <1>5, <1>6, <2>1, <2>2, <2>4, <3>3
  <2> QED BY <2>3, <2>4
<1> QED BY <1>9, <1>10, <1>11 DEF Warned, WarningsSound, WarningsKept

LEMMA InitWarned == Init => Warned
<1> SUFFICES ASSUME Init PROVE Warned
  OBVIOUS
<1>1. ToSet(<<>>) = {}
  BY EmptyElements, EmptySeq
<1>2. /\ \A g \in Goroutines : ToSet(hand[g]) = {}
      /\ \A c \in Channels : ToSet(chan[c]) = {}
      /\ ListedAs("valid") = {} /\ "warning" \in Channels /\ "valid" \in Channels
      /\ \A p \in Paths : warnings[p] = "none"
  BY <1>1 DEF Init, ListedAs, Verdicts, Channels, Aggregators
<1>3. \A o \in Occ : ~At("valid", o)
  BY <1>2 DEF At, Heading, Waiting
<1> QED BY <1>2, <1>3 DEF Warned, WarningsSound, WarningsKept

LEMMA NextWarned == Inv /\ Warned /\ [Next]_vars => Warned'
<1> SUFFICES ASSUME Inv, Warned, [Next]_vars PROVE Warned'
  OBVIOUS
<1>0. TypeOK
  BY DEF Inv
<1>1. ASSUME NEW g \in Goroutines, Step(g) PROVE Warned'
  <2>1. CASE Send(g)
    BY <1>0, <2>1, SendWarned
  <2>2. CASE (g \in Workers /\ ExtractFile(g)) \/ FilterFile \/ ValidateFile
    BY <1>0, <2>2, HandlerWarned
  <2>3. CASE g \in Verdicts /\ AppendToList(g)
    BY <1>0, <2>3, AppendWarned
  <2>4. CASE RecordWarning
    BY <1>0, <2>4, RecordWarned
  <2>5. CASE WorkerExits(g) \/ LaunchWorkers \/ Close(g) \/ AggregatorExits(g)
    <3>1. UNCHANGED <<input, chan, hand, collected, warnings>>
      BY <2>5 DEF WorkerExits, LaunchWorkers, Close, AggregatorExits
    <3> QED BY <1>0, <3>1, SteadyWarned
  <2> QED BY <1>1, <2>1, <2>2, <2>3, <2>4, <2>5 DEF Step, WorkerStep, AggregatorStep
<1>2. CASE StartExtraction
  BY <1>2, StartWarned
<1>3. CASE StartFilter \/ StartValidation \/ WaitReturns
  <2>1. UNCHANGED <<input, chan, hand, collected, warnings>>
    BY <1>3 DEF StartFilter, StartValidation, WaitReturns
  <2> QED BY <1>0, <2>1, SteadyWarned
<1>4. CASE (\E p \in Paths : Vanish(p)) \/ Terminated \/ UNCHANGED vars
  <2>1. UNCHANGED <<input, chan, hand, collected, warnings>>
    BY <1>4 DEF Vanish, Terminated, vars, input
  <2> QED BY <1>0, <2>1, SteadyWarned
<1> QED BY <1>1, <1>2, <1>3, <1>4 DEF Next, MainStep

LEMMA WarnedInvariance == Spec => []Warned
<1>1. Spec => [](Inv /\ Warned)
  BY InitInv, NextInv, InitWarned, NextWarned, PTL DEF Spec
<1> QED BY <1>1, PTL

\* In the end every message has arrived: what is at a list is on it, and the
\* map holds exactly the warnings of the valid files.
LEMMA Settled ==
  ASSUME Inv, Warned, mainPc = "done"
  PROVE  /\ \A p \in Paths : warnings[p] # "none" =>
               \E o \in ListedAs("valid") : path[o] = p /\ warnings[p] = WarnKind(o)
         /\ \A o \in ListedAs("valid") : warnings[path[o]] = WarnKind(o)
         /\ ListedAs("valid") \subseteq Occ
<1>1. /\ \A g \in Goroutines : ToSet(hand[g]) = {}
      /\ \A c \in Channels : ToSet(chan[c]) = {}
  BY Emptied, EmptyElements, EmptySeq
<1>2. {"valid", "warning"} \subseteq Channels /\ "valid" \in Verdicts
  BY DEF Verdicts, Channels, Aggregators
<1>3. \A o : ~Transit("valid", o) /\ ~Transit("warning", o)
  BY <1>1, <1>2 DEF Transit, Heading, Waiting
<1>4. \A o : At("valid", o) <=> o \in ListedAs("valid")
  BY <1>3, AtTransit
<1>5. ListedAs("valid") \subseteq Occ /\ path \in [Occ -> Paths]
  BY <1>2, EmptyElements DEF Inv, TypeOK, ListedAs
<1>6. \A p \in Paths : warnings[p] # "none" =>
         \E o \in ListedAs("valid") : path[o] = p /\ warnings[p] = WarnKind(o)
  BY <1>4 DEF Warned, WarningsSound
<1>7. ASSUME NEW o \in ListedAs("valid") PROVE warnings[path[o]] = WarnKind(o)
  <2>1. CASE WarnKind(o) # "none"
    BY <1>3, <1>4, <1>5, <2>1 DEF Warned, WarningsKept
  <2>2. CASE WarnKind(o) = "none"
    <3>1. ASSUME warnings[path[o]] # "none" PROVE FALSE
      <4>1. PICK a \in ListedAs("valid") : /\ path[a] = path[o]
                                           /\ warnings[path[o]] = WarnKind(a)
        BY <1>5, <1>6, <3>1
      <4>2. WarnKind(a) = WarnKind(o)
        BY <4>1 DEF WarnKind
      <4> QED BY <2>2, <3>1, <4>1, <4>2
    <3> QED BY <2>2, <3>1
  <2> QED BY <2>1, <2>2
<1> QED BY <1>5, <1>6, <1>7

\* Once the lists are read, every warning belongs to a valid file, although
\* verdicts and warnings are gathered by different goroutines; and without a
\* connection every valid file has the warning that makes the summary say
\* "skipped since there is no internet connection" (validationManager.go:66-72).
THEOREM WarningsFit == Spec => []WarningsMatchVerdicts
<1>1. ASSUME Inv, Warned PROVE WarningsMatchVerdicts
  <2> SUFFICES ASSUME mainPc = "done"
               PROVE  /\ {p \in Paths : warnings[p] # "none"} \subseteq ValidPaths
                      /\ (NoSchemas /\ ~opts.skip) =>
                            \A p \in ValidPaths : warnings[p] = "NetworkError"
    BY DEF WarningsMatchVerdicts
  <2> QED BY <1>1, Settled DEF ValidPaths, WarnKind
<1> QED BY <1>1, Invariance, WarnedInvariance, PTL

\* The numerator of the schema validation line of the summary is the number of
\* files whose every resource was checked, if no file was named twice
\* (validationManager.go:71; the map counts a file once, the list each time).
THEOREM SummaryCounts == Spec => []SummaryCountsChecked
<1>1. ASSUME AuditInv, Single, Warned PROVE SummaryCountsChecked
  <2> DEFINE L == collected["valid"]
             V == ListedAs("valid")
             P == {p \in Paths : warnings[p] = "Skipped"}
             S == {o \in V : WarnKind(o) = "Skipped"}
             f == [o \in S |-> path[o]]
  <2> SUFFICES ASSUME mainPc = "done", DistinctPaths,
                      \A p \in Paths : warnings[p] # "NetworkError"
               PROVE  Len(L) - Cardinality(P) = Cardinality(SchemaChecked)
    BY DEF SummaryCountsChecked
  <2>1. /\ \A p \in Paths : warnings[p] # "none" =>
              \E o \in V : path[o] = p /\ warnings[p] = WarnKind(o)
        /\ \A o \in V : warnings[path[o]] = WarnKind(o)
        /\ V \subseteq Occ
    BY <1>1, Settled DEF AuditInv
  <2>2. L \in Seq(Occ) /\ path \in [Occ -> Paths] /\ Len(L) \in Nat
    BY <1>1 DEF AuditInv, Inv, TypeOK, Verdicts, Aggregators
  <2>3. ASSUME NEW i \in DOMAIN L, NEW j \in DOMAIN L, L[i] = L[j] PROVE i = j
    <3> DEFINE o == L[i]
               I == {k \in DOMAIN L : L[k] = o}
    <3>1. o \in Occ /\ "valid" \in Verdicts /\ TypeOK
      BY <1>1, <2>2 DEF AuditInv, Inv, Verdicts, Aggregators
    <3>2. PICK g : g \in Goroutines
      BY DEF Goroutines, Helpers
    <3>3. /\ Held(g, "valid", o) + Queued("valid", o) + Times(o, "valid") <= 1
          /\ Held(g, "valid", o) \in Nat /\ Queued("valid", o) \in Nat
          /\ Times(o, "valid") \in Nat
      <4>1. Held(g, "valid", o) + Queued("valid", o) + Times(o, "valid") <= Limit("valid", o)
        BY <1>1, <3>1, <3>2 DEF Single, Bounded
      <4>2. Limit("valid", o) = 1
        BY DEF Limit
      <4>3. "valid" \in Channels
        BY DEF Channels, Aggregators
      <4> QED BY <3>1, <3>2, <4>1, <4>2, <4>3, HeldType, QueuedType, TimesType
    <3>4. Times(o, "valid") = Cardinality(I)
      BY DEF Times
    <3>5. IsFiniteSet(I) /\ {i, j} \subseteq I
      <4>1. IsFiniteSet({k \in DOMAIN L : L[k] \in {o}})
        BY <2>2, CopiesType
      <4>2. I = {k \in DOMAIN L : L[k] \in {o}}
        OBVIOUS
      <4> QED BY <2>3, <4>1, <4>2
    <3> HIDE DEF I, o
    <3>6. Cardinality(I) <= 1
      BY <3>3, <3>4
    <3> SUFFICES ASSUME i # j PROVE FALSE
      OBVIOUS
    <3>7. Cardinality({i, j}) = 2
      <4>1. IsFiniteSet({i}) /\ Cardinality({i}) = 1 /\ {i, j} = {i} \cup {j} /\ j \notin {i}
        BY FS_Singleton
      <4> QED BY <4>1, FS_AddElement, SMTT(30)
    <3>8. Cardinality({i, j}) <= Cardinality(I)
      BY <3>5, FS_Subset
    <3>9. Cardinality(I) \in Nat
      BY <3>5, FS_CardinalityType
    <3> QED BY <3>6, <3>7, <3>8, <3>9
  <2>4. IsFiniteSet(V) /\ Cardinality(V) = Len(L)
    <3> DEFINE n == Len(L)
    <3>1. DOMAIN L = 1..n /\ n \in Nat
      BY <2>2
    <3>2. V = {L[i] : i \in 1..n}
      BY <3>1 DEF ListedAs, ToSet
    <3> HIDE DEF n
    <3>3. [i \in 1..n |-> L[i]] \in Bijection(1..n, V)
      BY <2>3, <3>1, <3>2 DEF Bijection, Injection, Surjection, IsInjective
    <3>4. IsFiniteSet(1..n) /\ Cardinality(1..n) = n
      BY <3>1, FS_Interval
    <3>5. ExistsBijection(1..n, V)
      BY <3>3 DEF ExistsBijection
    <3> QED BY <3>4, <3>5, FS_Bijection DEF n
  <2>5. \A o \in V : WarnKind(o) \in {"Skipped", "none"}
    <3>1. \A o \in V : WarnKind(o) # "NetworkError"
      BY <2>1, <2>2
    <3> QED BY <3>1 DEF WarnKind
  <2>6. SchemaChecked = V \ S
    BY <2>5 DEF SchemaChecked, WarnKind
  <2>7. IsFiniteSet(S) /\ Cardinality(V \ S) = Cardinality(V) - Cardinality(S)
    <3>1. S \in SUBSET V
      OBVIOUS
    <3> HIDE DEF S, V
    <3>2. IsFiniteSet(S)
      BY <2>4, <3>1, FS_Subset
    <3>3. /\ Cardinality(V \ S) = Cardinality(V) - Cardinality(V \cap S)
          /\ V \cap S = S
      BY <2>4, <3>1, <3>2, FS_Difference
    <3> QED BY <3>2, <3>3
  <2>8. Cardinality(P) = Cardinality(S)
    <3>1. \A o \in S : path[o] \in P
      BY <2>1, <2>2
    <3>2. \A p \in P : \E o \in S : path[o] = p
      BY <2>1
    <3>3. \A a, b \in S : path[a] = path[b] => a = b
      BY <2>1 DEF DistinctPaths
    <3> HIDE DEF S, P
    <3>4. f \in Bijection(S, P)
      BY <3>1, <3>2, <3>3 DEF Bijection, Injection, Surjection, IsInjective
    <3>5. ExistsBijection(S, P)
      BY <3>4 DEF ExistsBijection
    <3> QED BY <2>7, <3>5, FS_Bijection
  <2> QED BY <2>4, <2>6, <2>7, <2>8
<1> QED BY <1>1, AuditInvariance, SingleInvariance, WarnedInvariance, PTL
=============================================================================
