------------------------- MODULE PromptEvaluateProofs -------------------------
(* Proofs about PromptEvaluate and Subprocess, for any pipe capacity, programs *)
(* of the tools, answers, findings and number of calls:                        *)
(*   TypeCorrect       Spec => []TypeOK                                        *)
(*   AllOrNone         Spec => []FindingsAllOrNone                             *)
(*   NoComplaintLost   Spec => KubevalVerdict                                  *)
(* The invariant says that no chunk is lost between a child and the buffers    *)
(* unless a pump thread fails (Conserved), who has ended when the caller goes  *)
(* on (Ends, Caller), and which tools are in the findings (Gathered).  What    *)
(* dedupKeepOrder, a fold, returns is proved by induction (Reaches), from the  *)
(* least counterexample that the well-founded order of the naturals has.       *)
EXTENDS PromptEvaluate, WellFoundedInduction, SequenceTheorems, FiniteSetTheorems, TLAPS

-----------------------------------------------------------------------------
(* dedupKeepOrder, for rows of any length.                                   *)

\* Induction, with the property given as a set.
LEMMA Reaches ==
  ASSUME NEW T, 0 \in T, \A k \in Nat : k \in T => k + 1 \in T
  PROVE  Nat \subseteq T
<1> DEFINE Missing == Nat \ T
           R == OpToRel(<, Nat)
<1>1. IsWellFoundedOn(R, Nat) /\ \A x, y \in Nat : y < x => <<y, x>> \in R
  BY NatLessThanWellFounded DEF OpToRel
<1> HIDE DEF R
<1>2. ASSUME Missing # {} PROVE FALSE
  <2>1. PICK x \in Missing : \A y \in Missing : ~(<<y, x>> \in R)
    BY <1>1, <1>2, WFMin
  <2>2. x # 0 /\ x - 1 \in Nat /\ x - 1 < x
    OBVIOUS
  <2>3. x - 1 \in T
    BY <1>1, <2>1, <2>2
  <2> QED BY <2>2, <2>3
<1> QED BY <1>2

Kept(kept, r) == IF r \in Range(kept) THEN kept ELSE Append(kept, r)

\* The function that the fold is defined by, over the indices up to k.
Folds(g, rows, k) ==
    g = [s \in SUBSET (1..k) |->
           IF s = {} THEN << >> ELSE Kept(g[s \ {Max(s)}], rows[Max(s)])]

LEMMA FoldExists ==
  ASSUME NEW rows, NEW n \in Nat
  PROVE  \E g : Folds(g, rows, n)
<1> DEFINE T == {k \in Nat : \E g : Folds(g, rows, k)}
<1>1. 0 \in T
  <2> DEFINE g == [s \in SUBSET (1..0) |-> << >>]
  <2>1. \A s \in SUBSET (1..0) : s = {}
    OBVIOUS
  <2>2. Folds(g, rows, 0)
    BY <2>1 DEF Folds
  <2> QED BY <2>2
<1>2. ASSUME NEW k \in Nat, k \in T PROVE k + 1 \in T
  <2>1. PICK g : Folds(g, rows, k)
    BY <1>2
  <2> DEFINE F(f, s) == IF s = {} THEN << >> ELSE Kept(f[s \ {Max(s)}], rows[Max(s)])
             h == [s \in SUBSET (1..(k + 1)) |-> F(g, s)]
  <2>2. \A s \in SUBSET (1..k) : g[s] = F(g, s)
    BY <2>1 DEF Folds
  <2>3. ASSUME NEW s \in SUBSET (1..(k + 1)) PROVE s \ {Max(s)} \in SUBSET (1..k)
    <3>1. CASE k + 1 \in s
      <4>1. \A y \in s : k + 1 >= y
        OBVIOUS
      <4>2. Max(s) \in s /\ \A y \in s : Max(s) >= y
        BY <3>1, <4>1 DEF Max
      <4>3. Max(s) = k + 1
        <5>1. PICK m : m = Max(s)
          OBVIOUS
        <5>2. m \in 1..(k + 1) /\ m >= k + 1
          BY <3>1, <4>2, <5>1
        <5> QED BY <5>1, <5>2
      <4>4. \A y \in s : y # k + 1 => y \in 1..k
        OBVIOUS
      <4> QED BY <4>3, <4>4
    <3>2. CASE k + 1 \notin s
      <4>1. \A y \in s : y \in 1..k
        BY <3>2
      <4> QED BY <4>1
    <3> QED BY <3>1, <3>2
  <2>4. \A s \in SUBSET (1..k) : s \in SUBSET (1..(k + 1)) /\ h[s] = F(g, s)
    OBVIOUS
  <2>5. \A s \in SUBSET (1..(k + 1)) : h[s \ {Max(s)}] = g[s \ {Max(s)}]
    BY <2>2, <2>3, <2>4
  <2>6. \A s \in SUBSET (1..(k + 1)) : F(h, s) = F(g, s)
    BY <2>5
  <2>7. h = [s \in SUBSET (1..(k + 1)) |-> F(h, s)]
    BY <2>6
  <2> HIDE DEF h
  <2>8. Folds(h, rows, k + 1)
    BY <2>7 DEF Folds
  <2> QED BY <2>8
<1> HIDE DEF T
<1>3. n \in T
  BY <1>1, <1>2, Reaches
<1> QED BY <1>3 DEF T

Distinct(s) == \A i, j \in 1..Len(s) : s[i] = s[j] => i = j

LEMMA DedupIs ==
  ASSUME NEW S, NEW rows \in Seq(S)
  PROVE  LET d == DedupKeepOrder(rows)
         IN  d \in Seq(S) /\ Distinct(d) /\ Range(d) = Range(rows)
<1> DEFINE n == Len(rows)
<1>1. n \in Nat /\ DOMAIN rows = 1..n /\ \A i \in 1..n : rows[i] \in S
  OBVIOUS
<1>2. PICK g : g = CHOOSE f : Folds(f, rows, n)
  OBVIOUS
<1>3. Folds(g, rows, n)
  BY <1>1, <1>2, FoldExists
<1>4. DedupKeepOrder(rows) = g[1..n]
  BY <1>1, <1>2 DEF DedupKeepOrder, FoldLeft, MapThenFoldSet, Folds, Kept
<1> DEFINE Good(k) == /\ g[1..k] \in Seq(S) /\ Distinct(g[1..k])
                      /\ Range(g[1..k]) = {rows[i] : i \in 1..k}
           T == {k \in Nat : k <= n => Good(k)}
<1>5. 0 \in T
  <2>1. 1..0 = {} /\ {} \in SUBSET (1..n)
    OBVIOUS
  <2>2. g[1..0] = << >>
    BY <1>3, <2>1 DEF Folds
  <2>3. << >> \in Seq(S) /\ Distinct(<< >>) /\ Range(<< >>) = {}
    BY DEF Distinct, Range
  <2>4. {rows[i] : i \in 1..0} = {}
    OBVIOUS
  <2> QED BY <2>2, <2>3, <2>4
<1>6. ASSUME NEW k \in Nat, k \in T PROVE k + 1 \in T
  <2> SUFFICES ASSUME k + 1 <= n PROVE Good(k + 1)
    OBVIOUS
  <2>1. 1..(k + 1) \in SUBSET (1..n) /\ 1..(k + 1) # {} /\ k + 1 \in 1..n
    BY <1>1
  <2>2. Max(1..(k + 1)) = k + 1 /\ 1..(k + 1) \ {k + 1} = 1..k
    <3>1. k + 1 \in 1..(k + 1) /\ \A y \in 1..(k + 1) : k + 1 >= y
      OBVIOUS
    <3> QED BY <3>1 DEF Max
  <2>3. g[1..(k + 1)] = Kept(g[1..k], rows[k + 1])
    BY <1>3, <2>1, <2>2 DEF Folds
  <2>4. Good(k)
    BY <1>1, <1>6
  <2>5. {rows[i] : i \in 1..(k + 1)} = {rows[i] : i \in 1..k} \cup {rows[k + 1]}
    <3>1. 1..(k + 1) = 1..k \cup {k + 1}
      OBVIOUS
    <3> QED BY <3>1
  <2> DEFINE d == g[1..k]
             r == rows[k + 1]
  <2>6. r \in S
    BY <1>1, <2>1
  <2>7. CASE r \in Range(d)
    <3>1. g[1..(k + 1)] = d
      BY <2>3, <2>7 DEF Kept
    <3> QED BY <2>4, <2>5, <2>7, <3>1
  <2>8. CASE r \notin Range(d)
    <3>1. g[1..(k + 1)] = Append(d, r)
      BY <2>3, <2>8 DEF Kept
    <3> HIDE DEF d, r
    <3>2. d \in Seq(S) /\ Distinct(d)
      BY <2>4 DEF d
    <3>3. Append(d, r) \in Seq(S) /\ Range(Append(d, r)) = Range(d) \cup {r}
      <4>1. /\ Append(d, r) \in Seq(S) /\ Len(d) \in Nat /\ DOMAIN d = 1..Len(d)
            /\ DOMAIN Append(d, r) = 1..(Len(d) + 1)
            /\ \A i \in 1..Len(d) : Append(d, r)[i] = d[i]
            /\ Append(d, r)[Len(d) + 1] = r
        BY <2>6, <3>2
      <4>2. \A i : i \in 1..(Len(d) + 1) <=> i \in 1..Len(d) \/ i = Len(d) + 1
        BY <4>1
      <4>3. \A x : x \in Range(Append(d, r)) <=> \E i \in 1..(Len(d) + 1) : Append(d, r)[i] = x
        BY <4>1 DEF Range
      <4>4. \A x : x \in Range(d) <=> \E i \in 1..Len(d) : d[i] = x
        BY <4>1 DEF Range
      <4>5. \A x : x \in Range(Append(d, r)) <=> x \in Range(d) \/ x = r
        BY <4>1, <4>2, <4>3, <4>4
      <4> QED BY <4>1, <4>5
    <3>4. Distinct(Append(d, r))
      BY <2>6, <2>8, <3>2 DEF Distinct, Range
    <3> QED BY <2>4, <2>5, <3>1, <3>3, <3>4 DEF d, r
  <2> QED BY <2>7, <2>8
<1> HIDE DEF T
<1>7. n \in T
  BY <1>1, <1>5, <1>6, Reaches
<1>8. Good(n)
  BY <1>7 DEF T
<1> QED BY <1>1, <1>4, <1>8 DEF Range
-----------------------------------------------------------------------------
(* The invariant.                                                            *)

\* No pump thread has failed.
Sound == \A s \in Streams : pump[s] # "broken"

\* What a child was to write is still to come, in the pipe or in the buffer.
Conserved ==
    Sound => \A s \in Streams : size[s] = buffer[s] + pipe[s] + Count(s, program)

\* Who has ended: the child, those who write to the pipes, the pump threads.
Ends ==
    /\ child \in {"none", "exited"} /\ Sound => program = << >>
    /\ \A s \in Streams : pump[s] = "ended" => pipe[s] = 0 /\ child # "running" /\ ~heir
    /\ exec = "waiting" => child \in {"running", "exited"}
    /\ exec # "waiting" => child # "running"
    /\ exec \in {"joinOut", "joinErr", "collected"} => child = "exited"

\* The caller runs one tool at a time, and kubeval's pumps are waited for.
Caller ==
    /\ pc \in {"call", "correct", "ended"} => exec = "idle"
    /\ pc = "scan" /\ exec # "idle" => tool <= Len(Tools)
    /\ pc \in {"kubeval", "again"} =>
          /\ exec \in {"joinErr", "collected"} => Over("out")
          /\ exec = "collected" => Over("err")

RulesIn(rows, t) == {f.ruleId : f \in {g \in Range(rows) : g.tool = t}}

Rows == [tool : Range(Tools),
         ruleId : UNION {Range(Found[a][t]) : a \in Answers, t \in Range(Tools)}]

\* Only the tools that have run are in the findings, each with all or nothing.
Gathered ==
    /\ findings \in Seq(Rows) /\ Distinct(findings)
    /\ pc \in {"scan", "correct", "again"} => scanned \in Answers \ {NoFile}
    /\ pc = "kubeval" => findings = << >> /\ tool = 1
    /\ \A k \in 1..Len(Tools) :
          /\ RulesIn(findings, Tools[k]) \in
                {{}, IF scanned = NoFile THEN {} ELSE Range(Found[scanned][Tools[k]])}
          /\ pc = "scan" /\ k >= tool => RulesIn(findings, Tools[k]) = {}

ProcInv == SubprocessTypeOK /\ Conserved /\ Ends

Typed ==
    /\ pc \in {"call", "kubeval", "scan", "correct", "again", "ended"}
    /\ tool \in 1..Len(Tools) + 1
    /\ saved \in Answers \cup {NoFile} /\ scanned \in Answers \cup {NoFile}
    /\ score \in {"none", "zero", "one", "thrown"}
    /\ calls \in 0..MaxCalls
    /\ pc \notin {"call", "ended"} => calls < MaxCalls

Inv == ProcInv /\ Typed /\ Caller /\ Gathered
-----------------------------------------------------------------------------
(* Running a tool.                                                           *)

LEMMA CountEmpty ==
  ASSUME NEW s
  PROVE  Count(s, << >>) = 0
<1>1. {i \in DOMAIN << >> : << >>[i] = s} = {}
  OBVIOUS
<1> QED BY <1>1, FS_EmptySet DEF Count

LEMMA CountIsNat ==
  ASSUME NEW s, NEW p \in Seq(Streams)
  PROVE  Count(s, p) \in Nat /\ IsFiniteSet({i \in DOMAIN p : p[i] = s})
<1>1. DOMAIN p = 1..Len(p) /\ Len(p) \in Nat
  OBVIOUS
<1>2. IsFiniteSet(DOMAIN p)
  BY <1>1, FS_Interval
<1>3. IsFiniteSet({i \in DOMAIN p : p[i] = s})
  <2> DEFINE T == {i \in DOMAIN p : p[i] = s}
  <2>1. T \in SUBSET DOMAIN p
    OBVIOUS
  <2> HIDE DEF T
  <2>2. IsFiniteSet(T)
    BY <1>2, <2>1, FS_Subset
  <2> QED BY <2>2 DEF T
<1> QED BY <1>3, FS_CardinalityType DEF Count

\* The chunk that is written is one less to write.
LEMMA CountTail ==
  ASSUME NEW s, NEW p \in Seq(Streams), p # << >>
  PROVE  Count(s, p) = Count(s, Tail(p)) + IF Head(p) = s THEN 1 ELSE 0
<1> DEFINE q == Tail(p)
           S == {i \in DOMAIN q : q[i] = s}
           T == {i \in DOMAIN p : p[i] = s}
           f == [i \in S |-> i + 1]
<1>1. /\ q \in Seq(Streams) /\ Len(p) \in Nat /\ Len(p) > 0
      /\ DOMAIN p = 1..Len(p) /\ DOMAIN q = 1..(Len(p) - 1)
      /\ \A i \in 1..(Len(p) - 1) : q[i] = p[i + 1]
      /\ Head(p) = p[1]
  OBVIOUS
<1>2. IsFiniteSet(S) /\ IsFiniteSet(T)
  BY <1>1, CountIsNat
<1>3. f \in Bijection(S, T \ {1})
  <2>1. \A i \in S : i + 1 \in T \ {1}
    BY <1>1
  <2>2. \A j \in T \ {1} : j - 1 \in S /\ f[j - 1] = j
    BY <1>1
  <2>3. \A i, j \in S : f[i] = f[j] => i = j
    BY <1>1
  <2> QED BY <2>1, <2>2, <2>3 DEF Bijection, Injection, Surjection, IsInjective
<1>4. Cardinality(S) = Cardinality(T \ {1})
  BY <1>2, <1>3, FS_Bijection, ZenonT(30) DEF ExistsBijection
<1>5. Cardinality(T \ {1}) = IF 1 \in T THEN Cardinality(T) - 1 ELSE Cardinality(T)
  BY <1>2, FS_RemoveElement
<1>6. 1 \in T <=> Head(p) = s
  BY <1>1
<1>7. Cardinality(T) \in Nat
  BY <1>2, FS_CardinalityType
<1>8. Count(s, p) = Cardinality(T) /\ Count(s, q) = Cardinality(S)
  BY DEF Count
<1> HIDE DEF S, T, q
<1>9. Cardinality(T) = Cardinality(S) + IF Head(p) = s THEN 1 ELSE 0
  BY <1>4, <1>5, <1>6, <1>7
<1> QED BY <1>8, <1>9 DEF q

LEMMA Started ==
  ASSUME ProcInv, exec = "idle",
         NEW programs \in SUBSET Programs, NEW blanks \in SUBSET [Streams -> BOOLEAN],
         StartChild(programs, blanks)
  PROVE  ProcInv' /\ exec' \in {"waiting", "failed"}
<1>1. CASE /\ exec' = "failed"
           /\ UNCHANGED <<child, program, size, blank, pipe, buffer, pump, heir>>
  BY <1>1 DEF ProcInv, SubprocessTypeOK, Conserved, Ends, Sound
<1>2. CASE /\ \E p \in programs :
                 program' = p /\ size' = [s \in Streams |-> Count(s, p)]
           /\ blank' \in blanks
           /\ child' = "running"
           /\ pipe' = Zero /\ buffer' = Zero
           /\ pump' = [s \in Streams |-> "on"]
           /\ heir' \in BOOLEAN
           /\ exec' = "waiting"
  <2>1. program' \in Seq(Streams) /\ size' = [s \in Streams |-> Count(s, program')]
    BY <1>2, ProgramsAssumption
  <2>2. \A s \in Streams : size'[s] = Count(s, program') /\ Count(s, program') \in Nat
    BY <2>1, CountIsNat
  <2>3. \A s \in Streams : pipe'[s] = 0 /\ buffer'[s] = 0 /\ pump'[s] = "on"
    BY <1>2 DEF Zero
  <2>4. SubprocessTypeOK'
    BY <1>2, <2>1, <2>2, CapacityAssumption DEF SubprocessTypeOK, Zero
  <2>5. Conserved'
    BY <2>2, <2>3 DEF Conserved
  <2>6. Ends'
    BY <1>2, <2>3 DEF Ends
  <2> QED BY <1>2, <2>4, <2>5, <2>6 DEF ProcInv
<1> QED BY <1>1, <1>2 DEF StartChild

\* What the child, its heir and the pumps do.
LEMMA ChildWriteStep ==
  ASSUME ProcInv, ChildWrite
  PROVE  ProcInv'
<1> DEFINE h == Head(program)
<1> USE DEF ProcInv
<1>1. /\ child = "running" /\ program # << >> /\ program \in Seq(Streams)
      /\ h \in Streams /\ pump[h] = "on" /\ pipe[h] < Capacity /\ Tail(program) \in Seq(Streams)
      /\ pipe' = [pipe EXCEPT ![h] = @ + 1] /\ program' = Tail(program)
      /\ UNCHANGED <<child, size, blank, buffer, pump, heir, exec>>
  BY DEF ChildWrite, SubprocessTypeOK
<1>2. \A s \in Streams : pipe'[s] = pipe[s] + IF h = s THEN 1 ELSE 0
  BY <1>1 DEF SubprocessTypeOK
<1>3. SubprocessTypeOK'
  <2>1. \A s \in Streams : pipe'[s] \in 0..Capacity
    BY <1>1, <1>2, CapacityAssumption, SMTT(30) DEF SubprocessTypeOK
  <2> QED BY <1>1, <2>1 DEF SubprocessTypeOK
<1>4. Conserved'
  <2>1. ASSUME Sound, NEW s \in Streams
        PROVE  size'[s] = buffer'[s] + pipe'[s] + Count(s, program')
    <3>1. Count(s, program) = Count(s, program') + IF h = s THEN 1 ELSE 0
      BY <1>1, CountTail
    <3>2. size[s] = buffer[s] + pipe[s] + Count(s, program)
      BY <2>1 DEF Conserved
    <3>3. buffer[s] \in Nat /\ pipe[s] \in Nat
      BY DEF SubprocessTypeOK
    <3>4. Count(s, program') \in Nat
      BY <1>1, <1>3, CountIsNat
    <3> QED BY <1>1, <1>2, <3>1, <3>2, <3>3, <3>4
  <2>2. Sound' => Sound
    BY <1>1 DEF Sound
  <2> QED BY <2>1, <2>2 DEF Conserved
<1>5. Ends'
  BY <1>1 DEF Ends
<1> QED BY <1>3, <1>4, <1>5

LEMMA WriteLostStep ==
  ASSUME ProcInv, WriteLost
  PROVE  ProcInv'
<1>1. /\ child = "running" /\ program # << >> /\ program \in Seq(Streams)
      /\ Head(program) \in Streams /\ pump[Head(program)] = "broken"
      /\ program' \in {program, Tail(program)} /\ child' \in {"running", "exited"}
      /\ UNCHANGED <<size, blank, pipe, buffer, pump, heir, exec>>
  BY DEF WriteLost, ProcInv, SubprocessTypeOK
<1>2. ~Sound'
  BY <1>1 DEF Sound
<1>3. program' \in Seq(Streams)
  BY <1>1
<1>4. SubprocessTypeOK'
  BY <1>1, <1>3 DEF ProcInv, SubprocessTypeOK
<1>5. Conserved'
  BY <1>2 DEF Conserved
<1>6. Ends'
  BY <1>1, <1>2 DEF ProcInv, Ends
<1> QED BY <1>4, <1>5, <1>6 DEF ProcInv

LEMMA PumpStep ==
  ASSUME ProcInv, NEW s \in Streams, Pump(s)
  PROVE  /\ ProcInv' /\ exec' = exec
         /\ \A t \in Streams : Over(t) => Over(t)'
<1> USE DEF ProcInv
<1>1. CASE /\ pump[s] = "on" /\ pipe[s] > 0
           /\ pipe' = [pipe EXCEPT ![s] = @ - 1]
           /\ buffer' = [buffer EXCEPT ![s] = @ + 1]
           /\ UNCHANGED <<child, program, size, blank, heir, exec, pump>>
  <2>1. \A t \in Streams : /\ pipe'[t] = pipe[t] - IF t = s THEN 1 ELSE 0
                           /\ buffer'[t] = buffer[t] + IF t = s THEN 1 ELSE 0
    BY <1>1 DEF SubprocessTypeOK
  <2>2. \A t \in Streams : pipe'[t] \in 0..Capacity /\ buffer'[t] \in Nat
    BY <1>1, <2>1, CapacityAssumption DEF SubprocessTypeOK
  <2>3. SubprocessTypeOK'
    BY <1>1, <2>2 DEF SubprocessTypeOK
  <2>4. Conserved'
    <3>1. ASSUME Sound, NEW t \in Streams
          PROVE  size'[t] = buffer'[t] + pipe'[t] + Count(t, program')
      <4>1. size[t] = buffer[t] + pipe[t] + Count(t, program)
        BY <3>1 DEF Conserved
      <4>2. program \in Seq(Streams) /\ buffer[t] \in Nat /\ pipe[t] \in Nat
        BY DEF SubprocessTypeOK
      <4>3. Count(t, program) \in Nat
        BY <4>2, CountIsNat
      <4> QED BY <1>1, <2>1, <4>1, <4>2, <4>3
    <3>2. Sound' => Sound
      BY <1>1 DEF Sound
    <3> QED BY <3>1, <3>2 DEF Conserved
  <2>5. Ends'
    BY <1>1, <2>1 DEF Ends, Sound
  <2> QED BY <1>1, <2>3, <2>4, <2>5 DEF Over
<1>2. CASE /\ pump[s] = "on" /\ pipe[s] = 0 /\ child # "running" /\ ~heir
           /\ pump' = [pump EXCEPT ![s] = "ended"]
           /\ UNCHANGED <<child, program, size, blank, heir, exec, pipe, buffer>>
  <2>1. \A t \in Streams : pump'[t] = IF t = s THEN "ended" ELSE pump[t]
    BY <1>2 DEF SubprocessTypeOK
  <2>2. Sound' => Sound
    BY <1>2, <2>1 DEF Sound
  <2>3. SubprocessTypeOK' /\ Conserved'
    BY <1>2, <2>2 DEF SubprocessTypeOK, Conserved
  <2>4. Ends'
    BY <1>2, <2>1, <2>2 DEF Ends
  <2> QED BY <1>2, <2>1, <2>3, <2>4 DEF Over
<1>3. CASE /\ pump[s] = "on"
           /\ pump' = [pump EXCEPT ![s] = "broken"]
           /\ pipe' = [pipe EXCEPT ![s] = 0]
           /\ UNCHANGED <<child, program, size, blank, heir, exec, buffer>>
  <2>1. \A t \in Streams : /\ pump'[t] = IF t = s THEN "broken" ELSE pump[t]
                           /\ pipe'[t] = IF t = s THEN 0 ELSE pipe[t]
    BY <1>3 DEF SubprocessTypeOK
  <2>2. ~Sound'
    BY <2>1 DEF Sound
  <2>3. SubprocessTypeOK' /\ Conserved'
    BY <1>3, <2>2, CapacityAssumption DEF SubprocessTypeOK, Conserved
  <2>4. Ends'
    BY <1>3, <2>1, <2>2 DEF Ends
  <2> QED BY <1>3, <2>1, <2>3, <2>4 DEF Over
<1> QED BY <1>1, <1>2, <1>3 DEF Pump

LEMMA Moved ==
  ASSUME ProcInv,
         \/ ChildWrite \/ WriteLost \/ ChildExit \/ HeirExit
         \/ (\E s \in Streams : Pump(s)) \/ WaitFor
  PROVE  /\ ProcInv'
         /\ exec' = exec \/ (exec = "waiting" /\ exec' \in {"joinOut", "failed"})
         /\ \A t \in Streams : Over(t) => Over(t)'
<1>1. CASE ChildWrite \/ WriteLost
  BY <1>1, ChildWriteStep, WriteLostStep DEF ChildWrite, WriteLost, Over
<1>2. CASE ChildExit \/ HeirExit \/ WaitFor
  <2>1. UNCHANGED <<program, size, blank, pipe, buffer, pump>>
    BY <1>2 DEF ChildExit, HeirExit, WaitFor
  <2>2. Conserved'
    BY <2>1 DEF ProcInv, Conserved, Sound
  <2>3. SubprocessTypeOK'
    BY <1>2, <2>1 DEF ProcInv, SubprocessTypeOK, ChildExit, HeirExit, WaitFor
  <2>4. Ends'
    BY <1>2, <2>1 DEF ProcInv, Ends, Sound, ChildExit, HeirExit, WaitFor
  <2>5. exec' = exec \/ (exec = "waiting" /\ exec' \in {"joinOut", "failed"})
    BY <1>2 DEF ChildExit, HeirExit, WaitFor
  <2> QED BY <2>1, <2>2, <2>3, <2>4, <2>5 DEF ProcInv, Over
<1>3. CASE \E s \in Streams : Pump(s)
  BY <1>3, PumpStep
<1> QED BY <1>1, <1>2, <1>3

\* The caller alone moves.
LEMMA CallerMoves ==
  ASSUME ProcInv, UNCHANGED <<child, program, size, blank, pipe, buffer, pump, heir>>,
         \/ exec' = "idle" /\ exec # "waiting"
         \/ exec = "joinOut" /\ exec' = "joinErr"
         \/ exec = "joinErr" /\ exec' = "collected"
         \/ exec' = exec
  PROVE  ProcInv'
<1>1. SubprocessTypeOK'
  BY DEF ProcInv, SubprocessTypeOK
<1>2. Conserved'
  BY DEF ProcInv, Conserved, Sound
<1>3. Ends'
  BY DEF ProcInv, Ends, Sound
<1> QED BY <1>1, <1>2, <1>3 DEF ProcInv
-----------------------------------------------------------------------------
(* The findings.                                                             *)

LEMMA ThreeTools ==
  /\ Len(Tools) = 3 /\ DOMAIN Tools = 1..3
  /\ \A k \in 1..3 : Tools[k] \in Range(Tools)
  /\ \A k, l \in 1..3 : Tools[k] = Tools[l] => k = l
<1>1. /\ Len(Tools) = 3 /\ DOMAIN Tools = 1..3
      /\ \A k, l \in 1..3 : Tools[k] = Tools[l] => k = l
  BY DEF Tools
<1> QED BY <1>1 DEF Range

LEMMA RulesIs ==
  ASSUME NEW rows, NEW t
  PROVE  \A r : r \in RulesIn(rows, t) <=> \E f \in Range(rows) : f.tool = t /\ f.ruleId = r
BY DEF RulesIn

LEMMA GatheredKept ==
  ASSUME Gathered, UNCHANGED <<findings, scanned>>,
         pc' \in {"scan", "correct", "again"} => scanned \in Answers \ {NoFile},
         pc' = "kubeval" => findings = << >> /\ tool' = 1,
         pc' = "scan" => findings = << >> \/ (pc = "scan" /\ tool' = tool)
  PROVE  Gathered'
<1>1. ASSUME findings = << >>, NEW k \in 1..Len(Tools) PROVE RulesIn(findings, Tools[k]) = {}
  BY <1>1, RulesIs DEF Range
<1>2. ASSUME NEW k \in 1..Len(Tools), pc' = "scan", k >= tool'
      PROVE  RulesIn(findings, Tools[k]) = {}
  BY <1>1, <1>2 DEF Gathered
<1> QED BY <1>2 DEF Gathered

\* The rows of a tool's document are its findings.
LEMMA RowsOf ==
  ASSUME NEW a \in Answers, NEW t \in Range(Tools)
  PROVE  LET rows == Labelled(t, Found[a][t])
         IN  /\ rows \in Seq(Rows)
             /\ \A f : f \in Range(rows) <=>
                          \E r \in Range(Found[a][t]) : f = [tool |-> t, ruleId |-> r]
<1> DEFINE found == Found[a][t]
           rows == Labelled(t, found)
<1>1. found \in Seq(Range(found))
  BY FoundAssumption
<1>2. DOMAIN found = 1..Len(found) /\ Len(found) \in Nat
  BY <1>1
<1>3. DOMAIN rows = 1..Len(found) /\ \A i \in 1..Len(found) :
         rows[i] = [tool |-> t, ruleId |-> found[i]]
  BY <1>2 DEF Labelled
<1>4. \A i \in 1..Len(found) : found[i] \in Range(found)
  BY <1>2 DEF Range
<1>5. \A i \in 1..Len(found) : rows[i] \in Rows
  <2>1. Range(found) \in {Range(Found[b][u]) : b \in Answers, u \in Range(Tools)}
    OBVIOUS
  <2>2. \A i \in 1..Len(found) :
           found[i] \in UNION {Range(Found[b][u]) : b \in Answers, u \in Range(Tools)}
    BY <1>4, <2>1
  <2>3. ASSUME NEW i \in 1..Len(found) PROVE rows[i] \in Rows
    <3>1. rows[i] = [tool |-> t, ruleId |-> found[i]]
      BY <1>3
    <3> HIDE DEF rows, found
    <3> QED BY <2>2, <3>1 DEF Rows
  <2> QED BY <2>3
<1>6. rows = [i \in 1..Len(found) |-> rows[i]]
  BY <1>2 DEF Labelled
<1>7. rows \in Seq(Rows)
  BY <1>2, <1>5, <1>6, IsASeq
<1>8. \A f : f \in Range(rows) <=>
                \E r \in Range(found) : f = [tool |-> t, ruleId |-> r]
  BY <1>2, <1>3 DEF Range
<1> QED BY <1>7, <1>8

LEMMA RangeConcat ==
  ASSUME NEW S, NEW p \in Seq(S), NEW q \in Seq(S)
  PROVE  p \o q \in Seq(S) /\ Range(p \o q) = Range(p) \cup Range(q)
<1>1. /\ p \o q \in Seq(S) /\ Len(p \o q) = Len(p) + Len(q)
      /\ Len(p) \in Nat /\ Len(q) \in Nat
      /\ DOMAIN p = 1..Len(p) /\ DOMAIN q = 1..Len(q) /\ DOMAIN (p \o q) = 1..(Len(p) + Len(q))
      /\ \A i \in 1..(Len(p) + Len(q)) :
            (p \o q)[i] = IF i <= Len(p) THEN p[i] ELSE q[i - Len(p)]
  OBVIOUS
<1>2. ASSUME NEW x PROVE x \in Range(p \o q) <=> x \in Range(p) \/ x \in Range(q)
  <2>1. ASSUME x \in Range(p \o q) PROVE x \in Range(p) \/ x \in Range(q)
    <3>1. PICK i \in 1..(Len(p) + Len(q)) : (p \o q)[i] = x
      BY <1>1, <2>1 DEF Range
    <3>2. CASE i <= Len(p)
      BY <1>1, <3>1, <3>2 DEF Range
    <3>3. CASE i > Len(p)
      <4>1. i - Len(p) \in 1..Len(q) /\ q[i - Len(p)] = x
        BY <1>1, <3>1, <3>3
      <4> QED BY <1>1, <4>1 DEF Range
    <3> QED BY <1>1, <3>2, <3>3
  <2>2. ASSUME x \in Range(p) PROVE x \in Range(p \o q)
    <3>1. PICK i \in 1..Len(p) : p[i] = x
      BY <1>1, <2>2 DEF Range
    <3>2. i \in 1..(Len(p) + Len(q)) /\ (p \o q)[i] = x
      BY <1>1, <3>1
    <3> QED BY <1>1, <3>2 DEF Range
  <2>3. ASSUME x \in Range(q) PROVE x \in Range(p \o q)
    <3>1. PICK i \in 1..Len(q) : q[i] = x
      BY <1>1, <2>3 DEF Range
    <3>2. i + Len(p) \in 1..(Len(p) + Len(q)) /\ (p \o q)[i + Len(p)] = x
      BY <1>1, <3>1
    <3> QED BY <1>1, <3>2 DEF Range
  <2> QED BY <2>1, <2>2, <2>3
<1> QED BY <1>1, <1>2

LEMMA ToolDoneGathers ==
  ASSUME Inv, ToolDone
  PROVE  Gathered'
<1> DEFINE t == Tools[tool]
           rows == Labelled(t, Found[scanned][t])
           parsed == Parsed(rows)
           all == findings \o parsed
<1>1. /\ pc = "scan" /\ pc' = "scan" /\ scanned' = scanned
      /\ scanned \in Answers /\ scanned # NoFile
      /\ tool \in 1..3 /\ tool' = tool + 1
      /\ findings \in Seq(Rows) /\ Distinct(findings)
  BY ThreeTools DEF Inv, Typed, Caller, Gathered, ToolDone, eval
<1>2. t \in Range(Tools)
  BY <1>1, ThreeTools
<1>3. /\ rows \in Seq(Rows)
      /\ \A f : f \in Range(rows) <=>
                   \E r \in Range(Found[scanned][t]) : f = [tool |-> t, ruleId |-> r]
  BY <1>1, <1>2, RowsOf
<1>4. findings' = findings \/ findings' = DedupKeepOrder(all)
  BY DEF ToolDone
<1>5. parsed = << >> \/ parsed = rows
  BY DEF Parsed
<1> HIDE DEF rows, parsed
<1>6. parsed \in Seq(Rows) /\ (Range(parsed) = {} \/ Range(parsed) = Range(rows))
  <2>1. << >> \in Seq(Rows) /\ Range(<< >>) = {}
    BY DEF Range
  <2> QED BY <1>3, <1>5, <2>1
<1>7. all \in Seq(Rows) /\ Range(all) = Range(findings) \cup Range(parsed)
  BY <1>1, <1>6, RangeConcat
<1> HIDE DEF all
<1>8. /\ findings' \in Seq(Rows) /\ Distinct(findings')
      /\ \/ Range(findings') = Range(findings)
         \/ Range(findings') = Range(findings) \cup Range(rows)
  <2>1. CASE findings' = findings
    BY <1>1, <2>1
  <2>2. CASE findings' = DedupKeepOrder(all)
    <3>1. findings' \in Seq(Rows) /\ Distinct(findings') /\ Range(findings') = Range(all)
      BY <1>7, <2>2, DedupIs
    <3> QED BY <1>6, <1>7, <3>1
  <2> QED BY <1>4, <2>1, <2>2
<1> DEFINE old(k) == RulesIn(findings, Tools[k])
           new(k) == RulesIn(findings', Tools[k])
<1>9. ASSUME NEW k \in 1..3
      PROVE  new(k) = old(k) \/ (k = tool /\ new(k) = Range(Found[scanned][t]))
  <2>1. \A r : r \in new(k) <=> \E f \in Range(findings') : f.tool = Tools[k] /\ f.ruleId = r
    BY RulesIs
  <2>2. \A r : r \in old(k) <=> \E f \in Range(findings) : f.tool = Tools[k] /\ f.ruleId = r
    BY RulesIs
  <2>3. k = tool => old(k) = {}
    BY <1>1, ThreeTools DEF Inv, Gathered
  <2> HIDE DEF old, new, t
  <2>4. CASE Range(findings') = Range(findings)
    BY <2>1, <2>2, <2>4, ZenonT(30)
  <2>5. CASE Range(findings') = Range(findings) \cup Range(rows) /\ k = tool
    <3>1. Tools[k] = t
      BY <2>5 DEF t
    <3>2. \A r : r \in new(k) <=> \E f \in Range(rows) : f.tool = t /\ f.ruleId = r
      BY <2>1, <2>2, <2>3, <2>5, <3>1
    <3>3. ASSUME NEW r PROVE r \in new(k) <=> r \in Range(Found[scanned][t])
      <4>1. ASSUME r \in new(k) PROVE r \in Range(Found[scanned][t])
        <5>1. PICK f \in Range(rows) : f.tool = t /\ f.ruleId = r
          BY <3>2, <4>1
        <5>2. PICK q \in Range(Found[scanned][t]) : f = [tool |-> t, ruleId |-> q]
          BY <1>3, <5>1
        <5> QED BY <5>1, <5>2
      <4>2. ASSUME r \in Range(Found[scanned][t]) PROVE r \in new(k)
        <5>1. [tool |-> t, ruleId |-> r] \in Range(rows)
          BY <1>3, <4>2
        <5> QED BY <3>2, <5>1
      <4> QED BY <4>1, <4>2
    <3> QED BY <2>5, <3>3
  <2>6. CASE Range(findings') = Range(findings) \cup Range(rows) /\ k # tool
    <3>1. \A f \in Range(rows) : f.tool # Tools[k]
      BY <1>1, <1>3, <2>6, ThreeTools DEF t
    <3> QED BY <2>1, <2>2, <2>6, <3>1, ZenonT(30)
  <2> QED BY <1>8, <2>4, <2>5, <2>6
<1>10. ASSUME NEW k \in 1..3
       PROVE  /\ new(k) \in
                    {{}, IF scanned = NoFile THEN {} ELSE Range(Found[scanned][Tools[k]])}
              /\ k >= tool' => new(k) = {}
  <2>1. old(k) \in {{}, IF scanned = NoFile THEN {} ELSE Range(Found[scanned][Tools[k]])}
    BY ThreeTools DEF Inv, Gathered
  <2>2. k >= tool => old(k) = {}
    BY <1>1, ThreeTools DEF Inv, Gathered
  <2> HIDE DEF old, new
  <2>3. CASE new(k) = old(k)
    BY <1>1, <2>1, <2>2, <2>3
  <2>4. CASE k = tool /\ new(k) = Range(Found[scanned][t])
    <3>1. Tools[k] = t /\ ~(k >= tool')
      BY <1>1, <2>4
    <3>2. new(k) = Range(Found[scanned][Tools[k]])
      BY <2>4, <3>1
    <3> QED BY <1>1, <3>1, <3>2
  <2> QED BY <1>9, <2>3, <2>4
<1>11. \A k \in 1..Len(Tools) :
          /\ RulesIn(findings', Tools[k]) \in
                {{}, IF scanned' = NoFile THEN {} ELSE Range(Found[scanned'][Tools[k]])}
          /\ pc' = "scan" /\ k >= tool' => RulesIn(findings', Tools[k]) = {}
  BY <1>1, <1>10, ThreeTools
<1> QED BY <1>1, <1>8, <1>11 DEF Gathered
-----------------------------------------------------------------------------
(* The steps.                                                                *)

LEMMA GenerateStep ==
  ASSUME Inv, Generate
  PROVE  Inv'
<1>1. /\ pc = "call" /\ calls < MaxCalls /\ exec = "idle" /\ exec' = "idle"
      /\ findings' = << >> /\ tool' = 1
      /\ UNCHANGED <<child, program, size, blank, pipe, buffer, pump, heir, scanned>>
  BY DEF Generate, Inv, Caller
<1>2. \/ pc' = "ended" /\ score' = "thrown" /\ calls' = calls + 1 /\ saved' = saved
      \/ pc' = "kubeval" /\ score' = "none" /\ calls' = calls /\ saved' \in Answers
  BY DEF Generate, Thrown
<1>3. ProcInv'
  BY <1>1, CallerMoves DEF Inv
<1>4. Typed'
  <2>1. tool' \in 1..Len(Tools) + 1
    BY <1>1, ThreeTools
  <2>2. calls' \in 0..MaxCalls
    BY <1>1, <1>2, MaxCallsAssumption DEF Inv, Typed
  <2> QED BY <1>1, <1>2, <2>1, <2>2 DEF Inv, Typed
<1>5. Caller'
  BY <1>1, <1>2 DEF Caller
<1>6. Gathered'
  <2>1. << >> \in Seq(Rows) /\ Distinct(<< >>) /\ Range(<< >>) = {}
    BY DEF Distinct, Range
  <2>2. \A k \in 1..Len(Tools) : RulesIn(<< >>, Tools[k]) = {}
    BY <2>1, RulesIs
  <2> QED BY <1>1, <1>2, <2>1, <2>2 DEF Gathered
<1> QED BY <1>3, <1>4, <1>5, <1>6 DEF Inv

LEMMA StartSteps ==
  ASSUME Inv, StartKubeval \/ StartTool
  PROVE  Inv'
<1>1. /\ exec = "idle" /\ UNCHANGED <<pc, tool, findings, score, saved, scanned, calls>>
      /\ pc \in {"kubeval", "again"} \/ (pc = "scan" /\ tool <= Len(Tools))
  BY DEF StartKubeval, StartTool, eval
<1>2. ProcInv' /\ exec' \in {"waiting", "failed"}
  <2>1. CASE StartKubeval
    <3>1. StartChild(Programs, [Streams -> BOOLEAN])
      BY <2>1 DEF StartKubeval
    <3> QED BY <1>1, <3>1, Started DEF Inv
  <2>2. CASE StartTool
    <3>1. /\ StartChild(ToolPrograms, ToolBlanks)
          /\ ToolPrograms \subseteq Programs /\ ToolBlanks \subseteq [Streams -> BOOLEAN]
      BY <2>2 DEF StartTool, ToolPrograms, ToolBlanks
    <3> QED BY <1>1, <3>1, Started DEF Inv
  <2> QED BY <2>1, <2>2
<1>3. Typed'
  BY <1>1 DEF Inv, Typed
<1>4. Caller'
  BY <1>1, <1>2 DEF Caller
<1>5. Gathered'
  BY <1>1, GatheredKept DEF Inv, Gathered
<1> QED BY <1>2, <1>3, <1>4, <1>5 DEF Inv

LEMMA JoinSteps ==
  ASSUME Inv, JoinKubeval \/ JoinTool
  PROVE  Inv'
<1>1. /\ UNCHANGED <<pc, tool, findings, score, saved, scanned, calls>>
      /\ UNCHANGED <<child, program, size, blank, pipe, buffer, pump, heir>>
      /\ \/ exec = "joinOut" /\ exec' = "joinErr"
         \/ exec = "joinErr" /\ exec' = "collected"
      /\ \/ pc = "scan"
         \/ /\ pc \in {"kubeval", "again"}
            /\ exec = "joinOut" => Over("out")
            /\ exec = "joinErr" => Over("err")
  BY DEF JoinKubeval, JoinTool, Join, eval
<1>2. ProcInv'
  BY <1>1, CallerMoves DEF Inv
<1>3. Typed'
  BY <1>1 DEF Inv, Typed
<1>4. Caller'
  BY <1>1 DEF Inv, Caller, Over
<1>5. Gathered'
  BY <1>1, GatheredKept DEF Inv, Gathered
<1> QED BY <1>2, <1>3, <1>4, <1>5 DEF Inv

LEMMA KubevalDoneStep ==
  ASSUME Inv, KubevalDone
  PROVE  Inv'
<1>1. /\ pc \in {"kubeval", "again"} /\ exec \in {"collected", "failed"} /\ exec' = "idle"
      /\ UNCHANGED <<child, program, size, blank, pipe, buffer, pump, heir>>
      /\ tool' = tool /\ findings' = findings /\ saved' = saved /\ scanned' = scanned
  BY DEF KubevalDone
<1>2. \/ pc' = "ended" /\ score' = "thrown" /\ calls' = calls + 1
      \/ pc' = "call" /\ score' = "zero" /\ calls' = calls + 1
      \/ /\ pc = "kubeval" /\ scanned # NoFile /\ pc' = "scan"
         /\ score' = score /\ calls' = calls
  <2>1. CASE pc = "again"
    BY <2>1 DEF KubevalDone, Thrown, Returned
  <2>2. CASE pc = "kubeval" /\ scanned = NoFile
    BY <2>2 DEF KubevalDone, Thrown, Returned
  <2>3. CASE pc = "kubeval" /\ scanned # NoFile
    BY <2>3 DEF KubevalDone, Thrown, Returned
  <2> QED BY <1>1, <2>1, <2>2, <2>3
<1>3. ProcInv'
  BY <1>1, CallerMoves DEF Inv
<1>4. Typed'
  <2>1. calls \in 0..MaxCalls /\ calls < MaxCalls
    BY <1>1 DEF Inv, Typed
  <2>2. calls' \in 0..MaxCalls
    BY <1>2, <2>1, MaxCallsAssumption
  <2> QED BY <1>1, <1>2, <2>1, <2>2 DEF Inv, Typed
<1>5. Caller'
  BY <1>1, <1>2 DEF Caller
<1>6. Gathered'
  <2>1. pc = "kubeval" => findings = << >>
    BY DEF Inv, Gathered
  <2>2. scanned \in Answers \cup {NoFile}
    BY DEF Inv, Typed
  <2> QED BY <1>1, <1>2, <2>1, <2>2, GatheredKept DEF Inv
<1> QED BY <1>3, <1>4, <1>5, <1>6 DEF Inv

LEMMA ToolDoneStep ==
  ASSUME Inv, ToolDone
  PROVE  Inv'
<1>1. /\ pc = "scan" /\ exec \in {"collected", "failed"} /\ exec' = "idle"
      /\ tool' = tool + 1 /\ UNCHANGED <<pc, score, saved, scanned, calls>>
      /\ UNCHANGED <<child, program, size, blank, pipe, buffer, pump, heir>>
  BY DEF ToolDone, eval
<1>2. ProcInv'
  BY <1>1, CallerMoves DEF Inv
<1>3. Typed'
  <2>1. tool \in 1..4 /\ tool <= 3
    BY <1>1, ThreeTools DEF Inv, Typed, Caller
  <2>2. tool' \in 1..Len(Tools) + 1
    BY <1>1, <2>1, ThreeTools
  <2> QED BY <1>1, <2>2 DEF Inv, Typed
<1>4. Caller'
  BY <1>1 DEF Caller
<1>5. Gathered'
  BY ToolDoneGathers
<1> QED BY <1>2, <1>3, <1>4, <1>5 DEF Inv

LEMMA AfterScanSteps ==
  ASSUME Inv, Scanned \/ WriteCorrected
  PROVE  Inv'
<1>1. /\ pc \in {"scan", "correct"} /\ exec = "idle" /\ exec' = exec
      /\ UNCHANGED <<child, program, size, blank, pipe, buffer, pump, heir>>
      /\ UNCHANGED <<tool, findings, saved, scanned>>
  BY DEF Scanned, WriteCorrected, proc, Inv, Caller
<1>2. \/ /\ pc' \in {"call", "ended"} /\ score' \in {"one", "thrown"} /\ calls' = calls + 1
      \/ /\ pc' \in {"correct", "again"} /\ score' = score /\ calls' = calls
  BY DEF Scanned, WriteCorrected, Returned, Thrown
<1>3. ProcInv'
  BY <1>1, CallerMoves DEF Inv
<1>4. Typed'
  <2>1. calls \in 0..MaxCalls /\ calls < MaxCalls
    BY <1>1 DEF Inv, Typed
  <2>2. calls' \in 0..MaxCalls
    BY <1>2, <2>1, MaxCallsAssumption
  <2> QED BY <1>1, <1>2, <2>1, <2>2 DEF Inv, Typed
<1>5. Caller'
  BY <1>1, <1>2 DEF Caller
<1>6. Gathered'
  <2>1. scanned \in Answers \ {NoFile}
    BY <1>1 DEF Inv, Gathered
  <2> QED BY <1>1, <1>2, <2>1, GatheredKept DEF Inv
<1> QED BY <1>3, <1>4, <1>5, <1>6 DEF Inv

LEMMA ProcessSteps ==
  ASSUME Inv, ProcessStep
  PROVE  Inv'
<1>1. UNCHANGED <<pc, tool, findings, score, saved, scanned, calls>>
  BY DEF ProcessStep, eval
<1>2. /\ ProcInv'
      /\ exec' = exec \/ (exec = "waiting" /\ exec' \in {"joinOut", "failed"})
      /\ \A t \in Streams : Over(t) => Over(t)'
  BY Moved DEF Inv, ProcessStep
<1>3. Typed'
  BY <1>1 DEF Inv, Typed
<1>4. Caller'
  BY <1>1, <1>2 DEF Inv, Caller, Streams
<1>5. Gathered'
  BY <1>1, GatheredKept DEF Inv, Gathered
<1> QED BY <1>2, <1>3, <1>4, <1>5 DEF Inv

LEMMA Starts == Init => Inv
<1> SUFFICES ASSUME Init PROVE Inv
  OBVIOUS
<1>1. ProcInv
  <2>1. \A s \in Streams : Count(s, << >>) = 0
    BY CountEmpty
  <2>2. << >> \in Seq(Streams)
    OBVIOUS
  <2>3. SubprocessTypeOK
    <3>1. 0 \in 0..Capacity /\ 0 \in Nat
      BY CapacityAssumption
    <3>2. Zero \in [Streams -> Nat] /\ Zero \in [Streams -> 0..Capacity]
      BY <3>1 DEF Zero
    <3> QED BY <2>2, <3>2 DEF Init, SubprocessInit, SubprocessTypeOK
  <2>4. Conserved
    BY <2>1 DEF Init, SubprocessInit, Conserved, Zero
  <2>5. Ends
    BY DEF Init, SubprocessInit, Ends
  <2> QED BY <2>3, <2>4, <2>5 DEF ProcInv
<1>2. Typed
  BY MaxCallsAssumption, ThreeTools DEF Init, Typed
<1>3. Caller
  BY DEF Init, SubprocessInit, Caller
<1>4. Gathered
  <2>1. << >> \in Seq(Rows) /\ Distinct(<< >>) /\ Range(<< >>) = {}
    BY DEF Distinct, Range
  <2>2. \A k \in 1..Len(Tools) : RulesIn(<< >>, Tools[k]) = {}
    BY <2>1, RulesIs
  <2> QED BY <2>1, <2>2 DEF Init, Gathered
<1> QED BY <1>1, <1>2, <1>3, <1>4 DEF Inv

LEMMA Steps == Inv /\ [Next]_vars => Inv'
<1> SUFFICES ASSUME Inv, [Next]_vars PROVE Inv'
  OBVIOUS
<1>1. CASE CallerStep
  BY <1>1, GenerateStep, StartSteps, JoinSteps, KubevalDoneStep, ToolDoneStep, AfterScanSteps
     DEF CallerStep
<1>2. CASE ProcessStep
  BY <1>2, ProcessSteps
<1>3. CASE UNCHANGED vars
  <2>1. /\ UNCHANGED <<child, program, size, blank, pipe, buffer, pump, heir, exec>>
        /\ UNCHANGED <<pc, tool, saved, scanned, findings, score, calls>>
    BY <1>3 DEF vars, proc
  <2>2. ProcInv'
    BY <2>1, CallerMoves DEF Inv
  <2>3. Typed' /\ Caller'
    BY <2>1 DEF Inv, Typed, Caller, Over
  <2>4. Gathered'
    BY <2>1, GatheredKept DEF Inv, Gathered
  <2> QED BY <2>2, <2>3, <2>4 DEF Inv
<1> QED BY <1>1, <1>2, <1>3 DEF Next

LEMMA Invariant == Spec => []Inv
BY Starts, Steps, PTL DEF Spec
-----------------------------------------------------------------------------
(* The theorems.                                                             *)

\* Every variable keeps its type, the pipes their limit, and between two calls
\* no child is running.
THEOREM TypeCorrect == Spec => []TypeOK
<1>1. ASSUME Inv PROVE TypeOK
  <2>1. \A i \in 1..Len(findings) : findings[i].tool \in Range(Tools)
    <3>1. \A i \in 1..Len(findings) : findings[i] \in Rows
      BY <1>1 DEF Inv, Gathered
    <3> QED BY <3>1 DEF Rows
  <2>2. pc = "call" => exec = "idle" /\ child # "running"
    BY <1>1 DEF Inv, Caller, ProcInv, Ends
  <2> QED BY <1>1, <2>1, <2>2 DEF Inv, ProcInv, Typed, TypeOK
<1> QED BY <1>1, Invariant, PTL

\* Whatever fails, is late or is cut short, a tool contributes all the rules it
\* found or none, and no rule twice.
THEOREM AllOrNone == Spec => []FindingsAllOrNone
<1>1. ASSUME Inv PROVE FindingsAllOrNone
  <2>1. \A i, j \in 1..Len(findings) : findings[i] = findings[j] => i = j
    BY <1>1 DEF Inv, Gathered, Distinct
  <2>2. ASSUME NEW t \in Range(Tools)
        PROVE  {f.ruleId : f \in {g \in Range(findings) : g.tool = t}}
                  \in {{}, IF scanned = NoFile THEN {} ELSE Range(Found[scanned][t])}
    <3>1. PICK k \in 1..Len(Tools) : t = Tools[k]
      BY <2>2, ThreeTools DEF Range
    <3>2. RulesIn(findings, t)
             \in {{}, IF scanned = NoFile THEN {} ELSE Range(Found[scanned][t])}
      BY <1>1, <3>1 DEF Inv, Gathered
    <3> QED BY <3>2 DEF RulesIn
  <2> QED BY <2>1, <2>2 DEF FindingsAllOrNone
<1> QED BY <1>1, Invariant, PTL

\* An answer is scanned only if kubeval had nothing but white space to say, or a
\* pump thread failed: otherwise what it wrote has reached the buffers by the time
\* the caller looks at them.
THEOREM NoComplaintLost == Spec => KubevalVerdict
<1> DEFINE Heard == \/ \A s \in Streams : size[s] = 0 \/ blank[s]
                    \/ \E s \in Streams : pump[s] = "broken"
<1>1. ASSUME Inv, [Next]_vars, pc = "kubeval", pc' = "scan" PROVE Heard
  <2> SUFFICES ASSUME Sound, NEW s \in Streams PROVE size[s] = 0 \/ blank[s]
    BY DEF Sound
  <2>1. KubevalDone
    BY <1>1 DEF Next, CallerStep, ProcessStep, Generate, StartKubeval, JoinKubeval, StartTool,
                JoinTool, ToolDone, Scanned, WriteCorrected, vars
  <2>2. exec = "collected" /\ MayBeBlank(s)
    BY <1>1, <2>1 DEF KubevalDone, Thrown, Returned
  <2>3. pump["out"] = "ended" /\ pump["err"] = "ended"
    BY <1>1, <2>2 DEF Inv, Caller, Over, Sound, Streams
  <2>4. pipe[s] = 0 /\ program = << >>
    BY <1>1, <2>2, <2>3 DEF Inv, ProcInv, Ends, Streams
  <2>5. Complete(s)
    <3>1. size[s] = buffer[s] + pipe[s] + Count(s, program)
      BY <1>1 DEF Inv, ProcInv, Conserved
    <3>2. Count(s, program) = 0
      BY <2>4, CountEmpty
    <3>3. buffer[s] \in Nat
      BY <1>1 DEF Inv, ProcInv, SubprocessTypeOK
    <3> QED BY <2>4, <3>1, <3>2, <3>3 DEF Complete
  <2> QED BY <2>2, <2>5 DEF MayBeBlank, Blank, Complete
<1>2. Inv /\ [Next]_vars => [pc = "kubeval" /\ pc' = "scan" => Heard]_vars
  BY <1>1
<1> QED BY <1>2, Invariant, PTL DEF Spec, KubevalVerdict
=============================================================================
