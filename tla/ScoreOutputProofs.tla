-------------------------- MODULE ScoreOutputProofs ---------------------------
(* Proofs about kube-score's scoring and its command, for any objects, checks, *)
(* annotations, flags and outputs:                                             *)
(*   TypeCorrect       OutputSpec => []TypeOK                                  *)
(*   ResultsComplete   OutputSpec => []ResultsExact                            *)
(*   NearestStatement  OutputSpec => []NearestStatementWins                    *)
(*   CleanExit         OutputSpec => []CleanExitComplete                       *)
(*   VerdictTold       OutputSpec => []ReportTellsVerdict                      *)
(* The invariant says which results there are in the course of the loops       *)
(* (Expected, Present, Once), what each one's Skipped flag means (Judged),      *)
(* what is over at each progress of the command (Ended) and which card a report *)
(* is of (Printed).                                                            *)
EXTENDS ScoreOutput, SequenceTheorems, TLAPS

\* The card is a sequence of results for each key, of objects with that key.
Filed ==
    /\ DOMAIN card \subseteq Refs
    /\ card \in [DOMAIN card -> Seq(Results)]
    /\ \A r \in DOMAIN card : \A n \in DOMAIN card[r] : Objects[card[r][n].obj].ref = r

\* The step whose checks are pending, and its object is on the card.
Current ==
    pending # {} => /\ at \in Work \ todo
                    /\ pending \subseteq Registered(Kinds[at[1]])
                    /\ Objects[at[2]].ref \in DOMAIN card

\* Every result is of a step that was reached, for a check of its loop that is
\* not pending any more.
Expected ==
    \A x \in All :
        /\ <<x.kind, x.obj>> \in Work \ todo
        /\ \E c \in Registered(Kinds[x.kind]) :
              /\ c.id = x.check
              /\ ~(at = <<x.kind, x.obj>> /\ c \in pending)

\* Unless an error ended the run, there is a result for every check that is not.
Present ==
    progress # "over" \/ exit = "zero" =>
        \A w \in Work \ todo : \A c \in Registered(Kinds[w[1]]) :
            \/ at = w /\ c \in pending
            \/ \E x \in All : x.obj = w[2] /\ x.kind = w[1] /\ x.check = c.id

SameKey(x, y) == x.obj = y.obj /\ x.kind = y.kind /\ x.check = y.check

Once == \A r \in DOMAIN card : \A m, n \in DOMAIN card[r] :
            SameKey(card[r][m], card[r][n]) => m = n

\* isEnabled, for the check c of a result x.
EnabledFor(x, c) == IsEnabled(c, ann[x.obj], Child(<<x.kind, x.obj>>))

\* A disabled check's result is skipped; another one only if it skipped itself.
SkippedAsAsked(x, c) ==
    /\ ~EnabledFor(x, c) => x.skipped
    /\ x.grade \notin {0, 10} => (x.skipped <=> ~EnabledFor(x, c))

Judged == \A x \in All :
            /\ x.grade = 0 => x.skipped
            /\ \A c \in Checks : c.id = x.check => SkippedAsAsked(x, c)

Over == todo = {} /\ pending = {} /\ exit = ExitCode

Ended ==
    /\ progress \in {"flags", "scoring", "scored", "over"}
    /\ progress \in {"flags", "scoring"} => exit = "none"
    /\ progress = "flags" => todo = Work
    /\ progress = "scored" => Over
    /\ progress = "over" => /\ exit # "none"
                            /\ exit = "zero" /\ todo # Work => report.format \in Formats /\ Over

\* A report in one of the formats is of the card as it is, in an output there is.
Printed ==
    report.format \in Formats =>
        progress = "over" /\ Over /\ \E o \in Outputs : report \in Reports(o)

Inv == /\ TypeOK /\ Filed /\ Current /\ Expected /\ Present /\ Once /\ Judged
       /\ Ended /\ Printed
-----------------------------------------------------------------------------
(* The card.                                                                 *)

LEMMA InAll ==
  ASSUME NEW x
  PROVE  x \in All <=> \E r \in DOMAIN card : \E n \in DOMAIN card[r] : x = card[r][n]
BY DEF All

\* A result that is added is the last of its object's, and nothing else changes.
LEMMA Added ==
  ASSUME Filed, NEW ref \in DOMAIN card, NEW x \in Results,
         card' = [card EXCEPT ![ref] = Append(card[ref], x)]
  PROVE  /\ DOMAIN card' = DOMAIN card
         /\ card' \in [DOMAIN card -> Seq(Results)]
         /\ \A r \in DOMAIN card \ {ref} : card'[r] = card[r]
         /\ DOMAIN card'[ref] = DOMAIN card[ref] \cup {Len(card[ref]) + 1}
         /\ Len(card[ref]) + 1 \notin DOMAIN card[ref]
         /\ card'[ref][Len(card[ref]) + 1] = x
         /\ \A n \in DOMAIN card[ref] : card'[ref][n] = card[ref][n]
         /\ All' = All \cup {x}
<1>1. card[ref] \in Seq(Results)
  BY DEF Filed
<1>2. card'[ref] = Append(card[ref], x) /\ DOMAIN card' = DOMAIN card
  BY DEF Filed
<1>3. \A r \in DOMAIN card \ {ref} : card'[r] = card[r]
  BY DEF Filed
<1>4. card' \in [DOMAIN card -> Seq(Results)]
  BY <1>1 DEF Filed
<1>5. /\ DOMAIN card'[ref] = DOMAIN card[ref] \cup {Len(card[ref]) + 1}
      /\ Len(card[ref]) + 1 \notin DOMAIN card[ref]
      /\ card'[ref][Len(card[ref]) + 1] = x
      /\ \A n \in DOMAIN card[ref] : card'[ref][n] = card[ref][n]
  BY <1>1, <1>2
<1>6. ASSUME NEW y PROVE y \in All' <=> y \in All \/ y = x
  <2>1. y \in All' <=> \E r \in DOMAIN card' : \E n \in DOMAIN card'[r] : y = card'[r][n]
    BY DEF All
  <2>2. y \in All' => y \in All \/ y = x
    BY <1>2, <1>3, <1>5, <2>1, InAll
  <2>3. ASSUME y \in All PROVE y \in All'
    <3>0. PICK r \in DOMAIN card : \E n \in DOMAIN card[r] : y = card[r][n]
      BY <2>3, InAll
    <3>1. PICK n \in DOMAIN card[r] : y = card[r][n]
      BY <3>0
    <3>2. n \in DOMAIN card'[r] /\ y = card'[r][n]
      BY <1>3, <1>5, <3>1
    <3> QED BY <1>2, <2>1, <3>2
  <2>4. y = x => y \in All'
    BY <1>2, <1>5, <2>1
  <2> QED BY <2>2, <2>3, <2>4
<1> QED BY <1>2, <1>3, <1>4, <1>5, <1>6

\* An object that is visited is on the card, without a new result.
LEMMA Visited ==
  ASSUME Filed, NEW ref \in Refs, card' = NewObject(ref)
  PROVE  /\ DOMAIN card' = DOMAIN card \cup {ref}
         /\ card' \in [DOMAIN card' -> Seq(Results)]
         /\ \A r \in DOMAIN card' :
               card'[r] = IF r \in DOMAIN card THEN card[r] ELSE << >>
         /\ All' = All
<1>1. DOMAIN card' = DOMAIN card \cup {ref}
  BY DEF NewObject
<1>2. \A r \in DOMAIN card' : card'[r] = IF r \in DOMAIN card THEN card[r] ELSE << >>
  BY <1>1 DEF NewObject
<1>3. << >> \in Seq(Results) /\ DOMAIN << >> = {}
  OBVIOUS
<1>4. card' \in [DOMAIN card' -> Seq(Results)]
  BY <1>1, <1>2, <1>3 DEF Filed, NewObject
<1>5. ASSUME NEW y PROVE y \in All' <=> y \in All
  <2>1. y \in All' <=> \E r \in DOMAIN card' : \E n \in DOMAIN card'[r] : y = card'[r][n]
    BY DEF All
  <2> QED BY <1>1, <1>2, <1>3, <2>1, InAll
<1> QED BY <1>1, <1>2, <1>4, <1>5
-----------------------------------------------------------------------------
(* The steps.                                                                *)

input == <<cnf, ann, template>>

\* A step of the loops is a loop and an object.
LEMMA WorkPairs ==
  ASSUME NEW w \in Work
  PROVE  /\ w[1] \in DOMAIN Kinds /\ w[2] \in DOMAIN Objects /\ w = <<w[1], w[2]>>
         /\ Objects[w[2]].ref \in Refs
BY DEF Work, Refs

\* What a check that runs does: it adds one result for the current object, with
\* the flag isEnabled asks for if it graded, or it ends the run.
LEMMA Ran ==
  ASSUME TypeOK, Filed, Current, RunCheck
  PROVE  /\ exit = "none" /\ UNCHANGED <<input, todo, at>>
         /\ \E c \in pending :
              /\ pending' = pending \ {c}
              /\ \/ /\ exit' = "none"
                    /\ \E x \in Results :
                          /\ x.obj = at[2] /\ x.kind = at[1] /\ x.check = c.id
                          /\ x.grade = 0 => x.skipped
                          /\ SkippedAsAsked(x, c)
                          /\ card' = [card EXCEPT ![Objects[at[2]].ref] =
                                         Append(card[Objects[at[2]].ref], x)]
                 \/ exit' = "one" /\ card' = card
<1>1. exit = "none" /\ UNCHANGED <<input, todo, at>>
  BY DEF RunCheck, input
<1>2. PICK c \in pending :
        /\ pending' = pending \ {c}
        /\ \/ /\ \E result \in Findings :
                    card' = [card EXCEPT ![Objects[at[2]].ref] = Add(c, result[1], result[2])]
              /\ UNCHANGED exit
           \/ exit' = "one" /\ UNCHANGED card
  BY DEF RunCheck
<1>3. CASE exit' = "one" /\ UNCHANGED card
  BY <1>1, <1>2, <1>3
<1>4. CASE /\ \E result \in Findings :
                 card' = [card EXCEPT ![Objects[at[2]].ref] = Add(c, result[1], result[2])]
           /\ UNCHANGED exit
  <2>1. PICK result \in Findings :
          card' = [card EXCEPT ![Objects[at[2]].ref] = Add(c, result[1], result[2])]
    BY <1>4
  <2>2. /\ result[1] \in Grades /\ result[2] \in BOOLEAN
        /\ result[1] \notin {0, 10} => result[2] = FALSE
        /\ result[1] = 0 => result[2] = TRUE
    <3>1. CASE result = <<0, TRUE>>
      BY <3>1 DEF Grades
    <3>2. CASE result = <<10, TRUE>>
      BY <3>2 DEF Grades
    <3>3. CASE \E g \in Grades \ {0} : result = <<g, FALSE>>
      BY <3>3 DEF Grades
    <3> QED BY <2>1, <3>1, <3>2, <3>3 DEF Findings
  <2> DEFINE off == ~IsEnabled(c, ann[at[2]], Child(at))
             x == [obj |-> at[2], kind |-> at[1], check |-> c.id,
                   grade |-> result[1], skipped |-> result[2] \/ off]
  <2>3. at[2] \in DOMAIN Objects /\ at[1] \in DOMAIN Kinds /\ c.id \in Ids
    BY <1>2, WorkPairs DEF Current, Ids, TypeOK
  <2>4. x \in Results
    BY <2>2, <2>3 DEF Results
  <2>5. card' = [card EXCEPT ![Objects[at[2]].ref] = Append(card[Objects[at[2]].ref], x)]
    BY <2>1 DEF Add
  <2>6. x.obj = at[2] /\ x.kind = at[1] /\ x.check = c.id /\ at = <<at[1], at[2]>>
    BY WorkPairs DEF Current
  <2>7. /\ x.grade = 0 => x.skipped
        /\ SkippedAsAsked(x, c)
    BY <2>2, <2>6 DEF EnabledFor, SkippedAsAsked
  <2> QED BY <1>1, <1>2, <1>4, <2>4, <2>5, <2>6, <2>7
<1> QED BY <1>1, <1>2, <1>3, <1>4

\* What the command reads does not change.
LEMMA InputKept ==
  ASSUME UNCHANGED input
  PROVE  /\ \A kind : Registered(kind)' = Registered(kind)
         /\ \A x, c : EnabledFor(x, c)' <=> EnabledFor(x, c)
<1>1. \A kind : Registered(kind)' = Registered(kind)
  BY DEF input, Registered
<1>2. \A x, c : EnabledFor(x, c)' <=> EnabledFor(x, c)
  BY DEF input, EnabledFor, IsEnabled, IsIn, Child
<1> QED BY <1>1, <1>2

LEMMA RunCheckStep ==
  ASSUME Inv, progress = "scoring", RunCheck, UNCHANGED report,
         progress' = IF exit' = "none" THEN "scoring" ELSE "over"
  PROVE  Inv'
<1> USE DEF Inv
<1>1. exit = "none" /\ UNCHANGED <<input, todo, at>>
  BY Ran
<1>2. PICK c \in pending :
        /\ pending' = pending \ {c}
        /\ \/ /\ exit' = "none"
              /\ \E x \in Results :
                    /\ x.obj = at[2] /\ x.kind = at[1] /\ x.check = c.id
                    /\ x.grade = 0 => x.skipped
                    /\ SkippedAsAsked(x, c)
                    /\ card' = [card EXCEPT ![Objects[at[2]].ref] =
                                   Append(card[Objects[at[2]].ref], x)]
           \/ exit' = "one" /\ card' = card
  BY Ran
<1>3. /\ at \in Work \ todo /\ pending \subseteq Registered(Kinds[at[1]])
      /\ Objects[at[2]].ref \in DOMAIN card /\ at = <<at[1], at[2]>>
      /\ c \in Checks
  BY <1>2, WorkPairs DEF Current, Registered
<1>4. /\ \A kind : Registered(kind)' = Registered(kind)
      /\ \A x, d : EnabledFor(x, d)' <=> EnabledFor(x, d)
  BY <1>1, InputKept
<1>5. /\ cnf' = cnf /\ ann' = ann /\ template' = template
      /\ todo' = todo /\ at' = at /\ pending' \subseteq pending
  BY <1>1, <1>2 DEF input
<1>6. CASE exit' = "one" /\ card' = card
  <2>1. All' = All /\ progress' = "over"
    BY <1>6 DEF All
  <2>2. TypeOK'
    BY <1>5, <1>6 DEF TypeOK
  <2>3. Filed' /\ Once'
    BY <1>6 DEF Filed, Once, SameKey
  <2>4. Current'
    BY <1>4, <1>5, <1>6 DEF Current
  <2>5. Expected'
    BY <1>4, <1>5, <2>1 DEF Expected
  <2>6. Judged'
    BY <1>4, <2>1 DEF Judged, SkippedAsAsked
  <2>7. Present' /\ Ended'
    BY <1>6, <2>1 DEF Present, Ended
  <2>8. Printed'
    BY DEF Printed
  <2> QED BY <2>2, <2>3, <2>4, <2>5, <2>6, <2>7, <2>8
<1>7. ASSUME exit' = "none",
             NEW x \in Results, x.obj = at[2], x.kind = at[1], x.check = c.id,
             x.grade = 0 => x.skipped, SkippedAsAsked(x, c),
             card' = [card EXCEPT ![Objects[at[2]].ref] = Append(card[Objects[at[2]].ref], x)]
      PROVE  Inv'
  <2> DEFINE ref == Objects[at[2]].ref
             last == Len(card[ref]) + 1
  <2>1. /\ DOMAIN card' = DOMAIN card /\ card' \in [DOMAIN card -> Seq(Results)]
        /\ \A r \in DOMAIN card \ {ref} : card'[r] = card[r]
        /\ DOMAIN card'[ref] = DOMAIN card[ref] \cup {last} /\ last \notin DOMAIN card[ref]
        /\ card'[ref][last] = x
        /\ \A n \in DOMAIN card[ref] : card'[ref][n] = card[ref][n]
        /\ All' = All \cup {x}
    BY <1>3, <1>7, Added
  <2> HIDE DEF last
  <2>2. progress' = "scoring"
    BY <1>7
  <2>3. \A r \in DOMAIN card' : \A n \in DOMAIN card'[r] :
           \/ n \in DOMAIN card[r] /\ card'[r][n] = card[r][n]
           \/ r = ref /\ n = last /\ card'[r][n] = x
    BY <2>1
  <2>4. \A r \in DOMAIN card' : \A n \in DOMAIN card'[r] :
           card'[r][n] \in Results /\ Objects[card'[r][n].obj].ref = r
    <3>1. Objects[x.obj].ref = ref
      BY <1>7
    <3>2. \A r \in DOMAIN card : \A n \in DOMAIN card[r] :
             card[r][n] \in Results /\ Objects[card[r][n].obj].ref = r
      BY DEF TypeOK
    <3>3. x \in Results /\ DOMAIN card' = DOMAIN card
      BY <1>7, <2>1
    <3> HIDE DEF ref
    <3> QED BY <2>3, <3>1, <3>2, <3>3, ZenonT(30)
  <2>5. TypeOK'
    BY <1>5, <1>7, <2>1, <2>4 DEF TypeOK
  <2>6. Filed'
    BY <2>1, <2>4 DEF Filed
  <2>7. Current'
    BY <1>4, <1>5, <2>1 DEF Current
  <2>8. \A d \in Checks : d.id = c.id => d = c
    BY <1>3, IdAssumption
  <2>9. Expected'
    <3>1. ASSUME NEW y \in All'
          PROVE  /\ <<y.kind, y.obj>> \in Work \ todo
                 /\ \E d \in Registered(Kinds[y.kind]) :
                       d.id = y.check /\ ~(at = <<y.kind, y.obj>> /\ d \in pending')
      <4>1. CASE y = x
        BY <1>2, <1>3, <1>7, <4>1
      <4>2. CASE y \in All
        <5>1. <<y.kind, y.obj>> \in Work \ todo
          BY <4>2 DEF Expected
        <5>2. PICK d \in Registered(Kinds[y.kind]) :
                d.id = y.check /\ ~(at = <<y.kind, y.obj>> /\ d \in pending)
          BY <4>2 DEF Expected
        <5> QED BY <1>5, <5>1, <5>2
      <4> QED BY <2>1, <4>1, <4>2
    <3> QED BY <1>4, <1>5, <3>1 DEF Expected
  <2>10. Present'
    <3> SUFFICES ASSUME NEW w \in Work \ todo, NEW d \in Registered(Kinds[w[1]])
                 PROVE  \/ at = w /\ d \in pending'
                        \/ \E y \in All' : y.obj = w[2] /\ y.kind = w[1] /\ y.check = d.id
      BY <1>4, <1>5 DEF Present
    <3>1. CASE at = w /\ d \in pending
      <4>1. CASE d = c
        <5>1. x \in All' /\ x.obj = w[2] /\ x.kind = w[1] /\ x.check = d.id
          BY <1>7, <2>1, <3>1, <4>1
        <5> QED BY <5>1
      <4>2. CASE d # c
        <5>1. d \in pending'
          BY <1>2, <3>1, <4>2
        <5> QED BY <3>1, <5>1
      <4> QED BY <4>1, <4>2
    <3>2. CASE \E y \in All : y.obj = w[2] /\ y.kind = w[1] /\ y.check = d.id
      BY <2>1, <3>2
    <3> QED BY <3>1, <3>2 DEF Present
  <2>11. Once'
    <3>1. ASSUME NEW n \in DOMAIN card[ref], SameKey(card[ref][n], x)
          PROVE  FALSE
      <4> DEFINE y == card[ref][n]
      <4>1. y \in All
        BY <1>3, InAll
      <4>2. y.kind = at[1] /\ y.obj = at[2] /\ y.check = c.id
        BY <1>7, <3>1 DEF SameKey
      <4> HIDE DEF y
      <4>3. PICK d \in Registered(Kinds[y.kind]) :
              d.id = y.check /\ ~(at = <<y.kind, y.obj>> /\ d \in pending)
        BY <4>1 DEF Expected
      <4>4. d = c
        BY <2>8, <4>2, <4>3 DEF Registered
      <4> QED BY <1>2, <1>3, <4>2, <4>3, <4>4
    <3>2. \A n \in DOMAIN card[ref] : ~SameKey(x, card[ref][n]) /\ ~SameKey(card[ref][n], x)
      BY <3>1 DEF SameKey
    <3>3. ASSUME NEW r \in DOMAIN card', NEW m \in DOMAIN card'[r], NEW n \in DOMAIN card'[r],
                 SameKey(card'[r][m], card'[r][n])
          PROVE  m = n
      BY <2>1, <2>3, <3>2, <3>3 DEF Once
    <3> QED BY <3>3 DEF Once, SameKey
  <2>12. Judged'
    BY <1>4, <1>7, <2>1, <2>8 DEF Judged, SkippedAsAsked
  <2>13. Ended' /\ Printed'
    BY <1>7, <2>2 DEF Ended, Printed
  <2> QED BY <2>5, <2>6, <2>7, <2>9, <2>10, <2>11, <2>12, <2>13
<1> QED BY <1>2, <1>6, <1>7

LEMMA VisitStep ==
  ASSUME Inv, progress = "scoring", Visit, UNCHANGED <<progress, report>>
  PROVE  Inv'
<1> USE DEF Inv
<1>1. /\ exit = "none" /\ pending = {} /\ UNCHANGED input /\ exit' = exit
      /\ cnf' = cnf /\ ann' = ann /\ template' = template
  BY DEF Visit, input
<1>2. PICK w \in todo : /\ at' = w /\ todo' = todo \ {w}
                        /\ pending' = Registered(Kinds[w[1]])
                        /\ card' = NewObject(Objects[w[2]].ref)
  BY DEF Visit
<1>3. /\ w \in Work /\ w[1] \in DOMAIN Kinds /\ w[2] \in DOMAIN Objects
      /\ w = <<w[1], w[2]>> /\ Objects[w[2]].ref \in Refs
  BY <1>2, WorkPairs DEF TypeOK
<1> DEFINE ref == Objects[w[2]].ref
<1>4. /\ DOMAIN card' = DOMAIN card \cup {ref}
      /\ card' \in [DOMAIN card' -> Seq(Results)]
      /\ \A r \in DOMAIN card' : card'[r] = IF r \in DOMAIN card THEN card[r] ELSE << >>
      /\ All' = All
  BY <1>2, <1>3, Visited
<1>5. \A r \in DOMAIN card' : \A n \in DOMAIN card'[r] :
         r \in DOMAIN card /\ n \in DOMAIN card[r] /\ card'[r] = card[r]
  BY <1>4
<1>6. /\ \A kind : Registered(kind)' = Registered(kind)
      /\ \A x, d : EnabledFor(x, d)' <=> EnabledFor(x, d)
  BY <1>1, InputKept
<1>7. \A v \in Work \ todo' : v \in Work \ todo \/ v = w
  BY <1>2
<1>8. TypeOK'
  <2>1. at' \in Work /\ todo' \subseteq Work /\ pending' \subseteq Checks
    BY <1>2, <1>3 DEF TypeOK, Registered
  <2>2. /\ DOMAIN card' \subseteq Refs
        /\ \A r \in DOMAIN card' : \A n \in DOMAIN card'[r] :
              card'[r][n] \in Results /\ Objects[card'[r][n].obj].ref = r
    BY <1>3, <1>4, <1>5 DEF TypeOK
  <2> QED BY <1>1, <2>1, <2>2 DEF TypeOK
<1>9. Filed'
  BY <1>3, <1>4, <1>5 DEF Filed
<1>10. Current'
  BY <1>2, <1>3, <1>4, <1>6 DEF Current
<1>11. Expected'
  <2>1. ASSUME NEW x \in All
        PROVE  /\ <<x.kind, x.obj>> \in Work \ todo'
               /\ \E c \in Registered(Kinds[x.kind]) :
                     c.id = x.check /\ ~(at' = <<x.kind, x.obj>> /\ c \in pending')
    BY <1>2, <2>1 DEF Expected
  <2> QED BY <1>4, <1>6, <2>1 DEF Expected
<1>12. Present'
  <2>1. ASSUME NEW v \in Work \ todo', NEW c \in Registered(Kinds[v[1]])
        PROVE  \/ at' = v /\ c \in pending'
               \/ \E x \in All : x.obj = v[2] /\ x.kind = v[1] /\ x.check = c.id
    BY <1>1, <1>2, <1>7, <2>1 DEF Present
  <2> QED BY <1>4, <1>6, <2>1 DEF Present
<1>13. Once'
  BY <1>5 DEF Once, SameKey
<1>14. Judged'
  BY <1>4, <1>6 DEF Judged, SkippedAsAsked
<1>15. Ended' /\ Printed'
  BY <1>1 DEF Ended, Printed
<1> QED BY <1>8, <1>9, <1>10, <1>11, <1>12, <1>13, <1>14, <1>15

\* When nothing the invariant looks at changes but where the command is.
LEMMA Rest ==
  ASSUME Inv, UNCHANGED <<cnf, ann, template, todo, at, pending, card>>,
         exit' \in {"none", "zero", "one", "two"},
         todo = Work \/ progress # "over" \/ exit' = exit, progress = "over" => progress' = "over",
         Ended', Printed'
  PROVE  Inv'
<1> USE DEF Inv
<1>1. UNCHANGED input /\ All' = All
  BY DEF input, All
<1>2. /\ \A kind : Registered(kind)' = Registered(kind)
      /\ \A x, d : EnabledFor(x, d)' <=> EnabledFor(x, d)
  BY <1>1, InputKept
<1>3. TypeOK'
  BY DEF TypeOK
<1>4. Filed' /\ Once'
  BY DEF Filed, Once, SameKey
<1>5. Current' /\ Judged'
  BY <1>1, <1>2 DEF Current, Judged, SkippedAsAsked
<1>6. Expected'
  BY <1>1, <1>2 DEF Expected
<1>7. Present'
  BY <1>1, <1>2 DEF Present
<1> QED BY <1>3, <1>4, <1>5, <1>6, <1>7

LEMMA FinishStep ==
  ASSUME Inv, progress = "scoring", Finish, progress' = "scored", UNCHANGED report
  PROVE  Inv'
<1>1. /\ UNCHANGED <<cnf, ann, template, todo, at, pending, card>>
      /\ todo = {} /\ pending = {} /\ exit' = ExitCode
  BY DEF Finish
<1>2. ExitCode' = ExitCode
  BY <1>1 DEF ExitCode, AnyBelowOrEqualToGrade
<1>3. ExitCode \in {"zero", "one"}
  BY DEF ExitCode
<1>4. Ended'
  BY <1>1, <1>2 DEF Ended, Over
<1>5. Printed'
  BY DEF Inv, Printed
<1> QED BY <1>1, <1>3, <1>4, <1>5, Rest

\* A report depends on the card only.
LEMMA ReportsKept ==
  ASSUME card' = card, NEW o
  PROVE  Reports(o)' = Reports(o)
<1>1. CompleteEntries' = CompleteEntries /\ CIEntries' = CIEntries
  BY DEF CompleteEntries, CIEntries, ResultsOf
<1>2. HumanHeads' = HumanHeads /\ JUnitEntries' = JUnitEntries
  BY DEF HumanHeads, JUnitEntries, ResultsOf
<1>3. Bares' = Bares
  BY DEF Bares, ResultsOf
<1>4. \A bare : SarifEntries(bare)' = SarifEntries(bare)
  BY DEF SarifEntries, ResultsOf
<1>5. HumanEntries(o.verbose)' = HumanEntries(o.verbose)
  BY <1>1 DEF HumanEntries
<1> QED BY <1>1, <1>2, <1>3, <1>4, <1>5 DEF Reports

LEMMA CommandSteps ==
  ASSUME Inv, Main \/ Refuse \/ PrintCard
  PROVE  Inv'
<1>1. CASE Main
  <2>1. PICK plugin \in BOOLEAN, first \in Commands \cup {"file", "none"},
             flags \in {"none", "help", "unknown"} :
          LET command == CommandOf(plugin, first)
          IN  /\ progress' = IF command = "score" THEN "scoring" ELSE "over"
              /\ exit' = CASE command = "score" -> exit
                           [] command = "help"  -> "one"
                           [] command = "list" /\ flags = "unknown" -> "two"
                           [] OTHER             -> "zero"
              /\ report' = IF command = "list" /\ flags = "none" THEN ListChecks ELSE report
    BY <1>1 DEF Main
  <2>2. /\ progress = "flags" /\ todo = Work /\ exit = "none"
        /\ UNCHANGED <<cnf, ann, template, todo, at, pending, card>>
    BY <1>1 DEF Main, Inv, Ended
  <2>3. \/ progress' = "scoring" /\ exit' = "none"
        \/ progress' = "over" /\ exit' \in {"one", "zero", "two"}
    BY <2>1, <2>2
  <2>4. Ended'
    BY <2>2, <2>3 DEF Ended
  <2>5. report'.format \notin Formats
    BY <2>1, <2>2 DEF Inv, Printed, ListChecks, Formats
  <2> QED BY <2>2, <2>3, <2>4, <2>5, Rest DEF Printed
<1>2. CASE Refuse
  <2>1. /\ progress = "scoring" /\ todo = Work /\ progress' = "over"
        /\ exit' \in {"zero", "one", "two"}
        /\ UNCHANGED <<cnf, ann, template, todo, at, pending, card, report>>
    BY <1>2 DEF Refuse
  <2>2. Ended' /\ Printed'
    BY <2>1 DEF Ended, Inv, Printed
  <2> QED BY <2>1, <2>2, Rest
<1>3. CASE PrintCard
  <2>1. /\ progress = "scored" /\ progress' = "over"
        /\ UNCHANGED <<cnf, ann, template, todo, at, pending, card>>
    BY <1>3 DEF PrintCard
  <2>2. PICK o \in Outputs : IF Known(o) THEN report' \in Reports(o) /\ UNCHANGED exit
                             ELSE exit' = "one" /\ UNCHANGED report
    BY <1>3 DEF PrintCard
  <2>3. Over /\ ExitCode \in {"zero", "one"}
    BY <2>1 DEF Inv, Ended, ExitCode
  <2>4. (exit' = exit /\ report'.format \in Formats) \/ exit' = "one"
    <3>1. o.format \in Formats
      BY OutputAssumption
    <3>2. ASSUME report' \in Reports(o) PROVE report'.format \in Formats
      BY <3>1, <3>2 DEF Reports, Formats
    <3> QED BY <2>2, <3>2
  <2>5. ExitCode' = ExitCode
    BY <2>1 DEF ExitCode, AnyBelowOrEqualToGrade
  <2>6. Ended'
    BY <2>1, <2>3, <2>4, <2>5 DEF Ended, Over
  <2>7. Reports(o)' = Reports(o)
    BY <2>1, ReportsKept
  <2>8. (report' \in Reports(o) /\ exit' = exit) \/ report'.format \notin Formats
    BY <2>1, <2>2 DEF Inv, Printed
  <2>9. Printed'
    BY <2>1, <2>3, <2>5, <2>7, <2>8 DEF Printed, Over
  <2> QED BY <2>1, <2>3, <2>4, <2>6, <2>9, Rest DEF Over
<1> QED BY <1>1, <1>2, <1>3

LEMMA Starts == OutputInit => Inv
<1> SUFFICES ASSUME OutputInit PROVE Inv
  OBVIOUS
<1>1. todo = Work /\ pending = {} /\ exit = "none" /\ progress = "flags" /\ DOMAIN card = {}
  BY DEF OutputInit, Init
<1>2. All = {}
  BY <1>1 DEF All
<1>3. TypeOK
  BY <1>1 DEF OutputInit, Init, TypeOK
<1>4. Filed
  BY <1>1 DEF OutputInit, Init, Filed
<1> QED BY <1>1, <1>2, <1>3, <1>4
        DEF Inv, Current, Expected, Present, Once, Judged, Ended, Printed, OutputInit, NoReport,
            Formats

LEMMA Steps == Inv /\ [OutputNext]_allVars => Inv'
<1> SUFFICES ASSUME Inv, [OutputNext]_allVars PROVE Inv'
  OBVIOUS
<1>1. CASE Scoring
  <2>1. CASE Visit /\ UNCHANGED progress
    BY <1>1, <2>1, VisitStep DEF Scoring
  <2>2. CASE RunCheck /\ progress' = IF exit' = "none" THEN "scoring" ELSE "over"
    BY <1>1, <2>2, RunCheckStep DEF Scoring
  <2>3. CASE Finish /\ progress' = "scored"
    BY <1>1, <2>3, FinishStep DEF Scoring
  <2> QED BY <1>1, <2>1, <2>2, <2>3 DEF Scoring
<1>2. CASE Main \/ Refuse \/ PrintCard
  BY <1>2, CommandSteps
<1>3. CASE UNCHANGED allVars
  <2>1. UNCHANGED <<cnf, ann, template, todo, at, pending, card, exit, progress, report>>
    BY <1>3 DEF allVars, vars
  <2>2. ExitCode' = ExitCode
    BY <2>1 DEF ExitCode, AnyBelowOrEqualToGrade
  <2>3. Ended'
    BY <2>1, <2>2 DEF Inv, Ended, Over
  <2>4. exit \in {"none", "zero", "one", "two"}
    BY DEF Inv, TypeOK
  <2>5. \A o : Reports(o)' = Reports(o)
    BY <2>1, ReportsKept
  <2>6. Printed'
    BY <2>1, <2>2, <2>5 DEF Inv, Printed, Over
  <2> QED BY <2>1, <2>3, <2>4, <2>6, Rest
<1> QED BY <1>1, <1>2, <1>3 DEF OutputNext

LEMMA Invariant == OutputSpec => []Inv
BY Starts, Steps, PTL DEF OutputSpec
-----------------------------------------------------------------------------
(* The theorems.                                                             *)

\* Every variable of the scoring keeps its type: a result is filed under the key
\* of its own object, for a check and a loop there are.
THEOREM TypeCorrect == OutputSpec => []TypeOK
<1>1. Inv => TypeOK
  BY DEF Inv
<1> QED BY <1>1, Invariant, PTL

\* When the loops are over, each object has one result for each check of each of
\* its loops that is not ignored, and no other one, whatever order the maps of
\* the checks are run in and whatever keys the objects share.
THEOREM ResultsComplete == OutputSpec => []ResultsExact
<1>1. ASSUME Inv PROVE ResultsExact
  <2> USE <1>1 DEF Inv
  <2> SUFFICES ASSUME todo = {}, pending = {}, exit = "none" PROVE
        /\ {<<x.obj, x.kind, x.check>> : x \in All} =
              UNION {{<<w[2], w[1], c.id>> : c \in Registered(Kinds[w[1]])} : w \in Work}
        /\ \A x \in All : x.check \notin cnf.ignored
        /\ \A r \in DOMAIN card : \A m, n \in DOMAIN card[r] :
              /\ card[r][m].obj = card[r][n].obj /\ card[r][m].kind = card[r][n].kind
              /\ card[r][m].check = card[r][n].check
              => m = n
    BY DEF ResultsExact
  <2>1. ASSUME NEW x \in All
        PROVE  /\ <<x.kind, x.obj>> \in Work
               /\ \E c \in Registered(Kinds[x.kind]) : c.id = x.check
    BY DEF Expected
  <2>2. ASSUME NEW x \in All
        PROVE  \E w \in Work : \E c \in Registered(Kinds[w[1]]) :
                  <<x.obj, x.kind, x.check>> = <<w[2], w[1], c.id>>
    <3> DEFINE w == <<x.kind, x.obj>>
    <3>1. w \in Work /\ w[1] = x.kind /\ w[2] = x.obj
      BY <2>1
    <3> QED BY <2>1, <3>1
  <2>3. ASSUME NEW w \in Work, NEW c \in Registered(Kinds[w[1]])
        PROVE  \E x \in All : <<x.obj, x.kind, x.check>> = <<w[2], w[1], c.id>>
    <3>1. progress # "over" \/ exit = "zero"
      BY DEF Ended
    <3>2. PICK x \in All : x.obj = w[2] /\ x.kind = w[1] /\ x.check = c.id
      BY <3>1 DEF Present
    <3> QED BY <3>2
  <2>4. \A x \in All : x.check \notin cnf.ignored
    BY <2>1 DEF Registered
  <2>5. {<<x.obj, x.kind, x.check>> : x \in All} =
           UNION {{<<w[2], w[1], c.id>> : c \in Registered(Kinds[w[1]])} : w \in Work}
    BY <2>2, <2>3, SMTT(30)
  <2>6. \A r \in DOMAIN card : \A m, n \in DOMAIN card[r] :
           /\ card[r][m].obj = card[r][n].obj /\ card[r][m].kind = card[r][n].kind
           /\ card[r][m].check = card[r][n].check
           => m = n
    BY DEF Once, SameKey
  <2> QED BY <2>4, <2>5, <2>6
<1> QED BY <1>1, Invariant, PTL

\* The check that a result is of.
LEMMA CheckOf ==
  ASSUME Inv, NEW x \in All
  PROVE  \E c \in Checks : c.id = x.check /\ (CHOOSE d \in Checks : d.id = x.check) = c
<1>1. PICK c \in Checks : c.id = x.check
  BY DEF Inv, Expected, Registered
<1>2. (CHOOSE d \in Checks : d.id = x.check) = c
  BY <1>1, IdAssumption
<1> QED BY <1>1, <1>2

\* isEnabled, as nested conditions, is the first of six statements that is made.
LEMMA EnabledWanted ==
  ASSUME NEW x, NEW c \in Checks, (CHOOSE d \in Checks : d.id = x.check) = c
  PROVE  Wanted(x) <=> EnabledFor(x, c)
<1> DEFINE child == Child(<<x.kind, x.obj>>)
           own == ann[x.obj]
           a1 == cnf.useIgnore /\ IsIn(child.ignore, c.id)
           a2 == cnf.useOptional /\ IsIn(child.enable, c.id)
           a3 == cnf.useIgnore /\ IsIn(own.ignore, c.id)
           a4 == cnf.useOptional /\ IsIn(own.enable, c.id)
           a5 == c.id \in cnf.enabled
           s == << <<a1, FALSE>>, <<a2, TRUE>>, <<a3, FALSE>>, <<a4, TRUE>>,
                   <<a5, TRUE>>, <<TRUE, ~c.optional>> >>
<1>1. Said(x) = s
  BY DEF Said
<1>2. Wanted(x) <=> \E i \in 1..6 : s[i][1] /\ s[i][2] /\ \A j \in 1..i - 1 : ~s[j][1]
  BY <1>1 DEF Wanted
<1>3. EnabledFor(x, c) <=> ~a1 /\ (a2 \/ (~a3 /\ (a4 \/ a5 \/ ~c.optional)))
  BY DEF EnabledFor, IsEnabled
<1> HIDE DEF a1, a2, a3, a4, a5
<1>4. /\ s[1][1] = a1 /\ s[2][1] = a2 /\ s[3][1] = a3 /\ s[4][1] = a4 /\ s[5][1] = a5
      /\ s[6][1] = TRUE /\ s[1][2] = FALSE /\ s[2][2] = TRUE /\ s[3][2] = FALSE
      /\ s[4][2] = TRUE /\ s[5][2] = TRUE /\ s[6][2] = ~c.optional
  OBVIOUS
<1> HIDE DEF s
<1>5. \A i \in 1..6 : i = 1 \/ i = 2 \/ i = 3 \/ i = 4 \/ i = 5 \/ i = 6
  OBVIOUS
<1>6. /\ (\A j \in 1..1 - 1 : ~s[j][1]) <=> TRUE
      /\ (\A j \in 1..2 - 1 : ~s[j][1]) <=> ~s[1][1]
      /\ (\A j \in 1..3 - 1 : ~s[j][1]) <=> ~s[1][1] /\ ~s[2][1]
      /\ (\A j \in 1..4 - 1 : ~s[j][1]) <=> ~s[1][1] /\ ~s[2][1] /\ ~s[3][1]
      /\ (\A j \in 1..5 - 1 : ~s[j][1]) <=> ~s[1][1] /\ ~s[2][1] /\ ~s[3][1] /\ ~s[4][1]
      /\ (\A j \in 1..6 - 1 : ~s[j][1]) <=> ~s[1][1] /\ ~s[2][1] /\ ~s[3][1] /\ ~s[4][1] /\ ~s[5][1]
  OBVIOUS
<1>7. 1 \in 1..6 /\ 2 \in 1..6 /\ 3 \in 1..6 /\ 4 \in 1..6 /\ 5 \in 1..6 /\ 6 \in 1..6
  OBVIOUS
<1> DEFINE B(i) == s[i][1] /\ s[i][2] /\ \A j \in 1..i - 1 : ~s[j][1]
<1>8. (\E i \in 1..6 : B(i)) <=> B(1) \/ B(2) \/ B(3) \/ B(4) \/ B(5) \/ B(6)
  <2> HIDE DEF B
  <2> QED BY <1>5, <1>7
<1>9. Wanted(x) <=> \/ s[2][1] /\ ~s[1][1]
                    \/ s[4][1] /\ ~s[1][1] /\ ~s[2][1] /\ ~s[3][1]
                    \/ s[5][1] /\ ~s[1][1] /\ ~s[2][1] /\ ~s[3][1] /\ ~s[4][1]
                    \/ /\ ~c.optional /\ ~s[1][1] /\ ~s[2][1] /\ ~s[3][1] /\ ~s[4][1]
                       /\ ~s[5][1]
  BY <1>2, <1>4, <1>6, <1>8
<1> QED BY <1>3, <1>4, <1>9, Zenon

\* Only what the nearest statement about its check wants counts, and of that all
\* that is critical or a warning.
THEOREM NearestStatement == OutputSpec => []NearestStatementWins
<1>1. ASSUME Inv PROVE NearestStatementWins
  <2>1. ASSUME NEW x \in All
        PROVE  /\ ~Wanted(x) => x.skipped
               /\ Wanted(x) /\ x.grade \notin {0, 10} => ~x.skipped
    <3>1. PICK c \in Checks : c.id = x.check /\ (CHOOSE d \in Checks : d.id = x.check) = c
      BY <1>1, CheckOf
    <3> QED BY <1>1, <3>1, EnabledWanted DEF Inv, Judged, SkippedAsAsked
  <2> QED BY <2>1 DEF NearestStatementWins
<1> QED BY <1>1, Invariant, PTL

\* Exit code 0 after a scoring means that all of it was done, that no wanted
\* result is critical and that the report was printed.
THEOREM CleanExit == OutputSpec => []CleanExitComplete
<1>1. ASSUME Inv PROVE CleanExitComplete
  <2> USE <1>1 DEF Inv
  <2> SUFFICES ASSUME progress = "over", exit = "zero", todo # Work PROVE
        /\ report.format \in Formats
        /\ \A w \in Work : \A c \in Registered(Kinds[w[1]]) :
              \E x \in All : x.obj = w[2] /\ x.kind = w[1] /\ x.check = c.id
        /\ \A x \in All : Wanted(x) => x.grade # GradeCritical
    BY DEF CleanExitComplete
  <2>1. report.format \in Formats /\ todo = {} /\ pending = {} /\ ExitCode = "zero"
    BY DEF Ended, Over
  <2>2. \A w \in Work : \A c \in Registered(Kinds[w[1]]) :
           \E x \in All : x.obj = w[2] /\ x.kind = w[1] /\ x.check = c.id
    BY <2>1 DEF Present
  <2>3. ~AnyBelowOrEqualToGrade(GradeCritical)
    BY <2>1 DEF ExitCode
  <2>4. ASSUME NEW x \in All, Wanted(x), x.grade = GradeCritical PROVE FALSE
    <3>1. PICK c \in Checks : c.id = x.check /\ (CHOOSE d \in Checks : d.id = x.check) = c
      BY CheckOf
    <3>2. x.grade \notin {0, 10} /\ x.grade <= GradeCritical
      BY <2>4 DEF GradeCritical
    <3>3. ~x.skipped
      BY <2>4, <3>1, <3>2, EnabledWanted DEF Judged, SkippedAsAsked
    <3>4. PICK r \in DOMAIN card : \E n \in DOMAIN card[r] : x = card[r][n]
      BY InAll
    <3> QED BY <2>3, <3>2, <3>3, <3>4 DEF AnyBelowOrEqualToGrade
  <2> QED BY <2>1, <2>2, <2>4
<1> QED BY <1>1, Invariant, PTL
-----------------------------------------------------------------------------
(* What the printed report says of the card.                                 *)

\* The key an object's results are filed under.
RefOf(x) == Objects[x.obj].ref

Counted == {x \in All : Wanted(x) /\ x.grade \in Bad}

Silent(format) == {x \in Counted : /\ format = "sarif" /\ x.grade = GradeWarning
                                   /\ x.check \in Uncommented}

BadLevels == {"critical", "warning", "failure"}

TellsAs(format, e, x) ==
    /\ e.ref = RefOf(x) /\ e.check = x.check
    /\ \/ e.level = (IF x.grade = GradeCritical THEN "critical" ELSE "warning")
       \/ format = "junit" /\ e.level = "failure"

\* What of the entries the property asks for, the exit code apart.
EntriesTell(format, entries) ==
    /\ \A x \in Counted \ Silent(format) :
          \E e \in entries : e.level \in BadLevels /\ TellsAs(format, e, x)
    /\ \A e \in entries : e.level \in BadLevels => \E x \in Counted : TellsAs(format, e, x)
    /\ \A e \in entries : e.level # "unknown"

LEMMA FiledUnder ==
  ASSUME Filed
  PROVE  /\ \A r \in DOMAIN card : \A x \in ResultsOf(r) : x \in All /\ RefOf(x) = r
         /\ \A x \in All : RefOf(x) \in DOMAIN card /\ x \in ResultsOf(RefOf(x))
<1>1. ASSUME NEW r \in DOMAIN card, NEW x \in ResultsOf(r)
      PROVE  x \in All /\ RefOf(x) = r
  <2>1. PICK n \in DOMAIN card[r] : x = card[r][n]
    BY DEF ResultsOf
  <2> QED BY <2>1, InAll DEF Filed, RefOf
<1>2. ASSUME NEW x \in All
      PROVE  RefOf(x) \in DOMAIN card /\ x \in ResultsOf(RefOf(x))
  <2>1. PICK r \in DOMAIN card : \E n \in DOMAIN card[r] : x = card[r][n]
    BY InAll
  <2>2. RefOf(x) = r /\ x \in ResultsOf(r)
    BY <2>1 DEF Filed, RefOf, ResultsOf
  <2> QED BY <2>2
<1> QED BY <1>1, <1>2

\* Every result has a level of its own, and it is what it counts as.
LEMMA Leveled ==
  ASSUME Inv, NEW x \in All
  PROVE  /\ x.skipped \in BOOLEAN
         /\ x.grade \in {1, 5, 10} \/ x.skipped
         /\ Level(x) \in {"critical", "warning", "ok", "skipped"}
         /\ Level(x) = "critical" <=> (~x.skipped /\ x.grade = 1)
         /\ Level(x) = "warning" <=> (~x.skipped /\ x.grade = 5)
         /\ x \in Counted <=> (~x.skipped /\ x.grade \in {1, 5})
<1>1. x \in Results
  <2>1. PICK r \in DOMAIN card : \E n \in DOMAIN card[r] : x = card[r][n]
    BY InAll
  <2> QED BY <2>1 DEF Inv, TypeOK
<1>2. x.skipped \in BOOLEAN /\ x.grade \in {0, 1, 5, 10}
  BY <1>1 DEF Results, Grades
<1>3. x.grade \in {1, 5, 10} \/ x.skipped
  BY <1>2 DEF Inv, Judged
<1>4. /\ Level(x) \in {"critical", "warning", "ok", "skipped"}
      /\ Level(x) = "critical" <=> (~x.skipped /\ x.grade = 1)
      /\ Level(x) = "warning" <=> (~x.skipped /\ x.grade = 5)
  BY <1>2, <1>3 DEF Level, GradeCritical, GradeWarning
<1>5. x.grade \notin {0, 10} => (x.skipped <=> ~Wanted(x))
  <2>1. PICK c \in Checks : c.id = x.check /\ (CHOOSE d \in Checks : d.id = x.check) = c
    BY CheckOf DEF Inv
  <2> QED BY <2>1, EnabledWanted DEF Inv, Judged, SkippedAsAsked
<1>6. x \in Counted <=> (Wanted(x) /\ x.grade \in {1, 5})
  BY DEF Counted, Bad, GradeCritical, GradeWarning
<1> QED BY <1>2, <1>3, <1>4, <1>5, <1>6

\* The entries of each format come from the results of all objects.
LEMMA CompleteOfAll ==
  ASSUME Filed
  PROVE  \A e : e \in CompleteEntries <=> \E x \in All : e = Entry(RefOf(x), x, Level(x))
<1>1. \A e : e \in CompleteEntries <=>
               \E r \in DOMAIN card : \E x \in ResultsOf(r) : e = Entry(r, x, Level(x))
  BY DEF CompleteEntries
<1> QED BY <1>1, FiledUnder

JUnitLevel(x) == IF Level(x) \in {"ok", "skipped"} THEN Level(x) ELSE "failure"

LEMMA JUnitOfAll ==
  ASSUME Filed
  PROVE  \A e : e \in JUnitEntries <=> \E x \in All : e = Entry(RefOf(x), x, JUnitLevel(x))
<1>1. \A e : e \in JUnitEntries <=>
               \E r \in DOMAIN card : \E x \in ResultsOf(r) : e = Entry(r, x, JUnitLevel(x))
  BY DEF JUnitEntries, JUnitLevel
<1> QED BY <1>1, FiledUnder

LEMMA SarifOfAll ==
  ASSUME Filed, NEW bare
  PROVE  \A e : e \in SarifEntries(bare) <=>
                  \E x \in All : /\ x \notin bare /\ ~x.skipped /\ x.grade \in Bad
                                 /\ e = Entry(RefOf(x), x, Level(x))
<1>1. \A e : e \in SarifEntries(bare) <=>
               \E r \in DOMAIN card : \E x \in ResultsOf(r) :
                  /\ x \notin bare /\ ~x.skipped /\ x.grade \in Bad
                  /\ e = Entry(r, x, Level(x))
  BY DEF SarifEntries
<1> QED BY <1>1, FiledUnder

LEMMA EntryIs ==
  ASSUME NEW ref, NEW x, NEW level
  PROVE  /\ Entry(ref, x, level).ref = ref /\ Entry(ref, x, level).check = x.check
         /\ Entry(ref, x, level).level = level
BY DEF Entry

\* The complete report, and what the human one and ci leave of it.
LEMMA CompleteTells ==
  ASSUME Inv, NEW format \in Formats \ {"sarif"}, NEW entries,
         entries \subseteq CompleteEntries,
         \A e \in CompleteEntries : e.level \in BadLevels => e \in entries
  PROVE  EntriesTell(format, entries)
<1>1. Filed
  BY DEF Inv
<1>2. ASSUME NEW x \in Counted
      PROVE  \E e \in entries : e.level \in BadLevels /\ TellsAs(format, e, x)
  <2> DEFINE e == Entry(RefOf(x), x, Level(x))
  <2>1. x \in All
    BY DEF Counted
  <2>2. e \in CompleteEntries
    BY <1>1, <2>1, CompleteOfAll
  <2>3. ~x.skipped /\ x.grade \in {1, 5}
    BY <1>2, <2>1, Leveled
  <2>4. Level(x) = IF x.grade = GradeCritical THEN "critical" ELSE "warning"
    BY <2>1, <2>3, Leveled DEF GradeCritical
  <2>5. e.level \in BadLevels
    BY <2>4, EntryIs DEF BadLevels
  <2>6. TellsAs(format, e, x)
    BY <2>4, EntryIs DEF TellsAs
  <2> QED BY <2>2, <2>5, <2>6
<1>3. ASSUME NEW e \in entries
      PROVE  /\ e.level \in BadLevels => \E x \in Counted : TellsAs(format, e, x)
             /\ e.level # "unknown"
  <2>1. PICK x \in All : e = Entry(RefOf(x), x, Level(x))
    BY <1>1, CompleteOfAll
  <2>2. e.level = Level(x) /\ e.ref = RefOf(x) /\ e.check = x.check
    BY <2>1, EntryIs
  <2>3. e.level # "unknown"
    BY <2>2, Leveled
  <2>4. ASSUME e.level \in BadLevels PROVE x \in Counted /\ TellsAs(format, e, x)
    <3>1. e.level = "critical" \/ e.level = "warning"
      BY <2>2, <2>4, Leveled DEF BadLevels
    <3>2. CASE e.level = "critical"
      <4>1. ~x.skipped /\ x.grade = 1
        BY <2>2, <3>2, Leveled
      <4> QED BY <2>2, <3>2, <4>1, Leveled DEF TellsAs, GradeCritical
    <3>3. CASE e.level = "warning"
      <4>1. ~x.skipped /\ x.grade = 5
        BY <2>2, <3>3, Leveled
      <4> QED BY <2>2, <3>3, <4>1, Leveled DEF TellsAs, GradeCritical
    <3> QED BY <3>1, <3>2, <3>3
  <2> QED BY <2>3, <2>4
<1> QED BY <1>2, <1>3 DEF EntriesTell

LEMMA JUnitTells ==
  ASSUME Inv
  PROVE  EntriesTell("junit", JUnitEntries)
<1>1. Filed
  BY DEF Inv
<1>2. ASSUME NEW x \in Counted
      PROVE  \E e \in JUnitEntries : e.level \in BadLevels /\ TellsAs("junit", e, x)
  <2> DEFINE e == Entry(RefOf(x), x, JUnitLevel(x))
  <2>1. x \in All
    BY DEF Counted
  <2>2. e \in JUnitEntries
    BY <1>1, <2>1, JUnitOfAll
  <2>3. ~x.skipped /\ x.grade \in {1, 5}
    BY <1>2, <2>1, Leveled
  <2>4. JUnitLevel(x) = "failure"
    <3>1. Level(x) = "critical" \/ Level(x) = "warning"
      BY <2>1, <2>3, Leveled
    <3> QED BY <3>1 DEF JUnitLevel
  <2> QED BY <2>2, <2>4, EntryIs DEF TellsAs, BadLevels
<1>3. ASSUME NEW e \in JUnitEntries
      PROVE  /\ e.level \in BadLevels => \E x \in Counted : TellsAs("junit", e, x)
             /\ e.level # "unknown"
  <2>1. PICK x \in All : e = Entry(RefOf(x), x, JUnitLevel(x))
    BY <1>1, JUnitOfAll
  <2>2. e.level = JUnitLevel(x) /\ e.ref = RefOf(x) /\ e.check = x.check
    BY <2>1, EntryIs
  <2>3. e.level # "unknown"
    BY <2>2 DEF JUnitLevel
  <2>4. ASSUME e.level \in BadLevels PROVE x \in Counted /\ TellsAs("junit", e, x)
    <3>1. e.level = "failure" /\ Level(x) \notin {"ok", "skipped"}
      BY <2>2, <2>4 DEF JUnitLevel, BadLevels
    <3>2. Level(x) = "critical" \/ Level(x) = "warning"
      BY <3>1, Leveled
    <3>3. x \in Counted
      BY <3>2, Leveled
    <3> QED BY <2>2, <3>1, <3>3 DEF TellsAs
  <2> QED BY <2>3, <2>4
<1> QED BY <1>2, <1>3 DEF EntriesTell

\* SARIF leaves out what has no comment: warnings of the checks that may.
LEMMA SarifTells ==
  ASSUME Inv, NEW bare \in Bares
  PROVE  EntriesTell("sarif", SarifEntries(bare))
<1>1. Filed
  BY DEF Inv
<1>2. ASSUME NEW x \in Counted \ Silent("sarif")
      PROVE  \E e \in SarifEntries(bare) : e.level \in BadLevels /\ TellsAs("sarif", e, x)
  <2> DEFINE e == Entry(RefOf(x), x, Level(x))
  <2>1. x \in All /\ x.grade \in Bad
    BY DEF Counted
  <2>2. ~x.skipped /\ x.grade \in {1, 5}
    BY <1>2, <2>1, Leveled
  <2>3. x \notin bare
    BY <1>2 DEF Bares, Silent, GradeWarning
  <2>4. e \in SarifEntries(bare)
    BY <1>1, <2>1, <2>2, <2>3, SarifOfAll
  <2>5. Level(x) = IF x.grade = GradeCritical THEN "critical" ELSE "warning"
    BY <2>1, <2>2, Leveled DEF GradeCritical
  <2> QED BY <2>4, <2>5, EntryIs DEF TellsAs, BadLevels
<1>3. ASSUME NEW e \in SarifEntries(bare)
      PROVE  (\E x \in Counted : TellsAs("sarif", e, x)) /\ e.level # "unknown"
  <2>1. PICK x \in All : /\ ~x.skipped /\ x.grade \in Bad
                         /\ e = Entry(RefOf(x), x, Level(x))
    BY <1>1, SarifOfAll
  <2>2. e.level = Level(x) /\ e.ref = RefOf(x) /\ e.check = x.check
    BY <2>1, EntryIs
  <2>3. x.grade \in {1, 5} /\ x \in Counted
    BY <2>1, Leveled DEF Bad, GradeCritical, GradeWarning
  <2>4. Level(x) = IF x.grade = GradeCritical THEN "critical" ELSE "warning"
    BY <2>1, <2>3, Leveled DEF GradeCritical
  <2> QED BY <2>2, <2>3, <2>4 DEF TellsAs
<1> QED BY <1>2, <1>3 DEF EntriesTell

\* The header of an object is the worst told under it.
HeadsTell(entries, heads) ==
    \A h \in heads :
        LET levels == {e.level : e \in {d \in entries : d.level \in BadLevels /\ d.ref = h.ref}}
        IN  h.worst = (IF "critical" \in levels THEN "critical"
                       ELSE IF "warning" \in levels THEN "warning" ELSE "ok")

LEMMA HumanHeadsTell ==
  ASSUME Inv, NEW entries, entries \subseteq CompleteEntries,
         \A e \in CompleteEntries : e.level \in BadLevels => e \in entries
  PROVE  HeadsTell(entries, HumanHeads)
<1>1. Filed
  BY DEF Inv
<1> DEFINE Told(ref) == {d \in entries : d.level \in BadLevels /\ d.ref = ref}
           Has(r, g) == \E x \in ResultsOf(r) : ~x.skipped /\ x.grade = g
<1>2. ASSUME NEW r \in DOMAIN card, NEW level \in {"critical", "warning"},
             NEW g \in {1, 5}, level = "critical" <=> g = 1
      PROVE  level \in {e.level : e \in Told(r)} <=> Has(r, g)
  <2>1. ASSUME level \in {e.level : e \in Told(r)} PROVE Has(r, g)
    <3>1. PICK e \in Told(r) : e.level = level
      BY <2>1
    <3>2. PICK x \in All : e = Entry(RefOf(x), x, Level(x))
      BY <1>1, <3>1, CompleteOfAll
    <3>3. Level(x) = level /\ RefOf(x) = r
      BY <3>1, <3>2, EntryIs
    <3>4. ~x.skipped /\ x.grade = g
      BY <1>2, <3>3, Leveled
    <3> QED BY <1>1, <3>3, <3>4, FiledUnder
  <2>2. ASSUME Has(r, g) PROVE level \in {e.level : e \in Told(r)}
    <3>1. PICK x \in ResultsOf(r) : ~x.skipped /\ x.grade = g
      BY <2>2
    <3>2. x \in All /\ RefOf(x) = r
      BY <1>1, FiledUnder
    <3>3. Level(x) = level
      BY <1>2, <3>1, <3>2, Leveled
    <3> DEFINE e == Entry(RefOf(x), x, Level(x))
    <3>4. e \in CompleteEntries /\ e.level = level /\ e.ref = r
      BY <1>1, <3>2, <3>3, CompleteOfAll, EntryIs
    <3>5. e \in Told(r)
      BY <3>4 DEF BadLevels
    <3> QED BY <3>4, <3>5
  <2> QED BY <2>1, <2>2
<1>3. ASSUME NEW r \in DOMAIN card
      PROVE  (\E x \in ResultsOf(r) : ~x.skipped /\ x.grade <= GradeCritical) <=> Has(r, 1)
  <2>1. \A x \in ResultsOf(r) : ~x.skipped => x.grade \in {1, 5, 10}
    BY <1>1, FiledUnder, Leveled
  <2> QED BY <2>1 DEF GradeCritical
<1>4. ASSUME NEW h \in HumanHeads
      PROVE  LET levels == {e.level : e \in Told(h.ref)}
             IN  h.worst = (IF "critical" \in levels THEN "critical"
                            ELSE IF "warning" \in levels THEN "warning" ELSE "ok")
  <2>1. PICK r \in DOMAIN card :
          h = [ref |-> r,
               worst |->
                   IF \E x \in ResultsOf(r) : ~x.skipped /\ x.grade <= GradeCritical
                   THEN "critical"
                   ELSE IF \E x \in ResultsOf(r) : ~x.skipped /\ x.grade = GradeWarning
                   THEN "warning" ELSE "ok"]
    BY DEF HumanHeads
  <2>2. h.ref = r /\ h.worst = (IF Has(r, 1) THEN "critical"
                                ELSE IF Has(r, 5) THEN "warning" ELSE "ok")
    BY <1>3, <2>1 DEF GradeWarning
  <2>3. "critical" \in {e.level : e \in Told(r)} <=> Has(r, 1)
    BY <1>2
  <2>4. "warning" \in {e.level : e \in Told(r)} <=> Has(r, 5)
    BY <1>2
  <2> HIDE DEF Told, Has
  <2> QED BY <2>2, <2>3, <2>4
<1> QED BY <1>4 DEF HeadsTell

\* Each report there is tells what counts.
LEMMA ReportsTell ==
  ASSUME Inv, NEW o \in Outputs, NEW p \in Reports(o)
  PROVE  EntriesTell(p.format, p.entries) /\ HeadsTell(p.entries, p.heads)
<1>1. o.format \in Formats
  BY OutputAssumption
<1>2. HeadsTell(p.entries, {})
  BY DEF HeadsTell
<1>3. CASE o.format = "human"
  <2>1. /\ p.format = "human" /\ p.entries = HumanEntries(o.verbose)
        /\ p.heads = HumanHeads
    BY <1>3 DEF Reports
  <2>2. HumanEntries(o.verbose) \subseteq CompleteEntries
    BY DEF HumanEntries
  <2>3. \A e \in CompleteEntries : e.level \in BadLevels => e \in HumanEntries(o.verbose)
    BY DEF HumanEntries, BadLevels
  <2> QED BY <2>1, <2>2, <2>3, CompleteTells, HumanHeadsTell DEF Formats
<1>4. CASE o.format \in {"json", "ci"}
  <2>1. p.format = o.format /\ p.entries = CompleteEntries /\ p.heads = {}
    BY <1>4 DEF Reports, CIEntries
  <2> QED BY <1>2, <1>4, <2>1, CompleteTells DEF Formats
<1>5. CASE o.format = "junit"
  <2>1. p.format = "junit" /\ p.entries = JUnitEntries /\ p.heads = {}
    BY <1>5 DEF Reports
  <2> QED BY <1>2, <2>1, JUnitTells
<1>6. CASE o.format = "sarif"
  <2>1. PICK bare \in Bares :
          p.format = "sarif" /\ p.entries = SarifEntries(bare) /\ p.heads = {}
    BY <1>6 DEF Reports
  <2> QED BY <1>2, <2>1, SarifTells
<1> QED BY <1>1, <1>3, <1>4, <1>5, <1>6 DEF Formats

\* What the exit code looks for, in terms of what counts.
LEMMA BelowIsCounted ==
  ASSUME Inv
  PROVE  /\ AnyBelowOrEqualToGrade(GradeCritical) <=>
               \E x \in Counted : x.grade = GradeCritical
         /\ AnyBelowOrEqualToGrade(GradeWarning) <=> Counted # {}
<1>1. \A x \in All : ~x.skipped => x.grade \in {1, 5, 10}
  BY Leveled
<1>2. \A x \in All : x \in Counted <=> (~x.skipped /\ x.grade \in {1, 5})
  BY Leveled
<1>3. Counted \subseteq All
  BY DEF Counted
<1>4. ASSUME NEW t
      PROVE  AnyBelowOrEqualToGrade(t) <=> \E x \in All : ~x.skipped /\ x.grade <= t
  BY InAll DEF AnyBelowOrEqualToGrade
<1>5. AnyBelowOrEqualToGrade(1) <=> \E x \in Counted : x.grade = 1
  <2>1. \A x \in All : (~x.skipped /\ x.grade <= 1) <=> (x \in Counted /\ x.grade = 1)
    BY <1>1, <1>2
  <2> QED BY <1>3, <1>4, <2>1
<1>6. AnyBelowOrEqualToGrade(5) <=> Counted # {}
  <2>1. \A x \in All : (~x.skipped /\ x.grade <= 5) <=> x \in Counted
    BY <1>1, <1>2
  <2> QED BY <1>3, <1>4, <2>1
<1> QED BY <1>5, <1>6 DEF GradeCritical, GradeWarning

\* The printed report and the exit code say the same, and it is what flags and
\* annotations leave of the results, in each of the five formats.
THEOREM VerdictTold == OutputSpec => []ReportTellsVerdict
<1>1. ASSUME Inv, report.format \in Formats
      PROVE  LET told == {e \in report.entries : e.level \in BadLevels}
                 fatal == {e \in told : e.level # "warning" \/ cnf.warnings}
             IN  /\ EntriesTell(report.format, report.entries)
                 /\ HeadsTell(report.entries, report.heads)
                 /\ exit = "one" =>
                       fatal # {} \/ (cnf.warnings /\ Silent(report.format) # {})
                 /\ fatal # {} => exit = "one" \/ report.format = "junit"
  <2> DEFINE told == {e \in report.entries : e.level \in BadLevels}
             fatal == {e \in told : e.level # "warning" \/ cnf.warnings}
  <2>1. PICK o \in Outputs : report \in Reports(o)
    BY <1>1 DEF Inv, Printed
  <2>2. /\ EntriesTell(report.format, report.entries)
        /\ HeadsTell(report.entries, report.heads)
    BY <1>1, <2>1, ReportsTell
  <2>3. exit = ExitCode
    BY <1>1 DEF Inv, Printed, Over
  <2>4. exit = "one" <=> \/ \E x \in Counted : x.grade = GradeCritical
                         \/ cnf.warnings /\ Counted # {}
    BY <1>1, <2>3, BelowIsCounted DEF ExitCode
  <2>5. ASSUME exit = "one"
        PROVE  fatal # {} \/ (cnf.warnings /\ Silent(report.format) # {})
    <3>1. ASSUME NEW x \in Counted \ Silent(report.format),
                 x.grade = GradeCritical \/ cnf.warnings
          PROVE  fatal # {}
      <4>1. PICK e \in report.entries :
              e.level \in BadLevels /\ TellsAs(report.format, e, x)
        BY <2>2 DEF EntriesTell
      <4>2. e.level # "warning" \/ cnf.warnings
        BY <3>1, <4>1 DEF TellsAs
      <4>3. e \in fatal
        BY <4>1, <4>2
      <4> QED BY <4>3
    <3>2. ASSUME NEW x \in Counted, x.grade = GradeCritical
          PROVE  fatal # {}
      <4>1. x \notin Silent(report.format)
        BY <3>2 DEF Silent, GradeCritical, GradeWarning
      <4> QED BY <3>1, <3>2, <4>1
    <3>3. ASSUME cnf.warnings, NEW x \in Counted
          PROVE  fatal # {} \/ Silent(report.format) # {}
      BY <3>1, <3>3
    <3> HIDE DEF fatal
    <3> QED BY <2>4, <2>5, <3>2, <3>3
  <2>6. ASSUME fatal # {}, report.format # "junit" PROVE exit = "one"
    <3>1. PICK e \in report.entries :
            e.level \in BadLevels /\ (e.level # "warning" \/ cnf.warnings)
      BY <2>6
    <3>2. PICK x \in Counted : TellsAs(report.format, e, x)
      BY <2>2, <3>1 DEF EntriesTell
    <3>3. x.grade = GradeCritical \/ cnf.warnings
      BY <2>6, <3>1, <3>2 DEF TellsAs
    <3> QED BY <2>4, <3>3
  <2> QED BY <2>2, <2>5, <2>6
<1>2. ASSUME Inv PROVE ReportTellsVerdict
  BY <1>1, <1>2 DEF ReportTellsVerdict, EntriesTell, HeadsTell, Counted, Silent, BadLevels,
                    TellsAs, RefOf
<1> QED BY <1>2, Invariant, PTL
=============================================================================
