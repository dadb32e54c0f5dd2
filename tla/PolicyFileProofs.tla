--------------------------- MODULE PolicyFileProofs ----------------------------
(* Proofs about PolicyFile, for any policies files, policy names and sets of  *)
(* default rules, and any number of edits:                                    *)
(*   TypeCorrect   Spec => []TypeOK                                           *)
(*   FileUsable    Spec => []ValidFileUsable                                  *)
(*   Unambiguous   Spec => []RulesUnambiguous                                 *)
(* The checks a file has passed still hold, those of the default rules as     *)
(* long as nobody edits them (Checked); a policy looked up is the first of    *)
(* its name, and it is made when each of its rules is found (Looked).         *)
EXTENDS PolicyFile, WellFoundedInduction, TLAPS

Over == {"created", "failed"}

Checked ==
    source = "file" =>
        /\ pc \in {"existence", "custom", "create"} \cup Over =>
              SingleDefault(file) /\ UniqueInPolicies(file)
        /\ pc \in {"custom", "create"} \cup Over /\ edits = 0 =>
              defaults # Broken /\ AllExist(file, defaults)
        /\ pc \in {"create"} \cup Over => SchemasCompile(file)
        /\ pc \in {"create"} \cup Over /\ edits = 0 => CustomUnique(file, defaults)

\* The policy that is asked for, and all its rules are found.
Usable ==
    /\ defaults # Broken /\ chosen # 0
    /\ \A i \in DOMAIN file.policies[chosen].rules :
          Found(file, defaults, file.policies[chosen].rules[i])

Looked ==
    /\ pc \in Over => chosen = Chosen(file, asked)
    /\ pc = "created" => Usable /\ rules = Populated(file, file.policies[chosen].rules)
    /\ pc = "failed" => ~Usable
    /\ pc # "created" => rules = << >>

Inv == TypeOK /\ Checked /\ Looked

-----------------------------------------------------------------------------
(* The first element of a list.                                              *)

LEMMA Least ==
    ASSUME NEW T \in SUBSET Nat, T # {}
    PROVE  \E x \in T : \A y \in T : x <= y
  <1> DEFINE R == OpToRel(<, Nat)
  <1>1. IsWellFoundedOn(R, Nat)
    BY NatLessThanWellFounded
  <1>2. \A x, y \in Nat : y < x => <<y, x>> \in R
    BY DEF OpToRel
  <1> HIDE DEF R
  <1>3. PICK x \in T : \A y \in T : ~ (<<y, x>> \in R)
    BY <1>1, WFMin
  <1>4. \A y \in T : ~(y < x)
    BY <1>2, <1>3
  <1> QED  BY <1>4

\* What a name asks for.
Asks(f, name, i) ==
    IF name = NoName THEN f.policies[i].isDefault ELSE f.policies[i].name = name

\* Chosen is 0 when no policy is asked for by the name, and else one that is.
LEMMA ChosenIs ==
    ASSUME NEW f \in Files, NEW name
    PROVE  \/ Chosen(f, name) = 0 /\ \A i \in DOMAIN f.policies : ~Asks(f, name, i)
           \/ Chosen(f, name) \in DOMAIN f.policies /\ Asks(f, name, Chosen(f, name))
  <1>1. DOMAIN f.policies = 1..Len(f.policies) /\ Len(f.policies) \in Nat
    BY FilesAssumption
  <1> DEFINE T == {i \in DOMAIN f.policies : Asks(f, name, i)}
  <1>2. CASE T = {}
    <2>1. \A i \in DOMAIN f.policies : ~Asks(f, name, i)
      BY <1>2
    <2>2. Chosen(f, name) = 0
      BY <2>1 DEF Chosen, First, Asks
    <2> QED  BY <2>1, <2>2
  <1>3. CASE T # {}
    <2>1. T \in SUBSET Nat
      BY <1>1
    <2>2. PICK x \in T : \A y \in T : x <= y
      BY <1>3, <2>1, Least
    <2>3. /\ x \in DOMAIN f.policies /\ Asks(f, name, x)
          /\ \A j \in 1..x - 1 : ~Asks(f, name, j)
      BY <1>1, <2>1, <2>2
    <2>4. Chosen(f, name) \in DOMAIN f.policies /\ Asks(f, name, Chosen(f, name))
      BY <2>3 DEF Chosen, First, Asks
    <2> QED  BY <2>4
  <1> QED  BY <1>2, <1>3

\* The schema of a custom rule is that of one with its identifier.
LEMMA SchemaOfIs ==
    ASSUME NEW f \in Files, NEW id \in CustomIds(f)
    PROVE  \E i \in DOMAIN f.custom : f.custom[i].id = id /\ SchemaOf(f, id) = f.custom[i].schema
  <1>1. DOMAIN f.custom = 1..Len(f.custom) /\ Len(f.custom) \in Nat
    BY FilesAssumption
  <1> DEFINE T == {i \in DOMAIN f.custom : f.custom[i].id = id}
  <1>2. T \in SUBSET Nat /\ T # {}
    BY <1>1 DEF CustomIds
  <1>3. PICK x \in T : \A y \in T : x <= y
    BY <1>2, Least
  <1>4. /\ x \in DOMAIN f.custom /\ f.custom[x].id = id
        /\ \A j \in 1..x - 1 : f.custom[j].id # id
    BY <1>1, <1>2, <1>3
  <1> DEFINE c == CHOOSE i \in DOMAIN f.custom :
                     f.custom[i].id = id /\ \A j \in 1..i - 1 : f.custom[j].id # id
  <1>5. c \in DOMAIN f.custom /\ f.custom[c].id = id
    BY <1>4
  <1>6. SchemaOf(f, id) = f.custom[c].schema
    BY DEF SchemaOf
  <1> QED  BY <1>5, <1>6

-----------------------------------------------------------------------------
(* Every step keeps the invariant.                                           *)

LEMMA ChosenTyped ==
    ASSUME NEW f \in Files, NEW name
    PROVE  Chosen(f, name) \in 0..Len(f.policies)
  <1>1. DOMAIN f.policies = 1..Len(f.policies) /\ Len(f.policies) \in Nat
    BY FilesAssumption
  <1> QED  BY <1>1, ChosenIs

LEMMA PolicyTyped ==
    ASSUME NEW f \in Files, NEW i \in DOMAIN f.policies
    PROVE  i # 0 /\ f.policies[i].rules \in Seq(STRING)
  <1> DEFINE Policy == [name : PolicyNames, isDefault : BOOLEAN, rules : Seq(STRING)]
  <1>1. f.policies \in Seq(Policy)
    BY FilesAssumption
  <1> HIDE DEF Policy
  <1>2. i \in 1..Len(f.policies) /\ f.policies[i] \in Policy
    BY <1>1
  <1> QED  BY <1>2 DEF Policy

LEMMA PopulatedIs ==
    ASSUME NEW f, NEW ids \in Seq(STRING)
    PROVE  /\ DOMAIN Populated(f, ids) = DOMAIN ids
           /\ Len(Populated(f, ids)) = Len(ids)
           /\ \A i \in DOMAIN ids :
                 /\ Populated(f, ids)[i].id = ids[i]
                 /\ Populated(f, ids)[i].from
                       = IF ids[i] \in CustomIds(f) THEN "custom" ELSE "default"
  <1>1. DOMAIN ids = 1..Len(ids) /\ Len(ids) \in Nat
    OBVIOUS
  <1>2. DOMAIN Populated(f, ids) = 1..Len(ids)
    BY <1>1 DEF Populated
  <1>3. Len(Populated(f, ids)) = Len(ids)
    BY <1>1, <1>2
  <1> QED  BY <1>1, <1>2, <1>3 DEF Populated

LEMMA CreateStep ==
    ASSUME Inv, Create
    PROVE  Inv'
  <1>1. TypeOK /\ Checked /\ pc = "create"
    BY DEF Inv, Create
  <1>2. UNCHANGED <<file, source, defaults, edits>>
    BY DEF Create
  <1>3. PICK name \in PolicyNames \cup {NoName} :
          LET p == Chosen(file, name)
              ok == /\ defaults # Broken /\ p # 0
                    /\ \A i \in DOMAIN file.policies[p].rules :
                          Found(file, defaults, file.policies[p].rules[i])
          IN  /\ asked' = name /\ chosen' = p
              /\ pc' = IF ok THEN "created" ELSE "failed"
              /\ rules' = IF ok THEN Populated(file, file.policies[p].rules) ELSE << >>
    BY DEF Create
  <1>4. /\ asked' = name /\ chosen' = Chosen(file, name)
        /\ pc' = IF Usable' THEN "created" ELSE "failed"
        /\ rules' = IF Usable' THEN Populated(file, file.policies[chosen'].rules) ELSE << >>
    BY <1>2, <1>3 DEF Usable
  <1>5. chosen' \in 0..Len(file.policies)
    BY <1>1, <1>4, ChosenTyped DEF TypeOK
  <1>6. /\ \A i \in DOMAIN rules' : rules'[i].from \in {"custom", "default"}
        /\ pc' = "created" => Len(rules') = Len(file.policies[chosen'].rules)
    <2>1. CASE Usable'
      <3>1. chosen' \in DOMAIN file.policies
        BY <1>1, <1>2, <1>4, <2>1, ChosenIs DEF Usable, TypeOK
      <3>2. file.policies[chosen'].rules \in Seq(STRING)
        BY <1>1, <3>1, PolicyTyped DEF TypeOK
      <3> DEFINE ids == file.policies[chosen'].rules
      <3>3. rules' = Populated(file, ids)
        BY <1>4, <2>1
      <3> HIDE DEF ids
      <3>4. ids \in Seq(STRING)
        BY <3>2 DEF ids
      <3>5. /\ DOMAIN rules' = DOMAIN ids /\ Len(rules') = Len(ids)
            /\ \A i \in DOMAIN ids : rules'[i].from
                   = IF ids[i] \in CustomIds(file) THEN "custom" ELSE "default"
        BY <3>3, <3>4, PopulatedIs
      <3> QED  BY <3>5 DEF ids
    <2>2. CASE ~Usable'
      BY <1>4, <2>2
    <2> QED  BY <2>1, <2>2
  <1>7. pc' = "created" => chosen' # 0
    BY <1>4 DEF Usable
  <1>8. TypeOK'
    BY <1>1, <1>2, <1>4, <1>5, <1>6, <1>7 DEF TypeOK
  <1>9. Checked'
    BY <1>1, <1>2, <1>4 DEF Checked, Over
  <1>10. Looked'
    BY <1>2, <1>4 DEF Looked, Over
  <1> QED  BY <1>8, <1>9, <1>10 DEF Inv

LEMMA StepInv ==
    ASSUME Inv, [Next]_vars
    PROVE  Inv'
  <1> USE DEF Inv
  <1>1. CASE CheckPolicies
    <2>1. /\ pc = "policies" /\ pc' \in {"existence", "invalid"}
          /\ pc' = "existence" => SingleDefault(file) /\ UniqueInPolicies(file)
          /\ UNCHANGED <<file, source, defaults, edits, asked, chosen, rules>>
      BY <1>1 DEF CheckPolicies
    <2> QED  BY <2>1 DEF TypeOK, Checked, Looked, Over
  <1>2. CASE CheckExistence
    <2>1. /\ pc = "existence" /\ pc' \in {"custom", "invalid"}
          /\ pc' = "custom" => defaults # Broken /\ AllExist(file, defaults)
          /\ UNCHANGED <<file, source, defaults, edits, asked, chosen, rules>>
      BY <1>2 DEF CheckExistence
    <2> QED  BY <2>1 DEF TypeOK, Checked, Looked, Over
  <1>3. CASE CheckCustom
    <2>1. /\ pc = "custom" /\ pc' \in {"create", "invalid"}
          /\ pc' = "create" => CustomUnique(file, defaults) /\ SchemasCompile(file)
          /\ UNCHANGED <<file, source, defaults, edits, asked, chosen, rules>>
      BY <1>3 DEF CheckCustom
    <2> QED  BY <2>1 DEF TypeOK, Checked, Looked, Over
  <1>4. CASE Create
    BY <1>4, CreateStep
  <1>5. CASE Edit
    <2>1. /\ edits < MaxEdits /\ edits' = edits + 1 /\ pc \notin Over
          /\ defaults' \in DefaultSets \cup {Broken}
          /\ UNCHANGED <<file, source, pc, asked, chosen, rules>>
      BY <1>5 DEF Edit, Over
    <2>2. edits' \in 0..MaxEdits /\ edits' # 0
      BY <2>1, MaxEditsAssumption DEF TypeOK
    <2> QED  BY <2>1, <2>2 DEF TypeOK, Checked, Looked, Over
  <1>6. CASE UNCHANGED vars
    <2>1. UNCHANGED <<file, source, defaults, edits, pc, asked, chosen, rules>>
      BY <1>6 DEF vars
    <2> QED  BY <2>1 DEF TypeOK, Checked, Looked, Usable, Over
  <1> QED  BY <1>1, <1>2, <1>3, <1>4, <1>5, <1>6 DEF Next

LEMMA InitInv == Init => Inv
  <1> SUFFICES ASSUME Init PROVE Inv
    OBVIOUS
  <1>1. file.policies \in Seq([name : PolicyNames, isDefault : BOOLEAN, rules : Seq(STRING)])
    BY FilesAssumption DEF Init
  <1>2. Len(file.policies) \in Nat
    BY <1>1
  <1> QED  BY <1>2, MaxEditsAssumption DEF Init, Inv, TypeOK, Checked, Looked, Over

LEMMA InvHolds == Spec => []Inv
  BY InitInv, StepInv, PTL DEF Spec

-----------------------------------------------------------------------------
(* What the invariant gives.                                                 *)

\* The types of the variables, and a policy made has the rules of the one chosen.
THEOREM TypeCorrect == Spec => []TypeOK
  <1>1. Inv => TypeOK
    BY DEF Inv
  <1> QED  BY <1>1, InvHolds, PTL

LEMMA InvUsable == Inv => ValidFileUsable
  <1> DEFINE Bad == \E i \in DOMAIN file.custom :
                /\ file.custom[i].schema \in {"boolean", "loose"}
                /\ \E j \in DOMAIN file.policies[chosen].rules :
                      file.policies[chosen].rules[j] = file.custom[i].id
  <1> SUFFICES ASSUME Inv, source = "file"
               PROVE  /\ pc = "failed" =>
                            \/ /\ asked # NoName
                               /\ \A i \in DOMAIN file.policies : file.policies[i].name # asked
                            \/ edits # 0 /\ (defaults = Broken \/ Gone # {})
                            \/ chosen # 0 /\ Bad
                      /\ pc = "created" /\ asked = NoName =>
                            \A i \in DOMAIN file.policies :
                               file.policies[i].isDefault <=> i = chosen
    BY DEF ValidFileUsable
  <1>1. file \in Files
    BY DEF Inv, TypeOK
  <1>2. pc \in Over =>
          /\ SingleDefault(file) /\ SchemasCompile(file) /\ chosen = Chosen(file, asked)
          /\ edits = 0 => defaults # Broken /\ AllExist(file, defaults)
    BY DEF Inv, Checked, Looked, Over
  <1>3. CASE pc = "failed"
    <2>1. /\ SingleDefault(file) /\ SchemasCompile(file)
          /\ chosen = Chosen(file, asked) /\ ~Usable
          /\ edits = 0 => defaults # Broken /\ AllExist(file, defaults)
      BY <1>2, <1>3 DEF Over, Inv, Looked
    <2>2. CASE chosen = 0
      <3>1. \A i \in DOMAIN file.policies : ~Asks(file, asked, i)
        BY <1>1, <2>1, <2>2, ChosenIs, PolicyTyped
      <3> QED  BY <1>3, <2>1, <3>1 DEF Asks, SingleDefault
    <2>3. CASE chosen # 0 /\ defaults = Broken
      BY <1>3, <2>1, <2>3
    <2>4. CASE chosen # 0 /\ defaults # Broken
      <3>1. chosen \in DOMAIN file.policies
        BY <1>1, <2>1, <2>4, ChosenIs
      <3>2. PICK j \in DOMAIN file.policies[chosen].rules :
               ~Found(file, defaults, file.policies[chosen].rules[j])
        BY <2>1, <2>4 DEF Usable
      <3> DEFINE id == file.policies[chosen].rules[j]
      <3>3. CASE id \in CustomIds(file)
        <4>1. PICK i \in DOMAIN file.custom :
                 file.custom[i].id = id /\ SchemaOf(file, id) = file.custom[i].schema
          BY <1>1, <3>3, SchemaOfIs
        <4>2. file.custom[i].schema \in {"boolean", "loose"}
          BY <2>1, <3>2, <3>3, <4>1 DEF Found, SchemasCompile
        <4>3. Bad
          BY <3>2, <4>1, <4>2
        <4> HIDE DEF Bad
        <4> QED  BY <1>3, <2>4, <4>3
      <3>4. CASE id \notin CustomIds(file)
        <4>1. id \notin CustomIds(file) \cup defaults
          BY <3>2, <3>4 DEF Found
        <4>2. Gone # {}
          BY <3>2, <4>1 DEF Gone
        <4>3. edits # 0
          BY <2>1, <3>1, <3>2, <4>1 DEF AllExist
        <4> HIDE DEF Bad
        <4> QED  BY <1>3, <4>2, <4>3
      <3> QED  BY <3>3, <3>4
    <2> HIDE DEF Bad
    <2> QED  BY <2>2, <2>3, <2>4
  <1>4. CASE pc = "created" /\ asked = NoName
    <2>1. SingleDefault(file) /\ chosen = Chosen(file, asked) /\ chosen # 0
      BY <1>2, <1>4 DEF Over, Inv, Looked, Usable
    <2>2. chosen \in DOMAIN file.policies /\ file.policies[chosen].isDefault
      BY <1>1, <1>4, <2>1, ChosenIs DEF Asks
    <2> QED  BY <1>4, <2>1, <2>2 DEF SingleDefault
  <1> HIDE DEF Bad
  <1> QED  BY <1>3, <1>4

\* A file that was found valid (validatePoliciesYaml.go) gives a policy (policy_factory.go),
\* the default one if none is named, but for the cases ValidFileUsable lists: no policy of that
\* name, a jsonSchema that compiles and cannot be unmarshalled, an edit of the default rules.
THEOREM FileUsable == Spec => []ValidFileUsable
  BY InvUsable, InvHolds, PTL

LEMMA InvUnambiguous == Inv => RulesUnambiguous
  <1> SUFFICES ASSUME Inv, pc = "created", source = "file",
                      NEW i \in DOMAIN rules, NEW j \in DOMAIN rules
               PROVE  /\ rules[i].id = rules[j].id => i = j
                      /\ rules[i].from = "default" => rules[i].id \in defaults
                      /\ rules[i].from = "custom" /\ edits = 0 => rules[i].id \notin defaults
    BY DEF RulesUnambiguous
  <1> DEFINE ids == file.policies[chosen].rules
  <1>1. /\ UniqueInPolicies(file) /\ chosen = Chosen(file, asked) /\ chosen # 0
        /\ rules = Populated(file, ids) /\ \A m \in DOMAIN ids : Found(file, defaults, ids[m])
        /\ edits = 0 => CustomUnique(file, defaults)
    BY DEF Inv, Checked, Looked, Usable, Over
  <1>2. file \in Files
    BY DEF Inv, TypeOK
  <1>3. chosen \in DOMAIN file.policies
    BY <1>1, <1>2, ChosenIs
  <1>4. ids \in Seq(STRING)
    BY <1>2, <1>3, PolicyTyped
  <1>5. \A m, n \in DOMAIN ids : ids[m] = ids[n] => m = n
    BY <1>1, <1>3 DEF UniqueInPolicies
  <1>6. \A m \in DOMAIN ids : ids[m] \in CustomIds(file) \cup defaults
    BY <1>1 DEF Found
  <1>7. edits = 0 => CustomIds(file) \cap defaults = {}
    BY <1>1 DEF CustomUnique
  <1> HIDE DEF ids
  <1>8. /\ DOMAIN rules = DOMAIN ids
        /\ \A m \in DOMAIN ids :
              /\ rules[m].id = ids[m]
              /\ rules[m].from = IF ids[m] \in CustomIds(file) THEN "custom" ELSE "default"
    BY <1>1, <1>4, PopulatedIs
  <1> QED  BY <1>5, <1>6, <1>7, <1>8

\* The rules of a valid file mean one thing each: none is there twice, a default one is among
\* the default rules at that time, and a custom one is not unless they were edited.
THEOREM Unambiguous == Spec => []RulesUnambiguous
  BY InvUnambiguous, InvHolds, PTL
=============================================================================
