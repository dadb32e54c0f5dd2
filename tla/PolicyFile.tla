------------------------------ MODULE PolicyFile -------------------------------
(* The policy of `datree test`: a policies file is validated, then the rules  *)
(* of one policy are looked up.  Each step reads the default rules anew, from *)
(* ~/.datree/defaultRules.yaml if there is one, and that file may be edited.  *)
(* Policies that the server sends are not validated.                          *)
EXTENDS Naturals, Sequences

CONSTANTS Files,        \* policies files that fit the JSON schema: [policies, custom]
          DefaultSets,  \* sets of default rules the file may hold
          Broken,       \* the file is not YAML
          PolicyNames,
          NoName,       \* --policy is not given
          MaxEdits      \* bound: edits of the file

\* What a custom rule has as schema: an object; as jsonSchema a boolean, or an
\* object that is followed by other text or has a number no float64 can hold; an
\* object that is no JSON schema; two schemas; nothing, or no JSON.
Schemas == {"object", "boolean", "loose", "invalid", "both", "nothing"}

ASSUME FilesAssumption ==
    \A f \in Files :
        /\ f.policies \in Seq([name : PolicyNames, isDefault : BOOLEAN, rules : Seq(STRING)])
        /\ f.custom \in Seq([id : STRING, schema : Schemas])
ASSUME NamesAssumption == NoName \notin PolicyNames
ASSUME BrokenAssumption == Broken \notin DefaultSets
ASSUME MaxEditsAssumption == MaxEdits \in Nat

VARIABLES
    file,       \* the policies
    source,     \* "file" or "server"
    defaults,   \* what defaultRules.yaml holds
    edits,
    pc,         \* "policies", "existence", "custom", "create",
                \* "invalid", "created", "failed"
    asked,      \* the name CreatePolicy was called with
    chosen,     \* index of the policy, or 0
    rules       \* the rules of the policy: where each was found

vars == <<file, source, defaults, edits, pc, asked, chosen, rules>>

TypeOK ==
    /\ file \in Files /\ source \in {"file", "server"}
    /\ defaults \in DefaultSets \cup {Broken} /\ edits \in 0..MaxEdits
    /\ pc \in {"policies", "existence", "custom", "create", "invalid", "created", "failed"}
    /\ asked \in PolicyNames \cup {NoName}
    /\ chosen \in 0..Len(file.policies)
    /\ \A i \in DOMAIN rules : rules[i].from \in {"custom", "default"}
    /\ pc = "created" => chosen # 0 /\ Len(rules) = Len(file.policies[chosen].rules)

Init ==
    /\ file \in Files
    /\ source \in {"file", "server"}
    /\ defaults \in DefaultSets \cup {Broken} /\ edits = 0
    /\ pc = IF source = "file" THEN "policies" ELSE "create"
    /\ asked = NoName /\ chosen = 0 /\ rules = << >>

CustomIds(f) == {f.custom[i].id : i \in DOMAIN f.custom}

-----------------------------------------------------------------------------
(* ValidatePoliciesYaml.                                                     *)

SingleDefault(f) ==
    \E i \in DOMAIN f.policies :
        /\ f.policies[i].isDefault
        /\ \A j \in DOMAIN f.policies : f.policies[j].isDefault => j = i

\* checkIdentifierUniquenessInPolicy
UniqueInPolicies(f) ==
    \A p \in DOMAIN f.policies : LET r == f.policies[p].rules
                                 IN  \A i, j \in DOMAIN r : r[i] = r[j] => i = j

CheckPolicies ==
    /\ pc = "policies"
    /\ pc' = IF SingleDefault(file) /\ UniqueInPolicies(file) THEN "existence" ELSE "invalid"
    /\ UNCHANGED <<file, source, defaults, edits, asked, chosen, rules>>

\* (Mutant: only the rules of the first policy are looked for.)
AllExistFirst(f, d) ==
    \A i \in DOMAIN f.policies[1].rules : f.policies[1].rules[i] \in CustomIds(f) \cup d

\* checkIdentifierExistence
AllExist(f, d) ==
    \A p \in DOMAIN f.policies : \A i \in DOMAIN f.policies[p].rules :
        f.policies[p].rules[i] \in CustomIds(f) \cup d

CheckExistence ==
    /\ pc = "existence"
    /\ pc' = IF defaults # Broken /\ AllExist(file, defaults) THEN "custom" ELSE "invalid"
    /\ UNCHANGED <<file, source, defaults, edits, asked, chosen, rules>>

\* (Mutant: a custom rule may have the identifier of a default one.)
CustomUniqueAmongThem(f, d) ==
    \A i, j \in DOMAIN f.custom : f.custom[i].id = f.custom[j].id => i = j

\* checkCustomRulesIdentifiersUniqueness
CustomUnique(f, d) ==
    /\ \A i, j \in DOMAIN f.custom : f.custom[i].id = f.custom[j].id => i = j
    /\ CustomIds(f) \cap d = {}

\* validateSchemaField: exactly one schema, which compiles.  A boolean is a JSON
\* schema as well, and the loader of gojsonschema reads the first JSON value of a
\* text and keeps numbers as they are written.
SchemasCompile(f) ==
    \A i \in DOMAIN f.custom : f.custom[i].schema \in {"object", "boolean", "loose"}

CheckCustom ==
    /\ pc = "custom"
    /\ pc' = IF /\ defaults # Broken /\ CustomUnique(file, defaults)
                /\ SchemasCompile(file)
             THEN "create" ELSE "invalid"
    /\ UNCHANGED <<file, source, defaults, edits, asked, chosen, rules>>

-----------------------------------------------------------------------------
(* CreatePolicy.                                                             *)

First(f, Test(_)) ==
    IF \E i \in DOMAIN f.policies : Test(f.policies[i])
    THEN CHOOSE i \in DOMAIN f.policies :
            /\ Test(f.policies[i])
            /\ \A j \in 1..i - 1 : ~Test(f.policies[j])
    ELSE 0

Chosen(f, name) ==
    First(f, LAMBDA p : IF name = NoName THEN p.isDefault ELSE p.name = name)

\* The schema of the first custom rule with this identifier.
SchemaOf(f, id) ==
    f.custom[CHOOSE i \in DOMAIN f.custom :
                f.custom[i].id = id /\ \A j \in 1..i - 1 : f.custom[j].id # id].schema

\* populateRules fails for a rule that is nowhere, and for a jsonSchema that
\* cannot be unmarshalled into a map, all of it.
Found(f, d, id) ==
    \/ id \in CustomIds(f) /\ SchemaOf(f, id) \in {"object", "invalid", "both"}
    \/ id \in d \ CustomIds(f)

Populated(f, ids) ==
    [i \in DOMAIN ids |->
        [id |-> ids[i], from |-> IF ids[i] \in CustomIds(f) THEN "custom" ELSE "default"]]

Create ==
    /\ pc = "create"
    /\ \E name \in PolicyNames \cup {NoName} :
          LET p == Chosen(file, name)
              ok == /\ defaults # Broken /\ p # 0
                    /\ \A i \in DOMAIN file.policies[p].rules :
                          Found(file, defaults, file.policies[p].rules[i])
          IN  /\ asked' = name /\ chosen' = p
              /\ pc' = IF ok THEN "created" ELSE "failed"
              /\ rules' = IF ok THEN Populated(file, file.policies[p].rules) ELSE << >>
    /\ UNCHANGED <<file, source, defaults, edits>>

\* Somebody edits defaultRules.yaml.
Edit ==
    /\ edits < MaxEdits /\ edits' = edits + 1
    /\ pc \notin {"created", "failed", "invalid"}
    /\ defaults' \in (DefaultSets \cup {Broken}) \ {defaults}
    /\ UNCHANGED <<file, source, pc, asked, chosen, rules>>

Next == CheckPolicies \/ CheckExistence \/ CheckCustom \/ Create \/ Edit

Spec == Init /\ [][Next]_vars

-----------------------------------------------------------------------------
(* Properties.                                                               *)

\* The rules of the chosen policy that no custom rule and no default one is.
Gone ==
    {id \in {file.policies[chosen].rules[i] : i \in DOMAIN file.policies[chosen].rules} :
        id \notin CustomIds(file) \cup defaults}

\* A file that was found valid gives a policy, the one marked as default if no
\* name is asked for, unless the name is not in the file, or the policy has a
\* rule whose jsonSchema compiles and yet cannot be unmarshalled, or the default
\* rules were edited after the check, so that they cannot be read any more or a
\* rule of the policy is gone from them.
ValidFileUsable ==
    source = "file" =>
        /\ pc = "failed" =>
              \/ asked # NoName /\ \A i \in DOMAIN file.policies : file.policies[i].name # asked
              \/ edits # 0 /\ (defaults = Broken \/ Gone # {})
              \/ chosen # 0 /\ \E i \in DOMAIN file.custom :
                    /\ file.custom[i].schema \in {"boolean", "loose"}
                    /\ \E j \in DOMAIN file.policies[chosen].rules :
                          file.policies[chosen].rules[j] = file.custom[i].id
        /\ pc = "created" /\ asked = NoName =>
              \A i \in DOMAIN file.policies : file.policies[i].isDefault <=> i = chosen

\* The rules of a valid file mean one thing each: none is in the policy twice, a
\* default one is among the default rules, and a custom one is not, even if the
\* default rules were edited between the checks, unless that edit has given one
\* the name of a custom rule.
RulesUnambiguous ==
    pc = "created" /\ source = "file" =>
        \A i, j \in DOMAIN rules :
            /\ rules[i].id = rules[j].id => i = j
            /\ rules[i].from = "default" => rules[i].id \in defaults
            /\ rules[i].from = "custom" /\ edits = 0 => rules[i].id \notin defaults
=============================================================================
