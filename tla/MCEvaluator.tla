----------------------------- MODULE MCEvaluator ------------------------------
(* Two rules under five policies.  Up to two files, perhaps the same one      *)
(* twice, the first of up to two configurations and the second of one; or one *)
(* configuration with any values for the keys a policy puts together; or a    *)
(* second one with an annotation that is a number; and perhaps a third file   *)
(* that a validation refuses.                                                 *)
EXTENDS EvaluationOutput, FiniteSetsExt

CONSTANTS f1, f2, f3, r1, r2

MCNames == {f1, f2}
MCRules == {r1, r2}

Arg(x) == [value |-> x]
Minimum   == Key("resourceMinimum", Quantity(2))
Maximum   == Key("resourceMaximum", Quantity(2))
Memory    == Key("customKeyRule81", Arg("object"))
HostPath  == Key("customKeyRule89", Arg("object"))
Roles     == Key("customKeyRule101", Arg("object"))
Rego      == Key("regoDefinition", Arg("code"))
Cel       == Key("CELDefinition", Arg("expressions"))
Malformed == Key("regoDefinition", BadArgument)
Kind      == Key("kind", Arg("Pod"))
Both(s, t)   == [op |-> "all", of |-> <<s, t>>]
Either(s, t) == [op |-> "anyOf", of |-> <<s, t>>]
Not(s)       == [op |-> "not", of |-> s]
IfThen(s, t) == [op |-> "ifThen", if |-> s, then |-> t]

Policy(s, t) == [r \in MCRules |-> IF r = r1 THEN s ELSE t]
MCPolicies == {Policy(Minimum, HostPath),
               Policy(Both(Memory, Rego), Not(Minimum)),
               Policy(Either(Rego, Cel), Both(Minimum, Cel)),
               Policy(IfThen(Kind, Maximum), Roles),
               Policy(Minimum, Not(Malformed))}

RECURSIVE Nested(_), DepthOf(_)
Nested(s)  == {s} \cup UNION {Nested(t) : t \in Parts(s)}
DepthOf(s) == IF Parts(s) = {} THEN 0 ELSE 1 + Max({DepthOf(t) : t \in Parts(s)})

MCSchemas == UNION {Nested(policy[r]) : policy \in MCPolicies, r \in MCRules}
MCDepth   == [s \in MCSchemas |-> DepthOf(s)]

Results(seq) == [gives |-> "list", results |-> seq]
Memories(wellFormed, requests, limits) ==
    [wellFormed |-> wellFormed, requests |-> requests, limits |-> limits]
Role(resources, verbs) == [resources |-> resources, verbs |-> verbs]

Mount(name, readOnly) == [name |-> name, readOnly |-> readOnly]
NoMounts    == [hasMounts |-> FALSE, mounts |-> << >>]
Mounts(seq) == [hasMounts |-> TRUE, mounts |-> seq]
Containers  == {NoMounts, Mounts(<< >>), Mounts(<<Mount("host", "false")>>),
                Mounts(<<Mount("host", "true"), Mount("tmp", "unset")>>),
                Mounts(<<Mount("tmp", "unset"), Mount("host", "unset")>>),
                Mounts(<<Mount("nil", "unset"), Mount("host", "unset")>>)}
Pod(volume, containers) ==
    [volumes |-> <<[name |-> "tmp", hostPath |-> FALSE], [name |-> volume, hostPath |-> TRUE]>>,
     containers |-> containers]

Units  == {NoQuantity, Quantity(1), Quantity(2), Quantity(3)}
Pods   == {Pod("host", <<c, d>>) : c \in Containers, d \in Containers}
          \cup {Pod("nil", <<Mounts(<< >>)>>)}
Runs   == {[gives |-> "error", results |-> << >>], [gives |-> "scalar", results |-> << >>],
           Results(<< >>), Results(<<"false", "true">>), Results(<<"other", "true">>)}
Cels   == {<<"true">>, <<"true", "false">>, <<"error", "false">>, <<"true", "other">>}
Texts  == {Memories(TRUE, "1Gi", "1Gi"), Memories(TRUE, "1Gi", "1024Mi"),
           Memories(TRUE, "1Gi", ""), Memories(FALSE, "", "1Gi")}
Grants == {[wellFormed |-> w, rules |-> <<Role({"pods"}, {v}), Role({x}, {"create"})>>] :
             w \in BOOLEAN, v \in {"get", "*"}, x \in {"secrets", "*"}}
Kinds  == {Arg("Pod"), Arg("Role")}

Data(units, pod, run, cel) ==
    [resourceMinimum |-> units, resourceMaximum |-> units, customKeyRule89 |-> pod,
     regoDefinition |-> run, CELDefinition |-> cel, customKeyRule81 |-> Memories(TRUE, "", ""),
     customKeyRule101 |-> [wellFormed |-> FALSE, rules |-> << >>], kind |-> Arg("Pod")]

Writes == Pod("host", <<Mounts(<<Mount("host", "unset")>>)>>)
Reads  == Pod("host", <<Mounts(<<Mount("host", "true")>>)>>)
Fine   == Data(Quantity(2), Reads, Results(<< >>), <<"true">>)
Poor   == Data(Quantity(1), Reads, Results(<<"true">>), <<"false">>)
Lost   == Data(NoQuantity, Writes, [gives |-> "error", results |-> << >>], <<"error">>)

Config(data, skipped) == [data |-> data, skipped |-> skipped, texts |-> TRUE]
Numbered == [data |-> Fine, skipped |-> {r1}, texts |-> FALSE]

MCConfigs == {Config(Fine, {}), Config(Poor, {}), Config(Poor, {r1}),
              Config(Fine, {r1}), Config(Lost, {r2})}

\* Each pair of keys that a policy puts together, and the pods on their own.
Wide == {Data(u, Reads, run, cel) : u \in Units, run \in Runs, cel \in Cels}
        \cup {[Fine EXCEPT !.customKeyRule89 = pod] : pod \in Pods}
        \cup {[Fine EXCEPT !.customKeyRule81 = t, !.regoDefinition = run] :
                t \in Texts, run \in Runs}
        \cup {[Fine EXCEPT !.resourceMaximum = u, !.customKeyRule101 = g, !.kind = k] :
                u \in Units, g \in Grants, k \in Kinds}

UpTo2(S) == {<< >>} \cup {<<x>> : x \in S} \cup {<<x, y>> : x, y \in S}

File(n, configs) == [name |-> n, configs |-> configs]

FilesOf(S) == [name : MCNames, configs : S]

MCInputs == {<< >>} \cup {<<x>> : x \in FilesOf(UpTo2(MCConfigs))}
            \cup {<<x, y>> : x \in FilesOf(UpTo2(MCConfigs)),
                            y \in FilesOf({<< >>} \cup {<<c>> : c \in MCConfigs})}
            \cup {<<File(f1, <<Config(data, {})>>)>> : data \in Wide}
            \cup {<<File(f1, <<c, Numbered>>)>> : c \in MCConfigs}

MCInvalids == {<< >>} \cup [{f3} -> {"yaml", "k8s"}]
=============================================================================
