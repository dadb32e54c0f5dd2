---------------------------- MODULE MCPolicyFile -------------------------------
EXTENDS PolicyFile

CONSTANTS pol1, pol2

UpTo2(S) == {<< >>} \cup {<<x>> : x \in S} \cup {<<x, y>> : x \in S, y \in S}

Rules == {<< >>, <<"a">>, <<"a", "a">>, <<"b", "a">>}
MCPolicies == [name : PolicyNames, isDefault : BOOLEAN, rules : Rules]
MCCustom == [id : {"a"}, schema : Schemas] \cup [id : {"b"}, schema : {"object"}]

MCFiles == [policies : UpTo2(MCPolicies) \ {<< >>}, custom : UpTo2(MCCustom)]

MCDefaultSets == {{"a"}, {"b"}}
=============================================================================
