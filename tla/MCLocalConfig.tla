---------------------------- MODULE MCLocalConfig -----------------------------
(* Three processes one of which may fail or be killed.                       *)
EXTENDS LocalConfig, TLC

CONSTANTS p1, p2, p3, mine, theirs

MCProcs == {p1, p2, p3}

MCSettings == {[key |-> "offline", value |-> "local"],
               [key |-> "token", value |-> mine]}

\* Of the environments, one gives a token and a mode that `config set` would refuse.
MCEnvs == {[token |-> theirs, clientId |-> None, offline |-> "other"]}

MCSymmetry == Permutations(MCProcs)
=============================================================================
