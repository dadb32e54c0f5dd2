---------------------------- MODULE MCTestCommand -----------------------------
(* All commands and flags; a new user, a complete configuration in every     *)
(* offline mode, and configurations without a token or a client id.          *)
EXTENDS TestCommand

AllCommands == {"files", "stdin", "kustomize", "publish"}
\* At most two flags: they meet in pairs.
SomeFlags   == {f \in Flag : \A k, l, m \in DOMAIN f :
                   f[k] /\ f[l] /\ f[m] => k = l \/ l = m \/ k = m}

File(token, clientId, offline) ==
    [token |-> token, clientId |-> clientId, offline |-> offline]

SomeConfigs == {File(FALSE, FALSE, ""), File(TRUE, TRUE, "fail"),
                File(TRUE, TRUE, "other"), File(TRUE, FALSE, "local"),
                File(FALSE, FALSE, "local"), File(FALSE, TRUE, "fail")}

SomeEnvs == {NoConfig, File(TRUE, FALSE, ""), File(FALSE, FALSE, "local"),
             File(FALSE, TRUE, "fail")}
=============================================================================
