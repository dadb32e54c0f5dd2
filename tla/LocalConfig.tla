----------------------------- MODULE LocalConfig ------------------------------
(* ~/.datree/config.yaml shared by several datree processes: a process that  *)
(* loads the configuration (GetLocalConfiguration: `datree test`, `config    *)
(* get`, `publish`) or that sets one key (`datree config set`).  There is no *)
(* lock, and viper rewrites the file in place: it is opened with truncation, *)
(* then written, so other processes can see it empty, and two writers can    *)
(* overlap.  A process can be killed, and a write can fail.  A load also      *)
(* looks at DATREE_TOKEN, DATREE_CLIENT_ID and DATREE_OFFLINE, which come     *)
(* before the file, and which it writes over what the file has.               *)
EXTENDS Naturals, FiniteSets

CONSTANTS Procs,       \* the processes
          Settings,    \* [key, value] pairs `config set` may be given
          Envs,        \* settings the environment of a process may give
          MaxFaults,   \* bound: kills and failed writes
          None,        \* no token, no client id
          Corrupt      \* what two overlapping writes can leave: not YAML

\* Tokens and client ids are named by the process that obtained them, or are
\* the ones a user set.
Ids    == Procs \cup {None}
              \cup {s.value : s \in {t \in Settings : t.key = "token"}}
              \cup {e.token : e \in Envs} \cup {e.clientId : e \in Envs}
NoMode == ""
Config == [token : Ids, clientId : Ids, offline : {NoMode, "fail", "local", "other"}]
Empty  == [token |-> None, clientId |-> None, offline |-> NoMode]

Load == [key |-> "load", value |-> None]

ASSUME NoneAssumption == None \notin Procs /\ Corrupt \notin Config
ASSUME EnvsAssumption == Envs \subseteq Config
ASSUME FaultsAssumption == MaxFaults \in Nat
ASSUME SettingsAssumption ==
    \A s \in Settings :
        \/ s.key = "offline" /\ s.value \in {"fail", "local"}
        \/ s.key = "token" /\ s.value # None

VARIABLES
    exists,      \* the file exists
    file,        \* its content
    pc, op, env, \* per process: where it is, what it was started to do and with
                 \* which environment, which only a load looks at
    set, read,   \* per process: viper's values set here, and as last read
    result,      \* per process: the LocalConfig being put together
    writing,     \* per process: the label after the running setViperVariable
    asked,       \* per process: a token was requested
    faults,      \* kills and failed writes so far
    overlap,     \* history: two processes have run at the same time
    store        \* history: what the finished processes were to leave behind

proc == <<set, read, result, writing, asked>>
vars == <<exists, file, pc, op, env, proc, faults, overlap, store>>

Final  == {"done", "failed", "killed"}
Labels == {"idle", "mkfile", "create", "read", "offline", "token", "clientId",
           "set", "truncate", "write", "reread"} \cup Final

TypeOK ==
    /\ exists \in BOOLEAN
    /\ file \in Config \cup {Corrupt}
    /\ pc \in [Procs -> Labels]
    /\ op \in [Procs -> Settings \cup {Load}]
    /\ env \in [Procs -> Config]
    /\ set \in [Procs -> Config] /\ read \in [Procs -> Config]
    /\ result \in [Procs -> Config]
    /\ writing \in [Procs -> {"none", "token", "clientId", "done"}]
    /\ asked \in [Procs -> BOOLEAN]
    /\ faults \in 0..MaxFaults
    /\ overlap \in BOOLEAN
    /\ store \in Config

Init ==
    /\ exists = FALSE /\ file = Empty
    /\ pc = [p \in Procs |-> "idle"]
    /\ op \in [Procs -> Settings \cup {Load}]
    /\ env \in [Procs -> Envs \cup {Empty}]
    /\ \A p \in Procs : op[p] # Load => env[p] = Empty
    /\ set = [p \in Procs |-> Empty] /\ read = [p \in Procs |-> Empty]
    /\ result = [p \in Procs |-> Empty]
    /\ writing = [p \in Procs |-> "none"]
    /\ asked = [p \in Procs |-> FALSE]
    /\ faults = 0
    /\ overlap = FALSE
    /\ store = Empty

Running == {p \in Procs : pc[p] \notin {"idle"} \cup Final}
Goto(p, l) == pc' = [pc EXCEPT ![p] = l]

\* viper.Get: a value set in this process comes before the one of the
\* environment, and that before the one of the file.
Over(s, e, r) ==
    [token    |-> IF s.token # None THEN s.token
                  ELSE IF e.token # None THEN e.token ELSE r.token,
     clientId |-> IF s.clientId # None THEN s.clientId
                  ELSE IF e.clientId # None THEN e.clientId ELSE r.clientId,
     offline  |-> IF s.offline # NoMode THEN s.offline
                  ELSE IF e.offline # NoMode THEN e.offline ELSE r.offline]

\* viper.AllSettings, which WriteConfig writes: the keys set here or in the file,
\* each with what Get returns.
AllSettings(s, e, r) ==
    Over(s, [token    |-> IF r.token = None THEN None ELSE e.token,
             clientId |-> IF r.clientId = None THEN None ELSE e.clientId,
             offline  |-> IF r.offline = NoMode THEN NoMode ELSE e.offline], r)

\* What a load adds to configuration c under environment e: what is in neither,
\* the token only if one was had.
Missing(c, e, p, token) ==
    [token    |-> IF Over(Empty, e, c).token = None THEN token ELSE None,
     clientId |-> IF Over(Empty, e, c).clientId = None THEN p ELSE None,
     offline  |-> IF Over(Empty, e, c).offline = NoMode THEN "fail" ELSE NoMode]

\* The configuration one process after the other would leave.  A load with nothing
\* to add writes nothing; one that adds something also replaces what is stored by
\* what its environment says.
Stored(p) ==
    LET new == Missing(store, env[p], p, result[p].token)
    IN  IF op[p] # Load THEN [store EXCEPT ![op[p].key] = op[p].value]
        ELSE IF new = Empty THEN store
        ELSE AllSettings(new, env[p], store)

-----------------------------------------------------------------------------
(* InitLocalConfigFile.                                                      *)

Start(p) ==
    /\ pc[p] = "idle"
    /\ Goto(p, "mkfile")
    /\ overlap' = (overlap \/ Running # {})
    /\ UNCHANGED <<exists, file, op, env, proc, faults, store>>

\* exists(configPath): the answer may be stale when os.Create runs.
CheckFile(p) ==
    /\ pc[p] = "mkfile"
    /\ Goto(p, IF exists THEN "read" ELSE "create")
    /\ UNCHANGED <<exists, file, op, env, proc, faults, overlap, store>>

\* os.Create truncates a file another process made meanwhile.
CreateFile(p) ==
    /\ pc[p] = "create"
    /\ exists' = TRUE /\ file' = Empty
    /\ Goto(p, "read")
    /\ UNCHANGED <<op, env, proc, faults, overlap, store>>

\* viper.ReadInConfig, then the values GetLocalConfiguration starts from.
ReadFile(p) ==
    /\ pc[p] = "read"
    /\ \/ file = Corrupt /\ Goto(p, "failed") /\ UNCHANGED <<read, result>>
       \/ /\ file # Corrupt
          /\ read' = [read EXCEPT ![p] = file]
          /\ result' = [result EXCEPT ![p] = Over(set[p], env[p], file)]
          /\ Goto(p, IF op[p] = Load THEN "offline" ELSE "set")
    /\ UNCHANGED <<exists, file, op, env, set, writing, asked, faults, overlap, store>>

-----------------------------------------------------------------------------
(* GetLocalConfiguration.                                                    *)

\* setViperVariable: set in memory, then the file is rewritten.
SetViperVariable(p, key, value, next) ==
    /\ result' = [result EXCEPT ![p][key] = value]
    /\ set' = [set EXCEPT ![p][key] = value]
    /\ writing' = [writing EXCEPT ![p] = next]
    /\ Goto(p, "truncate")

DefaultOffline(p) ==
    /\ pc[p] = "offline"
    /\ \/ /\ result[p].offline # NoMode
          /\ Goto(p, "token") /\ UNCHANGED <<set, result, writing>>
       \/ /\ result[p].offline = NoMode
          /\ SetViperVariable(p, "offline", "fail", "token")
    /\ UNCHANGED <<exists, file, op, env, read, asked, faults, overlap, store>>

\* (Mutant: the token is asked for before the mode is looked at.)
CreateTokenAnyMode(p) ==
    /\ pc[p] = "token"
    /\ \/ /\ result[p].token # None
          /\ Goto(p, "clientId") /\ UNCHANGED <<set, result, writing, asked>>
       \/ /\ result[p].token = None
          /\ asked' = [asked EXCEPT ![p] = TRUE]
          /\ SetViperVariable(p, "token", p, "clientId")
    /\ UNCHANGED <<exists, file, op, env, read, faults, overlap, store>>

\* The token: none is asked for in local mode; the backend may refuse one
\* (the process fails) or answer with an empty one (nothing is saved).
CreateToken(p) ==
    /\ pc[p] = "token"
    /\ \/ /\ result[p].token # None \/ result[p].offline = "local"
          /\ Goto(p, "clientId") /\ UNCHANGED <<set, result, writing, asked>>
       \/ /\ result[p].token = None /\ result[p].offline # "local"
          /\ asked' = [asked EXCEPT ![p] = TRUE]
          /\ \/ /\ Goto(p, "failed") \/ Goto(p, "clientId")
                /\ UNCHANGED <<set, result, writing>>
             \/ SetViperVariable(p, "token", p, "clientId")
    /\ UNCHANGED <<exists, file, op, env, read, faults, overlap, store>>

\* (Mutant: a client id is generated but not returned.)
ClientIdUnset(p) ==
    /\ pc[p] = "clientId"
    /\ Goto(p, "done")
    /\ store' = Stored(p)
    /\ UNCHANGED <<exists, file, op, env, proc, faults, overlap>>

ClientId(p) ==
    /\ pc[p] = "clientId"
    /\ \/ /\ result[p].clientId # None
          /\ Goto(p, "done") /\ UNCHANGED <<set, result, writing>>
          /\ store' = Stored(p)
       \/ /\ result[p].clientId = None
          /\ SetViperVariable(p, "clientId", p, "done")
          /\ UNCHANGED store
    /\ UNCHANGED <<exists, file, op, env, read, asked, faults, overlap>>

\* `config set`: the one key.
SetKey(p) ==
    /\ pc[p] = "set"
    /\ SetViperVariable(p, op[p].key, op[p].value, "done")
    /\ UNCHANGED <<exists, file, op, env, read, asked, faults, overlap, store>>

-----------------------------------------------------------------------------
(* viper.WriteConfig and the reading back.                                   *)

\* (Mutant: opened without truncation.)
TruncateNot(p) ==
    /\ pc[p] = "truncate"
    /\ exists' = TRUE
    /\ Goto(p, "write")
    /\ UNCHANGED <<file, op, env, proc, faults, overlap, store>>

Truncate(p) ==
    /\ pc[p] = "truncate"
    /\ exists' = TRUE /\ file' = Empty
    /\ Goto(p, "write")
    /\ UNCHANGED <<op, env, proc, faults, overlap, store>>

\* (Mutant: only the values set by this process are written.)
ContentSetOnly(p) == set[p]

\* All of viper's settings are written, not the key that changed only.
Content(p) == AllSettings(set[p], env[p], read[p])

\* The write starts at the beginning of the file: over what another process
\* wrote meanwhile it can leave a mixture.
Write(p) ==
    /\ pc[p] = "write"
    /\ file' \in {Content(p)} \cup (IF file = Empty THEN {} ELSE {Corrupt})
    /\ \/ /\ op[p] # Load
          /\ Goto(p, "done") /\ store' = Stored(p)
       \/ /\ op[p] = Load
          /\ Goto(p, "reread") /\ UNCHANGED store
    /\ UNCHANGED <<exists, op, env, proc, faults, overlap>>

\* setViperVariable reads the file back, whatever it holds by then.
ReRead(p) ==
    /\ pc[p] = "reread"
    /\ \/ /\ file = Corrupt
          /\ Goto(p, "failed") /\ UNCHANGED <<read, store>>
       \/ /\ file # Corrupt
          /\ read' = [read EXCEPT ![p] = file]
          /\ Goto(p, writing[p])
          /\ IF writing[p] = "done" THEN store' = Stored(p) ELSE UNCHANGED store
    /\ UNCHANGED <<exists, file, op, env, set, result, writing, asked, faults, overlap>>

\* A full disk: the file stays truncated.
WriteFails(p) ==
    /\ pc[p] = "write" /\ faults < MaxFaults
    /\ faults' = faults + 1
    /\ Goto(p, "failed")
    /\ UNCHANGED <<exists, file, op, env, proc, overlap, store>>

Kill(p) ==
    /\ p \in Running /\ faults < MaxFaults
    /\ faults' = faults + 1
    /\ Goto(p, "killed")
    /\ UNCHANGED <<exists, file, op, env, proc, overlap, store>>

-----------------------------------------------------------------------------
Next ==
    \E p \in Procs :
        \/ Start(p) \/ CheckFile(p) \/ CreateFile(p) \/ ReadFile(p)
        \/ DefaultOffline(p) \/ CreateToken(p) \/ ClientId(p) \/ SetKey(p)
        \/ Truncate(p) \/ Write(p) \/ ReRead(p) \/ WriteFails(p) \/ Kill(p)

Spec == Init /\ [][Next]_vars

-----------------------------------------------------------------------------
(* Correctness.                                                              *)

\* Processes that run one after the other, none killed and no write or request
\* failing, leave exactly what each was to leave: a key set stays set, nothing is
\* lost though the file is rewritten up to three times by one of them, and the
\* environment replaces stored values only when a load has something to add.
SerialSettingsKept ==
    Running = {} /\ ~overlap /\ faults = 0 /\ (\A p \in Procs : pc[p] # "failed")
        => file = store

\* A process in local mode asks for no token, and a token is asked for only
\* by a process that found none.
LocalModeAsksNoToken ==
    \A p \in Procs :
        asked[p] => result[p].offline # "local" /\ result[p].token \in {None, p}

\* Whatever the others do to the file, a load that succeeds returns an offline
\* mode, a client id, and a token unless none could be had; and only a load that
\* may asks for one.
LoadedConfigUsable ==
    /\ LocalModeAsksNoToken
    /\ \A p \in Procs :
          pc[p] = "done" /\ op[p] = Load =>
              /\ result[p].offline # NoMode /\ result[p].clientId # None
              /\ result[p].token # None \/ asked[p] \/ result[p].offline = "local"

\* A corrupt file takes two writers at once: a single process, even killed or
\* out of space, leaves a file that can be read.
CorruptOnlyByOverlap == file = Corrupt => overlap

=============================================================================
