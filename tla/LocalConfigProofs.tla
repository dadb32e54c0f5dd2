-------------------------- MODULE LocalConfigProofs ---------------------------
(* Proofs about LocalConfig, for any processes, settings and environments:    *)
(*   TypeCorrect       Spec => []TypeOK                                       *)
(*   LoadsUsable       Spec => []LoadedConfigUsable                           *)
(*   NoCorruptionAlone Spec => []CorruptOnlyByOverlap                         *)
(*   SerialKept        Spec => []SerialSettingsKept                           *)
(* A rewriting of the file interrupts a process: Stage says where it goes on. *)
(* The first two theorems need what each process knows at its stage (Shaped,  *)
(* Loaded, Asking), the others that processes that never overlapped ran one   *)
(* at a time (Alone) and, for the last, what the running one has added, in    *)
(* memory and in the file, to what was stored before it (Kept).               *)
EXTENDS LocalConfig, TLAPS

Rewriting == {"truncate", "write", "reread"}

\* The label at which a process goes on once the file is rewritten.
Stage(p) == IF pc[p] \in Rewriting THEN writing[p] ELSE pc[p]

\* Which labels belong to which operation, and what starts empty.
Shaped(p) ==
    /\ pc[p] \in Rewriting => writing[p] # "none"
    /\ op[p] # Load => /\ pc[p] \notin {"offline", "token", "clientId", "reread"}
                       /\ pc[p] \in Rewriting => writing[p] = "done"
                       /\ ~asked[p]
    /\ op[p] = Load => pc[p] # "set"
    /\ op[p] # Load => env[p] = Empty
    /\ pc[p] \in {"idle", "mkfile", "create", "read"} => set[p] = Empty /\ ~asked[p]

\* What a load has put together when it comes to a stage.
Loaded(p) ==
    op[p] = Load =>
        /\ Stage(p) \in {"token", "clientId", "done"} => result[p].offline # NoMode
        /\ Stage(p) \in {"clientId", "done"} =>
              result[p].token # None \/ asked[p] \/ result[p].offline = "local"
        /\ Stage(p) = "done" => result[p].clientId # None

\* A process that asked for a token is past that stage.
Asking(p) ==
    asked[p] => /\ Stage(p) \in {"clientId"} \cup Final
                /\ result[p].offline # "local"
                /\ result[p].token \in {None, p}

LocalInv == \A p \in Procs : Shaped(p) /\ Loaded(p) /\ Asking(p)

\* Without overlap one process runs at a time, and writes the file it emptied.
Alone ==
    ~overlap => /\ \A p, q \in Running : p = q
                /\ \A p \in Procs : pc[p] = "write" => file = Empty
                /\ file # Corrupt

\* Nothing has gone wrong so far.
Calm == ~overlap /\ faults = 0 /\ \A p \in Procs : pc[p] # "failed"

\* What a running process has set when it comes to a stage: what was missing.
Held(p) ==
    IF op[p] # Load
    THEN set[p] = IF Stage(p) = "set" THEN Empty ELSE [Empty EXCEPT ![op[p].key] = op[p].value]
    ELSE LET new == Missing(store, env[p], p, result[p].token)
         IN  /\ set[p].offline = IF Stage(p) = "offline" THEN NoMode ELSE new.offline
             /\ set[p].token = IF Stage(p) \in {"offline", "token"} THEN None ELSE new.token
             /\ set[p].clientId = IF Stage(p) # "done" THEN None ELSE new.clientId

\* What it has in memory and would write is that over what was stored, although it
\* has read the file again since.
Agrees(p) ==
    /\ result[p] = Over(set[p], env[p], store)
    /\ Content(p) = AllSettings(set[p], env[p], store)

\* The file when it is not being rewritten.
AsLeft(p) == IF set[p] = Empty THEN store ELSE AllSettings(set[p], env[p], store)

\* The file is as stored until the process has read it; then it has what the process
\* has added.
Tracked(p) ==
    IF pc[p] \in {"mkfile", "create", "read"}
    THEN /\ file = store
         /\ pc[p] = "create" => file = Empty
    ELSE /\ Held(p) /\ Agrees(p)
         /\ pc[p] \in Rewriting => set[p] # Empty
         /\ pc[p] \notin {"truncate", "write"} => file = AsLeft(p)
         /\ pc[p] \notin Rewriting => read[p] = file

Kept == Calm => /\ Running = {} => file = store
                /\ \A p \in Running : Tracked(p)

NoFile == ~exists => file = Empty /\ \A p \in Procs : pc[p] # "write"

Inv == TypeOK /\ LocalInv /\ Alone /\ NoFile /\ Kept
-----------------------------------------------------------------------------
(* Types.                                                                    *)

LEMMA Values ==
    /\ Load.key = "load" /\ Load \notin Settings
    /\ NoMode \notin {"fail", "local", "other"}
    /\ Empty \in Config /\ Corrupt \notin Config /\ None \in Ids
    /\ \A p \in Procs : p \in Ids /\ p # None
    /\ \A s \in Settings :
          \/ s.key = "offline" /\ s.value \in {"fail", "local"}
          \/ s.key = "token" /\ s.value \in Ids \ {None}
<1>1. Load.key = "load" /\ Load \notin Settings
  BY SettingsAssumption DEF Load
<1>2. Empty \in Config /\ Corrupt \notin Config /\ None \in Ids
  BY NoneAssumption DEF Empty, Config, Ids
<1>3. \A p \in Procs : p \in Ids /\ p # None
  BY NoneAssumption DEF Ids
<1>4. ASSUME NEW s \in Settings, s.key = "token" PROVE s.value \in Ids
  BY <1>4 DEF Ids
<1>5. NoMode \notin {"fail", "local", "other"}
  BY DEF NoMode
<1> QED BY <1>1, <1>2, <1>3, <1>4, <1>5, SettingsAssumption

\* What the rewriting of one key does to the types.
LEMMA SetTypes ==
  ASSUME TypeOK, NEW p \in Procs, NEW key, NEW value, NEW next \in {"token", "clientId", "done"},
         \/ key = "offline" /\ value \in {"fail", "local"}
         \/ key \in {"token", "clientId"} /\ value \in Ids,
         SetViperVariable(p, key, value, next)
  PROVE  /\ pc' \in [Procs -> Labels] /\ set' \in [Procs -> Config]
         /\ result' \in [Procs -> Config]
         /\ writing' \in [Procs -> {"none", "token", "clientId", "done"}]
<1>1. ASSUME NEW c \in Config PROVE [c EXCEPT ![key] = value] \in Config
  BY DEF Config
<1>2. result[p] \in Config /\ set[p] \in Config
  BY DEF TypeOK
<1>3. /\ [result[p] EXCEPT ![key] = value] \in Config
      /\ [set[p] EXCEPT ![key] = value] \in Config
  BY <1>1, <1>2
<1> QED BY <1>3 DEF SetViperVariable, Goto, TypeOK, Labels

\* The labels and values after it.
LEMMA SetEffect ==
  ASSUME TypeOK, NEW p \in Procs, NEW key \in {"offline", "token", "clientId"},
         NEW value, NEW next, SetViperVariable(p, key, value, next)
  PROVE  /\ pc'[p] = "truncate" /\ writing'[p] = next
         /\ result'[p] = [result[p] EXCEPT ![key] = value]
         /\ set'[p] = [set[p] EXCEPT ![key] = value]
BY DEF SetViperVariable, Goto, TypeOK

LEMMA SetFields ==
  ASSUME TypeOK, NEW p \in Procs, NEW value, NEW next
  PROVE  /\ SetViperVariable(p, "offline", value, next) =>
               /\ result'[p].offline = value /\ result'[p].token = result[p].token
               /\ result'[p].clientId = result[p].clientId
               /\ set'[p].offline = value /\ set'[p].token = set[p].token
               /\ set'[p].clientId = set[p].clientId
         /\ SetViperVariable(p, "token", value, next) =>
               /\ result'[p].token = value /\ result'[p].offline = result[p].offline
               /\ result'[p].clientId = result[p].clientId
               /\ set'[p].token = value /\ set'[p].offline = set[p].offline
               /\ set'[p].clientId = set[p].clientId
         /\ SetViperVariable(p, "clientId", value, next) =>
               /\ result'[p].clientId = value /\ result'[p].offline = result[p].offline
               /\ result'[p].token = result[p].token
               /\ set'[p].clientId = value /\ set'[p].offline = set[p].offline
               /\ set'[p].token = set[p].token
<1>1. result[p] \in Config /\ set[p] \in Config
  BY DEF TypeOK
<1>2. ASSUME SetViperVariable(p, "offline", value, next)
      PROVE  /\ result'[p].offline = value /\ result'[p].token = result[p].token
             /\ result'[p].clientId = result[p].clientId
             /\ set'[p].offline = value /\ set'[p].token = set[p].token
             /\ set'[p].clientId = set[p].clientId
  <2>1. /\ result'[p] = [result[p] EXCEPT !["offline"] = value]
        /\ set'[p] = [set[p] EXCEPT !["offline"] = value]
    BY <1>2, SetEffect
  <2> QED BY <1>1, <2>1 DEF Config
<1>3. ASSUME SetViperVariable(p, "token", value, next)
      PROVE  /\ result'[p].token = value /\ result'[p].offline = result[p].offline
             /\ result'[p].clientId = result[p].clientId
             /\ set'[p].token = value /\ set'[p].offline = set[p].offline
             /\ set'[p].clientId = set[p].clientId
  <2>1. /\ result'[p] = [result[p] EXCEPT !["token"] = value]
        /\ set'[p] = [set[p] EXCEPT !["token"] = value]
    BY <1>3, SetEffect
  <2> QED BY <1>1, <2>1 DEF Config
<1>4. ASSUME SetViperVariable(p, "clientId", value, next)
      PROVE  /\ result'[p].clientId = value /\ result'[p].offline = result[p].offline
             /\ result'[p].token = result[p].token
             /\ set'[p].clientId = value /\ set'[p].offline = set[p].offline
             /\ set'[p].token = set[p].token
  <2>1. /\ result'[p] = [result[p] EXCEPT !["clientId"] = value]
        /\ set'[p] = [set[p] EXCEPT !["clientId"] = value]
    BY <1>4, SetEffect
  <2> QED BY <1>1, <2>1 DEF Config
<1> QED BY <1>2, <1>3, <1>4

LEMMA OverType ==
  ASSUME NEW s \in Config, NEW e \in Config, NEW r \in Config
  PROVE  Over(s, e, r) \in Config /\ AllSettings(s, e, r) \in Config
<1>1. ASSUME NEW t \in Config, NEW d \in Config, NEW c \in Config
      PROVE  Over(t, d, c) \in Config
  <2>1. /\ Over(t, d, c).token \in Ids /\ Over(t, d, c).clientId \in Ids
        /\ Over(t, d, c).offline \in {NoMode, "fail", "local", "other"}
    BY DEF Over, Config
  <2>2. Over(t, d, c) = [token    |-> Over(t, d, c).token,
                         clientId |-> Over(t, d, c).clientId,
                         offline  |-> Over(t, d, c).offline]
    BY DEF Over
  <2> QED BY <2>1, <2>2 DEF Config
<1>2. \E d \in Config : AllSettings(s, e, r) = Over(s, d, r)
  <2>1. [token    |-> IF r.token = None THEN None ELSE e.token,
         clientId |-> IF r.clientId = None THEN None ELSE e.clientId,
         offline  |-> IF r.offline = NoMode THEN NoMode ELSE e.offline] \in Config
    BY Values DEF Config
  <2> QED BY <2>1 DEF AllSettings
<1> QED BY <1>1, <1>2

LEMMA MissingType ==
  ASSUME NEW c, NEW e, NEW p \in Procs, NEW token \in Ids
  PROVE  Missing(c, e, p, token) \in Config
BY Values DEF Missing, Config

LEMMA StoredType ==
  ASSUME TypeOK, NEW p \in Procs
  PROVE  Stored(p) \in Config
<1> DEFINE new == Missing(store, env[p], p, result[p].token)
<1>1. store \in Config /\ env[p] \in Config /\ result[p].token \in Ids
  BY DEF TypeOK, Config
<1>2. new \in Config
  BY <1>1, MissingType
<1>3. AllSettings(new, env[p], store) \in Config
  BY <1>1, <1>2, OverType
<1>4. \A s \in Settings : [store EXCEPT ![s.key] = s.value] \in Config
  BY <1>1, Values DEF Config
<1> QED BY <1>1, <1>3, <1>4 DEF Stored, TypeOK

LEMMA ContentType ==
  ASSUME TypeOK, NEW p \in Procs
  PROVE  Content(p) \in Config
<1>1. set[p] \in Config /\ env[p] \in Config /\ read[p] \in Config
  BY DEF TypeOK
<1> QED BY <1>1, OverType DEF Content

LEMMA TypeStep ==
  ASSUME TypeOK, LocalInv, [Next]_vars
  PROVE  TypeOK'
<1> USE Values
<1>1. CASE UNCHANGED vars
  BY <1>1 DEF vars, proc, TypeOK
<1>2. ASSUME NEW p \in Procs, Start(p)
      PROVE  TypeOK'
  <2>1. overlap' \in BOOLEAN
    BY <1>2 DEF Start
  <2> QED BY <1>2, <2>1 DEF TypeOK, Start, Goto, Labels, proc
<1>3. ASSUME NEW p \in Procs, CheckFile(p)
      PROVE  TypeOK'
  BY <1>3 DEF TypeOK, CheckFile, Goto, Labels, proc
<1>4. ASSUME NEW p \in Procs, CreateFile(p) \/ Truncate(p)
      PROVE  TypeOK'
  BY <1>4 DEF TypeOK, CreateFile, Truncate, Goto, Labels, proc
<1>5. ASSUME NEW p \in Procs, ReadFile(p)
      PROVE  TypeOK'
  <2>1. file # Corrupt => Over(set[p], env[p], file) \in Config
    BY OverType DEF TypeOK
  <2> QED BY <1>5, <2>1 DEF TypeOK, ReadFile, Goto, Labels, Final
<1>6. ASSUME NEW p \in Procs, DefaultOffline(p)
      PROVE  TypeOK'
  <2>1. CASE SetViperVariable(p, "offline", "fail", "token")
    <3>1. /\ pc' \in [Procs -> Labels] /\ set' \in [Procs -> Config]
          /\ result' \in [Procs -> Config]
          /\ writing' \in [Procs -> {"none", "token", "clientId", "done"}]
      BY <2>1, SetTypes
    <3> QED BY <1>6, <3>1 DEF DefaultOffline, TypeOK
  <2>2. CASE Goto(p, "token") /\ UNCHANGED <<set, result, writing>>
    BY <1>6, <2>2 DEF DefaultOffline, TypeOK, Goto, Labels
  <2> QED BY <1>6, <2>1, <2>2 DEF DefaultOffline
<1>7. ASSUME NEW p \in Procs, CreateToken(p)
      PROVE  TypeOK'
  <2>1. /\ UNCHANGED <<exists, file, op, env, read, faults, overlap, store>>
        /\ asked' \in [Procs -> BOOLEAN]
    BY <1>7 DEF CreateToken, TypeOK
  <2>2. CASE SetViperVariable(p, "token", p, "clientId")
    <3>1. /\ pc' \in [Procs -> Labels] /\ set' \in [Procs -> Config]
          /\ result' \in [Procs -> Config]
          /\ writing' \in [Procs -> {"none", "token", "clientId", "done"}]
      BY <2>2, SetTypes
    <3> QED BY <2>1, <3>1 DEF TypeOK
  <2>3. CASE (Goto(p, "clientId") \/ Goto(p, "failed")) /\ UNCHANGED <<set, result, writing>>
    BY <2>1, <2>3 DEF TypeOK, Goto, Labels, Final
  <2> QED BY <1>7, <2>2, <2>3 DEF CreateToken
<1>8. ASSUME NEW p \in Procs, ClientId(p)
      PROVE  TypeOK'
  <2>1. CASE SetViperVariable(p, "clientId", p, "done") /\ UNCHANGED store
    <3>1. /\ pc' \in [Procs -> Labels] /\ set' \in [Procs -> Config]
          /\ result' \in [Procs -> Config]
          /\ writing' \in [Procs -> {"none", "token", "clientId", "done"}]
      BY <2>1, SetTypes
    <3> QED BY <1>8, <2>1, <3>1 DEF ClientId, TypeOK
  <2>2. CASE /\ Goto(p, "done") /\ UNCHANGED <<set, result, writing>>
             /\ store' = Stored(p)
    BY <1>8, <2>2, StoredType DEF ClientId, TypeOK, Goto, Labels, Final
  <2> QED BY <1>8, <2>1, <2>2 DEF ClientId
<1>9. ASSUME NEW p \in Procs, SetKey(p)
      PROVE  TypeOK'
  <2>1. op[p] \in Settings
    BY <1>9 DEF LocalInv, Shaped, TypeOK, SetKey
  <2>2. SetViperVariable(p, op[p].key, op[p].value, "done")
    BY <1>9 DEF SetKey
  <2>3. /\ pc' \in [Procs -> Labels] /\ set' \in [Procs -> Config]
        /\ result' \in [Procs -> Config]
        /\ writing' \in [Procs -> {"none", "token", "clientId", "done"}]
    BY <2>1, <2>2, SetTypes
  <2> QED BY <1>9, <2>3 DEF SetKey, TypeOK
<1>10. ASSUME NEW p \in Procs, Write(p)
       PROVE  TypeOK'
  <2>1. file' \in Config \cup {Corrupt}
    BY <1>10, ContentType DEF Write
  <2>2. store' \in Config
    BY <1>10, StoredType DEF Write, TypeOK
  <2> QED BY <1>10, <2>1, <2>2 DEF Write, TypeOK, Goto, Labels, Final, proc
<1>11. ASSUME NEW p \in Procs, ReRead(p)
       PROVE  TypeOK'
  <2>1. store' \in Config
    BY <1>11, StoredType DEF ReRead, TypeOK
  <2>2. writing[p] \in Labels
    BY <1>11 DEF ReRead, LocalInv, Shaped, Rewriting, TypeOK, Labels, Final
  <2> QED BY <1>11, <2>1, <2>2 DEF ReRead, TypeOK, Goto, Labels, Final
<1>12. ASSUME NEW p \in Procs, WriteFails(p) \/ Kill(p)
       PROVE  TypeOK'
  BY <1>12, FaultsAssumption
     DEF TypeOK, WriteFails, Kill, Goto, Labels, Final, proc
<1> QED
  BY <1>1, <1>2, <1>3, <1>4, <1>5, <1>6, <1>7, <1>8, <1>9, <1>10, <1>11, <1>12 DEF Next
-----------------------------------------------------------------------------
(* What a process knows.                                                     *)

LocalOf(p) == Shaped(p) /\ Loaded(p) /\ Asking(p)

\* A process is not disturbed by what others do.
LEMMA OthersKeepLocal ==
  ASSUME TypeOK, NEW q \in Procs, LocalOf(q),
         pc'[q] = pc[q], op'[q] = op[q], env'[q] = env[q], set'[q] = set[q], result'[q] = result[q],
         writing'[q] = writing[q], asked'[q] = asked[q]
  PROVE  LocalOf(q)'
BY DEF LocalOf, Shaped, Loaded, Asking, Stage

\* What each action leaves alone of the processes that do not act.
LEMMA OnlyActorMoves ==
  ASSUME TypeOK, NEW p \in Procs, NEW q \in Procs \ {p},
         \/ Start(p) \/ CheckFile(p) \/ CreateFile(p) \/ ReadFile(p)
         \/ DefaultOffline(p) \/ CreateToken(p) \/ ClientId(p) \/ SetKey(p)
         \/ Truncate(p) \/ Write(p) \/ ReRead(p) \/ WriteFails(p) \/ Kill(p)
  PROVE  /\ pc'[q] = pc[q] /\ op'[q] = op[q] /\ set'[q] = set[q]
         /\ result'[q] = result[q] /\ read'[q] = read[q]
         /\ writing'[q] = writing[q] /\ asked'[q] = asked[q] /\ env'[q] = env[q]
<1> USE DEF TypeOK, Goto, SetViperVariable, proc
<1>1. CASE Start(p) \/ CheckFile(p) \/ CreateFile(p) \/ ReadFile(p)
  BY <1>1 DEF Start, CheckFile, CreateFile, ReadFile
<1>2. CASE DefaultOffline(p) \/ CreateToken(p) \/ ClientId(p) \/ SetKey(p)
  BY <1>2 DEF DefaultOffline, CreateToken, ClientId, SetKey
<1>3. CASE Truncate(p) \/ Write(p) \/ ReRead(p) \/ WriteFails(p) \/ Kill(p)
  BY <1>3 DEF Truncate, Write, ReRead, WriteFails, Kill
<1> QED BY <1>1, <1>2, <1>3

LEMMA LocalStep ==
  ASSUME TypeOK, LocalInv, [Next]_vars
  PROVE  LocalInv'
<1> SUFFICES ASSUME NEW q \in Procs PROVE LocalOf(q)'
  BY DEF LocalInv, LocalOf
<1> USE Values
<1>1. LocalOf(q)
  BY DEF LocalInv, LocalOf
<1>2. CASE UNCHANGED vars
  BY <1>1, <1>2, OthersKeepLocal DEF vars, proc
<1>3. ASSUME NEW p \in Procs, p # q,
             \/ Start(p) \/ CheckFile(p) \/ CreateFile(p) \/ ReadFile(p)
             \/ DefaultOffline(p) \/ CreateToken(p) \/ ClientId(p) \/ SetKey(p)
             \/ Truncate(p) \/ Write(p) \/ ReRead(p) \/ WriteFails(p) \/ Kill(p)
      PROVE  LocalOf(q)'
  BY <1>1, <1>3, OnlyActorMoves, OthersKeepLocal
<1>4. CASE Start(q) \/ CheckFile(q) \/ CreateFile(q) \/ Truncate(q)
  <2>1. /\ UNCHANGED <<op[q], env[q], set[q], result[q], writing[q], asked[q]>>
        /\ \/ pc[q] = "idle" /\ pc'[q] = "mkfile"
           \/ pc[q] = "mkfile" /\ pc'[q] \in {"create", "read"}
           \/ pc[q] = "create" /\ pc'[q] = "read"
           \/ pc[q] = "truncate" /\ pc'[q] = "write"
    BY <1>4 DEF Start, CheckFile, CreateFile, Truncate, proc, TypeOK, Goto
  <2> QED BY <1>1, <2>1 DEF LocalOf, Shaped, Loaded, Asking, Stage, Rewriting, Final
<1>5. CASE ReadFile(q)
  <2>1. /\ UNCHANGED <<op[q], env[q], set[q], writing[q], asked[q]>>
        /\ pc[q] = "read"
        /\ \/ pc'[q] = "failed"
           \/ op[q] = Load /\ pc'[q] = "offline"
           \/ op[q] # Load /\ pc'[q] = "set"
    BY <1>5 DEF ReadFile, TypeOK, Goto
  <2> QED BY <1>1, <2>1 DEF LocalOf, Shaped, Loaded, Asking, Stage, Rewriting, Final
<1>6. CASE DefaultOffline(q)
  <2>1. /\ pc[q] = "offline" /\ UNCHANGED <<op[q], env[q]>> /\ asked'[q] = asked[q]
    BY <1>6 DEF DefaultOffline
  <2>2. CASE SetViperVariable(q, "offline", "fail", "token")
    <3>1. pc'[q] = "truncate" /\ writing'[q] = "token"
      BY <2>2 DEF SetViperVariable, Goto, TypeOK
    <3>2. result'[q].offline = "fail"
      BY <2>2, SetFields
    <3> QED BY <1>1, <2>1, <3>1, <3>2 DEF LocalOf, Shaped, Loaded, Asking, Stage, Rewriting, Final
  <2>3. CASE result[q].offline # NoMode /\ Goto(q, "token") /\ UNCHANGED <<set, result, writing>>
    <3>1. /\ pc'[q] = "token" /\ UNCHANGED <<set[q], result[q], writing[q]>>
          /\ result[q].offline # NoMode
      BY <2>3 DEF Goto, TypeOK
    <3> QED BY <1>1, <2>1, <3>1 DEF LocalOf, Shaped, Loaded, Asking, Stage, Rewriting, Final
  <2> QED BY <1>6, <2>2, <2>3 DEF DefaultOffline
<1>7. CASE CreateToken(q)
  <2>1. pc[q] = "token" /\ UNCHANGED <<op[q], env[q]>> /\ op[q] = Load /\ ~asked[q]
    BY <1>1, <1>7 DEF CreateToken, LocalOf, Shaped, Asking, Stage, Rewriting, Final
  <2>2. result[q].offline # NoMode
    BY <1>1, <2>1 DEF LocalOf, Loaded, Stage, Rewriting
  <2>3. CASE /\ result[q].token # None \/ result[q].offline = "local"
             /\ Goto(q, "clientId") /\ UNCHANGED <<set, result, writing, asked>>
    <3>1. /\ pc'[q] = "clientId" /\ UNCHANGED <<set[q], result[q], writing[q], asked[q]>>
          /\ result[q].token # None \/ result[q].offline = "local"
      BY <2>3 DEF Goto, TypeOK
    <3> QED BY <1>1, <2>1, <2>2, <3>1 DEF LocalOf, Shaped, Loaded, Asking, Stage, Rewriting, Final
  <2>4. CASE /\ result[q].token = None /\ result[q].offline # "local"
             /\ asked' = [asked EXCEPT ![q] = TRUE]
             /\ Goto(q, "failed") \/ Goto(q, "clientId")
             /\ UNCHANGED <<set, result, writing>>
    <3>1. /\ pc'[q] \in {"failed", "clientId"} /\ asked'[q]
          /\ UNCHANGED <<set[q], result[q], writing[q]>>
          /\ result[q].token = None /\ result[q].offline # "local"
      BY <2>4 DEF Goto, TypeOK
    <3> QED BY <1>1, <2>1, <2>2, <3>1 DEF LocalOf, Shaped, Loaded, Asking, Stage, Rewriting, Final
  <2>5. CASE /\ result[q].token = None /\ result[q].offline # "local"
             /\ asked' = [asked EXCEPT ![q] = TRUE]
             /\ SetViperVariable(q, "token", q, "clientId")
    <3>1. pc'[q] = "truncate" /\ writing'[q] = "clientId"
      BY <2>5 DEF SetViperVariable, Goto, TypeOK
    <3>2. result'[q].token = q /\ result'[q].offline = result[q].offline
      BY <2>5, SetFields
    <3>3. asked'[q] /\ result[q].offline # "local"
      BY <2>5 DEF TypeOK
    <3> QED
      BY <1>1, <2>1, <2>2, <3>1, <3>2, <3>3
         DEF LocalOf, Shaped, Loaded, Asking, Stage, Rewriting, Final
  <2> QED BY <1>7, <2>3, <2>4, <2>5 DEF CreateToken
<1>8. CASE ClientId(q)
  <2>1. /\ pc[q] = "clientId" /\ UNCHANGED <<op[q], env[q]>> /\ asked'[q] = asked[q] /\ op[q] = Load
    BY <1>1, <1>8 DEF ClientId, LocalOf, Shaped
  <2>2. CASE SetViperVariable(q, "clientId", q, "done")
    <3>1. pc'[q] = "truncate" /\ writing'[q] = "done"
      BY <2>2 DEF SetViperVariable, Goto, TypeOK
    <3>2. /\ result'[q].clientId = q /\ result'[q].offline = result[q].offline
          /\ result'[q].token = result[q].token
      BY <2>2, SetFields
    <3> QED BY <1>1, <2>1, <3>1, <3>2 DEF LocalOf, Shaped, Loaded, Asking, Stage, Rewriting, Final
  <2>3. CASE result[q].clientId # None /\ Goto(q, "done") /\ UNCHANGED <<set, result, writing>>
    <3>1. /\ pc'[q] = "done" /\ UNCHANGED <<set[q], result[q], writing[q]>>
          /\ result[q].clientId # None
      BY <2>3 DEF Goto, TypeOK
    <3> QED BY <1>1, <2>1, <3>1 DEF LocalOf, Shaped, Loaded, Asking, Stage, Rewriting, Final
  <2> QED BY <1>8, <2>2, <2>3 DEF ClientId
<1>9. CASE SetKey(q)
  <2>1. /\ pc[q] = "set" /\ UNCHANGED <<op[q], env[q]>> /\ asked'[q] = asked[q]
        /\ pc'[q] = "truncate" /\ writing'[q] = "done"
    BY <1>9 DEF SetKey, SetViperVariable, Goto, TypeOK
  <2> QED BY <1>1, <2>1 DEF LocalOf, Shaped, Loaded, Asking, Stage, Rewriting, Final
<1>10. CASE Write(q)
  <2>1. /\ pc[q] = "write" /\ UNCHANGED <<op[q], env[q], set[q], result[q], writing[q], asked[q]>>
        /\ pc'[q] = IF op[q] = Load THEN "reread" ELSE "done"
    BY <1>10 DEF Write, proc, Goto, TypeOK
  <2> QED BY <1>1, <2>1 DEF LocalOf, Shaped, Loaded, Asking, Stage, Rewriting, Final
<1>11. CASE ReRead(q)
  <2>1. /\ pc[q] = "reread" /\ UNCHANGED <<op[q], env[q], set[q], result[q], writing[q], asked[q]>>
        /\ pc'[q] \in {"failed", writing[q]}
    BY <1>11 DEF ReRead, Goto, TypeOK
  <2>2. writing[q] \in {"token", "clientId", "done"}
    BY <1>1, <2>1 DEF LocalOf, Shaped, Rewriting, TypeOK
  <2> QED BY <1>1, <2>1, <2>2 DEF LocalOf, Shaped, Loaded, Asking, Stage, Rewriting, Final
<1>12. CASE WriteFails(q) \/ Kill(q)
  <2>1. /\ pc'[q] \in {"failed", "killed"}
        /\ UNCHANGED <<op[q], env[q], set[q], result[q], writing[q], asked[q]>>
        /\ pc[q] \notin {"idle", "done", "failed", "killed"}
    BY <1>12 DEF WriteFails, Kill, Running, Final, proc, Goto, TypeOK
  <2> QED BY <1>1, <2>1 DEF LocalOf, Shaped, Loaded, Asking, Stage, Rewriting, Final
<1> QED
  BY <1>2, <1>3, <1>4, <1>5, <1>6, <1>7, <1>8, <1>9, <1>10, <1>11, <1>12 DEF Next
-----------------------------------------------------------------------------
(* One process at a time.                                                    *)

\* All actions but the start of a process.
Going(p) ==
    \/ CheckFile(p) \/ CreateFile(p) \/ ReadFile(p) \/ DefaultOffline(p)
    \/ CreateToken(p) \/ ClientId(p) \/ SetKey(p) \/ Truncate(p) \/ Write(p)
    \/ ReRead(p) \/ WriteFails(p) \/ Kill(p)

LEMMA ActorRuns ==
  ASSUME TypeOK, NEW p \in Procs, Going(p)
  PROVE  p \in Running /\ overlap' = overlap
<1> USE DEF Going, Running, Final
<1>1. CASE CheckFile(p) \/ CreateFile(p) \/ ReadFile(p) \/ SetKey(p)
  BY <1>1 DEF CheckFile, CreateFile, ReadFile, SetKey
<1>2. CASE DefaultOffline(p) \/ CreateToken(p) \/ ClientId(p)
  BY <1>2 DEF DefaultOffline, CreateToken, ClientId
<1>3. CASE Truncate(p) \/ Write(p) \/ ReRead(p) \/ WriteFails(p) \/ Kill(p)
  BY <1>3 DEF Truncate, Write, ReRead, WriteFails, Kill
<1> QED BY <1>1, <1>2, <1>3

\* Where the process that starts or goes on is the only one that runs.
LEMMA ActorAlone ==
  ASSUME TypeOK, Alone, ~overlap', NEW p \in Procs, Start(p) \/ Going(p)
  PROVE  /\ ~overlap
         /\ Running \subseteq {p} /\ Running' \subseteq {p}
         /\ \A r \in Procs \ {p} : pc[r] \in {"idle"} \cup Final /\ pc'[r] = pc[r]
<1>1. ~overlap /\ Running \subseteq {p}
  <2>1. CASE Start(p)
    BY <2>1 DEF Start, TypeOK
  <2>2. CASE Going(p)
    BY <2>2, ActorRuns DEF Alone
  <2> QED BY <2>1, <2>2
<1>2. \A r \in Procs \ {p} : pc'[r] = pc[r]
  BY OnlyActorMoves DEF Going
<1>3. \A r \in Procs \ {p} : pc[r] \in {"idle"} \cup Final
  BY <1>1 DEF Running
<1>4. Running' \subseteq {p}
  BY <1>2, <1>3 DEF Running
<1> QED BY <1>1, <1>2, <1>3, <1>4

LEMMA AloneStep ==
  ASSUME TypeOK, Alone, [Next]_vars
  PROVE  Alone'
<1> SUFFICES ASSUME ~overlap' PROVE Alone'
  BY DEF Alone
<1>1. CASE UNCHANGED vars
  BY <1>1 DEF vars, Alone, Running
<1>2. ASSUME NEW p \in Procs, Start(p) \/ Going(p)
      PROVE  Alone'
  <2>1. /\ ~overlap /\ Running' \subseteq {p}
        /\ \A r \in Procs \ {p} : pc'[r] # "write"
    BY <1>2, ActorAlone DEF Final
  <2>2. file # Corrupt /\ (pc[p] = "write" => file = Empty)
    BY <2>1 DEF Alone
  <2>3. file' # Corrupt
    <3>1. CASE Write(p)
      BY <2>2, <3>1, ContentType, Values DEF Write
    <3>2. CASE CreateFile(p) \/ Truncate(p)
      BY <3>2, Values DEF CreateFile, Truncate
    <3>3. CASE /\ ~Write(p) /\ ~CreateFile(p) /\ ~Truncate(p)
      <4>1. UNCHANGED file
        BY <1>2, <3>3 DEF Going, Start, CheckFile, ReadFile, DefaultOffline, CreateToken,
                          ClientId, SetKey, ReRead, WriteFails, Kill
      <4> QED BY <2>2, <4>1
    <3> QED BY <3>1, <3>2, <3>3
  <2>4. pc'[p] = "write" => file' = Empty
    <3>1. CASE Truncate(p)
      BY <3>1 DEF Truncate
    <3>2. CASE Start(p) \/ CheckFile(p) \/ CreateFile(p) \/ ReadFile(p)
      BY <3>2 DEF Start, CheckFile, CreateFile, ReadFile, Goto, TypeOK
    <3>3. CASE DefaultOffline(p) \/ CreateToken(p) \/ ClientId(p) \/ SetKey(p)
      BY <3>3 DEF DefaultOffline, CreateToken, ClientId, SetKey, SetViperVariable, Goto, TypeOK
    <3>4. CASE Write(p) \/ ReRead(p) \/ WriteFails(p) \/ Kill(p)
      BY <3>4 DEF Write, ReRead, WriteFails, Kill, Goto, TypeOK
    <3> QED BY <1>2, <3>1, <3>2, <3>3, <3>4 DEF Going
  <2> QED BY <2>1, <2>3, <2>4 DEF Alone
<1> QED BY <1>1, <1>2 DEF Next, Going

LEMMA NoFileStep ==
  ASSUME TypeOK, NoFile, [Next]_vars
  PROVE  NoFile'
<1> SUFFICES ASSUME ~exists' PROVE NoFile'
  BY DEF NoFile
<1>1. CASE UNCHANGED vars
  BY <1>1 DEF vars, NoFile
<1>2. ASSUME NEW p \in Procs, Start(p) \/ Going(p)
      PROVE  NoFile'
  <2>1. ~exists /\ ~CreateFile(p) /\ ~Truncate(p)
    BY <1>2 DEF Going, Start, CheckFile, CreateFile, ReadFile, DefaultOffline, CreateToken,
                ClientId, SetKey, Truncate, Write, ReRead, WriteFails, Kill, TypeOK
  <2>2. file = Empty /\ \A q \in Procs : pc[q] # "write"
    BY <2>1 DEF NoFile
  <2>3. UNCHANGED file
    BY <1>2, <2>1, <2>2 DEF Going, Start, CheckFile, ReadFile, DefaultOffline, CreateToken,
                            ClientId, SetKey, Write, ReRead, WriteFails, Kill
  <2>4. \A r \in Procs \ {p} : pc'[r] # "write"
    BY <1>2, <2>2, OnlyActorMoves DEF Going
  <2>5. pc'[p] # "write"
    <3>1. CASE Start(p) \/ CheckFile(p) \/ ReadFile(p)
      BY <3>1 DEF Start, CheckFile, ReadFile, Goto, TypeOK
    <3>2. CASE DefaultOffline(p) \/ CreateToken(p) \/ ClientId(p) \/ SetKey(p)
      BY <3>2 DEF DefaultOffline, CreateToken, ClientId, SetKey, SetViperVariable, Goto, TypeOK
    <3>3. CASE Write(p) \/ ReRead(p) \/ WriteFails(p) \/ Kill(p)
      BY <3>3 DEF Write, ReRead, WriteFails, Kill, Goto, TypeOK
    <3> QED BY <1>2, <2>1, <3>1, <3>2, <3>3 DEF Going
  <2> QED BY <2>2, <2>3, <2>4, <2>5 DEF NoFile
<1> QED BY <1>1, <1>2 DEF Next, Going
-----------------------------------------------------------------------------
(* What a process holds, when nothing goes wrong.                            *)

\* A configuration is its three fields.
LEMMA ConfigEqual ==
  ASSUME NEW c \in Config, NEW d \in Config,
         c.token = d.token, c.clientId = d.clientId, c.offline = d.offline
  PROVE  c = d
<1>1. c = [token |-> c.token, clientId |-> c.clientId, offline |-> c.offline]
  BY DEF Config
<1>2. d = [token |-> d.token, clientId |-> d.clientId, offline |-> d.offline]
  BY DEF Config
<1> QED BY <1>1, <1>2

\* What is set comes first: writing it over what less was written gives the same.
LEMMA AllAgain ==
  ASSUME NEW s \in Config, NEW t \in Config, NEW e \in Config, NEW r \in Config,
         t.token = None \/ t.token = s.token,
         t.clientId = None \/ t.clientId = s.clientId,
         t.offline = NoMode \/ t.offline = s.offline
  PROVE  AllSettings(s, e, AllSettings(t, e, r)) = AllSettings(s, e, r)
<1>0. PICK m, a, b : /\ m = AllSettings(t, e, r) /\ a = AllSettings(s, e, m)
                     /\ b = AllSettings(s, e, r)
  OBVIOUS
<1>1. m \in Config /\ a \in Config /\ b \in Config
  BY <1>0, OverType
<1>2. /\ m.token = IF t.token # None THEN t.token
                   ELSE IF r.token # None /\ e.token # None THEN e.token ELSE r.token
      /\ m.clientId = IF t.clientId # None THEN t.clientId
                      ELSE IF r.clientId # None /\ e.clientId # None THEN e.clientId
                      ELSE r.clientId
      /\ m.offline = IF t.offline # NoMode THEN t.offline
                     ELSE IF r.offline # NoMode /\ e.offline # NoMode THEN e.offline ELSE r.offline
  BY <1>0 DEF AllSettings, Over
<1>3. /\ a.token = IF s.token # None THEN s.token
                   ELSE IF m.token # None /\ e.token # None THEN e.token ELSE m.token
      /\ a.clientId = IF s.clientId # None THEN s.clientId
                      ELSE IF m.clientId # None /\ e.clientId # None THEN e.clientId
                      ELSE m.clientId
      /\ a.offline = IF s.offline # NoMode THEN s.offline
                     ELSE IF m.offline # NoMode /\ e.offline # NoMode THEN e.offline ELSE m.offline
  BY <1>0 DEF AllSettings, Over
<1>4. /\ b.token = IF s.token # None THEN s.token
                   ELSE IF r.token # None /\ e.token # None THEN e.token ELSE r.token
      /\ b.clientId = IF s.clientId # None THEN s.clientId
                      ELSE IF r.clientId # None /\ e.clientId # None THEN e.clientId
                      ELSE r.clientId
      /\ b.offline = IF s.offline # NoMode THEN s.offline
                     ELSE IF r.offline # NoMode /\ e.offline # NoMode THEN e.offline ELSE r.offline
  BY <1>0 DEF AllSettings, Over
<1>5. a.token = b.token
  BY <1>2, <1>3, <1>4
<1>6. a.clientId = b.clientId
  BY <1>2, <1>3, <1>4
<1>7. a.offline = b.offline
  BY <1>2, <1>3, <1>4
<1>8. a = b
  BY <1>1, <1>5, <1>6, <1>7, ConfigEqual
<1> QED BY <1>0, <1>8

\* Setting one key more in memory, before the file is rewritten.
LEMMA SetKept ==
  ASSUME TypeOK, NEW p \in Procs, NEW key \in {"token", "clientId", "offline"}, NEW value,
         NEW next \in {"token", "clientId", "done"},
         \/ key = "offline" /\ value \in {"fail", "local"}
         \/ key \in {"token", "clientId"} /\ value \in Ids \ {None},
         SetViperVariable(p, key, value, next),
         UNCHANGED <<env, read, store, file>>,
         set[p][key] = (IF key = "offline" THEN NoMode ELSE None),
         Agrees(p), file = AsLeft(p), read[p] = file
  PROVE  /\ Agrees(p)' /\ set'[p] # Empty
         /\ pc'[p] = "truncate" /\ writing'[p] = next
         /\ set'[p] = [set[p] EXCEPT ![key] = value]
         /\ result'[p] = [result[p] EXCEPT ![key] = value]
<1>1. /\ pc'[p] = "truncate" /\ writing'[p] = next
      /\ result'[p] = [result[p] EXCEPT ![key] = value]
      /\ set'[p] = [set[p] EXCEPT ![key] = value]
  BY DEF SetViperVariable, Goto, TypeOK
<1>2. /\ set[p] \in Config /\ env[p] \in Config /\ store \in Config /\ read[p] \in Config
      /\ env'[p] = env[p] /\ read'[p] = read[p]
  BY DEF TypeOK
<1>3. set'[p] \in Config
  BY SetTypes DEF TypeOK
<1>4. set'[p] # Empty
  <2>1. set'[p][key] = value
    BY <1>1, <1>2 DEF Config
  <2> QED BY <2>1, Values DEF Empty
<1>5. result'[p] = Over(set'[p], env'[p], store')
  <2>1. Over(set'[p], env[p], store) = [Over(set[p], env[p], store) EXCEPT ![key] = value]
    <3>1. IF key = "offline" THEN value # NoMode ELSE value # None
      BY Values
    <3>2. PICK t \in Config : t = set'[p]
      BY <1>3
    <3>3. t = [set[p] EXCEPT ![key] = value]
      BY <1>1, <3>2
    <3>4. PICK c \in Config, e \in Config, s \in Config :
             c = store /\ e = env[p] /\ s = set[p]
      BY <1>2
    <3>5. t = [s EXCEPT ![key] = value]
      BY <3>3, <3>4
    <3>6. Over(t, e, c) = [Over(s, e, c) EXCEPT ![key] = value]
      <4>0. PICK o, n : o = Over(s, e, c) /\ n = Over(t, e, c)
        OBVIOUS
      <4>1. o \in Config /\ n \in Config
        BY <4>0, OverType
      <4>2. /\ o.token = IF s.token # None THEN s.token
                         ELSE IF e.token # None THEN e.token ELSE c.token
            /\ o.clientId = IF s.clientId # None THEN s.clientId
                            ELSE IF e.clientId # None THEN e.clientId ELSE c.clientId
            /\ o.offline = IF s.offline # NoMode THEN s.offline
                           ELSE IF e.offline # NoMode THEN e.offline ELSE c.offline
            /\ n.token = IF t.token # None THEN t.token
                         ELSE IF e.token # None THEN e.token ELSE c.token
            /\ n.clientId = IF t.clientId # None THEN t.clientId
                            ELSE IF e.clientId # None THEN e.clientId ELSE c.clientId
            /\ n.offline = IF t.offline # NoMode THEN t.offline
                           ELSE IF e.offline # NoMode THEN e.offline ELSE c.offline
        BY <4>0 DEF Over
      <4>3. n[key] = value /\ \A k \in {"token", "clientId", "offline"} \ {key} : n[k] = o[k]
        <5>1. t[key] = value /\ \A k \in {"token", "clientId", "offline"} \ {key} : t[k] = s[k]
          BY <3>5 DEF Config
        <5>2. CASE key = "token"
          BY <3>1, <4>2, <5>1, <5>2
        <5>3. CASE key = "clientId"
          BY <3>1, <4>2, <5>1, <5>3
        <5>4. CASE key = "offline"
          BY <3>1, <4>2, <5>1, <5>4
        <5> QED BY <5>2, <5>3, <5>4
      <4>4. n = [o EXCEPT ![key] = value]
        BY <4>1, <4>3 DEF Config
      <4> QED BY <4>0, <4>4
    <3> QED BY <3>2, <3>4, <3>6
  <2> QED BY <1>1, <1>2, <2>1 DEF Agrees
<1>6. AllSettings(set'[p], env[p], read[p]) = AllSettings(set'[p], env[p], store)
  <2>1. CASE set[p] = Empty
    BY <2>1 DEF AsLeft
  <2>2. CASE set[p] # Empty
    <3>1. read[p] = AllSettings(set[p], env[p], store)
      BY <2>2 DEF AsLeft
    <3>2. /\ set[p].token = None \/ set[p].token = set'[p].token
          /\ set[p].clientId = None \/ set[p].clientId = set'[p].clientId
          /\ set[p].offline = NoMode \/ set[p].offline = set'[p].offline
      BY <1>1, <1>2 DEF Config
    <3> QED BY <1>2, <1>3, <3>1, <3>2, AllAgain
  <2> QED BY <2>1, <2>2
<1>7. Agrees(p)'
  BY <1>2, <1>5, <1>6 DEF Agrees, Content
<1> QED BY <1>1, <1>4, <1>7

\* A process that has set all that was missing has left what it was to leave.
LEMMA HeldDone ==
  ASSUME TypeOK, NEW p \in Procs, Held(p), Stage(p) = "done",
         op[p] # Load => env[p] = Empty /\ set[p] # Empty
  PROVE  Stored(p) = AsLeft(p)
<1>1. /\ set[p] \in Config /\ env[p] \in Config /\ store \in Config
      /\ result[p].token \in Ids
  BY DEF TypeOK, Config
<1>2. CASE op[p] = Load
  <2> DEFINE new == Missing(store, env[p], p, result[p].token)
  <2>1. new \in Config
    BY <1>1, MissingType
  <2>2. set[p].offline = new.offline /\ set[p].token = new.token /\ set[p].clientId = new.clientId
    BY <1>2 DEF Held
  <2>3. set[p] = new
    BY <1>1, <2>1, <2>2, ConfigEqual
  <2> QED BY <1>2, <2>3 DEF Stored, AsLeft
<1>3. CASE op[p] # Load
  <2>1. op[p] \in Settings
    BY <1>3 DEF TypeOK
  <2>2. PICK k, v : k = op[p].key /\ v = op[p].value
    OBVIOUS
  <2>3. \/ k = "offline" /\ v \in {"fail", "local"}
        \/ k = "token" /\ v \in Ids \ {None}
    BY <2>1, <2>2, Values
  <2>4. set[p] = [Empty EXCEPT ![k] = v] /\ env[p] = Empty
    BY <1>3, <2>2 DEF Held
  <2> DEFINE a == AllSettings(set[p], env[p], store)
             b == [store EXCEPT ![k] = v]
  <2>5. a \in Config /\ b \in Config
    BY <1>1, <2>3, OverType DEF Config
  <2>6. /\ a.token = IF set[p].token # None THEN set[p].token
                     ELSE IF store.token # None /\ env[p].token # None THEN env[p].token
                     ELSE store.token
        /\ a.clientId = IF set[p].clientId # None THEN set[p].clientId
                        ELSE IF store.clientId # None /\ env[p].clientId # None
                        THEN env[p].clientId ELSE store.clientId
        /\ a.offline = IF set[p].offline # NoMode THEN set[p].offline
                       ELSE IF store.offline # NoMode /\ env[p].offline # NoMode THEN env[p].offline
                       ELSE store.offline
    BY DEF AllSettings, Over
  <2>7. env[p].token = None /\ env[p].clientId = None /\ env[p].offline = NoMode
    BY <2>4 DEF Empty
  <2>8. a.token = b.token /\ a.clientId = b.clientId /\ a.offline = b.offline
    <3>1. /\ \A f \in {"token", "clientId", "offline"} \ {k} :
                b[f] = store[f] /\ set[p][f] = Empty[f]
          /\ b[k] = v /\ set[p][k] = v
      BY <1>1, <2>3, <2>4 DEF Empty, Config
    <3>2. Empty.token = None /\ Empty.clientId = None /\ Empty.offline = NoMode
      BY DEF Empty
    <3> HIDE DEF a, b
    <3>3. CASE k = "offline"
      BY <2>3, <2>6, <2>7, <3>1, <3>2, <3>3, Values
    <3>4. CASE k = "token"
      BY <2>3, <2>6, <2>7, <3>1, <3>2, <3>4, Values
    <3> QED BY <2>3, <3>3, <3>4
  <2>9. a = b
    BY <2>5, <2>8, ConfigEqual
  <2> QED BY <1>3, <2>2, <2>9 DEF Stored, AsLeft
<1> QED BY <1>2, <1>3

LEMMA KeptStep ==
  ASSUME TypeOK, LocalInv, Alone, NoFile, Kept, [Next]_vars
  PROVE  Kept'
<1> SUFFICES ASSUME Calm' PROVE Kept'
  BY DEF Kept
<1> USE Values
<1>1. CASE UNCHANGED vars
  <2>1. /\ UNCHANGED <<exists, file, pc, op, env, set, read, result, writing, asked>>
        /\ UNCHANGED <<faults, overlap, store>>
    BY <1>1 DEF vars, proc
  <2> QED BY <2>1 DEF Kept, Calm, Running, Tracked, Held, Agrees, AsLeft, Content, Stage
<1>2. ASSUME NEW p \in Procs, Start(p) \/ Going(p)
      PROVE  Kept'
  <2>1. /\ Running \subseteq {p} /\ Running' \subseteq {p} /\ ~overlap
        /\ \A r \in Procs \ {p} : pc'[r] = pc[r]
    BY <1>2, ActorAlone DEF Calm
  <2>2. ~WriteFails(p) /\ ~Kill(p)
    BY DEF WriteFails, Kill, Calm, TypeOK
  <2>3. faults = 0
    BY <1>2, <2>2 DEF Calm, Start, Going, CheckFile, CreateFile, ReadFile, DefaultOffline,
                      CreateToken, ClientId, SetKey, Truncate, Write, ReRead, proc
  <2>4. pc[p] # "failed"
    BY <1>2, ActorRuns DEF Start, Running, Final
  <2>5. Calm
    BY <2>1, <2>3, <2>4 DEF Calm
  <2>6. Going(p) => Tracked(p)
    BY <2>5, ActorRuns DEF Kept
  <2>7. p \in Running <=> pc[p] \notin {"idle", "done", "failed", "killed"}
    BY DEF Running, Final
  <2>8. p \in Running' <=> pc'[p] \notin {"idle", "done", "failed", "killed"}
    BY DEF Running, Final
  <2>9. pc'[p] # "failed"
    BY DEF Calm
  <2>10. SUFFICES \/ p \in Running' /\ Tracked(p)'
                  \/ p \notin Running' /\ file' = store'
    BY <2>1 DEF Kept
  <2>11. Shaped(p)
    BY DEF LocalInv
  <2>12. CASE Start(p)
    <3>1. Running = {}
      BY <2>1, <2>7, <2>12 DEF Start
    <3>2. pc'[p] = "mkfile" /\ UNCHANGED <<file, store>>
      BY <2>12 DEF Start, Goto, TypeOK
    <3> QED BY <2>5, <2>8, <3>1, <3>2 DEF Kept, Tracked
  <2>13. CASE CheckFile(p)
    <3>1. /\ pc[p] = "mkfile" /\ pc'[p] \in {"create", "read"} /\ UNCHANGED <<file, store>>
          /\ pc'[p] = "create" => ~exists
      BY <2>13 DEF CheckFile, Goto, TypeOK
    <3>2. file = store
      BY <2>6, <2>13, <3>1 DEF Tracked, Going
    <3> QED BY <2>8, <3>1, <3>2 DEF Tracked, NoFile
  <2>14. CASE CreateFile(p)
    <3>1. pc[p] = "create" /\ pc'[p] = "read" /\ file' = Empty /\ UNCHANGED store
      BY <2>14 DEF CreateFile, Goto, TypeOK
    <3>2. file = store /\ file = Empty
      BY <2>6, <2>14, <3>1 DEF Tracked, Going
    <3> QED BY <2>8, <3>1, <3>2 DEF Tracked
  <2>15. CASE ReadFile(p)
    <3>1. /\ pc[p] = "read" /\ pc'[p] = (IF op[p] = Load THEN "offline" ELSE "set")
          /\ read'[p] = file /\ result'[p] = Over(set[p], env[p], file) /\ file # Corrupt
          /\ UNCHANGED <<file, store, set[p], op, env>>
      BY <2>9, <2>15 DEF ReadFile, Goto, TypeOK
    <3>2. file = store /\ set[p] = Empty
      BY <2>6, <2>11, <2>15, <3>1 DEF Tracked, Going, Shaped
    <3>3. Agrees(p)' /\ file' = AsLeft(p)' /\ read'[p] = file'
      BY <3>1, <3>2 DEF Agrees, AsLeft, Content
    <3>4. Held(p)'
      BY <3>1, <3>2 DEF Held, Stage, Rewriting, Empty
    <3> QED BY <2>8, <3>1, <3>3, <3>4 DEF Tracked, Rewriting
  <2>16. CASE Truncate(p)
    <3>1. /\ pc[p] = "truncate" /\ pc'[p] = "write"
          /\ UNCHANGED <<store, op, env, set, read, result, writing>>
      BY <2>16 DEF Truncate, Goto, TypeOK, proc
    <3>2. Held(p) /\ Agrees(p) /\ set[p] # Empty
      BY <2>6, <2>16, <3>1 DEF Going, Tracked, Rewriting
    <3>3. Held(p)' /\ Agrees(p)'
      BY <3>1, <3>2 DEF Held, Agrees, Content, Stage, Rewriting
    <3> QED BY <2>8, <3>1, <3>2, <3>3 DEF Tracked, Rewriting
  <2>23. ASSUME pc[p] \in {"offline", "token", "clientId", "set"}, Going(p)
         PROVE  Held(p) /\ Agrees(p) /\ file = AsLeft(p) /\ read[p] = file
    BY <2>6, <2>23 DEF Tracked, Rewriting
  <2>24. ASSUME Held(p)', Agrees(p)', set'[p] # Empty, pc'[p] = "truncate"
         PROVE  p \in Running' /\ Tracked(p)'
    BY <2>8, <2>24 DEF Tracked, Rewriting
  <2>25. ASSUME Held(p)', pc'[p] \in {"token", "clientId"}, Agrees(p), file = AsLeft(p),
                read[p] = file, UNCHANGED <<set[p], result[p], file, env, read, store>>
         PROVE  p \in Running' /\ Tracked(p)'
    BY <2>8, <2>25 DEF Tracked, Rewriting, Agrees, AsLeft, Content
  <2>26. set[p] \in Config /\ result[p] \in Config /\ store \in Config /\ env[p] \in Config
    BY DEF TypeOK
  <2>27. ASSUME Agrees(p)
         PROVE  /\ set[p].token = None => result[p].token = Over(Empty, env[p], store).token
                /\ set[p].clientId = None =>
                      result[p].clientId = Over(Empty, env[p], store).clientId
                /\ set[p].offline = NoMode =>
                      result[p].offline = Over(Empty, env[p], store).offline
    <3>1. result[p] = Over(set[p], env[p], store)
      BY <2>27 DEF Agrees
    <3>2. /\ set[p].token = None => Over(set[p], env[p], store).token
                                     = Over(Empty, env[p], store).token
          /\ set[p].clientId = None => Over(set[p], env[p], store).clientId
                                        = Over(Empty, env[p], store).clientId
          /\ set[p].offline = NoMode => Over(set[p], env[p], store).offline
                                     = Over(Empty, env[p], store).offline
      BY DEF Over, Empty
    <3> QED BY <3>1, <3>2
  <2>17. CASE DefaultOffline(p)
    <3>1. pc[p] = "offline" /\ UNCHANGED <<file, op, env, read, store>> /\ op[p] = Load
      BY <2>11, <2>17 DEF DefaultOffline, Shaped
    <3>2. Held(p) /\ Agrees(p) /\ file = AsLeft(p) /\ read[p] = file
      BY <2>17, <2>23, <3>1 DEF Going
    <3>3. set[p].offline = NoMode /\ set[p].token = None /\ set[p].clientId = None
      BY <3>1, <3>2 DEF Held, Stage, Rewriting
    <3>4. result[p].offline = Over(Empty, env[p], store).offline
      BY <2>27, <3>2, <3>3
    <3>5. CASE SetViperVariable(p, "offline", "fail", "token") /\ result[p].offline = NoMode
      <4>1. /\ Agrees(p)' /\ set'[p] # Empty
            /\ pc'[p] = "truncate" /\ writing'[p] = "token"
            /\ set'[p] = [set[p] EXCEPT !["offline"] = "fail"]
        BY <3>1, <3>2, <3>3, <3>5, SetKept
      <4>2. set'[p].offline = "fail" /\ set'[p].token = None /\ set'[p].clientId = None
        BY <2>26, <3>3, <4>1 DEF Config
      <4>3. Held(p)'
        BY <3>1, <3>4, <3>5, <4>1, <4>2 DEF Held, Stage, Rewriting, Missing
      <4> QED BY <2>24, <4>1, <4>3
    <3>6. CASE result[p].offline # NoMode /\ Goto(p, "token") /\ UNCHANGED <<set, result, writing>>
      <4>1. pc'[p] = "token" /\ UNCHANGED <<set[p], result[p]>>
        BY <3>6 DEF Goto, TypeOK
      <4>2. Held(p)'
        BY <3>1, <3>3, <3>4, <3>6, <4>1 DEF Held, Stage, Rewriting, Missing
      <4> QED BY <2>25, <3>1, <3>2, <4>1, <4>2
    <3> QED BY <2>17, <3>5, <3>6 DEF DefaultOffline
  <2>18. CASE CreateToken(p)
    <3>1. pc[p] = "token" /\ UNCHANGED <<file, op, env, read, store>> /\ op[p] = Load
      BY <2>11, <2>18 DEF CreateToken, Shaped
    <3>2. Held(p) /\ Agrees(p) /\ file = AsLeft(p) /\ read[p] = file
      BY <2>18, <2>23, <3>1 DEF Going
    <3>3. /\ set[p].token = None /\ set[p].clientId = None
          /\ set[p].offline = IF Over(Empty, env[p], store).offline = NoMode THEN "fail" ELSE NoMode
      BY <3>1, <3>2 DEF Held, Stage, Rewriting, Missing
    <3>4. result[p].token = Over(Empty, env[p], store).token
      BY <2>27, <3>2, <3>3
    <3>5. CASE SetViperVariable(p, "token", p, "clientId") /\ result[p].token = None
      <4>1. /\ Agrees(p)' /\ set'[p] # Empty
            /\ pc'[p] = "truncate" /\ writing'[p] = "clientId"
            /\ set'[p] = [set[p] EXCEPT !["token"] = p]
            /\ result'[p] = [result[p] EXCEPT !["token"] = p]
        BY <3>1, <3>2, <3>3, <3>5, SetKept
      <4>2. /\ set'[p].offline = set[p].offline /\ set'[p].token = p
            /\ set'[p].clientId = None /\ result'[p].token = p
        BY <2>26, <3>3, <4>1 DEF Config
      <4>3. Held(p)'
        BY <3>1, <3>3, <3>4, <3>5, <4>1, <4>2 DEF Held, Stage, Rewriting, Missing
      <4> QED BY <2>24, <4>1, <4>3
    <3>6. CASE (Goto(p, "clientId") \/ Goto(p, "failed")) /\ UNCHANGED <<set, result, writing>>
      <4>1. pc'[p] = "clientId" /\ UNCHANGED <<set[p], result[p]>>
        BY <2>9, <3>6 DEF Goto, TypeOK
      <4>2. Held(p)'
        BY <3>1, <3>3, <3>4, <4>1 DEF Held, Stage, Rewriting, Missing
      <4> QED BY <2>25, <3>1, <3>2, <4>1, <4>2
    <3> QED BY <2>18, <3>5, <3>6 DEF CreateToken
  <2>28. ASSUME op[p] = Load, pc[p] = "clientId", Held(p)
         PROVE  LET seen == Over(Empty, env[p], store)
                IN  /\ set[p].clientId = None
                    /\ set[p].offline = IF seen.offline = NoMode THEN "fail" ELSE NoMode
                    /\ set[p].token = IF seen.token = None THEN result[p].token ELSE None
    BY <2>28 DEF Held, Stage, Rewriting, Missing
  <2>19. CASE ClientId(p)
    <3>1. pc[p] = "clientId" /\ UNCHANGED <<file, op, env, read>> /\ op[p] = Load
      BY <2>11, <2>19 DEF ClientId, Shaped
    <3>2. Held(p) /\ Agrees(p) /\ file = AsLeft(p) /\ read[p] = file
      BY <2>19, <2>23, <3>1 DEF Going
    <3> DEFINE seen == Over(Empty, env[p], store)
    <3>3. /\ set[p].clientId = None
          /\ set[p].offline = IF seen.offline = NoMode THEN "fail" ELSE NoMode
          /\ set[p].token = IF seen.token = None THEN result[p].token ELSE None
      BY <2>28, <3>1, <3>2
    <3>4. result[p].clientId = seen.clientId
      BY <2>27, <3>2, <3>3
    <3>5. CASE /\ result[p].clientId = None
               /\ SetViperVariable(p, "clientId", p, "done") /\ UNCHANGED store
      <4>1. /\ Agrees(p)' /\ set'[p] # Empty
            /\ pc'[p] = "truncate" /\ writing'[p] = "done"
            /\ set'[p] = [set[p] EXCEPT !["clientId"] = p]
            /\ result'[p] = [result[p] EXCEPT !["clientId"] = p]
        BY <3>1, <3>2, <3>3, <3>5, SetKept
      <4>2. /\ set'[p].offline = set[p].offline /\ set'[p].token = set[p].token
            /\ set'[p].clientId = p /\ result'[p].token = result[p].token
        BY <2>26, <3>3, <4>1 DEF Config
      <4>3. Held(p)'
        <5> DEFINE new == Missing(store, env[p], p, result[p].token)
        <5>1. new.offline = set'[p].offline /\ new.token = set'[p].token /\ new.clientId = p
          BY <3>3, <3>4, <3>5, <4>2 DEF Missing
        <5>2. Stage(p)' = "done"
          BY <4>1 DEF Stage, Rewriting
        <5> QED BY <3>1, <3>5, <4>2, <5>1, <5>2 DEF Held
      <4> QED BY <2>24, <4>1, <4>3
    <3>6. CASE /\ result[p].clientId # None /\ Goto(p, "done") /\ store' = Stored(p)
               /\ UNCHANGED <<set, result, writing>>
      <4> DEFINE new == Missing(store, env[p], p, result[p].token)
      <4>1. /\ new.offline = set[p].offline /\ new.token = set[p].token
            /\ new.clientId = set[p].clientId
        BY <3>3, <3>4, <3>6 DEF Missing
      <4>2. new \in Config
        BY <2>26, MissingType DEF Config
      <4>3. set[p] = new
        BY <2>26, <4>1, <4>2, ConfigEqual
      <4>4. Stored(p) = AsLeft(p)
        BY <3>1, <4>3 DEF Stored, AsLeft
      <4> QED BY <2>8, <3>1, <3>2, <3>6, <4>4 DEF Goto, TypeOK
    <3> QED BY <2>19, <3>5, <3>6 DEF ClientId
  <2>20. CASE SetKey(p)
    <3>1. /\ pc[p] = "set" /\ UNCHANGED <<file, op, env, read, store>>
          /\ op[p] \in Settings /\ op[p] # Load
          /\ SetViperVariable(p, op[p].key, op[p].value, "done")
      BY <2>11, <2>20 DEF SetKey, Shaped, TypeOK
    <3>2. Held(p) /\ Agrees(p) /\ file = AsLeft(p) /\ read[p] = file
      BY <2>20, <2>23, <3>1 DEF Going
    <3>3. set[p] = Empty
      BY <3>1, <3>2 DEF Held, Stage, Rewriting
    <3>4. PICK k, v : k = op[p].key /\ v = op[p].value
      OBVIOUS
    <3>5. \/ k = "offline" /\ v \in {"fail", "local"}
          \/ k = "token" /\ v \in Ids \ {None}
      BY <3>1, <3>4, Values
    <3>6. set[p][k] = (IF k = "offline" THEN NoMode ELSE None)
      BY <3>3, <3>5 DEF Empty
    <3>7. /\ Agrees(p)' /\ set'[p] # Empty
          /\ pc'[p] = "truncate" /\ writing'[p] = "done"
          /\ set'[p] = [set[p] EXCEPT ![k] = v]
      <4>1. SetViperVariable(p, k, v, "done")
        BY <3>1, <3>4
      <4>2. CASE k = "offline" /\ v \in {"fail", "local"}
        BY <3>1, <3>2, <3>6, <4>1, <4>2, SetKept
      <4>3. CASE k = "token" /\ v \in Ids \ {None}
        BY <3>1, <3>2, <3>6, <4>1, <4>3, SetKept
      <4> QED BY <3>5, <4>2, <4>3
    <3>8. Held(p)'
      BY <3>1, <3>3, <3>4, <3>7 DEF Held, Stage, Rewriting
    <3> QED BY <2>24, <3>7, <3>8
  <2>21. CASE Write(p)
    <3>1. /\ pc[p] = "write" /\ UNCHANGED <<op, env, set, read, result, writing>>
          /\ file' \in {Content(p)} \cup (IF file = Empty THEN {} ELSE {Corrupt})
      BY <2>21 DEF Write, proc
    <3>2. Held(p) /\ Agrees(p) /\ set[p] # Empty
      BY <2>6, <2>21, <3>1 DEF Going, Tracked, Rewriting
    <3>3. file' = AsLeft(p)
      BY <2>1, <3>1, <3>2 DEF Alone, Agrees, AsLeft
    <3>4. CASE op[p] = Load
      <4>1. pc'[p] = "reread" /\ UNCHANGED store
        BY <2>21, <3>4 DEF Write, Goto, TypeOK
      <4>2. Held(p)' /\ Agrees(p)' /\ AsLeft(p)' = AsLeft(p)
        BY <3>1, <3>2, <4>1 DEF Held, Agrees, AsLeft, Content, Stage, Rewriting
      <4> QED BY <2>8, <3>1, <3>2, <3>3, <4>1, <4>2 DEF Tracked, Rewriting
    <3>5. CASE op[p] # Load
      <4>1. pc'[p] = "done" /\ store' = Stored(p)
        BY <2>21, <3>5 DEF Write, Goto, TypeOK
      <4>2. Stage(p) = "done" /\ env[p] = Empty
        BY <2>11, <3>1, <3>5 DEF Stage, Rewriting, Shaped
      <4>3. Stored(p) = AsLeft(p)
        BY <3>2, <4>2, HeldDone
      <4> QED BY <2>8, <3>3, <4>1, <4>3
    <3> QED BY <3>4, <3>5
  <2>22. CASE ReRead(p)
    <3>1. /\ pc[p] = "reread" /\ UNCHANGED <<file, op, env, set, result, writing>>
          /\ read'[p] = file /\ pc'[p] = writing[p] /\ op[p] = Load
          /\ IF writing[p] = "done" THEN store' = Stored(p) ELSE UNCHANGED store
      BY <2>9, <2>11, <2>22 DEF ReRead, Goto, TypeOK, Shaped
    <3>2. /\ Held(p) /\ Agrees(p) /\ set[p] # Empty /\ file = AsLeft(p)
          /\ writing[p] \in {"token", "clientId", "done"}
      BY <2>6, <2>11, <2>22, <3>1 DEF Going, Tracked, Shaped, Rewriting, TypeOK
    <3>3. CASE writing[p] = "done"
      <4>1. Stored(p) = AsLeft(p)
        BY <3>1, <3>2, <3>3, HeldDone DEF Stage, Rewriting
      <4> QED BY <2>8, <3>1, <3>2, <3>3, <4>1
    <3>4. CASE writing[p] # "done"
      <4>1. Held(p)' /\ AsLeft(p)' = AsLeft(p)
        BY <3>1, <3>2, <3>4 DEF Held, AsLeft, Stage, Rewriting
      <4>2. AllSettings(set[p], env[p], file) = AllSettings(set[p], env[p], store)
        BY <2>26, <3>2, AllAgain DEF AsLeft
      <4>3. Agrees(p)'
        BY <3>1, <3>2, <3>4, <4>2 DEF Agrees, Content
      <4> QED BY <2>8, <3>1, <3>2, <3>4, <4>1, <4>3 DEF Tracked, Rewriting
    <3> QED BY <3>3, <3>4
  <2> QED
    BY <1>2, <2>2, <2>12, <2>13, <2>14, <2>15, <2>16, <2>17, <2>18, <2>19, <2>20, <2>21,
       <2>22 DEF Going
<1> QED BY <1>1, <1>2 DEF Next, Going
-----------------------------------------------------------------------------
(* The theorems.                                                             *)

LEMMA Invariance == Spec => []Inv
<1>1. Init => Inv
  <2> SUFFICES ASSUME Init PROVE Inv
    OBVIOUS
  <2> USE Values
  <2>1. TypeOK
    <3>1. faults \in 0..MaxFaults
      BY FaultsAssumption DEF Init
    <3>2. /\ pc \in [Procs -> Labels]
          /\ writing \in [Procs -> {"none", "token", "clientId", "done"}]
          /\ asked \in [Procs -> BOOLEAN]
      BY DEF Init, Labels
    <3>3. /\ set \in [Procs -> Config] /\ read \in [Procs -> Config]
          /\ result \in [Procs -> Config]
      BY DEF Init
    <3>4. env \in [Procs -> Config]
      BY EnvsAssumption DEF Init
    <3> QED BY <3>1, <3>2, <3>3, <3>4 DEF Init, TypeOK
  <2>2. LocalInv
    BY DEF Init, LocalInv, Shaped, Loaded, Asking, Stage, Rewriting
  <2>3. Running = {}
    BY DEF Init, Running
  <2>4. Alone /\ NoFile
    BY <2>3 DEF Init, Alone, NoFile
  <2>5. Kept
    BY <2>3 DEF Init, Kept
  <2> QED BY <2>1, <2>2, <2>4, <2>5 DEF Inv
<1>2. Inv /\ [Next]_vars => Inv'
  BY TypeStep, LocalStep, AloneStep, NoFileStep, KeptStep DEF Inv
<1> QED BY <1>1, <1>2, PTL DEF Spec

\* Every variable keeps its type, whatever the processes do to each other's file.
THEOREM TypeCorrect == Spec => []TypeOK
<1>1. Inv => TypeOK
  BY DEF Inv
<1> QED BY <1>1, Invariance, PTL

\* A load that succeeds returns a mode, a client id, and a token unless none could
\* be had; and only a load that may asks the backend for one.
THEOREM LoadsUsable == Spec => []LoadedConfigUsable
<1>1. Inv => LoadedConfigUsable
  <2> SUFFICES ASSUME Inv PROVE LoadedConfigUsable
    OBVIOUS
  <2>1. LocalModeAsksNoToken
    BY DEF Inv, LocalInv, Asking, LocalModeAsksNoToken
  <2>2. ASSUME NEW p \in Procs, pc[p] = "done", op[p] = Load
        PROVE  /\ result[p].offline # NoMode /\ result[p].clientId # None
               /\ result[p].token # None \/ asked[p] \/ result[p].offline = "local"
    BY <2>2 DEF Inv, LocalInv, Loaded, Stage, Rewriting
  <2> QED BY <2>1, <2>2 DEF LoadedConfigUsable
<1> QED BY <1>1, Invariance, PTL

\* The file is only ever left corrupt when two processes have overlapped: one
\* process after the other, even killed or out of space, leaves a readable file.
THEOREM NoCorruptionAlone == Spec => []CorruptOnlyByOverlap
<1>1. Inv => CorruptOnlyByOverlap
  BY DEF Inv, Alone, CorruptOnlyByOverlap
<1> QED BY <1>1, Invariance, PTL

\* Processes that run one after the other and do not fail lose no setting: the
\* file is what each in turn was to leave.
THEOREM SerialKept == Spec => []SerialSettingsKept
<1>1. Inv => SerialSettingsKept
  BY DEF Inv, Kept, Calm, SerialSettingsKept
<1> QED BY <1>1, Invariance, PTL
=============================================================================
