------------------------------ MODULE MCSaving ------------------------------
(***************************************************************************)
(* What has to be kept and answered, for TLC: the settings and their       *)
(* saves, the vault and those who ask for its secrets, the sync of         *)
(* settings between devices and the files edited outside the program. The  *)
(* parts share no state the properties are about, so a behaviour is one of *)
(* a single part, chosen at the start, and only that part's steps are      *)
(* assumed to be fair. The variables of WebDavSync hold the sync's state,  *)
(* s1 to s17 that of any other part.                                       *)
(***************************************************************************)
EXTENDS WebDavSync, FiniteSetTheorems, TLAPS

CONSTANTS ConfEdits, ConfEvents, ConfActs      \* of Settings

VARIABLES part, s1, s2, s3, s4, s5, s6, s7, s8, s9, s10, s11, s12, s13, s14, s15, s16, s17

slots == <<s1, s2, s3, s4, s5, s6, s7, s8, s9, s10, s11, s12, s13, s14, s15, s16, s17>>
allVars == <<part, vars, slots>>

Conf == INSTANCE Settings WITH MaxEdits <- ConfEdits, MaxEvents <- ConfEvents, MaxActs <- ConfActs,
    mem <- s1, disk <- s2, queue <- s3, save <- s4, load <- s5, secret <- s6, dialog <- s7, zoom <- s8,
    edits <- s9, made <- s10, faults <- s11, syncs <- s12, modes <- s13, crossed <- s14
Secrets == INSTANCE Vault WITH Callers <- {"c1", "c2"}, MaxActs <- 1, vault <- s1, status <- s2,
    call <- s3, waiters <- s4, unlocking <- s5, request <- s6, verifying <- s7, verified <- s8,
    command <- s9, asked <- s10, shown <- s11, failed <- s12, retries <- s13, dismissed <- s14,
    commands <- s15, wrong <- s16
Files == INSTANCE ExternalEdits WITH MaxSaves <- 2, MaxActs <- 2, MaxUploads <- 3, copy <- s1,
    remote <- s2, saves <- s3, sess <- s4, look <- s5, tasks <- s6, uploads <- s7, reopen <- s8,
    acts <- s9, inbox <- s10, shown <- s11, prompt <- s12, uploading <- s13, auto <- s14,
    sent <- s15, lost <- s16, declined <- s17

\* The slots a part does not use.
Idle17 == s17 = 0
Idle16 == s16 = 0 /\ Idle17
Idle15 == s15 = 0 /\ Idle16
Idle14 == s14 = 0 /\ Idle15
Idle13 == s13 = 0 /\ Idle14
Idle12 == s12 = 0 /\ Idle13
Idle11 == s11 = 0 /\ Idle12
Idle10 == s10 = 0 /\ Idle11
Idle9 == s9 = 0 /\ Idle10
Idle8 == s8 = 0 /\ Idle9
Idle7 == s7 = 0 /\ Idle8
Idle6 == s6 = 0 /\ Idle7
Idle5 == s5 = 0 /\ Idle6
Idle4 == s4 = 0 /\ Idle5
Idle3 == s3 = 0 /\ Idle4
Idle2 == s2 = 0 /\ Idle3
Idle1 == s1 = 0 /\ Idle2

AllInit ==
    /\ Init
    /\ \/ part = "sync" /\ Idle1
       \/ part = "settings" /\ Conf!Init /\ server.honours /\ Idle15
       \/ part = "vault" /\ Secrets!Init /\ server.honours /\ Idle17
       \/ part = "files" /\ Files!Init /\ server.honours

AllNext ==
    \/ part = "sync" /\ Next /\ UNCHANGED <<part, slots>>
    \/ part = "settings" /\ Conf!Next /\ UNCHANGED <<part, vars, s15, s16, s17>>
    \/ part = "vault" /\ Secrets!Next /\ UNCHANGED <<part, vars, s17>>
    \/ part = "files" /\ Files!Next /\ UNCHANGED <<part, vars>>

\* The slots of each part.
confVars == <<s1, s2, s3, s4, s5, s6, s7, s8, s9, s10, s11, s12, s13, s14>>
secretsVars == <<s1, s2, s3, s4, s5, s6, s7, s8, s9, s10, s11, s12, s13, s14, s15, s16>>
filesVars == <<s1, s2, s3, s4, s5, s6, s7, s8, s9, s10, s11, s12, s13, s14, s15, s16, s17>>

\* The fairness each module assumes, of the chosen part.
AllFairness ==
    /\ WF_confVars(part = "settings" /\ Conf!StartSave)
    /\ WF_confVars(part = "settings" /\ Conf!BackendSaves)
    /\ WF_confVars(part = "settings" /\ Conf!SaveSucceeds)
    /\ WF_confVars(part = "settings" /\ Conf!SaveAgain)
    /\ WF_confVars(part = "settings" /\ Conf!SaveFails)
    /\ WF_confVars(part = "settings" /\ Conf!BackendLoads)
    /\ WF_confVars(part = "settings" /\ Conf!LoadConfig)
    /\ WF_confVars(part = "settings" /\ Conf!ApplySecretStatus)
    /\ \A c \in {"c1", "c2"} :
        /\ WF_secretsVars(part = "vault" /\ Secrets!BackendActs(c))
        /\ WF_secretsVars(part = "vault" /\ Secrets!AskUnlock(c))
        /\ WF_secretsVars(part = "vault" /\ Secrets!Verify(c))
        /\ WF_secretsVars(part = "vault" /\ Secrets!Reveal(c))
        /\ WF_secretsVars(part = "vault" /\ Secrets!RevealFails(c))
    /\ WF_secretsVars(part = "vault" /\ Secrets!VerifyAnswered)
    /\ WF_secretsVars(part = "vault" /\ Secrets!UnlockAnswered)
    /\ WF_secretsVars(part = "vault" /\ Secrets!CommandAnswered)
    /\ WF_secretsVars(part = "vault" /\ Secrets!HandleLocked)
    /\ WF_secretsVars(part = "vault" /\ Secrets!CloseUnlock)
    /\ WF_secretsVars(part = "vault" /\ Secrets!ClearRevealedPassword)
    /\ SF_secretsVars(part = "vault" /\ Secrets!CancelVerify)
    /\ \A d \in Devices : WF_vars(part = "sync" /\ Tick(d)) /\ WF_vars(part = "sync" /\ Step(d))
    /\ WF_filesVars(part = "files" /\ Files!LookAt)
    /\ WF_filesVars(part = "files" /\ Files!ApplyLooks)
    /\ WF_filesVars(part = "files" /\ Files!Download)
    /\ WF_filesVars(part = "files" /\ Files!Launched)
    /\ WF_filesVars(part = "files" /\ Files!BeginUpload)
    /\ WF_filesVars(part = "files" /\ Files!UploadWrites)
    /\ WF_filesVars(part = "files" /\ Files!UploadEnds)
    /\ WF_filesVars(part = "files" /\ Files!EventArrives)
    /\ WF_filesVars(part = "files" /\ Files!AnswerArrives)

AllSpec == AllInit /\ [][AllNext]_allVars /\ AllFairness

-----------------------------------------------------------------------------
\* No edit of the settings is undone: once nothing is under way memory and the settings
\* file agree and hold every edit (ConfigContext, useHighlightSettings); and what the
\* devices keep for the sync stays in its bounds (sync/mod.rs).
SettingsKept ==
    /\ part = "settings" => Conf!EditsKept
    /\ part = "sync" => TypeOK

\* Every save of the settings is answered, however often the configuration is replaced
\* under it (saveConfig), and every call that meets the unlock or the verification prompt
\* comes back (UserVerificationContext, useVaultUnlock).
EveryoneAnswered ==
    []<>((part = "settings" => Conf!NoSaveWaits) /\ (part = "vault" => Secrets!AllAnswered))

\* Once nobody edits and every device syncs, all devices come to hold what the server has
\* (sync/mod.rs).
DevicesConverge == <>[](part = "sync" => Syncing) => <>[](part = "sync" => Agree)

\* Every save of a file edited outside ends up on the server, or the user knows of it
\* (useSftpExternalEdits, api/external).
SavesSettle == <>[](part = "files" => Files!LastSaveKnown)

-----------------------------------------------------------------------------
(* The proof of EditKept.  The latest edit can only get lost in a merge,   *)
(* and a merge drops it only when it takes it for something both sides     *)
(* once agreed on and one has replaced since.  So what has to be shown is  *)
(* that a base that holds the latest edit is a base of its device's own    *)
(* record, and of every file made from it.                                 *)

FileStates == [exists : BOOLEAN, val : Int, history : Seq(Nat), etag : Int]
Syncs == [step : {"idle", "fetch", "put", "apply"}, selected : BOOLEAN, mine : Int, hint : Int,
          got : FileStates, tries : Nat]

\* Every copy of a state of the sync file.
Copies == {file} \cup {base[d] : d \in Devices} \cup {sync[d].got : d \in Devices}

Sound(x) ==
    /\ x \in FileStates /\ x.val <= edits
    /\ IF x.exists THEN x.history # <<>> ELSE x.history = <<>> /\ x.val = Missing
    /\ \A i \in 1..Len(x.history) : x.history[i] \in 1..server.revs

DataOK ==
    /\ edits \in Nat /\ server \in [honours : BOOLEAN, revs : Nat]
    /\ local \in [Devices -> Int] /\ base \in [Devices -> FileStates] /\ file \in FileStates
    /\ sync \in [Devices -> Syncs]
    /\ settings \in [Devices -> [enabled : BOOLEAN, selected : BOOLEAN]]
    /\ \A d \in Devices : local[d] <= edits /\ sync[d].mine <= edits
    /\ \A x \in Copies : Sound(x)
    /\ ~reselected => \A d \in Devices : settings[d].selected /\ sync[d].selected

\* Nobody has replaced the latest edit.
Standing == edits # 0 /\ edits \notin settled \cup raced /\ ~reselected

\* A file made from one with the latest edit has it.
Carries(v, x) == v.val = edits /\ Contains(x.history, Revision(v)) => x.val = edits

BaseIsOwn == \A d \in Devices : base[d].val = edits => local[d] = edits
SnapshotIsOwn ==
    \A d \in Devices : sync[d].step # "idle" =>
        /\ sync[d].mine = edits => local[d] = edits
        /\ base[d].val = edits => sync[d].mine = edits
        /\ sync[d].step = "apply" /\ sync[d].mine = edits => sync[d].got.val = edits
CopiesCarry == \A v, x \in Copies : Carries(v, x)

KeptInv == DataOK /\ (Standing => EditKept /\ BaseIsOwn /\ SnapshotIsOwn /\ CopiesCarry)

LEMMA NoFileIsSound == ASSUME edits \in Nat PROVE Sound(NoFile)
BY DEF Sound, NoFile, FileStates, Missing

LEMMA NoFileCarries ==
    ASSUME NEW v PROVE (edits \in Nat => Carries(NoFile, v)) /\ Carries(v, NoFile)
BY DEF Carries, NoFile, Missing, Contains

LEMMA KeptInit == Init => KeptInv
<1> SUFFICES ASSUME Init PROVE KeptInv
  OBVIOUS
<1>1. \A x \in Copies : x = NoFile
  BY DEF Init, Copies, Idle, NoBase
<1>2. DataOK
  <2>1. edits = 0 /\ server \in [honours : BOOLEAN, revs : Nat]  BY DEF Init
  <2>2. NoFile \in FileStates /\ Idle \in Syncs
    BY DEF NoFile, Idle, FileStates, Syncs, Missing, Absent
  <2>3. /\ local \in [Devices -> Int] /\ base \in [Devices -> FileStates] /\ file \in FileStates
        /\ sync \in [Devices -> Syncs]
        /\ settings \in [Devices -> [enabled : BOOLEAN, selected : BOOLEAN]]
    BY <2>2 DEF Init, NoBase, Absent
  <2>4. \A d \in Devices : /\ local[d] <= edits /\ sync[d].mine <= edits
                           /\ settings[d].selected /\ sync[d].selected
    BY <2>1 DEF Init, Idle, Absent
  <2> QED BY <1>1, <2>1, <2>3, <2>4, NoFileIsSound DEF DataOK
<1>3. ~Standing
  BY DEF Init, Standing
<1> QED BY <1>2, <1>3 DEF KeptInv

\* Versions only get older.
LEMMA LaterIsStanding ==
    ASSUME Standing', edits' = edits, settled \subseteq settled', raced \subseteq raced',
           reselected => reselected'
    PROVE  Standing
BY DEF Standing

\* What a merge returns is no newer than what it is given, and keeps the latest edit.
LEMMA MaxOfTwo ==
    ASSUME NEW l \in Int, NEW r \in Int PROVE Max({l, r}) = IF l >= r THEN l ELSE r
BY DEF Max

LEMMA MergedIsKnown ==
    ASSUME DataOK, NEW d \in Devices, NEW got \in Copies
    PROVE  Merged(d, got) \in Int /\ Merged(d, got) <= edits
<1>1. sync[d].mine \in Int /\ sync[d].mine <= edits /\ got.val \in Int /\ got.val <= edits
  BY DEF DataOK, Sound, FileStates, Syncs
<1>2. MergeRecord(sync[d].mine, got.val) \in {sync[d].mine, got.val}
  BY <1>1, MaxOfTwo DEF MergeRecord
<1> QED BY <1>1, <1>2 DEF Merged, MergeAll, MergeCollection

LEMMA MergedKeepsLatest ==
    ASSUME DataOK, Standing, SnapshotIsOwn, CopiesCarry,
           NEW d \in Devices, sync[d].step # "idle", NEW got \in Copies,
           sync[d].mine = edits \/ got.val = edits
    PROVE  Merged(d, got) = edits
<1>1. /\ sync[d].mine \in Int /\ sync[d].mine <= edits /\ got.val \in Int /\ got.val <= edits
      /\ edits \in Nat /\ edits # 0 /\ sync[d].selected
      /\ got.exists \/ got.val = Missing
      /\ base[d] \in Copies
  BY DEF DataOK, Sound, FileStates, Syncs, Standing, Copies
<1>2. MergeRecord(sync[d].mine, got.val) = edits
  BY <1>1, MaxOfTwo DEF MergeRecord
<1>3. CASE MergeBase(d, got) # edits
  BY <1>1, <1>2, <1>3 DEF Merged, MergeAll, MergeCollection, Missing
<1>4. CASE MergeBase(d, got) = edits /\ got.val = Missing
  BY <1>1, <1>4 DEF Merged, MergeAll, Missing
<1>5. CASE MergeBase(d, got) = edits /\ got.val # Missing
  <2>1. base[d].val = edits /\ DescendsFrom(got.history, got.exists, Revision(base[d]))
    BY <1>1, <1>5 DEF MergeBase, Absent
  <2>2. Contains(got.history, Revision(base[d]))
    BY <1>1, <1>5, <2>1 DEF DescendsFrom
  <2>3. got.val = edits
    BY <1>1, <2>1, <2>2 DEF CopiesCarry, Carries
  <2>4. sync[d].mine = edits
    BY <2>1 DEF SnapshotIsOwn
  <2> QED BY <1>1, <2>3, <2>4 DEF Merged, MergeAll, MergeCollection, Missing
<1> QED BY <1>3, <1>4, <1>5

\* The history of an upload: its own revision after some of those it was made from.
LEMMA HistoryGrows ==
    ASSUME NEW parent \in Seq(Nat), NEW r \in Nat
    PROVE  /\ NextHistory(parent, r) \in Seq(Nat) /\ NextHistory(parent, r) # <<>>
           /\ \A i \in 1..Len(NextHistory(parent, r)) :
                NextHistory(parent, r)[i] = r \/ Contains(parent, NextHistory(parent, r)[i])
           /\ Last(NextHistory(parent, r)) = r
<1> DEFINE m == IF Len(parent) > HistoryLen - 1 THEN Len(parent) - HistoryLen + 2 ELSE 1
           kept == SubSeq(parent, m, Len(parent))
<1>1. m \in Nat /\ m >= 1 /\ Len(parent) \in Nat
  BY SyncAssumption
<1>2. kept \in Seq(Nat) /\ Len(kept) \in Nat
      /\ \A i \in 1..Len(kept) : kept[i] = parent[m + i - 1] /\ m + i - 1 \in 1..Len(parent)
  <2>1. kept \in Seq(Nat) /\ Len(kept) \in Nat  BY <1>1
  <2>2. Len(kept) = IF m <= Len(parent) THEN Len(parent) - m + 1 ELSE 0  BY <1>1
  <2>3. \A i \in 1..Len(kept) : kept[i] = parent[m + i - 1]  BY <1>1, <2>2
  <2> HIDE DEF m, kept
  <2>4. \A i \in 1..Len(kept) : m + i - 1 \in 1..Len(parent)  BY <1>1, <2>2
  <2> QED BY <2>1, <2>3, <2>4
<1> HIDE DEF m, kept
<1>3. \A i \in 1..Len(kept) : Contains(parent, kept[i])
  BY <1>2 DEF Contains
<1>4. NextHistory(parent, r) = kept \o <<r>>
  BY DEF NextHistory, kept, m
<1>5. /\ kept \o <<r>> \in Seq(Nat) /\ Len(kept \o <<r>>) = Len(kept) + 1
      /\ \A i \in 1..Len(kept) : (kept \o <<r>>)[i] = kept[i]
      /\ (kept \o <<r>>)[Len(kept) + 1] = r
  BY <1>2
<1> QED BY <1>2, <1>3, <1>4, <1>5 DEF Last

\* What may be said of a step that touches neither the records nor the file.
Aside ==
    /\ UNCHANGED <<local, file, server, edits, settled, raced, reselected>>
    /\ \A d \in Devices : settings'[d].selected = settings[d].selected
    /\ settings' \in [Devices -> [enabled : BOOLEAN, selected : BOOLEAN]]

\* A sync starts, ends or waits, and a base stays or is forgotten.
Moves(d) ==
    /\ sync' \in [Devices -> Syncs] /\ base' \in [Devices -> FileStates]
    /\ \A e \in Devices \ {d} : sync'[e] = sync[e] /\ base'[e] = base[e]
    /\ base'[d] = base[d] \/ (sync'[d].step = "idle" /\ base'[d] = NoBase)
    /\ \/ sync'[d] = sync[d]
       \/ sync'[d] = Idle
       \/ /\ sync'[d].step \in {"fetch", "put"} /\ sync'[d].got \in Copies \cup {NoFile}
          /\ \/ sync[d].step # "idle" /\ sync'[d].mine = sync[d].mine /\ sync'[d].selected = sync[d].selected
             \/ sync'[d].mine = local[d] /\ sync'[d].selected = settings[d].selected
       \/ /\ sync'[d].step = "apply" /\ sync[d].step # "idle"
          /\ sync'[d].got \in Copies /\ Merged(d, sync'[d].got) = sync'[d].got.val
          /\ sync'[d].mine = sync[d].mine /\ sync'[d].selected = sync[d].selected

LEMMA MovesKeep == ASSUME KeptInv, Aside, NEW d \in Devices, Moves(d) PROVE KeptInv'
<1>0. DataOK  BY DEF KeptInv
<1>1. \A x \in Copies' : x \in Copies \/ x = NoFile
  BY DEF Aside, Moves, Copies, Idle, NoBase
<1>2. \A x \in Copies' : Sound(x)'
  <2> SUFFICES ASSUME NEW x \in Copies' PROVE Sound(x)'
    OBVIOUS
  <2>1. Sound(x)  BY <1>0, <1>1, NoFileIsSound DEF DataOK
  <2> QED BY <2>1 DEF Sound, Aside
<1>3. \A e \in Devices : sync'[e].mine <= edits
  BY <1>0 DEF DataOK, Moves, Idle, Absent
<1>4. ~reselected => \A e \in Devices : settings'[e].selected /\ sync'[e].selected
  BY <1>0 DEF DataOK, Moves, Aside, Idle
<1>5. DataOK'
  BY <1>0, <1>2, <1>3, <1>4 DEF DataOK, Aside, Moves
<1>6. ASSUME Standing' PROVE (EditKept /\ BaseIsOwn /\ SnapshotIsOwn /\ CopiesCarry)'
  <2>1. Standing /\ EditKept /\ BaseIsOwn /\ SnapshotIsOwn /\ CopiesCarry
    BY <1>6, LaterIsStanding DEF KeptInv, Aside
  <2>2. edits \in Nat \ {0}  BY <1>0, <2>1 DEF DataOK, Standing
  <2>3. EditKept'  BY <2>1 DEF EditKept, Aside
  <2>4. BaseIsOwn'  BY <2>1, <2>2 DEF BaseIsOwn, Aside, Moves, NoBase, NoFile, Missing
  <2>5. SnapshotIsOwn'
    <3> SUFFICES ASSUME NEW e \in Devices, sync'[e].step # "idle"
                 PROVE  /\ sync'[e].mine = edits => local[e] = edits
                        /\ base'[e].val = edits => sync'[e].mine = edits
                        /\ sync'[e].step = "apply" /\ sync'[e].mine = edits => sync'[e].got.val = edits
      BY DEF SnapshotIsOwn, Aside
    <3>1. CASE e # d \/ sync'[e] = sync[e]
      BY <2>1, <3>1 DEF SnapshotIsOwn, Moves
    <3>2. CASE e = d /\ sync'[d] # sync[d]
      <4>1. base'[d] = base[d] /\ sync'[d] # Idle  BY <3>2 DEF Moves, Idle
      <4>2. CASE sync'[d].step # "apply"
        BY <2>1, <3>2, <4>1, <4>2 DEF SnapshotIsOwn, BaseIsOwn, Moves
      <4>3. CASE sync'[d].step = "apply"
        <5>1. /\ sync[d].step # "idle" /\ sync'[d].mine = sync[d].mine
              /\ sync'[d].got \in Copies /\ Merged(d, sync'[d].got) = sync'[d].got.val
          BY <3>2, <4>1, <4>3 DEF Moves
        <5>2. sync[d].mine = edits => sync'[d].got.val = edits
          BY <1>0, <2>1, <5>1, MergedKeepsLatest
        <5> QED BY <2>1, <3>2, <4>1, <5>1, <5>2 DEF SnapshotIsOwn
      <4> QED BY <4>2, <4>3
    <3> QED BY <3>1, <3>2
  <2>6. CopiesCarry'
    <3> SUFFICES ASSUME NEW v \in Copies', NEW x \in Copies' PROVE Carries(v, x)'
      BY DEF CopiesCarry
    <3>1. Carries(v, x)  BY <1>1, <2>1, <2>2, NoFileCarries DEF CopiesCarry
    <3> QED BY <3>1 DEF Carries, Aside
  <2> QED BY <2>3, <2>4, <2>5, <2>6
<1> QED BY <1>5, <1>6 DEF KeptInv

\* Each action of that kind.
LEMMA NoFileIsFile == NoFile \in FileStates
BY DEF NoFile, FileStates, Missing

LEMMA StartMoves ==
    ASSUME DataOK, NEW d \in Devices, StartSync(d), UNCHANGED base
    PROVE  Moves(d)
<1>1. base[d] \in FileStates /\ settings[d].selected \in BOOLEAN /\ local[d] \in Int
  BY DEF DataOK
<1>2. [step |-> "fetch", selected |-> settings[d].selected, mine |-> local[d],
       hint |-> base[d].etag, got |-> NoFile, tries |-> 0] \in Syncs
  BY <1>1, NoFileIsFile DEF FileStates, Syncs
<1> QED BY <1>2 DEF StartSync, Moves, DataOK

LEMMA EndMoves ==
    ASSUME DataOK, NEW d \in Devices, sync' = [sync EXCEPT ![d] = Idle], UNCHANGED base
    PROVE  Moves(d)
<1>1. Idle \in Syncs  BY DEF Idle, Syncs, FileStates, NoFile, Missing, Absent
<1> QED BY <1>1 DEF Moves, DataOK

LEMMA StayMoves ==
    ASSUME DataOK, NEW d \in Devices, UNCHANGED <<sync, base>> PROVE Moves(d)
BY DEF Moves, DataOK

LEMMA TimersKeep ==
    ASSUME KeptInv, NEW d \in Devices,
           Tick(d) \/ SyncNow(d) \/ LockVault(d) \/ UnlockVault(d) \/ Save(d) \/ HandleReset(d) \/ LoadSchedule(d)
    PROVE  KeptInv'
<1>0. DataOK  BY DEF KeptInv
<1>1. Aside
  <2>1. UNCHANGED <<dataVars, edits, ghostVars>>
    BY DEF dataVars, Tick, SyncNow, LockVault, UnlockVault, Save, HandleReset, LoadSchedule
  <2>2. CASE UNCHANGED settings
    BY <1>0, <2>1, <2>2 DEF Aside, DataOK, dataVars, ghostVars
  <2>3. CASE settings' = [settings EXCEPT ![d].enabled = ~@]
    <3>1. settings' \in [Devices -> [enabled : BOOLEAN, selected : BOOLEAN]]
      BY <1>0, <2>3 DEF DataOK
    <3>2. \A e \in Devices : settings'[e].selected = settings[e].selected
      BY <1>0, <2>3 DEF DataOK
    <3> QED BY <2>1, <3>1, <3>2 DEF Aside, dataVars, ghostVars
  <2> QED BY <2>2, <2>3
          DEF uiVars, Tick, SyncNow, LockVault, UnlockVault, Save, HandleReset, LoadSchedule
<1>2. UNCHANGED base /\ (UNCHANGED sync \/ StartSync(d))
  BY DEF dataVars, Tick, SyncNow, LockVault, UnlockVault, Save, HandleReset, LoadSchedule
<1>3. Moves(d)  BY <1>0, <1>2, StartMoves, StayMoves
<1> QED BY <1>1, <1>3, MovesKeep

LEMMA ResetKeeps == ASSUME KeptInv, NEW d \in Devices, ResetSync(d) PROVE KeptInv'
<1>0. DataOK  BY DEF KeptInv
<1>1. Aside
  <2>1. UNCHANGED <<local, file, server, edits, settled, raced, reselected>> /\ UNCHANGED settings
    BY DEF ResetSync, ghostVars
  <2>2. settings \in [Devices -> [enabled : BOOLEAN, selected : BOOLEAN]]  BY <1>0 DEF DataOK
  <2> QED BY <2>1, <2>2 DEF Aside
<1>3. NoBase \in FileStates  BY NoFileIsFile DEF NoBase
<1>4. Moves(d)
  <2>1. base' = [base EXCEPT ![d] = NoBase] /\ sync' = sync /\ sync[d].step = "idle"
    BY DEF ResetSync
  <2>2. base \in [Devices -> FileStates] /\ sync \in [Devices -> Syncs]  BY <1>0 DEF DataOK
  <2> QED BY <1>3, <2>1, <2>2 DEF Moves
<1> QED BY <1>1, <1>4, MovesKeep

LEMMA FetchKeeps == ASSUME KeptInv, NEW d \in Devices, Fetch(d) PROVE KeptInv'
<1>0. DataOK  BY DEF KeptInv
<1>1. Aside  BY <1>0 DEF Aside, DataOK, Fetch, dataVars, uiVars, ghostVars
<1>2. PICK got \in Copies :
        sync' = [sync EXCEPT ![d].step = IF Uploads(d, got) THEN "put" ELSE "apply", ![d].got = got]
  <2>1. /\ base[d] \in Copies /\ file \in Copies
    BY DEF Copies
  <2> QED BY <2>1 DEF Fetch
<1>3. got \in FileStates  BY <1>0 DEF DataOK, Sound
<1>4. sync[d].step = "fetch" /\ UNCHANGED base  BY DEF Fetch, dataVars
<1>5. sync' \in [Devices -> Syncs]
  <2>1. sync[d] \in Syncs /\ sync \in [Devices -> Syncs]  BY <1>0 DEF DataOK
  <2>2. PICK s : s = [sync[d] EXCEPT !.step = IF Uploads(d, got) THEN "put" ELSE "apply", !.got = got]
    OBVIOUS
  <2>3. s \in Syncs  BY <1>3, <2>1, <2>2 DEF Syncs
  <2>4. sync' = [sync EXCEPT ![d] = s]  BY <1>2, <2>1, <2>2
  <2> QED BY <2>1, <2>3, <2>4
<1>6. /\ sync'[d].got = got /\ sync'[d].mine = sync[d].mine /\ sync'[d].selected = sync[d].selected
      /\ sync'[d].step = IF Uploads(d, got) THEN "put" ELSE "apply"
  BY <1>0, <1>2 DEF DataOK, Syncs
<1>7. Moves(d)
  BY <1>0, <1>2, <1>4, <1>5, <1>6 DEF Moves, DataOK, Uploads
<1> QED BY <1>1, <1>7, MovesKeep

LEMMA ConflictKeeps == ASSUME KeptInv, NEW d \in Devices, Conflict(d) PROVE KeptInv'
<1>0. DataOK  BY DEF KeptInv
<1>1. Aside  BY <1>0 DEF Aside, DataOK, Conflict, dataVars, ghostVars
<1>2. UNCHANGED base  BY DEF Conflict, dataVars
<1>3. CASE Ended(d)
  BY <1>0, <1>1, <1>2, <1>3, EndMoves, MovesKeep DEF Ended
<1>4. CASE sync' = [sync EXCEPT ![d].step = "fetch", ![d].hint = 0, ![d].tries = @ + 1, ![d].got = NoFile]
  <2>0. sync[d] \in Syncs /\ sync \in [Devices -> Syncs]  BY <1>0 DEF DataOK
  <2>1. sync' \in [Devices -> Syncs]
    <3>1. PICK s : s = [sync[d] EXCEPT !.step = "fetch", !.hint = 0, !.tries = @ + 1, !.got = NoFile]
      OBVIOUS
    <3>2. s \in Syncs
      <4>1. s = [step |-> "fetch", selected |-> sync[d].selected, mine |-> sync[d].mine, hint |-> 0,
                 got |-> NoFile, tries |-> sync[d].tries + 1]
        BY <2>0, <3>1 DEF Syncs
      <4> QED BY <2>0, <4>1, NoFileIsFile DEF Syncs
    <3>3. sync' = [sync EXCEPT ![d] = s]  BY <1>4, <2>0, <3>1
    <3> QED BY <2>0, <3>2, <3>3
  <2>2. /\ sync'[d].got = NoFile /\ sync'[d].mine = sync[d].mine /\ sync'[d].step = "fetch"
        /\ sync'[d].selected = sync[d].selected /\ sync[d].step = "put"
    BY <1>0, <1>4 DEF DataOK, Syncs, Conflict
  <2>3. Moves(d)  BY <1>0, <1>2, <1>4, <2>1, <2>2 DEF Moves, DataOK
  <2> QED BY <1>1, <2>3, MovesKeep
<1> QED BY <1>3, <1>4 DEF Conflict

LEMMA SelectKeeps == ASSUME KeptInv, NEW d \in Devices, UpdateSelection(d) PROVE KeptInv'
<1>0. DataOK  BY DEF KeptInv
<1>1. /\ UNCHANGED <<local, base, file, server, edits, sync>> /\ reselected'
      /\ settings' = [settings EXCEPT ![d].selected = ~@]
  BY DEF UpdateSelection, dataVars
<1>2. settings' \in [Devices -> [enabled : BOOLEAN, selected : BOOLEAN]]
  BY <1>0, <1>1 DEF DataOK
<1>3. \A x \in Copies' : Sound(x)'
  BY <1>0, <1>1 DEF DataOK, Copies, Sound
<1>4. DataOK'  BY <1>0, <1>1, <1>2, <1>3 DEF DataOK
<1> QED BY <1>1, <1>4 DEF KeptInv, Standing

LEMMA LossKeeps == ASSUME KeptInv, ServerLosesFile PROVE KeptInv'
<1>0. DataOK  BY DEF KeptInv
<1>1. /\ UNCHANGED <<local, base, server, edits, sync, settings, settled, raced, reselected>>
      /\ file' = NoFile
  BY DEF ServerLosesFile, uiVars, ghostVars
<1>2. \A x \in Copies' : x \in Copies \/ x = NoFile
  BY <1>1 DEF Copies
<1>3. \A x \in Copies' : Sound(x)'
  <2> SUFFICES ASSUME NEW x \in Copies' PROVE Sound(x)'
    OBVIOUS
  <2>1. Sound(x)  BY <1>0, <1>2, NoFileIsSound DEF DataOK
  <2> QED BY <1>1, <2>1 DEF Sound
<1>4. DataOK'  BY <1>0, <1>1, <1>3, NoFileIsFile DEF DataOK
<1>5. ASSUME Standing' PROVE (EditKept /\ BaseIsOwn /\ SnapshotIsOwn /\ CopiesCarry)'
  <2>1. Standing /\ EditKept /\ BaseIsOwn /\ SnapshotIsOwn /\ CopiesCarry
    BY <1>1, <1>5 DEF KeptInv, Standing
  <2>2. EditKept' /\ BaseIsOwn' /\ SnapshotIsOwn'
    BY <1>1, <2>1 DEF EditKept, BaseIsOwn, SnapshotIsOwn
  <2>3. CopiesCarry'
    <3> SUFFICES ASSUME NEW v \in Copies', NEW x \in Copies' PROVE Carries(v, x)'
      BY DEF CopiesCarry
    <3>1. edits \in Nat  BY <1>0 DEF DataOK
    <3>2. Carries(v, x)  BY <1>2, <2>1, <3>1, NoFileCarries DEF CopiesCarry
    <3> QED BY <1>1, <3>2 DEF Carries
  <2> QED BY <2>2, <2>3
<1> QED BY <1>4, <1>5 DEF KeptInv

\* The user's edits and deletions.
LEMMA EditKeeps == ASSUME KeptInv, NEW d \in Devices, Edit(d) PROVE KeptInv'
<1>0. DataOK  BY DEF KeptInv
<1>1. /\ UNCHANGED <<base, file, server, sync, settings, reselected>>
      /\ edits' = edits + 1 /\ local' = [local EXCEPT ![d] = edits + 1]
  BY DEF Edit, uiVars
<1>2. edits \in Nat /\ \A x \in Copies' : x \in Copies /\ Sound(x) /\ x.val # edits'
  <2>1. Copies' = Copies  BY <1>1 DEF Copies
  <2>2. \A x \in Copies : Sound(x)  BY <1>0 DEF DataOK
  <2>3. edits \in Nat  BY <1>0 DEF DataOK
  <2>4. \A x \in Copies : x.val # edits'  BY <1>1, <2>2, <2>3 DEF Sound, FileStates
  <2> QED BY <2>1, <2>2, <2>3, <2>4
<1>3. \A x \in Copies' : Sound(x)'
  BY <1>1, <1>2 DEF Sound, FileStates
<1>4. \A e \in Devices : local'[e] <= edits' /\ sync'[e].mine <= edits' /\ sync[e].mine # edits'
  BY <1>0, <1>1 DEF DataOK, Syncs
<1>5. local' \in [Devices -> Int] /\ edits' \in Nat  BY <1>0, <1>1 DEF DataOK
<1>6. DataOK'  BY <1>0, <1>1, <1>3, <1>4, <1>5 DEF DataOK
<1>7. EditKept'  BY <1>0, <1>1 DEF EditKept, DataOK
<1>8. \A e \in Devices : base[e] \in Copies'  BY <1>1 DEF Copies
<1>9. BaseIsOwn' /\ SnapshotIsOwn' /\ CopiesCarry'
  BY <1>1, <1>2, <1>4, <1>8 DEF BaseIsOwn, SnapshotIsOwn, CopiesCarry, Carries
<1> QED BY <1>6, <1>7, <1>9 DEF KeptInv

LEMMA DeleteKeeps == ASSUME KeptInv, NEW d \in Devices, Delete(d) PROVE KeptInv'
<1>0. DataOK  BY DEF KeptInv
<1>1. /\ UNCHANGED <<base, file, server, sync, settings, reselected, edits, raced>>
      /\ local' = [local EXCEPT ![d] = Absent] /\ settled' = settled \cup {local[d]}
  BY DEF Delete, uiVars
<1>2. \A x \in Copies' : x \in Copies /\ Sound(x)'
  BY <1>0, <1>1 DEF DataOK, Copies, Sound
<1>3. local' \in [Devices -> Int] /\ \A e \in Devices : local'[e] <= edits
  BY <1>0, <1>1 DEF DataOK, Absent
<1>4. DataOK'  BY <1>0, <1>1, <1>2, <1>3 DEF DataOK
<1>5. ASSUME Standing' PROVE (EditKept /\ BaseIsOwn /\ SnapshotIsOwn /\ CopiesCarry)'
  <2>1. Standing /\ EditKept /\ BaseIsOwn /\ SnapshotIsOwn /\ CopiesCarry
    BY <1>1, <1>5 DEF KeptInv, Standing
  <2>2. local[d] # edits /\ \A e \in Devices : local[e] = edits => local'[e] = edits
    BY <1>0, <1>1, <1>5 DEF Standing, DataOK
  <2>3. EditKept'  BY <1>1, <2>1, <2>2, <1>5 DEF EditKept, Standing
  <2>4. BaseIsOwn' /\ SnapshotIsOwn'
    BY <1>1, <2>1, <2>2 DEF BaseIsOwn, SnapshotIsOwn
  <2>5. CopiesCarry'
    BY <1>1, <1>2, <2>1 DEF CopiesCarry, Carries
  <2> QED BY <2>3, <2>4, <2>5
<1> QED BY <1>4, <1>5 DEF KeptInv

\* An upload makes a new version, which carries on what it was made from.
LEMMA RevisionIsKnown ==
    ASSUME NEW v, Sound(v), v.exists, server.revs \in Nat
    PROVE  Revision(v) \in 1..server.revs
<1>1. v.history \in Seq(Nat) /\ v.history # <<>>  BY DEF Sound, FileStates
<1>2. Len(v.history) \in 1..Len(v.history)  BY <1>1
<1> QED BY <1>1, <1>2 DEF Sound, Revision, Last

LEMMA UploadIsSound ==
    ASSUME DataOK, NEW d \in Devices, Stored(d), UNCHANGED edits
    PROVE  /\ server' \in [honours : BOOLEAN, revs : Nat] /\ server'.revs = server.revs + 1
           /\ Sound(file)' /\ file'.val = Merged(d, sync[d].got)
           /\ Revision(file') = server'.revs
           /\ \A n : Contains(file'.history, n) => n = server'.revs \/ Contains(sync[d].got.history, n)
<1> DEFINE r == server.revs + 1
           got == sync[d].got
<1>1. /\ server' = [server EXCEPT !.revs = r]
      /\ file' = [exists |-> TRUE, val |-> Merged(d, got), history |-> NextHistory(got.history, r), etag |-> r]
  BY DEF Stored
<1>2. got \in Copies /\ Sound(got) /\ got.history \in Seq(Nat) /\ r \in Nat /\ edits \in Nat
      /\ server.revs \in Nat /\ server \in [honours : BOOLEAN, revs : Nat]
  <2>1. got \in Copies  BY DEF Copies
  <2>2. Sound(got) /\ edits \in Nat /\ server \in [honours : BOOLEAN, revs : Nat]
    BY <2>1 DEF DataOK
  <2>3. got.history \in Seq(Nat)  BY <2>2 DEF Sound, FileStates
  <2>4. server.revs \in Nat /\ r \in Nat  BY <2>2
  <2> QED BY <2>1, <2>2, <2>3, <2>4
<1>3. server' \in [honours : BOOLEAN, revs : Nat] /\ server'.revs = r
  BY <1>1, <1>2
<1>4. Merged(d, got) \in Int /\ Merged(d, got) <= edits  BY <1>2, MergedIsKnown
<1>5. /\ NextHistory(got.history, r) \in Seq(Nat) /\ NextHistory(got.history, r) # <<>>
      /\ \A i \in 1..Len(NextHistory(got.history, r)) :
           \/ NextHistory(got.history, r)[i] = r
           \/ Contains(got.history, NextHistory(got.history, r)[i])
      /\ Last(NextHistory(got.history, r)) = r
  BY <1>2, HistoryGrows
<1>6. \A n : Contains(got.history, n) => n \in 1..server.revs
  BY <1>2 DEF Sound, Contains
<1> HIDE DEF r, got
<1>7. file' \in FileStates
  BY <1>1, <1>2, <1>4, <1>5 DEF FileStates
<1>8. \A i \in 1..Len(file'.history) : file'.history[i] \in 1..r
  <2>1. file'.history = NextHistory(got.history, r)  BY <1>1
  <2>2. \A n \in 1..server.revs : n \in 1..r  BY <1>2 DEF r
  <2>3. r \in 1..r  BY <1>2 DEF r
  <2> QED BY <1>5, <1>6, <2>1, <2>2, <2>3
<1>9. Sound(file)'
  BY <1>1, <1>3, <1>4, <1>5, <1>7, <1>8 DEF Sound
<1>10. Revision(file') = r
  BY <1>1, <1>5 DEF Revision
<1>11. \A n : Contains(file'.history, n) => n = r \/ Contains(got.history, n)
  BY <1>1, <1>5 DEF Contains
<1> QED BY <1>1, <1>3, <1>9, <1>10, <1>11 DEF r, got

LEMMA UploadCarries ==
    ASSUME KeptInv, Standing, NEW d \in Devices, sync[d].step = "put", Stored(d), UNCHANGED edits,
           NEW v \in Copies
    PROVE  Carries(v, file') /\ Carries(file', v)
<1>0. DataOK /\ SnapshotIsOwn /\ CopiesCarry  BY DEF KeptInv
<1>1. /\ Sound(v) /\ server.revs \in Nat /\ edits \in Nat \ {0} /\ sync[d].got \in Copies
  BY <1>0 DEF DataOK, Standing, Copies
<1>2. /\ server'.revs = server.revs + 1 /\ file'.val = Merged(d, sync[d].got)
      /\ Revision(file') = server'.revs
      /\ \A n : Contains(file'.history, n) => n = server'.revs \/ Contains(sync[d].got.history, n)
  BY <1>0, UploadIsSound
<1>3. Carries(v, file')
  <2> SUFFICES ASSUME v.val = edits, Contains(file'.history, Revision(v)) PROVE file'.val = edits
    BY DEF Carries
  <2>1. v.exists  BY <1>1 DEF Sound, Missing
  <2>2. Revision(v) \in 1..server.revs  BY <1>1, <2>1, RevisionIsKnown
  <2>3. Contains(sync[d].got.history, Revision(v))  BY <1>1, <1>2, <2>2
  <2>4. sync[d].got.val = edits  BY <1>0, <1>1, <2>3 DEF CopiesCarry, Carries
  <2> QED BY <1>0, <1>1, <1>2, <2>4, MergedKeepsLatest
<1>4. Carries(file', v)
  <2>1. ~Contains(v.history, server.revs + 1)
    BY <1>1 DEF Sound, Contains
  <2> QED BY <1>2, <2>1 DEF Carries
<1> QED BY <1>3, <1>4

\* The sync goes on with what it stored, or never hears of it.
LEMMA StoreKeeps ==
    ASSUME KeptInv, NEW d \in Devices, sync[d].step = "put", Stored(d),
           UNCHANGED <<local, base, settings, edits, settled, raced, reselected>>,
           sync' \in [Devices -> Syncs], \A e \in Devices \ {d} : sync'[e] = sync[e],
           \/ sync'[d] = Idle
           \/ /\ sync'[d].step = "apply" /\ sync'[d].got = file'
              /\ sync'[d].mine = sync[d].mine /\ sync'[d].selected = sync[d].selected
    PROVE  KeptInv'
<1>0. DataOK  BY DEF KeptInv
<1>1. /\ server' \in [honours : BOOLEAN, revs : Nat] /\ server'.revs = server.revs + 1
      /\ Sound(file)' /\ file'.val = Merged(d, sync[d].got)
  BY <1>0, UploadIsSound
<1>2. \A x \in Copies' : x \in Copies \/ x = NoFile \/ x = file'
  BY DEF Copies, Idle
<1>3. \A x \in Copies' : Sound(x)'
  <2> SUFFICES ASSUME NEW x \in Copies', x # file' PROVE Sound(x)'
    BY <1>1
  <2>1. Sound(x)  BY <1>0, <1>2, NoFileIsSound DEF DataOK
  <2>2. \A n \in 1..server.revs : n \in 1..server'.revs  BY <1>0, <1>1 DEF DataOK
  <2> QED BY <2>1, <2>2 DEF Sound
<1>4. \A e \in Devices : sync'[e].mine <= edits
  BY <1>0 DEF DataOK, Idle, Absent
<1>5. ~reselected => \A e \in Devices : settings[e].selected /\ sync'[e].selected
  BY <1>0 DEF DataOK, Idle
<1>6. file' \in FileStates  BY <1>1 DEF Sound
<1>7. DataOK'  BY <1>0, <1>1, <1>3, <1>4, <1>5, <1>6 DEF DataOK
<1>8. ASSUME Standing' PROVE (EditKept /\ BaseIsOwn /\ SnapshotIsOwn /\ CopiesCarry)'
  <2>1. Standing /\ EditKept /\ BaseIsOwn /\ SnapshotIsOwn /\ CopiesCarry
    BY <1>8 DEF KeptInv, Standing
  <2>2. EditKept' /\ BaseIsOwn'  BY <2>1 DEF EditKept, BaseIsOwn
  <2>3. SnapshotIsOwn'
    <3> SUFFICES ASSUME NEW e \in Devices, sync'[e].step # "idle"
                 PROVE  /\ sync'[e].mine = edits => local[e] = edits
                        /\ base[e].val = edits => sync'[e].mine = edits
                        /\ sync'[e].step = "apply" /\ sync'[e].mine = edits => sync'[e].got.val = edits
      BY DEF SnapshotIsOwn
    <3>1. CASE e # d
      BY <2>1, <3>1 DEF SnapshotIsOwn
    <3>2. CASE e = d
      <4>1. /\ sync'[d].got = file' /\ sync'[d].mine = sync[d].mine /\ sync[d].step # "idle"
        BY <3>2 DEF Idle
      <4>2. sync[d].got \in Copies  BY DEF Copies
      <4>3. sync[d].mine = edits => file'.val = edits
        BY <1>0, <1>1, <2>1, <4>1, <4>2, MergedKeepsLatest
      <4> QED BY <2>1, <3>2, <4>1, <4>3 DEF SnapshotIsOwn
    <3> QED BY <3>1, <3>2
  <2>4. CopiesCarry'
    <3> SUFFICES ASSUME NEW v \in Copies', NEW x \in Copies' PROVE Carries(v, x)'
      BY DEF CopiesCarry
    <3>1. edits \in Nat  BY <1>0 DEF DataOK
    <3>2. Carries(v, x)
      <4>1. CASE v = NoFile \/ x = NoFile  BY <3>1, <4>1, NoFileCarries
      <4>2. CASE v \in Copies /\ x \in Copies  BY <2>1, <4>2 DEF CopiesCarry
      <4>3. CASE v \in Copies /\ x = file'  BY <2>1, <4>3, UploadCarries
      <4>4. CASE v = file' /\ x \in Copies  BY <2>1, <4>4, UploadCarries
      <4>5. CASE v = file' /\ x = file'  BY <4>5 DEF Carries
      <4> QED BY <1>2, <4>1, <4>2, <4>3, <4>4, <4>5
    <3> QED BY <3>2 DEF Carries
  <2> QED BY <2>2, <2>3, <2>4
<1> QED BY <1>7, <1>8 DEF KeptInv

LEMMA UploadKeeps == ASSUME KeptInv, NEW d \in Devices, Upload(d) PROVE KeptInv'
<1>0. DataOK  BY DEF KeptInv
<1>1. /\ sync[d].step = "put" /\ Stored(d)
      /\ UNCHANGED <<local, base, edits, settled, raced, reselected>> /\ UNCHANGED settings
      /\ sync' = [sync EXCEPT ![d].step = "apply", ![d].got = file']
  BY DEF Upload, uiVars, ghostVars
<1>2. sync[d] \in Syncs /\ sync \in [Devices -> Syncs]  BY <1>0 DEF DataOK
<1>3. file' \in FileStates  BY <1>0, <1>1, UploadIsSound DEF Sound
<1>4. PICK s : s = [sync[d] EXCEPT !.step = "apply", !.got = file']  OBVIOUS
<1>5. /\ s \in Syncs /\ s.step = "apply" /\ s.got = file'
      /\ s.mine = sync[d].mine /\ s.selected = sync[d].selected
  BY <1>2, <1>3, <1>4 DEF Syncs
<1>6. sync' = [sync EXCEPT ![d] = s]  BY <1>1, <1>2, <1>4
<1>7. sync' \in [Devices -> Syncs] /\ sync'[d] = s /\ \A e \in Devices \ {d} : sync'[e] = sync[e]
  BY <1>2, <1>5, <1>6
<1> QED BY <1>1, <1>5, <1>7, StoreKeeps

LEMMA FailureKeeps == ASSUME KeptInv, NEW d \in Devices, SyncFails(d) PROVE KeptInv'
<1>0. DataOK  BY DEF KeptInv
<1>1. /\ sync' = [sync EXCEPT ![d] = Idle]
      /\ UNCHANGED <<local, base, edits, settled, raced, reselected>> /\ UNCHANGED settings
  BY DEF SyncFails, Ended, ghostVars
<1>2. CASE UNCHANGED <<file, server>>
  <2>1. Aside  BY <1>0, <1>1, <1>2 DEF Aside, DataOK
  <2> QED BY <1>0, <1>1, <2>1, EndMoves, MovesKeep
<1>3. CASE sync[d].step = "put" /\ Stored(d)
  <2>1. sync \in [Devices -> Syncs] /\ Idle \in Syncs
    BY <1>0, NoFileIsFile DEF DataOK, Idle, Syncs, Absent
  <2>2. sync' \in [Devices -> Syncs] /\ sync'[d] = Idle /\ \A e \in Devices \ {d} : sync'[e] = sync[e]
    BY <1>1, <2>1
  <2> QED BY <1>1, <1>3, <2>2, StoreKeeps
<1> QED BY <1>2, <1>3 DEF SyncFails

\* What a sync writes is the latest edit, or the device did not have that, or
\* got it while the sync was under way.
LEMMA ApplyKeeps == ASSUME KeptInv, NEW d \in Devices, Apply(d) PROVE KeptInv'
<1> DEFINE got == sync[d].got
           writes == sync[d].selected /\ got.val # sync[d].mine
<1>0. DataOK  BY DEF KeptInv
<1>1. /\ sync[d].step = "apply" /\ sync' = [sync EXCEPT ![d] = Idle]
      /\ local' = IF writes THEN [local EXCEPT ![d] = got.val] ELSE local
      /\ raced' = IF writes /\ local[d] # sync[d].mine THEN raced \cup {local[d]} ELSE raced
      /\ base' = [base EXCEPT ![d] = got]
      /\ UNCHANGED <<file, server, settings, edits, settled, reselected>>
  BY DEF Apply, Ended
<1>2. got \in Copies /\ Sound(got) /\ got \in FileStates /\ got.val \in Int /\ got.val <= edits
  BY <1>0 DEF DataOK, Copies, Sound, FileStates
<1> HIDE DEF got
<1>3. /\ base' \in [Devices -> FileStates] /\ base'[d] = got
      /\ \A e \in Devices \ {d} : base'[e] = base[e]
  BY <1>0, <1>1, <1>2 DEF DataOK
<1>4. /\ sync' \in [Devices -> Syncs] /\ sync'[d] = Idle
      /\ \A e \in Devices \ {d} : sync'[e] = sync[e]
  BY <1>0, <1>1, NoFileIsFile DEF DataOK, Idle, Syncs, Absent
<1>5. /\ local' \in [Devices -> Int] /\ local'[d] = IF writes THEN got.val ELSE local[d]
      /\ \A e \in Devices \ {d} : local'[e] = local[e]
  BY <1>0, <1>1, <1>2 DEF DataOK
<1>6. \A x \in Copies' : x \in Copies \/ x = NoFile
  <2> SUFFICES ASSUME NEW x \in Copies' PROVE x \in Copies \/ x = NoFile
    OBVIOUS
  <2>1. \/ x = file'
        \/ \E e \in Devices : x = base'[e]
        \/ \E e \in Devices : x = sync'[e].got
    BY DEF Copies
  <2>2. ASSUME NEW e \in Devices PROVE base'[e] \in Copies
    BY <1>2, <1>3 DEF Copies
  <2>3. ASSUME NEW e \in Devices PROVE sync'[e].got \in Copies \cup {NoFile}
    BY <1>4 DEF Copies, Idle
  <2> QED BY <1>1, <2>1, <2>2, <2>3 DEF Copies
<1>7. \A x \in Copies' : Sound(x)'
  <2> SUFFICES ASSUME NEW x \in Copies' PROVE Sound(x)'
    OBVIOUS
  <2>1. Sound(x)  BY <1>0, <1>6, NoFileIsSound DEF DataOK
  <2> QED BY <1>1, <2>1 DEF Sound
<1>8. \A e \in Devices : local'[e] <= edits /\ sync'[e].mine <= edits
  BY <1>0, <1>2, <1>4, <1>5 DEF DataOK, Idle, Absent
<1>9. ~reselected => \A e \in Devices : settings[e].selected /\ sync'[e].selected
  BY <1>0, <1>4 DEF DataOK, Idle
<1>10. DataOK'
  BY <1>0, <1>1, <1>3, <1>4, <1>5, <1>7, <1>8, <1>9 DEF DataOK
<1>11. ASSUME Standing' PROVE (EditKept /\ BaseIsOwn /\ SnapshotIsOwn /\ CopiesCarry)'
  <2>1. Standing /\ EditKept /\ BaseIsOwn /\ SnapshotIsOwn /\ CopiesCarry
    BY <1>1, <1>11 DEF KeptInv, Standing
  <2>2. /\ sync[d].mine = edits => local[d] = edits /\ got.val = edits
        /\ sync[d].selected
    BY <1>0, <1>1, <2>1 DEF DataOK, SnapshotIsOwn, Standing, got
  <2>3. local[d] = edits => local'[d] = edits
    <3> SUFFICES ASSUME local[d] = edits, writes PROVE FALSE
      BY <1>5
    <3>1. sync[d].mine # edits  BY <2>2
    <3> QED BY <1>1, <1>11, <3>1 DEF Standing
  <2>4. EditKept'
    BY <1>1, <1>5, <1>11, <2>1, <2>3 DEF EditKept, Standing
  <2>5. got.val = edits => local'[d] = edits
    BY <1>5, <2>2
  <2>6. BaseIsOwn'
    BY <1>1, <1>3, <1>5, <2>1, <2>5 DEF BaseIsOwn
  <2>7. SnapshotIsOwn'
    BY <1>1, <1>3, <1>4, <1>5, <2>1 DEF SnapshotIsOwn, Idle
  <2>8. CopiesCarry'
    <3> SUFFICES ASSUME NEW v \in Copies', NEW x \in Copies' PROVE Carries(v, x)'
      BY DEF CopiesCarry
    <3>1. edits \in Nat  BY <1>0 DEF DataOK
    <3>2. Carries(v, x)  BY <1>6, <2>1, <3>1, NoFileCarries DEF CopiesCarry
    <3> QED BY <1>1, <3>2 DEF Carries
  <2> QED BY <2>4, <2>6, <2>7, <2>8
<1> QED BY <1>10, <1>11 DEF KeptInv

LEMMA KeptNext == KeptInv /\ [Next]_vars => KeptInv'
<1> SUFFICES ASSUME KeptInv, [Next]_vars PROVE KeptInv'
  OBVIOUS
<1>1. CASE UNCHANGED vars
  <2>1. UNCHANGED <<local, base, file, server, sync, settings, edits, settled, raced, reselected>>
    BY <1>1 DEF vars, dataVars, uiVars, ghostVars
  <2> QED BY <2>1 DEF KeptInv, DataOK, Copies, Sound, Standing, EditKept, BaseIsOwn, SnapshotIsOwn,
                      CopiesCarry, Carries
<1>2. CASE ServerLosesFile  BY <1>2, LossKeeps
<1>3. ASSUME NEW d \in Devices,
             \/ Tick(d) \/ Fetch(d) \/ Upload(d) \/ Conflict(d) \/ Apply(d) \/ SyncFails(d)
             \/ Edit(d) \/ Delete(d)
      PROVE  KeptInv'
  BY <1>3, TimersKeep, FetchKeeps, UploadKeeps, ConflictKeeps, ApplyKeeps, FailureKeeps, EditKeeps,
     DeleteKeeps
<1>4. ASSUME NEW d \in Cards,
             \/ SyncNow(d) \/ LockVault(d) \/ UnlockVault(d) \/ Save(d) \/ UpdateSelection(d)
             \/ HandleReset(d) \/ ResetSync(d) \/ LoadSchedule(d)
      PROVE  KeptInv'
  <2>1. d \in Devices  BY SyncAssumption
  <2> QED BY <1>4, <2>1, TimersKeep, SelectKeeps, ResetKeeps
<1> QED BY <1>1, <1>2, <1>3, <1>4 DEF Next

\* The latest edit of the record survives every sequence of syncs, conflicts,
\* lost answers, lost files and crashes of any number of devices, whatever
\* the length of the history a file keeps and the retries a sync may make.
THEOREM LatestEditIsKept == Spec => []EditKept
<1>1. KeptInv => EditKept
  BY DEF KeptInv, Standing, EditKept
<1> QED BY <1>1, KeptInit, KeptNext, PTL DEF Spec

-----------------------------------------------------------------------------
(* What is kept stays in its bounds.  A file lists no more than HISTORY_LEN *)
(* revisions whatever it was made from, a sync that gave up has tried no    *)
(* more often than it may, and what a sync writes to a device is a record,  *)
(* or none, never the mark for a category the file does not have.           *)

Fits(x) == x.val >= Missing /\ Len(x.history) <= HistoryLen

SyncFits(s) ==
    /\ s.tries < MaxAttempts /\ s.mine >= Absent
    /\ s.step = "apply" /\ s.selected => s.got.val >= Absent

BoundsInv ==
    /\ edits <= MaxEdits /\ schedule \subseteq Devices /\ locked \subseteq Devices
    /\ \A d \in Devices : local[d] >= Absent /\ SyncFits(sync[d])
    /\ \A x \in Copies : Fits(x)

\* A step of one device that keeps it so.
FitStep(d) ==
    /\ edits' <= MaxEdits /\ schedule' \subseteq Devices /\ locked' \subseteq Devices
    /\ \A e \in Devices \ {d} : local'[e] = local[e] /\ base'[e] = base[e] /\ sync'[e] = sync[e]
    /\ local'[d] >= Absent /\ SyncFits(sync'[d])
    /\ \A x \in {file', base'[d], sync'[d].got} : Fits(x)

LEMMA FitStepKeeps == ASSUME BoundsInv, NEW d \in Devices, FitStep(d) PROVE BoundsInv'
<1>1. \A e \in Devices : local'[e] >= Absent /\ SyncFits(sync'[e])
  BY DEF BoundsInv, FitStep
<1>2. \A x \in Copies' : Fits(x)
  <2> SUFFICES ASSUME NEW x \in Copies' PROVE Fits(x)
    OBVIOUS
  <2>1. \/ x = file'
        \/ \E e \in Devices : x = base'[e]
        \/ \E e \in Devices : x = sync'[e].got
    BY DEF Copies
  <2>2. \A e \in Devices : Fits(base'[e]) /\ Fits(sync'[e].got)
    BY DEF BoundsInv, FitStep, Copies
  <2> QED BY <2>1, <2>2 DEF FitStep
<1> QED BY <1>1, <1>2 DEF BoundsInv, FitStep, SyncFits, Fits

LEMMA NothingFits == Fits(NoFile) /\ SyncFits(Idle)
BY BoundsAssumption, SyncAssumption DEF Fits, SyncFits, NoFile, Idle, Missing, Absent

LEMMA BoundsInit == Init => BoundsInv
<1> SUFFICES ASSUME Init PROVE BoundsInv
  OBVIOUS
<1>1. \A x \in Copies : x = NoFile
  BY DEF Init, Copies, Idle, NoBase
<1>2. \A d \in Devices : local[d] = Absent /\ sync[d] = Idle
  BY DEF Init
<1> QED BY <1>1, <1>2, NothingFits, BoundsAssumption DEF Init, BoundsInv, Absent

\* A merge gives a record, or none, unless the category is left out.
LEMMA MergedFits ==
    ASSUME DataOK, BoundsInv, NEW d \in Devices, NEW got \in Copies
    PROVE  Merged(d, got) >= Missing /\ (sync[d].selected => Merged(d, got) >= Absent)
<1>1. /\ sync[d].mine \in Int /\ got.val \in Int
  BY DEF DataOK, Sound, FileStates, Syncs
<1>2. /\ sync[d].mine >= 0 /\ got.val >= -1
  BY DEF BoundsInv, SyncFits, Fits, Absent, Missing
<1>3. MergeRecord(sync[d].mine, got.val) \in {sync[d].mine, got.val}
  BY <1>1, MaxOfTwo DEF MergeRecord
<1> QED BY <1>1, <1>2, <1>3 DEF Merged, MergeAll, MergeCollection, Missing, Absent

\* The history of an upload is cut before its revision is added.
LEMMA HistoryIsCut ==
    ASSUME NEW parent \in Seq(Nat), NEW r \in Nat PROVE Len(NextHistory(parent, r)) <= HistoryLen
<1> DEFINE m == IF Len(parent) > HistoryLen - 1 THEN Len(parent) - HistoryLen + 2 ELSE 1
           kept == SubSeq(parent, m, Len(parent))
<1>1. m \in Nat /\ m >= 1 /\ Len(parent) \in Nat /\ HistoryLen \in Nat \ {0}
  BY SyncAssumption
<1>2. kept \in Seq(Nat) /\ Len(kept) = IF m <= Len(parent) THEN Len(parent) - m + 1 ELSE 0
  BY <1>1
<1>3. Len(kept) + 1 <= HistoryLen  BY <1>1, <1>2
<1> HIDE DEF m, kept
<1>4. NextHistory(parent, r) = kept \o <<r>>  BY DEF NextHistory, kept, m
<1>5. Len(kept \o <<r>>) = Len(kept) + 1  BY <1>2
<1> QED BY <1>3, <1>4, <1>5

LEMMA StoredFits ==
    ASSUME DataOK, BoundsInv, NEW d \in Devices, Stored(d)
    PROVE  Fits(file') /\ file'.val = Merged(d, sync[d].got)
<1>1. /\ file'.val = Merged(d, sync[d].got)
      /\ file'.history = NextHistory(sync[d].got.history, server.revs + 1)
  BY DEF Stored
<1>2. sync[d].got \in Copies /\ sync[d].got.history \in Seq(Nat) /\ server.revs + 1 \in Nat
  <2>1. sync[d].got \in Copies  BY DEF Copies
  <2>2. Sound(sync[d].got) /\ server \in [honours : BOOLEAN, revs : Nat]  BY <2>1 DEF DataOK
  <2> QED BY <2>1, <2>2 DEF Sound, FileStates
<1> QED BY <1>1, <1>2, HistoryIsCut, MergedFits DEF Fits

\* Each action.  Those of the card and the timers start a sync or leave it alone.
LEMMA StartFits ==
    ASSUME BoundsInv, NEW d \in Devices, DataOK, UNCHANGED <<local, base, file, edits>>,
           UNCHANGED sync \/ StartSync(d) \/ sync' = [sync EXCEPT ![d] = Idle],
           schedule' \subseteq Devices, locked' \subseteq Devices
    PROVE  FitStep(d)
<1>1. /\ \A e \in Devices \ {d} : sync'[e] = sync[e]
      /\ \/ sync'[d] = sync[d]
         \/ sync'[d] = Idle
         \/ /\ sync'[d].tries = 0 /\ sync'[d].mine = local[d] /\ sync'[d].step = "fetch"
            /\ sync'[d].got = NoFile
  BY DEF DataOK, StartSync
<1>2. Fits(sync'[d].got)
  BY <1>1, NothingFits DEF BoundsInv, Copies, Idle
<1>3. SyncFits(sync'[d])
  BY <1>1, NothingFits, BoundsAssumption DEF BoundsInv, SyncFits
<1>4. Fits(file) /\ Fits(base[d])  BY DEF BoundsInv, Copies
<1> QED BY <1>1, <1>2, <1>3, <1>4 DEF FitStep, BoundsInv

LEMMA TimersFit ==
    ASSUME DataOK, BoundsInv, NEW d \in Devices,
           \/ Tick(d) \/ SyncNow(d) \/ LockVault(d) \/ UnlockVault(d) \/ Save(d)
           \/ HandleReset(d) \/ LoadSchedule(d) \/ UpdateSelection(d)
    PROVE  FitStep(d)
<1>1. UNCHANGED <<local, base, file, edits>> /\ (UNCHANGED sync \/ StartSync(d))
  BY DEF Tick, SyncNow, LockVault, UnlockVault, Save, HandleReset, LoadSchedule, UpdateSelection, dataVars
<1>2. schedule' \in {schedule, schedule \cup {d}, schedule \ {d}}
  BY DEF Tick, SyncNow, LockVault, UnlockVault, Save, HandleReset, LoadSchedule, UpdateSelection, uiVars
<1>3. locked' \in {locked, locked \cup {d}, locked \ {d}}
  BY DEF Tick, SyncNow, LockVault, UnlockVault, Save, HandleReset, LoadSchedule, UpdateSelection, uiVars
<1>4. schedule' \subseteq Devices /\ locked' \subseteq Devices  BY <1>2, <1>3 DEF BoundsInv
<1> QED BY <1>1, <1>4, StartFits

LEMMA RecordsFit ==
    ASSUME DataOK, BoundsInv, NEW d \in Devices, Edit(d) \/ Delete(d) \/ ResetSync(d)
    PROVE  FitStep(d)
<1>1. /\ local \in [Devices -> Int] /\ base \in [Devices -> FileStates] /\ edits \in Nat
  BY DEF DataOK
<1>2. UNCHANGED <<file, sync, schedule, locked>>
  BY DEF Edit, Delete, ResetSync, uiVars
<1>3. Fits(file) /\ Fits(base[d]) /\ Fits(sync[d].got) /\ SyncFits(sync[d])
  BY DEF BoundsInv, Copies
<1>4. CASE Edit(d)
  <2>1. /\ edits' = edits + 1 /\ edits < MaxEdits /\ local' = [local EXCEPT ![d] = edits + 1]
        /\ base' = base
    BY <1>4 DEF Edit
  <2>2. edits' <= MaxEdits /\ local'[d] >= Absent /\ \A e \in Devices \ {d} : local'[e] = local[e]
    BY <1>1, <2>1, BoundsAssumption DEF Absent
  <2> QED BY <1>2, <1>3, <2>1, <2>2 DEF FitStep, BoundsInv
<1>5. CASE Delete(d)
  <2>1. local' = [local EXCEPT ![d] = Absent] /\ UNCHANGED <<base, edits>>
    BY <1>5 DEF Delete
  <2>2. local'[d] >= Absent /\ \A e \in Devices \ {d} : local'[e] = local[e]
    BY <1>1, <2>1 DEF Absent
  <2> QED BY <1>2, <1>3, <2>1, <2>2 DEF FitStep, BoundsInv
<1>6. CASE ResetSync(d)
  <2>1. base' = [base EXCEPT ![d] = NoBase] /\ UNCHANGED <<local, edits>>
    BY <1>6 DEF ResetSync
  <2>2. base'[d] = NoFile /\ \A e \in Devices \ {d} : base'[e] = base[e]
    BY <1>1, <2>1 DEF NoBase
  <2>3. local[d] >= Absent  BY DEF BoundsInv
  <2> QED BY <1>2, <1>3, <2>1, <2>2, <2>3, NothingFits DEF FitStep, BoundsInv
<1> QED BY <1>4, <1>5, <1>6

LEMMA FetchFits == ASSUME DataOK, BoundsInv, NEW d \in Devices, Fetch(d) PROVE FitStep(d)
<1>1. PICK got \in Copies :
        sync' = [sync EXCEPT ![d].step = IF Uploads(d, got) THEN "put" ELSE "apply", ![d].got = got]
  <2>1. base[d] \in Copies /\ file \in Copies  BY DEF Copies
  <2> QED BY <2>1 DEF Fetch
<1>2. /\ sync'[d].got = got /\ sync'[d].mine = sync[d].mine /\ sync'[d].selected = sync[d].selected
      /\ sync'[d].tries = sync[d].tries
      /\ sync'[d].step = IF Uploads(d, got) THEN "put" ELSE "apply"
      /\ \A e \in Devices \ {d} : sync'[e] = sync[e]
  BY <1>1 DEF DataOK, Syncs
<1>3. UNCHANGED <<local, base, file, edits, schedule, locked>>
  BY DEF Fetch, dataVars, uiVars
<1>4. Fits(got) /\ Fits(file) /\ Fits(base[d]) /\ SyncFits(sync[d]) /\ local[d] >= Absent
  BY DEF BoundsInv, Copies
<1>5. SyncFits(sync'[d])
  <2>1. sync'[d].step = "apply" => Merged(d, got) = got.val
    BY <1>2 DEF Uploads
  <2> QED BY <1>2, <1>4, <2>1, MergedFits DEF SyncFits
<1> QED BY <1>2, <1>3, <1>4, <1>5 DEF FitStep, BoundsInv

LEMMA UploadFits == ASSUME DataOK, BoundsInv, NEW d \in Devices, Upload(d) PROVE FitStep(d)
<1>1. /\ Stored(d) /\ sync' = [sync EXCEPT ![d].step = "apply", ![d].got = file']
      /\ UNCHANGED <<local, base, edits, schedule, locked>>
  BY DEF Upload, uiVars
<1>2. Fits(file') /\ file'.val = Merged(d, sync[d].got)  BY <1>1, StoredFits
<1>3. /\ sync'[d].got = file' /\ sync'[d].mine = sync[d].mine /\ sync'[d].selected = sync[d].selected
      /\ sync'[d].tries = sync[d].tries
      /\ \A e \in Devices \ {d} : sync'[e] = sync[e]
  BY <1>1 DEF DataOK, Syncs
<1>4. Fits(base[d]) /\ SyncFits(sync[d]) /\ local[d] >= Absent /\ sync[d].got \in Copies
  BY DEF BoundsInv, Copies
<1>5. SyncFits(sync'[d])  BY <1>2, <1>3, <1>4, MergedFits DEF SyncFits
<1> QED BY <1>1, <1>2, <1>3, <1>4, <1>5 DEF FitStep, BoundsInv

LEMMA ConflictFits == ASSUME DataOK, BoundsInv, NEW d \in Devices, Conflict(d) PROVE FitStep(d)
<1>1. UNCHANGED <<local, base, file, edits, schedule, locked>>
  BY DEF Conflict, dataVars
<1>2. CASE Ended(d)
  <2>1. sync' = [sync EXCEPT ![d] = Idle] /\ schedule' \subseteq Devices /\ locked' \subseteq Devices
    BY <1>1, <1>2 DEF Ended, BoundsInv
  <2> QED BY <1>1, <2>1, StartFits
<1>3. CASE /\ sync[d].tries + 1 < MaxAttempts
           /\ sync' = [sync EXCEPT ![d].step = "fetch", ![d].hint = 0, ![d].tries = @ + 1, ![d].got = NoFile]
  <2>1. /\ sync'[d].got = NoFile /\ sync'[d].mine = sync[d].mine /\ sync'[d].step = "fetch"
        /\ sync'[d].tries = sync[d].tries + 1
        /\ \A e \in Devices \ {d} : sync'[e] = sync[e]
    BY <1>3 DEF DataOK, Syncs
  <2>2. Fits(file) /\ Fits(base[d]) /\ SyncFits(sync[d]) /\ local[d] >= Absent
    BY DEF BoundsInv, Copies
  <2>3. SyncFits(sync'[d])  BY <1>3, <2>1, <2>2 DEF SyncFits
  <2> QED BY <1>1, <2>1, <2>2, <2>3, NothingFits DEF FitStep, BoundsInv
<1> QED BY <1>2, <1>3 DEF Conflict

LEMMA ApplyFits == ASSUME DataOK, BoundsInv, NEW d \in Devices, Apply(d) PROVE FitStep(d)
<1>1. PICK got : got = sync[d].got  OBVIOUS
<1>2. /\ sync[d].step = "apply" /\ sync' = [sync EXCEPT ![d] = Idle]
      /\ local' = local \/ (sync[d].selected /\ local' = [local EXCEPT ![d] = got.val])
      /\ base' = [base EXCEPT ![d] = got]
      /\ UNCHANGED <<file, edits, schedule, locked>>
  BY <1>1 DEF Apply, Ended
<1>3. /\ Fits(file) /\ Fits(got) /\ SyncFits(sync[d]) /\ local[d] >= Absent
  BY <1>1 DEF BoundsInv, Copies
<1>4. /\ \A e \in Devices \ {d} : local'[e] = local[e] /\ base'[e] = base[e] /\ sync'[e] = sync[e]
      /\ base'[d] = got /\ sync'[d] = Idle
      /\ local'[d] \in {local[d], got.val} /\ (local'[d] = local[d] \/ sync[d].selected)
  BY <1>2 DEF DataOK
<1>5. local'[d] >= Absent  BY <1>1, <1>2, <1>3, <1>4 DEF SyncFits
<1>6. Idle.got = NoFile  BY DEF Idle
<1> QED BY <1>2, <1>3, <1>4, <1>5, <1>6, NothingFits DEF FitStep, BoundsInv

LEMMA FailureFits == ASSUME DataOK, BoundsInv, NEW d \in Devices, SyncFails(d) PROVE FitStep(d)
<1>1. /\ sync' = [sync EXCEPT ![d] = Idle]
      /\ UNCHANGED <<local, base, edits, schedule, locked>> /\ (file' = file \/ Stored(d))
  BY DEF SyncFails, Ended
<1>2. Fits(file')
  BY <1>1, StoredFits DEF BoundsInv, Copies
<1>3. /\ sync'[d] = Idle /\ Idle.got = NoFile /\ \A e \in Devices \ {d} : sync'[e] = sync[e]
  BY <1>1 DEF DataOK, Idle
<1>4. Fits(base[d]) /\ local[d] >= Absent  BY DEF BoundsInv, Copies
<1> QED BY <1>1, <1>2, <1>3, <1>4, NothingFits DEF FitStep, BoundsInv

LEMMA BoundsNext == KeptInv /\ BoundsInv /\ [Next]_vars => BoundsInv'
<1> SUFFICES ASSUME KeptInv, BoundsInv, [Next]_vars PROVE BoundsInv'
  OBVIOUS
<1>0. DataOK  BY DEF KeptInv
<1>1. CASE UNCHANGED vars
  <2>1. UNCHANGED <<local, base, file, sync, edits, schedule, locked>>
    BY <1>1 DEF vars, dataVars, uiVars
  <2> QED BY <2>1 DEF BoundsInv, Copies, Fits, SyncFits
<1>2. CASE ServerLosesFile
  <2>1. UNCHANGED <<local, base, sync, edits, schedule, locked>> /\ file' = NoFile
    BY <1>2 DEF ServerLosesFile, uiVars
  <2>2. \A x \in Copies' : x \in Copies \/ x = NoFile  BY <2>1 DEF Copies
  <2>3. \A x \in Copies' : Fits(x)  BY <2>2, NothingFits DEF BoundsInv
  <2> QED BY <2>1, <2>3 DEF BoundsInv, Fits, SyncFits
<1>3. ASSUME NEW d \in Devices,
             \/ Tick(d) \/ Fetch(d) \/ Upload(d) \/ Conflict(d) \/ Apply(d) \/ SyncFails(d)
             \/ Edit(d) \/ Delete(d)
      PROVE  BoundsInv'
  <2>1. FitStep(d)
    BY <1>0, <1>3, TimersFit, FetchFits, UploadFits, ConflictFits, ApplyFits, FailureFits, RecordsFit
  <2> QED BY <2>1, FitStepKeeps
<1>4. ASSUME NEW d \in Cards,
             \/ SyncNow(d) \/ LockVault(d) \/ UnlockVault(d) \/ Save(d) \/ UpdateSelection(d)
             \/ HandleReset(d) \/ ResetSync(d) \/ LoadSchedule(d)
      PROVE  BoundsInv'
  <2>1. d \in Devices  BY SyncAssumption
  <2>2. FitStep(d)  BY <1>0, <1>4, <2>1, TimersFit, RecordsFit
  <2> QED BY <2>1, <2>2, FitStepKeeps
<1> QED BY <1>1, <1>2, <1>3, <1>4 DEF Next

LEMMA BoundsAreTypes == KeptInv /\ BoundsInv => TypeOK
<1> SUFFICES ASSUME KeptInv, BoundsInv PROVE TypeOK
  OBVIOUS
<1>1. /\ local \in [Devices -> Int] /\ edits \in Nat /\ edits <= MaxEdits
      /\ \A d \in Devices : local[d] \in Int /\ local[d] <= edits /\ local[d] >= 0
  BY DEF KeptInv, DataOK, BoundsInv, Absent
<1>2. local \in [Devices -> 0..MaxEdits]
  <2>1. \A d \in Devices : local[d] \in 0..MaxEdits  BY <1>1, BoundsAssumption
  <2> QED BY <1>1, <2>1
<1>3. \A d \in Devices : sync[d].tries < MaxAttempts /\ Len(sync[d].got.history) <= HistoryLen
  BY DEF BoundsInv, SyncFits, Fits, Copies
<1> QED BY <1>2, <1>3 DEF TypeOK, BoundsInv

\* A sync tries no more often than it may, a file never lists more revisions
\* than HISTORY_LEN, and every device holds a record that was written or none,
\* whatever devices, conflicts and failures there are.
THEOREM SyncStaysInBounds == Spec => []TypeOK
BY KeptInit, KeptNext, BoundsInit, BoundsNext, BoundsAreTypes, PTL DEF Spec

-----------------------------------------------------------------------------
(* The settings are proved about here, where FiniteSets counts and WebDavSync *)
(* has its own names for edits and saves, so their variables are slots: s1 is *)
(* mem, s2 disk, s3 queue, s4 save, s5 load, s6 secret, s7 dialog, s8 zoom,   *)
(* s9 edits, s10 made, s11 faults, s12 syncs, s13 modes and s14 crossed.      *)

\* Settings counts with the operator that the theorems on finite sets are about.
LEMMA CountIsCardinality == \A S : Conf!Cardinality(S) = Cardinality(S)
  BY DEF Conf!Cardinality, Cardinality

-----------------------------------------------------------------------------
(* The settings: the line of updates as it grows, moves on and is served.  *)

LEMMA SequenceOfItsOwn ==
    ASSUME NEW S, NEW q \in Seq(S) PROVE q \in Seq({q[i] : i \in 1..Len(q)})
<1> DEFINE T == {q[i] : i \in 1..Len(q)}
<1>1. Len(q) \in Nat /\ q = [i \in 1..Len(q) |-> q[i]]  OBVIOUS
<1>2. \A i \in 1..Len(q) : q[i] \in T  OBVIOUS
<1> HIDE DEF T
<1>3. q \in [1..Len(q) -> T]  BY <1>1, <1>2
<1>4. q \in Seq(T)  BY <1>1, <1>3
<1> QED BY <1>4 DEF T

LEMMA QueueAppends ==
    ASSUME Conf!QueueOK, NEW u
    PROVE  LET q == Append(s3, u)
           IN  /\ Len(s3) \in Nat /\ Len(q) = Len(s3) + 1 /\ q[Len(s3) + 1] = u
               /\ \A i \in 1..Len(s3) : q[i] = s3[i]
               /\ q \in Seq({q[i] : i \in 1..Len(q)})
<1> DEFINE S == {s3[i] : i \in 1..Len(s3)} \cup {u}
           q == Append(s3, u)
<1>1. {s3[i] : i \in 1..Len(s3)} \subseteq S  OBVIOUS
<1>2. s3 \in Seq({s3[i] : i \in 1..Len(s3)}) /\ u \in S  BY DEF Conf!QueueOK
<1> HIDE DEF S
<1>3. s3 \in Seq(S)  BY <1>1, <1>2
<1>4. /\ Len(s3) \in Nat /\ Len(q) = Len(s3) + 1 /\ q[Len(s3) + 1] = u
      /\ \A i \in 1..Len(s3) : q[i] = s3[i]
      /\ q \in Seq(S)
  BY <1>2, <1>3
<1>5. q \in Seq({q[i] : i \in 1..Len(q)})  BY <1>4, SequenceOfItsOwn
<1> QED BY <1>4, <1>5

LEMMA QueueAdvances ==
    ASSUME Conf!QueueOK, s3 # <<>>
    PROVE  LET q == Tail(s3)
           IN  /\ Len(s3) \in Nat \ {0} /\ Len(q) = Len(s3) - 1 /\ Head(s3) = s3[1]
               /\ \A i \in 1..Len(q) : q[i] = s3[i + 1]
               /\ q \in Seq({q[i] : i \in 1..Len(q)})
<1> DEFINE S == {s3[i] : i \in 1..Len(s3)}
           q == Tail(s3)
<1>1. s3 \in Seq(S)  BY DEF Conf!QueueOK
<1> HIDE DEF S
<1>2. Len(s3) \in Nat \ {0}  BY <1>1
<1>3. /\ Len(q) = Len(s3) - 1 /\ Head(s3) = s3[1]
      /\ \A i \in 1..Len(q) : q[i] = s3[i + 1]
      /\ q \in Seq(S)
  BY <1>1, <1>2
<1>4. q \in Seq({q[i] : i \in 1..Len(q)})  BY <1>3, SequenceOfItsOwn
<1> QED BY <1>2, <1>3, <1>4

\* The save under way goes on with the same update.
SaveStays == s4' = s4 \/ (s4 # Conf!None /\ s4' # Conf!None /\ s4'.update = s4.update)

LEMMA LineStays ==
    ASSUME s3' = s3, SaveStays
    PROVE  /\ Conf!Line' = Conf!Line /\ \A k \in Conf!Line : Conf!Update(k)' = Conf!Update(k)
           /\ Conf!Sizes' = Conf!Sizes /\ Conf!Zooms' = Conf!Zooms /\ Conf!Highlights' = Conf!Highlights
           /\ Conf!QueueOK => Conf!QueueOK'
<1>1. Conf!Line' = Conf!Line  BY DEF SaveStays, Conf!Line
<1>2. \A k \in Conf!Line : Conf!Update(k)' = Conf!Update(k)
  BY DEF SaveStays, Conf!Line, Conf!Update
<1>3. Conf!Sizes' = Conf!Sizes /\ Conf!Highlights' = Conf!Highlights  BY <1>1, <1>2 DEF Conf!Sizes, Conf!Highlights
<1>4. Conf!Zooms' = Conf!Zooms  BY <1>2, <1>3 DEF Conf!Zooms, Conf!Sizes
<1> QED BY <1>1, <1>2, <1>3, <1>4 DEF Conf!QueueOK

LEMMA LineGrows ==
    ASSUME Conf!QueueOK, NEW u, NEW n, n = Len(s3) + 1, s3' = Append(s3, u), s4' = s4
    PROVE  /\ Conf!QueueOK' /\ n \in Nat /\ n \notin Conf!Line /\ Conf!Line' = Conf!Line \cup {n}
           /\ Conf!Update(n)' = u
           /\ \A k \in Conf!Line : k \in Nat /\ k < n /\ Conf!Update(k)' = Conf!Update(k)
           /\ Conf!Sizes' = Conf!Sizes \cup (IF "size" \in DOMAIN u THEN {n} ELSE {})
           /\ Conf!Zooms' = Conf!Zooms \cup (IF "size" \in DOMAIN u /\ "font" \notin DOMAIN u THEN {n} ELSE {})
           /\ Conf!Highlights' = Conf!Highlights \cup (IF "hl" \in DOMAIN u THEN {n} ELSE {})
<1>1. /\ Len(s3) \in Nat /\ Len(s3') = n /\ s3'[n] = u
      /\ \A i \in 1..Len(s3) : s3'[i] = s3[i]
      /\ Conf!QueueOK'
  BY QueueAppends DEF Conf!QueueOK
<1>2. n \in Nat /\ n # 0 /\ 0..n = (0..Len(s3)) \cup {n} /\ n \notin 0..Len(s3)  BY <1>1
<1>3. \A k \in 0..Len(s3) : k \in Nat /\ k < n /\ (k = 0 \/ k \in 1..Len(s3))  BY <1>1
<1>4. Conf!Line' = Conf!Line \cup {n} /\ n \notin Conf!Line
  <2>1. Conf!Line' = {k \in 0..n : k = 0 => s4 # Conf!None}  BY <1>1 DEF Conf!Line
  <2> QED BY <1>2, <2>1 DEF Conf!Line
<1>5. Conf!Update(n)' = u  BY <1>1, <1>2 DEF Conf!Update
<1>6. \A k \in Conf!Line : k \in Nat /\ k < n /\ Conf!Update(k)' = Conf!Update(k)
  BY <1>1, <1>3 DEF Conf!Line, Conf!Update
<1>7. Conf!Sizes' = Conf!Sizes \cup (IF "size" \in DOMAIN u THEN {n} ELSE {})
  BY <1>4, <1>5, <1>6 DEF Conf!Sizes
<1>8. Conf!Highlights' = Conf!Highlights \cup (IF "hl" \in DOMAIN u THEN {n} ELSE {})
  BY <1>4, <1>5, <1>6 DEF Conf!Highlights
<1>9. Conf!Zooms' = Conf!Zooms \cup (IF "size" \in DOMAIN u /\ "font" \notin DOMAIN u THEN {n} ELSE {})
  <2>1. \A k \in Conf!Sizes : Conf!Update(k)' = Conf!Update(k)  BY <1>6 DEF Conf!Sizes
  <2> QED BY <1>5, <1>7, <2>1 DEF Conf!Zooms
<1> QED BY <1>1, <1>2, <1>4, <1>5, <1>6, <1>7, <1>8, <1>9

LEMMA LineMovesOn ==
    ASSUME Conf!QueueOK, s3 # <<>>, s4 = Conf!None, s3' = Tail(s3),
           s4' # Conf!None, s4'.update = Head(s3)
    PROVE  /\ Conf!QueueOK' /\ 1 \in Conf!Line /\ Conf!Update(1) = s4'.update
           /\ \A k \in Conf!Line : k \in Nat \ {0}
           /\ \A k \in Conf!Line' : k \in Nat /\ Conf!Update(k)' = Conf!Update(k + 1)
           /\ \A k \in Nat : /\ k \in Conf!Line' <=> k + 1 \in Conf!Line
                             /\ k \in Conf!Sizes' <=> k + 1 \in Conf!Sizes
                             /\ k \in Conf!Zooms' <=> k + 1 \in Conf!Zooms
                             /\ k \in Conf!Highlights' <=> k + 1 \in Conf!Highlights
<1>1. /\ Len(s3) \in Nat \ {0} /\ Len(s3') = Len(s3) - 1 /\ s4'.update = s3[1]
      /\ \A i \in 1..Len(s3') : s3'[i] = s3[i + 1]
      /\ Conf!QueueOK'
  BY QueueAdvances DEF Conf!QueueOK
<1>2. \A k \in Nat : /\ k \in Conf!Line' <=> k <= Len(s3) - 1
                     /\ k \in Conf!Line <=> k # 0 /\ k <= Len(s3)
  BY <1>1 DEF Conf!Line
<1>3. 1 \in Conf!Line /\ \A k \in Conf!Line : k \in Nat \ {0}
  BY <1>1 DEF Conf!Line
<1>4. Conf!Update(1) = s4'.update  BY <1>1 DEF Conf!Update
<1>5. \A k \in Conf!Line' : k \in Nat /\ Conf!Update(k)' = Conf!Update(k + 1)
  <2> SUFFICES ASSUME NEW k \in Conf!Line' PROVE k \in Nat /\ Conf!Update(k)' = Conf!Update(k + 1)
    OBVIOUS
  <2>1. k \in Nat /\ k <= Len(s3) - 1  BY <1>1 DEF Conf!Line
  <2>2. k + 1 # 0  BY <2>1
  <2>3. CASE k = 0  BY <1>4, <2>3 DEF Conf!Update
  <2>4. CASE k # 0
    <3>1. k \in 1..Len(s3')  BY <1>1, <2>1, <2>4
    <3> QED BY <1>1, <2>2, <2>4, <3>1 DEF Conf!Update
  <2> QED BY <2>1, <2>3, <2>4
<1>6. \A k \in Nat : k \in Conf!Line' <=> k + 1 \in Conf!Line
  <2> SUFFICES ASSUME NEW k \in Nat PROVE k \in Conf!Line' <=> k + 1 \in Conf!Line
    OBVIOUS
  <2>1. k \in Conf!Line' <=> k <= Len(s3) - 1  BY <1>2
  <2>2. k + 1 \in Nat /\ k + 1 # 0  OBVIOUS
  <2>3. k + 1 \in Conf!Line <=> k + 1 <= Len(s3)  BY <1>2, <2>2
  <2> QED BY <1>1, <2>1, <2>3
<1>7. \A k \in Nat : k + 1 \in Nat  OBVIOUS
<1>8. \A k \in Nat : /\ k \in Conf!Sizes' <=> k + 1 \in Conf!Sizes
                     /\ k \in Conf!Highlights' <=> k + 1 \in Conf!Highlights
  BY <1>5, <1>6 DEF Conf!Sizes, Conf!Highlights
<1>9. \A k \in Nat : k \in Conf!Zooms' <=> k + 1 \in Conf!Zooms
  BY <1>5, <1>6, <1>8 DEF Conf!Zooms, Conf!Sizes
<1> QED BY <1>1, <1>3, <1>4, <1>5, <1>6, <1>8, <1>9

LEMMA LineIsServed ==
    ASSUME s4 # Conf!None, s4' = Conf!None, s3' = s3, Conf!QueueOK
    PROVE  /\ Conf!QueueOK' /\ 0 \in Conf!Line /\ Conf!Update(0) = s4.update
           /\ Conf!Line' = Conf!Line \ {0} /\ \A k \in Conf!Line' : Conf!Update(k)' = Conf!Update(k)
           /\ \A k \in Conf!Line : k \in Nat
           /\ Conf!Sizes' = Conf!Sizes \ {0} /\ Conf!Zooms' = Conf!Zooms \ {0}
           /\ Conf!Highlights' = Conf!Highlights \ {0}
<1>1. Len(s3) \in Nat  BY DEF Conf!QueueOK
<1>2. /\ 0 \in Conf!Line /\ Conf!Update(0) = s4.update /\ Conf!QueueOK' /\ \A k \in Conf!Line : k \in Nat
      /\ Conf!Line' = Conf!Line \ {0}
  BY <1>1 DEF Conf!Line, Conf!Update, Conf!QueueOK
<1>3. \A k \in Conf!Line' : Conf!Update(k)' = Conf!Update(k)  BY <1>2 DEF Conf!Update
<1>4. Conf!Sizes' = Conf!Sizes \ {0} /\ Conf!Highlights' = Conf!Highlights \ {0}
  BY <1>2, <1>3 DEF Conf!Sizes, Conf!Highlights
<1>5. Conf!Zooms' = Conf!Zooms \ {0}
  BY <1>2, <1>3, <1>4 DEF Conf!Zooms, Conf!Sizes
<1> QED BY <1>2, <1>3, <1>4, <1>5

\* How many zooms are in line.
LEMMA ZoomsAreFinite == ASSUME Conf!QueueOK PROVE IsFiniteSet(Conf!Zooms)
<1>1. Len(s3) \in Nat  BY DEF Conf!QueueOK
<1>2. IsFiniteSet(0..Len(s3))  BY <1>1, FS_Interval
<1>3. Conf!Zooms \subseteq 0..Len(s3)  BY DEF Conf!Zooms, Conf!Sizes, Conf!Line
<1> QED BY <1>2, <1>3, FS_Subset

LEMMA ZoomsMoveOn ==
    ASSUME Conf!QueueOK, s3 # <<>>, s4 = Conf!None, s3' = Tail(s3),
           s4' # Conf!None, s4'.update = Head(s3)
    PROVE  Cardinality(Conf!Zooms') = Cardinality(Conf!Zooms) /\ (Conf!Zooms' = {} <=> Conf!Zooms = {})
<1>1. /\ \A k \in Conf!Zooms : k \in Nat \ {0}
      /\ \A k \in Conf!Zooms' : k \in Nat
  BY LineMovesOn DEF Conf!Zooms, Conf!Sizes
<1>0. \A k \in Nat : k \in Conf!Zooms' <=> k + 1 \in Conf!Zooms
  BY LineMovesOn
<1> DEFINE f == [k \in Conf!Zooms |-> k - 1]
<1>2. \A k \in Conf!Zooms : k - 1 \in Conf!Zooms'
  <2> SUFFICES ASSUME NEW k \in Conf!Zooms PROVE k - 1 \in Conf!Zooms'
    OBVIOUS
  <2>1. k - 1 \in Nat /\ (k - 1) + 1 = k  BY <1>1
  <2> QED BY <1>0, <2>1
<1>3. f \in [Conf!Zooms -> Conf!Zooms']  BY <1>2
<1>4. \A a, b \in Conf!Zooms : f[a] = f[b] => a = b  BY <1>1
<1>5. \A t \in Conf!Zooms' : \E s \in Conf!Zooms : f[s] = t
  <2> SUFFICES ASSUME NEW t \in Conf!Zooms' PROVE \E s \in Conf!Zooms : f[s] = t
    OBVIOUS
  <2>1. t \in Nat /\ t + 1 - 1 = t  BY <1>1
  <2>2. t + 1 \in Conf!Zooms  BY <1>0, <2>1
  <2>3. f[t + 1] = t  BY <2>1, <2>2
  <2> QED BY <2>2, <2>3
<1>6. f \in Bijection(Conf!Zooms, Conf!Zooms')
  BY <1>3, <1>4, <1>5 DEF Bijection, Injection, Surjection, IsInjective
<1>7. ExistsBijection(Conf!Zooms, Conf!Zooms')  BY <1>6 DEF ExistsBijection
<1>8. Cardinality(Conf!Zooms') = Cardinality(Conf!Zooms)  BY <1>7, ZoomsAreFinite, FS_Bijection
<1>9. Conf!Zooms' = {} <=> Conf!Zooms = {}
  BY <1>3, <1>5
<1> QED BY <1>8, <1>9

-----------------------------------------------------------------------------
(* The settings: what a page does that concerns neither the highlighting   *)
(* nor the size.                                                           *)

Quiet ==
    /\ UNCHANGED <<s1, s2, s4, s5, s6, s8, s10, s13>>
    /\ s9' \in {s9, s9 + 1}
    /\ s14 => s14'
    /\ DOMAIN s7' = DOMAIN s7 /\ s7'.pendingHl = s7.pendingHl
    /\ ~s7'.open => s7'.pendingHl = Conf!None /\ s7'.asked = "nothing"
    /\ \/ s3' = s3
       \/ \E u : DOMAIN u \subseteq Conf!Settings \ {"hl", "size"} /\ s3' = Append(s3, u)

LEMMA QuietLine ==
    ASSUME Conf!KeptInv, Quiet
    PROVE  /\ Conf!QueueOK' /\ Conf!LineOK'
           /\ Conf!Sizes' = Conf!Sizes /\ Conf!Zooms' = Conf!Zooms /\ Conf!Highlights' = Conf!Highlights
           /\ \A k \in Conf!Line : Conf!Update(k)' = Conf!Update(k)
<1>0. /\ Conf!QueueOK /\ Conf!LineOK /\ s9 \in Nat /\ s9' \in {s9, s9 + 1} /\ s4' = s4
  BY DEF Conf!KeptInv, Conf!CopiesOK, Quiet
<1>1. ASSUME NEW u, Conf!Numbered(u) PROVE Conf!Numbered(u)'
  BY <1>0, <1>1 DEF Conf!Numbered
<1>2. CASE s3' = s3
  <2>1. SaveStays  BY <1>0 DEF SaveStays
  <2>2. /\ Conf!Line' = Conf!Line /\ \A k \in Conf!Line : Conf!Update(k)' = Conf!Update(k)
        /\ Conf!Sizes' = Conf!Sizes /\ Conf!Zooms' = Conf!Zooms /\ Conf!Highlights' = Conf!Highlights
        /\ Conf!QueueOK'
    BY <1>0, <1>2, <2>1, LineStays
  <2>3. \A k \in Conf!Line : "hl" \in DOMAIN Conf!Update(k) => Conf!Numbered(Conf!Update(k).hl)'
    BY <1>0, <1>1, <2>2 DEF Conf!LineOK, Conf!Numbered
  <2>4. Conf!LineOK'  BY <1>0, <2>2, <2>3 DEF Conf!LineOK
  <2> QED BY <2>2, <2>4
<1>3. ASSUME NEW u, DOMAIN u \subseteq Conf!Settings \ {"hl", "size"}, s3' = Append(s3, u)
      PROVE  /\ Conf!QueueOK' /\ Conf!LineOK'
             /\ Conf!Sizes' = Conf!Sizes /\ Conf!Zooms' = Conf!Zooms /\ Conf!Highlights' = Conf!Highlights
             /\ \A k \in Conf!Line : Conf!Update(k)' = Conf!Update(k)
  <2>0. PICK n : n = Len(s3) + 1  OBVIOUS
  <2>1. /\ Conf!QueueOK' /\ Conf!Line' = Conf!Line \cup {n} /\ Conf!Update(n)' = u
        /\ \A k \in Conf!Line : Conf!Update(k)' = Conf!Update(k)
        /\ Conf!Sizes' = Conf!Sizes /\ Conf!Zooms' = Conf!Zooms /\ Conf!Highlights' = Conf!Highlights
    BY <1>0, <1>3, <2>0, LineGrows
  <2>2. \A k \in Conf!Line : "hl" \in DOMAIN Conf!Update(k)' => Conf!Numbered(Conf!Update(k).hl)'
    BY <1>0, <1>1, <2>1 DEF Conf!LineOK, Conf!Numbered
  <2>3. Conf!LineOK'  BY <1>0, <1>3, <2>1, <2>2 DEF Conf!LineOK
  <2> QED BY <2>1, <2>3
<1> QED BY <1>2, <1>3 DEF Quiet

LEMMA QuietKeeps == ASSUME Conf!KeptInv, Quiet PROVE Conf!KeptInv'
<1>0. /\ Conf!CopiesOK /\ Conf!PagesOK /\ (~s14 => Conf!MemoryFollows /\ Conf!HighlightsFollow /\ Conf!SizesFollow)
      /\ s9 \in Nat /\ s9' \in Nat /\ s9 <= s9'
      /\ UNCHANGED <<s1, s2, s4, s5, s6, s8, s10, s13>>
  BY DEF Conf!KeptInv, Quiet, Conf!CopiesOK
<1>1. /\ Conf!QueueOK' /\ Conf!LineOK'
      /\ Conf!Sizes' = Conf!Sizes /\ Conf!Zooms' = Conf!Zooms /\ Conf!Highlights' = Conf!Highlights
      /\ \A k \in Conf!Line : Conf!Update(k)' = Conf!Update(k)
  BY QuietLine
<1>2. Conf!CopiesOK'  BY <1>0 DEF Conf!CopiesOK, Conf!Numbered, Conf!IsConfig
<1>3. Conf!PagesOK'  BY <1>0 DEF Conf!PagesOK, Quiet, Conf!Numbered
<1>4. ASSUME ~s14' PROVE (Conf!MemoryFollows /\ Conf!HighlightsFollow /\ Conf!SizesFollow)'
  <2>1. Conf!MemoryFollows /\ Conf!HighlightsFollow /\ Conf!SizesFollow  BY <1>0, <1>4 DEF Quiet
  <2>2. Conf!MemoryFollows'  BY <1>0, <2>1 DEF Conf!MemoryFollows
  <2>3. Conf!HighlightsFollow'
    <3>1. \A k \in Conf!Highlights : Conf!Update(k)' = Conf!Update(k)  BY <1>1 DEF Conf!Highlights
    <3>2. s7'.pendingHl = s7.pendingHl  BY DEF Quiet
    <3> QED BY <1>0, <1>1, <2>1, <3>1, <3>2 DEF Conf!HighlightsFollow
  <2>4. Conf!SizesFollow'
    <3>1. \A k \in Conf!Sizes : Conf!Update(k)' = Conf!Update(k)  BY <1>1 DEF Conf!Sizes
    <3>2. \A k \in Conf!Zooms : Conf!Update(k)' = Conf!Update(k)  BY <1>1 DEF Conf!Zooms, Conf!Sizes
    <3> QED BY <1>0, <1>1, <2>1, <3>1, <3>2 DEF Conf!SizesFollow
  <2> QED BY <2>2, <2>3, <2>4
<1> QED BY <1>1, <1>2, <1>3, <1>4 DEF Conf!KeptInv

LEMMA SwitchesAreQuiet ==
    ASSUME Conf!KeptInv, Conf!Switch \/ (\E v : Conf!CommitField(v)) PROVE Quiet
<1>0. Conf!PagesOK  BY DEF Conf!KeptInv
<1>1. UNCHANGED <<s1, s2, s4, s5, s6, s8, s10, s13, s7, s14>> /\ s9' = s9 + 1
  BY DEF Conf!Switch, Conf!CommitField, Conf!Edit, Conf!others
<1>2. s3' = s3 \/ \E e : s3' = Append(s3, [plain |-> e])
  BY DEF Conf!Switch, Conf!CommitField, Conf!SaveConfig
<1>3. \A e : DOMAIN [plain |-> e] \subseteq Conf!Settings \ {"hl", "size"}
  BY DEF Conf!Settings, Conf!Fields
<1>4. s3' = s3 \/ \E u : DOMAIN u \subseteq Conf!Settings \ {"hl", "size"} /\ s3' = Append(s3, u)
  BY <1>2, <1>3
<1> QED BY <1>0, <1>1, <1>4 DEF Quiet, Conf!PagesOK

LEMMA GroupsAreQuiet ==
    ASSUME Conf!KeptInv, Conf!SavePanes \/ (\E on : Conf!UpdateBinding(on)) PROVE Quiet
<1>0. Conf!PagesOK  BY DEF Conf!KeptInv
<1>1. UNCHANGED <<s1, s2, s4, s5, s6, s8, s10, s13, s7, s14>> /\ s9' = s9 + 1
  BY DEF Conf!SavePanes, Conf!UpdateBinding, Conf!Edit, Conf!others
<1>2. s3' = s3 \/ \E g : s3' = Append(s3, [panes |-> g])
  BY DEF Conf!SavePanes, Conf!UpdateBinding, Conf!SaveConfig
<1>3. \A g : DOMAIN [panes |-> g] \subseteq Conf!Settings \ {"hl", "size"}
  BY DEF Conf!Settings, Conf!Fields
<1>4. s3' = s3 \/ \E u : DOMAIN u \subseteq Conf!Settings \ {"hl", "size"} /\ s3' = Append(s3, u)
  BY <1>2, <1>3
<1> QED BY <1>0, <1>1, <1>4 DEF Quiet, Conf!PagesOK

LEMMA DialogsAreQuiet ==
    ASSUME Conf!KeptInv,
           Conf!ChooseDirectory \/ Conf!DirectoryChosen \/ Conf!AskHighlightSet
             \/ (\E on : Conf!LogSwitch(on) \/ Conf!LogConfirmed(on))
    PROVE  Quiet
<1>0. Conf!PagesOK /\ s9 \in Nat  BY DEF Conf!KeptInv, Conf!CopiesOK
<1>1. UNCHANGED <<s1, s2, s4, s5, s6, s8, s10, s13, s14>>
  BY DEF Conf!ChooseDirectory, Conf!DirectoryChosen, Conf!AskHighlightSet, Conf!LogSwitch,
         Conf!LogConfirmed, Conf!others
<1>2. s9' \in {s9, s9 + 1}
  BY DEF Conf!ChooseDirectory, Conf!DirectoryChosen, Conf!AskHighlightSet, Conf!LogSwitch, Conf!LogConfirmed
<1>3. s3' = s3 \/ \E e : s3' = Append(s3, [plain |-> e]) \/ s3' = Append(s3, [log |-> e])
  BY DEF Conf!ChooseDirectory, Conf!DirectoryChosen, Conf!AskHighlightSet, Conf!LogSwitch,
         Conf!LogConfirmed, Conf!SaveConfig
<1>4. \A e : DOMAIN [plain |-> e] \subseteq Conf!Settings \ {"hl", "size"}
             /\ DOMAIN [log |-> e] \subseteq Conf!Settings \ {"hl", "size"}
  BY DEF Conf!Settings, Conf!Fields
<1>5. s3' = s3 \/ \E u : DOMAIN u \subseteq Conf!Settings \ {"hl", "size"} /\ s3' = Append(s3, u)
  BY <1>3, <1>4
<1>6. \/ s7' = s7
      \/ s7.open /\ \E a : s7' = [s7 EXCEPT !.asked = a]
  BY <1>0 DEF Conf!ChooseDirectory, Conf!DirectoryChosen, Conf!AskHighlightSet, Conf!LogSwitch,
         Conf!LogConfirmed, Conf!PagesOK
<1>7. /\ DOMAIN s7' = DOMAIN s7 /\ s7'.pendingHl = s7.pendingHl
      /\ ~s7'.open => s7'.pendingHl = Conf!None /\ s7'.asked = "nothing"
  BY <1>0, <1>6 DEF Conf!PagesOK, Conf!NoDraft
<1> QED BY <1>1, <1>2, <1>5, <1>7 DEF Quiet

LEMMA DraftsAreQuiet ==
    ASSUME Conf!KeptInv, Conf!EditFont \/ Conf!SaveIcons \/ Conf!FlushIcons \/ Conf!OpenSettings PROVE Quiet
<1>0. Conf!PagesOK /\ s9 \in Nat  BY DEF Conf!KeptInv, Conf!CopiesOK
<1>1. \A g : DOMAIN [icons |-> g] \subseteq Conf!Settings \ {"hl", "size"}
  BY DEF Conf!Settings, Conf!Fields
<1>2. CASE Conf!EditFont
  <2>1. PICK e \in 1..ConfEdits : Conf!Edit(e) /\ s7' = [s7 EXCEPT !.font = e]  BY <1>2 DEF Conf!EditFont
  <2>2. s7.open /\ s9' = s9 + 1  BY <2>1 DEF Conf!Edit
  <2>3. UNCHANGED <<s1, s2, s3, s4, s5, s6, s8, s10, s13, s14>>
    BY <1>2 DEF Conf!EditFont, Conf!others
  <2>4. DOMAIN s7' = DOMAIN s7 /\ s7'.pendingHl = s7.pendingHl /\ s7'.open
    BY <1>0, <2>1, <2>2 DEF Conf!PagesOK, Conf!NoDraft
  <2> QED BY <2>2, <2>3, <2>4 DEF Quiet
<1>3. CASE Conf!SaveIcons
  <2>1. PICK e \in 1..ConfEdits :
          /\ Conf!Edit(e)
          /\ s7' = [s7 EXCEPT !.icons = @ \cup {e}, !.pendingIcons = [next |-> s7.icons \cup {e}]]
    BY <1>3, Zenon DEF Conf!SaveIcons
  <2>2. s7.open /\ s9' = s9 + 1  BY <2>1 DEF Conf!Edit
  <2>3. UNCHANGED <<s1, s2, s3, s4, s5, s6, s8, s10, s13, s14>>
    BY <1>3, Zenon DEF Conf!SaveIcons, Conf!others
  <2>4. DOMAIN s7' = DOMAIN s7 /\ s7'.pendingHl = s7.pendingHl /\ s7'.open
    BY <1>0, <2>1, <2>2 DEF Conf!PagesOK, Conf!NoDraft
  <2> QED BY <2>2, <2>3, <2>4 DEF Quiet
<1>4. CASE Conf!FlushIcons
  <2>1. /\ s7' = [s7 EXCEPT !.pendingIcons = Conf!None]
        /\ s3' = Append(s3, [icons |-> s7.pendingIcons.next])
        /\ UNCHANGED <<s1, s2, s4, s5, s6, s8, s9, s10, s13, s14>>
    BY <1>4 DEF Conf!FlushIcons, Conf!SaveConfig, Conf!others
  <2>2. /\ DOMAIN s7' = DOMAIN s7 /\ s7'.pendingHl = s7.pendingHl
        /\ s7'.open = s7.open /\ s7'.asked = s7.asked
    BY <1>0, <2>1 DEF Conf!PagesOK, Conf!NoDraft
  <2> QED BY <1>0, <1>1, <2>1, <2>2 DEF Quiet, Conf!PagesOK
<1>5. CASE Conf!OpenSettings
  <2>1. /\ ~s7.open /\ s7' = [Conf!NoDraft EXCEPT !.open = TRUE, !.font = s1.font, !.icons = s1.icons]
        /\ UNCHANGED <<s1, s2, s3, s4, s5, s6, s8, s9, s10, s13, s14>>
    BY <1>5 DEF Conf!OpenSettings
  <2>2. DOMAIN s7' = DOMAIN Conf!NoDraft /\ s7'.pendingHl = Conf!None /\ s7'.open
    BY <2>1 DEF Conf!NoDraft
  <2> QED BY <1>0, <2>1, <2>2 DEF Quiet, Conf!PagesOK
<1> QED BY <1>2, <1>3, <1>4, <1>5

-----------------------------------------------------------------------------
(* The settings: the pages' edits of the highlighting and the size.     *)

LEMMA CopiesStay ==
    ASSUME Conf!CopiesOK, UNCHANGED <<s1, s2, s4, s5, s6, s13>>, s9' \in {s9, s9 + 1}
    PROVE  Conf!CopiesOK'
<1>1. s9 \in Nat /\ s9' \in Nat /\ s9 <= s9'  BY DEF Conf!CopiesOK
<1>2. UNCHANGED <<s1, s2, s4, s5, s6, s13>>  OBVIOUS
<1>3. \A g : Conf!Numbered(g) => \A n \in g : n \in Nat /\ n <= s9'  BY <1>1 DEF Conf!Numbered
<1>4. (Conf!Numbered(s1.hl) /\ Conf!Numbered(s2.hl))'  BY <1>2, <1>3 DEF Conf!CopiesOK, Conf!Numbered
<1>5. s5 # Conf!None => Conf!Numbered(s5.read.hl)'  BY <1>2, <1>3 DEF Conf!CopiesOK, Conf!Numbered
<1>6. s4 # Conf!None => Conf!Numbered(s4.sent.hl)'  BY <1>2, <1>3 DEF Conf!CopiesOK, Conf!Numbered
<1> QED BY <1>1, <1>2, <1>4, <1>5, <1>6 DEF Conf!CopiesOK

LEMMA GrownLine ==
    ASSUME Conf!QueueOK, Conf!LineOK, s9 \in Nat, s9' \in {s9, s9 + 1}, s4' = s4,
           NEW u, s3' = Append(s3, u), DOMAIN u \subseteq Conf!Settings,
           "hl" \in DOMAIN u => Conf!Numbered(u.hl)'
    PROVE  Conf!LineOK'
<1>1. PICK n : n = Len(s3) + 1  OBVIOUS
<1>2. Conf!Line' = Conf!Line \cup {n} /\ Conf!Update(n)' = u /\ \A k \in Conf!Line : Conf!Update(k)' = Conf!Update(k)
  BY <1>1, LineGrows
<1>3. \A k \in Conf!Line : "hl" \in DOMAIN Conf!Update(k)' => Conf!Numbered(Conf!Update(k).hl)'
  BY <1>2 DEF Conf!LineOK, Conf!Numbered
<1> QED BY <1>2, <1>3 DEF Conf!LineOK, Conf!Numbered

LEMMA HighlightKeeps ==
    ASSUME Conf!KeptInv, s7.open, s9' = s9 + 1, Conf!HighlightSaved(s9 + 1),
           UNCHANGED <<s1, s2, s4, s5, s6, s8, s13, s14>>
    PROVE  Conf!KeptInv'
<1>0. /\ Conf!QueueOK /\ Conf!LineOK /\ Conf!CopiesOK /\ Conf!PagesOK /\ s9 \in Nat
      /\ ~s14 => Conf!MemoryFollows /\ Conf!HighlightsFollow /\ Conf!SizesFollow
  BY DEF Conf!KeptInv, Conf!CopiesOK
<1>1. PICK next, u, n :
        /\ next = Conf!HighlightBase \cup {s9 + 1} /\ u = [hl |-> next] /\ n = Len(s3) + 1
        /\ s7' = [s7 EXCEPT !.pendingHl = [next |-> next], !.asked = "nothing"]
        /\ s3' = Append(s3, u)
        /\ s10' = [s10 EXCEPT !.hl = @ \cup {s9 + 1}]
  BY DEF Conf!HighlightSaved, Conf!SaveConfig
<1>2. /\ DOMAIN s7' = DOMAIN s7 /\ s7'.pendingHl = [next |-> next] /\ s7'.open
      /\ DOMAIN s10' = {"hl", "size"} /\ s10'.hl = s10.hl \cup {s9 + 1} /\ s10'.size = s10.size
  BY <1>0, <1>1 DEF Conf!PagesOK, Conf!NoDraft
<1>3. DOMAIN u = {"hl"} /\ u.hl = next /\ s7'.pendingHl.next = next /\ s7'.pendingHl # Conf!None
  BY <1>1, <1>2 DEF Conf!None
<1>4. Conf!Numbered(next)'
  <2>1. Conf!Numbered(Conf!HighlightBase)
    BY <1>0 DEF Conf!HighlightBase, Conf!PagesOK, Conf!CopiesOK
  <2> QED BY <1>0, <1>1, <2>1 DEF Conf!Numbered
<1>5. /\ Conf!QueueOK' /\ n \notin Conf!Line /\ Conf!Line' = Conf!Line \cup {n} /\ Conf!Update(n)' = u
      /\ \A k \in Conf!Line : k \in Nat /\ k < n /\ Conf!Update(k)' = Conf!Update(k)
      /\ Conf!Sizes' = Conf!Sizes /\ Conf!Zooms' = Conf!Zooms /\ Conf!Highlights' = Conf!Highlights \cup {n}
  <2>1. "hl" \in DOMAIN u /\ "size" \notin DOMAIN u  BY <1>3
  <2>2. n = Len(s3) + 1 /\ s3' = Append(s3, u) /\ s4' = s4  BY <1>1
  <2> HIDE DEF Conf!HighlightSaved
  <2> QED BY <1>0, <2>1, <2>2, LineGrows
<1>6. Conf!LineOK'
  <2>1. DOMAIN u \subseteq Conf!Settings  BY <1>3 DEF Conf!Settings, Conf!Fields
  <2>2. Conf!Numbered(u.hl)'  BY <1>3, <1>4 DEF Conf!Numbered
  <2> QED BY <1>0, <1>1, <2>1, <2>2, GrownLine
<1>7. Conf!CopiesOK'  BY <1>0, CopiesStay
<1>8. Conf!PagesOK'
  <2>1. \A m \in next : m \in Nat /\ m <= s9'  BY <1>4 DEF Conf!Numbered
  <2>2. s8' = s8  OBVIOUS
  <2> QED BY <1>0, <1>2, <1>3, <2>1, <2>2 DEF Conf!PagesOK, Conf!Numbered
<1>9. ASSUME ~s14' PROVE (Conf!MemoryFollows /\ Conf!HighlightsFollow /\ Conf!SizesFollow)'
  <2>1. Conf!MemoryFollows /\ Conf!HighlightsFollow /\ Conf!SizesFollow  BY <1>0, <1>9
  <2>2. Conf!MemoryFollows'  BY <2>1 DEF Conf!MemoryFollows
  <2>3. Conf!HighlightsFollow'
    <3>1. s10.hl \subseteq Conf!HighlightBase
      BY <2>1 DEF Conf!HighlightsFollow, Conf!HighlightBase
    <3>2. s10'.hl \subseteq next  BY <1>1, <1>2, <3>1
    <3>3. \A k \in Conf!Highlights : k \in Nat /\ k < n /\ Conf!Update(k)' = Conf!Update(k)
                                        /\ s9 + 1 \notin Conf!Update(k).hl
      <4>1. \A k \in Conf!Highlights : k \in Conf!Line /\ Conf!Numbered(Conf!Update(k).hl)
        BY <1>0 DEF Conf!Highlights, Conf!LineOK
      <4> QED BY <1>0, <1>5, <4>1 DEF Conf!Numbered
    <3>4. s9 + 1 \in next  BY <1>1
    <3>5. \A k \in Conf!Highlights : Conf!Update(k)'.hl # next  BY <3>3, <3>4
    <3>6. Conf!Update(n)'.hl = next  BY <1>3, <1>5
    <3>7. \A j \in Conf!Highlights' : (j < n \/ j = n) /\ (j # n => Conf!Update(j)'.hl # next)
      BY <1>5, <3>3, <3>5
    <3>8. n \in Conf!Highlights'  BY <1>5
    <3> QED BY <1>3, <3>2, <3>6, <3>7, <3>8 DEF Conf!HighlightsFollow
  <2>4. Conf!SizesFollow'
    <3>1. \A k \in Conf!Sizes : Conf!Update(k)' = Conf!Update(k)  BY <1>5 DEF Conf!Sizes
    <3>2. \A k \in Conf!Zooms : Conf!Update(k)' = Conf!Update(k)  BY <3>1 DEF Conf!Zooms
    <3> QED BY <1>2, <1>5, <2>1, <3>1, <3>2 DEF Conf!SizesFollow
  <2> QED BY <2>2, <2>3, <2>4
<1> QED BY <1>5, <1>6, <1>7, <1>8, <1>9 DEF Conf!KeptInv

LEMMA HighlightStepsKeep ==
    ASSUME Conf!KeptInv,
           Conf!EditHighlight \/ (\E v : Conf!CommitPattern(v)) \/ (\E yes \in BOOLEAN : Conf!AnswerHighlightSet(yes))
    PROVE  Conf!KeptInv'
<1>0. Conf!PagesOK  BY DEF Conf!KeptInv
<1>1. UNCHANGED <<s1, s2, s4, s5, s6, s8, s13, s14>>
  BY DEF Conf!EditHighlight, Conf!CommitPattern, Conf!AnswerHighlightSet, Conf!others
<1>2. \/ s7.open /\ s9' = s9 + 1 /\ Conf!HighlightSaved(s9 + 1)
      \/ s9' = s9 + 1 /\ UNCHANGED <<s7, s3, s10>>
      \/ s7.asked = "set" /\ s7' = [s7 EXCEPT !.asked = "nothing"] /\ UNCHANGED <<s3, s9, s10>>
  <2>1. CASE Conf!EditHighlight  BY <2>1 DEF Conf!EditHighlight, Conf!Edit
  <2>2. CASE \E v : Conf!CommitPattern(v)  BY <2>2 DEF Conf!CommitPattern, Conf!Edit
  <2>3. ASSUME NEW yes \in BOOLEAN, Conf!AnswerHighlightSet(yes)
        PROVE  \/ s7.open /\ s9' = s9 + 1 /\ Conf!HighlightSaved(s9 + 1)
               \/ s7.asked = "set" /\ s7' = [s7 EXCEPT !.asked = "nothing"] /\ UNCHANGED <<s3, s9, s10>>
    <3>1. s7.open  BY <1>0, <2>3 DEF Conf!AnswerHighlightSet, Conf!PagesOK
    <3> QED BY <2>3, <3>1 DEF Conf!AnswerHighlightSet
  <2> QED BY <2>1, <2>2, <2>3
<1>3. CASE s7.open /\ s9' = s9 + 1 /\ Conf!HighlightSaved(s9 + 1)
  BY <1>1, <1>3, HighlightKeeps
<1>4. CASE s9' = s9 + 1 /\ UNCHANGED <<s7, s3, s10>>
  <2>1. Quiet  BY <1>0, <1>1, <1>4 DEF Quiet, Conf!PagesOK
  <2> QED BY <2>1, QuietKeeps
<1>5. CASE s7.asked = "set" /\ s7' = [s7 EXCEPT !.asked = "nothing"] /\ UNCHANGED <<s3, s9, s10>>
  <2>1. Quiet  BY <1>0, <1>1, <1>5 DEF Quiet, Conf!PagesOK, Conf!NoDraft
  <2> QED BY <2>1, QuietKeeps
<1> QED BY <1>2, <1>3, <1>4, <1>5

LEMMA FontKeeps == ASSUME Conf!KeptInv, Conf!HandleFontSave PROVE Conf!KeptInv'
<1>0. /\ Conf!QueueOK /\ Conf!LineOK /\ Conf!CopiesOK /\ Conf!PagesOK /\ s9 \in Nat
      /\ ~s14 => Conf!MemoryFollows /\ Conf!HighlightsFollow /\ Conf!SizesFollow
  BY DEF Conf!KeptInv, Conf!CopiesOK
<1>1. PICK u, n :
        /\ u = [font |-> s7.font, size |-> s1.size] /\ n = Len(s3) + 1
        /\ s7' = [s7 EXCEPT !.savingFont = TRUE] /\ s3' = Append(s3, u)
  BY DEF Conf!HandleFontSave, Conf!SaveConfig
<1>2. /\ UNCHANGED <<s1, s2, s4, s5, s6, s8, s10, s13>> /\ s9' = s9 + 1
      /\ s14' = (s14 \/ s8.pending > 0)
  BY DEF Conf!HandleFontSave
<1>3. DOMAIN u = {"font", "size"} /\ u.size = s1.size  BY <1>1
<1>4. /\ DOMAIN s7' = DOMAIN s7 /\ s7'.pendingHl = s7.pendingHl
      /\ s7'.open = s7.open /\ s7'.asked = s7.asked
  BY <1>0, <1>1 DEF Conf!PagesOK, Conf!NoDraft
<1>5. /\ Conf!QueueOK' /\ n \notin Conf!Line /\ Conf!Line' = Conf!Line \cup {n} /\ Conf!Update(n)' = u
      /\ \A k \in Conf!Line : k \in Nat /\ k < n /\ Conf!Update(k)' = Conf!Update(k)
      /\ Conf!Sizes' = Conf!Sizes \cup {n} /\ Conf!Zooms' = Conf!Zooms /\ Conf!Highlights' = Conf!Highlights
  BY <1>0, <1>1, <1>2, <1>3, LineGrows
<1>6. Conf!LineOK'
  <2>1. DOMAIN u \subseteq Conf!Settings /\ "hl" \notin DOMAIN u  BY <1>3 DEF Conf!Settings, Conf!Fields
  <2> QED BY <1>0, <1>1, <1>2, <2>1, GrownLine
<1>7. Conf!CopiesOK'  BY <1>0, <1>2, CopiesStay
<1>8. Conf!PagesOK'  BY <1>0, <1>2, <1>4 DEF Conf!PagesOK, Conf!Numbered
<1>9. ASSUME ~s14' PROVE (Conf!MemoryFollows /\ Conf!HighlightsFollow /\ Conf!SizesFollow)'
  <2>1. Conf!MemoryFollows /\ Conf!HighlightsFollow /\ Conf!SizesFollow /\ ~(s8.pending > 0)  BY <1>0, <1>2, <1>9
  <2>2. Conf!MemoryFollows'  BY <1>2, <2>1 DEF Conf!MemoryFollows
  <2>3. Conf!HighlightsFollow'
    <3>1. \A k \in Conf!Highlights : Conf!Update(k)' = Conf!Update(k)  BY <1>5 DEF Conf!Highlights
    <3> QED BY <1>2, <1>4, <1>5, <2>1, <3>1 DEF Conf!HighlightsFollow
  <2>4. Conf!Zooms = {}
    <3>1. IsFiniteSet(Conf!Zooms)  BY <1>0, ZoomsAreFinite
    <3>2. Cardinality(Conf!Zooms) \in Nat /\ (Cardinality(Conf!Zooms) = 0 <=> Conf!Zooms = {})
      BY <3>1, FS_CardinalityType, FS_EmptySet
    <3>3. s8.pending = Cardinality(Conf!Zooms)  BY <2>1, CountIsCardinality DEF Conf!SizesFollow
    <3> QED BY <2>1, <3>2, <3>3
  <2>5. Conf!SizesFollow'
    <3>1. \A k \in Conf!Sizes : Conf!Update(k)' = Conf!Update(k)  BY <1>5 DEF Conf!Sizes
    <3> QED BY <1>2, <1>3, <1>5, <2>1, <2>4, <3>1 DEF Conf!SizesFollow
  <2> QED BY <2>2, <2>3, <2>5
<1> QED BY <1>5, <1>6, <1>7, <1>8, <1>9 DEF Conf!KeptInv

LEMMA ZoomKeeps == ASSUME Conf!KeptInv, NEW step \in {-1, 1}, Conf!ZoomBy(step) PROVE Conf!KeptInv'
<1>0. /\ Conf!QueueOK /\ Conf!LineOK /\ Conf!CopiesOK /\ Conf!PagesOK /\ s9 \in Nat
      /\ ~s14 => Conf!MemoryFollows /\ Conf!HighlightsFollow /\ Conf!SizesFollow
  BY DEF Conf!KeptInv, Conf!CopiesOK
<1>1. PICK size, u, n :
        /\ size = Conf!ZoomFrom + step /\ u = [size |-> size] /\ n = Len(s3) + 1
        /\ s3' = Append(s3, u)
        /\ s8' = [target |-> [size |-> size], pending |-> s8.pending + 1]
        /\ s10' = [s10 EXCEPT !.size = @ + step]
  BY DEF Conf!ZoomBy, Conf!SaveConfig
<1>2. UNCHANGED <<s1, s2, s4, s5, s6, s7, s13, s14>> /\ s9' = s9 + 1
  BY DEF Conf!ZoomBy, Conf!others
<1>3. /\ DOMAIN u = {"size"} /\ u.size = size
      /\ DOMAIN s8' = {"target", "pending"} /\ s8'.target = [size |-> size]
      /\ s8'.pending = s8.pending + 1
  BY <1>1
<1>4. DOMAIN s10' = {"hl", "size"} /\ s10'.hl = s10.hl /\ s10'.size = s10.size + step
  BY <1>0, <1>1 DEF Conf!PagesOK
<1>5. /\ Conf!QueueOK' /\ n \notin Conf!Line /\ Conf!Line' = Conf!Line \cup {n} /\ Conf!Update(n)' = u
      /\ \A k \in Conf!Line : k \in Nat /\ k < n /\ Conf!Update(k)' = Conf!Update(k)
      /\ Conf!Sizes' = Conf!Sizes \cup {n} /\ Conf!Zooms' = Conf!Zooms \cup {n} /\ Conf!Highlights' = Conf!Highlights
      /\ n \in Nat
  BY <1>0, <1>1, <1>2, <1>3, LineGrows
<1>6. Conf!LineOK'
  <2>1. DOMAIN u \subseteq Conf!Settings /\ "hl" \notin DOMAIN u  BY <1>3 DEF Conf!Settings, Conf!Fields
  <2> QED BY <1>0, <1>1, <1>2, <2>1, GrownLine
<1>7. Conf!CopiesOK'  BY <1>0, <1>2, CopiesStay
<1>8. Conf!PagesOK'  BY <1>0, <1>2, <1>3, <1>4 DEF Conf!PagesOK, Conf!Numbered
<1>9. ASSUME ~s14' PROVE (Conf!MemoryFollows /\ Conf!HighlightsFollow /\ Conf!SizesFollow)'
  <2>1. Conf!MemoryFollows /\ Conf!HighlightsFollow /\ Conf!SizesFollow  BY <1>0, <1>2, <1>9
  <2>2. Conf!MemoryFollows'  BY <1>2, <2>1 DEF Conf!MemoryFollows
  <2>3. Conf!HighlightsFollow'
    <3>1. \A k \in Conf!Highlights : Conf!Update(k)' = Conf!Update(k)  BY <1>5 DEF Conf!Highlights
    <3> QED BY <1>2, <1>4, <1>5, <2>1, <3>1 DEF Conf!HighlightsFollow
  <2>4. size = s10'.size
    <3>1. Conf!ZoomFrom = s10.size  BY <2>1 DEF Conf!ZoomFrom, Conf!SizesFollow
    <3> QED BY <1>1, <1>4, <3>1
  <2>5. s8'.pending = Cardinality(Conf!Zooms')
    <3>1. n \notin Conf!Zooms /\ IsFiniteSet(Conf!Zooms)  BY <1>0, <1>5, ZoomsAreFinite DEF Conf!Zooms, Conf!Sizes
    <3>2. Cardinality(Conf!Zooms \cup {n}) = Cardinality(Conf!Zooms) + 1  BY <3>1, FS_AddElement
    <3>3. s8.pending = Cardinality(Conf!Zooms)  BY <2>1, CountIsCardinality DEF Conf!SizesFollow
    <3> QED BY <1>3, <1>5, <3>2, <3>3
  <2>6. \A j \in Conf!Sizes' : j <= n
    BY <1>5 DEF Conf!Sizes
  <2>7. s8'.target # Conf!None  BY <1>3 DEF Conf!None
  <2>8. Conf!SizesFollow'
    <3>1. s8'.pending = Conf!Cardinality(Conf!Zooms')  BY <2>5, CountIsCardinality
    <3>2. n \in Conf!Zooms' /\ Conf!Update(n)'.size = s10'.size  BY <1>3, <1>5, <2>4
    <3>3. s8'.target = [size |-> s10'.size]  BY <1>3, <2>4
    <3> QED BY <2>6, <2>7, <3>1, <3>2, <3>3 DEF Conf!SizesFollow
  <2> QED BY <2>2, <2>3, <2>8
<1> QED BY <1>5, <1>6, <1>7, <1>8, <1>9 DEF Conf!KeptInv

LEMMA CloseKeeps == ASSUME Conf!KeptInv, Conf!CloseSettings PROVE Conf!KeptInv'
<1>0. /\ Conf!QueueOK /\ Conf!LineOK /\ Conf!CopiesOK /\ Conf!PagesOK /\ s9 \in Nat
  BY DEF Conf!KeptInv, Conf!CopiesOK
<1>1. /\ UNCHANGED <<s1, s2, s4, s5, s6, s8, s9, s10, s13>> /\ s7' = Conf!NoDraft
      /\ s14' = (s14 \/ s7.pendingHl # Conf!None)
      /\ s3' = s3 \/ s3' = Append(s3, [icons |-> s7.pendingIcons.next])
  BY DEF Conf!CloseSettings, Conf!SaveConfig
<1>2. DOMAIN [icons |-> s7.pendingIcons.next] \subseteq Conf!Settings \ {"hl", "size"}
  BY DEF Conf!Settings, Conf!Fields
<1>3. s7'.pendingHl = Conf!None /\ ~s7'.open /\ s7'.asked = "nothing" /\ DOMAIN s7' = DOMAIN Conf!NoDraft
  BY <1>1 DEF Conf!NoDraft
<1>4. CASE s7.pendingHl = Conf!None
  <2>1. Quiet  BY <1>0, <1>1, <1>2, <1>3, <1>4 DEF Quiet, Conf!PagesOK
  <2> QED BY <2>1, QuietKeeps
<1>5. CASE s7.pendingHl # Conf!None
  <2>1. Conf!QueueOK' /\ Conf!LineOK'
    <3>1. CASE s3' = s3
      <4>1. SaveStays  BY <1>1 DEF SaveStays
      <4>2. Conf!QueueOK' /\ Conf!Line' = Conf!Line /\ \A k \in Conf!Line : Conf!Update(k)' = Conf!Update(k)
        BY <1>0, <3>1, <4>1, LineStays
      <4> QED BY <1>0, <1>1, <4>2 DEF Conf!LineOK, Conf!Numbered
    <3>2. ASSUME NEW u, u = [icons |-> s7.pendingIcons.next], s3' = Append(s3, u)
          PROVE  Conf!QueueOK' /\ Conf!LineOK'
      <4>1. DOMAIN u = {"icons"} /\ DOMAIN u \subseteq Conf!Settings /\ "hl" \notin DOMAIN u
        BY <3>2 DEF Conf!Settings, Conf!Fields
      <4>2. Conf!LineOK'  BY <1>0, <1>1, <3>2, <4>1, GrownLine
      <4>3. Conf!QueueOK'  BY <1>0, <3>2, QueueAppends DEF Conf!QueueOK
      <4> QED BY <4>2, <4>3
    <3> QED BY <1>1, <3>1, <3>2
  <2>2. Conf!CopiesOK'  BY <1>0, <1>1, CopiesStay
  <2>3. Conf!PagesOK'  BY <1>0, <1>1, <1>3 DEF Conf!PagesOK, Conf!Numbered
  <2> QED BY <1>1, <1>5, <2>1, <2>2, <2>3 DEF Conf!KeptInv
<1> QED BY <1>4, <1>5

-----------------------------------------------------------------------------
(* The settings: the saves.                                                *)

LEMMA WhatIsSent ==
    ASSUME NEW u, DOMAIN u \subseteq Conf!Settings
    PROVE  /\ Conf!IsConfig(Conf!Sent(u))
           /\ \A f \in DOMAIN u : Conf!Sent(u)[f] = u[f]
           /\ \A f \in Conf!Fields \ DOMAIN u : Conf!Sent(u)[f] = s1[f]
BY DEF Conf!IsConfig, Conf!Sent, Conf!Settings

\* A save that starts, or starts again: what is in line before and after it.
LEMMA RunningKeeps ==
    ASSUME Conf!KeptInv, NEW u, DOMAIN u \subseteq Conf!Settings, "hl" \in DOMAIN u => Conf!Numbered(u.hl),
           s4' = Conf!Running(u),
           UNCHANGED <<s1, s2, s5, s6, s7, s8, s9, s10, s13, s14>>
    PROVE  /\ Conf!CopiesOK' /\ Conf!PagesOK' /\ (~s14' => Conf!MemoryFollows')
           /\ s4' # Conf!None /\ s4'.update = u /\ s4'.sent = Conf!Sent(u)
<1>0. /\ Conf!CopiesOK /\ Conf!PagesOK /\ (~s14 => Conf!MemoryFollows)
  BY DEF Conf!KeptInv
<1>1. /\ DOMAIN s4' = {"update", "sent", "at", "replaced"} /\ s4' # Conf!None
      /\ s4'.update = u /\ s4'.sent = Conf!Sent(u) /\ s4'.at = "sent" /\ s4'.replaced = FALSE
  BY DEF Conf!Running, Conf!None
<1>2. /\ Conf!IsConfig(Conf!Sent(u))
      /\ \A f \in DOMAIN u : Conf!Sent(u)[f] = u[f]
      /\ \A f \in Conf!Fields \ DOMAIN u : Conf!Sent(u)[f] = s1[f]
  BY WhatIsSent
<1>3. Conf!Numbered(Conf!Sent(u).hl)
  <2>1. "hl" \in Conf!Fields  BY DEF Conf!Fields
  <2> QED BY <1>0, <1>2, <2>1 DEF Conf!CopiesOK
<1>4. Conf!Sent(u).mode = s1.mode
  BY <1>2 DEF Conf!Settings, Conf!Fields
<1>5. UNCHANGED <<s1, s2, s5, s6, s7, s8, s9, s10, s13, s14>>
  OBVIOUS
<1>6. Conf!CopiesOK'
  <2>1. \A g : Conf!Numbered(g)' <=> Conf!Numbered(g)  BY <1>5 DEF Conf!Numbered
  <2>2. Conf!IsConfig(s4'.sent) /\ Conf!Numbered(s4'.sent.hl)
        /\ \A f \in DOMAIN s4'.update : s4'.sent[f] = s4'.update[f]
    BY <1>1, <1>2, <1>3
  <2>3. Conf!Numbered(s4.sent.hl)'  BY <1>5, <2>2 DEF Conf!Numbered
  <2>4. (Conf!Numbered(s1.hl) /\ Conf!Numbered(s2.hl))'  BY <1>0, <1>5 DEF Conf!CopiesOK, Conf!Numbered
  <2>5. s5 # Conf!None => Conf!Numbered(s5.read.hl)'  BY <1>0, <1>5 DEF Conf!CopiesOK, Conf!Numbered
  <2> QED BY <1>0, <1>1, <1>5, <2>2, <2>3, <2>4, <2>5 DEF Conf!CopiesOK
<1>7. Conf!PagesOK'  BY <1>0, <1>5 DEF Conf!PagesOK, Conf!Numbered
<1>8. ~s14' => Conf!MemoryFollows'
  BY <1>0, <1>1, <1>4, <1>5 DEF Conf!MemoryFollows
<1> QED BY <1>1, <1>6, <1>7, <1>8

LEMMA StartKeeps == ASSUME Conf!KeptInv, Conf!StartSave PROVE Conf!KeptInv'
<1>0. /\ Conf!QueueOK /\ Conf!LineOK /\ Conf!CopiesOK /\ Conf!PagesOK
      /\ ~s14 => Conf!MemoryFollows /\ Conf!HighlightsFollow /\ Conf!SizesFollow
  BY DEF Conf!KeptInv
<1>1. PICK u : u = Head(s3)  OBVIOUS
<1>2. /\ s4 = Conf!None /\ s3 # <<>> /\ s4' = Conf!Running(u) /\ s3' = Tail(s3)
      /\ UNCHANGED <<s1, s2, s5, s6, s7, s8, s9, s10, s13, s14>>
  BY <1>1 DEF Conf!StartSave
<1>3. s4' # Conf!None /\ s4'.update = u /\ s4'.sent = Conf!Sent(u)
  BY <1>2 DEF Conf!Running, Conf!None
<1>4. /\ Conf!QueueOK' /\ 1 \in Conf!Line /\ Conf!Update(1) = u
      /\ \A k \in Conf!Line : k \in Nat \ {0}
      /\ \A k \in Conf!Line' : k \in Nat /\ Conf!Update(k)' = Conf!Update(k + 1)
  BY <1>0, <1>1, <1>2, <1>3, LineMovesOn
<1>5. \A k \in Nat : k \in Conf!Line' <=> k + 1 \in Conf!Line
  BY <1>0, <1>1, <1>2, <1>3, LineMovesOn
<1>6. \A k \in Nat : k \in Conf!Sizes' <=> k + 1 \in Conf!Sizes
  BY <1>0, <1>1, <1>2, <1>3, LineMovesOn
<1>7. \A k \in Nat : k \in Conf!Zooms' <=> k + 1 \in Conf!Zooms
  BY <1>0, <1>1, <1>2, <1>3, LineMovesOn
<1>8. \A k \in Nat : k \in Conf!Highlights' <=> k + 1 \in Conf!Highlights
  BY <1>0, <1>1, <1>2, <1>3, LineMovesOn
<1>9. DOMAIN u \subseteq Conf!Settings /\ ("hl" \in DOMAIN u => Conf!Numbered(u.hl))
  BY <1>0, <1>4 DEF Conf!LineOK
<1>10. Conf!CopiesOK' /\ Conf!PagesOK' /\ (~s14' => Conf!MemoryFollows')
  BY <1>2, <1>9, RunningKeeps
<1>11. \A f \in Conf!Fields : Conf!Sent(u)[f] = IF f \in DOMAIN u THEN u[f] ELSE s1[f]
  BY DEF Conf!Sent
<1>12. Conf!LineOK'
  <2> SUFFICES ASSUME NEW k \in Conf!Line'
               PROVE  /\ DOMAIN Conf!Update(k)' \subseteq Conf!Settings
                      /\ "hl" \in DOMAIN Conf!Update(k)' => Conf!Numbered(Conf!Update(k)'.hl)
    BY <1>2 DEF Conf!LineOK, Conf!Numbered
  <2>1. k + 1 \in Conf!Line /\ Conf!Update(k)' = Conf!Update(k + 1)  BY <1>4, <1>5
  <2> QED BY <1>0, <2>1 DEF Conf!LineOK
<1>13. ASSUME ~s14' PROVE Conf!HighlightsFollow'
  <2>1. Conf!HighlightsFollow  BY <1>0, <1>2, <1>13
  <2>2. CASE s7.pendingHl = Conf!None
    <3>1. Conf!Highlights = {} /\ s10.hl \subseteq s1.hl /\ s10.hl \subseteq s2.hl
      BY <2>1, <2>2 DEF Conf!HighlightsFollow
    <3>2. Conf!Highlights' = {}
      <4>1. \A k \in Conf!Highlights' : k \in Nat  BY <1>4 DEF Conf!Highlights
      <4> QED BY <1>8, <3>1, <4>1
    <3>3. "hl" \notin DOMAIN u  BY <1>4, <3>1 DEF Conf!Highlights
    <3>4. Conf!Sent(u).hl = s1.hl  BY <1>11, <3>3 DEF Conf!Fields
    <3> QED BY <1>2, <1>3, <2>2, <3>1, <3>2, <3>4 DEF Conf!HighlightsFollow
  <2>3. CASE s7.pendingHl # Conf!None
    <3>1. PICK k \in Conf!Highlights :
            /\ Conf!Update(k).hl = s7.pendingHl.next
            /\ \A j \in Conf!Highlights : j < k \/ j = k
            /\ \A j \in Conf!Highlights : j # k => Conf!Update(j).hl # s7.pendingHl.next
      BY <2>1, <2>3 DEF Conf!HighlightsFollow
    <3>2. k - 1 \in Nat /\ (k - 1) + 1 = k  BY <1>4 DEF Conf!Highlights
    <3>3. k - 1 \in Conf!Highlights'  BY <1>8, <3>2
    <3>4. Conf!Update(k - 1)' = Conf!Update(k)  BY <1>4, <3>2, <3>3 DEF Conf!Highlights
    <3>5. ASSUME NEW j \in Conf!Highlights'
          PROVE  /\ j < k - 1 \/ j = k - 1
                 /\ j # k - 1 => Conf!Update(j)'.hl # s7.pendingHl.next
      <4>1. j \in Nat /\ Conf!Update(j)' = Conf!Update(j + 1)  BY <1>4, <3>5 DEF Conf!Highlights
      <4>2. j + 1 \in Conf!Highlights  BY <1>8, <4>1
      <4>3. j + 1 < k \/ j + 1 = k  BY <3>1, <4>2
      <4>4. j # k - 1 => j + 1 # k  BY <3>2, <4>1
      <4>5. j + 1 # k => Conf!Update(j + 1).hl # s7.pendingHl.next  BY <3>1, <4>2
      <4>6. j < k - 1 \/ j = k - 1  BY <3>2, <4>1, <4>3
      <4> QED BY <4>1, <4>4, <4>5, <4>6
    <3>6. s7' = s7 /\ s10' = s10  BY <1>2
    <3>7. s10.hl \subseteq s7.pendingHl.next  BY <2>1, <2>3 DEF Conf!HighlightsFollow
    <3> QED BY <2>3, <3>1, <3>3, <3>4, <3>5, <3>6, <3>7 DEF Conf!HighlightsFollow
  <2> QED BY <2>2, <2>3
<1>14. ASSUME ~s14' PROVE Conf!SizesFollow'
  <2>1. Conf!SizesFollow  BY <1>0, <1>2, <1>14
  <2>2. Cardinality(Conf!Zooms') = Cardinality(Conf!Zooms) /\ (Conf!Zooms' = {} <=> Conf!Zooms = {})
    BY <1>0, <1>1, <1>2, <1>3, ZoomsMoveOn
  <2>3. s8'.pending = Conf!Cardinality(Conf!Zooms')
    BY <1>2, <2>1, <2>2, CountIsCardinality DEF Conf!SizesFollow
  <2>4. CASE Conf!Zooms = {}
    <3>1. /\ \A k \in Conf!Sizes : Conf!Update(k).size = s10.size
          /\ s1.size = s10.size /\ s2.size = s10.size
          /\ s8.target # Conf!None => s8.target = [size |-> s10.size]
      BY <2>1, <2>4 DEF Conf!SizesFollow
    <3>2. ASSUME NEW k \in Conf!Sizes' PROVE Conf!Update(k)'.size = s10.size
      <4>1. k \in Nat /\ Conf!Update(k)' = Conf!Update(k + 1)  BY <1>4, <3>2 DEF Conf!Sizes
      <4>2. k + 1 \in Conf!Sizes  BY <1>6, <4>1
      <4> QED BY <3>1, <4>1, <4>2
    <3>3. Conf!Sent(u).size = s10.size
      <4>1. "size" \in DOMAIN u => u.size = s10.size  BY <1>4, <3>1 DEF Conf!Sizes
      <4> QED BY <1>11, <3>1, <4>1 DEF Conf!Fields
    <3>4. UNCHANGED <<s1, s2, s8, s10>>  BY <1>2
    <3> QED BY <1>3, <2>2, <2>3, <2>4, <3>1, <3>2, <3>3, <3>4 DEF Conf!SizesFollow
  <2>5. CASE Conf!Zooms # {}
    <3>1. PICK k \in Conf!Zooms : Conf!Update(k).size = s10.size /\ \A j \in Conf!Sizes : j <= k
      BY <2>1, <2>5 DEF Conf!SizesFollow
    <3>2. k - 1 \in Nat /\ (k - 1) + 1 = k  BY <1>4 DEF Conf!Zooms, Conf!Sizes
    <3>3. k - 1 \in Conf!Zooms'  BY <1>7, <3>2
    <3>4. Conf!Update(k - 1)' = Conf!Update(k)  BY <1>4, <3>2, <3>3 DEF Conf!Zooms, Conf!Sizes
    <3>5. ASSUME NEW j \in Conf!Sizes' PROVE j <= k - 1
      <4>1. j \in Nat  BY <1>4, <3>5 DEF Conf!Sizes
      <4>2. j + 1 \in Conf!Sizes  BY <1>6, <4>1
      <4>3. j + 1 <= k  BY <3>1, <4>2
      <4> QED BY <3>2, <4>1, <4>3
    <3>6. /\ s8.target # Conf!None
          /\ s8.target # Conf!None => s8.target = [size |-> s10.size]
      BY <2>1, <2>5 DEF Conf!SizesFollow
    <3>7. UNCHANGED <<s8, s10>>  BY <1>2
    <3> QED BY <2>2, <2>3, <2>5, <3>1, <3>3, <3>4, <3>5, <3>6, <3>7 DEF Conf!SizesFollow
  <2> QED BY <2>4, <2>5
<1> QED BY <1>4, <1>10, <1>12, <1>13, <1>14 DEF Conf!KeptInv

LEMMA AgainKeeps == ASSUME Conf!KeptInv, Conf!SaveAgain PROVE Conf!KeptInv'
<1>0. /\ Conf!QueueOK /\ Conf!LineOK /\ Conf!CopiesOK /\ Conf!PagesOK
      /\ ~s14 => Conf!MemoryFollows /\ Conf!HighlightsFollow /\ Conf!SizesFollow
  BY DEF Conf!KeptInv
<1>1. PICK u : u = s4.update  OBVIOUS
<1>2. /\ s4 # Conf!None /\ s4' = Conf!Running(u) /\ s3' = s3
      /\ UNCHANGED <<s1, s2, s5, s6, s7, s8, s9, s10, s13, s14>>
  BY <1>1 DEF Conf!SaveAgain
<1>3. s4' # Conf!None /\ s4'.update = u /\ s4'.sent = Conf!Sent(u)
  BY <1>2 DEF Conf!Running, Conf!None
<1>4. 0 \in Conf!Line /\ Conf!Update(0) = u
  BY <1>0, <1>1, <1>2 DEF Conf!Line, Conf!Update, Conf!QueueOK
<1>5. /\ Conf!Line' = Conf!Line /\ \A k \in Conf!Line : Conf!Update(k)' = Conf!Update(k)
      /\ Conf!Sizes' = Conf!Sizes /\ Conf!Zooms' = Conf!Zooms /\ Conf!Highlights' = Conf!Highlights
      /\ Conf!QueueOK'
  <2>1. SaveStays  BY <1>1, <1>2, <1>3 DEF SaveStays
  <2> QED BY <1>0, <1>2, <2>1, LineStays
<1>6. DOMAIN u \subseteq Conf!Settings /\ ("hl" \in DOMAIN u => Conf!Numbered(u.hl))
  BY <1>0, <1>4 DEF Conf!LineOK
<1>7. Conf!CopiesOK' /\ Conf!PagesOK' /\ (~s14' => Conf!MemoryFollows')
  BY <1>2, <1>6, RunningKeeps
<1>8. \A f \in Conf!Fields : Conf!Sent(u)[f] = IF f \in DOMAIN u THEN u[f] ELSE s1[f]
  BY DEF Conf!Sent
<1>9. Conf!LineOK'
  <2>1. s9' = s9  BY <1>2
  <2> QED BY <1>0, <1>5, <2>1 DEF Conf!LineOK, Conf!Numbered
<1>10. ASSUME ~s14' PROVE Conf!HighlightsFollow'
  <2>1. Conf!HighlightsFollow  BY <1>0, <1>2, <1>10
  <2>2. \A k \in Conf!Highlights : Conf!Update(k)' = Conf!Update(k)  BY <1>5 DEF Conf!Highlights
  <2>3. s7.pendingHl = Conf!None => s10.hl \subseteq Conf!Sent(u).hl
    <3> SUFFICES ASSUME s7.pendingHl = Conf!None PROVE s10.hl \subseteq Conf!Sent(u).hl
      OBVIOUS
    <3>1. Conf!Highlights = {} /\ s10.hl \subseteq s1.hl  BY <2>1 DEF Conf!HighlightsFollow
    <3>2. "hl" \notin DOMAIN u  BY <1>4, <3>1 DEF Conf!Highlights
    <3> QED BY <1>8, <3>1, <3>2 DEF Conf!Fields
  <2>4. UNCHANGED <<s1, s2, s7, s10>>  BY <1>2
  <2> QED BY <1>3, <1>5, <2>1, <2>2, <2>3, <2>4 DEF Conf!HighlightsFollow
<1>11. ASSUME ~s14' PROVE Conf!SizesFollow'
  <2>1. Conf!SizesFollow  BY <1>0, <1>2, <1>11
  <2>2. \A k \in Conf!Sizes : Conf!Update(k)' = Conf!Update(k)  BY <1>5 DEF Conf!Sizes
  <2>3. Conf!Zooms = {} => Conf!Sent(u).size = s10.size
    <3> SUFFICES ASSUME Conf!Zooms = {} PROVE Conf!Sent(u).size = s10.size
      OBVIOUS
    <3>1. /\ \A k \in Conf!Sizes : Conf!Update(k).size = s10.size
          /\ s1.size = s10.size
      BY <2>1 DEF Conf!SizesFollow
    <3>2. "size" \in DOMAIN u => u.size = s10.size  BY <1>4, <3>1 DEF Conf!Sizes
    <3> QED BY <1>8, <3>1, <3>2 DEF Conf!Fields
  <2>4. UNCHANGED <<s1, s2, s8, s10>>  BY <1>2
  <2>5. \A k \in Conf!Zooms : Conf!Update(k)' = Conf!Update(k)  BY <2>2 DEF Conf!Zooms
  <2> QED BY <1>3, <1>5, <2>1, <2>2, <2>3, <2>4, <2>5 DEF Conf!SizesFollow
<1> QED BY <1>5, <1>7, <1>9, <1>10, <1>11 DEF Conf!KeptInv

LEMMA BackendSavesKeeps == ASSUME Conf!KeptInv, Conf!BackendSaves PROVE Conf!KeptInv'
<1>0. /\ Conf!QueueOK /\ Conf!LineOK /\ Conf!CopiesOK /\ Conf!PagesOK
      /\ ~s14 => Conf!MemoryFollows /\ Conf!HighlightsFollow /\ Conf!SizesFollow
  BY DEF Conf!KeptInv
<1>1. /\ s4 # Conf!None /\ s4.at = "sent" /\ s3' = s3
      /\ UNCHANGED <<s1, s6, s7, s8, s9, s10, s13, s14>>
  BY DEF Conf!BackendSaves
<1>2. \/ /\ s2' = Conf!Written(s4.sent)
         /\ s4' = [s4 EXCEPT !.at = "saved"]
         /\ s5' = IF s5 # Conf!None /\ s5.at = "read" THEN [s5 EXCEPT !.old = TRUE] ELSE s5
      \/ /\ s4' = [s4 EXCEPT !.at = "failed"]
         /\ UNCHANGED <<s2, s5>>
  BY DEF Conf!BackendSaves
<1>3. /\ s4' # Conf!None /\ s4'.update = s4.update /\ s4'.sent = s4.sent /\ s4'.at # "sent"
      /\ s4'.replaced = s4.replaced /\ DOMAIN s4' = {"update", "sent", "at", "replaced"}
      /\ s4'.at = "saved" => s2' = Conf!Written(s4.sent)
  BY <1>0, <1>1, <1>2 DEF Conf!CopiesOK, Conf!None
<1>4. /\ s2' = s2 \/ s2' = Conf!Written(s4.sent)
      /\ DOMAIN Conf!Written(s4.sent) = DOMAIN s4.sent
      /\ \A f \in Conf!Settings : Conf!Written(s4.sent)[f] = s4.sent[f]
      /\ Conf!IsConfig(Conf!Written(s4.sent)) /\ Conf!Written(s4.sent).mode = s2.mode
  <2>1. s4.sent = [f \in Conf!Fields |-> s4.sent[f]]  BY <1>0, <1>1 DEF Conf!CopiesOK, Conf!IsConfig
  <2>2. "mode" \in Conf!Fields  BY DEF Conf!Fields
  <2> QED BY <1>2, <2>1, <2>2 DEF Conf!Written, Conf!Settings, Conf!IsConfig
<1>5. /\ s5' = Conf!None <=> s5 = Conf!None
      /\ s5 # Conf!None =>
           /\ DOMAIN s5' = {"at", "old", "read"} /\ s5'.old \in BOOLEAN
           /\ s5'.read = s5.read
           /\ s5'.at = "read" /\ ~s5'.old => s5'.read = s2'
  BY <1>0, <1>2 DEF Conf!CopiesOK, Conf!None
<1>6. {"hl", "size"} \subseteq Conf!Settings /\ "mode" \notin Conf!Settings
  BY DEF Conf!Settings, Conf!Fields
<1>7. /\ Conf!Line' = Conf!Line /\ \A k \in Conf!Line : Conf!Update(k)' = Conf!Update(k)
      /\ Conf!Sizes' = Conf!Sizes /\ Conf!Zooms' = Conf!Zooms /\ Conf!Highlights' = Conf!Highlights
      /\ Conf!QueueOK'
  <2>1. SaveStays  BY <1>1, <1>3 DEF SaveStays
  <2> QED BY <1>0, <1>1, <2>1, LineStays
<1>8. Conf!LineOK'
  BY <1>0, <1>1, <1>7 DEF Conf!LineOK, Conf!Numbered
<1>9. Conf!CopiesOK'
  <2>1. Conf!IsConfig(s2') /\ Conf!Numbered(s2'.hl) /\ s2'.mode = s13
    BY <1>0, <1>1, <1>4, <1>6 DEF Conf!CopiesOK
  <2>2. Conf!Numbered(s2.hl)'  BY <1>1, <2>1 DEF Conf!Numbered
  <2>3. Conf!Numbered(s1.hl)' /\ (s5 # Conf!None => Conf!Numbered(s5.read.hl)') /\ Conf!Numbered(s4.sent.hl)'
    BY <1>0, <1>1, <1>3, <1>5 DEF Conf!CopiesOK, Conf!Numbered
  <2>4. s4'.at = "saved" => \A f \in Conf!Settings \ {"plain"} : s2'[f] = s4'.sent[f]
    BY <1>3, <1>4
  <2> QED BY <1>0, <1>1, <1>3, <1>5, <2>1, <2>2, <2>3, <2>4 DEF Conf!CopiesOK
<1>10. Conf!PagesOK'  BY <1>0, <1>1 DEF Conf!PagesOK, Conf!Numbered
<1>11. ASSUME ~s14' PROVE (Conf!MemoryFollows /\ Conf!HighlightsFollow /\ Conf!SizesFollow)'
  <2>1. Conf!MemoryFollows /\ Conf!HighlightsFollow /\ Conf!SizesFollow  BY <1>0, <1>1, <1>11
  <2>2. s2'.mode = s2.mode  BY <1>4
  <2>3. Conf!MemoryFollows'
    BY <1>1, <1>3, <1>4, <1>5, <2>1, <2>2 DEF Conf!MemoryFollows
  <2>4. Conf!HighlightsFollow'
    <3>1. \A k \in Conf!Highlights : Conf!Update(k)' = Conf!Update(k)  BY <1>7 DEF Conf!Highlights
    <3>2. s2'.hl \in {s2.hl, s4.sent.hl}  BY <1>4, <1>6
    <3> QED BY <1>1, <1>3, <1>7, <2>1, <3>1, <3>2 DEF Conf!HighlightsFollow
  <2>5. Conf!SizesFollow'
    <3>1. \A k \in Conf!Sizes : Conf!Update(k)' = Conf!Update(k)  BY <1>7 DEF Conf!Sizes
    <3>2. \A k \in Conf!Zooms : Conf!Update(k)' = Conf!Update(k)  BY <3>1 DEF Conf!Zooms
    <3>3. s2'.size \in {s2.size, s4.sent.size}  BY <1>4, <1>6
    <3> QED BY <1>1, <1>3, <1>7, <2>1, <3>1, <3>2, <3>3 DEF Conf!SizesFollow
  <2> QED BY <2>3, <2>4, <2>5
<1> QED BY <1>7, <1>8, <1>9, <1>10, <1>11 DEF Conf!KeptInv

\* What the pages and the zoom keys do when a save ends.
LEMMA PagesAfterSave ==
    ASSUME Conf!PagesOK, NEW u, NEW d, DOMAIN d = DOMAIN s7,
           d.pendingHl = s7.pendingHl, d.open = s7.open, d.asked = s7.asked
    PROVE  /\ DOMAIN Conf!AfterSave(d, u) = DOMAIN Conf!NoDraft
           /\ Conf!AfterSave(d, u).open = s7.open /\ Conf!AfterSave(d, u).asked = s7.asked
           /\ Conf!AfterSave(d, u).pendingHl = IF "hl" \in DOMAIN u /\ s7.pendingHl = [next |-> u.hl]
                                          THEN Conf!None ELSE s7.pendingHl
BY DEF Conf!AfterSave, Conf!PagesOK, Conf!NoDraft

LEMMA EndedLine ==
    ASSUME Conf!KeptInv, s4 # Conf!None, s4' = Conf!None, UNCHANGED <<s3, s9>>
    PROVE  Conf!QueueOK' /\ Conf!LineOK'
<1>1. Conf!QueueOK /\ Conf!LineOK  BY DEF Conf!KeptInv
<1>2. Conf!QueueOK' /\ Conf!Line' = Conf!Line \ {0} /\ \A k \in Conf!Line' : Conf!Update(k)' = Conf!Update(k)
  BY <1>1, LineIsServed
<1> QED BY <1>1, <1>2 DEF Conf!LineOK, Conf!Numbered

LEMMA FailsKeeps == ASSUME Conf!KeptInv, Conf!SaveFails PROVE Conf!KeptInv'
<1>0. /\ Conf!QueueOK /\ Conf!LineOK /\ Conf!CopiesOK /\ Conf!PagesOK  BY DEF Conf!KeptInv
<1>1. /\ s4 # Conf!None /\ s4' = Conf!None /\ s7' = Conf!AfterSave(s7, s4.update)
      /\ s8' = Conf!AfterZoom(s4.update, FALSE, s1) /\ s14'
      /\ UNCHANGED <<s1, s2, s3, s5, s6, s9, s10, s13>>
  BY DEF Conf!SaveFails
<1>2. Conf!QueueOK' /\ Conf!LineOK'  BY <1>1, EndedLine
<1>3. Conf!CopiesOK'  BY <1>0, <1>1 DEF Conf!CopiesOK, Conf!Numbered
<1>4. Conf!PagesOK'
  <2>1. DOMAIN s8' = {"target", "pending"}  BY <1>1 DEF Conf!AfterZoom
  <2>2. /\ DOMAIN s7' = DOMAIN Conf!NoDraft
        /\ s7'.open = s7.open /\ s7'.asked = s7.asked
        /\ s7'.pendingHl = Conf!None \/ s7'.pendingHl = s7.pendingHl
    BY <1>0, <1>1, PagesAfterSave
  <2> QED BY <1>0, <1>1, <2>1, <2>2 DEF Conf!PagesOK, Conf!Numbered
<1> QED BY <1>1, <1>2, <1>3, <1>4 DEF Conf!KeptInv

LEMMA SucceedsKeeps == ASSUME Conf!KeptInv, Conf!SaveSucceeds PROVE Conf!KeptInv'
<1>0. /\ Conf!QueueOK /\ Conf!LineOK /\ Conf!CopiesOK /\ Conf!PagesOK
      /\ ~s14 => Conf!MemoryFollows /\ Conf!HighlightsFollow /\ Conf!SizesFollow
  BY DEF Conf!KeptInv
<1>1. /\ s4 # Conf!None /\ s4.at = "saved" /\ ~s4.replaced /\ s4' = Conf!None /\ s1' = s4.sent
      /\ s7' = Conf!AfterSave(Conf!Synced(s7, s4.sent), s4.update)
      /\ s8' = Conf!AfterZoom(s4.update, TRUE, s4.sent)
      /\ UNCHANGED <<s2, s3, s5, s6, s9, s10, s13, s14>>
  BY DEF Conf!SaveSucceeds
<1>2. PICK u : u = s4.update  OBVIOUS
<1>3. /\ Conf!QueueOK' /\ 0 \in Conf!Line /\ Conf!Update(0) = u
      /\ Conf!Line' = Conf!Line \ {0} /\ \A k \in Conf!Line' : Conf!Update(k)' = Conf!Update(k)
      /\ \A k \in Conf!Line : k \in Nat
      /\ Conf!Sizes' = Conf!Sizes \ {0} /\ Conf!Zooms' = Conf!Zooms \ {0} /\ Conf!Highlights' = Conf!Highlights \ {0}
  BY <1>0, <1>1, <1>2, LineIsServed
<1>4. /\ Conf!IsConfig(s4.sent) /\ Conf!Numbered(s4.sent.hl)
      /\ \A f \in DOMAIN u : s4.sent[f] = u[f]
      /\ \A f \in Conf!Settings \ {"plain"} : s2[f] = s4.sent[f]
  BY <1>0, <1>1, <1>2 DEF Conf!CopiesOK
<1>5. {"hl", "size"} \subseteq Conf!Settings \ {"plain"} /\ "mode" \notin Conf!Settings
  BY DEF Conf!Settings, Conf!Fields
<1>6. Conf!LineOK'  BY <1>1, EndedLine
<1>7. Conf!CopiesOK'
  BY <1>0, <1>1, <1>4 DEF Conf!CopiesOK, Conf!Numbered
<1>8. /\ DOMAIN s7' = DOMAIN Conf!NoDraft
      /\ s7'.open = s7.open /\ s7'.asked = s7.asked
      /\ s7'.pendingHl = IF "hl" \in DOMAIN u /\ s7.pendingHl = [next |-> u.hl]
                             THEN Conf!None ELSE s7.pendingHl
  <2>1. PICK d : d = Conf!Synced(s7, s4.sent)  OBVIOUS
  <2>2. DOMAIN d = DOMAIN s7 /\ d.pendingHl = s7.pendingHl
        /\ d.open = s7.open /\ d.asked = s7.asked
    BY <2>1 DEF Conf!Synced
  <2>3. s7' = Conf!AfterSave(d, u)  BY <1>1, <1>2, <2>1
  <2> QED BY <1>0, <2>2, <2>3, PagesAfterSave
<1>9. Conf!PagesOK'
  <2>1. DOMAIN s8' = {"target", "pending"}  BY <1>1 DEF Conf!AfterZoom
  <2>2. s7'.pendingHl = Conf!None \/ s7'.pendingHl = s7.pendingHl  BY <1>8
  <2> QED BY <1>0, <1>1, <1>8, <2>1, <2>2 DEF Conf!PagesOK, Conf!Numbered
<1>10. ASSUME ~s14' PROVE Conf!MemoryFollows'
  <2>1. Conf!MemoryFollows  BY <1>0, <1>1, <1>10
  <2> QED BY <1>1, <2>1 DEF Conf!MemoryFollows
<1>11. ASSUME ~s14' PROVE Conf!HighlightsFollow'
  <2>1. Conf!HighlightsFollow  BY <1>0, <1>1, <1>11
  <2>2. s1'.hl = s4.sent.hl /\ s2'.hl = s4.sent.hl /\ s10' = s10 /\ s4' = Conf!None
    BY <1>1, <1>4, <1>5
  <2>3. CASE s7.pendingHl = Conf!None
    <3>1. Conf!Highlights = {} /\ s10.hl \subseteq s4.sent.hl
      BY <1>1, <2>1, <2>3 DEF Conf!HighlightsFollow
    <3>2. Conf!Highlights' = {} /\ s7'.pendingHl = Conf!None
      BY <1>3, <1>8, <2>3, <3>1
    <3> QED BY <2>2, <3>1, <3>2 DEF Conf!HighlightsFollow
  <2>4. CASE s7.pendingHl # Conf!None
    <3>1. PICK k \in Conf!Highlights :
            /\ Conf!Update(k).hl = s7.pendingHl.next
            /\ \A j \in Conf!Highlights : j < k \/ j = k
            /\ \A j \in Conf!Highlights : j # k => Conf!Update(j).hl # s7.pendingHl.next
      BY <2>1, <2>4 DEF Conf!HighlightsFollow
    <3>2. /\ s10.hl \subseteq s7.pendingHl.next
          /\ s7.pendingHl = [next |-> s7.pendingHl.next]
      BY <1>0, <2>1, <2>4 DEF Conf!HighlightsFollow, Conf!PagesOK
    <3>3. CASE k = 0
      <4>1. "hl" \in DOMAIN u /\ u.hl = s7.pendingHl.next
        BY <1>3, <3>1, <3>3 DEF Conf!Highlights
      <4>2. s7'.pendingHl = Conf!None  BY <1>8, <3>2, <4>1
      <4>3. Conf!Highlights' = {}
        <5>1. \A j \in Conf!Highlights : j \in Nat  BY <1>3 DEF Conf!Highlights
        <5>2. \A j \in Conf!Highlights : j = 0  BY <3>1, <3>3, <5>1
        <5> QED BY <1>3, <5>2
      <4>4. s10.hl \subseteq s4.sent.hl  BY <1>4, <3>2, <4>1
      <4> QED BY <2>2, <4>2, <4>3, <4>4 DEF Conf!HighlightsFollow
    <3>4. CASE k # 0
      <4>1. ~("hl" \in DOMAIN u /\ s7.pendingHl = [next |-> u.hl])
        <5>1. ASSUME "hl" \in DOMAIN u, s7.pendingHl = [next |-> u.hl] PROVE FALSE
          <6>1. 0 \in Conf!Highlights  BY <1>3, <5>1 DEF Conf!Highlights
          <6>2. Conf!Update(0).hl = s7.pendingHl.next  BY <1>3, <5>1
          <6> QED BY <3>1, <3>4, <6>1, <6>2
        <5> QED BY <5>1
      <4>2. s7'.pendingHl = s7.pendingHl  BY <1>8, <4>1
      <4>3. /\ k \in Conf!Highlights'
            /\ \A j \in Conf!Highlights' : j \in Conf!Highlights /\ Conf!Update(j)' = Conf!Update(j)
        BY <1>3, <3>1, <3>4 DEF Conf!Highlights
      <4> QED BY <2>2, <2>4, <3>1, <3>2, <4>2, <4>3 DEF Conf!HighlightsFollow
    <3> QED BY <3>3, <3>4
  <2> QED BY <2>3, <2>4
<1>12. ASSUME ~s14' PROVE Conf!SizesFollow'
  <2>1. Conf!SizesFollow  BY <1>0, <1>1, <1>12
  <2>2. s1'.size = s4.sent.size /\ s2'.size = s4.sent.size /\ s10' = s10 /\ s4' = Conf!None
    BY <1>1, <1>4, <1>5
  <2>3. 0 \in Conf!Zooms <=> "size" \in DOMAIN u /\ "font" \notin DOMAIN u
    BY <1>3 DEF Conf!Zooms, Conf!Sizes
  <2>4. s8'.pending = s8.pending - (IF 0 \in Conf!Zooms THEN 1 ELSE 0)
    BY <1>1, <1>2, <2>3 DEF Conf!AfterZoom
  <2>5. /\ s8'.target = Conf!None \/ s8'.target = s8.target
        /\ s8'.target = Conf!None /\ s8.target # Conf!None => s8'.pending = 0
    BY <1>1 DEF Conf!AfterZoom
  <2>6. IsFiniteSet(Conf!Zooms) /\ Cardinality(Conf!Zooms) \in Nat /\ s8.pending = Cardinality(Conf!Zooms)
    BY <1>0, <2>1, ZoomsAreFinite, FS_CardinalityType, CountIsCardinality DEF Conf!SizesFollow
  <2>7. s8'.pending = Cardinality(Conf!Zooms') /\ (s8'.pending = 0 <=> Conf!Zooms' = {})
    <3>1. Cardinality(Conf!Zooms \ {0})
            = IF 0 \in Conf!Zooms THEN Cardinality(Conf!Zooms) - 1 ELSE Cardinality(Conf!Zooms)
      BY <2>6, FS_RemoveElement
    <3>2. s8'.pending = Cardinality(Conf!Zooms')  BY <1>3, <2>4, <2>6, <3>1
    <3>3. IsFiniteSet(Conf!Zooms')  BY <1>3, <2>6, FS_RemoveElement
    <3>4. Cardinality(Conf!Zooms') = 0 <=> Conf!Zooms' = {}  BY <3>3, FS_EmptySet
    <3> QED BY <3>2, <3>4
  <2>8. s8'.pending = Conf!Cardinality(Conf!Zooms')  BY <2>7, CountIsCardinality
  <2>9. s8'.target # Conf!None => s8'.target = [size |-> s10'.size]
    BY <2>1, <2>2, <2>5 DEF Conf!SizesFollow
  <2>10. CASE Conf!Zooms = {}
    <3>1. /\ \A k \in Conf!Sizes : Conf!Update(k).size = s10.size
          /\ s4.sent.size = s10.size
      BY <1>1, <2>1, <2>10 DEF Conf!SizesFollow
    <3>2. \A k \in Conf!Sizes' : Conf!Update(k)'.size = s10.size
      BY <1>3, <3>1 DEF Conf!Sizes
    <3>3. Conf!Zooms' = {}  BY <1>3, <2>10
    <3> QED BY <2>2, <2>8, <2>9, <3>1, <3>2, <3>3 DEF Conf!SizesFollow
  <2>11. CASE Conf!Zooms # {}
    <3>1. PICK k \in Conf!Zooms : Conf!Update(k).size = s10.size /\ \A j \in Conf!Sizes : j <= k
      BY <2>1, <2>11 DEF Conf!SizesFollow
    <3>2. s8.target # Conf!None  BY <2>1, <2>11 DEF Conf!SizesFollow
    <3>3. CASE k = 0
      <4>1. \A j \in Conf!Sizes : j = 0
        <5>1. \A j \in Conf!Sizes : j \in Nat  BY <1>3 DEF Conf!Sizes
        <5> QED BY <3>1, <3>3, <5>1
      <4>2. Conf!Sizes' = {} /\ Conf!Zooms' = {}
        <5>1. Conf!Sizes' = {}  BY <1>3, <4>1
        <5> QED BY <5>1 DEF Conf!Zooms
      <4>3. "size" \in DOMAIN u /\ u.size = s10.size  BY <1>3, <2>3, <3>1, <3>3
      <4>4. s4.sent.size = s10.size  BY <1>4, <4>3
      <4> QED BY <2>2, <2>8, <2>9, <4>2, <4>4 DEF Conf!SizesFollow
    <3>4. CASE k # 0
      <4>1. k \in Conf!Zooms' /\ Conf!Update(k)' = Conf!Update(k)  BY <1>3, <3>1, <3>4 DEF Conf!Zooms, Conf!Sizes
      <4>2. \A j \in Conf!Sizes' : j <= k  BY <1>3, <3>1
      <4>3. s8'.target # Conf!None  BY <2>5, <2>7, <3>2, <4>1
      <4> QED BY <2>2, <2>8, <2>9, <3>1, <4>1, <4>2, <4>3 DEF Conf!SizesFollow
    <3> QED BY <3>3, <3>4
  <2> QED BY <2>10, <2>11
<1> QED BY <1>3, <1>6, <1>7, <1>9, <1>10, <1>11, <1>12 DEF Conf!KeptInv

-----------------------------------------------------------------------------
(* The settings: what replaces the configuration outside the queue.     *)

LEMMA AsideLine ==
    ASSUME Conf!KeptInv, UNCHANGED <<s3, s9>>, SaveStays
    PROVE  /\ Conf!QueueOK' /\ Conf!LineOK'
           /\ Conf!Sizes' = Conf!Sizes /\ Conf!Zooms' = Conf!Zooms /\ Conf!Highlights' = Conf!Highlights
           /\ \A k \in Conf!Line : Conf!Update(k)' = Conf!Update(k)
           /\ \A k \in Conf!Sizes : Conf!Update(k)' = Conf!Update(k)
           /\ \A k \in Conf!Zooms : Conf!Update(k)' = Conf!Update(k)
           /\ \A k \in Conf!Highlights : Conf!Update(k)' = Conf!Update(k)
<1>1. Conf!QueueOK /\ Conf!LineOK  BY DEF Conf!KeptInv
<1>2. /\ Conf!Line' = Conf!Line /\ \A k \in Conf!Line : Conf!Update(k)' = Conf!Update(k)
      /\ Conf!Sizes' = Conf!Sizes /\ Conf!Zooms' = Conf!Zooms /\ Conf!Highlights' = Conf!Highlights
      /\ Conf!QueueOK'
  BY <1>1, LineStays
<1>3. Conf!LineOK'  BY <1>1, <1>2 DEF Conf!LineOK, Conf!Numbered
<1>4. \A k \in Conf!Sizes \cup Conf!Highlights : Conf!Update(k)' = Conf!Update(k)
  BY <1>2 DEF Conf!Sizes, Conf!Highlights
<1>5. Conf!Zooms \subseteq Conf!Sizes  BY DEF Conf!Zooms
<1> QED BY <1>2, <1>3, <1>4, <1>5

LEMMA SyncKeeps == ASSUME Conf!KeptInv, Conf!SyncApplies PROVE Conf!KeptInv'
<1>0. /\ Conf!CopiesOK /\ Conf!PagesOK
      /\ ~s14 => Conf!MemoryFollows /\ Conf!HighlightsFollow /\ Conf!SizesFollow
  BY DEF Conf!KeptInv
<1>1. /\ s5 = Conf!None /\ s2' = [s2 EXCEPT !.plain = 100]
      /\ s5' = [at |-> "asked", old |-> FALSE, read |-> s2]
      /\ UNCHANGED <<s1, s3, s4, s6, s7, s8, s9, s10, s13, s14>>
  BY DEF Conf!SyncApplies
<1>2. SaveStays  BY <1>1 DEF SaveStays
<1>3. /\ Conf!QueueOK' /\ Conf!LineOK'
      /\ Conf!Sizes' = Conf!Sizes /\ Conf!Zooms' = Conf!Zooms /\ Conf!Highlights' = Conf!Highlights
      /\ \A k \in Conf!Sizes : Conf!Update(k)' = Conf!Update(k)
      /\ \A k \in Conf!Zooms : Conf!Update(k)' = Conf!Update(k)
      /\ \A k \in Conf!Highlights : Conf!Update(k)' = Conf!Update(k)
  BY <1>1, <1>2, AsideLine
<1>4. /\ Conf!IsConfig(s2') /\ s2'.mode = s2.mode /\ s2'.hl = s2.hl /\ s2'.size = s2.size
      /\ \A f \in Conf!Settings \ {"plain"} : s2'[f] = s2[f]
  <2>1. s2 = [f \in Conf!Fields |-> s2[f]]  BY <1>0 DEF Conf!CopiesOK, Conf!IsConfig
  <2> QED BY <1>1, <2>1 DEF Conf!IsConfig, Conf!Settings, Conf!Fields
<1>5. /\ DOMAIN s5' = {"at", "old", "read"} /\ s5'.old = FALSE /\ s5'.read = s2
      /\ s5'.at = "asked" /\ s5' # Conf!None
  BY <1>1 DEF Conf!None
<1>6. Conf!CopiesOK'
  <2>1. (Conf!Numbered(s2.hl) /\ Conf!Numbered(s1.hl) /\ Conf!Numbered(s5.read.hl))'
    BY <1>0, <1>1, <1>4, <1>5 DEF Conf!CopiesOK, Conf!Numbered
  <2>2. s4 # Conf!None => Conf!Numbered(s4.sent.hl)'
    BY <1>0, <1>1 DEF Conf!CopiesOK, Conf!Numbered
  <2> QED BY <1>0, <1>1, <1>4, <1>5, <2>1, <2>2 DEF Conf!CopiesOK
<1>7. Conf!PagesOK'  BY <1>0, <1>1 DEF Conf!PagesOK, Conf!Numbered
<1>8. ASSUME ~s14' PROVE (Conf!MemoryFollows /\ Conf!HighlightsFollow /\ Conf!SizesFollow)'
  <2>1. Conf!HighlightsFollow /\ Conf!SizesFollow  BY <1>0, <1>1, <1>8
  <2>2. Conf!MemoryFollows'  BY <1>5 DEF Conf!MemoryFollows
  <2>3. Conf!HighlightsFollow'  BY <1>1, <1>3, <1>4, <2>1 DEF Conf!HighlightsFollow
  <2>4. Conf!SizesFollow'  BY <1>1, <1>3, <1>4, <2>1 DEF Conf!SizesFollow
  <2> QED BY <2>2, <2>3, <2>4
<1> QED BY <1>3, <1>6, <1>7, <1>8 DEF Conf!KeptInv

LEMMA LoadsKeeps == ASSUME Conf!KeptInv, Conf!BackendLoads PROVE Conf!KeptInv'
<1>0. /\ Conf!CopiesOK /\ Conf!PagesOK
      /\ ~s14 => Conf!MemoryFollows /\ Conf!HighlightsFollow /\ Conf!SizesFollow
  BY DEF Conf!KeptInv
<1>1. /\ s5 # Conf!None /\ s5.at = "asked"
      /\ \/ s5' = [s5 EXCEPT !.at = "read", !.read = s2]
         \/ s5' = [s5 EXCEPT !.at = "failed"]
      /\ UNCHANGED <<s1, s2, s3, s4, s6, s7, s8, s9, s10, s13, s14>>
  BY DEF Conf!BackendLoads
<1>2. SaveStays  BY <1>1 DEF SaveStays
<1>3. /\ Conf!QueueOK' /\ Conf!LineOK'
      /\ Conf!Sizes' = Conf!Sizes /\ Conf!Zooms' = Conf!Zooms /\ Conf!Highlights' = Conf!Highlights
      /\ \A k \in Conf!Sizes : Conf!Update(k)' = Conf!Update(k)
      /\ \A k \in Conf!Zooms : Conf!Update(k)' = Conf!Update(k)
      /\ \A k \in Conf!Highlights : Conf!Update(k)' = Conf!Update(k)
  BY <1>1, <1>2, AsideLine
<1>4. /\ DOMAIN s5' = {"at", "old", "read"} /\ s5' # Conf!None /\ s5'.old \in BOOLEAN
      /\ s5'.read \in {s5.read, s2} /\ s5'.at = "read" => s5'.read = s2
  BY <1>0, <1>1 DEF Conf!CopiesOK, Conf!None
<1>5. Conf!CopiesOK'
  <2>1. /\ Conf!Numbered(s5'.read.hl) /\ Conf!IsConfig(s5'.read)  BY <1>0, <1>1, <1>4 DEF Conf!CopiesOK
  <2>2. (Conf!Numbered(s2.hl) /\ Conf!Numbered(s1.hl) /\ Conf!Numbered(s5.read.hl))'
    BY <1>0, <1>1, <2>1 DEF Conf!CopiesOK, Conf!Numbered
  <2>3. s4 # Conf!None => Conf!Numbered(s4.sent.hl)'
    BY <1>0, <1>1 DEF Conf!CopiesOK, Conf!Numbered
  <2> QED BY <1>0, <1>1, <1>4, <2>1, <2>2, <2>3 DEF Conf!CopiesOK
<1>6. Conf!PagesOK'  BY <1>0, <1>1 DEF Conf!PagesOK, Conf!Numbered
<1>7. ASSUME ~s14' PROVE (Conf!MemoryFollows /\ Conf!HighlightsFollow /\ Conf!SizesFollow)'
  <2>1. Conf!HighlightsFollow /\ Conf!SizesFollow  BY <1>0, <1>1, <1>7
  <2>2. Conf!MemoryFollows'  BY <1>4 DEF Conf!MemoryFollows
  <2>3. Conf!HighlightsFollow'  BY <1>1, <1>3, <2>1 DEF Conf!HighlightsFollow
  <2>4. Conf!SizesFollow'  BY <1>1, <1>3, <2>1 DEF Conf!SizesFollow
  <2> QED BY <2>2, <2>3, <2>4
<1> QED BY <1>3, <1>5, <1>6, <1>7 DEF Conf!KeptInv

\* A configuration put in the place of the one in memory.
LEMMA ReplacedSave ==
    ASSUME Conf!KeptInv, NEW config, Conf!Replace(config)
    PROVE  /\ s1' = config /\ SaveStays
           /\ s4 = Conf!None <=> s4' = Conf!None
           /\ s4 # Conf!None =>
                /\ s4'.sent = s4.sent /\ s4'.update = s4.update /\ s4'.at = s4.at
                /\ s4'.replaced = TRUE /\ DOMAIN s4' = {"update", "sent", "at", "replaced"}
           /\ DOMAIN s8' = {"target", "pending"} /\ s8'.pending = s8.pending
           /\ s8'.target = Conf!None \/ s8'.target = s8.target
           /\ config.size = s1.size \/ s8.pending # 0 => s8' = s8
<1>1. Conf!CopiesOK /\ Conf!PagesOK  BY DEF Conf!KeptInv
<1>2. s4 # Conf!None => DOMAIN s4 = {"update", "sent", "at", "replaced"}  BY <1>1 DEF Conf!CopiesOK
<1>3. s1' = config /\ s4' = IF s4 = Conf!None THEN Conf!None ELSE [s4 EXCEPT !.replaced = TRUE]
  BY DEF Conf!Replace
<1>4. /\ s4 = Conf!None <=> s4' = Conf!None
      /\ s4 # Conf!None =>
           /\ s4'.sent = s4.sent /\ s4'.update = s4.update /\ s4'.at = s4.at
           /\ s4'.replaced = TRUE /\ DOMAIN s4' = {"update", "sent", "at", "replaced"}
  BY <1>2, <1>3 DEF Conf!None
<1>5. DOMAIN s8 = {"target", "pending"}  BY <1>1 DEF Conf!PagesOK
<1>6. s8' = IF config.size # s1.size /\ s8.pending = 0 THEN [s8 EXCEPT !.target = Conf!None] ELSE s8
  BY DEF Conf!Replace
<1>7. /\ DOMAIN s8' = {"target", "pending"} /\ s8'.pending = s8.pending
      /\ s8'.target = Conf!None \/ s8'.target = s8.target
      /\ config.size = s1.size \/ s8.pending # 0 => s8' = s8
  BY <1>5, <1>6
<1>8. SaveStays  BY <1>4 DEF SaveStays
<1> QED BY <1>3, <1>4, <1>7, <1>8

LEMMA ReloadKeeps == ASSUME Conf!KeptInv, Conf!LoadConfig PROVE Conf!KeptInv'
<1>0. /\ Conf!QueueOK /\ Conf!CopiesOK /\ Conf!PagesOK
      /\ ~s14 => Conf!MemoryFollows /\ Conf!HighlightsFollow /\ Conf!SizesFollow
  BY DEF Conf!KeptInv
<1>1. PICK config : config = IF s5.at = "read" THEN s5.read ELSE Conf!defaultConfig
  OBVIOUS
<1>2. /\ s5 # Conf!None /\ Conf!Replace(config) /\ s7' = Conf!Synced(s7, config)
      /\ s14' = (s14 \/ s5.old \/ s5.at = "failed") /\ s5' = Conf!None
      /\ s5.at \in {"read", "failed"}
      /\ UNCHANGED <<s2, s3, s6, s9, s10, s13>>
  BY <1>1 DEF Conf!LoadConfig
<1>3. /\ s1' = config /\ SaveStays
      /\ s4 = Conf!None <=> s4' = Conf!None
      /\ s4 # Conf!None =>
           /\ s4'.sent = s4.sent /\ s4'.update = s4.update /\ s4'.at = s4.at
           /\ s4'.replaced = TRUE /\ DOMAIN s4' = {"update", "sent", "at", "replaced"}
      /\ DOMAIN s8' = {"target", "pending"} /\ s8'.pending = s8.pending
      /\ s8'.target = Conf!None \/ s8'.target = s8.target
      /\ s8.pending # 0 => s8' = s8
  BY <1>2, ReplacedSave
<1>4. /\ Conf!QueueOK' /\ Conf!LineOK'
      /\ Conf!Sizes' = Conf!Sizes /\ Conf!Zooms' = Conf!Zooms /\ Conf!Highlights' = Conf!Highlights
      /\ \A k \in Conf!Sizes : Conf!Update(k)' = Conf!Update(k)
      /\ \A k \in Conf!Zooms : Conf!Update(k)' = Conf!Update(k)
      /\ \A k \in Conf!Highlights : Conf!Update(k)' = Conf!Update(k)
  BY <1>2, <1>3, AsideLine
<1>5. Conf!IsConfig(config) /\ Conf!Numbered(config.hl)
  <2>1. Conf!IsConfig(s5.read) /\ Conf!Numbered(s5.read.hl)  BY <1>0, <1>2 DEF Conf!CopiesOK
  <2>2. Conf!IsConfig(Conf!defaultConfig)  BY DEF Conf!IsConfig, Conf!defaultConfig, Conf!Fields
  <2>3. Conf!Numbered(Conf!defaultConfig.hl)  BY DEF Conf!Numbered, Conf!defaultConfig
  <2> QED BY <1>1, <2>1, <2>2, <2>3
<1>6. Conf!CopiesOK'
  <2>1. (Conf!Numbered(s2.hl) /\ Conf!Numbered(s1.hl))'
    BY <1>0, <1>2, <1>3, <1>5 DEF Conf!CopiesOK, Conf!Numbered
  <2>2. s4' # Conf!None => Conf!Numbered(s4'.sent.hl) /\ Conf!IsConfig(s4'.sent)
    BY <1>0, <1>3 DEF Conf!CopiesOK
  <2>3. s4' # Conf!None => Conf!Numbered(s4.sent.hl)'
    BY <1>2, <2>2 DEF Conf!Numbered
  <2>4. s4' # Conf!None =>
          /\ \A f \in DOMAIN s4'.update : s4'.sent[f] = s4'.update[f]
          /\ s4'.at = "saved" => \A f \in Conf!Settings \ {"plain"} : s2'[f] = s4'.sent[f]
    BY <1>0, <1>2, <1>3 DEF Conf!CopiesOK
  <2>5. /\ s9' \in Nat /\ Conf!IsConfig(s1') /\ Conf!IsConfig(s2') /\ s2'.mode = s13'
        /\ s6' # Conf!None => s6'.mode = s13'
        /\ s5' = Conf!None
    BY <1>0, <1>2, <1>3, <1>5 DEF Conf!CopiesOK
  <2> QED BY <1>3, <2>1, <2>2, <2>3, <2>4, <2>5 DEF Conf!CopiesOK
<1>7. /\ DOMAIN s7' = DOMAIN s7 /\ s7'.pendingHl = s7.pendingHl
      /\ s7'.open = s7.open /\ s7'.asked = s7.asked
  BY <1>2 DEF Conf!Synced
<1>8. Conf!PagesOK'  BY <1>0, <1>2, <1>3, <1>7 DEF Conf!PagesOK, Conf!Numbered
<1>9. ASSUME ~s14' PROVE (Conf!MemoryFollows /\ Conf!HighlightsFollow /\ Conf!SizesFollow)'
  <2>1. Conf!MemoryFollows /\ Conf!HighlightsFollow /\ Conf!SizesFollow  BY <1>0, <1>2, <1>9
  <2>2. s1' = s2
    <3>1. s5.at = "read" /\ ~s5.old  BY <1>2, <1>9
    <3> QED BY <1>0, <1>1, <1>2, <1>3, <3>1 DEF Conf!CopiesOK
  <2>3. Conf!MemoryFollows'  BY <1>2, <1>3, <2>2 DEF Conf!MemoryFollows
  <2>4. Conf!HighlightsFollow'
    <3>1. CASE s7.pendingHl = Conf!None
      BY <1>2, <1>3, <1>4, <1>7, <2>1, <2>2, <3>1 DEF Conf!HighlightsFollow
    <3>2. CASE s7.pendingHl # Conf!None
      BY <1>2, <1>4, <1>7, <2>1, <3>2 DEF Conf!HighlightsFollow
    <3> QED BY <3>1, <3>2
  <2>5. Conf!SizesFollow'
    <3>1. s8'.pending = Conf!Cardinality(Conf!Zooms')  BY <1>3, <1>4, <2>1 DEF Conf!SizesFollow
    <3>2. s8'.target # Conf!None => s8'.target = [size |-> s10'.size]
      BY <1>2, <1>3, <2>1 DEF Conf!SizesFollow
    <3>3. CASE Conf!Zooms = {}
      <4>1. /\ \A k \in Conf!Sizes : Conf!Update(k).size = s10.size
            /\ s2.size = s10.size
            /\ s4 # Conf!None => s4.sent.size = s10.size
        BY <2>1, <3>3 DEF Conf!SizesFollow
      <4> QED BY <1>2, <1>3, <1>4, <2>2, <3>1, <3>2, <3>3, <4>1 DEF Conf!SizesFollow
    <3>4. CASE Conf!Zooms # {}
      <4>1. IsFiniteSet(Conf!Zooms)  BY <1>0, ZoomsAreFinite
      <4>2. Cardinality(Conf!Zooms) # 0  BY <3>4, <4>1, FS_EmptySet
      <4>3. s8' = s8  BY <1>3, <2>1, <4>2, CountIsCardinality DEF Conf!SizesFollow
      <4> QED BY <1>2, <1>4, <2>1, <3>1, <3>2, <3>4, <4>3 DEF Conf!SizesFollow
    <3> QED BY <3>3, <3>4
  <2> QED BY <2>3, <2>4, <2>5
<1> QED BY <1>4, <1>6, <1>8, <1>9 DEF Conf!KeptInv

LEMMA ModeKeeps == ASSUME Conf!KeptInv, Conf!SetSecretStorageMode PROVE Conf!KeptInv'
<1>0. /\ Conf!CopiesOK /\ Conf!PagesOK
      /\ ~s14 => Conf!MemoryFollows /\ Conf!HighlightsFollow /\ Conf!SizesFollow
  BY DEF Conf!KeptInv
<1>1. /\ s13' = s13 + 1 /\ s2' = [s2 EXCEPT !.mode = s13 + 1]
      /\ s6' = [mode |-> s13 + 1]
      /\ s5' = IF s5 # Conf!None /\ s5.at = "read" THEN [s5 EXCEPT !.old = TRUE] ELSE s5
      /\ UNCHANGED <<s1, s3, s4, s7, s8, s9, s10, s14>>
  BY DEF Conf!SetSecretStorageMode
<1>2. SaveStays  BY <1>1 DEF SaveStays
<1>3. /\ Conf!QueueOK' /\ Conf!LineOK'
      /\ Conf!Sizes' = Conf!Sizes /\ Conf!Zooms' = Conf!Zooms /\ Conf!Highlights' = Conf!Highlights
      /\ \A k \in Conf!Sizes : Conf!Update(k)' = Conf!Update(k)
      /\ \A k \in Conf!Zooms : Conf!Update(k)' = Conf!Update(k)
      /\ \A k \in Conf!Highlights : Conf!Update(k)' = Conf!Update(k)
  BY <1>1, <1>2, AsideLine
<1>4. /\ Conf!IsConfig(s2') /\ s2'.mode = s13' /\ s2'.hl = s2.hl /\ s2'.size = s2.size
      /\ \A f \in Conf!Settings : s2'[f] = s2[f]
  <2>1. s2 = [f \in Conf!Fields |-> s2[f]]  BY <1>0 DEF Conf!CopiesOK, Conf!IsConfig
  <2> QED BY <1>1, <2>1 DEF Conf!IsConfig, Conf!Settings, Conf!Fields
<1>5. s6' # Conf!None /\ s6'.mode = s13'  BY <1>1 DEF Conf!None
<1>6. /\ s5' = Conf!None <=> s5 = Conf!None
      /\ s5 # Conf!None =>
           /\ DOMAIN s5' = {"at", "old", "read"} /\ s5'.old \in BOOLEAN
           /\ s5'.read = s5.read
           /\ s5'.at = "read" => s5'.old
  BY <1>0, <1>1 DEF Conf!CopiesOK, Conf!None
<1>7. Conf!CopiesOK'
  <2>1. (Conf!Numbered(s2.hl) /\ Conf!Numbered(s1.hl))'
    BY <1>0, <1>1, <1>4 DEF Conf!CopiesOK, Conf!Numbered
  <2>2. s5 # Conf!None => Conf!Numbered(s5.read.hl)'
    BY <1>0, <1>1, <1>6 DEF Conf!CopiesOK, Conf!Numbered
  <2>3. s4 # Conf!None => Conf!Numbered(s4.sent.hl)'
    BY <1>0, <1>1 DEF Conf!CopiesOK, Conf!Numbered
  <2> QED BY <1>0, <1>1, <1>4, <1>5, <1>6, <2>1, <2>2, <2>3 DEF Conf!CopiesOK
<1>8. Conf!PagesOK'  BY <1>0, <1>1 DEF Conf!PagesOK, Conf!Numbered
<1>9. ASSUME ~s14' PROVE (Conf!MemoryFollows /\ Conf!HighlightsFollow /\ Conf!SizesFollow)'
  <2>1. Conf!MemoryFollows /\ Conf!HighlightsFollow /\ Conf!SizesFollow  BY <1>0, <1>1, <1>9
  <2>2. Conf!MemoryFollows'  BY <1>1, <1>4, <1>5, <1>6, <2>1 DEF Conf!MemoryFollows
  <2>3. Conf!HighlightsFollow'  BY <1>1, <1>3, <1>4, <2>1 DEF Conf!HighlightsFollow
  <2>4. Conf!SizesFollow'  BY <1>1, <1>3, <1>4, <2>1 DEF Conf!SizesFollow
  <2> QED BY <2>2, <2>3, <2>4
<1> QED BY <1>3, <1>7, <1>8, <1>9 DEF Conf!KeptInv

LEMMA StatusKeeps == ASSUME Conf!KeptInv, Conf!ApplySecretStatus PROVE Conf!KeptInv'
<1>0. /\ Conf!CopiesOK /\ Conf!PagesOK
      /\ ~s14 => Conf!MemoryFollows /\ Conf!HighlightsFollow /\ Conf!SizesFollow
  BY DEF Conf!KeptInv
<1>1. PICK config : config = [s1 EXCEPT !.mode = s6.mode]  OBVIOUS
<1>2. /\ s6 # Conf!None /\ Conf!Replace(config) /\ s6' = Conf!None
      /\ UNCHANGED <<s2, s3, s5, s7, s9, s10, s13, s14>>
  BY <1>1 DEF Conf!ApplySecretStatus
<1>3. /\ Conf!IsConfig(config) /\ config.mode = s6.mode /\ config.hl = s1.hl /\ config.size = s1.size
      /\ \A f \in Conf!Settings : config[f] = s1[f]
  <2>1. s1 = [f \in Conf!Fields |-> s1[f]]  BY <1>0 DEF Conf!CopiesOK, Conf!IsConfig
  <2> QED BY <1>1, <2>1 DEF Conf!IsConfig, Conf!Settings, Conf!Fields
<1>4. /\ s1' = config /\ SaveStays
      /\ s4 = Conf!None <=> s4' = Conf!None
      /\ s4 # Conf!None =>
           /\ s4'.sent = s4.sent /\ s4'.update = s4.update /\ s4'.at = s4.at
           /\ s4'.replaced = TRUE /\ DOMAIN s4' = {"update", "sent", "at", "replaced"}
      /\ s8' = s8
  BY <1>2, <1>3, ReplacedSave
<1>5. /\ Conf!QueueOK' /\ Conf!LineOK'
      /\ Conf!Sizes' = Conf!Sizes /\ Conf!Zooms' = Conf!Zooms /\ Conf!Highlights' = Conf!Highlights
      /\ \A k \in Conf!Sizes : Conf!Update(k)' = Conf!Update(k)
      /\ \A k \in Conf!Zooms : Conf!Update(k)' = Conf!Update(k)
      /\ \A k \in Conf!Highlights : Conf!Update(k)' = Conf!Update(k)
  BY <1>2, <1>4, AsideLine
<1>6. Conf!CopiesOK'
  <2>1. (Conf!Numbered(s2.hl) /\ Conf!Numbered(s1.hl))'
    BY <1>0, <1>2, <1>3, <1>4 DEF Conf!CopiesOK, Conf!Numbered
  <2>2. s5 # Conf!None => Conf!Numbered(s5.read.hl)'
    BY <1>0, <1>2 DEF Conf!CopiesOK, Conf!Numbered
  <2>3. s4' # Conf!None => Conf!Numbered(s4'.sent.hl) /\ Conf!IsConfig(s4'.sent)
    BY <1>0, <1>4 DEF Conf!CopiesOK
  <2>4. s4' # Conf!None => Conf!Numbered(s4.sent.hl)'
    BY <1>2, <2>3 DEF Conf!Numbered
  <2>5. s4' # Conf!None =>
          /\ \A f \in DOMAIN s4'.update : s4'.sent[f] = s4'.update[f]
          /\ s4'.at = "saved" => \A f \in Conf!Settings \ {"plain"} : s2'[f] = s4'.sent[f]
    BY <1>0, <1>2, <1>4 DEF Conf!CopiesOK
  <2> QED BY <1>0, <1>2, <1>3, <1>4, <2>1, <2>2, <2>3, <2>4, <2>5 DEF Conf!CopiesOK
<1>7. Conf!PagesOK'  BY <1>0, <1>2, <1>4 DEF Conf!PagesOK, Conf!Numbered
<1>8. ASSUME ~s14' PROVE (Conf!MemoryFollows /\ Conf!HighlightsFollow /\ Conf!SizesFollow)'
  <2>1. Conf!MemoryFollows /\ Conf!HighlightsFollow /\ Conf!SizesFollow  BY <1>0, <1>2, <1>8
  <2>2. s1'.mode = s2'.mode  BY <1>0, <1>2, <1>3, <1>4 DEF Conf!CopiesOK
  <2>3. Conf!MemoryFollows'  BY <1>2, <1>3, <1>4, <2>1, <2>2 DEF Conf!MemoryFollows
  <2>4. Conf!HighlightsFollow'
    <3>1. CASE s7.pendingHl = Conf!None
      BY <1>2, <1>3, <1>4, <1>5, <2>1, <3>1 DEF Conf!HighlightsFollow
    <3>2. CASE s7.pendingHl # Conf!None
      BY <1>2, <1>5, <2>1, <3>2 DEF Conf!HighlightsFollow
    <3> QED BY <3>1, <3>2
  <2>5. Conf!SizesFollow'
    BY <1>2, <1>3, <1>4, <1>5, <2>1 DEF Conf!SizesFollow
  <2> QED BY <2>3, <2>4, <2>5
<1> QED BY <1>5, <1>6, <1>7, <1>8 DEF Conf!KeptInv

-----------------------------------------------------------------------------
(* The settings: the invariant of a whole behaviour.                       *)

LEMMA SettingsInit == Conf!Init => Conf!KeptInv
<1> SUFFICES ASSUME Conf!Init PROVE Conf!KeptInv
  OBVIOUS
<1>1. /\ s1 = Conf!defaultConfig /\ s2 = Conf!defaultConfig /\ s3 = <<>> /\ s4 = Conf!None
      /\ s5 = Conf!None /\ s6 = Conf!None /\ s7 = Conf!NoDraft
      /\ s8 = [target |-> Conf!None, pending |-> 0] /\ s9 = 0 /\ s10 = [hl |-> {}, size |-> 0]
      /\ s13 = 0
  BY DEF Conf!Init
<1>2. Conf!Line = {} /\ Conf!QueueOK
  BY <1>1 DEF Conf!Line, Conf!QueueOK
<1>3. Conf!Sizes = {} /\ Conf!Zooms = {} /\ Conf!Highlights = {} /\ Conf!LineOK
  BY <1>2 DEF Conf!Sizes, Conf!Zooms, Conf!Highlights, Conf!LineOK
<1>4. /\ Conf!IsConfig(Conf!defaultConfig) /\ Conf!defaultConfig.hl = {} /\ Conf!defaultConfig.mode = 0
      /\ Conf!defaultConfig.size = 0
  BY DEF Conf!IsConfig, Conf!defaultConfig, Conf!Fields
<1>5. Conf!CopiesOK  BY <1>1, <1>4 DEF Conf!CopiesOK, Conf!Numbered
<1>6. Conf!PagesOK  BY <1>1 DEF Conf!PagesOK, Conf!NoDraft
<1>7. Conf!MemoryFollows  BY <1>1 DEF Conf!MemoryFollows
<1>8. Conf!HighlightsFollow  BY <1>1, <1>3, <1>4 DEF Conf!HighlightsFollow, Conf!NoDraft
<1>9. Conf!Cardinality(Conf!Zooms) = 0  BY <1>3, CountIsCardinality, FS_EmptySet
<1>10. Conf!SizesFollow  BY <1>1, <1>3, <1>4, <1>9 DEF Conf!SizesFollow
<1> QED BY <1>1, <1>2, <1>3, <1>5, <1>6, <1>7, <1>8, <1>10 DEF Conf!KeptInv

LEMMA PageStepsKeep ==
    ASSUME Conf!KeptInv,
           \/ Conf!OpenSettings \/ Conf!CloseSettings
           \/ Conf!GeneralChange \/ Conf!NotificationChange \/ Conf!SftpChange \/ Conf!TabChange \/ Conf!LoggingChange
           \/ Conf!UpdateChange \/ Conf!ConnectionChange \/ Conf!AgentChange
           \/ Conf!CommitConnectionNumber \/ Conf!CommitNotificationSeconds \/ Conf!CommitTabWidth
           \/ Conf!CommitEchoThreshold \/ Conf!CommitBandwidth \/ Conf!CommitPromptPatterns
           \/ Conf!CommitLogName \/ Conf!CommitLogLimit
           \/ Conf!ChooseDirectory \/ Conf!DirectoryChosen
           \/ \E on \in BOOLEAN :
                Conf!LogSwitch(on) \/ Conf!LogConfirmed(on) \/ Conf!UpdateBinding(on) \/ Conf!AnswerHighlightSet(on)
           \/ \E v \in {"valid", "same", "bad"} : Conf!CommitPattern(v)
           \/ Conf!AskHighlightSet
           \/ Conf!EditFont \/ Conf!HandleFontSave
           \/ Conf!SavePanes \/ Conf!SaveShell \/ Conf!SaveIcons \/ Conf!FlushIcons \/ Conf!EditHighlight
           \/ \E step \in {-1, 1} : Conf!ZoomBy(step)
    PROVE  Conf!KeptInv'
<1>1. CASE Conf!GeneralChange \/ Conf!NotificationChange \/ Conf!SftpChange \/ Conf!TabChange \/ Conf!LoggingChange
           \/ Conf!UpdateChange \/ Conf!ConnectionChange \/ Conf!AgentChange
  <2>1. Conf!Switch
    BY <1>1 DEF Conf!GeneralChange, Conf!NotificationChange, Conf!SftpChange, Conf!TabChange, Conf!LoggingChange,
                Conf!UpdateChange, Conf!ConnectionChange, Conf!AgentChange
  <2> QED BY <2>1, SwitchesAreQuiet, QuietKeeps
<1>2. CASE Conf!CommitConnectionNumber \/ Conf!CommitNotificationSeconds \/ Conf!CommitTabWidth
           \/ Conf!CommitEchoThreshold \/ Conf!CommitBandwidth \/ Conf!CommitPromptPatterns
           \/ Conf!CommitLogName \/ Conf!CommitLogLimit
  <2>1. \E v : Conf!CommitField(v)
    BY <1>2 DEF Conf!CommitConnectionNumber, Conf!CommitNotificationSeconds, Conf!CommitTabWidth,
                Conf!CommitEchoThreshold, Conf!CommitBandwidth, Conf!CommitPromptPatterns,
                Conf!CommitLogName, Conf!CommitLogLimit
  <2> QED BY <2>1, SwitchesAreQuiet, QuietKeeps
<1>3. CASE \/ Conf!ChooseDirectory \/ Conf!DirectoryChosen \/ Conf!AskHighlightSet
           \/ \E on \in BOOLEAN : Conf!LogSwitch(on) \/ Conf!LogConfirmed(on)
  BY <1>3, DialogsAreQuiet, QuietKeeps
<1>4. CASE Conf!SavePanes \/ Conf!SaveShell \/ \E on \in BOOLEAN : Conf!UpdateBinding(on)
  <2>1. Conf!SavePanes \/ \E on : Conf!UpdateBinding(on)  BY <1>4 DEF Conf!SaveShell
  <2> QED BY <2>1, GroupsAreQuiet, QuietKeeps
<1>5. CASE Conf!OpenSettings \/ Conf!EditFont \/ Conf!SaveIcons \/ Conf!FlushIcons
  BY <1>5, DraftsAreQuiet, QuietKeeps
<1>6. CASE \/ Conf!EditHighlight
           \/ \E v \in {"valid", "same", "bad"} : Conf!CommitPattern(v)
           \/ \E on \in BOOLEAN : Conf!AnswerHighlightSet(on)
  BY <1>6, HighlightStepsKeep
<1>7. CASE Conf!CloseSettings  BY <1>7, CloseKeeps
<1>8. CASE Conf!HandleFontSave  BY <1>8, FontKeeps
<1>9. CASE \E step \in {-1, 1} : Conf!ZoomBy(step)  BY <1>9, ZoomKeeps
<1> QED BY <1>1, <1>2, <1>3, <1>4, <1>5, <1>6, <1>7, <1>8, <1>9

LEMMA SettingsNext ==
    Conf!KeptInv /\ [Conf!Next]_<<s1, s2, s3, s4, s5, s6, s7, s8, s9, s10, s11, s12, s13, s14>>
      => Conf!KeptInv'
<1> SUFFICES ASSUME Conf!KeptInv,
                    \/ Conf!Next
                    \/ UNCHANGED <<s1, s2, s3, s4, s5, s6, s7, s8, s9, s10, s11,
                                   s12, s13, s14>>
             PROVE  Conf!KeptInv'
  OBVIOUS
<1>1. CASE Conf!Next
  BY <1>1, StartKeeps, BackendSavesKeeps, SucceedsKeeps, AgainKeeps, FailsKeeps, SyncKeeps,
     LoadsKeeps, ReloadKeeps, ModeKeeps, StatusKeeps, PageStepsKeep DEF Conf!Next
<1>2. CASE UNCHANGED <<s1, s2, s3, s4, s5, s6, s7, s8, s9, s10, s11,
                       s12, s13, s14>>
  <2>1. Conf!PagesOK  BY DEF Conf!KeptInv
  <2>2. Quiet  BY <1>2, <2>1 DEF Quiet, Conf!PagesOK
  <2> QED BY <2>2, QuietKeeps
<1> QED BY <1>1, <1>2

LEMMA KeptIsEditsKept == Conf!KeptInv => Conf!EditsKept
<1> SUFFICES ASSUME Conf!KeptInv PROVE Conf!EditsKept
  OBVIOUS
<1>1. /\ Conf!CopiesOK /\ (~s14 => Conf!MemoryFollows /\ Conf!HighlightsFollow /\ Conf!SizesFollow)
  BY DEF Conf!KeptInv
<1>2. ASSUME Conf!Idle, ~s14 PROVE s1 = s2 /\ s10.hl \subseteq s1.hl /\ s10.size = s1.size
  <2>1. /\ s3 = <<>> /\ s4 = Conf!None /\ s5 = Conf!None /\ s6 = Conf!None  BY <1>2 DEF Conf!Idle
  <2>2. Conf!Line = {}  BY <2>1 DEF Conf!Line
  <2>3. Conf!Zooms = {} /\ Conf!Highlights = {}  BY <2>2 DEF Conf!Zooms, Conf!Sizes, Conf!Highlights
  <2>4. \A f \in Conf!Settings \cup {"mode"} : s1[f] = s2[f]
    BY <1>1, <1>2, <2>1 DEF Conf!MemoryFollows
  <2>5. \A f \in Conf!Fields : s1[f] = s2[f]  BY <2>4 DEF Conf!Settings
  <2>6. s1 = s2  BY <1>1, <2>5 DEF Conf!CopiesOK, Conf!IsConfig
  <2>7. s10.hl \subseteq s1.hl  BY <1>1, <1>2, <2>3 DEF Conf!HighlightsFollow
  <2>8. s10.size = s1.size  BY <1>1, <1>2, <2>3 DEF Conf!SizesFollow
  <2> QED BY <2>6, <2>7, <2>8
<1>3. s2.mode = s13  BY <1>1 DEF Conf!CopiesOK
<1> QED BY <1>2, <1>3 DEF Conf!EditsKept

-----------------------------------------------------------------------------
(* Every part together.                                                    *)

SavingInv ==
    /\ KeptInv /\ BoundsInv
    /\ part = "settings" => Conf!KeptInv

LEMMA SavingInit == AllInit => SavingInv
<1> SUFFICES ASSUME AllInit PROVE SavingInv
  OBVIOUS
<1>1. KeptInv /\ BoundsInv  BY KeptInit, BoundsInit DEF AllInit
<1>2. part = "settings" => Conf!KeptInv  BY SettingsInit DEF AllInit
<1> QED BY <1>1, <1>2 DEF SavingInv

LEMMA SavingNext == SavingInv /\ [AllNext]_allVars => SavingInv'
<1> SUFFICES ASSUME SavingInv, [AllNext]_allVars PROVE SavingInv'
  OBVIOUS
<1>1. [Next]_vars /\ part' = part
  BY DEF AllNext, allVars
<1>2. KeptInv' /\ BoundsInv'  BY <1>1, KeptNext, BoundsNext DEF SavingInv
<1>3. part = "settings" => [Conf!Next]_<<s1, s2, s3, s4, s5, s6, s7, s8, s9, s10, s11, s12, s13, s14>>
  BY DEF AllNext, allVars, slots
<1>4. part' = "settings" => Conf!KeptInv'
  BY <1>1, <1>3, SettingsNext DEF SavingInv
<1> QED BY <1>2, <1>4 DEF SavingInv

\* Whatever the number of edits, syncs, refused saves and changes of the storage
\* mode: once nothing is under way no edit of the settings is undone, and what a
\* device keeps for the sync stays in its bounds.
THEOREM NoSettingIsLost == AllSpec => []SettingsKept
<1>1. SavingInv => SettingsKept
  BY KeptIsEditsKept, BoundsAreTypes DEF SavingInv, SettingsKept
<1> QED BY <1>1, SavingInit, SavingNext, PTL DEF AllSpec
=============================================================================
