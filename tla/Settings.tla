---------------------------- MODULE Settings ----------------------------
(***************************************************************************)
(* The configuration as the front end keeps it, and the settings pages.    *)
(* `mem' is the configuration in memory (configRef), `disk' the            *)
(* configuration file behind load_config and save_config.  Saves wait in   *)
(* one queue; reloads after a sync and the secret store's answers do not.  *)
(*                                                                         *)
(* One setting of each kind stands for all of its kind:                    *)
(*   plain   written by a switch, a list or a number field;                *)
(*   log     needs a confirmation before it is switched on;                *)
(*   font    edited in a draft and saved with its page;                    *)
(*   size    the terminal's font size, also moved by the zoom keys;        *)
(*   panes   a group saved whole, starting from the saved group;           *)
(*   icons   a group saved whole, after a pause, starting from a draft;    *)
(*   hl      the keyword highlighting, a group saved whole, starting from  *)
(*           the latest edit;                                              *)
(*   mode    where secrets are kept, written only by the secret store.     *)
(* Every edit has a number, and a group's value is the set of its edits.   *)
(***************************************************************************)
EXTENDS Integers, Sequences, FiniteSets

CONSTANTS
    MaxEdits,     \* edits by the user
    MaxEvents,      \* refused saves and loads, syncs and changes of the storage mode, in all
    MaxActs         \* edits and those, in all

None == [none |-> TRUE]

VARIABLES
    mem,       \* configRef.current
    disk,      \* config.json
    queue,     \* updates waiting in configSaveQueueRef
    save,      \* the save under way: its update, what it sent, whether mem was replaced since
    load,      \* the reload under way: what it read, whether the file was written since
    secret,    \* the secret store's command under way
    dialog,    \* the settings pages: drafts, pending edits, the question asked
    zoom,      \* targetRef and pendingSavesRef of the zoom keys
    edits,     \* edits so far
    made,      \* the highlight edits made, and the net zoom asked for
    faults, syncs, modes,    \* refused commands, syncs, changes of the storage mode so far
    crossed    \* a fault, an older reload or an abandoned page came between an edit and its save

vars == <<mem, disk, queue, save, load, secret, dialog, zoom, edits, made,
          faults, syncs, modes, crossed>>

Fields == {"plain", "log", "font", "size", "panes", "icons", "hl", "mode"}

defaultConfig == [plain |-> 0, log |-> FALSE, font |-> 0, size |-> 0, panes |-> {},
                  icons |-> {}, hl |-> {}, mode |-> 0]

NoDraft == [open |-> FALSE, font |-> 0, savingFont |-> FALSE, icons |-> {},
            pendingIcons |-> None, pendingHl |-> None, asked |-> "nothing"]

events == faults + syncs + modes
Happens == events < MaxEvents /\ edits + events < MaxActs
MayEdit == edits < MaxEdits /\ edits + events < MaxActs

Init ==
    /\ mem = defaultConfig /\ disk = defaultConfig
    /\ queue = <<>> /\ save = None /\ load = None /\ secret = None
    /\ dialog = NoDraft
    /\ zoom = [target |-> None, pending |-> 0]
    /\ edits = 0 /\ made = [hl |-> {}, size |-> 0]
    /\ faults = 0 /\ syncs = 0 /\ modes = 0
    /\ crossed = FALSE

-----------------------------------------------------------------------------
(* The save queue.                                                         *)

\* saveConfig: the update waits for the saves before it.
SaveConfig(update) == queue' = Append(queue, update)

\* What a save sends: its update over the configuration as it is now.
Sent(update) == [f \in Fields |-> IF f \in DOMAIN update THEN update[f] ELSE mem[f]]

Running(update) == [update |-> update, sent |-> Sent(update), at |-> "sent", replaced |-> FALSE]

StartSave ==
    /\ save = None /\ queue # <<>>
    /\ save' = Running(Head(queue))
    /\ queue' = Tail(queue)
    /\ UNCHANGED <<mem, disk, load, secret, dialog, zoom, edits, made, faults, syncs, modes, crossed>>

\* The command save_config: the storage mode of the file stays.
Written(config) == [config EXCEPT !.mode = disk.mode]

BackendSaves ==
    /\ save # None /\ save.at = "sent"
    /\ \/ /\ disk' = Written(save.sent)
          /\ save' = [save EXCEPT !.at = "saved"]
          /\ load' = IF load # None /\ load.at = "read" THEN [load EXCEPT !.old = TRUE] ELSE load
          /\ UNCHANGED faults
       \/ /\ Happens
          /\ faults' = faults + 1
          /\ save' = [save EXCEPT !.at = "failed"]
          /\ UNCHANGED <<disk, load>>
    /\ UNCHANGED <<mem, queue, secret, dialog, zoom, edits, made, syncs, modes, crossed>>

\* The drafts that follow the saved value: a normalised configuration holds
\* new objects, so every one of them starts again.
Synced(d, config) == [d EXCEPT !.icons = config.icons]

\* What the pages do when the save of an update ends.
AfterSave(d, update) ==
    [d EXCEPT
        !.savingFont = IF "font" \in DOMAIN update THEN FALSE ELSE @,
        !.pendingHl = IF "hl" \in DOMAIN update /\ @ = [next |-> update.hl] THEN None ELSE @]

\* ... and the zoom keys; the effect on config.font_size drops the target.
AfterZoom(update, ok, config) ==
    LET zoomed == "size" \in DOMAIN update /\ "font" \notin DOMAIN update
        pending == zoom.pending - (IF zoomed THEN 1 ELSE 0)
        starts == pending = 0 /\ ((zoomed /\ ~ok) \/ config.size # mem.size)
    IN  [target |-> IF starts THEN None ELSE zoom.target, pending |-> pending]

SaveSucceeds ==
    /\ save # None /\ save.at = "saved" /\ ~save.replaced
    /\ mem' = save.sent
    /\ save' = None
    /\ dialog' = AfterSave(Synced(dialog, save.sent), save.update)
    /\ zoom' = AfterZoom(save.update, TRUE, save.sent)
    /\ UNCHANGED <<disk, queue, load, secret, edits, made, faults, syncs, modes, crossed>>

SaveAgainUnread ==
    /\ save # None /\ save.at = "saved" /\ save.replaced
    /\ save' = [save EXCEPT !.at = "sent"]
    /\ UNCHANGED <<mem, disk, queue, load, secret, dialog, zoom, edits, made, faults, syncs, modes, crossed>>

\* The configuration changed under the save: once more, over the new one.
SaveAgain ==
    /\ save # None /\ save.at = "saved" /\ save.replaced
    /\ save' = Running(save.update)
    /\ UNCHANGED <<mem, disk, queue, load, secret, dialog, zoom, edits, made, faults, syncs, modes, crossed>>

SaveFails ==
    /\ save # None /\ save.at = "failed"
    /\ save' = None
    /\ dialog' = AfterSave(dialog, save.update)
    /\ zoom' = AfterZoom(save.update, FALSE, mem)
    /\ crossed' = TRUE
    /\ UNCHANGED <<mem, disk, queue, load, secret, edits, made, faults, syncs, modes>>

-----------------------------------------------------------------------------
(* What replaces the configuration outside the queue.                      *)

\* updateConfigState, and the assignments of loadConfig.
Replace(config) ==
    /\ mem' = config
    /\ save' = IF save = None THEN None ELSE [save EXCEPT !.replaced = TRUE]
    /\ zoom' = IF config.size # mem.size /\ zoom.pending = 0 THEN [zoom EXCEPT !.target = None] ELSE zoom

\* The sync engine writes the file and announces "settings".
SyncApplies ==
    /\ Happens /\ load = None
    /\ syncs' = syncs + 1
    /\ disk' = [disk EXCEPT !.plain = 100]
    /\ load' = [at |-> "asked", old |-> FALSE, read |-> disk]
    /\ UNCHANGED <<mem, queue, save, secret, dialog, zoom, edits, made, faults, modes, crossed>>

BackendLoads ==
    /\ load # None /\ load.at = "asked"
    /\ \/ load' = [load EXCEPT !.at = "read", !.read = disk] /\ UNCHANGED faults
       \/ /\ Happens
          /\ faults' = faults + 1
          /\ load' = [load EXCEPT !.at = "failed"]
    /\ UNCHANGED <<mem, disk, queue, save, secret, dialog, zoom, edits, made, syncs, modes, crossed>>

\* loadConfig takes what it read, or the defaults when it could not read.
LoadConfig ==
    /\ load # None /\ load.at \in {"read", "failed"}
    /\ LET config == IF load.at = "read" THEN load.read ELSE defaultConfig
       IN  /\ Replace(config)
           /\ dialog' = Synced(dialog, config)
    /\ crossed' = (crossed \/ load.old \/ load.at = "failed")
    /\ load' = None
    /\ UNCHANGED <<disk, queue, secret, edits, made, faults, syncs, modes>>

\* set_secret_storage_mode writes the mode to the file, then answers.
SetSecretStorageMode ==
    /\ secret = None /\ Happens
    /\ modes' = modes + 1
    /\ disk' = [disk EXCEPT !.mode = modes + 1]
    /\ secret' = [mode |-> modes + 1]
    /\ load' = IF load # None /\ load.at = "read" THEN [load EXCEPT !.old = TRUE] ELSE load
    /\ UNCHANGED <<mem, queue, save, dialog, zoom, edits, made, faults, syncs, crossed>>

ApplySecretStatus ==
    /\ secret # None
    /\ Replace([mem EXCEPT !.mode = secret.mode])
    /\ secret' = None
    /\ UNCHANGED <<disk, queue, load, dialog, edits, made, faults, syncs, modes, crossed>>

-----------------------------------------------------------------------------
(* The settings pages.                                                     *)

\* The pages start from the configuration; the drafts that follow it do so
\* from then on.
OpenSettings ==
    /\ ~dialog.open
    /\ dialog' = [NoDraft EXCEPT !.open = TRUE, !.font = mem.font, !.icons = mem.icons]
    /\ UNCHANGED <<mem, disk, queue, save, load, secret, zoom, edits, made, faults, syncs, modes, crossed>>

\* Leaving a page flushes the icons waiting for their pause; what is asked is dismissed.
CloseSettings ==
    /\ dialog.open
    /\ dialog' = NoDraft
    /\ IF dialog.pendingIcons = None THEN UNCHANGED queue
       ELSE SaveConfig([icons |-> dialog.pendingIcons.next])
    /\ crossed' = (crossed \/ dialog.pendingHl # None)
    /\ UNCHANGED <<mem, disk, save, load, secret, zoom, edits, made, faults, syncs, modes>>

\* An edit by the user, with the number it gets.
Edit(e) == dialog.open /\ dialog.asked = "nothing" /\ MayEdit /\ edits' = edits + 1 /\ e = edits + 1

others == <<mem, disk, save, load, secret, faults, syncs, modes, crossed>>

\* A switch, a list or a button of a page: saved at once.
Switch == \E e \in 1..MaxEdits : Edit(e) /\ SaveConfig([plain |-> e]) /\ UNCHANGED <<dialog, zoom, made>> /\ UNCHANGED others

GeneralChange == Switch
NotificationChange == Switch
SftpChange == Switch
TabChange == Switch
LoggingChange == Switch
UpdateChange == Switch
ConnectionChange == Switch
AgentChange == Switch

\* A number or text field: committed on leaving it, saved only when it is
\* valid and differs from the saved value; otherwise the draft is put back.
CommitField(v) ==
    /\ \E e \in 1..MaxEdits :
        /\ Edit(e)
        /\ IF v = "valid" /\ mem.plain # e THEN SaveConfig([plain |-> e]) ELSE UNCHANGED queue
    /\ UNCHANGED <<dialog, zoom, made>> /\ UNCHANGED others

CommitConnectionNumber == \E v \in {"valid", "same", "nan"} : CommitField(v)
CommitNotificationSeconds == \E v \in {"valid", "same", "nan"} : CommitField(v)
CommitTabWidth == \E v \in {"valid", "same", "nan"} : CommitField(v)
CommitEchoThreshold == \E v \in {"valid", "same", "nan"} : CommitField(v)
CommitBandwidth == \E v \in {"valid", "same", "nan"} : CommitField(v)
CommitPromptPatterns == \E v \in {"valid", "same", "bad"} : CommitField(v)
CommitLogName == \E v \in {"valid", "empty", "long", "deep"} : CommitField(v)
CommitLogLimit == \E v \in {"valid", "same", "range"} : CommitField(v)

\* A directory or a file is chosen in a system dialog first.
ChooseDirectory ==
    /\ dialog.open /\ dialog.asked = "nothing" /\ MayEdit
    /\ dialog' = [dialog EXCEPT !.asked = "directory"]
    /\ UNCHANGED <<queue, zoom, edits, made>> /\ UNCHANGED others

DirectoryChosen ==
    /\ dialog.asked = "directory"
    /\ dialog' = [dialog EXCEPT !.asked = "nothing"]
    /\ \/ edits' = edits + 1 /\ SaveConfig([plain |-> edits + 1])
       \/ UNCHANGED <<queue, edits>>
    /\ UNCHANGED <<zoom, made>> /\ UNCHANGED others

\* Recording terminals, or their input, is confirmed when switched on.
LogSwitch(on) ==
    /\ dialog.open /\ dialog.asked = "nothing" /\ MayEdit
    /\ edits' = edits + 1
    /\ IF on THEN dialog' = [dialog EXCEPT !.asked = "logging"] /\ UNCHANGED queue
             ELSE SaveConfig([log |-> FALSE]) /\ UNCHANGED dialog
    /\ UNCHANGED <<zoom, made>> /\ UNCHANGED others

LogConfirmed(confirmed) ==
    /\ dialog.asked = "logging"
    /\ dialog' = [dialog EXCEPT !.asked = "nothing"]
    /\ IF confirmed THEN SaveConfig([log |-> TRUE]) ELSE UNCHANGED queue
    /\ UNCHANGED <<zoom, edits, made>> /\ UNCHANGED others

\* The terminal page: a draft, saved together; the size follows the zoom keys.
EditFont ==
    /\ \E e \in 1..MaxEdits : Edit(e) /\ dialog' = [dialog EXCEPT !.font = e]
    /\ UNCHANGED <<queue, zoom, made>> /\ UNCHANGED others

HandleFontSave ==
    /\ dialog.open /\ ~dialog.savingFont
    /\ MayEdit /\ edits' = edits + 1
    /\ dialog' = [dialog EXCEPT !.savingFont = TRUE]
    /\ SaveConfig([font |-> dialog.font, size |-> mem.size])
    /\ crossed' = (crossed \/ zoom.pending > 0)
    /\ UNCHANGED <<mem, disk, save, load, secret, zoom, made, faults, syncs, modes>>

\* Groups saved whole.  Panes, shells and keys start from the rendered group.
SavePanes ==
    /\ \E e \in 1..MaxEdits : Edit(e) /\ SaveConfig([panes |-> mem.panes \cup {e}])
    /\ UNCHANGED <<dialog, zoom, made>> /\ UNCHANGED others

SaveShell == SavePanes

\* A recorded chord that collides with another action's is not saved.
UpdateBinding(conflict) ==
    /\ \E e \in 1..MaxEdits :
        /\ Edit(e)
        /\ IF conflict THEN UNCHANGED queue ELSE SaveConfig([panes |-> mem.panes \cup {e}])
    /\ UNCHANGED <<dialog, zoom, made>> /\ UNCHANGED others

\* Icons: the draft changes at once, the save waits for a pause.
SaveIcons ==
    /\ \E e \in 1..MaxEdits :
        /\ Edit(e)
        /\ dialog' = [dialog EXCEPT !.icons = @ \cup {e}, !.pendingIcons = [next |-> dialog.icons \cup {e}]]
    /\ UNCHANGED <<queue, zoom, made>> /\ UNCHANGED others

FlushIcons ==
    /\ dialog.pendingIcons # None
    /\ dialog' = [dialog EXCEPT !.pendingIcons = None]
    /\ SaveConfig([icons |-> dialog.pendingIcons.next])
    /\ UNCHANGED <<zoom, edits, made>> /\ UNCHANGED others

\* Keyword highlighting: an edit starts from the latest edit not yet saved.
SavedHighlight == mem.hl

HighlightBase == IF dialog.pendingHl # None THEN dialog.pendingHl.next ELSE mem.hl

HighlightSaved(e) ==
    LET next == HighlightBase \cup {e}
    IN  /\ dialog' = [dialog EXCEPT !.pendingHl = [next |-> next], !.asked = "nothing"]
        /\ SaveConfig([hl |-> next])
        /\ made' = [made EXCEPT !.hl = @ \cup {e}]

EditHighlight ==
    /\ \E e \in 1..MaxEdits : Edit(e) /\ HighlightSaved(e)
    /\ UNCHANGED zoom /\ UNCHANGED others

\* A rule's pattern is kept only when it changed and compiles.
CommitPattern(v) ==
    /\ \E e \in 1..MaxEdits :
        Edit(e) /\ (IF v = "valid" THEN HighlightSaved(e) ELSE UNCHANGED <<dialog, queue, made>>)
    /\ UNCHANGED zoom /\ UNCHANGED others

\* A set is named, deleted or put back after a question.
AskHighlightSet ==
    /\ dialog.open /\ dialog.asked = "nothing" /\ MayEdit
    /\ dialog' = [dialog EXCEPT !.asked = "set"]
    /\ UNCHANGED <<queue, zoom, edits, made>> /\ UNCHANGED others

AnswerHighlightSet(yes) ==
    /\ dialog.asked = "set"
    /\ IF yes /\ MayEdit
       THEN edits' = edits + 1 /\ HighlightSaved(edits + 1)
       ELSE dialog' = [dialog EXCEPT !.asked = "nothing"] /\ UNCHANGED <<queue, edits, made>>
    /\ UNCHANGED zoom /\ UNCHANGED others

\* The zoom keys, in any tab, the settings open or not.
ZoomFrom == IF zoom.target # None THEN zoom.target.size ELSE mem.size

ZoomBy(step) ==
    /\ MayEdit
    /\ edits' = edits + 1
    /\ zoom' = [target |-> [size |-> ZoomFrom + step], pending |-> zoom.pending + 1]
    /\ made' = [made EXCEPT !.size = @ + step]
    /\ SaveConfig([size |-> ZoomFrom + step])
    /\ UNCHANGED dialog /\ UNCHANGED others

-----------------------------------------------------------------------------
Next ==
    \/ StartSave \/ BackendSaves \/ SaveSucceeds \/ SaveAgain \/ SaveFails
    \/ SyncApplies \/ BackendLoads \/ LoadConfig
    \/ SetSecretStorageMode \/ ApplySecretStatus
    \/ OpenSettings \/ CloseSettings
    \/ GeneralChange \/ NotificationChange \/ SftpChange \/ TabChange \/ LoggingChange
    \/ UpdateChange \/ ConnectionChange \/ AgentChange
    \/ CommitConnectionNumber \/ CommitNotificationSeconds \/ CommitTabWidth
    \/ CommitEchoThreshold \/ CommitBandwidth \/ CommitPromptPatterns
    \/ CommitLogName \/ CommitLogLimit
    \/ ChooseDirectory \/ DirectoryChosen
    \/ \E on \in BOOLEAN : LogSwitch(on) \/ LogConfirmed(on) \/ UpdateBinding(on) \/ AnswerHighlightSet(on)
    \/ \E v \in {"valid", "same", "bad"} : CommitPattern(v)
    \/ AskHighlightSet
    \/ EditFont \/ HandleFontSave
    \/ SavePanes \/ SaveShell \/ SaveIcons \/ FlushIcons \/ EditHighlight
    \/ \E step \in {-1, 1} : ZoomBy(step)

\* The backend answers every command, and the event loop runs every reaction.
Fairness ==
    /\ WF_vars(StartSave) /\ WF_vars(BackendSaves)
    /\ WF_vars(SaveSucceeds) /\ WF_vars(SaveAgain) /\ WF_vars(SaveFails)
    /\ WF_vars(BackendLoads) /\ WF_vars(LoadConfig) /\ WF_vars(ApplySecretStatus)

Spec == Init /\ [][Next]_vars /\ Fairness

-----------------------------------------------------------------------------
Idle ==
    /\ queue = <<>> /\ save = None /\ load = None /\ secret = None
    /\ dialog.pendingIcons = None

(* Once nothing is under way, memory and the file agree, no highlight edit *)
(* has been undone by a later one, presses of the zoom keys have added up, *)
(* and the storage mode is the secret store's.  Excepted are a refused     *)
(* save, a reload that read the file before a save wrote it, a page left   *)
(* while its edit is being saved, and a font page saved during a zoom;     *)
(* without the redo loop of saveConfig, pendingRef of useHighlightSettings *)
(* and targetRef of useTerminalFontZoom a change would be lost.            *)
EditsKept ==
    /\ Idle /\ ~crossed =>
        /\ mem = disk
        /\ made.hl \subseteq mem.hl
        /\ made.size = mem.size
    /\ Idle => disk.mode = modes

(* Every save is answered: however often the configuration is replaced     *)
(* under it, the redo loop of saveConfig ends.                             *)
NoSaveWaits == queue = <<>> /\ save = None
SavesAnswered == []<>NoSaveWaits
-----------------------------------------------------------------------------
(* Why EditsKept holds: how what is in memory, in the file, in the save    *)
(* under way and in the saves that wait are related at every step.         *)

Settings == Fields \ {"mode"}

\* The updates on their way: that of the save under way, numbered 0, and those that wait.
Line == {k \in 0..Len(queue) : k = 0 => save # None}
Update(k) == IF k = 0 THEN save.update ELSE queue[k]

Sizes == {k \in Line : "size" \in DOMAIN Update(k)}
Zooms == {k \in Sizes : "font" \notin DOMAIN Update(k)}
Highlights == {k \in Line : "hl" \in DOMAIN Update(k)}

IsConfig(config) == config = [f \in Fields |-> config[f]]
Numbered(group) == \A n \in group : n \in Nat /\ n <= edits

QueueOK == queue \in Seq({queue[i] : i \in 1..Len(queue)})
LineOK ==
    \A k \in Line : /\ DOMAIN Update(k) \subseteq Settings
                    /\ "hl" \in DOMAIN Update(k) => Numbered(Update(k).hl)

\* The configurations, and what is known of when they were copied.
CopiesOK ==
    /\ edits \in Nat
    /\ IsConfig(mem) /\ IsConfig(disk) /\ Numbered(mem.hl) /\ Numbered(disk.hl)
    /\ disk.mode = modes
    /\ secret # None => secret.mode = modes
    /\ load # None =>
         /\ DOMAIN load = {"at", "old", "read"} /\ load.old \in BOOLEAN
         /\ IsConfig(load.read) /\ Numbered(load.read.hl)
         /\ load.at = "read" /\ ~load.old => load.read = disk
    /\ save # None =>
         /\ DOMAIN save = {"update", "sent", "at", "replaced"} /\ save.replaced \in BOOLEAN
         /\ IsConfig(save.sent) /\ Numbered(save.sent.hl)
         /\ \A f \in DOMAIN save.update : save.sent[f] = save.update[f]
         /\ save.at = "saved" => \A f \in Settings \ {"plain"} : disk[f] = save.sent[f]

PagesOK ==
    /\ DOMAIN dialog = DOMAIN NoDraft /\ DOMAIN zoom = {"target", "pending"} /\ DOMAIN made = {"hl", "size"}
    /\ dialog.pendingHl # None => dialog.pendingHl = [next |-> dialog.pendingHl.next] /\ Numbered(dialog.pendingHl.next)
    /\ ~dialog.open => dialog.pendingHl = None /\ dialog.asked = "nothing"

\* No reload is under way: memory is the file, or the save under way will make it so.
MemoryFollows ==
    load = None =>
      /\ save = None => \A f \in Settings : mem[f] = disk[f]
      /\ save # None /\ save.at = "saved" /\ ~save.replaced => \A f \in Settings : save.sent[f] = disk[f]
      /\ secret = None =>
           /\ mem.mode = disk.mode
           /\ save # None /\ ~save.replaced => save.sent.mode = disk.mode

\* Every highlight edit is in the latest one not yet saved, which is the last
\* in line, or else everywhere.
HighlightsFollow ==
    IF dialog.pendingHl = None
    THEN /\ Highlights = {} /\ made.hl \subseteq mem.hl /\ made.hl \subseteq disk.hl
         /\ save # None => made.hl \subseteq save.sent.hl
    ELSE /\ made.hl \subseteq dialog.pendingHl.next
         /\ \E k \in Highlights :
              /\ Update(k).hl = dialog.pendingHl.next
              /\ \A j \in Highlights : j < k \/ j = k
              /\ \A j \in Highlights : j # k => Update(j).hl # dialog.pendingHl.next

\* The zoom asked for is the last size in line, or else the size everywhere.
SizesFollow ==
    /\ zoom.pending = Cardinality(Zooms)
    /\ zoom.target # None => zoom.target = [size |-> made.size]
    /\ IF Zooms = {}
       THEN /\ \A k \in Sizes : Update(k).size = made.size
            /\ mem.size = made.size /\ disk.size = made.size
            /\ save # None => save.sent.size = made.size
       ELSE /\ zoom.target # None
            /\ \E k \in Zooms : Update(k).size = made.size /\ \A j \in Sizes : j <= k

KeptInv ==
    /\ QueueOK /\ LineOK /\ CopiesOK /\ PagesOK
    /\ ~crossed => MemoryFollows /\ HighlightsFollow /\ SizesFollow
=============================================================================
