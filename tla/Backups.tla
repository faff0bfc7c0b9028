------------------------------ MODULE Backups ------------------------------
(***************************************************************************)
(* The backup page of the settings: exporting and importing a backup, the   *)
(* automatic backups and their history, and the WebDAV panel with its       *)
(* account, its uploads and the list of backups on the server.              *)
(*                                                                         *)
(* The page and the panel each have a busy flag that disables their         *)
(* controls, but the views can be switched at any time, which unmounts the  *)
(* panel: it comes back idle, whatever the old one still has in flight.     *)
(***************************************************************************)
EXTENDS Integers, FiniteSets

CONSTANTS
    Names,          \* backups on the server
    Files,          \* backups on this computer
    MaxCalls,       \* bound on requests in flight
    MaxActs         \* bound on what the user starts

VARIABLES
    page,           \* view, busy flag, file to import and its inspection
    panel,          \* account, form, busy flag, list, selection
    automatic,      \* settings on screen and stored, and the backups made with them
    history,        \* automatic backups listed
    calls,          \* requests in flight
    onServer, stored,   \* the server's backups; the account's settings
    disk,           \* the backup downloaded for an import
    deleted,        \* backups deleted on the server, with the rows ticked then
    acts

vars == <<page, panel, automatic, history, calls, onServer, stored, disk, deleted, acts>>

None == "none"
NoFile == [file |-> None, dav |-> FALSE, inspected |-> None, verified |-> FALSE, done |-> FALSE]
Page0 == [view |-> "backup", busy |-> None, import |-> NoFile, picked |-> "all"]
Panel0 == [loaded |-> FALSE, url |-> FALSE, edited |-> FALSE, mismatch |-> FALSE, busy |-> None,
           list |-> {}, listed |-> FALSE, failed |-> FALSE, selected |-> {}]

Init ==
    /\ page = Page0 /\ panel = Panel0 /\ automatic = [shown |-> 0, stored |-> 0, loaded |-> FALSE]
    /\ history = {} /\ calls = {} /\ onServer = Names /\ stored \in BOOLEAN
    /\ disk = None /\ deleted = {} /\ acts = 0

Act == acts < MaxActs /\ acts' = acts + 1

\* A request: what it is for, its file or files, and who waits for it ("page",
\* "panel", or "gone": a panel that is).
Call(op, file, names, from) == [op |-> op, file |-> file, names |-> names, from |-> from]
Start(c) == c \notin calls /\ Cardinality(calls) < MaxCalls /\ calls' = calls \cup {c}
End(c) == calls' = calls \ {c}

----------------------------------------------------------------------------
(* The page.                                                               *)

Begins(op) == page.busy = None /\ Act /\ page' = [page EXCEPT !.busy = op]

\* Unmounting the panel leaves its requests without anyone to tell but the page.
Unmounted == {IF c.from = "panel" THEN [c EXCEPT !.from = "gone"] ELSE c : c \in calls}

Views == {"backup", "webdav", "import", "history"}

\* Leaving the import view drops a WebDAV backup, and with it the download.
ShowView(v) ==
    LET drops == v # "import" /\ page.import.dav
    IN /\ v # page.view /\ Act
       /\ page' = [page EXCEPT !.view = v, !.import = IF drops THEN NoFile ELSE @]
       /\ disk' = IF drops THEN None ELSE disk
       /\ IF v = "webdav"
          THEN panel' = Panel0 /\ Start(Call("status", None, {}, "panel"))
          ELSE panel' = Panel0 /\ calls' = Unmounted
       /\ UNCHANGED <<automatic, history, onServer, stored, deleted>>

\* Requests outlive the page that made them; nobody opens their downloads.
Left == {[c EXCEPT !.from = IF c.op = "restore" THEN "left" ELSE "gone"] :
            c \in {k \in calls : k.op \in {"delete", "save", "upload", "clear", "restore"}}}

\* The settings are closed or show another page.
LeavePage ==
    /\ Act /\ page' = Page0 /\ panel' = Panel0 /\ disk' = IF page.import.dav THEN None ELSE disk
    /\ calls' = Left /\ automatic' = [automatic EXCEPT !.loaded = FALSE, !.shown = automatic.stored]
    /\ history' = {} /\ UNCHANGED <<onServer, stored, deleted>>

RefreshBackupManagement ==
    /\ ~automatic.loaded
    /\ automatic' = [automatic EXCEPT !.loaded = TRUE, !.shown = automatic.stored] /\ history' \in SUBSET Files
    /\ UNCHANGED <<page, panel, calls, onServer, stored, disk, deleted, acts>>

UpdateSelection ==
    /\ page.busy = None /\ page.picked # None
    /\ (page.view = "import" => page.import.inspected # None) /\ page.view \in {"backup", "import"}
    /\ Act /\ page' = [page EXCEPT !.picked = IF @ = "all" THEN None ELSE "all"]
    /\ UNCHANGED <<panel, automatic, history, calls, onServer, stored, disk, deleted>>

\* The controls of the cards.
ExportOffered == page.view = "backup" /\ page.picked # None
AutomaticOffered == page.view = "backup" /\ automatic.loaded
HistoryRows == IF page.view = "history" THEN history ELSE {}
ChooseOffered == page.view = "import" /\ page.busy = None
VerifyOffered == page.view = "import" /\ page.import.inspected # None /\ ~page.import.verified
ImportOffered ==
    /\ page.view = "import" /\ page.import.file # None /\ page.import.inspected # None /\ page.import.verified
    /\ page.picked # None

HandleExport ==
    /\ ExportOffered /\ Begins("export") /\ Start(Call("export", None, {}, "page"))
    /\ UNCHANGED <<panel, automatic, history, onServer, stored, disk, deleted>>

\* inspect: the answer shows the file's contents and selects all of them.
Inspect(op, f) == Start(Call(op, f, {}, "page"))

HandleChooseImport ==
    /\ ChooseOffered /\ Act
    /\ \E f \in Files :
          /\ page' = [page EXCEPT !.busy = "inspect", !.import = [NoFile EXCEPT !.file = f, !.inspected = @]]
          /\ Inspect("choose", f)
    /\ disk' = IF page.import.dav THEN None ELSE disk
    /\ UNCHANGED <<panel, automatic, history, onServer, stored, deleted>>

HandleVerifyPassword ==
    /\ VerifyOffered /\ Begins("verify") /\ Inspect("verify", page.import.file)
    /\ UNCHANGED <<panel, automatic, history, onServer, stored, disk, deleted>>

Inspected ==
    /\ \E c \in calls :
          /\ c.op \in {"choose", "open", "verify"} /\ End(c)
          /\ \/ \E v \in BOOLEAN :
                   page' = [page EXCEPT !.busy = None, !.picked = c.file,
                                        !.import.inspected = c.file, !.import.verified = v]
             \/ page' = [page EXCEPT !.busy = None, !.import.inspected = IF c.op = "choose" THEN None ELSE @]
    /\ UNCHANGED <<panel, automatic, history, onServer, stored, disk, deleted, acts>>

HandleImport ==
    /\ ImportOffered /\ Begins("import") /\ Start(Call("import", page.import.file, {}, "page"))
    /\ UNCHANGED <<panel, automatic, history, onServer, stored, disk, deleted>>

\* The import, which may bring an account and a schedule of its own.
Imported ==
    /\ \E c \in calls :
          /\ c.op = "import" /\ End(c)
          /\ \/ /\ page' = [page EXCEPT !.busy = None, !.import.inspected = c.file, !.import.done = TRUE]
                /\ stored' \in {stored, TRUE} /\ automatic' = [automatic EXCEPT !.loaded = FALSE]
             \/ page' = [page EXCEPT !.busy = None] /\ UNCHANGED <<stored, automatic>>
    /\ UNCHANGED <<panel, history, onServer, disk, deleted, acts>>

HandleChooseAutomaticDirectory ==
    /\ AutomaticOffered /\ page.busy = None /\ Act
    /\ automatic' = [automatic EXCEPT !.shown = 1 - @]
    /\ UNCHANGED <<page, panel, history, calls, onServer, stored, disk, deleted>>

HandleSaveAutomaticSettings ==
    /\ AutomaticOffered /\ Begins("saveSettings")
    /\ automatic' = [automatic EXCEPT !.stored = automatic.shown]
    /\ Start(Call("saved", None, {}, "page"))
    /\ UNCHANGED <<panel, history, onServer, stored, disk, deleted>>

HandleBackupNow ==
    /\ AutomaticOffered /\ Begins("backupNow")
    /\ automatic' = [automatic EXCEPT !.stored = automatic.shown]
    /\ Start(Call("backupNow", None, {}, "page"))
    /\ UNCHANGED <<panel, history, onServer, stored, disk, deleted>>

HandleDeleteHistory ==
    /\ Begins("deleteHistory")
    /\ \E f \in HistoryRows : Start(Call("deleteHistory", f, {}, "page"))
    /\ UNCHANGED <<panel, automatic, history, onServer, stored, disk, deleted>>

\* The answers of these end with a new look at the settings and the history.
PageAnswered ==
    /\ \E c \in calls :
          /\ c.op \in {"export", "saved", "backupNow", "deleteHistory"} /\ End(c)
          /\ page' = [page EXCEPT !.busy = None]
          /\ \/ c.op \in {"backupNow", "deleteHistory"} /\ automatic' = [automatic EXCEPT !.loaded = FALSE]
                /\ history' = IF c.op = "backupNow" THEN Files ELSE history \ {c.file}
             \/ UNCHANGED <<automatic, history>>
    /\ UNCHANGED <<panel, onServer, stored, disk, deleted, acts>>

\* openForImport, from the history or after a download.
ShowImport(f, dav) ==
    page' = [page EXCEPT !.view = "import", !.busy = "inspect", !.import = [NoFile EXCEPT !.file = f, !.dav = dav]]

OpenForImport ==
    /\ page.busy = None /\ Act
    /\ \E f \in HistoryRows : ShowImport(f, FALSE) /\ Inspect("open", f)
    /\ UNCHANGED <<panel, automatic, history, onServer, stored, disk, deleted>>

----------------------------------------------------------------------------
(* The WebDAV panel.                                                       *)

Panel == page.view = "webdav" /\ panel.loaded
Works(op) == Panel /\ panel.busy = None /\ Act /\ panel' = [panel EXCEPT !.busy = op]
PanelUnchanged == UNCHANGED <<page, automatic, history, stored, disk, deleted>>

\* The rows, which the list shows unless it failed or there is no account.
Rows == IF Panel /\ stored /\ panel.listed /\ ~panel.failed THEN panel.list ELSE {}

\* The settings arrive; with an account the list is loaded.
StatusLoaded ==
    /\ \E c \in calls :
          /\ c.op = "status"
          /\ IF c.from = "gone" THEN End(c) /\ UNCHANGED panel
             ELSE IF stored
             THEN /\ calls' = (calls \ {c}) \cup {Call("list", None, {}, "panel")}
                  /\ panel' = [panel EXCEPT !.loaded = TRUE, !.url = TRUE, !.edited = FALSE, !.busy = "list"]
             ELSE End(c) /\ panel' = [panel EXCEPT !.loaded = TRUE, !.edited = FALSE, !.busy = None]
    /\ onServer' = onServer /\ acts' = acts /\ PanelUnchanged

LoadRemoteBackups ==
    /\ stored /\ Works("list") /\ Start(Call("list", None, {}, "panel")) /\ UNCHANGED onServer /\ PanelUnchanged

\* The server answers with what it has now.
ListRead ==
    /\ \E c \in calls : c.op = "list" /\ calls' = (calls \ {c}) \cup {Call("listed", None, onServer, c.from)}
    /\ UNCHANGED <<panel, onServer, acts>> /\ PanelUnchanged

\* Mutant: what is selected stays as it is.
ListedKeepsSelection(c) ==
    panel' = [panel EXCEPT !.busy = None, !.list = c.names, !.listed = TRUE, !.failed = FALSE]

\* Files that are gone from the server leave the selection.
ListedAnswer(c) ==
    panel' = [panel EXCEPT !.busy = None, !.list = c.names, !.listed = TRUE, !.failed = FALSE,
                           !.selected = @ \cap c.names]

Listed ==
    /\ \E c \in calls :
          /\ c.op = "listed" /\ End(c)
          /\ IF c.from = "gone" THEN UNCHANGED panel
             ELSE \/ ListedAnswer(c)
                  \/ panel' = [panel EXCEPT !.busy = None, !.failed = TRUE]
    /\ UNCHANGED <<onServer, acts>> /\ PanelUnchanged

Update ==
    /\ Panel /\ panel.busy = None /\ (~panel.edited \/ ~panel.url) /\ Act
    /\ panel' = [panel EXCEPT !.url = TRUE, !.edited = TRUE]
    /\ UNCHANGED <<calls, onServer>> /\ PanelUnchanged

\* The options, with the backup password that is typed twice.
UpdateOptions ==
    /\ Panel /\ panel.busy = None /\ Act /\ panel' = [panel EXCEPT !.edited = TRUE, !.mismatch = ~@]
    /\ UNCHANGED <<calls, onServer>> /\ PanelUnchanged

\* Nothing is saved while the two passwords differ.
HandleSave == ~panel.mismatch /\ Works("save") /\ Start(Call("save", None, {}, "panel")) /\ UNCHANGED onServer /\ PanelUnchanged

\* The list is loaded after a save, and the save's end clears the busy flag
\* the list has just set.
Saved ==
    /\ \E c \in calls :
          /\ c.op = "save"
          /\ \/ /\ stored' = TRUE
                /\ IF c.from = "gone" THEN End(c) /\ UNCHANGED panel
                   ELSE /\ calls' = (calls \ {c}) \cup {Call("list", None, {}, "panel")}
                        /\ panel' = [panel EXCEPT !.busy = None, !.edited = FALSE]
             \/ /\ End(c) /\ UNCHANGED stored
                /\ panel' = IF c.from = "gone" THEN panel ELSE [panel EXCEPT !.busy = None]
    /\ UNCHANGED <<page, automatic, history, onServer, disk, deleted, acts>>

\* Unlocking is asked for wherever the vault is locked; then the list is loaded.
HandleUnlock ==
    /\ Panel /\ stored /\ ~panel.listed /\ Act /\ panel' = [panel EXCEPT !.busy = "list"]
    /\ Start(Call("list", None, {}, "panel")) /\ UNCHANGED onServer /\ PanelUnchanged

HandleTest == panel.url /\ Works("test") /\ Start(Call("test", None, {}, "panel")) /\ UNCHANGED onServer /\ PanelUnchanged

\* An upload saves the form first; the server then keeps so many of the old ones.
HandleUpload == panel.url /\ ~panel.mismatch /\ Works("upload") /\ Start(Call("upload", None, {}, "panel")) /\ UNCHANGED onServer /\ PanelUnchanged

Uploaded ==
    /\ \E c \in calls :
          /\ c.op = "upload"
          /\ \/ /\ stored' = TRUE /\ \E n \in Names, kept \in SUBSET onServer : onServer' = kept \cup {n}
                /\ IF c.from = "gone" THEN End(c) /\ UNCHANGED panel
                   ELSE /\ calls' = (calls \ {c}) \cup {Call("list", None, {}, "panel")}
                        /\ panel' = [panel EXCEPT !.busy = "list", !.edited = FALSE]
             \/ /\ End(c) /\ UNCHANGED <<stored, onServer>>
                /\ panel' = IF c.from = "gone" THEN panel ELSE [panel EXCEPT !.busy = None]
    /\ UNCHANGED <<page, automatic, history, disk, deleted, acts>>

HandleRestore ==
    /\ Works("download") /\ \E n \in Rows : Start(Call("restore", n, {}, "panel")) /\ UNCHANGED onServer /\ PanelUnchanged

\* The download replaces what was downloaded before; the page opens it even
\* when the panel is gone.
Downloaded ==
    /\ \E c \in calls :
          /\ c.op = "restore"
          /\ \/ c.from = "left" /\ c.file \in onServer /\ disk' = c.file /\ End(c) /\ UNCHANGED <<page, panel>>
             \/ /\ c.from # "left" /\ c.file \in onServer /\ disk' = c.file /\ ShowImport(c.file, TRUE)
                /\ calls' = {IF k.from = "panel" THEN [k EXCEPT !.from = "gone"] ELSE k : k \in calls \ {c}}
                            \cup {Call("open", c.file, {}, "page")}
                /\ panel' = Panel0
             \/ /\ End(c) /\ UNCHANGED <<disk, page>>
                /\ panel' = IF c.from # "panel" THEN panel ELSE [panel EXCEPT !.busy = None]
    /\ UNCHANGED <<automatic, history, onServer, stored, deleted, acts>>

HandleDownload ==
    /\ Works("download") /\ \E n \in Rows : Start(Call("saveAs", n, {}, "panel")) /\ UNCHANGED onServer /\ PanelUnchanged

PanelAnswered ==
    /\ \E c \in calls :
          /\ c.op \in {"test", "saveAs"} /\ End(c)
          /\ panel' = IF c.from = "gone" THEN panel ELSE [panel EXCEPT !.busy = None]
    /\ UNCHANGED <<onServer, acts>> /\ PanelUnchanged

HandleDelete ==
    /\ Works("delete") /\ \E n \in Rows : Start(Call("delete", None, {n}, "panel")) /\ UNCHANGED onServer /\ PanelUnchanged

HandleDeleteSelected ==
    /\ panel.selected # {} /\ Rows # {} /\ Works("delete") /\ Start(Call("delete", None, panel.selected, "panel"))
    /\ deleted' = deleted \cup {[names |-> panel.selected, rows |-> Rows]}
    /\ UNCHANGED <<page, automatic, history, onServer, stored, disk>>

\* The server deletes all of them, or some before an error.
DeleteBackups ==
    /\ \E c \in calls :
          /\ c.op = "delete" /\ End(c)
          /\ \E gone \in SUBSET c.names :
                /\ onServer' = onServer \ gone
                /\ panel' = IF c.from = "gone" THEN panel
                            ELSE [panel EXCEPT !.busy = None, !.list = @ \ gone, !.selected = @ \ gone]
    /\ acts' = acts /\ PanelUnchanged

ToggleSelected ==
    /\ panel.busy = None /\ Act
    /\ \E n \in Rows : panel' = [panel EXCEPT !.selected = IF n \in @ THEN @ \ {n} ELSE @ \cup {n}]
    /\ UNCHANGED <<calls, onServer>> /\ PanelUnchanged

\* The box over the list, checked while as many are selected as are listed.
AllSelected == panel.list # {} /\ Cardinality(panel.selected) = Cardinality(panel.list)
SelectAll ==
    /\ Rows # {} /\ panel.busy = None /\ Act
    /\ panel' = [panel EXCEPT !.selected = IF AllSelected THEN {} ELSE panel.list]
    /\ UNCHANGED <<calls, onServer>> /\ PanelUnchanged

HandleClear ==
    /\ stored /\ Works("clear") /\ Start(Call("clear", None, {}, "panel")) /\ UNCHANGED onServer /\ PanelUnchanged

Cleared ==
    /\ \E c \in calls :
          /\ c.op = "clear" /\ End(c)
          /\ \/ /\ stored' = FALSE
                /\ panel' = IF c.from = "gone" THEN panel ELSE [Panel0 EXCEPT !.loaded = TRUE]
             \/ /\ UNCHANGED stored
                /\ panel' = IF c.from = "gone" THEN panel ELSE [panel EXCEPT !.busy = None]
    /\ UNCHANGED <<page, automatic, history, onServer, disk, deleted, acts>>

Next ==
    \/ \E v \in Views : ShowView(v)
    \/ LeavePage \/ RefreshBackupManagement \/ UpdateSelection \/ HandleExport \/ HandleChooseImport
    \/ HandleVerifyPassword \/ Inspected \/ HandleImport \/ Imported \/ HandleChooseAutomaticDirectory
    \/ HandleSaveAutomaticSettings \/ HandleBackupNow \/ HandleDeleteHistory \/ PageAnswered \/ OpenForImport
    \/ StatusLoaded \/ LoadRemoteBackups \/ ListRead \/ Listed \/ Update \/ UpdateOptions \/ HandleSave \/ Saved \/ HandleUnlock
    \/ HandleTest \/ HandleUpload \/ Uploaded \/ HandleRestore \/ Downloaded \/ HandleDownload \/ PanelAnswered
    \/ HandleDelete \/ HandleDeleteSelected \/ DeleteBackups \/ ToggleSelected \/ SelectAll \/ HandleClear \/ Cleared

Spec == Init /\ [][Next]_vars

----------------------------------------------------------------------------
\* What "Delete selected" deletes, after a confirmation that only counts it,
\* are rows the user sees ticked, however late the lists, the deletions and
\* the answers of a panel that was left arrive.
DeletesWhatIsTicked == \A d \in deleted : d.names \subseteq d.rows

\* What is selected is listed: what keeps DeletesWhatIsTicked true from step to step.
SelectedIsListed ==
    /\ DOMAIN panel = DOMAIN Panel0
    /\ panel.selected \subseteq panel.list
TickedInv == SelectedIsListed /\ DeletesWhatIsTicked
=============================================================================
