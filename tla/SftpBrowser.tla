---------------------------- MODULE SftpBrowser ----------------------------
(***************************************************************************)
(* The file list of an SFTP drawer: loading folders, the back/forward       *)
(* history, following the terminal, working as root, searching subfolders,  *)
(* selecting rows, and the dialogs that create, rename, change and delete   *)
(* entries.                                                                 *)
(*                                                                         *)
(* Nothing numbers the loads: transfers, finished operations and the user   *)
(* all start them, and their answers are applied as they come.  What an     *)
(* operation does after its await uses the folder and the identity of the   *)
(* render it began in.                                                      *)
(*                                                                         *)
(* Every folder is a child of Home, but for Link, which the server resolves *)
(* to Home.  A row is the entry's name; folders hold the same names.        *)
(***************************************************************************)
EXTENDS Integers, Sequences, FiniteSets

CONSTANTS
    Folders, Home, Link,    \* remote folders
    Names, DotNames,        \* names of entries; those a leading dot hides
    HistoryLimit,           \* SFTP_HISTORY_LIMIT
    MaxLoads,               \* bound on loads in flight
    MaxActs                 \* bound on what the user and the server start

VARIABLES
    visible, first,         \* the drawer is open; the identity its first listing was asked for as
    listing, loads, loading, failed,
    history,
    sudo,                   \* the drawer works as root
    follows, followed, cwd, \* useSftpTerminalFollow; cwd is what the shell reported
    search, running,        \* the search on screen, and those the server runs
    view,                   \* dot files are hidden; a query filters the rows
    rows,                   \* selection: mode, selected, active row and the row of the menu
    dialog, deleting, batch,
    ops,                    \* operations whose answer reloads the folder
    confirmed,              \* the entries the user confirmed, and did not call off since
    acts

folderVars == <<listing, loads, loading, failed, history, search, rows, view>>
modeVars == <<visible, first, sudo, follows, followed, cwd>>
deleteVars == <<dialog, deleting, batch, confirmed>>
vars == <<folderVars, modeVars, running, deleteVars, ops, acts>>

None == "none"
NoRows == [mode |-> FALSE, selected |-> {}, active |-> None, menu |-> None]
NoSearch == [root |-> None, id |-> 0, status |-> None]
Identity(s) == IF s THEN "root" ELSE "user"
Resolved(p) == IF p \in {Link, None} THEN Home ELSE p
NoDialog == [type |-> None, entries |-> {}]
NoFailure == [error |-> None, path |-> None]
NoListing == [path |-> None, as |-> None, entries |-> {}]
Listed == listing.path # None
Shown == listing.path

Init ==
    /\ visible = FALSE /\ first = None /\ listing = NoListing /\ loads = {} /\ loading = FALSE
    /\ failed = NoFailure /\ history = [paths |-> <<>>, index |-> 0]
    /\ sudo = FALSE
    /\ follows \in BOOLEAN /\ followed = None /\ cwd \in {None, Home}
    /\ search = NoSearch /\ running = {} /\ rows = NoRows /\ view = [dots |-> FALSE, query |-> FALSE]
    /\ dialog = NoDialog /\ deleting = FALSE /\ batch = {} /\ confirmed = {}
    /\ ops = {} /\ acts = 0

Act == acts < MaxActs /\ acts' = acts + 1

----------------------------------------------------------------------------
(* History (sftpHistory.ts).                                               *)

RecordSftpVisit(h, path) ==
    IF h.index > 0 /\ h.paths[h.index] = path THEN h
    ELSE LET all == Append(SubSeq(h.paths, 1, h.index), path)
             from == IF Len(all) > HistoryLimit THEN Len(all) - HistoryLimit + 1 ELSE 1
             paths == SubSeq(all, from, Len(all))
         IN [paths |-> paths, index |-> Len(paths)]

SftpHistoryTarget(h, step) == h.index + step \in 1..Len(h.paths)

\* Mutant: the entry keeps the path it had when the step was taken.
LandOnIndex(h, index, path) ==
    IF index \notin 1..Len(h.paths) THEN RecordSftpVisit(h, path) ELSE [h EXCEPT !.index = index]

LandSftpHistory(h, index, path) ==
    IF index \notin 1..Len(h.paths) THEN RecordSftpVisit(h, path)
    ELSE [paths |-> [h.paths EXCEPT ![index] = path], index |-> index]

DropSftpHistoryEntry(h, index) ==
    IF index \notin 1..Len(h.paths) \/ index = h.index THEN h
    ELSE [paths |-> SubSeq(h.paths, 1, index - 1) \o SubSeq(h.paths, index + 1, Len(h.paths)),
          index |-> IF index < h.index THEN h.index - 1 ELSE h.index]

----------------------------------------------------------------------------
(* Loading (useSftpDirectoryLoader).                                       *)

Load(path, index, as, then) == [path |-> path, index |-> index, as |-> as, then |-> then]

\* The effect that stops a search whose results no longer show.
StopsUnlessShown ==
    running' = IF search'.root # None /\ search'.status = "searching" /\ listing'.path = search'.root
               THEN running ELSE running \ {search.id}

\* loadDirectory up to its await.
Begin(l) ==
    /\ Cardinality(loads) < MaxLoads /\ l \notin loads
    /\ loads' = loads \cup {l} /\ loading' = TRUE /\ failed' = NoFailure

BeginLoad(l) == Begin(l) /\ UNCHANGED <<listing, history, search, rows, view>>

\* After the await: the listing, its history, and a fresh selection and query.
DirectoryLoaded ==
    /\ \E l \in loads :
          /\ loads' = loads \ {l} /\ loading' = FALSE
          /\ listing' = [path |-> Resolved(l.path), as |-> l.as, entries |-> Names]
          /\ history' = IF l.index = 0 THEN RecordSftpVisit(history, Resolved(l.path))
                        ELSE LandSftpHistory(history, l.index, Resolved(l.path))
          /\ rows' = [rows EXCEPT !.selected = {}, !.active = IF l.then = "reveal" THEN CHOOSE n \in Names : TRUE ELSE None]
          /\ search' = NoSearch /\ view' = [view EXCEPT !.query = FALSE]
    /\ StopsUnlessShown
    /\ UNCHANGED <<failed, modeVars, deleteVars, ops, acts>>

\* What follows a failure: the sudo switch is undone, or another folder tried.
DirectoryFailed ==
    /\ \E l \in loads, error \in {"denied", "other"} :
          LET retry == {Load(None, 0, l.as, None) : t \in {u \in {"fallback"} : l.then = u}} IN
          /\ error = "denied" => l.as = "user"
          /\ history' = IF l.index = 0 THEN history ELSE DropSftpHistoryEntry(history, l.index)
          /\ loads' = (loads \ {l}) \cup retry /\ loading' = (retry # {})
          /\ failed' = IF retry = {} THEN [error |-> error, path |-> l.path] ELSE NoFailure
          /\ sudo' = (sudo /\ l.then # "switch")
    /\ UNCHANGED <<listing, search, rows, view, running, visible, first, follows, followed, cwd, deleteVars, ops, acts>>

Calm == dialog.type = None

\* Back, forward and up: buttons, keys and the mouse's side buttons.
NavigateHistory ==
    /\ visible /\ Calm /\ ~loading /\ Act
    /\ \E step \in {-1, 1} :
          /\ SftpHistoryTarget(history, step)
          /\ BeginLoad(Load(history.paths[history.index + step], history.index + step, Identity(sudo), None))
    /\ UNCHANGED <<modeVars, running, deleteVars, ops>>

GoUp ==
    /\ visible /\ Calm /\ ~loading /\ Listed /\ Shown # Home /\ Act
    /\ BeginLoad(Load(Home, 0, Identity(sudo), None)) /\ UNCHANGED <<modeVars, running, deleteVars, ops>>

\* The path bar's field and breadcrumbs, and a folder among the rows.
SubmitPath ==
    /\ visible /\ Calm /\ ~loading /\ Listed /\ Act
    /\ \E p \in Folders : BeginLoad(Load(p, 0, Identity(sudo), None))
    /\ UNCHANGED <<modeVars, running, deleteVars, ops>>

HandleOpenEntry ==
    /\ visible /\ Calm /\ ~loading /\ failed.error = None /\ Shown = Home /\ Act
    /\ \E p \in Folders \ {Home} : BeginLoad(Load(p, 0, Identity(sudo), None))
    /\ UNCHANGED <<modeVars, running, deleteVars, ops>>

Refresh ==
    /\ visible /\ ~loading /\ Act /\ BeginLoad(Load(Shown, 0, Identity(sudo), None))
    /\ UNCHANGED <<modeVars, running, deleteVars, ops>>

\* An upload or another tab's transfer into the folder in view has finished.
TransferRefreshes ==
    /\ Listed /\ Act /\ BeginLoad(Load(Shown, 0, Identity(sudo), None))
    /\ UNCHANGED <<modeVars, running, deleteVars, ops>>

\* A search result's folder, with the result highlighted.
HandleReveal ==
    /\ visible /\ Calm /\ search.root # None /\ Shown = search.root /\ rows.menu # None /\ Act
    /\ Begin(Load(Shown, 0, Identity(sudo), "reveal")) /\ rows' = [rows EXCEPT !.menu = None]
    /\ UNCHANGED <<listing, history, search, view, modeVars, running, deleteVars, ops>>

----------------------------------------------------------------------------
(* Opening, following the terminal, and root.                              *)

ToggleDrawer ==
    /\ Act /\ visible' = ~visible /\ first' = None
    /\ UNCHANGED <<folderVars, sudo, follows, followed, cwd, running, deleteVars, ops>>

SftpStartPath == IF follows /\ cwd # None THEN cwd ELSE None

\* The effect that opens the first listing; it runs again when the drawer
\* opens, or works as another user, before there is one.
FirstPending == visible /\ ~Listed /\ first # Identity(sudo) /\ Cardinality(loads) < MaxLoads
FirstListing ==
    /\ FirstPending /\ first' = Identity(sudo) /\ followed' = cwd
    /\ BeginLoad(Load(SftpStartPath, 0, Identity(sudo), IF SftpStartPath = None THEN None ELSE "fallback"))
    /\ UNCHANGED <<visible, sudo, follows, cwd, running, deleteVars, ops, acts>>

FollowTerminal ==
    /\ follows /\ visible /\ Listed /\ ~loading /\ cwd # None /\ cwd # followed /\ followed' = cwd
    /\ BeginLoad(Load(cwd, 0, Identity(sudo), None))
    /\ UNCHANGED <<visible, first, sudo, follows, cwd, running, deleteVars, ops, acts>>

ToggleFollow ==
    /\ visible /\ Act /\ follows' = ~follows /\ followed' = IF follows THEN followed ELSE None
    /\ UNCHANGED <<folderVars, visible, first, sudo, cwd, running, deleteVars, ops>>

ShellMoves ==
    /\ Act /\ cwd' \in (Folders \cup {None}) \ {cwd}
    /\ UNCHANGED <<folderVars, visible, first, sudo, follows, followed, running, deleteVars, ops>>

\* useReloadOnSudoSwitch, the effect of either: the listing as the new identity.
ReloadOnSudoSwitch(path) ==
    /\ sudo' = ~sudo
    /\ BeginLoad(Load(path, 0, Identity(~sudo), IF sudo THEN "fallback" ELSE "switch"))
    /\ UNCHANGED <<visible, first, follows, followed, cwd, running, deleteVars, ops>>

ToggleSudo == visible /\ Calm /\ ~loading /\ Act /\ ReloadOnSudoSwitch(Shown)

OpenAsRoot == visible /\ Calm /\ ~sudo /\ failed.error = "denied" /\ Act /\ ReloadOnSudoSwitch(failed.path)

----------------------------------------------------------------------------
(* Searching subfolders (useSftpRecursiveSearch).                          *)

\* Mutant: the search before it goes on on the server.
StartBeside ==
    /\ visible /\ Calm /\ ~loading /\ Listed /\ Act
    /\ search' = [root |-> Shown, id |-> acts', status |-> "searching"] /\ running' = running \cup {acts'}
    /\ UNCHANGED <<listing, loads, loading, failed, history, rows, view, modeVars, deleteVars, ops>>

\* Enter in the search box: the search before it is stopped first.
StartSearch ==
    /\ visible /\ Calm /\ ~loading /\ Listed /\ Act
    /\ search' = [root |-> Shown, id |-> acts', status |-> "searching"]
    /\ running' = (running \ {search.id}) \cup {acts'}
    /\ UNCHANGED <<listing, loads, loading, failed, history, rows, view, modeVars, deleteVars, ops>>

\* The answer; one of a search that has been replaced is dropped.
SearchAnswered ==
    /\ \E id \in running : running' = running \ {id}
          /\ search' = IF id = search.id THEN [search EXCEPT !.status = "done"] ELSE search
    /\ UNCHANGED <<listing, loads, loading, failed, history, rows, view, modeVars, deleteVars, ops, acts>>

\* Stop keeps what was found; an empty query shows the folder again.
StopSearch ==
    /\ visible /\ search.status = "searching" /\ running' = running \ {search.id}
    /\ search' = [search EXCEPT !.status = "done"]
    /\ UNCHANGED <<listing, loads, loading, failed, history, rows, view, modeVars, deleteVars, ops, acts>>

ClearQuery ==
    /\ visible /\ (search # NoSearch \/ view.query)
    /\ search' = NoSearch /\ view' = [view EXCEPT !.query = FALSE] /\ running' = running \ {search.id}
    /\ UNCHANGED <<listing, loads, loading, failed, history, rows, modeVars, deleteVars, ops, acts>>

\* A query typed without the subfolder option filters the rows in place.
TypeQuery ==
    /\ visible /\ Calm /\ ~loading /\ Listed /\ search = NoSearch /\ ~view.query /\ Act
    /\ view' = [view EXCEPT !.query = TRUE]
    /\ UNCHANGED <<listing, loads, loading, failed, history, search, rows, modeVars, running, deleteVars, ops>>

ToggleShowHidden ==
    /\ visible /\ Calm /\ Act /\ view' = [view EXCEPT !.dots = ~@]
    /\ UNCHANGED <<listing, loads, loading, failed, history, search, rows, modeVars, running, deleteVars, ops>>

\* applySftpView and the query: the rows the table shows, which clicks, sweeps
\* and select-all reach.
FilteredListing == {n \in listing.entries : ~view.query /\ (view.dots => n \notin DotNames)}

----------------------------------------------------------------------------
(* Selection.                                                              *)

RowsShown == visible /\ Calm /\ Listed /\ ~loading /\ failed.error = None
Select(r) ==
    /\ rows' = r /\ r # rows
    /\ UNCHANGED <<listing, loads, loading, failed, history, search, view, modeVars, running, deleteVars, ops, acts>>

\* A click: plain, with the toggling key or in selection mode, with shift.
ClickRow ==
    /\ RowsShown
    /\ \E n \in FilteredListing :
          \/ ~rows.mode /\ Select([rows EXCEPT !.active = n, !.menu = None])
          \/ Select([mode |-> TRUE, active |-> n, menu |-> None,
                     selected |-> IF n \in rows.selected THEN rows.selected \ {n}
                                  ELSE rows.selected \cup {n} \cup
                                       (IF rows.mode \/ rows.active = None THEN {} ELSE {rows.active})])

\* Sweeping over rows, or shift: what lies between the anchor and the row.
SelectRange ==
    /\ RowsShown /\ \E range \in SUBSET FilteredListing :
          /\ range # {} /\ (rows.active # None => rows.active \in range)
          /\ Select([rows EXCEPT !.mode = TRUE, !.selected = range, !.menu = None])

SelectAll ==
    /\ RowsShown /\ FilteredListing # {}
    /\ Select([mode |-> TRUE, selected |-> FilteredListing, menu |-> None,
               active |-> IF rows.active \in FilteredListing THEN rows.active ELSE CHOOSE n \in FilteredListing : TRUE])

\* The toolbar's buttons, and Escape.
ToggleSelectionMode ==
    /\ visible /\ Calm /\ Listed /\ ~loading
    /\ Select(IF rows.mode THEN [rows EXCEPT !.mode = FALSE, !.selected = {}, !.menu = None] ELSE [rows EXCEPT !.mode = TRUE])

ClearSelection == visible /\ Calm /\ rows.selected # {} /\ Select([rows EXCEPT !.selected = {}])

ExitSelectionMode ==
    /\ visible /\ Calm /\ rows.mode /\ rows.menu = None /\ Select([rows EXCEPT !.mode = FALSE, !.selected = {}])

OpenMenu ==
    /\ RowsShown /\ \E n \in FilteredListing : Select([rows EXCEPT !.active = n, !.menu = n])

\* Escape, or a press outside it.
DismissMenu == rows.menu # None /\ Select([rows EXCEPT !.menu = None])

\* What a menu action applies to.
TargetEntries ==
    LET shown == listing.entries
        selected == rows.selected \cap shown
    IN IF rows.menu \in shown THEN IF rows.menu \in rows.selected THEN selected ELSE {rows.menu}
       ELSE IF rows.active \in shown THEN {rows.active} ELSE {}

----------------------------------------------------------------------------
(* Dialogs and operations.                                                 *)

OpenDialog(type, entries) ==
    /\ visible /\ Calm /\ Act /\ dialog' = [type |-> type, entries |-> entries]
    /\ rows' = [rows EXCEPT !.menu = None]
    /\ UNCHANGED <<listing, loads, loading, failed, history, search, view, modeVars, running, deleting, batch, confirmed, ops>>

\* The menu of a row, whose items close it; some are for one entry only.
SftpEntryContextMenu(one) == rows.menu \in listing.entries /\ (one => Cardinality(TargetEntries) = 1)

HandleCreateDirectory == Listed /\ ~loading /\ OpenDialog("createFolder", {})
HandleRename == SftpEntryContextMenu(TRUE) /\ OpenDialog("rename", TargetEntries)
HandlePermissions == SftpEntryContextMenu(FALSE) /\ OpenDialog("permissions", TargetEntries)
HandleCompress == SftpEntryContextMenu(FALSE) /\ OpenDialog("compress", TargetEntries)
HandleExtract == SftpEntryContextMenu(TRUE) /\ OpenDialog("extract", TargetEntries)
HandleDelete == SftpEntryContextMenu(FALSE) /\ ~deleting /\ OpenDialog("delete", TargetEntries)
HandleDeleteSelection ==
    /\ ~deleting /\ Listed /\ rows.selected \cap listing.entries # {}
    /\ OpenDialog("delete", rows.selected \cap listing.entries)

\* Mutant: a dialog closes while its entries are looked at.
CloseWhileDeleting ==
    /\ dialog.type # None
    /\ dialog' = NoDialog
    /\ confirmed' = IF dialog.type \in {"delete", "commandDelete"} THEN {} ELSE confirmed
    /\ UNCHANGED <<folderVars, modeVars, running, deleting, batch, ops, acts>>

CloseDialog ==
    /\ dialog.type \notin {None, "applying"} /\ (dialog.type \in {"delete", "commandDelete"} => ~deleting)
    /\ dialog' = NoDialog
    /\ confirmed' = IF dialog.type \in {"delete", "commandDelete"} THEN {} ELSE confirmed
    /\ UNCHANGED <<folderVars, modeVars, running, deleting, batch, ops, acts>>

\* What an operation goes back to: the folder and the identity of this render.
Captured(kind) == Load(Shown, 0, Identity(sudo), kind)
Started(kind) ==
    /\ dialog' = NoDialog /\ ops' = ops \cup {Captured(kind)}
    /\ UNCHANGED <<listing, loads, loading, history, search, rows, view, modeVars, running, deleting, batch, confirmed, acts>>

HandleCreateDirectoryConfirm == dialog.type = "createFolder" /\ Listed /\ Started("run") /\ failed' = NoFailure
HandleRenameConfirm == dialog.type = "rename" /\ Started("run") /\ failed' = NoFailure
ConfirmArchive == dialog.type \in {"compress", "extract"} /\ Started("archive") /\ UNCHANGED failed

\* The permissions dialog stays up while it applies them.
HandleApplyPermissions ==
    /\ dialog.type = "permissions" /\ dialog' = [dialog EXCEPT !.type = "applying"]
    /\ ops' = ops \cup {Captured("permissions")}
    /\ UNCHANGED <<folderVars, modeVars, running, deleting, batch, confirmed, acts>>

\* The answer of runAndRefresh, or of the permissions.
OperationAnswered ==
    /\ \E o \in ops :
          /\ o.then \in {"run", "permissions"} /\ ops' = ops \ {o}
          /\ \/ BeginLoad([o EXCEPT !.then = None]) /\ dialog' = IF o.then = "run" THEN dialog ELSE NoDialog
             \/ /\ dialog' = IF o.then = "run" THEN dialog ELSE [dialog EXCEPT !.type = "permissions"]
                /\ failed' = IF o.then = "run" THEN [error |-> "other", path |-> None] ELSE failed
                /\ UNCHANGED <<listing, loads, loading, history, search, rows, view>>
    /\ UNCHANGED <<modeVars, running, deleting, batch, confirmed, acts>>

\* An archive reloads the folder only if the user still looks at it.
ArchiveAnswered ==
    /\ \E o \in ops :
          /\ o.then = "archive" /\ ops' = ops \ {o}
          /\ \/ o.path = Shown /\ BeginLoad([o EXCEPT !.then = None])
             \/ UNCHANGED folderVars
    /\ UNCHANGED <<modeVars, running, deleteVars, acts>>

\* Deleting looks first at what there is to delete.
HandleDeleteConfirm ==
    /\ dialog.type = "delete" /\ ~deleting /\ deleting' = TRUE
    /\ batch' = {[entries |-> dialog.entries, at |-> "preview"]} /\ confirmed' = dialog.entries
    /\ failed' = NoFailure
    /\ UNCHANGED <<listing, loads, loading, history, search, rows, view, modeVars, running, dialog, ops, acts>>

StartDeleteBatch(entries) ==
    /\ deleting' = TRUE /\ batch' = {[entries |-> entries, at |-> "server"]}
    /\ dialog' = NoDialog /\ rows' = [rows EXCEPT !.menu = None]

PreviewAnswered ==
    /\ \E b \in batch :
          /\ b.at = "preview"
          /\ \/ StartDeleteBatch(b.entries) /\ UNCHANGED <<confirmed, failed>>
             \/ /\ dialog' = [type |-> "commandDelete", entries |-> b.entries] /\ deleting' = FALSE /\ batch' = {}
                /\ confirmed' = {} /\ UNCHANGED <<failed, rows>>
             \/ /\ deleting' = FALSE /\ batch' = {} /\ failed' = [error |-> "other", path |-> None]
                /\ confirmed' = {} /\ UNCHANGED <<dialog, rows>>
    /\ UNCHANGED <<listing, loads, loading, history, search, view, modeVars, running, ops, acts>>

\* Either button of the dialog that offers a command for a large tree.
HandleCommandDeleteConfirm ==
    /\ dialog.type = "commandDelete" /\ ~deleting /\ StartDeleteBatch(dialog.entries) /\ confirmed' = dialog.entries
    /\ failed' = NoFailure
    /\ UNCHANGED <<listing, loads, loading, history, search, view, modeVars, running, ops, acts>>

\* The answer takes the rows out of the listing; the batch's last event, sent
\* before it, reloads the folder.
DeleteAnswered ==
    /\ \E b \in batch :
          /\ b.at = "server" /\ batch' = {} /\ deleting' = FALSE /\ confirmed' = {}
          /\ listing' = [listing EXCEPT !.entries = @ \ b.entries]
          /\ rows' = [rows EXCEPT !.selected = @ \ b.entries, !.active = IF @ \in b.entries THEN None ELSE @]
          /\ IF Listed THEN Begin(Load(Shown, 0, Identity(sudo), None)) ELSE UNCHANGED <<loads, loading, failed>>
    /\ UNCHANGED <<history, search, view, modeVars, running, dialog, ops, acts>>

DeleteFailed ==
    /\ \E b \in batch : b.at = "server" /\ batch' = {} /\ deleting' = FALSE /\ confirmed' = {}
    /\ failed' = [error |-> "other", path |-> None]
    /\ UNCHANGED <<listing, loads, loading, history, search, rows, view, modeVars, running, dialog, ops, acts>>

Step ==
    \/ DirectoryLoaded \/ DirectoryFailed \/ NavigateHistory \/ GoUp \/ SubmitPath \/ HandleOpenEntry
    \/ Refresh \/ TransferRefreshes \/ HandleReveal
    \/ ToggleDrawer \/ FollowTerminal \/ ToggleFollow \/ ShellMoves
    \/ ToggleSudo \/ OpenAsRoot
    \/ StartSearch \/ SearchAnswered \/ StopSearch \/ ClearQuery \/ TypeQuery \/ ToggleShowHidden
    \/ ClickRow \/ SelectRange \/ SelectAll \/ ToggleSelectionMode \/ ClearSelection \/ ExitSelectionMode \/ OpenMenu \/ DismissMenu
    \/ HandleCreateDirectory \/ HandleRename \/ HandlePermissions \/ HandleCompress \/ HandleExtract \/ HandleDelete \/ HandleDeleteSelection
    \/ CloseDialog \/ HandleCreateDirectoryConfirm \/ HandleRenameConfirm \/ HandleApplyPermissions
    \/ ConfirmArchive \/ OperationAnswered \/ ArchiveAnswered
    \/ HandleDeleteConfirm \/ PreviewAnswered \/ HandleCommandDeleteConfirm \/ DeleteAnswered \/ DeleteFailed

Next == FirstListing \/ (~FirstPending /\ Step)

Spec == Init /\ [][Next]_vars

----------------------------------------------------------------------------
\* The history points at the folder on screen, in whatever order the loads of
\* the user, the transfers and finished operations answer, fail or overtake
\* each other; so one step back or forward leaves this folder.
HistoryShowsListing == Listed => history.paths[history.index] = listing.path

\* The server runs no search but the one whose results are on screen.
SearchesStop == running \subseteq {search.id}

\* What is deleted is what the user confirmed and has not called off since.
DeletesAsConfirmed == \A b \in batch : b.at = "server" => b.entries = confirmed

\* Once nothing is being loaded, the listing is what the drawer's identity sees.
ListingAsIdentity == (loads = {} /\ ops = {} /\ Listed /\ failed.error = None) => listing.as = Identity(sudo)

\* The batch, looked at or being deleted, is of what was confirmed last: what keeps
\* DeletesAsConfirmed true from step to step.
ConfirmInv ==
    /\ ~deleting => batch = {}
    /\ \A b \in batch : b.entries = confirmed

\* What keeps HistoryShowsListing true from step to step: every path that is loaded, was
\* loaded or will be tried is a place, and the history's index is that of an entry.
Places == Folders \cup {Home, None}
LoadsOK(ls) == \A l \in ls : DOMAIN l = {"path", "index", "as", "then"} /\ l.path \in Places
PlacesOK ==
    /\ LoadsOK(loads) /\ LoadsOK(ops)
    /\ listing.path \in Places /\ failed.path \in Places /\ cwd \in Places
HistoryOK(h) == h.paths \in Seq(Places) /\ h.index \in 0..Len(h.paths)
PointsAt(h, path) == h.index > 0 /\ h.paths[h.index] = path
HistoryInv == PlacesOK /\ HistoryOK(history) /\ (Listed => PointsAt(history, listing.path))
=============================================================================
