--------------------------- MODULE CommandLibrary ---------------------------
(***************************************************************************)
(* The command library: the list of saved commands, its editor and tag      *)
(* manager, the recent commands, and inserting a command into the terminal  *)
(* or the compose bar, asking first where the command calls for it.         *)
(*                                                                         *)
(* The requests run on their own: each reads or writes the stored commands  *)
(* at some moment before its answer, and a sync can change them in between. *)
(***************************************************************************)
EXTENDS Integers, Sequences, FiniteSets, SequencesExt

CONSTANTS
    Ids,            \* saved commands
    Texts,          \* texts run in terminals
    RecentLimit,    \* RECENT_COMMANDS_LIMIT
    MaxFetches,     \* bound on loads in flight
    MaxEdits,       \* bound on the versions of a command
    MaxActs         \* bound on what the user starts

VARIABLES
    library,        \* open, list mode, spinner, error
    commands, chosen,   \* the list in memory and the command picked in it
    fetches,        \* loads in flight: what they read, once they have
    stored, synced, \* the database; a sync wrote to it and has not told yet
    requests,       \* favourites, deletions and saves in flight
    layer,          \* the dialog over or instead of the library
    insert,         \* the insertion in flight
    recents, quick, \* recent commands, and the one being saved from a terminal
    tagging,        \* a change of tags is in flight
    written,        \* what reached a terminal, and what the user said yes to for it
    acts

libVars == <<library, commands, chosen, fetches>>
flowVars == <<requests, layer, insert, written>>
vars == <<libVars, stored, synced, flowVars, recents, quick, tagging, acts>>

None == "none"
NoCommand == [ver |-> 0, kind |-> None, fav |-> FALSE]
Kinds == {"plain", "guarded", "variables"}
NoLayer == [type |-> None, id |-> None, cmd |-> NoCommand, to |-> None]
NoInsert == [from |-> None, id |-> None, cmd |-> NoCommand, to |-> None, asked |-> 0]
Unread == [read |-> FALSE, saw |-> [i \in Ids |-> NoCommand]]

Init ==
    /\ library = [open |-> FALSE, mode |-> "all", loading |-> FALSE, error |-> FALSE]
    /\ stored \in {[i \in Ids |-> IF i = "c1" THEN [ver |-> 1, kind |-> k, fav |-> FALSE] ELSE NoCommand] : k \in Kinds}
    /\ commands = [i \in Ids |-> NoCommand] /\ chosen = None /\ fetches = {} /\ synced = FALSE
    /\ requests = {} /\ layer = NoLayer /\ insert = NoInsert
    /\ recents = <<>> /\ quick = FALSE /\ tagging = FALSE /\ written = {} /\ acts = 0

Act == acts < MaxActs /\ acts' = acts + 1

----------------------------------------------------------------------------
(* Loading (useCommandLibraryData).                                        *)

\* A load that has not read yet is asked for; those that differ in nothing
\* are one.
Fetch == Cardinality(fetches) < MaxFetches /\ fetches' = fetches \cup {Unread}

LoadCommands ==
    /\ library' = [library EXCEPT !.loading = TRUE, !.error = FALSE]
    /\ Fetch /\ UNCHANGED <<commands, chosen>>

\* onOpenChange(true), with the load of the effect that follows.
Reopen ==
    IF library.open THEN UNCHANGED libVars
    ELSE /\ library' = [library EXCEPT !.open = TRUE, !.loading = TRUE, !.error = FALSE]
         /\ Fetch /\ UNCHANGED <<commands, chosen>>
Shut == library' = [library EXCEPT !.open = FALSE] /\ UNCHANGED <<commands, chosen, fetches>>

HandleOpenCommandLibrary ==
    /\ ~library.open /\ layer = NoLayer /\ ~quick /\ Act /\ Reopen
    /\ UNCHANGED <<stored, synced, flowVars, recents, quick, tagging>>

CloseLibrary ==
    /\ library.open /\ layer = NoLayer /\ Shut
    /\ UNCHANGED <<stored, synced, flowVars, recents, quick, tagging, acts>>

FetchReads ==
    /\ \E f \in fetches : ~f.read /\ fetches' = (fetches \ {f}) \cup {[read |-> TRUE, saw |-> stored]}
    /\ UNCHANGED <<library, commands, chosen, stored, synced, flowVars, recents, quick, tagging, acts>>

FetchCommands ==
    /\ \E f \in fetches :
          /\ f.read /\ fetches' = fetches \ {f} /\ commands' = f.saw
          /\ chosen' = IF chosen # None /\ f.saw[chosen] # NoCommand THEN chosen ELSE None
          /\ library' = [library EXCEPT !.loading = FALSE]
    /\ UNCHANGED <<stored, synced, flowVars, recents, quick, tagging, acts>>

FetchFails ==
    /\ \E f \in fetches : f.read /\ fetches' = fetches \ {f}
    /\ library' = [library EXCEPT !.loading = FALSE, !.error = TRUE]
    /\ UNCHANGED <<commands, chosen, stored, synced, flowVars, recents, quick, tagging, acts>>

Retry ==
    /\ library.open /\ layer = NoLayer /\ library.error /\ ~library.loading /\ Act /\ LoadCommands
    /\ UNCHANGED <<stored, synced, flowVars, recents, quick, tagging>>

\* Another device's edit or deletion, and the event of the sync that brought it.
SyncWrites ==
    /\ Act /\ synced' = TRUE
    /\ \E i \in Ids : stored[i] # NoCommand /\
          \/ stored' = [stored EXCEPT ![i] = NoCommand]
          \/ stored[i].ver < MaxEdits /\ stored' = [stored EXCEPT ![i].ver = @ + 1]
    /\ UNCHANGED <<libVars, flowVars, recents, quick, tagging>>

OnSyncApplied ==
    /\ synced /\ synced' = FALSE
    /\ IF library.open THEN LoadCommands ELSE UNCHANGED libVars
    /\ UNCHANGED <<stored, flowVars, recents, quick, tagging, acts>>

----------------------------------------------------------------------------
(* The list and what is selected in it.                                    *)

FilteredCommands ==
    {i \in Ids : commands[i] # NoCommand /\ library.mode # "recent" /\ (library.mode = "favorites" => commands[i].fav)}

\* The chosen command, or while it is filtered out the first one shown.
SelectedId ==
    IF library.mode = "recent" \/ chosen \in FilteredCommands \/ FilteredCommands = {} THEN chosen
    ELSE CHOOSE i \in FilteredCommands : TRUE
Detail(i) == library.open /\ layer = NoLayer /\ library.mode # "recent" /\ i = SelectedId /\ i \in FilteredCommands
ListShown == library.open /\ layer = NoLayer /\ ~library.loading /\ ~library.error

SetMode ==
    /\ library.open /\ layer = NoLayer
    /\ \E m \in {"all", "favorites", "recent"} \ {library.mode} : library' = [library EXCEPT !.mode = m]
    /\ UNCHANGED <<commands, chosen, fetches, stored, synced, flowVars, recents, quick, tagging, acts>>

SelectCommand ==
    /\ ListShown /\ \E i \in FilteredCommands \ {chosen} : chosen' = i
    /\ UNCHANGED <<library, commands, fetches, stored, synced, flowVars, recents, quick, tagging, acts>>

\* The answer of a save or of a favourite replaces the command, or adds it.
HandleSaved(i, c) == commands' = [commands EXCEPT ![i] = c] /\ chosen' = i

Request(kind, i, c) == [kind |-> kind, id |-> i, cmd |-> c]
Ask(r) == r.kind \notin {q.kind : q \in requests} /\ requests' = requests \cup {r}

HandleFavorite ==
    /\ ListShown /\ Act
    /\ \E i \in FilteredCommands : Ask(Request("favorite", i, [commands[i] EXCEPT !.fav = ~@]))
    /\ UNCHANGED <<libVars, stored, synced, layer, insert, written, recents, quick, tagging>>

\* Starring a recent command: the saved one with its text, or a new one.
HandleRecentFavorite ==
    /\ library.open /\ layer = NoLayer /\ library.mode = "recent" /\ recents # <<>> /\ Act
    /\ IF commands["c1"] # NoCommand THEN Ask(Request("recent", "c1", [commands["c1"] EXCEPT !.fav = ~@]))
       ELSE \E i \in Ids : stored[i] = NoCommand /\ Ask(Request("recent", i, [ver |-> 1, kind |-> "plain", fav |-> TRUE]))
    /\ UNCHANGED <<libVars, stored, synced, layer, insert, written, recents, quick, tagging>>

\* The database's part of either, and the answer; a command that is gone fails.
FavoriteAnswered ==
    /\ \E r \in requests :
          /\ r.kind \in {"favorite", "recent"} /\ requests' = requests \ {r}
          /\ LET now == [stored[r.id] EXCEPT !.fav = r.cmd.fav] IN
             \/ stored[r.id] # NoCommand /\ stored' = [stored EXCEPT ![r.id] = now] /\ HandleSaved(r.id, now)
             \/ r.kind = "recent" /\ stored[r.id] = NoCommand
                /\ stored' = [stored EXCEPT ![r.id] = r.cmd] /\ HandleSaved(r.id, r.cmd)
             \/ UNCHANGED <<stored, commands, chosen>>
    /\ UNCHANGED <<library, fetches, synced, layer, insert, written, recents, quick, tagging, acts>>

----------------------------------------------------------------------------
(* Editing and deleting.                                                   *)

OpenEditor ==
    /\ library.open /\ layer = NoLayer /\ Act /\ Shut
    /\ \/ layer' = [NoLayer EXCEPT !.type = "editor"]
       \/ \E i \in Ids : Detail(i) /\ layer' = [NoLayer EXCEPT !.type = "editor", !.id = i, !.cmd = commands[i]]
    /\ UNCHANGED <<stored, synced, requests, insert, written, recents, quick, tagging>>

HandleEditorOpenChange ==
    /\ layer.type = "editor" /\ "save" \notin {r.kind : r \in requests} /\ layer' = NoLayer /\ Reopen
    /\ UNCHANGED <<stored, synced, requests, insert, written, recents, quick, tagging, acts>>

\* What the form's fields can make of a command.
Edited(c) == {[c EXCEPT !.kind = k, !.ver = @ + 1] : k \in {j \in Kinds : c.ver < MaxEdits}}

\* The form as it is now, under the id of the command it was opened for.
HandleSubmit ==
    /\ layer.type = "editor" \/ quick
    /\ \E i \in Ids, c \in Edited(layer.cmd) :
          /\ IF layer.id = None THEN stored[i] = NoCommand ELSE i = layer.id
          /\ Ask(Request("save", i, c))
    /\ UNCHANGED <<libVars, stored, synced, layer, insert, written, recents, quick, tagging, acts>>

SaveAnswered ==
    /\ \E r \in requests :
          /\ r.kind = "save" /\ requests' = requests \ {r} /\ ~quick
          /\ \/ /\ stored' = [stored EXCEPT ![r.id] = r.cmd] /\ HandleSaved(r.id, r.cmd) /\ layer' = NoLayer
                /\ library' = [library EXCEPT !.open = TRUE, !.loading = TRUE, !.error = FALSE] /\ Fetch
             \/ UNCHANGED <<libVars, stored, layer>>
    /\ UNCHANGED <<synced, insert, written, recents, quick, tagging, acts>>

\* A command saved from a terminal, with the library closed.
HandleSaveCommand ==
    /\ ~quick /\ layer = NoLayer /\ ~library.open /\ recents # <<>> /\ Act /\ quick' = TRUE
    /\ UNCHANGED <<libVars, stored, synced, flowVars, recents, tagging>>

QuickSaveEnds ==
    /\ quick /\ quick' = FALSE
    /\ \/ requests = {} /\ UNCHANGED <<stored, requests>>
       \/ \E r \in requests : r.kind = "save" /\ requests' = requests \ {r} /\ stored' = [stored EXCEPT ![r.id] = r.cmd]
    /\ UNCHANGED <<libVars, synced, layer, insert, written, recents, tagging, acts>>

HandleDelete ==
    /\ \E i \in Ids : Detail(i) /\ layer' = [NoLayer EXCEPT !.type = "delete", !.id = i]
    /\ Act /\ Shut /\ UNCHANGED <<stored, synced, requests, insert, written, recents, quick, tagging>>

AnswerDelete ==
    /\ layer.type = "delete" /\ layer' = NoLayer
    /\ \/ Ask(Request("delete", layer.id, NoCommand)) /\ UNCHANGED libVars
       \/ Reopen /\ UNCHANGED requests
    /\ UNCHANGED <<stored, synced, insert, written, recents, quick, tagging, acts>>

DeleteAnswered ==
    /\ \E r \in requests :
          /\ r.kind = "delete" /\ requests' = requests \ {r}
          /\ \/ /\ stored' = [stored EXCEPT ![r.id] = NoCommand] /\ commands' = [commands EXCEPT ![r.id] = NoCommand]
                /\ chosen' = IF chosen = r.id THEN None ELSE chosen
             \/ UNCHANGED <<stored, commands, chosen>>
          /\ IF library.open THEN UNCHANGED <<library, fetches>>
             ELSE library' = [library EXCEPT !.open = TRUE, !.loading = TRUE, !.error = FALSE] /\ Fetch
    /\ UNCHANGED <<synced, layer, insert, written, recents, quick, tagging, acts>>

----------------------------------------------------------------------------
(* Inserting (useCommandInsertion).                                        *)

Inserting == insert # NoInsert

\* insertCommandText: the compose bar takes the text at once.
InsertCommandText(from, i, c, to, asked) ==
    insert' = [from |-> from, id |-> i, cmd |-> c, to |-> to, asked |-> asked]

\* A command with variables asks for them, showing what will be inserted; a
\* guarded one asks before it is typed into a terminal.
HandleInsert ==
    /\ ~Inserting /\ Act
    /\ \E i \in Ids, to \in {"terminal", "composer"} :
          /\ Detail(i)
          /\ \/ /\ commands[i].kind = "variables"
                /\ layer' = [type |-> "fill", id |-> i, cmd |-> commands[i], to |-> to] /\ Shut /\ UNCHANGED insert
             \/ /\ commands[i].kind = "guarded" /\ to = "terminal"
                /\ layer' = [type |-> "confirm", id |-> i, cmd |-> commands[i], to |-> to] /\ Shut /\ UNCHANGED insert
             \/ /\ commands[i].kind = "plain" \/ (commands[i].kind = "guarded" /\ to = "composer")
                /\ InsertCommandText("list", i, commands[i], to, 0) /\ UNCHANGED <<libVars, layer>>
    /\ UNCHANGED <<stored, synced, requests, written, recents, quick, tagging>>

\* Mutant: what is inserted is the command as it is now.
AnswerWithTheListed ==
    /\ layer.type = "confirm" /\ layer' = NoLayer
    /\ \/ InsertCommandText("confirm", layer.id, commands[layer.id], layer.to, layer.cmd.ver) /\ UNCHANGED libVars
       \/ Reopen /\ UNCHANGED insert
    /\ UNCHANGED <<stored, synced, requests, written, recents, quick, tagging, acts>>

AnswerConfirm ==
    /\ layer.type = "confirm" /\ layer' = NoLayer
    /\ \/ InsertCommandText("confirm", layer.id, layer.cmd, layer.to, layer.cmd.ver) /\ UNCHANGED libVars
       \/ Reopen /\ UNCHANGED insert
    /\ UNCHANGED <<stored, synced, requests, written, recents, quick, tagging, acts>>

HandleFillSubmit ==
    /\ layer.type = "fill" /\ ~Inserting /\ InsertCommandText("fill", layer.id, layer.cmd, layer.to, layer.cmd.ver)
    /\ UNCHANGED <<libVars, stored, synced, requests, layer, written, recents, quick, tagging, acts>>

HandleFillCancel ==
    /\ layer.type = "fill" /\ ~Inserting /\ layer' = NoLayer /\ Reopen
    /\ UNCHANGED <<stored, synced, requests, insert, written, recents, quick, tagging, acts>>

\* The answer of the write, which a terminal that is gone refuses; after it the
\* dialog it came from closes, or the library comes back.
HandleInsertCommandText ==
    /\ Inserting /\ insert' = NoInsert
    /\ \/ /\ written' = IF insert.to = "terminal" THEN written \cup {[cmd |-> insert.cmd, asked |-> insert.asked]} ELSE written
          /\ layer' = IF insert.from = "fill" THEN NoLayer ELSE layer
          /\ IF insert.from = "list" THEN Shut ELSE UNCHANGED libVars
       \/ /\ insert.to = "terminal" /\ UNCHANGED <<written, layer>>
          /\ IF insert.from = "confirm" THEN Reopen ELSE UNCHANGED libVars
    /\ UNCHANGED <<stored, synced, requests, recents, quick, tagging, acts>>

\* A recent command goes in as it is.
InsertRecent ==
    /\ library.open /\ layer = NoLayer /\ library.mode = "recent" /\ recents # <<>> /\ ~Inserting /\ Act
    /\ \E to \in {"terminal", "composer"} : InsertCommandText("list", None, [ver |-> 1, kind |-> "plain", fav |-> FALSE], to, 0)
    /\ UNCHANGED <<libVars, stored, synced, requests, layer, written, recents, quick, tagging>>

----------------------------------------------------------------------------
(* Recent commands and tags.                                               *)

AddRecentCommand(seq, text) ==
    LET all == <<text>> \o Remove(seq, text) IN SubSeq(all, 1, IF Len(all) > RecentLimit THEN RecentLimit ELSE Len(all))

HandleTerminalCommandExecuted ==
    /\ Act /\ \E t \in Texts : recents' = AddRecentCommand(recents, t)
    /\ UNCHANGED <<libVars, stored, synced, flowVars, quick, tagging>>

OpenTagManager ==
    /\ library.open /\ layer = NoLayer /\ layer' = [NoLayer EXCEPT !.type = "tags"]
    /\ UNCHANGED <<libVars, stored, synced, requests, insert, written, recents, quick, tagging, acts>>

CloseTagManager ==
    /\ layer.type = "tags" /\ layer' = NoLayer
    /\ UNCHANGED <<libVars, stored, synced, requests, insert, written, recents, quick, tagging, acts>>

\* Renaming and deleting a tag change the commands that have it, and load them again.
ChangeTag ==
    /\ layer.type = "tags" /\ ~tagging /\ Act /\ tagging' = TRUE
    /\ UNCHANGED <<libVars, stored, synced, flowVars, recents, quick>>

TagAnswered ==
    /\ tagging /\ tagging' = FALSE
    /\ \/ LoadCommands
       \/ UNCHANGED libVars
    /\ UNCHANGED <<stored, synced, flowVars, recents, quick, acts>>

Next ==
    \/ HandleOpenCommandLibrary \/ CloseLibrary \/ FetchReads \/ FetchCommands \/ FetchFails \/ Retry
    \/ SyncWrites \/ OnSyncApplied \/ SetMode \/ SelectCommand
    \/ HandleFavorite \/ HandleRecentFavorite \/ FavoriteAnswered
    \/ OpenEditor \/ HandleEditorOpenChange \/ HandleSubmit \/ SaveAnswered \/ HandleSaveCommand \/ QuickSaveEnds
    \/ HandleDelete \/ AnswerDelete \/ DeleteAnswered
    \/ HandleInsert \/ AnswerConfirm \/ HandleFillSubmit \/ HandleFillCancel \/ HandleInsertCommandText \/ InsertRecent
    \/ HandleTerminalCommandExecuted \/ OpenTagManager \/ CloseTagManager \/ ChangeTag \/ TagAnswered

Spec == Init /\ [][Next]_vars

----------------------------------------------------------------------------
\* A command that asks first reaches a terminal only in the version the user
\* said yes to, even if a sync, a load or a save replaces it in the meantime.
InsertedAsConfirmed == \A w \in written : w.cmd.kind # "plain" => w.asked = w.cmd.ver

\* What is on its way into a terminal without having been asked about needs no asking.
InsertInv ==
    /\ InsertedAsConfirmed
    /\ (insert.to = "terminal" /\ insert.cmd.kind # "plain") => insert.asked = insert.cmd.ver
=============================================================================
