----------------------------- MODULE SshImport -----------------------------
(***************************************************************************)
(* Importing hosts of an SSH config file as profiles: a dialog that         *)
(* previews the file, whose previews may answer in any order, and the       *)
(* command that reads the file once more and writes profiles and tunnels.   *)
(***************************************************************************)
EXTENDS Integers, Sequences, SequencesExt

CONSTANTS
    Paths,          \* config files that can be typed or picked
    Hosts,          \* host patterns
    MaxPreviews,    \* bound on previews asked for
    MaxActs         \* bound on inputs

VARIABLES
    file,           \* the files: each host "absent", "ready" or "skipped"
    isOpen, sourcePath, overwriteExisting, importForwards,
    preview,        \* what the last answered preview found, by host, or NoPreview
    selectedHosts, loadingPreview, importing,
    previews,       \* previews in flight: the path, and what was read of it
    import,         \* the import in flight, or NoImport
    profiles,       \* stored profiles of the group: "own" or "imported", by host
    listed,         \* the profiles the panel lists
    rules,          \* hosts whose forwards are tunnel rules
    asked, acts

dialogVars == <<isOpen, sourcePath, overwriteExisting, importForwards, preview, selectedHosts,
                loadingPreview, importing>>
callVars == <<previews, import, asked>>
storeVars == <<file, profiles, listed, rules>>
vars == <<dialogVars, callVars, storeVars, acts>>

NoPreview == [h \in Hosts |-> "absent"]
Unread == [h \in Hosts |-> "unread"]
NoImport == [hosts |-> {}, path |-> CHOOSE p \in Paths : TRUE, overwrite |-> FALSE,
             forwards |-> FALSE, shown |-> {}]
Contents == [Hosts -> {"absent", "ready", "skipped"}]

Act == acts < MaxActs /\ acts' = acts + 1

-----------------------------------------------------------------------------
(* What the dialog offers.                                                 *)

SelectableHosts == {h \in Hosts : preview[h] = "ready"}

\* The rows' boxes: a skipped host's is disabled, and no row is shown while loading.
CanTick(h) == isOpen /\ ~loadingPreview /\ preview[h] = "ready"
CanTickAll == isOpen /\ SelectableHosts # {}
CanPreview == isOpen /\ ~loadingPreview

CanImport == isOpen /\ ~importing /\ selectedHosts # {}

-----------------------------------------------------------------------------
(* Previews.                                                               *)

AskPreview(path) ==
    /\ asked < MaxPreviews
    /\ asked' = asked + 1
    /\ previews' = Append(previews, [path |-> path, found |-> Unread])

\* The dialog opens and previews the path it has.
OpenDialog ==
    /\ Act /\ ~isOpen
    /\ isOpen' = TRUE /\ loadingPreview' = TRUE
    /\ AskPreview(sourcePath)
    /\ UNCHANGED <<sourcePath, overwriteExisting, importForwards, preview, selectedHosts, importing,
                   import, storeVars>>

\* Cancel, or a press outside: nothing in flight is given up.
CloseDialog ==
    /\ Act /\ isOpen
    /\ isOpen' = FALSE
    /\ UNCHANGED <<sourcePath, overwriteExisting, importForwards, preview, selectedHosts,
                   loadingPreview, importing, callVars, storeVars>>

LoadPreview ==
    /\ Act /\ CanPreview
    /\ loadingPreview' = TRUE
    /\ AskPreview(sourcePath)
    /\ UNCHANGED <<isOpen, sourcePath, overwriteExisting, importForwards, preview, selectedHosts,
                   importing, import, storeVars>>

\* chooseSourceDirectory and chooseSourceFile, when something was picked.
ChooseSource ==
    /\ Act /\ isOpen
    /\ \E path \in Paths :
          sourcePath' = path /\ AskPreview(path)
    /\ loadingPreview' = TRUE
    /\ UNCHANGED <<isOpen, overwriteExisting, importForwards, preview, selectedHosts, importing,
                   import, storeVars>>

TypePath ==
    /\ Act /\ isOpen
    /\ \E path \in Paths \ {sourcePath} : sourcePath' = path
    /\ UNCHANGED <<isOpen, overwriteExisting, importForwards, preview, selectedHosts,
                   loadingPreview, importing, callVars, storeVars>>

\* preview_ssh_config_import reads the file.
ReadPreview ==
    \E i \in DOMAIN previews :
       /\ previews[i].found = Unread
       /\ previews' = [previews EXCEPT ![i].found = file[previews[i].path]]
       /\ UNCHANGED <<dialogVars, import, asked, storeVars, acts>>

PreviewFound ==
    \E i \in DOMAIN previews :
       LET found == previews[i].found IN
       /\ found # Unread
       /\ preview' = found
       /\ sourcePath' = previews[i].path
       /\ selectedHosts' = {h \in Hosts : found[h] = "ready"}
       /\ loadingPreview' = FALSE
       /\ previews' = RemoveAt(previews, i)
       /\ UNCHANGED <<isOpen, overwriteExisting, importForwards, importing, import, asked,
                      storeVars, acts>>

\* Mutant: a failed preview takes the rows away and leaves their ticks.
FailedKeepsTicks == preview' = NoPreview /\ UNCHANGED selectedHosts
ShowsNothing == preview' = NoPreview /\ selectedHosts' = {}

PreviewFailed ==
    \E i \in DOMAIN previews :
       /\ ShowsNothing
       /\ loadingPreview' = FALSE
       /\ previews' = RemoveAt(previews, i)
       /\ UNCHANGED <<isOpen, sourcePath, overwriteExisting, importForwards, importing, import,
                      asked, storeVars, acts>>

-----------------------------------------------------------------------------
(* Ticks and options.                                                      *)

ToggleHost ==
    /\ Act
    /\ \E h \in Hosts :
          /\ CanTick(h)
          /\ selectedHosts' = IF h \in selectedHosts THEN selectedHosts \ {h}
                              ELSE selectedHosts \cup {h}
    /\ UNCHANGED <<isOpen, sourcePath, overwriteExisting, importForwards, preview, loadingPreview,
                   importing, callVars, storeVars>>

ToggleAll ==
    /\ Act /\ CanTickAll
    /\ selectedHosts' = IF selectedHosts = SelectableHosts THEN {} ELSE SelectableHosts
    /\ UNCHANGED <<isOpen, sourcePath, overwriteExisting, importForwards, preview, loadingPreview,
                   importing, callVars, storeVars>>

SetOptions ==
    /\ Act /\ isOpen
    /\ \/ overwriteExisting' = ~overwriteExisting /\ UNCHANGED importForwards
       \/ importForwards' = ~importForwards /\ UNCHANGED overwriteExisting
    /\ UNCHANGED <<isOpen, sourcePath, preview, selectedHosts, loadingPreview, importing,
                   callVars, storeVars>>

-----------------------------------------------------------------------------
(* Importing.                                                              *)

HandleImport ==
    /\ Act /\ CanImport
    /\ importing' = TRUE
    /\ import' = [hosts |-> selectedHosts, path |-> sourcePath, overwrite |-> overwriteExisting,
                  forwards |-> importForwards, shown |-> SelectableHosts]
    /\ UNCHANGED <<isOpen, sourcePath, overwriteExisting, importForwards, preview, selectedHosts,
                   loadingPreview, previews, asked, storeVars>>

\* import_ssh_config_profiles takes every host when it is sent none.
Chosen(h) == file[import.path][h] = "ready" /\ (import.hosts = {} \/ h \in import.hosts)
Written == {h \in Hosts : Chosen(h) /\ (profiles[h] = "none" \/ import.overwrite)}

\* The profiles are written, then their forwards in a transaction of their own.
ImportDone ==
    /\ importing
    /\ profiles' = [h \in Hosts |-> IF h \in Written THEN "imported" ELSE profiles[h]]
    /\ rules' = IF import.forwards THEN rules \cup {h \in Hosts : Chosen(h)} ELSE rules
    /\ listed' = profiles'
    /\ isOpen' = FALSE /\ importing' = FALSE
    /\ import' = NoImport
    /\ UNCHANGED <<sourcePath, overwriteExisting, importForwards, preview, selectedHosts,
                   loadingPreview, previews, asked, file, acts>>

\* The file could not be read, or a transaction failed: the second leaves the profiles.
ImportFailed ==
    /\ importing
    /\ \/ UNCHANGED profiles
       \/ /\ import.forwards
          /\ profiles' = [h \in Hosts |-> IF h \in Written THEN "imported" ELSE profiles[h]]
    /\ importing' = FALSE
    /\ import' = NoImport
    /\ UNCHANGED <<isOpen, sourcePath, overwriteExisting, importForwards, preview, selectedHosts,
                   loadingPreview, previews, asked, file, listed, rules, acts>>

\* The file is edited elsewhere.
FileEdited ==
    /\ Act
    /\ \E path \in Paths, h \in Hosts, s \in {"absent", "ready"} :
          file' = [file EXCEPT ![path][h] = s]
    /\ UNCHANGED <<dialogVars, callVars, profiles, listed, rules>>

Init ==
    /\ file \in [Paths -> Contents]
    /\ isOpen = FALSE /\ sourcePath \in Paths
    /\ overwriteExisting = FALSE /\ importForwards = TRUE
    /\ preview = NoPreview /\ selectedHosts = {}
    /\ loadingPreview = FALSE /\ importing = FALSE
    /\ previews = <<>> /\ import = NoImport
    /\ profiles \in [Hosts -> {"none", "own"}]
    /\ listed = profiles /\ rules = {}
    /\ asked = 0 /\ acts = 0

Next ==
    \/ OpenDialog \/ CloseDialog \/ LoadPreview \/ ChooseSource \/ TypePath
    \/ ReadPreview \/ PreviewFound \/ PreviewFailed
    \/ ToggleHost \/ ToggleAll \/ SetOptions
    \/ HandleImport \/ ImportDone \/ ImportFailed \/ FileEdited

Spec == Init /\ [][Next]_vars

-----------------------------------------------------------------------------
\* Only hosts that stood ticked in the preview on screen when Import was pressed get a
\* profile or tunnels, whatever previews answer meanwhile and whatever the file says by then.
ImportsTickedOnly ==
    \A h \in Hosts :
        (profiles'[h] # profiles[h] \/ (h \in rules' /\ h \notin rules))
        => h \in import.hosts \cap import.shown

\* Ticks are on rows that can be ticked, and an import that runs has hosts: it is never the
\* empty choice that import_ssh_config_profiles takes for all of them.
TickInv ==
    /\ selectedHosts \subseteq SelectableHosts
    /\ importing => import.hosts # {} /\ import.hosts \subseteq import.shown
=============================================================================
