------------------------------ MODULE Updater ------------------------------
(***************************************************************************)
(* Updating the app: checks in the background and on demand, the download,  *)
(* the installation, and the dialog, toast and settings page that offer     *)
(* them.  Each operation shares its own request in flight and publishes a   *)
(* status; operations of different kinds can overlap.                       *)
(***************************************************************************)
EXTENDS Integers, FiniteSets

CONSTANTS
    Channels,
    MaxVersion,     \* bound on the releases of a channel
    MaxActs         \* bound on what the user and the timers start

VARIABLES
    state,          \* the published state
    pending,        \* pendingUpdate and its channel
    downloadedCh,   \* downloadedUpdateChannel
    installed,      \* hasInstalledUpdate
    check, download, install, both,     \* the operations in flight
    failed,         \* failedOperation
    background,     \* the run of a background check
    timer, leaked,  \* the timer that can be cleared, and others that run
    config,         \* channel and auto_download_updates
    dismissed,      \* the dialog's and the notification's dismissed states
    releases, cached,   \* the newest release and the downloaded one, per channel
    running,        \* the version installed by an update
    acts

opVars == <<check, download, install, both>>
memVars == <<pending, downloadedCh, installed, failed>>
timerVars == <<background, timer, leaked>>
envVars == <<releases, cached, running>>
vars == <<state, memVars, opVars, timerVars, config, dismissed, envVars, acts>>

None == "none"
NoUpdate == [ver |-> 0, ch |-> None]
NoCheck == [step |-> None, ch |-> None, silent |-> FALSE]
NoDownload == [step |-> None, ch |-> None, publishes |-> FALSE]
NoRun == [ch |-> None, auto |-> FALSE]
NoFailure == [action |-> None, ch |-> None]

Init ==
    /\ state = [status |-> "idle", ch |-> "stable", latest |-> 0]
    /\ pending = NoUpdate /\ downloadedCh = None /\ installed = FALSE /\ failed = NoFailure
    /\ check = NoCheck /\ download = NoDownload /\ install = None /\ both = None
    /\ background = NoRun /\ timer = "stable" /\ leaked = {}
    /\ config \in [ch : {"stable"}, auto : BOOLEAN]
    /\ dismissed = [dialog |-> <<None, 0>>, note |-> None]
    /\ releases = [c \in Channels |-> 0] /\ cached = [c \in Channels |-> 0] /\ running = 0 /\ acts = 0

Act == acts < MaxActs /\ acts' = acts + 1
Publish(s) == state' = [state EXCEPT !.status = s]

----------------------------------------------------------------------------
(* Checking.                                                               *)

\* A check starts unless an update is installed or under way; one in flight is shared.
CanCheck == ~installed /\ download = NoDownload /\ install = None /\ both = None
StartCheck(c, silent) ==
    check' = IF CanCheck /\ check = NoCheck THEN [step |-> "version", ch |-> c, silent |-> silent] ELSE check

GotVersion ==
    /\ check.step = "version" /\ check' = [check EXCEPT !.step = "ask"]
    /\ state' = [state EXCEPT !.status = "checking", !.ch = check.ch] /\ failed' = NoFailure
    /\ UNCHANGED <<pending, downloadedCh, installed, download, install, both, timerVars, config, dismissed, envVars, acts>>

\* A download that waits for this check goes on, or ends without an update.
Found == releases[check.ch]
WaitingGoesOn(found) ==
    IF download.step # "check" THEN UNCHANGED <<download, both>>
    ELSE IF found = 0 THEN download' = NoDownload /\ both' = None
    ELSE download' = [download EXCEPT !.step = "fetch"] /\ UNCHANGED both

\* Mutant: a silent check that finds nothing leaves the status alone.
CheckAnsweredQuietly ==
    /\ check.step = "ask" /\ check' = NoCheck /\ Found = 0 /\ pending' = NoUpdate /\ WaitingGoesOn(0)
    /\ state' = IF check.silent THEN state ELSE [state EXCEPT !.status = "not-available", !.latest = 0]
    /\ UNCHANGED <<downloadedCh, installed, failed, install, timerVars, config, dismissed, envVars, acts>>

CheckAnswered ==
    /\ check.step = "ask" /\ check' = NoCheck /\ WaitingGoesOn(Found)
    /\ pending' = IF Found = 0 THEN NoUpdate ELSE [ver |-> Found, ch |-> check.ch]
    /\ state' = [state EXCEPT !.latest = Found, !.ch = IF download.step = "check" THEN download.ch ELSE @,
                              !.status = IF download.step = "check" /\ Found # 0 THEN "downloading"
                                         ELSE IF Found # 0 THEN "available"
                                         ELSE IF check.silent THEN "idle" ELSE "not-available"]
    /\ UNCHANGED <<downloadedCh, installed, failed, install, timerVars, config, dismissed, envVars, acts>>

CheckFails ==
    /\ check.step = "ask" /\ check' = NoCheck /\ WaitingGoesOn(0)
    /\ failed' = IF check.silent THEN NoFailure ELSE [action |-> "check", ch |-> check.ch]
    /\ Publish(IF check.silent THEN "idle" ELSE "error")
    /\ UNCHANGED <<pending, downloadedCh, installed, install, timerVars, config, dismissed, envVars, acts>>

----------------------------------------------------------------------------
(* Downloading and installing.                                             *)

Skips(c) == downloadedCh = c \/ installed

\* The download proper, or the check it needs first.
StartDownload(c, publishes) ==
    IF download # NoDownload THEN UNCHANGED <<download, check, state, failed>>
    ELSE IF pending.ch = c
    THEN /\ download' = [step |-> "fetch", ch |-> c, publishes |-> publishes] /\ failed' = NoFailure
         /\ state' = [state EXCEPT !.status = "downloading", !.ch = c, !.latest = pending.ver] /\ UNCHANGED check
    ELSE /\ StartCheck(c, TRUE) /\ UNCHANGED <<state, failed>>
         /\ download' = IF check' = NoCheck THEN NoDownload ELSE [step |-> "check", ch |-> c, publishes |-> publishes]

\* installDownloadedAppUpdate.
StartInstall(c) ==
    IF installed THEN Publish("ready") /\ UNCHANGED <<install, failed>>
    ELSE IF install # None THEN UNCHANGED <<install, state, failed>>
    ELSE install' = c /\ failed' = NoFailure /\ state' = [state EXCEPT !.status = "installing", !.ch = c]

\* downloadAndInstallAppUpdate, shared while one is in flight.
StartBoth(c) ==
    IF both # None THEN UNCHANGED <<both, download, check, install, state, failed>>
    ELSE IF Skips(c) THEN StartInstall(c) /\ UNCHANGED <<both, download, check>>
    ELSE /\ StartDownload(c, FALSE) /\ UNCHANGED install
         /\ both' = IF download' = NoDownload THEN None ELSE c

DownloadAnswered ==
    /\ download.step = "fetch" /\ download' = NoDownload /\ both' = None
    /\ IF releases[download.ch] = 0
       THEN /\ state' = [state EXCEPT !.status = "not-available", !.latest = 0]
            /\ UNCHANGED <<cached, downloadedCh, install, failed>>
       ELSE /\ cached' = [cached EXCEPT ![download.ch] = releases[download.ch]] /\ downloadedCh' = download.ch
            /\ IF both # None THEN StartInstall(both)
               ELSE IF download.publishes THEN Publish("downloaded") /\ UNCHANGED <<install, failed>>
               ELSE UNCHANGED <<state, install, failed>>
    /\ UNCHANGED <<pending, installed, check, timerVars, config, dismissed, releases, running, acts>>

DownloadFails ==
    /\ download.step = "fetch" /\ download' = NoDownload /\ both' = None /\ Publish("error")
    /\ failed' = [action |-> IF download.publishes /\ both = None THEN "download" ELSE "both", ch |-> download.ch]
    /\ UNCHANGED <<pending, downloadedCh, installed, check, install, timerVars, config, dismissed, envVars, acts>>

\* Without a downloaded update there is nothing to install.
InstallAnswered ==
    /\ install # None /\ install' = None /\ downloadedCh' = None
    /\ IF cached[install] = 0
       THEN /\ Publish("error") /\ failed' = [action |-> "check", ch |-> install] /\ UNCHANGED <<installed, pending, running, cached>>
       ELSE /\ Publish("ready") /\ installed' = TRUE /\ pending' = NoUpdate /\ running' = cached[install]
            /\ cached' = [cached EXCEPT ![install] = 0] /\ UNCHANGED failed
    /\ UNCHANGED <<check, download, both, timerVars, config, dismissed, releases, acts>>

\* A file that cannot be read is forgotten.
InstallFails ==
    /\ install # None /\ install' = None /\ Publish("error") /\ failed' = [action |-> "install", ch |-> install]
    /\ \/ cached' = [cached EXCEPT ![install] = 0]
       \/ UNCHANGED cached
    /\ UNCHANGED <<pending, downloadedCh, installed, check, download, both, timerVars, config, dismissed, releases, running, acts>>

----------------------------------------------------------------------------
(* Background checks.                                                      *)

\* The timer that can be cleared fires, or one left over from a run that
\* scheduled it after it had been stopped.
BackgroundCheck ==
    /\ background = NoRun /\ Act
    /\ \E c \in leaked \cup ({timer} \ {None}) :
          /\ background' = [ch |-> c, auto |-> config.auto] /\ StartCheck(c, TRUE)
          /\ IF c = timer THEN timer' = None /\ UNCHANGED leaked ELSE leaked' = leaked \ {c} /\ UNCHANGED timer
    /\ UNCHANGED <<state, memVars, download, install, both, config, dismissed, envVars>>

\* The run goes on after the check: it saves the time, which restarts the
\* timers, downloads, and schedules its next run, in either order: a timer
\* that is replaced before it is cleared keeps running.
BackgroundRun ==
    /\ background # NoRun /\ check = NoCheck /\ background' = NoRun
    /\ \/ timer' = background.ch /\ leaked' = leaked \cup {config.ch}
       \/ timer' = config.ch /\ UNCHANGED leaked
    /\ IF pending # NoUpdate /\ background.auto
       THEN IF Skips(background.ch)
            THEN Publish(IF installed THEN "ready" ELSE "downloaded") /\ UNCHANGED <<download, check, failed>>
            ELSE StartDownload(background.ch, TRUE)
       ELSE UNCHANGED <<download, check, state, failed>>
    /\ UNCHANGED <<pending, downloadedCh, installed, install, both, config, dismissed, envVars, acts>>

\* startBackgroundUpdateChecks with the new settings.
SettingsChange ==
    /\ state.status \notin {"checking", "downloading", "installing"} /\ Act
    /\ \/ \E c \in Channels \ {config.ch} : config' = [config EXCEPT !.ch = c] /\ timer' = c
       \/ config' = [config EXCEPT !.auto = ~@] /\ timer' = config.ch
       \/ timer' = None /\ timer # None /\ UNCHANGED config        \* never
    /\ UNCHANGED <<state, memVars, opVars, background, leaked, dismissed, envVars>>

----------------------------------------------------------------------------
(* The dialog, the toast and the settings page.                            *)

Busy == state.status \in {"checking", "downloading", "installing"}
DialogShown ==
    /\ dismissed.dialog # <<state.status, state.latest>>
    /\ (state.status = "available" /\ ~config.auto) \/ state.status = "downloaded"

CloseDialog ==
    /\ DialogShown /\ dismissed' = [dismissed EXCEPT !.dialog = <<state.status, state.latest>>]
    /\ UNCHANGED <<state, memVars, opVars, timerVars, config, envVars, acts>>

Notified == state.status \in {"downloading", "installing", "ready", "error"} /\ dismissed.note # state.status
DismissNotification ==
    /\ Notified /\ dismissed' = [dismissed EXCEPT !.note = state.status]
    /\ UNCHANGED <<state, memVars, opVars, timerVars, config, envVars, acts>>

\* In the dialog, which closes, or on the settings page.
ClickDownloadInstall ==
    /\ state.status = "available" /\ Act /\ StartBoth(config.ch)
    /\ dismissed' = IF DialogShown THEN [dismissed EXCEPT !.dialog = <<state.status, state.latest>>] ELSE dismissed
    /\ UNCHANGED <<pending, downloadedCh, installed, timerVars, config, envVars>>

ClickInstall ==
    /\ state.status = "downloaded" /\ Act /\ StartInstall(state.ch)
    /\ dismissed' = IF DialogShown THEN [dismissed EXCEPT !.dialog = <<state.status, state.latest>>] ELSE dismissed
    /\ UNCHANGED <<pending, downloadedCh, installed, check, download, both, timerVars, config, envVars>>

CheckNow ==
    /\ ~Busy /\ Act /\ StartCheck(config.ch, FALSE)
    /\ UNCHANGED <<state, memVars, download, install, both, timerVars, config, dismissed, envVars>>

RetryAppUpdate ==
    /\ state.status = "error" /\ failed # NoFailure /\ Act
    /\ \/ failed.action = "check" /\ StartCheck(failed.ch, FALSE) /\ UNCHANGED <<state, failed, download, install, both>>
       \/ failed.action = "download" /\ UNCHANGED <<install, both>> /\
             IF Skips(failed.ch) THEN Publish(IF installed THEN "ready" ELSE "downloaded") /\ UNCHANGED <<download, check, failed>>
             ELSE StartDownload(failed.ch, TRUE)
       \/ failed.action = "both" /\ StartBoth(failed.ch)
       \/ failed.action = "install" /\ StartInstall(failed.ch) /\ UNCHANGED <<check, download, both>>
    /\ UNCHANGED <<pending, downloadedCh, installed, timerVars, config, dismissed, envVars>>

NewRelease ==
    /\ Act /\ \E c \in Channels : releases[c] < MaxVersion /\ releases' = [releases EXCEPT ![c] = @ + 1]
    /\ UNCHANGED <<state, memVars, opVars, timerVars, config, dismissed, cached, running>>

Next ==
    \/ GotVersion \/ CheckAnswered \/ CheckFails \/ DownloadAnswered \/ DownloadFails \/ InstallAnswered \/ InstallFails
    \/ BackgroundCheck \/ BackgroundRun \/ SettingsChange \/ CloseDialog \/ DismissNotification
    \/ ClickDownloadInstall \/ ClickInstall \/ CheckNow \/ RetryAppUpdate \/ NewRelease

Spec == Init /\ [][Next]_vars

----------------------------------------------------------------------------
\* A status that disables the update controls belongs to an operation that is
\* still in flight and will publish another one: however checks, downloads and
\* installations overlap, nobody is left looking at a spinner.
BusyMeansWork ==
    /\ state.status = "checking" => check # NoCheck \/ download # NoDownload \/ install # None
    /\ state.status = "downloading" => download # NoDownload \/ check # NoCheck \/ install # None
    /\ state.status = "installing" => install # None \/ check # NoCheck \/ download # NoDownload

\* "Version {{version}} is installed. Restart tTerm to use it."
ReadyVersionInstalled == state.status = "ready" => running = state.latest

----------------------------------------------------------------------------
(* Why a busy status ends: an operation knows its channel, and a download   *)
(* that publishes nothing of its own is part of downloadAndInstallAppUpdate. *)

Records ==
    /\ DOMAIN state = {"status", "ch", "latest"} /\ DOMAIN config = {"ch", "auto"}
    /\ DOMAIN check = {"step", "ch", "silent"} /\ DOMAIN download = {"step", "ch", "publishes"}
ChannelsNamed ==
    /\ state.ch # None /\ config.ch # None /\ None \notin leaked
    /\ background # NoRun => background.ch # None
    /\ failed # NoFailure => failed.ch # None
    /\ check # NoCheck => check.ch # None
    /\ download # NoDownload => download.ch # None
QuietIsForBoth ==
    /\ both # None => download # NoDownload
    /\ download # NoDownload /\ ~download.publishes => both # None
BusyInv == Records /\ ChannelsNamed /\ QuietIsForBoth /\ BusyMeansWork
=============================================================================
