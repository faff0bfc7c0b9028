------------------------------ MODULE Closing ------------------------------
(***************************************************************************)
(* The questions of the main window: useTabClosing asks before it closes   *)
(* tabs, useQuitGuard before the program quits, and both - like the        *)
(* broadcast - through the one place useConfirmDialog (app-dialog.tsx) has *)
(* for a question.  A question asked over another takes its place, and     *)
(* the flow that asked the first never hears an answer.                    *)
(*                                                                         *)
(* A dialog is modal: the user acts only when none is open.  Events keep   *)
(* coming: a save ends, a quit is asked for, a broadcast's targets are     *)
(* connected and it asks.  A tab's type is fixed; what its session does    *)
(* and the order of the tabs are left out (module Workspace).              *)
(***************************************************************************)
EXTENDS Naturals, FiniteSets

CONSTANTS
    Sessions,     \* terminal tabs
    Files         \* remote-file-editor tabs

VARIABLES
    open,         \* tabs that are open
    together,     \* tabs that share a tab of the bar with one another
    modified,     \* remote files with unsaved changes
    saving,       \* remote files being saved
    busy,         \* sessions with a pending or running transfer
    closing,      \* the closing under way: stage, targets, what was said to be discarded
    dialog,       \* whose question is on screen
    preflight,    \* a broadcast is having its targets connected
    atStake,      \* QuitBlockers is not empty
    promptOpen,   \* ExitGuardState.prompt_open
    quit          \* quit-requested on its way, or the way the program ended

vars == <<open, together, modified, saving, busy, closing, dialog, preflight, atStake,
          promptOpen, quit>>

AllTabs == Sessions \cup Files
NoClosing == [stage |-> "none"]

Running == quit \notin {"agreed", "insisted", "unguarded"}
UserActs == Running /\ dialog = "none"

Init ==
    /\ open = AllTabs
    /\ together \in SUBSET AllTabs
    /\ modified = {} /\ saving = {} /\ busy = {}
    /\ closing = NoClosing
    /\ dialog = "none"
    /\ preflight = FALSE
    /\ atStake \in BOOLEAN
    /\ promptOpen = FALSE
    /\ quit = "none"

\* confirm: the question takes the place of the one on screen, whose flow is
\* left waiting for good.
Confirm(owner) == dialog' = owner

Abandoned(owner) == dialog = "closing" /\ owner # "closing"

----------------------------------------------------------------------------
(* What tabs do meanwhile.                                                 *)

Edit ==
    /\ UserActs
    /\ \E f \in Files \cap open : modified' = modified \cup {f}
    /\ UNCHANGED <<open, together, saving, busy, closing, dialog, preflight, atStake, promptOpen, quit>>

Save ==
    /\ UserActs
    /\ \E f \in modified \ saving : saving' = saving \cup {f}
    /\ UNCHANGED <<open, together, modified, busy, closing, dialog, preflight, atStake, promptOpen, quit>>

SaveEnds ==
    /\ Running
    /\ \E f \in saving :
        /\ saving' = saving \ {f}
        /\ modified' \in {modified, modified \ {f}}
    /\ UNCHANGED <<open, together, busy, closing, dialog, preflight, atStake, promptOpen, quit>>

StartTransfer ==
    /\ UserActs
    /\ \E s \in Sessions \cap open : busy' = busy \cup {s}
    /\ UNCHANGED <<open, together, modified, saving, closing, dialog, preflight, atStake, promptOpen, quit>>

TransferEnds ==
    /\ Running
    /\ \E s \in busy : busy' = busy \ {s}
    /\ UNCHANGED <<open, together, modified, saving, closing, dialog, preflight, atStake, promptOpen, quit>>

----------------------------------------------------------------------------
(* useTabClosing.                                                          *)

\* removeTabs, whatever of the targets is left.
Remove(targets) ==
    /\ open' = open \ targets
    /\ modified' = modified \ targets
    /\ saving' = saving \ targets
    /\ busy' = busy \ targets
    /\ closing' = NoClosing
    /\ dialog' = "none"

Ask(stage, targets, discarded, transfers) ==
    /\ Confirm("closing")
    /\ closing' = [stage |-> stage, targets |-> targets, discarded |-> discarded,
                   transfers |-> transfers]
    /\ UNCHANGED <<open, modified, saving, busy>>

ThenUnasked(targets, discarded, transfers) == Remove(targets)

\* confirmCloseTabsWithTransfers, of the transfers the closing began with.
ThenTransfers(targets, discarded, transfers) ==
    IF transfers \cap targets # {} THEN Ask("transfers", targets, discarded, transfers)
    ELSE Remove(targets)

ThenUnsavedAfter(targets, transfers) ==
    IF transfers \cap targets # {} THEN Ask("transfers", targets, {}, transfers)
    ELSE IF modified \cap targets # {} THEN Ask("unsaved", targets, modified \cap targets, transfers)
    ELSE Remove(targets)

\* confirmCloseTabsWithUnsavedRemoteFiles, of the tabs as they are now.
ThenUnsaved(targets, transfers) ==
    IF modified \cap targets # {} THEN Ask("unsaved", targets, modified \cap targets, transfers)
    ELSE ThenTransfers(targets, {}, transfers)

\* handleRemoveTab
RemoveTab == UserActs /\ \E t \in open : ThenUnsaved({t}, busy)

\* handleCloseTab: a tab of the bar with its panes; two sessions or more ask first.
CloseTab ==
    /\ UserActs
    /\ \E t \in open :
        LET targets == IF t \in together THEN together \cap open ELSE {t}
        IN  IF Cardinality(targets \cap Sessions) >= 2 THEN Ask("split", targets, {}, busy)
            ELSE ThenUnsaved(targets, busy)

\* closeTabsOfBar
CloseTabsOfBar ==
    /\ UserActs
    /\ \E t \in open :
        LET kept == IF t \in together THEN together ELSE {t}
        IN  open \ kept # {} /\ ThenUnsaved(open \ kept, busy)

AnswerClosing ==
    /\ Running /\ dialog = "closing"
    /\ \/ /\ closing.stage = "split"
          /\ ThenUnsaved(closing.targets, closing.transfers)
       \/ /\ closing.stage = "unsaved"
          /\ ThenTransfers(closing.targets, closing.discarded, closing.transfers)
       \/ /\ closing.stage = "transfers"
          /\ Remove(closing.targets)
       \/ \* no
          /\ closing' = NoClosing /\ dialog' = "none"
          /\ UNCHANGED <<open, modified, saving, busy>>

Closings ==
    /\ RemoveTab \/ CloseTab \/ CloseTabsOfBar \/ AnswerClosing
    /\ UNCHANGED <<together, preflight, atStake, promptOpen, quit>>

----------------------------------------------------------------------------
(* The broadcast's questions, asked when its targets are connected.        *)

StartBroadcast ==
    /\ UserActs /\ ~preflight
    /\ preflight' = TRUE
    /\ UNCHANGED <<open, together, modified, saving, busy, closing, dialog, atStake, promptOpen, quit>>

BroadcastAsks ==
    /\ Running /\ preflight /\ preflight' = FALSE
    /\ Confirm("broadcast")
    /\ closing' = IF Abandoned("broadcast") THEN NoClosing ELSE closing
    /\ UNCHANGED <<open, together, modified, saving, busy, atStake, promptOpen, quit>>

BroadcastAnswered ==
    /\ Running /\ dialog = "broadcast" /\ dialog' = "none"
    /\ UNCHANGED <<open, together, modified, saving, busy, closing, preflight, atStake, promptOpen, quit>>

----------------------------------------------------------------------------
(* The quit guard.                                                         *)

\* Tunnels start and stop, files opened from SFTP are changed and uploaded.
BlockersChange ==
    /\ Running /\ atStake' = ~atStake
    /\ UNCHANGED <<open, together, modified, saving, busy, closing, dialog, preflight, promptOpen, quit>>

\* hold_exit_for_confirmation: the window is closed, or the system asks to quit.
RequestQuit ==
    /\ Running
    /\ CASE ~atStake -> quit' = "unguarded" /\ UNCHANGED promptOpen
         [] atStake /\ promptOpen -> quit' = "insisted" /\ UNCHANGED promptOpen
         [] OTHER -> quit' = "event" /\ promptOpen' = TRUE
    /\ UNCHANGED <<open, together, modified, saving, busy, closing, dialog, preflight, atStake>>

QuitAsks ==
    /\ quit = "event" /\ quit' = "none"
    /\ Confirm("quit")
    /\ closing' = IF Abandoned("quit") THEN NoClosing ELSE closing
    /\ UNCHANGED <<open, together, modified, saving, busy, preflight, atStake, promptOpen>>

\* confirm_quit_app or cancel_quit_prompt
QuitAnswered ==
    /\ Running /\ dialog = "quit" /\ dialog' = "none"
    /\ \/ quit' = "agreed" /\ UNCHANGED promptOpen
       \/ promptOpen' = FALSE /\ UNCHANGED quit
    /\ UNCHANGED <<open, together, modified, saving, busy, closing, preflight, atStake>>

----------------------------------------------------------------------------
Next ==
    \/ Edit \/ Save \/ SaveEnds \/ StartTransfer \/ TransferEnds
    \/ Closings
    \/ StartBroadcast \/ BroadcastAsks \/ BroadcastAnswered
    \/ BlockersChange \/ RequestQuit \/ QuitAsks \/ QuitAnswered

Spec == Init /\ [][Next]_vars

----------------------------------------------------------------------------
TypeOK ==
    /\ open \subseteq AllTabs /\ together \subseteq AllTabs
    /\ modified \subseteq Files \cap open /\ saving \subseteq modified
    /\ busy \subseteq Sessions \cap open
    /\ closing.stage \in {"none", "split", "unsaved", "transfers"}
    /\ dialog \in {"none", "closing", "broadcast", "quit"}
    /\ preflight \in BOOLEAN /\ atStake \in BOOLEAN /\ promptOpen \in BOOLEAN
    /\ quit \in {"none", "event", "agreed", "insisted", "unguarded"}

\* A remote file with unsaved changes is closed only after a question that
\* named it: useTabClosing asks "when that would ... discard unsaved remote
\* files", however many questions come before and whatever changes under them.
UnsavedNeverDropped ==
    \A f \in modified \ open' :
        dialog = "closing" /\ closing.stage # "split" /\ f \in closing.discarded

\* Nothing but the answer to its own question closes what was asked about:
\* a closing left without an answer stays undone.
AnsweredClosingsOnly ==
    open' # open =>
        \/ dialog = "none" /\ (open \ open') \cap (modified \cup busy) = {}
        \/ dialog = "closing" /\ open \ open' = open \cap closing.targets

\* What makes them hold: the question on screen is that of the closing under way, and from
\* the question about unsaved changes on it has named all there are.
ClosingInv ==
    /\ modified \subseteq open
    /\ dialog = "closing" =>
        /\ closing.stage \in {"split", "unsaved", "transfers"}
        /\ closing.stage # "split" => modified \cap closing.targets \subseteq closing.discarded

\* "Asking to quit again while the prompt is open means the user insists"
\* (exit_guard.rs): the program quits without an answer, with something at
\* stake, only while the prompt is on its way to the screen or on it.
InsistsAtThePrompt ==
    quit' = "insisted" /\ quit # "insisted" => quit = "event" \/ dialog = "quit"
=============================================================================
