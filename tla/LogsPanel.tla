----------------------------- MODULE LogsPanel -----------------------------
(***************************************************************************)
(* The page of logged sessions: a list that is read again whenever a log    *)
(* starts or stops, a filter, ticks, and deletions that are confirmed over  *)
(* a list which goes on changing.  Logs are numbered as they start.         *)
(***************************************************************************)
EXTENDS Integers, Sequences, FiniteSets

CONSTANTS
    OldLogs,        \* logs of earlier runs
    MaxLogs,        \* bound on logs
    Matching,       \* logs the filter text matches
    MaxActs,        \* bound on inputs
    MaxLists        \* bound on listings in flight

VARIABLES
    disk,           \* logs on disk
    writing,        \* the log being written, or None
    tabLogs,        \* logs the tab wrote since tTerm started, oldest first
    sessions,       \* the list on the page: ids and the one recording
    filter,         \* the filter text is typed
    selectedId, view, notice,
    checked, checkAnchor, deleting,
    dialog,         \* the confirmation on screen: its targets
    lists,          \* listings in flight: asked, or read with what they read
    tabAsk,         \* terminal_log_ids_for_tab in flight: the list it is for
    request,        \* a tab asked for its logs
    timer,          \* a refresh is due
    removals,       \* deletions in flight: their targets, then what they did (stood is a
                    \* ghost: the rows that stood ticked when it was asked for)
    removed,        \* ghost: logs deleted
    acts

pageVars == <<sessions, filter, selectedId, view, notice, checked, checkAnchor, deleting, dialog>>
diskVars == <<disk, writing, tabLogs, removed>>
callVars == <<lists, tabAsk, request, timer, removals>>
vars == <<pageVars, diskVars, callVars, acts>>

None == 0
NotListed == [ids |-> {}, recording |-> None, known |-> FALSE]
Act == acts < MaxActs /\ acts' = acts + 1
MaxOf(s) == CHOOSE x \in s : \A y \in s : y <= x

-----------------------------------------------------------------------------
(* What the page shows.                                                    *)

MatchesLogFilter(id) == ~filter \/ id \in Matching
Filtered == {id \in sessions.ids : MatchesLogFilter(id)}
Checkable == Filtered \ {sessions.recording}

\* Mutant: ticks the filter hides, or that were made before, count too.
CheckedAnywhere == checked
CheckedShown == {id \in Filtered : id \in checked /\ id # sessions.recording}
AllChecked == Checkable # {} /\ CheckedShown = Checkable

\* A row's box shows a tick.
RowTicked(id) == id \in Filtered /\ id \in checked /\ id # sessions.recording

Selected == IF selectedId \in sessions.ids THEN selectedId ELSE None
RemoveOffered == Selected # None /\ Selected # sessions.recording /\ dialog = {}
RemoveCheckedOffered == CheckedShown # {} /\ ~deleting /\ dialog = {}

IdRange(anchor, id) ==
    IF anchor \notin Checkable \/ id \notin Checkable THEN {id}
    ELSE {x \in Checkable : (anchor <= x /\ x <= id) \/ (id <= x /\ x <= anchor)}

-----------------------------------------------------------------------------
(* Listing.                                                                *)

\* refresh; a listing reads the disk some time after it was asked for.
Refresh(more) == lists' = more \o <<[stage |-> "asked", ids |-> {}, recording |-> None]>>
CanRefresh == Len(lists) < MaxLists

ListRead ==
    \E i \in DOMAIN lists :
        /\ lists[i].stage = "asked"
        /\ lists' = [lists EXCEPT ![i] = [stage |-> "read", ids |-> disk, recording |-> writing]]
        /\ UNCHANGED <<pageVars, diskVars, tabAsk, request, timer, removals, acts>>

Without(i) == SubSeq(lists, 1, i - 1) \o SubSeq(lists, i + 1, Len(lists))

\* The list arrives, or failed; whichever arrives first takes the tab's request.
Listed ==
    \E i \in DOMAIN lists :
        /\ lists[i].stage = "read" /\ tabAsk = {}
        /\ lists' = Without(i)
        /\ \/ /\ sessions' = [ids |-> lists[i].ids, recording |-> lists[i].recording, known |-> TRUE]
              /\ tabAsk' = IF request THEN {lists[i].ids} ELSE {}
              /\ request' = FALSE
           \/ UNCHANGED <<sessions, tabAsk, request>>
        /\ UNCHANGED <<filter, selectedId, view, notice, checked, checkAnchor, deleting, dialog,
                       diskVars, timer, removals, acts>>

\* The newest log of the tab that the list has; a local tab has no other.
FindTabLog(ids) ==
    LET mine == {tabLogs[k] : k \in DOMAIN tabLogs} \cap ids
    IN  IF mine = {} THEN None ELSE MaxOf(mine)

TabIdsAnswered ==
    \E ids \in tabAsk :
        /\ tabAsk' = {}
        /\ filter' = FALSE
        /\ selectedId' = FindTabLog(ids)
        /\ notice' = (FindTabLog(ids) = None)
        /\ UNCHANGED <<sessions, view, checked, checkAnchor, deleting, dialog, diskVars,
                       lists, request, timer, removals, acts>>

TimerFires ==
    /\ timer /\ CanRefresh
    /\ timer' = FALSE /\ Refresh(lists)
    /\ UNCHANGED <<pageVars, diskVars, tabAsk, request, removals, acts>>

\* showLogsForTab, and the page's own button.
AskRefresh ==
    /\ Act /\ CanRefresh
    /\ request' \in {request, TRUE} /\ Refresh(lists)
    /\ UNCHANGED <<pageVars, diskVars, tabAsk, timer, removals>>

\* A log starts or stops; the page hears of it.
LogStarts ==
    /\ Act /\ writing = None /\ Cardinality(OldLogs) + Len(tabLogs) < MaxLogs
    /\ LET id == Cardinality(OldLogs) + Len(tabLogs) + 1
       IN  /\ disk' = disk \cup {id} /\ writing' = id
           /\ tabLogs' = Append(tabLogs, id)
    /\ timer' = TRUE
    /\ UNCHANGED <<pageVars, lists, tabAsk, request, removals, removed>>

LogStops ==
    /\ Act /\ writing # None
    /\ writing' = None /\ timer' = TRUE
    /\ UNCHANGED <<pageVars, disk, tabLogs, removed, lists, tabAsk, request, removals>>

-----------------------------------------------------------------------------
(* Choosing.                                                               *)

SetFilter ==
    /\ Act /\ dialog = {} /\ filter' = ~filter
    /\ UNCHANGED <<sessions, selectedId, view, notice, checked, checkAnchor, deleting, dialog,
                   diskVars, callVars>>

Select ==
    /\ Act /\ dialog = {}
    /\ \/ /\ selectedId' \in Filtered \ {selectedId} /\ notice' = FALSE /\ UNCHANGED view
       \/ /\ Selected # None /\ view' \in {"replay", "text"} \ {view} /\ UNCHANGED <<selectedId, notice>>
    /\ UNCHANGED <<sessions, filter, checked, checkAnchor, deleting, dialog, diskVars, callVars>>

ToggleChecked ==
    /\ Act /\ dialog = {}
    /\ \E id \in Checkable, extend \in BOOLEAN :
          LET ids == IF extend THEN IdRange(checkAnchor, id) ELSE {id}
          IN  /\ checked' = IF id \in checked THEN checked \ ids ELSE checked \cup ids
              /\ checkAnchor' = id
    /\ UNCHANGED <<sessions, filter, selectedId, view, notice, deleting, dialog, diskVars, callVars>>

ToggleAll ==
    /\ Act /\ dialog = {} /\ Checkable # {}
    /\ checked' = IF AllChecked THEN {} ELSE Checkable
    /\ checkAnchor' = None
    /\ UNCHANGED <<sessions, filter, selectedId, view, notice, deleting, dialog, diskVars, callVars>>

-----------------------------------------------------------------------------
(* Deleting: of the session shown, or of the ticked ones.                  *)

Remove ==
    /\ Act /\ RemoveOffered
    /\ dialog' = {[ids |-> {Selected}, stood |-> {Selected}, many |-> FALSE, chosen |-> selectedId]}
    /\ UNCHANGED <<sessions, filter, selectedId, view, notice, checked, checkAnchor, deleting,
                   diskVars, callVars>>

RemoveChecked ==
    /\ Act /\ RemoveCheckedOffered
    /\ dialog' = {[ids |-> CheckedShown, stood |-> {id \in sessions.ids : RowTicked(id)},
                 many |-> TRUE, chosen |-> selectedId]}
    /\ UNCHANGED <<sessions, filter, selectedId, view, notice, checked, checkAnchor, deleting,
                   diskVars, callVars>>

Answer ==
    \E d \in dialog :
        /\ dialog' = {}
        /\ \/ UNCHANGED <<deleting, removals>>
           \/ /\ deleting' = (deleting \/ d.many)
              /\ removals' = removals \cup {[stage |-> "asked", ids |-> d.ids, done |-> {}, stood |-> d.stood,
                                            chosen |-> d.chosen, many |-> d.many]}
        /\ UNCHANGED <<sessions, filter, selectedId, view, notice, checked, checkAnchor, diskVars,
                       lists, tabAsk, request, timer, acts>>

\* delete_terminal_logs: one that is being logged, or cannot be deleted, does
\* not stop the rest.
Delete ==
    \E r \in removals : \E done \in SUBSET r.ids :
        /\ r.stage = "asked" /\ writing \notin done
        /\ disk' = disk \ done
        /\ removed' = removed \cup (done \cap disk)
        /\ removals' = (removals \ {r}) \cup {[r EXCEPT !.stage = "did", !.done = done]}
        /\ UNCHANGED <<pageVars, writing, tabLogs, lists, tabAsk, request, timer, acts>>

\* The answer: what is gone is no longer ticked; the page reads the list again,
\* except after a single deletion that failed.
Deleted ==
    \E r \in removals :
        /\ r.stage = "did" /\ CanRefresh
        /\ checked' = checked \ r.done
        /\ selectedId' = IF r.done = {} \/ (r.many /\ r.chosen \notin r.done) THEN selectedId ELSE None
        /\ IF r.many \/ r.done # {} THEN Refresh(lists) ELSE UNCHANGED lists
        /\ deleting' = (deleting /\ ~r.many)
        /\ removals' = removals \ {r}
        /\ UNCHANGED <<sessions, filter, view, notice, checkAnchor, dialog, diskVars,
                       tabAsk, request, timer, acts>>

Init ==
    /\ disk = OldLogs /\ writing = None /\ tabLogs = <<>> /\ removed = {}
    /\ sessions = NotListed /\ filter = FALSE /\ selectedId = None /\ view = "replay" /\ notice = FALSE
    /\ checked = {} /\ checkAnchor = None /\ deleting = FALSE /\ dialog = {}
    /\ lists = <<[stage |-> "asked", ids |-> {}, recording |-> None]>>
    /\ tabAsk = {} /\ request \in BOOLEAN /\ timer = FALSE /\ removals = {} /\ acts = 0

Next ==
    \/ ListRead \/ Listed \/ TabIdsAnswered \/ TimerFires \/ AskRefresh \/ LogStarts \/ LogStops
    \/ SetFilter \/ Select \/ ToggleChecked \/ ToggleAll
    \/ Remove \/ RemoveChecked \/ Answer \/ Delete \/ Deleted

Spec == Init /\ [][Next]_vars

-----------------------------------------------------------------------------
(* Correctness.                                                            *)

TypeOK ==
    /\ disk \subseteq 1..MaxLogs /\ writing \in 0..MaxLogs /\ sessions.ids \subseteq 1..MaxLogs
    /\ checked \subseteq 1..MaxLogs /\ selectedId \in 0..MaxLogs

\* Whatever the list, the filter and the ticks become while a deletion is
\* confirmed and runs, only logs whose rows stood ticked (or the one shown)
\* when it was asked for are deleted, and never one being written
\* (index.tsx removeChecked, "Only what the filter shows can be deleted together").
DeletesWhatStoodTicked ==
    removed' # removed =>
        \E r \in removals : removed' \ removed \subseteq (r.ids \cap r.stood) \ {writing}

\* What is asked about and what is being deleted stood ticked when it was asked for.
StoodInv ==
    /\ \A d \in dialog : d.ids \subseteq d.stood
    /\ \A r \in removals :
          /\ DOMAIN r = {"stage", "ids", "done", "stood", "chosen", "many"}
          /\ r.ids \subseteq r.stood
=============================================================================
