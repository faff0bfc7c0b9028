----------------------------- MODULE Workspace -----------------------------
(***************************************************************************)
(* The workspace: the reducer of src/lib/tabsState.ts behind useTabs, and  *)
(* what a restart brings back (useSessionPersistence, useSessionRestore).  *)
(* Every operation of the reducer is followed by settleGroups.             *)
(*                                                                         *)
(* A tab is [id, type]; its title, icon, connection and isActive (equal to *)
(* id = activeTabId wherever it is written) are left out.  The questions a *)
(* closing asks first are in module Closing: here it has been agreed to.   *)
(***************************************************************************)
EXTENDS TabGroups

CONSTANTS
    MaxTabId,     \* bound on the ids generateTabId hands out
    MaxGroupId,   \* bound on the group ids handed out
    Shapes,       \* the layout templates
    Splits        \* the directions panes are split in


VARIABLES
    state,          \* TabsState: tabs, activeTabId, groups, groupCount
    tabIdCounter    \* useTabs' counter

vars == <<state, tabIdCounter>>

Types == {"session", "page", "remote-file-editor"}

TabIdSeq(tabs) == [i \in DOMAIN tabs |-> tabs[i].id]
TabIds(s) == ToSet(TabIdSeq(s.tabs))
TypeOf(s, id) == s.tabs[IndexOf(TabIdSeq(s.tabs), id)].type

----------------------------------------------------------------------------
(* The reducer.                                                            *)

Grouped(s, reconciled) ==
    [s EXCEPT !.groups = FocusPaneInGroups(reconciled, s.activeTabId),
              !.groupCount = @ + Cardinality({i \in DOMAIN reconciled :
                                                reconciled[i].id > s.groupCount})]

Listed(s, order) ==
    [s EXCEPT !.tabs = [i \in DOMAIN order |-> @[IndexOf(TabIdSeq(@), order[i])]]]

InBarOrder(s) == Listed(s, BarOrder(s.groups))

\* Every tab in one group, the active tab its group's active pane, and the
\* tabs listed in the order of the bar.
SettleGroups(s) == InBarOrder(Grouped(s, ReconcileGroups(s.groups, TabIdSeq(s.tabs), s.groupCount)))

SettleUnordered(s) == Grouped(s, ReconcileGroups(s.groups, TabIdSeq(s.tabs), s.groupCount))

ActivateTabInState(s, id) ==
    IF id \in TabIds(s) THEN [s EXCEPT !.activeTabId = id] ELSE s

RemoveKeepsActive(s, ids, preferred, activatePreferred) ==
    [s EXCEPT !.tabs = SelectSeq(s.tabs, LAMBDA tab : tab.id \notin ids)]

\* The active tab after a removal: the current one if it is left (unless the
\* preferred one is to be activated), then the preferred one, then the tab at
\* the active one's place in the list.
RemoveTabsFromState(s, ids, preferred, activatePreferred) ==
    LET remaining == SelectSeq(s.tabs, LAMBDA tab : tab.id \notin ids)
        left == ToSet(TabIdSeq(remaining))
        index == IF s.activeTabId \in TabIds(s) THEN IndexOf(TabIdSeq(s.tabs), s.activeTabId) ELSE 1
        fallback == remaining[IF index > Len(remaining) THEN Len(remaining) ELSE index].id
    IN  IF TabIds(s) \cap ids = {} THEN s
        ELSE [s EXCEPT
                !.tabs = remaining,
                !.activeTabId =
                    IF remaining = <<>> THEN NoTab
                    ELSE IF activatePreferred /\ preferred \in left THEN preferred
                    ELSE IF ~activatePreferred /\ @ \in left THEN @
                    ELSE IF preferred \in left THEN preferred
                    ELSE IF @ \in left THEN @
                    ELSE fallback]

RemoveTabs(s, ids, preferred, activatePreferred) ==
    LET groups == RemoveTabsFromGroups(s.groups, ids)
        wanted == IF preferred # NoTab THEN preferred
                  ELSE GetFallbackTabId(s.groups, groups, s.activeTabId)
    IN  [RemoveTabsFromState(s, ids, wanted, activatePreferred) EXCEPT !.groups = groups]

CanCopy(s, id) == id \in TabIds(s) /\ TypeOf(s, id) = "session"

\* A copy of a session tab, into a group of its own or into a pane beside it.
DuplicateTab(s, id, newId, split) ==
    IF ~CanCopy(s, id) THEN s
    ELSE [s EXCEPT
            !.tabs = Append(@, [id |-> newId, type |-> "session"]),
            !.activeTabId = newId,
            !.groups = IF split = "none" THEN @
                       ELSE [s.groups EXCEPT ![FindGroupOfTab(s.groups, id)] =
                               Group(@.id, InsertNextTo(@.root, id, PaneLeaf(newId), split),
                                     @.activeTabId, NoTab)]]

\* Whether the group of the tab has more panes than the shape has places
\* decides how many new group ids are handed out.
ApplyTemplate(s, id, shape, newIds) ==
    LET copies == IF CanCopy(s, id) THEN newIds ELSE <<>>
        groups == ApplyTemplateToGroups(s.groups, id, shape, copies, s.groupCount)
    IN  IF groups = s.groups THEN s
        ELSE ActivateTabInState(
               [s EXCEPT !.tabs = @ \o [i \in DOMAIN copies |-> [id |-> copies[i], type |-> "session"]],
                         !.groups = groups,
                         !.groupCount = @ + Len(groups) - Len(s.groups)], id)

BreakOut(s, id, place) ==
    LET groups == BreakOutPane(s.groups, id, s.groupCount + 1, place)
    IN  IF groups = s.groups THEN s
        ELSE ActivateTabInState([s EXCEPT !.groups = groups, !.groupCount = @ + 1], id)

Ungroup(s, id) ==
    LET groups == UngroupPanes(s.groups, id, s.groupCount)
    IN  [s EXCEPT !.groups = groups, !.groupCount = @ + Len(groups) - Len(s.groups)]

Merge(s, id, targetId, direction) ==
    LET groups == MergeGroup(s.groups, id, targetId, direction)
    IN  IF groups = s.groups \/ ~HasGroup(groups, targetId) THEN s
        ELSE ActivateTabInState([s EXCEPT !.groups = groups],
                                groups[FindGroupOfTab(groups, targetId)].activeTabId)

----------------------------------------------------------------------------
(* Saving and restoring.                                                   *)

PersistableTabs(s) == SelectSeq(s.tabs, LAMBDA tab : tab.type = "session")

PersistedActiveTabId(tabs, activeTabId, fallback) ==
    LET ids == TabIdSeq(tabs)
    IN  CASE activeTabId \in ToSet(ids) -> activeTabId
          [] activeTabId \notin ToSet(ids) /\ fallback \in ToSet(ids) -> fallback
          [] OTHER -> IF ids = <<>> THEN NoTab ELSE ids[1]

\* The session file's content for a state.
SavedSession(s, fallback) ==
    LET tabs == PersistableTabs(s)
    IN  [tabs |-> tabs,
         activeTabId |-> PersistedActiveTabId(tabs, s.activeTabId, fallback),
         layout |-> SerializeTabGroups(s.groups, ToSet(TabIdSeq(tabs)))]

RestoredState(session) ==
    LET ids == TabIdSeq(session.tabs)
        groups == RestoreTabGroups(session.layout, ids)
    IN  SettleGroups([tabs |-> session.tabs,
                      activeTabId |-> session.activeTabId,
                      groups |-> [i \in DOMAIN groups |->
                                    Group(i, groups[i].root, groups[i].activeTabId,
                                          groups[i].zoomedTabId)],
                      groupCount |-> Len(groups)])

\* The state a program starts in that has no session to restore: one local terminal.
FirstTab(id) == SettleGroups([tabs |-> <<[id |-> id, type |-> "session"]>>, activeTabId |-> id,
                              groups |-> <<>>, groupCount |-> 0])

----------------------------------------------------------------------------
Init ==
    /\ state = FirstTab(1)
    /\ tabIdCounter = 1

\* A dispatched state is settled before anything sees it.
Dispatch(s) ==
    state' = SettleGroups(s) /\ state'.groupCount <= MaxGroupId

Operation(s) == Dispatch(s) /\ UNCHANGED tabIdCounter

NewIds(n) == [i \in 1..n |-> tabIdCounter + i]

TakeIds(n) == tabIdCounter + n <= MaxTabId /\ tabIdCounter' = tabIdCounter + n

Added(s, type) ==
    [s EXCEPT !.tabs = Append(@, [id |-> tabIdCounter + 1, type |-> type]),
              !.activeTabId = tabIdCounter + 1]

\* Opening a terminal, a connection or a remote file.
AddTab ==
    \E type \in {"session", "remote-file-editor"} : TakeIds(1) /\ Dispatch(Added(state, type))

\* A page is opened once; asking again activates it, though the id is spent.
OpenPage ==
    LET open == {i \in DOMAIN state.tabs : state.tabs[i].type = "page"}
    IN  /\ TakeIds(1)
        /\ Dispatch(IF open = {} THEN Added(state, "page")
                    ELSE ActivateTabInState(state, state.tabs[CHOOSE i \in open : TRUE].id))

SetActive == \E id \in TabIds(state) : Operation(ActivateTabInState(state, id))

Move ==
    \E from, to \in DOMAIN state.groups :
        Operation([state EXCEPT !.groups = MoveGroup(@, from, to)])

Duplicate ==
    \E id \in TabIds(state), split \in Splits \cup {"none"} :
        CanCopy(state, id) /\ TakeIds(1) /\ Dispatch(DuplicateTab(state, id, tabIdCounter + 1, split))

PlacePaneBeside ==
    \E id, targetId \in TabIds(state), direction \in Splits :
        Operation(ActivateTabInState(
            [state EXCEPT !.groups = PlacePane(@, id, targetId, direction)], id))

MergeGroups ==
    \E id, targetId \in TabIds(state), direction \in Splits :
        Operation(Merge(state, id, targetId, direction))

BreakOutOfGroup ==
    \E id \in TabIds(state), place \in {NoPlace} \cup 1..(Len(state.groups) + 1) :
        Operation(BreakOut(state, id, place))

UngroupAll == \E id \in TabIds(state) : Operation(Ungroup(state, id))

TogglePaneZoom ==
    \E id \in TabIds(state) :
        Operation(ActivateTabInState([state EXCEPT !.groups = ToggleZoom(@, id)], id))

ApplyLayoutTemplate ==
    \E id \in TabIds(state), shape \in Shapes :
        LET panes == Len(GetPaneIds(state.groups[FindGroupOfTab(state.groups, id)].root))
            places == CountTemplatePanes(shape)
            missing == IF places > panes THEN places - panes ELSE 0
        IN  TakeIds(missing) /\ Dispatch(ApplyTemplate(state, id, shape, NewIds(missing)))

\* Deleting a profile closes the tabs connected with it, without asking.
DeleteProfile ==
    \E ids \in SUBSET {id \in TabIds(state) : TypeOf(state, id) = "session"} :
        ids # {} /\ Operation(RemoveTabs(state, ids, NoTab, FALSE))

Close(ids, preferred, activatePreferred) ==
    Operation(RemoveTabs(state, ids, preferred, activatePreferred))

\* handleRemoveTab: one pane.
ClosePane == \E id \in TabIds(state) : Close({id}, NoTab, FALSE)

\* handleCloseTab: a tab of the bar with all its panes.
CloseTab == \E i \in DOMAIN state.groups : Close(PaneSet(state.groups[i].root), NoTab, FALSE)

\* closeTabsOfBar: the others, or those on one side.
CloseTabsOfBar ==
    \E i \in DOMAIN state.groups, action \in {"close-others", "close-left", "close-right"} :
        LET groups == state.groups
            targets == GetTabIdsForCloseAction([j \in DOMAIN groups |-> groups[j].id],
                                               groups[i].id, action)
            ids == UNION {PaneSet(groups[j].root) : j \in {k \in DOMAIN groups : groups[k].id \in targets}}
        IN  ids # {} /\ Close(ids, groups[i].activeTabId, action = "close-others")

\* The program ends, its session having been written a second after the last
\* change, and starts again.  Without tabs to restore it opens one.  The
\* fallback is the last active tab that was no page, open or closed by now.
Restart ==
    \E session \in {SavedSession(state, fallback) : fallback \in 1..tabIdCounter} :
        /\ state' = IF session.tabs = <<>> THEN FirstTab(1) ELSE RestoredState(session)
        /\ tabIdCounter' = Max(TabIds(state'))

Next ==
    \/ AddTab \/ OpenPage \/ SetActive \/ Move \/ Duplicate
    \/ PlacePaneBeside \/ MergeGroups \/ BreakOutOfGroup \/ UngroupAll
    \/ TogglePaneZoom \/ ApplyLayoutTemplate \/ DeleteProfile
    \/ ClosePane \/ CloseTab \/ CloseTabsOfBar \/ Restart

Spec == Init /\ [][Next]_vars

----------------------------------------------------------------------------
(* What the workspace promises.                                            *)

TypeOK ==
    /\ \A i \in DOMAIN state.tabs :
         state.tabs[i].id \in 1..tabIdCounter /\ state.tabs[i].type \in Types
    /\ state.activeTabId \in TabIds(state) \cup {NoTab}
    /\ state.groupCount \in 0..MaxGroupId
    /\ \A i \in DOMAIN state.groups : state.groups[i].id \in 1..state.groupCount
    /\ tabIdCounter \in 1..MaxTabId

\* "Every tab sits in one group ... and the tabs are listed in the order the
\* bar shows their groups" (settleGroups), whatever was split, merged, moved,
\* laid out, closed or restored; and no group id is handed out twice.
OneGroupPerTab ==
    /\ BarOrder(state.groups) = TabIdSeq(state.tabs)
    /\ IsInjective(TabIdSeq(state.tabs))
    /\ IsInjective([i \in DOMAIN state.groups |-> state.groups[i].id])

\* There is an active tab as long as there are tabs; it is its group's active
\* pane, and no zoom of another pane hides it.
ActiveTabInSight ==
    state.tabs # <<>> =>
        /\ state.activeTabId \in TabIds(state)
        /\ state.groups[FindGroupOfTab(state.groups, state.activeTabId)].activeTabId
               = state.activeTabId
        /\ state.activeTabId \in GetVisiblePaneIds(state.groups, state.activeTabId)

\* The pane a group focuses when it is chosen is one of its panes, and the one
\* it shows when it is zoomed: choosing a zoomed tab of the bar never ends its zoom.
ZoomShowsActivePane ==
    \A i \in DOMAIN state.groups :
        LET group == state.groups[i]
        IN  /\ group.activeTabId \in PaneSet(group.root)
            /\ group.zoomedTabId \in {NoTab, group.activeTabId}

\* normalizePaneTree: every tree is in its "one canonical shape" - no split of
\* one child, none inside a split of the same orientation - after any
\* sequence of operations.
RECURSIVE IsCanonical(_)
IsCanonical(node) ==
    \/ node.type = "pane"
    \/ /\ Len(node.children) >= 2
       /\ \A i \in DOMAIN node.children :
            /\ IsCanonical(node.children[i])
            /\ node.children[i].type = "split" => node.children[i].orientation # node.orientation

CanonicalTrees == \A i \in DOMAIN state.groups : IsCanonical(state.groups[i].root)

\* A restart brings back the sessions in the bar's order, together the ones
\* that shared a tab, focused and zoomed as they were: what is left of a group
\* does not depend on the pages and remote files beside it.
RestartKeepsLayout ==
    LET session == SavedSession(state, NoTab)
        restored == RestoredState(session)
        sessions == ToSet(TabIdSeq(session.tabs))
        together(s, a, b) == FindGroupOfTab(s.groups, a) = FindGroupOfTab(s.groups, b)
        zoomed(s) == {s.groups[i].zoomedTabId : i \in DOMAIN s.groups}
    IN  session.tabs # <<>> =>
          /\ restored.tabs = session.tabs
          /\ \A a, b \in sessions : together(restored, a, b) <=> together(state, a, b)
          /\ state.activeTabId \in sessions => restored.activeTabId = state.activeTabId
          /\ sessions = TabIds(state) =>
               /\ [i \in DOMAIN state.groups |-> state.groups[i].root]
                    = [i \in DOMAIN restored.groups |-> restored.groups[i].root]
               /\ zoomed(restored) = zoomed(state)

\* When the active tab goes, the focus stays in its tab of the bar while that
\* has a pane left, and else moves to the next one, or the last.
FocusFollowsClosing ==
    (state.activeTabId \notin TabIds(state') /\ state'.tabs # <<>> /\ ~Restart)
    => LET index == FindGroupOfTab(state.groups, state.activeTabId)
           left == {state'.groups[i].id : i \in DOMAIN state'.groups}
           here == {i \in DOMAIN state.groups : i >= index /\ state.groups[i].id \in left}
           focused == state'.groups[FindGroupOfTab(state'.groups, state'.activeTabId)].id
       IN  IF here = {} THEN focused = state'.groups[Len(state'.groups)].id
           ELSE focused = state.groups[CHOOSE i \in here : \A j \in here : i <= j].id
=============================================================================
