------------------------------ MODULE MCWindow ------------------------------
(***************************************************************************)
(* The window for TLC: its tabs and panes, dragging them and the broadcast *)
(* to several of them.  The parts share no state the properties are about, *)
(* so a behaviour is one of a single part, chosen at the start: the        *)
(* variables of Broadcast hold the broadcast's state, s1 to s14 that of    *)
(* any other part.                                                         *)
(***************************************************************************)
EXTENDS Broadcast

VARIABLES part, s1, s2, s3, s4, s5, s6, s7, s8, s9, s10, s11, s12, s13, s14

slots == <<s1, s2, s3, s4, s5, s6, s7, s8, s9, s10, s11, s12, s13, s14>>
allVars == <<part, vars, slots>>

Place == [type |-> "pane"]
Split(orientation, children) ==
    [type |-> "split", orientation |-> orientation, children |-> children]

\* One pane beside two stacked.
LayoutTemplates == {Split("horizontal", <<Place, Split("vertical", <<Place, Place>>)>>)}

\* Three tabs of different widths.
TabWidths == [a |-> 1, b |-> 2, c |-> 3]

Bar == INSTANCE Workspace WITH MaxTabId <- 3, MaxGroupId <- 3, Shapes <- LayoutTemplates,
    Splits <- {"above"}, state <- s1, tabIdCounter <- s2
Drag == INSTANCE TabDrag WITH Panes <- {"a", "b", "c"}, Open <- <<"a", "b", "c">>,
    Width <- TabWidths, Gap <- 1, View <- 4, Threshold <- 2, Grabs <- {1}, Edge <- 1,
    MaxEvents <- 1, groups <- s1, active <- s2, tabDrag <- s3, paneDrag <- s4, pointer <- s5,
    shift <- s6, scroll <- s7, autoScroll <- s8, ghost <- s9, dropPreview <- s10, held <- s11,
    suppressNextClick <- s12, relaid <- s13, tabEvents <- s14

\* The slots a part does not use.
Idle14 == s14 = 0
Idle13 == s13 = 0 /\ Idle14
Idle12 == s12 = 0 /\ Idle13
Idle11 == s11 = 0 /\ Idle12
Idle10 == s10 = 0 /\ Idle11
Idle9 == s9 = 0 /\ Idle10
Idle8 == s8 = 0 /\ Idle9
Idle7 == s7 = 0 /\ Idle8
Idle6 == s6 = 0 /\ Idle7
Idle5 == s5 = 0 /\ Idle6
Idle4 == s4 = 0 /\ Idle5
Idle3 == s3 = 0 /\ Idle4
Idle2 == s2 = 0 /\ Idle3
Idle1 == s1 = 0 /\ Idle2

AllInit ==
    /\ Init
    /\ \/ part = "broadcast" /\ Idle1
       \/ part = "workspace" /\ Bar!Init /\ Idle3
       \/ part = "drag" /\ Drag!Init

AllNext ==
    \/ part = "broadcast" /\ Next /\ UNCHANGED <<part, slots>>
    \/ /\ part = "workspace" /\ Bar!Next
       /\ UNCHANGED <<part, vars, s3, s4, s5, s6, s7, s8, s9, s10, s11, s12, s13, s14>>
    \/ part = "drag" /\ Drag!Next /\ UNCHANGED <<part, vars>>

AllSpec == AllInit /\ [][AllNext]_allVars

-----------------------------------------------------------------------------
\* Whatever was split, merged, moved, zoomed, laid out, closed or restored: every tab is in
\* one group of the bar, every pane tree is canonical, a zoomed pane is its group's active
\* one, and the active tab is in sight (tabsState, tabGroups).
LayoutIsSound ==
    part = "workspace" =>
        Bar!TypeOK /\ Bar!OneGroupPerTab /\ Bar!CanonicalTrees /\ Bar!ZoomShowsActivePane /\ Bar!ActiveTabInSight

\* A restart brings the sessions back in the bar's order, together, focused and zoomed as
\* they were (tabGroupsPersistence).
RestartKeepsLayout == part = "workspace" => Bar!RestartKeepsLayout

\* When the active tab goes, the focus stays in its tab of the bar, or else moves to the
\* next one, or the last (getFallbackTabId).
FocusFollowsClosing == [][part = "workspace" => Bar!FocusFollowsClosing]_allVars

\* While a tab is dragged every other one is drawn where the drop will leave it, and
\* however the drag ends nothing of it stays (useTabDrag, useListDrag).
DropAsShown == part = "drag" => Drag!DropAsShown /\ Drag!NothingLeft
=============================================================================
