------------------------------ MODULE TabDrag ------------------------------
(***************************************************************************)
(* Dragging with the pointer (TabBar/useTabDrag, TTermApp/usePaneDrag and  *)
(* useWorkspaceDrop): a tab along the bar, which scrolls at its edges, or  *)
(* off it onto the workspace; a pane by its header onto another pane or up *)
(* onto the bar.  Tabs close and open while something is dragged.  There   *)
(* is one pointer, and a change of the tabs is drawn before it next moves. *)
(***************************************************************************)
EXTENDS Integers, Sequences, SequencesExt, FiniteSets

CONSTANTS Panes,      \* every pane there can be
          Open,       \* those open at first, one tab each, in the bar's order
          Width,      \* the width of each one's tab
          Gap,        \* between two tabs
          View,       \* the width of the bar in sight
          Threshold,  \* how far the pointer goes before a press is a drag
          Grabs,      \* how far from its left edge a tab is taken hold of
          Edge,       \* how near an end of the bar the drag scrolls it
          MaxEvents   \* bound on tabs opened and closed

VARIABLES groups,     \* the tabs of the bar: the pane each shows, and its panes
          active,     \* the pane with the focus
          tabDrag,    \* the drag of a tab: dragStateRef
          paneDrag,   \* the drag of a pane: dragRef
          pointer,    \* where the pointer was last: x, and over the bar, a pane or nowhere
          shift,      \* how far each tab is drawn from its place
          scroll, autoScroll,
          ghost,      \* what is drawn under the pointer: draggingTabId, ghostTab
          dropPreview,
          held,       \* the tab pressed and not released, or none
          suppressNextClick,
          relaid,     \* no tab came or went since the drag was last laid out
          tabEvents

vars == <<groups, active, tabDrag, paneDrag, pointer, shift, scroll, autoScroll, ghost, dropPreview,
          held, suppressNextClick, relaid, tabEvents>>

None == "none"
Positions == {"bar", "nowhere"} \cup Panes
\* Along the bar x tells; off it, what is under the pointer.
PointerMoves == {[x |-> x, over |-> "bar"] : x \in 0..View}
                \cup {[x |-> 0, over |-> over] : over \in Positions \ {"bar"}}
NoDrag == [tab |-> None, startX |-> 0, dragging |-> FALSE, mode |-> "list", grab |-> 0, to |-> 0]
NoShift == [p \in Panes |-> 0]
Still == [frame |-> FALSE, speed |-> 0]

Bar == [i \in DOMAIN groups |-> groups[i].shown]

PlaceIn(p, s) == CHOOSE i \in DOMAIN s : s[i] = p

LeftOf(bar, i) == FoldSeq(LAMBDA p, sum : sum + Width[p] + Gap, 0, SubSeq(bar, 1, i - 1))
RightOf(bar, i) == LeftOf(bar, i) + Width[bar[i]]
Twice(n) == 2 * n
CenterTwice(bar, i) == LeftOf(bar, i) + RightOf(bar, i)

Length(bar) == IF bar = <<>> THEN 0 ELSE RightOf(bar, Len(bar))
MaxScroll(bar) == IF Length(bar) > View THEN Length(bar) - View ELSE 0
Bounded(n, low, high) == IF n > high THEN high ELSE IF n < low THEN low ELSE n

TypeOK ==
    /\ \A i \in DOMAIN groups : groups[i].shown \in groups[i].panes /\ groups[i].panes \subseteq Panes
    /\ \A i, j \in DOMAIN groups : i # j => groups[i].panes \cap groups[j].panes = {}
    /\ active \in {None} \cup ToSet(Bar)
    /\ pointer.over \in Positions
    /\ scroll \in 0..MaxScroll(Bar)
    /\ shift \in [Panes -> Int]
    /\ tabDrag.tab \in Panes \cup {None} /\ paneDrag.tab \in Panes \cup {None}
    /\ {ghost, dropPreview, held} \subseteq Panes \cup {None}

Init ==
    /\ groups = [i \in DOMAIN Open |-> [shown |-> Open[i], panes |-> {Open[i]}]]
    /\ active = Open[1]
    /\ tabDrag = NoDrag /\ paneDrag = NoDrag
    /\ pointer = [x |-> 0, over |-> "nowhere"]
    /\ shift = NoShift /\ scroll = 0 /\ autoScroll = Still
    /\ ghost = None /\ dropPreview = None
    /\ held = None /\ suppressNextClick = FALSE
    /\ relaid = TRUE /\ tabEvents = 0

-----------------------------------------------------------------------------
(* The groups as the drops change them (Workspace says how in full).       *)

HomeOf(p) == {i \in DOMAIN groups : p \in groups[i].panes}
InSight == {p \in Panes : \E i \in HomeOf(active) : p \in groups[i].panes}

Without(p) ==
    LET kept == SelectSeq(groups, LAMBDA g : g.panes # {p})
    IN  [i \in DOMAIN kept |->
            LET panes == kept[i].panes \ {p}
            IN  [shown |-> IF kept[i].shown = p THEN CHOOSE q \in panes : TRUE ELSE kept[i].shown,
                 panes |-> panes]]

\* moveTab: nothing moves to a place past the end.
MoveTab(s, from, to) == IF to \notin DOMAIN s THEN s ELSE InsertAt(RemoveAt(s, from), to, s[from])

Merged(p, target) ==
    LET source == CHOOSE i \in DOMAIN groups : p \in groups[i].panes
        home == CHOOSE i \in DOMAIN groups : target \in groups[i].panes
    IN  RemoveAt([groups EXCEPT ![home] = [shown |-> groups[source].shown,
                                           panes |-> @.panes \cup groups[source].panes]], source)

Showing(p) == [i \in DOMAIN groups |->
                  IF p \in groups[i].panes THEN [groups[i] EXCEPT !.shown = p] ELSE groups[i]]

-----------------------------------------------------------------------------
(* Laying a drag out.                                                      *)

\* How far the dragged tab is from its place: under the pointer, within the ends of the bar.
DragOffset(d, x, at) ==
    LET from == PlaceIn(d.tab, Bar)
    IN  Bounded(x + at - d.grab - LeftOf(Bar, from),
                -LeftOf(Bar, from), Length(Bar) - RightOf(Bar, from))

\* As if centers were compared: a mistake the code's comment warns of.
PassedByCenter(bar, i, from, left, right) ==
    \/ i < from /\ CenterTwice(bar, i) <= left + right
    \/ i > from /\ CenterTwice(bar, i) < left + right

\* A tab is passed once the dragged one's leading edge crosses its middle.
Passed(bar, i, from, left, right) ==
    \/ i < from /\ CenterTwice(bar, i) <= Twice(left)
    \/ i > from /\ CenterTwice(bar, i) < Twice(right)

\* Where the dragged tab lands if dropped now.
ToIndex(d, x, at) ==
    LET from == PlaceIn(d.tab, Bar)
        left == LeftOf(Bar, from) + DragOffset(d, x, at)
        right == left + Width[d.tab]
    IN  1 + Cardinality({i \in DOMAIN Bar : Passed(Bar, i, from, left, right)})

\* The tabs passed over slide out of the way.
LayoutShift(d, x, at) ==
    LET from == PlaceIn(d.tab, Bar)
        to == ToIndex(d, x, at)
        step == Width[d.tab] + Gap
    IN  [p \in Panes |->
            LET i == IF p \in ToSet(Bar) THEN PlaceIn(p, Bar) ELSE 0
            IN  CASE i = from -> DragOffset(d, x, at)
                  [] i > from /\ i <= to -> -step
                  [] i # 0 /\ i < from /\ i >= to -> step
                  [] OTHER -> 0]

\* layoutListDrag; nothing when the tab is gone.
LayoutListDrag(d, x, at) ==
    IF d.tab \notin ToSet(Bar)
    THEN tabDrag' = d /\ UNCHANGED <<shift, relaid>>
    ELSE /\ tabDrag' = [d EXCEPT !.to = ToIndex(d, x, at)]
         /\ shift' = LayoutShift(d, x, at)
         /\ relaid' = TRUE

\* layoutDetachedDrag: the gap it left closes.
LayoutDetachedDrag(d) ==
    /\ tabDrag' = [d EXCEPT !.to = 0]
    /\ shift' = [p \in Panes |->
                    IF d.tab \in ToSet(Bar) /\ p \in ToSet(Bar)
                       /\ PlaceIn(p, Bar) > PlaceIn(d.tab, Bar)
                    THEN -(Width[d.tab] + Gap) ELSE 0]
    /\ relaid' = TRUE

\* updateAutoScroll: which way the bar scrolls with the pointer at x.
SpeedAt(x) == IF Length(Bar) <= View THEN 0
              ELSE IF x < Edge THEN -1 ELSE IF x > View - Edge THEN 1 ELSE 0

UpdateAutoScroll(x) ==
    autoScroll' = [frame |-> SpeedAt(x) # 0, speed |-> SpeedAt(x)]

-----------------------------------------------------------------------------
(* Dropping on the workspace.                                              *)

\* findTarget: the pane under the pointer, unless a pane is over itself, or a tab over its
\* own split group; a lone tab over itself splits off a copy.
FindTarget(source, p, over) ==
    /\ over \in InSight
    /\ IF source = "pane" THEN over # p
       ELSE p \notin InSight \/ Cardinality(InSight) = 1

Preview(source, p, over) ==
    dropPreview' = IF FindTarget(source, p, over) THEN over ELSE None

\* commitDrop.
CommitDrop(source, p, over) ==
    IF ~FindTarget(source, p, over) THEN UNCHANGED <<groups, active>>
    ELSE CASE source = "pane" -> groups' = Showing(p) /\ active' = p
           [] source = "tab" /\ over = p ->
                LET fresh == {q \in Panes : HomeOf(q) = {}}
                    copy == CHOOSE q \in fresh : TRUE
                    home == CHOOSE i \in DOMAIN groups : p \in groups[i].panes
                IN  IF fresh = {} THEN UNCHANGED <<groups, active>>
                    ELSE /\ groups' = [groups EXCEPT ![home] =
                                         [shown |-> copy, panes |-> {p, copy}]]
                         /\ active' = copy
           [] source = "tab" /\ over # p ->
                IF HomeOf(p) = {} THEN UNCHANGED <<groups, active>>
                ELSE groups' = Merged(p, over) /\ active' = p

-----------------------------------------------------------------------------
(* The pointer on a tab.                                                   *)

Idle == tabDrag = NoDrag /\ paneDrag = NoDrag /\ held = None

\* handleTabPointerDown.
TabPointerDown(i, grab) ==
    /\ Idle
    /\ LeftOf(Bar, i) + grab - scroll \in 0..View
    /\ held' = Bar[i]
    /\ suppressNextClick' = FALSE
    /\ pointer' = [x |-> LeftOf(Bar, i) + grab - scroll, over |-> "bar"]
    /\ tabDrag' = [NoDrag EXCEPT !.tab = Bar[i], !.startX = pointer'.x, !.grab = grab]
    /\ UNCHANGED <<groups, active, paneDrag, shift, scroll, autoScroll, ghost, dropPreview, relaid,
                   tabEvents>>

Far(x, startX) == x - startX >= Threshold \/ startX - x >= Threshold

\* handleTabPointerMove, updateTabDrag.
TabPointerMove(x, over) ==
    /\ tabDrag.tab # None
    /\ pointer' = [x |-> x, over |-> over]
    /\ IF ~(tabDrag.dragging \/ over # "bar" \/ Far(x, tabDrag.startX))
       THEN UNCHANGED <<tabDrag, shift, autoScroll, ghost, dropPreview, suppressNextClick, relaid>>
       ELSE LET d == [tabDrag EXCEPT !.dragging = TRUE,
                                     !.mode = IF over = "bar" THEN "list" ELSE "detached"]
            IN  /\ suppressNextClick' = (suppressNextClick \/ ~tabDrag.dragging)
                /\ ghost' = IF d.mode = tabDrag.mode THEN ghost
                            ELSE IF d.mode = "list" THEN None
                            ELSE IF HomeOf(d.tab) # {} THEN d.tab ELSE None
                /\ IF d.mode = "list"
                   THEN /\ dropPreview' = IF tabDrag.mode = "detached" THEN None ELSE dropPreview
                        /\ LayoutListDrag(d, x, scroll) /\ UpdateAutoScroll(x)
                   ELSE /\ autoScroll' = Still
                        /\ LayoutDetachedDrag(d)
                        /\ Preview("tab", d.tab, over)
    /\ UNCHANGED <<groups, active, paneDrag, scroll, held, tabEvents>>

\* As if a cancelled drag were forgotten without putting the tabs back.
ResetWithoutFlip ==
    /\ tabDrag' = NoDrag /\ autoScroll' = Still
    /\ ghost' = None /\ dropPreview' = None
    /\ UNCHANGED <<shift, relaid>>

\* resetTabDrag, with the tabs sliding back into their places.
ResetTabDrag ==
    /\ tabDrag' = NoDrag /\ autoScroll' = Still
    /\ ghost' = None /\ dropPreview' = None
    /\ shift' = NoShift /\ relaid' = TRUE

\* cancelTabDrag: Escape, a lost window, a pointer taken away.
CancelTabDrag ==
    /\ tabDrag.tab # None
    /\ ResetTabDrag
    /\ UNCHANGED <<groups, active, paneDrag, pointer, scroll, held, suppressNextClick, tabEvents>>

\* finishTabDrag.
DropTab ==
    /\ tabDrag.dragging
    /\ LET at == PlaceIn(tabDrag.tab, Bar)
       IN  IF tabDrag.mode = "detached" THEN CommitDrop("tab", tabDrag.tab, pointer.over)
           ELSE /\ groups' = IF tabDrag.tab \in ToSet(Bar) /\ tabDrag.to # 0
                             THEN MoveTab(groups, at, tabDrag.to) ELSE groups
                /\ UNCHANGED active

\* The click that follows a release: on the tab pressed, while it is there.
Click(p) ==
    /\ suppressNextClick' = (suppressNextClick /\ p \notin ToSet(Bar))
    /\ active' = IF suppressNextClick \/ p \notin ToSet(Bar) THEN active ELSE p

TabPointerUp ==
    /\ held # None
    /\ held' = None
    /\ IF tabDrag.dragging THEN /\ DropTab
                                /\ suppressNextClick' = (HomeOf(held) = {})
       ELSE Click(held) /\ UNCHANGED groups
    /\ IF tabDrag.tab = None THEN UNCHANGED <<tabDrag, autoScroll, ghost, dropPreview, shift, relaid>>
       ELSE ResetTabDrag
    /\ scroll' = Bounded(scroll, 0, MaxScroll(Bar'))
    /\ UNCHANGED <<paneDrag, pointer, tabEvents>>

-----------------------------------------------------------------------------
(* The bar scrolls.                                                        *)

\* The dragged tab follows a scroll from under the pointer.
ScrollTo(at) ==
    /\ scroll' = at
    /\ IF tabDrag.dragging /\ tabDrag.mode = "list" /\ at # scroll
       THEN LayoutListDrag(tabDrag, pointer.x, at) ELSE UNCHANGED <<tabDrag, shift, relaid>>

AutoScrollStep ==
    /\ autoScroll.frame
    /\ IF tabDrag.tab # None /\ tabDrag.mode = "list" /\ autoScroll.speed # 0
       THEN /\ ScrollTo(Bounded(scroll + autoScroll.speed, 0, MaxScroll(Bar)))
            /\ UNCHANGED autoScroll
       ELSE /\ autoScroll' = [autoScroll EXCEPT !.frame = FALSE]
            /\ UNCHANGED <<scroll, tabDrag, shift, relaid>>
    /\ UNCHANGED <<groups, active, paneDrag, pointer, ghost, dropPreview, held, suppressNextClick,
                   tabEvents>>

\* The wheel, or the buttons at the ends.
ScrollTabs(at) ==
    /\ at \in 0..MaxScroll(Bar) /\ at # scroll
    /\ ScrollTo(at)
    /\ UNCHANGED <<groups, active, paneDrag, pointer, autoScroll, ghost, dropPreview, held,
                   suppressNextClick, tabEvents>>

-----------------------------------------------------------------------------
(* The pointer on a pane's header.                                         *)

StartPaneDrag(p) ==
    /\ Idle /\ p \in InSight /\ Cardinality(InSight) > 1
    /\ paneDrag' = [NoDrag EXCEPT !.tab = p]
    /\ UNCHANGED <<groups, active, tabDrag, pointer, shift, scroll, autoScroll, ghost, dropPreview,
                   held, suppressNextClick, relaid, tabEvents>>

PaneMove(x, over) ==
    /\ paneDrag.tab # None
    /\ paneDrag' = [paneDrag EXCEPT !.dragging = TRUE]
    /\ pointer' = [x |-> x, over |-> over]
    /\ ghost' = IF paneDrag.dragging THEN ghost
                ELSE IF HomeOf(paneDrag.tab) # {} THEN paneDrag.tab ELSE None
    /\ IF over = "bar" THEN dropPreview' = None ELSE Preview("pane", paneDrag.tab, over)
    /\ UNCHANGED <<groups, active, tabDrag, shift, scroll, autoScroll, held, suppressNextClick,
                   relaid, tabEvents>>

\* getTabBarDropIndex: before the first tab whose middle the pointer is left of.
BarDropIndex(x) ==
    LET right == {i \in DOMAIN Bar : Twice(x + scroll) < CenterTwice(Bar, i)}
    IN  IF right = {} THEN Len(Bar) + 1 ELSE CHOOSE i \in right : \A j \in right : i <= j

BreakOutPane(p, place) ==
    LET without == Without(p)
    IN  IF ~\E i \in HomeOf(p) : Cardinality(groups[i].panes) > 1
        THEN UNCHANGED <<groups, active>>
        ELSE /\ groups' = InsertAt(without, Bounded(place, 1, Len(without) + 1),
                                   [shown |-> p, panes |-> {p}])
             /\ active' = p

PanePointerUp ==
    /\ paneDrag.tab # None
    /\ IF ~paneDrag.dragging THEN UNCHANGED <<groups, active>>
       ELSE IF pointer.over = "bar" THEN BreakOutPane(paneDrag.tab, BarDropIndex(pointer.x))
       ELSE IF HomeOf(paneDrag.tab) = {} THEN UNCHANGED <<groups, active>>
       ELSE CommitDrop("pane", paneDrag.tab, pointer.over)
    /\ paneDrag' = NoDrag /\ dropPreview' = None /\ ghost' = None
    /\ scroll' = Bounded(scroll, 0, MaxScroll(Bar'))
    /\ UNCHANGED <<tabDrag, pointer, shift, autoScroll, held, suppressNextClick, relaid, tabEvents>>

CancelPaneDrag ==
    /\ paneDrag.tab # None
    /\ paneDrag' = NoDrag /\ dropPreview' = None /\ ghost' = None
    /\ UNCHANGED <<groups, active, tabDrag, pointer, shift, scroll, autoScroll, held,
                   suppressNextClick, relaid, tabEvents>>

-----------------------------------------------------------------------------
(* Tabs come and go while the pointer is down: a session ends, another tab *)
(* is asked for.                                                           *)

TabsChange(t) ==
    /\ tabEvents < MaxEvents
    /\ tabEvents' = tabEvents + 1
    /\ groups' = t
    /\ relaid' = (relaid /\ ~tabDrag.dragging)
    /\ shift' = [p \in Panes |-> IF p \in ToSet(Bar) \cap ToSet(Bar') THEN shift[p] ELSE 0]
    /\ scroll' = Bounded(scroll, 0, MaxScroll(Bar'))
    /\ UNCHANGED <<tabDrag, paneDrag, pointer, autoScroll, ghost, dropPreview, held,
                   suppressNextClick>>

CloseTab(p) ==
    /\ HomeOf(p) # {} /\ Len(groups) > 1
    /\ TabsChange(Without(p))
    /\ active' = IF active \in ToSet(Bar') THEN active ELSE Bar'[1]

OpenTab(p) ==
    /\ HomeOf(p) = {}
    /\ TabsChange(Append(groups, [shown |-> p, panes |-> {p}]))
    /\ active' = p

Next ==
    \/ \E i \in DOMAIN groups, grab \in Grabs : TabPointerDown(i, grab)
    \/ \E to \in PointerMoves : TabPointerMove(to.x, to.over) \/ PaneMove(to.x, to.over)
    \/ TabPointerUp \/ CancelTabDrag \/ AutoScrollStep
    \/ \E at \in 0..MaxScroll(Bar) : ScrollTabs(at)
    \/ \E p \in Panes : StartPaneDrag(p) \/ CloseTab(p) \/ OpenTab(p)
    \/ PanePointerUp \/ CancelPaneDrag

Spec == Init /\ [][Next]_vars

-----------------------------------------------------------------------------
(***************************************************************************)
(* While a tab is dragged along the bar, every other tab is drawn exactly  *)
(* where the drop will leave it; and however wide the dragged tab is, held *)
(* at an end of the bar it lands at that end (layoutListDrag), as long as  *)
(* no tab came or went since it was laid out.                              *)
(***************************************************************************)
DropAsShown ==
    (tabDrag.dragging /\ tabDrag.mode = "list" /\ relaid /\ tabDrag.tab \in ToSet(Bar)) =>
        LET from == PlaceIn(tabDrag.tab, Bar)
            dropped == MoveTab(Bar, from, tabDrag.to)
            end == RightOf(Bar, from) + shift[tabDrag.tab]
        IN  /\ \A i \in DOMAIN Bar \ {from} :
                LeftOf(Bar, i) + shift[Bar[i]]
                    = LeftOf(dropped, PlaceIn(Bar[i], dropped))
            /\ end = Length(Bar) => tabDrag.to = Len(Bar)
            /\ end = Width[tabDrag.tab] => tabDrag.to = 1

(***************************************************************************)
(* However a drag ends - dropped, cancelled by Escape or a lost window, or *)
(* with its tab closed under it - nothing of it stays: no tab out of its   *)
(* place, no ghost, no preview of a drop, no scrolling bar.                *)
(***************************************************************************)
NothingLeft ==
    (tabDrag = NoDrag /\ paneDrag = NoDrag) =>
        /\ shift = NoShift
        /\ ghost = None /\ dropPreview = None
        /\ autoScroll = Still
=============================================================================
