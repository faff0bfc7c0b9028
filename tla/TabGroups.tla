----------------------------- MODULE TabGroups -----------------------------
(***************************************************************************)
(* The tabs of the tab bar and the panes each of them holds: the pure      *)
(* functions of src/lib/tabGroups.ts, tabGroupsPersistence.ts,             *)
(* paneTemplates.ts and tabClosing.ts.                                     *)
(*                                                                         *)
(* A pane tree is a leaf [type |-> "pane", tabId] or a node                *)
(* [type |-> "split", orientation, children].  The sizes of a split are    *)
(* layout and left out, and with them scaleToOne and resizeSplit.  A group *)
(* is [id, root, activeTabId, zoomedTabId]; NoTab stands for undefined and *)
(* null.  An operator the code writes as "the tree, or null" returns the   *)
(* sequence of the trees left: one or none.                                *)
(***************************************************************************)
EXTENDS Naturals, Sequences, FiniteSets, SequencesExt

NoTab == 0

Directions == {"left", "right", "above", "below"}

PaneLeaf(tabId) == [type |-> "pane", tabId |-> tabId]

SplitNode(orientation, children) ==
    [type |-> "split", orientation |-> orientation, children |-> children]

SplitOrientation(direction) ==
    IF direction \in {"left", "right"} THEN "horizontal" ELSE "vertical"

\* The tab ids of a tree's panes, left to right and top to bottom.
RECURSIVE GetPaneIds(_)
GetPaneIds(node) ==
    IF node.type = "pane"
    THEN <<node.tabId>>
    ELSE FlattenSeq([i \in DOMAIN node.children |-> GetPaneIds(node.children[i])])

RECURSIVE PaneSet(_)
PaneSet(node) ==
    IF node.type = "pane" THEN {node.tabId}
    ELSE UNION {PaneSet(node.children[i]) : i \in DOMAIN node.children}

\* A split of one child is that child, a split inside a split of the same
\* orientation joins its parent.
RECURSIVE NormalizePaneTree(_)
NormalizePaneTree(node) ==
    IF node.type = "pane" THEN node
    ELSE LET joined(child) ==
                 LET normalized == NormalizePaneTree(child)
                 IN  IF /\ normalized.type = "split"
                        /\ normalized.orientation = node.orientation
                     THEN normalized.children
                     ELSE <<normalized>>
             children == FlattenSeq([i \in DOMAIN node.children |-> joined(node.children[i])])
         IN  IF Len(children) = 1 THEN children[1]
             ELSE SplitNode(node.orientation, children)

RECURSIVE InsertInto(_, _, _, _)
InsertInto(node, targetTabId, inserted, direction) ==
    LET orientation == SplitOrientation(direction)
        before == direction \in {"left", "above"}
    IN  IF node.type = "pane"
        THEN IF node.tabId # targetTabId THEN node
             ELSE SplitNode(orientation,
                            IF before THEN <<inserted, node>> ELSE <<node, inserted>>)
        ELSE LET at == {i \in DOMAIN node.children : node.children[i] = PaneLeaf(targetTabId)}
             IN  IF at # {} /\ node.orientation = orientation
                 THEN LET index == CHOOSE i \in at : \A j \in at : i <= j
                      IN  SplitNode(orientation,
                                    InsertAt(node.children,
                                             IF before THEN index ELSE index + 1, inserted))
                 ELSE SplitNode(node.orientation,
                                [i \in DOMAIN node.children |->
                                   InsertInto(node.children[i], targetTabId, inserted, direction)])

\* Puts a pane, or a whole tree, beside the target pane.
InsertNextTo(root, targetTabId, inserted, direction) ==
    NormalizePaneTree(InsertInto(root, targetTabId, inserted, direction))

RECURSIVE RemoveFrom(_, _)
RemoveFrom(node, ids) ==
    IF node.type = "pane"
    THEN IF node.tabId \in ids THEN <<>> ELSE <<node>>
    ELSE LET children == FlattenSeq([i \in DOMAIN node.children |->
                                       RemoveFrom(node.children[i], ids)])
         IN  IF children = <<>> THEN <<>> ELSE <<SplitNode(node.orientation, children)>>

RemoveRaw(root, ids) == RemoveFrom(root, ids)

NormalizeEach(trees) == [i \in DOMAIN trees |-> NormalizePaneTree(trees[i])]

RemovePanes(root, ids) == NormalizeEach(RemoveFrom(root, ids))

----------------------------------------------------------------------------
Group(id, root, active, zoomed) ==
    [id |-> id, root |-> root, activeTabId |-> active, zoomedTabId |-> zoomed]

SingleGroup(id, tabId) == Group(id, PaneLeaf(tabId), tabId, NoTab)

IndexOf(seq, x) == CHOOSE i \in DOMAIN seq : seq[i] = x

\* The groups holding a tab: none or, settled, one.
HoldersOf(groups, tabId) == {i \in DOMAIN groups : tabId \in PaneSet(groups[i].root)}

HasGroup(groups, tabId) == HoldersOf(groups, tabId) # {}

\* The index of the first group holding the tab.
FindGroupOfTab(groups, tabId) == Min(HoldersOf(groups, tabId))

BarOrder(groups) == FlattenSeq([i \in DOMAIN groups |-> GetPaneIds(groups[i].root)])

\* The pane left closest to tabId in the old order, after it first.
NearestPane(order, tabId, remaining) ==
    LET index == IndexOf(order, tabId)
        kept == {i \in DOMAIN order : order[i] \in ToSet(remaining)}
        near == {offset \in 1..Len(order) : index + offset \in kept \/ index - offset \in kept}
        after == index + Min(near)
    IN  IF near = {} THEN remaining[1]
        ELSE IF after \in kept THEN order[after]
        ELSE order[2 * index - after]

WithoutPanesZoomed(group, ids) ==
    LET left == RemovePanes(group.root, ids)
    IN  IF PaneSet(group.root) \cap ids = {} THEN <<group>>
        ELSE IF left = <<>> THEN <<>>
        ELSE <<Group(group.id, left[1], GetPaneIds(left[1])[1], group.zoomedTabId)>>

\* The group over a tree it is left with, whose panes are remaining.
LeftWith(group, root, remaining) ==
    Group(group.id, root,
          IF group.activeTabId \in ToSet(remaining) THEN group.activeTabId
          ELSE NearestPane(GetPaneIds(group.root), group.activeTabId, remaining),
          IF group.zoomedTabId \in ToSet(remaining) THEN group.zoomedTabId ELSE NoTab)

LeftWithEach(group, trees) ==
    [i \in DOMAIN trees |-> LeftWith(group, trees[i], GetPaneIds(trees[i]))]

\* One group without the panes in ids.
WithoutPanes(group, ids) ==
    IF PaneSet(group.root) \cap ids = {} THEN <<group>>
    ELSE LeftWithEach(group, RemovePanes(group.root, ids))

RemoveTabsFromGroups(groups, ids) ==
    FlattenSeq([i \in DOMAIN groups |-> WithoutPanes(groups[i], ids)])

FallbackToLast(previous, next, activeTabId) ==
    IF next = <<>> \/ ~HasGroup(previous, activeTabId) THEN NoTab ELSE next[Len(next)].activeTabId

\* The pane to focus once the active one is gone: another pane of its group,
\* else the group that took its group's place in the bar, or the last one.
GetFallbackTabId(previous, next, activeTabId) ==
    IF next = <<>> \/ ~HasGroup(previous, activeTabId) THEN NoTab
    ELSE LET index == FindGroupOfTab(previous, activeTabId)
             ids == [i \in DOMAIN next |-> next[i].id]
             after == {i \in DOMAIN previous : i > index /\ previous[i].id \in ToSet(ids)}
         IN  IF previous[index].id \in ToSet(ids)
             THEN next[IndexOf(ids, previous[index].id)].activeTabId
             ELSE IF after # {} THEN previous[Min(after)].activeTabId
             ELSE next[Len(next)].activeTabId

\* The tabs of the order that are gone, and those a second place lists: a pane
\* listed twice is removed from both places and brought back once.
Stale(order, tabIds) ==
    {order[i] : i \in {j \in DOMAIN order :
                          \/ order[j] \notin ToSet(tabIds)
                          \/ \E k \in 1..(j - 1) : order[k] = order[j]}}

WithSingles(groups, missing, groupCount) ==
    groups \o [i \in DOMAIN missing |-> SingleGroup(groupCount + i, missing[i])]

WithMissing(groups, tabIds, groupCount) ==
    WithSingles(groups, SelectSeq(tabIds, LAMBDA id : ~HasGroup(groups, id)), groupCount)

\* Every tab in exactly one group; group ids are counted up from groupCount.
ReconcileGroups(groups, tabIds, groupCount) ==
    WithMissing(RemoveTabsFromGroups(groups, Stale(BarOrder(groups), tabIds)), tabIds, groupCount)

FocusInZoom(groups, tabId) ==
    IF ~HasGroup(groups, tabId) THEN groups
    ELSE [groups EXCEPT ![FindGroupOfTab(groups, tabId)].activeTabId = tabId]

\* Makes the tab its group's active pane; focusing a pane hidden by a zoom ends it.
FocusPaneInGroups(groups, tabId) ==
    IF ~HasGroup(groups, tabId) THEN groups
    ELSE LET index == FindGroupOfTab(groups, tabId)
         IN  [groups EXCEPT ![index].activeTabId = tabId,
                            ![index].zoomedTabId = IF @ = tabId THEN @ ELSE NoTab]

PutBeside(groups, tabId, targetTabId, direction) ==
    [i \in DOMAIN groups |->
       IF targetTabId \in PaneSet(groups[i].root)
       THEN Group(groups[i].id,
                  InsertNextTo(groups[i].root, targetTabId, PaneLeaf(tabId), direction),
                  tabId, NoTab)
       ELSE groups[i]]

PlacePane(groups, tabId, targetTabId, direction) ==
    IF tabId = targetTabId \/ ~HasGroup(groups, targetTabId) THEN groups
    ELSE PutBeside(RemoveTabsFromGroups(groups, {tabId}), tabId, targetTabId, direction)

MergeGroup(groups, tabId, targetTabId, direction) ==
    IF ~HasGroup(groups, tabId) \/ ~HasGroup(groups, targetTabId) THEN groups
    ELSE LET source == FindGroupOfTab(groups, tabId)
             target == FindGroupOfTab(groups, targetTabId)
         IN  IF source = target THEN groups
             ELSE RemoveAt([groups EXCEPT ![target] =
                              Group(@.id,
                                    InsertNextTo(@.root, targetTabId, groups[source].root, direction),
                                    groups[source].activeTabId, NoTab)],
                           source)

\* place is the new group's place in the bar, or NoPlace: right after its group.
NoPlace == 0

PutAt(groups, place, group) ==
    InsertAt(groups, IF place > Len(groups) + 1 THEN Len(groups) + 1 ELSE place, group)

BreakOutPane(groups, tabId, newGroupId, place) ==
    IF ~HasGroup(groups, tabId) THEN groups
    ELSE LET source == FindGroupOfTab(groups, tabId)
         IN  IF groups[source].root.type = "pane" THEN groups
             ELSE PutAt(RemoveTabsFromGroups(groups, {tabId}),
                        IF place = NoPlace THEN source + 1 ELSE place,
                        SingleGroup(newGroupId, tabId))

\* Gives every pane of the tab's group a group of its own; the active one keeps the id.
UngroupPanes(groups, tabId, groupCount) ==
    IF ~HasGroup(groups, tabId) THEN groups
    ELSE LET index == FindGroupOfTab(groups, tabId)
             source == groups[index]
             panes == GetPaneIds(source.root)
             others == SelectSeq(panes, LAMBDA id : id # source.activeTabId)
             single(id) == IF id = source.activeTabId THEN SingleGroup(source.id, id)
                           ELSE SingleGroup(groupCount + IndexOf(others, id), id)
         IN  IF source.root.type = "pane" THEN groups
             ELSE SubSeq(groups, 1, index - 1)
                  \o [i \in DOMAIN panes |-> single(panes[i])]
                  \o SubSeq(groups, index + 1, Len(groups))

ToggleZoom(groups, tabId) ==
    IF ~HasGroup(groups, tabId) THEN groups
    ELSE LET index == FindGroupOfTab(groups, tabId)
         IN  IF groups[index].root.type = "pane" THEN groups
             ELSE [groups EXCEPT ![index].activeTabId = tabId,
                                 ![index].zoomedTabId = IF @ = tabId THEN NoTab ELSE tabId]

MoveGroup(groups, from, to) ==
    IF from \notin DOMAIN groups \/ to \notin DOMAIN groups \/ from = to THEN groups
    ELSE InsertAt(RemoveAt(groups, from), to, groups[from])

\* The panes in sight: those of the active tab's group, or only its zoomed one.
GetVisiblePaneIds(groups, activeTabId) ==
    IF ~HasGroup(groups, activeTabId) THEN {}
    ELSE LET group == groups[FindGroupOfTab(groups, activeTabId)]
         IN  IF group.zoomedTabId # NoTab THEN {group.zoomedTabId} ELSE PaneSet(group.root)

----------------------------------------------------------------------------
(* Layout templates: a shape is a pane tree whose leaves carry no tab.     *)

RECURSIVE CountTemplatePanes(_)
CountTemplatePanes(shape) ==
    IF shape.type = "pane" THEN 1
    ELSE FoldSeq(LAMBDA child, sum : CountTemplatePanes(child) + sum, 0, shape.children)

\* Puts tabIds into the panes of the shape, from the first one on.
RECURSIVE Fill(_, _)
Fill(shape, tabIds) ==
    IF shape.type = "pane" THEN PaneLeaf(tabIds[1])
    ELSE LET before(i) == FoldSeq(LAMBDA child, sum : CountTemplatePanes(child) + sum, 0,
                                  SubSeq(shape.children, 1, i - 1))
         IN  SplitNode(shape.orientation,
                       [i \in DOMAIN shape.children |->
                          Fill(shape.children[i], SubSeq(tabIds, before(i) + 1, Len(tabIds)))])

FillShape(shape, tabIds) == NormalizePaneTree(Fill(shape, tabIds))

\* Lays the tab's group out as the shape: its panes fill the shape in their
\* order, the tab itself always among them, newTabIds fill the rest, and the
\* panes left over move out into groups of their own right after it.
ApplyTemplateToGroups(groups, tabId, shape, newTabIds, groupCount) ==
    IF ~HasGroup(groups, tabId) THEN groups
    ELSE LET index == FindGroupOfTab(groups, tabId)
             slots == CountTemplatePanes(shape)
             existing == GetPaneIds(groups[index].root)
             first == SubSeq(<<tabId>> \o SelectSeq(existing, LAMBDA id : id # tabId), 1,
                             IF slots < Len(existing) THEN slots ELSE Len(existing))
             kept == SelectSeq(existing, LAMBDA id : id \in ToSet(first))
             filled == kept \o newTabIds
             leftOver == SelectSeq(existing, LAMBDA id : id \notin ToSet(kept))
         IN  IF Len(filled) < slots THEN groups
             ELSE SubSeq(groups, 1, index - 1)
                  \o <<Group(groups[index].id, FillShape(shape, SubSeq(filled, 1, slots)),
                             tabId, NoTab)>>
                  \o [i \in DOMAIN leftOver |-> SingleGroup(groupCount + i, leftOver[i])]
                  \o SubSeq(groups, index + 1, Len(groups))

----------------------------------------------------------------------------
(* The layout the session file holds, version 2.  Its groups have no id.   *)

KeptFromFirst(group, root) ==
    [root |-> root, activeTabId |-> GetPaneIds(root)[1], zoomedTabId |-> NoTab]

\* A saved group for the panes of root that are kept, with its fallbacks.
KeptGroup(group, root) ==
    LET paneIds == GetPaneIds(root)
    IN  [root |-> root,
         activeTabId |-> IF group.activeTabId \in ToSet(paneIds) THEN group.activeTabId
                         ELSE paneIds[1],
         zoomedTabId |-> IF group.zoomedTabId \in ToSet(paneIds) THEN group.zoomedTabId
                         ELSE NoTab]

SerializeTabGroups(groups, savedTabIds) ==
    LET saved(group) ==
            LET left == IF PaneSet(group.root) \subseteq savedTabIds THEN <<group.root>>
                        ELSE RemovePanes(group.root, PaneSet(group.root) \ savedTabIds)
            IN  [i \in DOMAIN left |-> KeptGroup(group, left[i])]
    IN  FlattenSeq([i \in DOMAIN groups |-> saved(groups[i])])

\* The saved groups for the tabs restored with them.  A pane an earlier group
\* already holds is dropped from the later one.
RestoreTabGroups(layout, tabIds) ==
    LET restored(group, seen) ==
            LET dropped == {id \in PaneSet(group.root) : id \notin ToSet(tabIds) \/ id \in seen}
                left == IF dropped = {} THEN <<group.root>> ELSE RemovePanes(group.root, dropped)
            IN  [i \in DOMAIN left |-> KeptGroup(group, NormalizePaneTree(left[i]))]
    IN  FoldLeft(LAMBDA done, group : done \o restored(group, ToSet(BarOrder(done))), <<>>, layout)

----------------------------------------------------------------------------
\* The groups of the bar a close action takes, of the one at index.
GetTabIdsForCloseAction(ids, id, action) ==
    LET index == IndexOf(ids, id)
    IN  IF id \notin ToSet(ids) THEN {}
        ELSE CASE action = "close-others" -> ToSet(ids) \ {id}
               [] action = "close-left"   -> ToSet(SubSeq(ids, 1, index - 1))
               [] action = "close-right"  -> ToSet(SubSeq(ids, index + 1, Len(ids)))
=============================================================================
