--------------------------- MODULE ProfileGroups ---------------------------
(***************************************************************************)
(* The saved connections and their groups: the groups page (the dragging,  *)
(* ticking, searching and deleting of ProfileGroupsSettingsTab) over the   *)
(* commands of src-tauri/profiles, each one transaction.  Commands and     *)
(* listings are answered in any order; a failed move lists again.          *)
(***************************************************************************)
EXTENDS Integers, Sequences, SequencesExt, FiniteSets

CONSTANTS ProfileIds, GroupIds,
          Matching,       \* the profiles the search finds
          MaxCommands,    \* bound on commands
          MaxListings,    \* bound on listings of the page
          MaxTouches      \* bound on ticks, searches and name fields opened

VARIABLES saved,       \* the database: order of the profiles, group of each, parent of each group
          page,        \* what the page shows of it
          selectedIds, searching,
          groupBusy, selectionBusy,
          renameDrafts,  \* the groups whose name field is open
          batch,         \* the delete going on: what, of which ids or group, how far
          sent,          \* the commands, in the order sent
          listings,      \* the listings: the groups and the profiles read so far
          touches

vars == <<saved, page, selectedIds, searching, groupBusy, selectionBusy, renameDrafts, batch, sent,
          listings, touches>>

Top == "top"     \* no group: ungrouped, or at the top of the tree
Gone == "gone"   \* no such group
NoBatch == [kind |-> "none", ids |-> {}, group |-> Top, parent |-> Top, at |-> "none"]
NoListing == [at |-> "done", parent |-> [g \in GroupIds |-> Gone], read |-> <<>>]
Unread == [g \in GroupIds |-> Gone]
Finished == [op |-> "none", ids |-> {}, group |-> Top, target |-> "none", at |-> "done",
             groups |-> Unread]

Init ==
    /\ saved = [order |-> SetToSeq(ProfileIds), group |-> [p \in ProfileIds |-> Top],
                parent |-> [g \in GroupIds |-> Top]]
    /\ page = saved
    /\ selectedIds = {} /\ searching = FALSE /\ groupBusy = FALSE /\ selectionBusy = FALSE
    /\ renameDrafts = {} /\ batch = NoBatch
    /\ sent = <<>> /\ listings = <<>> /\ touches = 0

Exists(parent) == {g \in GroupIds : parent[g] # Gone}

Stored(t) ==
    /\ IsInjective(t.order) /\ ToSet(t.order) \subseteq ProfileIds
    /\ t.group \in [ProfileIds -> GroupIds \cup {Top}]
    /\ t.parent \in [GroupIds -> GroupIds \cup {Top, Gone}]

TypeOK ==
    /\ Stored(saved) /\ Stored(page)
    /\ selectedIds \subseteq ToSet(page.order)
    /\ searching \in BOOLEAN /\ groupBusy \in BOOLEAN /\ selectionBusy \in BOOLEAN
    /\ renameDrafts \subseteq Exists(page.parent)
    /\ Len(sent) <= MaxCommands /\ Len(listings) <= MaxListings
    /\ touches \in 0..MaxTouches

\* The groups g sits in, itself included, as far as the parents lead: the least set that
\* has g and with a group its parent.
Closed(parent, s) == \A x \in s : parent[x] \in GroupIds => parent[x] \in s
Lineage(parent, g) ==
    {h \in GroupIds : \A s \in SUBSET GroupIds : g \in s /\ Closed(parent, s) => h \in s}

\* groupAndDescendantIds of the page's tree.
Within(parent, g) == {h \in Exists(parent) : g \in Lineage(parent, h)}

\* moveProfilesInList, and the same move in the database: before the target, or last, in the
\* order they had among themselves.
MovedOrder(order, ids, target) ==
    LET rest == SelectSeq(order, LAMBDA p : p \notin ids)
        moved == SelectSeq(order, LAMBDA p : p \in ids)
        at == IF target \in ToSet(rest) THEN SelectInSeq(rest, LAMBDA p : p = target)
              ELSE Len(rest) + 1
    IN  SubSeq(rest, 1, at - 1) \o moved \o SubSeq(rest, at, Len(rest))

MoveProfilesInList(t, ids, g, target) ==
    [t EXCEPT !.order = MovedOrder(@, ids, target),
              !.group = [p \in ProfileIds |-> IF p \in ids \cap ToSet(t.order) THEN g ELSE @[p]]]

Selectable(t) == IF searching THEN ToSet(t.order) \cap Matching ELSE ToSet(t.order)

\* A change of what the page lists unticks what drops out, and takes the fields of the groups
\* that are gone with it.
Show(t, ticked) ==
    /\ page' = t
    /\ selectedIds' = ticked \cap Selectable(t)
    /\ renameDrafts' = renameDrafts \cap Exists(t.parent)

Command(op, ids, g, target) ==
    [op |-> op, ids |-> ids, group |-> g, target |-> target, at |-> "sent", groups |-> Unread]

Send(op, ids, g, target) ==
    /\ Len(sent) < MaxCommands
    /\ sent' = Append(sent, Command(op, ids, g, target))

-----------------------------------------------------------------------------
(* The page.                                                               *)

\* A listing starts: the page is told to refresh, or a move failed.
Listed == listings' = Append(listings, [at |-> "groups", parent |-> Unread, read |-> <<>>])

Refresh ==
    /\ Len(listings) < MaxListings
    /\ Listed
    /\ UNCHANGED <<saved, page, selectedIds, searching, groupBusy, selectionBusy, renameDrafts,
                   batch, sent, touches>>

\* list_profile_groups, then list_profiles: two reads.
ReadGroups(i) ==
    /\ listings[i].at = "groups"
    /\ listings' = [listings EXCEPT ![i].at = "profiles", ![i].parent = saved.parent]
    /\ UNCHANGED <<saved, page, selectedIds, searching, groupBusy, selectionBusy, renameDrafts,
                   batch, sent, touches>>

ReadProfiles(i) ==
    /\ listings[i].at = "profiles"
    /\ listings' = [listings EXCEPT ![i].at = "answered", ![i].read = <<saved>>]
    /\ UNCHANGED <<saved, page, selectedIds, searching, groupBusy, selectionBusy, renameDrafts,
                   batch, sent, touches>>

ShowListing(i) ==
    /\ listings[i].at = "answered"
    /\ listings' = [listings EXCEPT ![i] = NoListing]
    /\ Show([listings[i].read[1] EXCEPT !.parent = listings[i].parent], selectedIds)
    /\ UNCHANGED <<saved, searching, groupBusy, selectionBusy, batch, sent, touches>>

ListingFailed(i) ==
    /\ listings[i].at \in {"groups", "profiles"}
    /\ listings' = [listings EXCEPT ![i] = NoListing]
    /\ UNCHANGED <<saved, page, selectedIds, searching, groupBusy, selectionBusy, renameDrafts,
                   batch, sent, touches>>

Touch == touches < MaxTouches /\ touches' = touches + 1

SetQuery ==
    /\ Touch
    /\ batch.at # "asked"
    /\ searching' = ~searching
    /\ selectedIds' = IF searching' THEN selectedIds \cap Matching ELSE selectedIds
    /\ UNCHANGED <<saved, page, groupBusy, selectionBusy, renameDrafts, batch, sent, listings>>

ToggleSelected(p) ==
    /\ Touch
    /\ batch.at # "asked" /\ p \in Selectable(page)
    /\ selectedIds' = (selectedIds \ {p}) \cup ({p} \ selectedIds)
    /\ UNCHANGED <<saved, page, searching, groupBusy, selectionBusy, renameDrafts, batch, sent,
                   listings>>

SelectMatches ==
    /\ batch.at # "asked" /\ searching
    /\ Selectable(page) \ selectedIds # {}
    /\ selectedIds' = selectedIds \cup Selectable(page)
    /\ UNCHANGED <<saved, page, searching, groupBusy, selectionBusy, renameDrafts, batch, sent,
                   listings, touches>>

ClearSelection ==
    /\ batch.at # "asked" /\ selectedIds # {} /\ ~selectionBusy
    /\ selectedIds' = {}
    /\ UNCHANGED <<saved, page, searching, groupBusy, selectionBusy, renameDrafts, batch, sent,
                   listings, touches>>

\* The hosts a drag of p carries.
DragBatch(p) == IF p \in selectedIds THEN selectedIds ELSE {p}

\* A drop on a profile files before it in its group; one on a heading files last.
\* The page shows the move at once.
MoveProfilesTo(p, g, target) ==
    LET ids == DragBatch(p)
        moved == MoveProfilesInList(page, ids, g, target)
        key(t) == SelectSeq(t.order, LAMBDA q : t.group[q] = g)
    IN  /\ batch.at # "asked" /\ p \in Selectable(page)
        /\ target \notin ids
        /\ ~((\A q \in ids : page.group[q] = g) /\ key(page) = key(moved))
        /\ Send("move_profiles", ids, g, target)
        /\ page' = moved
        /\ UNCHANGED <<saved, selectedIds, searching, groupBusy, selectionBusy, renameDrafts, batch,
                       listings, touches>>

DropProfile(p) ==
    \/ \E target \in Selectable(page) : MoveProfilesTo(p, page.group[target], target)
    \/ \E g \in Exists(page.parent) \cup {Top} : MoveProfilesTo(p, g, "none")

\* A group goes into the group it is dropped on, or to the top; the page's tree says it
\* is not one inside it.
DropGroup(g, parent) ==
    /\ batch.at # "asked" /\ g \in Exists(page.parent) /\ g \notin renameDrafts
    /\ parent \in (Exists(page.parent) \cup {Top}) \ {page.parent[g]}
    /\ parent \notin Within(page.parent, g)
    /\ Send("move_group", {}, g, parent)
    /\ groupBusy' = TRUE
    /\ UNCHANGED <<saved, page, selectedIds, searching, selectionBusy, renameDrafts, batch,
                   listings, touches>>

AddGroup(parent) ==
    /\ batch.at # "asked" /\ ~groupBusy
    /\ parent \in Exists(page.parent) \cup {Top}
    /\ Send("create_group", {}, parent, "none")
    /\ groupBusy' = TRUE
    /\ UNCHANGED <<saved, page, selectedIds, searching, selectionBusy, renameDrafts, batch,
                   listings, touches>>

OpenRename(g) ==
    /\ Touch
    /\ batch.at # "asked" /\ ~groupBusy /\ g \in Exists(page.parent) \ renameDrafts
    /\ renameDrafts' = renameDrafts \cup {g}
    /\ UNCHANGED <<saved, page, selectedIds, searching, groupBusy, selectionBusy, batch, sent,
                   listings>>

\* Given up, or saved with the name it has.
CancelRename(g) ==
    /\ batch.at # "asked" /\ ~groupBusy /\ g \in renameDrafts
    /\ renameDrafts' = renameDrafts \ {g}
    /\ UNCHANGED <<saved, page, selectedIds, searching, groupBusy, selectionBusy, batch, sent,
                   listings, touches>>

RenameGroup(g) ==
    /\ batch.at # "asked" /\ ~groupBusy /\ g \in renameDrafts
    /\ Send("rename_group", {}, g, "none")
    /\ groupBusy' = TRUE
    /\ UNCHANGED <<saved, page, selectedIds, searching, selectionBusy, renameDrafts, batch,
                   listings, touches>>

\* Deleting, one delete at a time: hosts are asked about once the tunnels through them are
\* known, a group at once.
DeleteProfiles(kind, ids) ==
    /\ batch = NoBatch /\ ids # {} /\ ids \subseteq Selectable(page)
    /\ batch' = [NoBatch EXCEPT !.kind = kind, !.ids = ids, !.at = "tunnels"]
    /\ UNCHANGED <<saved, page, selectedIds, searching, groupBusy, selectionBusy, renameDrafts,
                   sent, listings, touches>>

DeleteSome ==
    \/ \E p \in ProfileIds : DeleteProfiles("profile", {p})
    \/ ~selectionBusy /\ DeleteProfiles("selected", selectedIds)

TunnelsKnown ==
    /\ batch.at = "tunnels"
    /\ batch' = [batch EXCEPT !.at = "asked"]
    /\ UNCHANGED <<saved, page, selectedIds, searching, groupBusy, selectionBusy, renameDrafts,
                   sent, listings, touches>>

DeleteGroup(g) ==
    /\ batch = NoBatch /\ ~groupBusy /\ g \in Exists(page.parent)
    /\ batch' = [kind |-> "group", ids |-> {}, group |-> g, parent |-> page.parent[g],
                 at |-> "asked"]
    /\ UNCHANGED <<saved, page, selectedIds, searching, groupBusy, selectionBusy, renameDrafts,
                   sent, listings, touches>>

AnswerDelete(yes) ==
    /\ batch.at = "asked"
    /\ batch' = IF yes THEN [batch EXCEPT !.at = "sent"] ELSE NoBatch
    /\ IF ~yes THEN UNCHANGED <<sent, groupBusy, selectionBusy>>
       ELSE IF batch.kind = "group"
       THEN /\ Send("delete_group", {}, batch.group, batch.parent)
            /\ groupBusy' = TRUE /\ UNCHANGED selectionBusy
       ELSE /\ Send(IF batch.kind = "profile" THEN "delete_profile" ELSE "delete_profiles",
                    batch.ids, Top, "none")
            /\ selectionBusy' = (selectionBusy \/ batch.kind = "selected")
            /\ UNCHANGED groupBusy
    /\ UNCHANGED <<saved, page, selectedIds, searching, renameDrafts, listings, touches>>

-----------------------------------------------------------------------------
(* The commands of src-tauri/profiles.                                     *)

MovesAnywhere(g, parent) ==
    saved.parent[g] # Gone /\ parent \in Exists(saved.parent) \cup {Top}

\* move_group: both exist, and the new parent is not inside the group.
MovesGroup(g, parent) ==
    /\ saved.parent[g] # Gone /\ parent \in Exists(saved.parent) \cup {Top}
    /\ parent \in GroupIds => g \notin Lineage(saved.parent, parent)

\* What a command makes of the database; Refused(c) when it fails for what it finds there.
\* Whether a name is free among its siblings is left open: a command may also fail for that.
Done(c) ==
    CASE c.op = "move_profiles" -> MoveProfilesInList(saved, c.ids, c.group, c.target)
      [] c.op \in {"delete_profile", "delete_profiles"} ->
            [saved EXCEPT !.order = SelectSeq(@, LAMBDA p : p \notin c.ids)]
      [] c.op = "move_group" -> [saved EXCEPT !.parent[c.group] = c.target]
      [] c.op = "create_group" ->
            [saved EXCEPT !.parent[CHOOSE g \in GroupIds : saved.parent[g] = Gone] = c.group]
      [] c.op = "rename_group" -> saved
      [] c.op = "delete_group" ->
            LET up == saved.parent[c.group]
                rise(t) == [x \in DOMAIN t |-> IF t[x] = c.group THEN up ELSE t[x]]
            IN  [saved EXCEPT !.group = rise(@), !.parent = [rise(@) EXCEPT ![c.group] = Gone]]

Refused(c) ==
    CASE c.op = "move_profiles" ->
            \/ c.group \notin Exists(saved.parent) \cup {Top}
            \/ ~(c.ids \subseteq ToSet(saved.order))
      [] c.op = "move_group" -> ~MovesGroup(c.group, c.target)
      [] c.op = "create_group" ->
            \/ c.group \notin Exists(saved.parent) \cup {Top}
            \/ Exists(saved.parent) = GroupIds
      [] c.op \in {"rename_group", "delete_group"} -> saved.parent[c.group] = Gone
      [] c.op \in {"delete_profile", "delete_profiles"} -> FALSE

\* A transaction commits or fails; group commands list the groups in it.
Commit(i) ==
    /\ sent[i].at = "sent" /\ ~Refused(sent[i])
    /\ saved' = Done(sent[i])
    /\ sent' = [sent EXCEPT ![i].at = "ok", ![i].groups = saved'.parent]
    /\ UNCHANGED <<page, selectedIds, searching, groupBusy, selectionBusy, renameDrafts, batch,
                   listings, touches>>

Fail(i) ==
    /\ sent[i].at = "sent"
    /\ sent' = [sent EXCEPT ![i].at = "failed"]
    /\ UNCHANGED <<saved, page, selectedIds, searching, groupBusy, selectionBusy, renameDrafts,
                   batch, listings, touches>>

-----------------------------------------------------------------------------
(* The answers.                                                            *)

GroupOps == {"move_group", "create_group", "rename_group", "delete_group"}
Deletes(c) == c.op \in {"delete_group", "delete_profile", "delete_profiles"}

\* What the page makes of an answer: the groups listed, a deleted group's hosts in the parent
\* it had when the user was asked, deleted hosts gone.
Shown(c) ==
    LET listed == IF c.op \in GroupOps THEN [page EXCEPT !.parent = c.groups] ELSE page
    IN  CASE c.op = "delete_group" ->
               [listed EXCEPT !.group = [p \in ProfileIds |-> IF @[p] = c.group THEN c.target
                                                              ELSE @[p]]]
          [] c.op \in {"delete_profile", "delete_profiles"} ->
               [page EXCEPT !.order = SelectSeq(@, LAMBDA p : p \notin c.ids)]
          [] OTHER -> listed

Answered(i) ==
    LET c == sent[i] IN
    /\ c.at \in {"ok", "failed"}
    /\ sent' = [sent EXCEPT ![i] = Finished]
    /\ IF c.at = "failed" THEN UNCHANGED <<page, selectedIds, renameDrafts>>
       ELSE IF c.op = "rename_group"
       THEN /\ page' = Shown(c) /\ UNCHANGED selectedIds
            /\ renameDrafts' = (renameDrafts \ {c.group}) \cap Exists(page'.parent)
       ELSE Show(Shown(c), IF c.op = "delete_profiles" THEN {} ELSE selectedIds)
    /\ IF c.op = "move_profiles" /\ c.at = "failed"
       THEN Len(listings) < MaxListings /\ Listed ELSE UNCHANGED listings
    /\ groupBusy' = (groupBusy /\ c.op \notin GroupOps)
    /\ selectionBusy' = (selectionBusy /\ c.op # "delete_profiles")
    /\ batch' = IF Deletes(c) THEN NoBatch ELSE batch
    /\ UNCHANGED <<saved, searching, touches>>

Next ==
    \/ Refresh \/ SetQuery \/ SelectMatches \/ ClearSelection
    \/ \E i \in DOMAIN listings : \/ ReadGroups(i) \/ ReadProfiles(i)
                                    \/ ShowListing(i) \/ ListingFailed(i)
    \/ \E p \in ProfileIds : ToggleSelected(p) \/ DropProfile(p)
    \/ \E g \in GroupIds : \/ \E parent \in GroupIds \cup {Top} : DropGroup(g, parent)
                           \/ OpenRename(g) \/ CancelRename(g) \/ RenameGroup(g)
                           \/ DeleteGroup(g)
    \/ \E parent \in GroupIds \cup {Top} : AddGroup(parent)
    \/ DeleteSome \/ TunnelsKnown \/ \E yes \in BOOLEAN : AnswerDelete(yes)
    \/ \E i \in DOMAIN sent : Commit(i) \/ Fail(i) \/ Answered(i)

Spec == Init /\ [][Next]_vars

-----------------------------------------------------------------------------
(***************************************************************************)
(* What is stored stays a tree holding every connection: each group sits   *)
(* at the top or in a group that exists, none inside itself, and each      *)
(* connection in a group that exists or in none, whatever drags, deletes   *)
(* and renames were sent from a page that showed an older tree.            *)
(***************************************************************************)
Forest(parent) ==
    \A g \in Exists(parent) :
        /\ parent[g] \in Exists(parent) \cup {Top}
        /\ parent[g] \in GroupIds => g \notin Lineage(parent, parent[g])

GroupsAreForest ==
    /\ Forest(saved.parent)
    /\ \A p \in ProfileIds : saved.group[p] \in Exists(saved.parent) \cup {Top}

\* What makes it hold: a command, when it commits, is about a group there may be.
CommandOK(c) ==
    /\ DOMAIN c = {"op", "ids", "group", "target", "at", "groups"}
    /\ c.op \in {"move_group", "delete_group"} => c.group \in GroupIds
    /\ c.op \in GroupOps \cup {"move_profiles", "delete_profile", "delete_profiles", "none"}
    /\ c.op = "none" => c.at = "done"

ForestInv ==
    /\ DOMAIN saved = {"order", "group", "parent"}
    /\ saved.group \in [ProfileIds -> GroupIds \cup {Top}]
    /\ saved.parent \in [GroupIds -> GroupIds \cup {Top, Gone}]
    /\ GroupsAreForest
    /\ DOMAIN batch = {"kind", "ids", "group", "parent", "at"}
    /\ batch.kind = "group" => batch.group \in GroupIds
    /\ sent \in Seq(ToSet(sent))
    /\ \A i \in DOMAIN sent : CommandOK(sent[i])
=============================================================================
