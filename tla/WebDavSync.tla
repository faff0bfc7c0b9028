----------------------------- MODULE WebDavSync -----------------------------
(***************************************************************************)
(* Keeping several devices in sync through one file on a WebDAV server.     *)
(*                                                                         *)
(* A sync takes a snapshot of the device's data, fetches the file, merges   *)
(* it with the snapshot against the base (what the device and the server    *)
(* agreed on last), uploads the result and only then writes it to the       *)
(* device, together with the new base.  Devices run on their own; a server  *)
(* may ignore If-Match, lose the file, or leave a request unanswered.       *)
(*                                                                         *)
(* The data is one record of one category.  A version of the record is the  *)
(* number of the edit that wrote it, which is also its time stamp.          *)
(***************************************************************************)
EXTENDS Integers, Sequences, FiniteSets, SequencesExt, FiniteSetsExt

CONSTANTS
    Devices,
    Cards,          \* the devices whose sync card and vault are used
    HistoryLen,     \* HISTORY_LEN
    MaxAttempts,    \* MAX_ATTEMPTS
    MaxEdits,       \* bound on edits of the record
    MaxDeletes,     \* bound on deletions of the record
    MaxEvents,      \* bound on failed requests, crashes, lost files and on
                    \* what the user does with the sync card and the vault
    MaxActs         \* bound on edits, deletions and those events in all

ASSUME SyncAssumption == Cards \subseteq Devices /\ HistoryLen \in Nat \ {0}
ASSUME BoundsAssumption == MaxAttempts \in Nat \ {0} /\ MaxEdits \in Nat

VARIABLES
    local,          \* the record on each device
    base,           \* the merge base of each device
    sync,           \* the sync in flight on each device, under SYNC_LOCK
    settings,       \* enabled, and whether the record's category is selected
    locked,         \* the devices whose saved passwords are locked
    schedule,       \* the devices whose timers run (useWebDavSync)
    card,           \* the busy action of the sync card (WebDavSyncCard)
    file,           \* the sync file on the server
    server,         \* whether the server honours If-Match; revisions so far
    edits, deletes, events,
    settled,        \* versions a user replaced or deleted, having seen them
    raced,          \* versions a sync wrote over that were newer than its snapshot
    reselected      \* a device left the category out for a while

dataVars == <<local, base, file, server>>
uiVars == <<settings, locked, schedule, card>>
ghostVars == <<settled, raced, reselected>>
vars == <<dataVars, sync, uiVars, edits, deletes, events, ghostVars>>

None == "none"
Absent == 0         \* no such record
Missing == -1       \* the collections have no such category
NoFile == [exists |-> FALSE, val |-> Missing, history |-> <<>>, etag |-> 0]
NoBase == NoFile
Idle == [step |-> "idle", selected |-> TRUE, mine |-> Absent, hint |-> 0, got |-> NoFile, tries |-> 0]

Init ==
    /\ local = [d \in Devices |-> Absent] /\ base = [d \in Devices |-> NoBase] /\ file = NoFile
    /\ server \in [honours : BOOLEAN, revs : {0}] /\ sync = [d \in Devices |-> Idle]
    /\ settings = [d \in Devices |-> [enabled |-> TRUE, selected |-> TRUE]]
    /\ locked = {} /\ schedule = Devices /\ card = [d \in Devices |-> None]
    /\ edits = 0 /\ deletes = 0 /\ events = 0
    /\ settled = {} /\ raced = {} /\ reselected = FALSE

Happens == edits + deletes + events < MaxActs
Event == Happens /\ events < MaxEvents /\ events' = events + 1

----------------------------------------------------------------------------
(* The merge.                                                              *)

\* A record changed on both sides: the later edit, an edit before a deletion.
MergeRecord(l, r) == Max({l, r})

MergeCollection(b, l, r) ==
    CASE l = r -> r
      [] l # r /\ l = b -> r
      [] l # r /\ l # b /\ r = b -> l
      [] OTHER -> MergeRecord(l, r)

\* A category this device leaves out is carried over; one the file does not
\* have is taken from the device.
MergeAll(selected, b, l, r) ==
    IF ~selected THEN r ELSE IF r = Missing THEN l ELSE MergeCollection(b, l, r)

DescendsFrom(history, exists, revision) == exists => revision # 0 /\ Contains(history, revision)
Revision(b) == IF b.history = <<>> THEN 0 ELSE Last(b.history)

\* Mutant: the base is trusted whatever the file was made from.
MergeBaseAlways(d, got) == IF base[d].exists /\ base[d].val # Missing THEN base[d].val ELSE Absent

\* The base, when the file was made from it; else nothing, like a first sync.
MergeBase(d, got) ==
    IF /\ base[d].exists /\ base[d].val # Missing
       /\ DescendsFrom(got.history, got.exists, Revision(base[d]))
    THEN base[d].val ELSE Absent

Merged(d, got) == MergeAll(sync[d].selected, MergeBase(d, got), sync[d].mine, got.val)

NextHistory(parent, revision) ==
    SubSeq(parent, IF Len(parent) > HistoryLen - 1 THEN Len(parent) - HistoryLen + 2 ELSE 1, Len(parent)) \o <<revision>>

----------------------------------------------------------------------------
(* A sync.                                                                 *)

\* Mutant: only a sync that succeeds lets the next one run.
EndedRunning(d) ==
    /\ sync' = [sync EXCEPT ![d] = IF sync[d].step = "apply" THEN Idle ELSE [Idle EXCEPT !.step = "running"]]
    /\ UNCHANGED card

\* The sync ends, and with it the card's if that one is waiting for it.
Ended(d) ==
    /\ sync' = [sync EXCEPT ![d] = Idle]
    /\ card' = IF card[d] = "sync" THEN [card EXCEPT ![d] = None] ELSE card

\* The lock is taken, the device's data and base are read.  Without
\* checkRemote nothing happens unless the data differs from the base.
StartSync(d) ==
    sync' = [sync EXCEPT ![d] = [step |-> "fetch", selected |-> settings[d].selected, mine |-> local[d],
                                 hint |-> base[d].etag, got |-> NoFile, tries |-> 0]]
Runs(d) == sync[d].step = "idle" /\ settings[d].enabled /\ d \notin locked

Tick(d) ==
    /\ d \in schedule /\ Runs(d) /\ StartSync(d)
    /\ UNCHANGED <<dataVars, uiVars, edits, deletes, events, ghostVars>>

Uploads(d, got) == ~got.exists \/ Merged(d, got) # got.val

\* A file that has not changed since the base is the base's.
Fetch(d) ==
    LET got == IF base[d].exists /\ file.exists /\ sync[d].hint = file.etag THEN base[d] ELSE file
    IN /\ sync[d].step = "fetch"
       /\ sync' = [sync EXCEPT ![d].step = IF Uploads(d, got) THEN "put" ELSE "apply", ![d].got = got]
       /\ UNCHANGED <<dataVars, uiVars, edits, deletes, events, ghostVars>>

\* An upload without an ETag has no condition.
Accepted(d) == sync[d].got.etag = 0 \/ ~server.honours \/ (file.exists /\ sync[d].got.etag = file.etag)
Stored(d) ==
    LET r == server.revs + 1
    IN /\ server' = [server EXCEPT !.revs = r]
       /\ file' = [exists |-> TRUE, val |-> Merged(d, sync[d].got), history |-> NextHistory(sync[d].got.history, r), etag |-> r]

Upload(d) ==
    /\ sync[d].step = "put" /\ Accepted(d) /\ Stored(d)
    /\ sync' = [sync EXCEPT ![d].step = "apply", ![d].got = file']
    /\ UNCHANGED <<local, base, uiVars, edits, deletes, events, ghostVars>>

\* Another device uploaded in between: fetch and merge again, or give up.
Conflict(d) ==
    /\ sync[d].step = "put" /\ ~Accepted(d)
    /\ IF sync[d].tries + 1 < MaxAttempts
       THEN sync' = [sync EXCEPT ![d].step = "fetch", ![d].hint = 0, ![d].tries = @ + 1, ![d].got = NoFile] /\ UNCHANGED card
       ELSE Ended(d)
    /\ UNCHANGED <<dataVars, settings, locked, schedule, edits, deletes, events, ghostVars>>

\* What the merge changed of the snapshot is written, with the new base.
Apply(d) ==
    LET merged == sync[d].got.val
        writes == sync[d].selected /\ merged # sync[d].mine
    IN /\ sync[d].step = "apply" /\ Ended(d)
       /\ local' = IF writes THEN [local EXCEPT ![d] = merged] ELSE local
       /\ raced' = IF writes /\ local[d] # sync[d].mine THEN raced \cup {local[d]} ELSE raced
       /\ base' = [base EXCEPT ![d] = sync[d].got]
       /\ UNCHANGED <<file, server, settings, locked, schedule, edits, deletes, events, settled, reselected>>

\* A request fails, or the app ends, or the data cannot be written.
SyncFails(d) ==
    /\ sync[d].step # "idle" /\ Event /\ Ended(d)
    /\ \/ UNCHANGED <<file, server>>
       \/ sync[d].step = "put" /\ Accepted(d) /\ Stored(d)     \* stored, the answer is lost
    /\ UNCHANGED <<local, base, settings, locked, schedule, edits, deletes, ghostVars>>

ServerLosesFile ==
    /\ file.exists /\ Event /\ file' = NoFile
    /\ UNCHANGED <<local, base, server, sync, uiVars, edits, deletes, ghostVars>>

----------------------------------------------------------------------------
(* The user.                                                               *)

Edit(d) ==
    /\ Happens /\ edits < MaxEdits /\ edits' = edits + 1 /\ local' = [local EXCEPT ![d] = edits + 1]
    /\ settled' = settled \cup {local[d]}
    /\ UNCHANGED <<base, file, server, sync, uiVars, deletes, events, raced, reselected>>

Delete(d) ==
    /\ local[d] # Absent /\ Happens /\ deletes < MaxDeletes /\ deletes' = deletes + 1
    /\ local' = [local EXCEPT ![d] = Absent]
    /\ settled' = settled \cup {local[d]}
    /\ UNCHANGED <<base, file, server, sync, uiVars, edits, events, raced, reselected>>

\* The card's controls: only the switch while sync is off, none while it is busy.
Offered(d) == settings[d].enabled /\ card[d] = None

\* A locked vault is asked to be unlocked, after which the card syncs.
SyncNow(d) ==
    /\ Offered(d) /\ Event
    /\ IF sync[d].step = "idle" THEN card' = [card EXCEPT ![d] = "sync"] /\ StartSync(d) /\ locked' = locked \ {d}
       ELSE UNCHANGED <<card, sync, locked>>
    /\ UNCHANGED <<dataVars, settings, schedule, edits, deletes, ghostVars>>

LockVault(d) ==
    /\ d \notin locked /\ Event /\ locked' = locked \cup {d}
    /\ UNCHANGED <<dataVars, sync, settings, schedule, card, edits, deletes, ghostVars>>

UnlockVault(d) ==
    /\ d \in locked /\ locked' = locked \ {d}
    /\ UNCHANGED <<dataVars, sync, settings, schedule, card, edits, deletes, events, ghostVars>>

\* The card's switch; turning sync on syncs at once.
Save(d) ==
    /\ card[d] = None /\ Event /\ settings' = [settings EXCEPT ![d].enabled = ~@]
    /\ IF ~settings[d].enabled /\ sync[d].step = "idle" /\ d \notin locked
       THEN card' = [card EXCEPT ![d] = "sync"] /\ StartSync(d) ELSE UNCHANGED <<card, sync>>
    /\ UNCHANGED <<dataVars, locked, schedule, edits, deletes, ghostVars>>

UpdateSelection(d) ==
    /\ Offered(d) /\ Event
    /\ settings' = [settings EXCEPT ![d].selected = ~@] /\ reselected' = TRUE
    /\ UNCHANGED <<dataVars, sync, locked, schedule, card, edits, deletes, settled, raced>>

\* Reset waits for a sync that runs.
HandleReset(d) ==
    /\ Offered(d) /\ Event /\ card' = [card EXCEPT ![d] = "reset"]
    /\ UNCHANGED <<dataVars, sync, settings, locked, schedule, edits, deletes, ghostVars>>

ResetSync(d) ==
    /\ card[d] = "reset" /\ sync[d].step = "idle"
    /\ base' = [base EXCEPT ![d] = NoBase] /\ card' = [card EXCEPT ![d] = None]
    /\ UNCHANGED <<local, file, server, sync, settings, locked, schedule, edits, deletes, events, ghostVars>>

\* The settings event makes the timers start or stop.
LoadSchedule(d) ==
    /\ settings[d].enabled # (d \in schedule)
    /\ schedule' = IF settings[d].enabled THEN schedule \cup {d} ELSE schedule \ {d}
    /\ UNCHANGED <<dataVars, sync, settings, locked, card, edits, deletes, events, ghostVars>>

Step(d) == Fetch(d) \/ Upload(d) \/ Conflict(d) \/ Apply(d) \/ ResetSync(d) \/ LoadSchedule(d)

Next ==
    \/ ServerLosesFile
    \/ \E d \in Devices :
          \/ Tick(d) \/ Fetch(d) \/ Upload(d) \/ Conflict(d) \/ Apply(d) \/ SyncFails(d) \/ Edit(d) \/ Delete(d)
    \/ \E d \in Cards :
          \/ SyncNow(d) \/ LockVault(d) \/ UnlockVault(d) \/ Save(d) \/ UpdateSelection(d)
          \/ HandleReset(d) \/ ResetSync(d) \/ LoadSchedule(d)

\* The requests end, by an answer or a timeout, and the timers keep firing.
Fairness == \A d \in Devices : WF_vars(Tick(d)) /\ WF_vars(Step(d))
Spec == Init /\ [][Next]_vars /\ Fairness

----------------------------------------------------------------------------
TypeOK ==
    /\ local \in [Devices -> 0..MaxEdits] /\ schedule \subseteq Devices /\ locked \subseteq Devices
    /\ \A d \in Devices : sync[d].tries < MaxAttempts /\ Len(sync[d].got.history) <= HistoryLen

\* The last edit made anywhere is still on a device until a user who saw it
\* replaces or deletes it: a deletion or an older edit of another device never
\* wins over it, whatever the server does with conditional uploads, and
\* whatever fails in between.  (Not counted: an edit made while a sync of the
\* same device is in flight, and a category left out for a while.)
EditKept ==
    edits # 0 /\ edits \notin settled \cup raced /\ ~reselected => \E d \in Devices : local[d] = edits

\* The same when a device leaves the category out for a while and takes it in
\* again: "a change made on only one side is taken" (merge.rs).
EditKeptAcrossSelections ==
    edits # 0 /\ edits \notin settled \cup raced => \E d \in Devices : local[d] = edits

\* Once nobody edits any more and every device syncs, all devices come to hold
\* what the server has.
Agree == \A d \in Devices : local[d] = file.val
Syncing == \A d \in Devices : settings[d].enabled /\ settings[d].selected /\ d \notin locked
Converges == <>[]Syncing => <>[]Agree

=============================================================================
