---------------------------- MODULE TransferList ----------------------------
(***************************************************************************)
(* The list of transfers in the title bar (TransferContext, TransferManager *)
(* and the SFTP panel's useSftpUploads, useUploadEvents, useSftpDownloads,  *)
(* useSftpArchive and SftpDeleteTransferEvents).  The backend runs batches, *)
(* lone files and remote operations and reports them by events; the list    *)
(* follows.  Handlers read the list through transfersRef, a copy made when  *)
(* React commits, while updates apply to the list itself.                   *)
(*                                                                         *)
(* Sizes, speeds and times are left out.  Events and answers arrive in the  *)
(* order in which the backend sent them.                                    *)
(***************************************************************************)
EXTENDS Integers, Sequences

CONSTANTS
    MaxBegins,     \* bound on what is started anew
    MaxRuns,       \* bound on what is started, retried batches included
    Items,         \* files of a batch, 1..Items
    MaxInbox,      \* bound on what is on its way to the page
    MaxRetries     \* bound on retries of one file

VARIABLES
    list,          \* status of every entry; "absent" when it is not listed
    ref,           \* transfersRef.current, and what is on screen
    kids,          \* batchTransferIdsRef, with the status batchProgressRef holds
    kind,          \* what each run is
    backend,       \* how far each run has come in the backend
    owner,         \* the run whose entry stands for a batch: a download's retry keeps it
    alone,         \* attempts at a file by itself, or at a remote operation
    cancelMap,     \* the backend's TransferCancelMap: the attempt an id stands for
    signalled,     \* attempts that have been told to stop
    inbox,         \* events and answers on their way
    asks,          \* runs whose conflicts are being checked, or asked about
    retries

vars == <<list, ref, kids, kind, owner, backend, alone, cancelMap, signalled, inbox, asks, retries>>

Runs == 1..MaxRuns
Ids == Runs \X (0..Items)
Batch(r) == <<owner[r], 0>>
None == -1
Kinds == {"upload", "files", "download", "file", "delete", "archive"}
Active == {"pending", "transferring"}
At(stage, k) == [at |-> stage, k |-> k]
Ends == {"completed", "failed", "cancelled"}

Init ==
    /\ list = [id \in Ids |-> "absent"] /\ ref = list
    /\ kids = [r \in Runs |-> <<>>] /\ kind = [r \in Runs |-> "none"]
    /\ backend = [r \in Runs |-> At("none", 0)] /\ owner = [r \in Runs |-> r]
    /\ alone = {} /\ cancelMap = [id \in Ids |-> None] /\ signalled = {}
    /\ inbox = <<>> /\ asks = [r \in Runs |-> "none"] /\ retries = 0

----------------------------------------------------------------------------
(* TransferContext.                                                        *)

AddTransfer(l, id) == IF l[id] = "absent" THEN [l EXCEPT ![id] = "pending"] ELSE l

UpdateTransfer(l, id, status) ==
    IF l[id] = "absent" THEN l ELSE [l EXCEPT ![id] = status]

\* The effect that follows a commit.
Commit ==
    /\ ref # list /\ ref' = list
    /\ UNCHANGED <<list, kids, kind, owner, backend, alone, cancelMap, signalled, inbox, asks, retries>>

\* What an entry of the panel offers.
CanCancel(id) == ref[id] \in Active
CanRemove(id) == ref[id] \in Ends
CanRetry(id) ==
    ref[id] \in {"failed", "cancelled"} /\ (id[2] > 0 \/ kind[id[1]] \in {"upload", "download", "file"})

\* Clicks: React commits before the next event is handled.
Clicked == ref' = list' /\ UNCHANGED <<kids, inbox, asks>>

\* An active entry offers to cancel it: it is marked at once, and the backend
\* told, if it still knows the id.
CancelTransfer ==
    /\ \E id \in Ids :
          /\ CanCancel(id)
          /\ list' = UpdateTransfer(list, id, "cancelled")
          /\ signalled' = IF cancelMap[id] = None THEN signalled ELSE signalled \cup {<<id, cancelMap[id]>>}
    /\ Clicked /\ UNCHANGED <<kind, owner, backend, alone, cancelMap, retries>>

RemoveTransfer ==
    /\ \E id \in Ids : CanRemove(id) /\ list' = [list EXCEPT ![id] = "absent"]
    /\ Clicked /\ UNCHANGED <<kind, owner, backend, alone, cancelMap, signalled, retries>>

ClearCompletedTransfers ==
    /\ \E id \in Ids : ref[id] \in Ends
    /\ list' = [id \in Ids |-> IF list[id] \in Active THEN list[id] ELSE "absent"]
    /\ Clicked /\ UNCHANGED <<kind, owner, backend, alone, cancelMap, signalled, retries>>

NextRun(r) == kind[r] = "none" /\ \A q \in Runs : q < r => kind[q] # "none"

\* A file's retry; a batch runs again, a download's under the id it had, an
\* upload's with the policy it had.
RetryTransfer ==
    /\ retries < MaxRetries /\ retries' = retries + 1
    /\ \E id \in Ids :
          /\ CanRetry(id)
          /\ \/ /\ id[2] > 0 \/ kind[id[1]] = "file"
                /\ list' = UpdateTransfer(list, id, "transferring")
                /\ alone' = alone \cup {<<id, retries + 1>>}
                /\ cancelMap' = [cancelMap EXCEPT ![id] = retries + 1]
                /\ UNCHANGED <<kind, owner, backend>>
             \/ /\ id[2] = 0 /\ kind[id[1]] # "file"
                /\ \E r \in Runs :
                      /\ NextRun(r) /\ kind' = [kind EXCEPT ![r] = kind[id[1]]]
                      /\ owner' = IF kind[id[1]] = "upload" THEN owner ELSE [owner EXCEPT ![r] = id[1]]
                      /\ backend' = [backend EXCEPT ![r] = At("starting", 0)]
                /\ list' = IF kind[id[1]] = "upload" THEN list ELSE UpdateTransfer(list, id, "transferring")
                /\ UNCHANGED <<alone, cancelMap>>
    /\ Clicked /\ UNCHANGED signalled

----------------------------------------------------------------------------
(* Starting a transfer.                                                    *)

Starting(r, k) == NextRun(r) /\ r <= MaxBegins /\ kind' = [kind EXCEPT ![r] = k]
BeginUnchanged == UNCHANGED <<ref, kids, owner, signalled, inbox, retries>>

\* uploadPaths, from the dialogs, a drop or the clipboard: conflicts come first.
BeginUpload ==
    /\ \E r \in Runs, k \in {"upload", "files"} :
          Starting(r, k) /\ asks' = [asks EXCEPT ![r] = "checking"]
    /\ BeginUnchanged /\ UNCHANGED <<list, backend, alone, cancelMap>>

\* downloadEntriesToFolder: several entries, or a folder.
BeginDownloads ==
    /\ \E r \in Runs : Starting(r, "download") /\ asks' = [asks EXCEPT ![r] = "checking"]
    /\ BeginUnchanged /\ UNCHANGED <<list, backend, alone, cancelMap>>

CallAlone(r, k) ==
    /\ Starting(r, k)
    /\ list' = [list EXCEPT ![<<r, 0>>] = "transferring"]
    /\ alone' = alone \cup {<<<<r, 0>>, 0>>} /\ cancelMap' = [cancelMap EXCEPT ![<<r, 0>>] = 0]

\* downloadEntries with one file: the save dialog has asked.
BeginDownloadFile ==
    /\ \E r \in Runs : CallAlone(r, "file")
    /\ BeginUnchanged /\ UNCHANGED <<asks, backend>>

\* The archive dialogs' confirm.
BeginArchive ==
    /\ \E r \in Runs : CallAlone(r, "archive")
    /\ BeginUnchanged /\ UNCHANGED <<asks, backend>>

\* startDeleteBatch
BeginDelete ==
    /\ \E r \in Runs : Starting(r, "delete") /\ backend' = [backend EXCEPT ![r] = At("starting", 0)]
    /\ BeginUnchanged /\ UNCHANGED <<list, asks, alone, cancelMap>>

\* The backend takes a batch over: of downloads, it is listed by then.
Go(r) ==
    /\ backend' = [backend EXCEPT ![r] = At("starting", 0)]
    /\ list' = IF kind[r] = "download" THEN [list EXCEPT ![<<r, 0>>] = "transferring"] ELSE list

AsksUnchanged == UNCHANGED <<ref, kids, kind, owner, alone, cancelMap, signalled, inbox, retries>>

\* The check of conflicts answers: it failed, found none, or has the question
\* put; a question already on screen is answered with null by that.
ConflictsChecked ==
    /\ \E r \in Runs :
          /\ asks[r] = "checking"
          /\ \/ asks' = [asks EXCEPT ![r] = "none"] /\ Go(r)
             \/ /\ asks' = [asks EXCEPT ![r] = "none"] /\ UNCHANGED backend
                /\ list' = IF kind[r] = "download" THEN [list EXCEPT ![<<r, 0>>] = "failed"] ELSE list
             \/ /\ asks' = [q \in Runs |-> IF q = r THEN "asking" ELSE IF asks[q] = "asking" THEN "none" ELSE asks[q]]
                /\ UNCHANGED <<list, backend>>
    /\ AsksUnchanged

\* The dialog closes with a policy, or without.
ConflictDialogCloses ==
    /\ \E r \in Runs :
          /\ asks[r] = "asking" /\ asks' = [asks EXCEPT ![r] = "none"]
          /\ Go(r) \/ UNCHANGED <<list, backend>>
    /\ AsksUnchanged

----------------------------------------------------------------------------
(* The backend: sftp_upload_paths, sftp_download_paths, sftp_upload_file,   *)
(* sftp_download_file, sftp_delete_entries and the archive commands.        *)
(* A run is between two items, k of them done, or in its k-th.               *)

Emit(es) == Len(inbox) < MaxInbox /\ inbox' = inbox \o es
Event(t, id, how) == [t |-> t, id |-> id, how |-> how]
\* A batch of run r is the attempt -r - 1 at its entry, an item the attempt 0.
Attempt(r) == -r - 1
Signalled(r) == <<Batch(r), Attempt(r)>> \in signalled

BatchStarts(r) ==
    /\ backend[r].at = "starting"
    /\ backend' = [backend EXCEPT ![r] = At("between", 0)]
    /\ cancelMap' = IF kind[r] \in {"upload", "download"}
                    THEN [cancelMap EXCEPT ![Batch(r)] = Attempt(r)] ELSE cancelMap
    /\ IF kind[r] \in {"upload", "delete"} THEN Emit(<<Event("batchStart", Batch(r), "none")>>)
       ELSE UNCHANGED inbox

ItemStarts(r) ==
    /\ backend[r].at = "between" /\ backend[r].k < Items /\ kind[r] # "delete" /\ ~Signalled(r)
    /\ backend' = [backend EXCEPT ![r] = At("item", @.k + 1)]
    /\ cancelMap' = [cancelMap EXCEPT ![<<r, backend[r].k + 1>>] = 0]
    /\ Emit(<<Event("itemStart", <<r, backend[r].k + 1>>, "none")>>)

\* A file under way, or a delete.
BatchMoves(r) ==
    /\ \/ backend[r].at = "item"
          /\ Emit(<<Event("progress", <<r, backend[r].k>>, "none")>>
                    \o IF kind[r] = "download" THEN <<Event("progress", Batch(r), "none")>> ELSE <<>>)
       \/ backend[r].at = "between" /\ kind[r] = "delete"
          /\ Emit(<<Event("progress", Batch(r), "none")>>)
    /\ UNCHANGED <<backend, cancelMap>>

\* A failed upload leaves the rest to go on; a failed download ends its batch.
ItemEnds(r) ==
    /\ backend[r].at = "item"
    /\ LET id == <<r, backend[r].k>>
       IN  \E how \in Ends :
             /\ how = "cancelled" => Signalled(r) \/ <<id, 0>> \in signalled
             /\ Emit(<<Event("itemEnd", id, how)>>)
             /\ cancelMap' = [cancelMap EXCEPT ![id] = None]
             /\ backend' = [backend EXCEPT ![r] =
                   At(IF how = "cancelled" THEN "stopped"
                      ELSE IF how = "failed" /\ kind[r] = "download" THEN "broken" ELSE "between", @.k)]

\* The batch ends: every item done, cancelled, or a step of its own refused.
BatchEnds(r) ==
    /\ \E how \in Ends :
          /\ \/ how = "completed" /\ backend[r] = At("between", IF kind[r] = "delete" THEN 0 ELSE Items)
             \/ how = "cancelled" /\ backend[r].at = "stopped"
             \/ how = "cancelled" /\ backend[r].at = "between" /\ Signalled(r)
             \/ how = "failed" /\ (backend[r].at = "broken" \/ backend[r] = At("between", 0))
          /\ Emit((IF kind[r] = "files" THEN <<>> ELSE <<Event("batchEnd", Batch(r), how)>>)
                  \o IF kind[r] = "download" THEN <<Event("answer", Batch(r), how)>> ELSE <<>>)
    /\ backend' = [backend EXCEPT ![r] = At("done", 0)]
    /\ cancelMap' = [cancelMap EXCEPT ![Batch(r)] = None]

BatchRuns ==
    /\ \E r \in Runs :
          BatchStarts(r) \/ ItemStarts(r) \/ BatchMoves(r) \/ ItemEnds(r) \/ BatchEnds(r)
    /\ UNCHANGED <<list, ref, kids, kind, owner, alone, signalled, asks, retries>>

\* A file by itself, or a remote operation.
AloneRuns ==
    /\ \E a \in alone :
          \/ /\ kind[a[1][1]] # "archive" /\ Emit(<<Event("progress", a[1], "none")>>)
             /\ UNCHANGED <<alone, cancelMap>>
          \/ \E how \in Ends :
                /\ how = "cancelled" => a \in signalled
                /\ alone' = alone \ {a} /\ cancelMap' = [cancelMap EXCEPT ![a[1]] = None]
                /\ Emit(<<Event("alone", a[1], how)>>)
    /\ UNCHANGED <<list, ref, kids, kind, owner, backend, signalled, asks, retries>>

----------------------------------------------------------------------------
(* The events.                                                             *)

Receives(t, kinds) == inbox # <<>> /\ Head(inbox).t = t /\ kind[Head(inbox).id[1]] \in kinds
Handled ==
    inbox' = Tail(inbox) /\ UNCHANGED <<ref, kind, owner, backend, alone, cancelMap, signalled, asks, retries>>
Uploads == {"upload", "files"}

\* syncBatchTransfer without a status: what its children say.
SyncBatchTransfer(l, r, ks) ==
    UpdateTransfer(l, <<r, 0>>,
        IF \E k \in DOMAIN ks : ks[k] = "failed" THEN "failed"
        ELSE IF \E k \in DOMAIN ks : ks[k] \in Active THEN "transferring" ELSE "pending")

Joined(f, k, v) == [x \in DOMAIN f \cup {k} |-> IF x = k THEN v ELSE f[x]]

UploadBatchStart ==
    /\ Receives("batchStart", {"upload"})
    /\ list' = [list EXCEPT ![Head(inbox).id] = "pending"]
    /\ kids' = [kids EXCEPT ![Head(inbox).id[1]] = <<>>]
    /\ Handled

DeleteBatchStart ==
    /\ Receives("batchStart", {"delete"})
    /\ list' = [list EXCEPT ![Head(inbox).id] = "transferring"]
    /\ Handled /\ UNCHANGED kids

UploadItemStart ==
    /\ Receives("itemStart", Uploads)
    /\ LET id == Head(inbox).id
           batch == kind[id[1]] = "upload"
           synced == IF batch THEN UpdateTransfer(list, Batch(id[1]), "transferring") ELSE list
       IN  /\ list' = [AddTransfer(synced, id) EXCEPT ![id] = "transferring"]
           /\ kids' = IF batch THEN [kids EXCEPT ![id[1]] = Joined(@, id, "transferring")] ELSE kids
    /\ Handled

DownloadItemStart ==
    /\ Receives("itemStart", {"download"})
    /\ LET id == Head(inbox).id
       IN  /\ list' = [AddTransfer(list, id) EXCEPT ![id] = "transferring"]
           /\ kids' = [kids EXCEPT ![owner[id[1]]] = Joined(@, id, "transferring")]
    /\ Handled

\* Progress of an upload touches its batch only; of a download, it says it is
\* on its way, unless it was cancelled.
UploadProgress ==
    /\ Receives("progress", Uploads)
    /\ LET id == Head(inbox).id
       IN  list' = IF ref[id] # "absent" /\ kind[id[1]] = "upload" /\ id \in DOMAIN kids[id[1]]
                   THEN UpdateTransfer(list, Batch(id[1]), "transferring") ELSE list
    /\ Handled /\ UNCHANGED kids

DownloadProgress ==
    /\ Receives("progress", {"download", "file"})
    /\ list' = IF ref[Head(inbox).id] = "cancelled" THEN list
               ELSE UpdateTransfer(list, Head(inbox).id, "transferring")
    /\ Handled /\ UNCHANGED kids

DeleteProgress ==
    /\ Receives("progress", {"delete"})
    /\ list' = UpdateTransfer(list, Head(inbox).id, "transferring")
    /\ Handled /\ UNCHANGED kids

UploadItemComplete ==
    /\ Receives("itemEnd", Uploads)
    /\ LET id == Head(inbox).id
           how == Head(inbox).how
           known == ref[id] # "absent" /\ id \in DOMAIN kids[id[1]]
           ks == Joined(kids[id[1]], id, how)
           synced == IF known THEN SyncBatchTransfer(list, id[1], ks) ELSE list
       IN  /\ list' = UpdateTransfer(synced, id, how)
           /\ kids' = IF known THEN [kids EXCEPT ![id[1]] = ks] ELSE kids
    /\ Handled

\* A cancelled item is left to its batch's end.
ItemCompleteUnlessCancelled ==
    /\ Receives("itemEnd", {"download"})
    /\ list' = IF Head(inbox).how = "cancelled" THEN list
               ELSE UpdateTransfer(list, Head(inbox).id, Head(inbox).how)
    /\ Handled /\ UNCHANGED kids

DownloadItemComplete ==
    /\ Receives("itemEnd", {"download"})
    /\ list' = UpdateTransfer(list, Head(inbox).id, Head(inbox).how)
    /\ Handled /\ UNCHANGED kids

\* A cancelled batch takes every file it had with it; one that ran through
\* has failed when one of its files is listed as failed.
UploadBatchComplete ==
    /\ Receives("batchEnd", {"upload"})
    /\ LET id == Head(inbox).id
           how == Head(inbox).how
           mine == DOMAIN kids[id[1]]
           ended == IF how = "cancelled"
                    THEN [i \in Ids |-> IF i \in mine /\ list[i] # "absent" THEN how ELSE list[i]]
                    ELSE list
           failed == how = "completed" /\ \E i \in mine : ref[i] = "failed"
       IN  /\ list' = UpdateTransfer(ended, id, IF failed THEN "failed" ELSE how)
           /\ kids' = [kids EXCEPT ![id[1]] = <<>>]
    /\ Handled

DownloadBatchComplete ==
    /\ Receives("batchEnd", {"download"})
    /\ LET id == Head(inbox).id
           how == Head(inbox).how
           mine == DOMAIN kids[id[1]]
           ended == [i \in Ids |-> IF how = "cancelled" /\ i \in mine /\ ref[i] = "transferring"
                                      /\ list[i] # "absent" THEN how ELSE list[i]]
       IN  /\ list' = UpdateTransfer(ended, id, how)
           /\ kids' = [kids EXCEPT ![id[1]] = <<>>]
    /\ Handled

DeleteBatchComplete ==
    /\ Receives("batchEnd", {"delete"})
    /\ list' = UpdateTransfer(list, Head(inbox).id, Head(inbox).how)
    /\ Handled /\ UNCHANGED kids

\* runDownloadPaths's answer says something only when it is an error.
DownloadAnswered ==
    /\ Receives("answer", {"download"})
    /\ list' = IF Head(inbox).how = "completed" THEN list
               ELSE UpdateTransfer(list, Head(inbox).id, Head(inbox).how)
    /\ Handled /\ UNCHANGED kids

\* runUploadFile's answer.
UploadFileAnswered ==
    /\ Receives("alone", Uploads)
    /\ list' = UpdateTransfer(list, Head(inbox).id, Head(inbox).how)
    /\ Handled /\ UNCHANGED kids

\* runDownloadFile's answer; a download found cancelled stays so.
DownloadFileAnswered ==
    /\ Receives("alone", {"download", "file"})
    /\ LET id == Head(inbox).id
           how == Head(inbox).how
       IN  list' = IF how = "completed" /\ ref[id] = "cancelled" THEN list ELSE UpdateTransfer(list, id, how)
    /\ Handled /\ UNCHANGED kids

\* The answer of useSftpArchive's run.
ArchiveAnswered ==
    /\ Receives("alone", {"archive"})
    /\ list' = UpdateTransfer(list, Head(inbox).id, Head(inbox).how)
    /\ Handled /\ UNCHANGED kids

Receive ==
    \/ UploadBatchStart \/ UploadItemStart \/ UploadProgress \/ UploadItemComplete \/ UploadBatchComplete
    \/ DownloadItemStart \/ DownloadProgress \/ DownloadItemComplete \/ DownloadBatchComplete
    \/ DeleteBatchStart \/ DeleteProgress \/ DeleteBatchComplete
    \/ DownloadAnswered \/ UploadFileAnswered \/ DownloadFileAnswered \/ ArchiveAnswered

Next ==
    \/ Commit \/ CancelTransfer \/ RemoveTransfer \/ ClearCompletedTransfers \/ RetryTransfer
    \/ BeginUpload \/ BeginDownloads \/ BeginDownloadFile \/ BeginArchive \/ BeginDelete
    \/ ConflictsChecked \/ ConflictDialogCloses \/ BatchRuns \/ AloneRuns \/ Receive

Spec == Init /\ [][Next]_vars

----------------------------------------------------------------------------
TypeOK ==
    /\ list \in [Ids -> {"absent"} \cup Active \cup Ends] /\ ref \in [Ids -> {"absent"} \cup Active \cup Ends]
    /\ kind \in [Runs -> {"none"} \cup Kinds]
    /\ \A r \in Runs : DOMAIN kids[r] \subseteq Ids
    /\ owner \in [Runs -> Runs]
    /\ alone \subseteq Ids \X (0..MaxRetries) /\ asks \in [Runs -> {"none", "checking", "asking"}] /\ retries \in 0..MaxRetries

\* Nothing hangs in the list: once the backend has no work and everything it
\* sent has been handled, no entry is pending or on its way, whatever was
\* cancelled, removed and retried in between, and no bookkeeping is left.
TransfersSettle ==
    inbox = <<>> /\ alone = {} /\ (\A r \in Runs : backend[r].at \in {"none", "done"})
        => (\A id \in Ids : list[id] \notin Active) /\ \A r \in Runs : kids[r] = <<>>

-----------------------------------------------------------------------------
(* Why the list settles: whatever is listed as active has work under way    *)
(* that will report its end, or the end is on its way, after everything     *)
(* that could make it active again.                                         *)

Statuses == {"absent"} \cup Active \cup Ends
Lists == [Ids -> Statuses]
Stages == {"none", "starting", "between", "item", "stopped", "broken", "done"}
Positions == [at : Stages, k : 0..Items]
RunStates == [Runs -> Positions]
Reports == {"batchStart", "itemStart", "progress", "itemEnd", "batchEnd", "answer", "alone"}
Events == [t : Reports, id : Ids, how : Ends \cup {"none"}]

ReportOK(e) ==
    /\ kind[e.id[1]] # "none"
    /\ e.t \in {"itemEnd", "batchEnd", "answer", "alone"} => e.how \in Ends
    /\ e.t = "itemStart" => e.id[2] > 0
    /\ e.t \in {"batchStart", "batchEnd", "answer"} => e.id[2] = 0
    /\ e.t = "batchStart" => asks[e.id[1]] = "none"
ReportsOK == inbox \in Seq(Events) /\ \A i \in 1..Len(inbox) : ReportOK(inbox[i])

\* Runs that use another's entry are downloads, and so is that one.
RunOK(r) ==
    /\ kind[owner[r]] = kind[r] /\ (owner[r] # r => kind[r] = "download")
    /\ kind[r] = "none" => backend[r].at = "none" /\ asks[r] = "none"
    /\ asks[r] # "none" => backend[r].at = "none" /\ owner[r] = r
    /\ kids[r] # <<>> => kind[r] \in {"upload", "download"}
    /\ backend[r].at = "item" => backend[r].k > 0
RunsOK ==
    /\ backend \in RunStates /\ DOMAIN kids = Runs
    /\ \A a \in alone : kind[a[1][1]] # "none"
    /\ \A r \in Runs : RunOK(r)

Running(q) == \E r \in Runs : owner[r] = q /\ kind[r] # "files" /\ backend[r].at \notin {"none", "done"}
Working(id) ==
    \/ \E a \in alone : a[1] = id
    \/ id[2] > 0 /\ backend[id[1]] = At("item", id[2])
    \/ id[2] = 0 /\ Running(id[1])

\* The end of an entry, or of a batch, is to come after the first n reports.
EndOf(e, id) == e.id = id /\ e.t \in {"itemEnd", "batchEnd", "alone"}
Ending(id, n) == Working(id) \/ \E j \in (n + 1)..Len(inbox) : EndOf(inbox[j], id)
BatchEndOf(e, q) == e.id = <<q, 0>> /\ e.t = "batchEnd"
BatchEnding(q, n) == Running(q) \/ \E j \in (n + 1)..Len(inbox) : BatchEndOf(inbox[j], q)

ActiveEnd == \A id \in Ids : list[id] \in Active => Ending(id, 0)
KidsEnd == \A q \in Runs : kids[q] # <<>> => BatchEnding(q, 0)
ReportsEnd ==
    /\ \A i \in 1..Len(inbox), id \in Ids :
          inbox[i].id = id /\ inbox[i].t \in {"batchStart", "itemStart", "progress"} => Ending(id, i)
    /\ \A i \in 1..Len(inbox), q \in Runs :
          inbox[i].t = "itemStart" /\ kind[inbox[i].id[1]] # "files" /\ owner[inbox[i].id[1]] = q => BatchEnding(q, i)

\* What has not begun is not listed, and a download that was cancelled on screen
\* stays so: its answer is not applied.
NotListed(id) == list[id] = "absent" /\ ref[id] = "absent"
Begun(id) ==
    /\ backend[id[1]].at \notin {"none", "starting"}
    /\ backend[id[1]].at \in {"between", "item"} => id[2] <= backend[id[1]].k
FirstStart ==
    /\ \A id \in Ids : id[2] > 0 /\ ~Begun(id) => NotListed(id)
    /\ \A r \in Runs : kind[r] = "none" \/ asks[r] # "none" => NotListed(<<r, 0>>)
    /\ \A i \in 1..Len(inbox), id \in Ids : inbox[i].t = "itemStart" /\ inbox[i].id = id =>
          /\ Begun(id) /\ NotListed(id)
          /\ \A j \in 1..Len(inbox) : inbox[j].t = "itemStart" /\ inbox[j].id = id => j = i
CancelledStays ==
    \A id \in Ids : kind[id[1]] \in {"download", "file"} /\ ref[id] = "cancelled" => list[id] \notin Active

SettleInv ==
    /\ TypeOK /\ RunsOK /\ ReportsOK
    /\ ActiveEnd /\ KidsEnd /\ ReportsEnd
    /\ FirstStart /\ CancelledStays
=============================================================================
