--------------------------- MODULE ExternalEdits ---------------------------
(***************************************************************************)
(* A remote file opened from the SFTP drawer in a program on this computer.  *)
(* The backend downloads a copy, looks at it once a second and tells the     *)
(* drawer of saves that differ from the server; the drawer uploads them, at  *)
(* once or after asking.  Program, watch, uploads and drawer run beside each *)
(* other: nothing is held across their I/O.                                  *)
(*                                                                         *)
(* Contents are version numbers, and a copy's stamp tells versions apart.    *)
(* What the backend sends the drawer, events and answers, arrives in order.  *)
(***************************************************************************)
EXTENDS Integers, Sequences, FiniteSets

CONSTANTS
    MaxSaves,       \* bound on saves of the copy
    MaxActs,        \* bound on openings and uploads the user starts
    MaxUploads      \* bound on uploads, the user's and those saves start

VARIABLES
    copy, remote,   \* the version each side holds; Gone without a copy
    saves,
    sess,           \* the backend's session of the file
    look,           \* the look under way
    tasks,          \* uploads under way, by number: where each is and what it read
    uploads,
    reopen, acts,   \* the opening under way
    inbox,          \* events and answers on their way to the drawer
    shown, prompt,  \* the drawer's row of the file and its toast
    uploading,      \* the drawer's set of files being uploaded holds this one
    auto,           \* sftp_external_upload
    sent, lost, declined   \* versions the server has had; dropped unseen; refused by the user

sessVars == <<sess, look>>
uploadVars == <<tasks, uploads>>
openVars == <<reopen, acts>>
drawerVars == <<inbox, shown, prompt, uploading>>
ghosts == <<sent, lost, declined>>
vars == <<copy, remote, saves, sessVars, uploadVars, openVars, drawerVars, auto, ghosts>>

Gone == 0
Nothing == 99                       \* no stamp
Short == 98                         \* what an upload cut off part way leaves
NoSession == [open |-> FALSE, status |-> "synced", synced |-> Nothing, observed |-> Nothing, settling |-> Nothing, baseline |-> Nothing]
NoLook == [at |-> "none", found |-> Nothing]
Event(status) == [what |-> status, task |-> 0]
Answer(what, t) == [what |-> what, task |-> t]

Init ==
    /\ copy = Gone /\ remote = 1 /\ saves = 0 /\ sess = NoSession /\ look = NoLook
    /\ tasks = [t \in {} |-> 0] /\ uploads = 0 /\ reopen = "none" /\ acts = 0
    /\ inbox = <<>> /\ shown = "none" /\ prompt = FALSE /\ uploading = FALSE
    /\ auto \in BOOLEAN /\ sent = {1} /\ lost = {} /\ declined = {}

----------------------------------------------------------------------------
(* The program, and someone else's change to the remote file.              *)

NextVersion == 2 + saves

Save ==
    /\ sess.open /\ saves < MaxSaves /\ saves' = saves + 1 /\ copy' = NextVersion
    /\ UNCHANGED <<remote, sessVars, uploadVars, openVars, drawerVars, auto, ghosts>>

RemoteChanges ==
    /\ saves < MaxSaves /\ saves' = saves + 1 /\ remote' = NextVersion /\ sent' = sent \cup {NextVersion}
    /\ UNCHANGED <<copy, sessVars, uploadVars, openVars, drawerVars, auto, lost, declined>>

----------------------------------------------------------------------------
(* The watch (watch.rs, sessions.rs).                                      *)

\* watched and look_at: same, still settling, or held still and read.
LookAt ==
    /\ sess.open /\ sess.status # "uploading" /\ look.at = "none"
    /\ look' = [found |-> copy, at |-> IF copy \in {Gone, sess.observed} THEN "same"
                                       ELSE IF copy = sess.settling THEN "settled" ELSE "settling"]
    /\ copy = sess.observed => sess.settling # Nothing   \* a look that changes nothing is not a step
    /\ UNCHANGED <<copy, remote, saves, sess, uploadVars, openVars, drawerVars, auto, ghosts>>

Tell(status) == inbox' = Append(inbox, Event(status))

\* apply_looks.
ApplyLooks ==
    /\ look.at \in {"same", "settling", "settled"} /\ look' = NoLook
    /\ IF ~sess.open \/ sess.status = "uploading" THEN UNCHANGED <<sess, inbox>>
       ELSE \/ look.at = "same" /\ sess' = [sess EXCEPT !.settling = Nothing] /\ UNCHANGED inbox
            \/ look.at = "settling" /\ sess' = [sess EXCEPT !.settling = look.found] /\ UNCHANGED inbox
            \/ /\ look.at = "settled"
               /\ sess' = [sess EXCEPT !.observed = look.found, !.settling = Nothing,
                               !.status = IF look.found # sess.synced THEN "modified" ELSE "synced"]
               /\ IF sess'.status = "modified" \/ sess.status # "synced" THEN Tell(sess'.status) ELSE UNCHANGED inbox
    /\ UNCHANGED <<copy, remote, saves, uploadVars, openVars, shown, prompt, uploading, auto, ghosts>>

----------------------------------------------------------------------------
(* Opening (sftp_external_edit_open), and opening again.                   *)

\* What the copy held and the server never had goes unseen.
Dropped == lost' = lost \cup ({copy} \ (sent \cup {Gone}))

Open ==
    /\ acts = 0 /\ acts' = 1 /\ reopen' = "download"
    /\ UNCHANGED <<copy, remote, saves, sessVars, uploadVars, drawerVars, auto, ghosts>>

\* find: a file with changes opens as it is, another is downloaded afresh.
Reopen ==
    /\ shown # "none" /\ reopen = "none" /\ acts < MaxActs /\ acts' = acts + 1
    /\ ~(sess.open /\ sess.status # "synced") /\ reopen' = "download"
    /\ UNCHANGED <<copy, remote, saves, sessVars, uploadVars, drawerVars, auto, ghosts>>

Download ==
    /\ reopen = "download" /\ remote # Short
    /\ reopen' = "fingerprint" /\ copy' = remote /\ Dropped
    /\ UNCHANGED <<remote, saves, sessVars, uploadVars, acts, drawerVars, auto, sent, declined>>

DownloadFails ==
    /\ reopen = "download" /\ reopen' = "none"
    /\ UNCHANGED <<copy, remote, saves, sessVars, uploadVars, acts, drawerVars, auto, ghosts>>

\* start_session's insert, or refreshed: what the copy holds now counts as
\* synced.  Then the launch; a file that cannot be opened the first time is
\* let go.
Launched ==
    /\ reopen = "fingerprint" /\ reopen' = "none"
    /\ \/ /\ inbox' = Append(inbox, Answer("opened", 0)) /\ lost' = lost \cup ({copy} \ sent)
          /\ sess' = [open |-> TRUE, status |-> "synced", synced |-> copy, observed |-> copy, settling |-> Nothing,
                      baseline |-> remote]
          /\ UNCHANGED copy
       \/ ~sess.open /\ copy' = Gone /\ Dropped /\ UNCHANGED <<sess, inbox>>
    /\ UNCHANGED <<remote, saves, look, uploadVars, acts, shown, prompt, uploading, auto, sent, declined>>

----------------------------------------------------------------------------
(* Uploading: the drawer's upload and sftp_external_edit_upload.           *)

At(t, where) == tasks' = [tasks EXCEPT ![t].at = where]
Finished(t) == tasks' = [u \in DOMAIN tasks \ {t} |-> tasks[u]]

\* upload, up to its await.
StartUpload ==
    /\ uploads < MaxUploads /\ uploads' = uploads + 1 /\ uploading' = TRUE /\ prompt' = FALSE
    /\ tasks' = [t \in DOMAIN tasks \cup {uploads'} |->
                    IF t = uploads' THEN [at |-> "send", overwrite |-> FALSE, read |-> Nothing, stamp |-> Nothing] ELSE tasks[t]]

\* The toast's button, or the one in the list of open files.
Upload ==
    /\ acts < MaxActs /\ acts' = acts + 1 /\ (prompt \/ shown \in {"synced", "modified", "failed"}) /\ StartUpload
    /\ UNCHANGED <<copy, remote, saves, sessVars, reopen, inbox, shown, auto, ghosts>>

\* begin_upload, and the fingerprint of the copy.
BeginUpload ==
    /\ \E t \in DOMAIN tasks :
          /\ tasks[t].at = "send"
          /\ IF ~sess.open \/ sess.status = "uploading"
             THEN At(t, "answered") /\ inbox' = Append(inbox, Answer("error", t)) /\ UNCHANGED sess
             ELSE /\ tasks' = [tasks EXCEPT ![t].at = "read", ![t].read = copy]
                  /\ sess' = [sess EXCEPT !.status = "uploading"] /\ Tell("uploading")
    /\ UNCHANGED <<copy, remote, saves, look, uploads, openVars, shown, prompt, uploading, auto, ghosts>>

\* remote::upload: refused when the remote file is not the one downloaded.
UploadWrites ==
    /\ \E t \in DOMAIN tasks :
          /\ tasks[t].at = "read"
          /\ \/ /\ tasks[t].overwrite \/ remote = sess.baseline
                /\ remote' = copy /\ sent' = sent \cup {copy}
                /\ tasks' = [tasks EXCEPT ![t].at = "written", ![t].stamp = copy]
             \/ ~tasks[t].overwrite /\ remote # sess.baseline /\ At(t, "changed") /\ UNCHANGED <<remote, sent>>
             \/ At(t, "failed") /\ remote' \in {remote, Short} /\ UNCHANGED sent
    /\ copy # Gone
    /\ UNCHANGED <<copy, saves, sessVars, uploads, openVars, drawerVars, auto, lost, declined>>

\* Mutant: what the copy holds once the upload is over counts as uploaded.
UploadedAsIs(t) ==
    [sess EXCEPT !.baseline = tasks[t].stamp, !.synced = copy, !.observed = copy, !.settling = Nothing, !.status = "synced"]

\* uploaded: what was read before the upload counts, so a save made while it
\* ran is found by the next look.
Uploaded(t) ==
    [sess EXCEPT !.baseline = tasks[t].stamp, !.synced = tasks[t].read, !.observed = tasks[t].read,
                 !.settling = Nothing, !.status = "synced"]

\* uploaded or upload_stopped, their event, and the answer after it.
UploadEnds ==
    /\ \E t \in DOMAIN tasks :
          /\ tasks[t].at \in {"written", "changed", "failed"} /\ At(t, "answered")
          /\ sess' = IF ~sess.open THEN sess
                     ELSE IF tasks[t].at = "written" THEN Uploaded(t)
                     ELSE [sess EXCEPT !.status = IF tasks[t].at = "changed" THEN "modified" ELSE "failed"]
          /\ inbox' = inbox \o (IF sess.open THEN <<Event(sess'.status)>> ELSE <<>>)
                            \o <<Answer(IF tasks[t].at = "changed" THEN "changed" ELSE "done", t)>>
    /\ UNCHANGED <<copy, remote, saves, look, uploads, openVars, shown, prompt, uploading, auto, ghosts>>

----------------------------------------------------------------------------
(* The drawer.                                                             *)

\* The listener: the row, and onChange.
EventArrives ==
    /\ inbox # <<>> /\ Head(inbox).what \in {"synced", "modified", "uploading", "failed"}
    /\ LET status == Head(inbox).what
           changed == ~uploading /\ status = "modified"
       IN /\ inbox' = Tail(inbox) /\ shown' = status
          /\ IF changed /\ auto THEN StartUpload
             ELSE /\ prompt' = IF changed THEN TRUE ELSE (prompt /\ ~(~uploading /\ status = "synced"))
                  /\ UNCHANGED <<tasks, uploads, uploading>>
    /\ UNCHANGED <<copy, remote, saves, sessVars, openVars, auto, ghosts>>

AnswerArrives ==
    /\ inbox # <<>> /\ Head(inbox).what \in {"error", "done", "changed", "opened"} /\ inbox' = Tail(inbox)
    /\ LET a == Head(inbox) IN
       \/ a.what = "opened" /\ shown' = "synced" /\ UNCHANGED <<tasks, uploading>>
       \/ a.what = "changed" /\ At(a.task, "asking") /\ UNCHANGED <<shown, uploading>>
       \/ a.what \in {"error", "done"} /\ Finished(a.task) /\ uploading' = FALSE /\ UNCHANGED shown
    /\ UNCHANGED <<copy, remote, saves, sessVars, uploads, openVars, prompt, auto, ghosts>>

\* The remote file changed: overwrite it, or leave it.
AnswerOverwrite ==
    /\ \E t \in DOMAIN tasks :
          /\ tasks[t].at = "asking"
          /\ \/ tasks' = [tasks EXCEPT ![t].at = "send", ![t].overwrite = TRUE] /\ UNCHANGED <<uploading, declined>>
             \/ Finished(t) /\ uploading' = FALSE /\ declined' = declined \cup {copy}
    /\ UNCHANGED <<copy, remote, saves, sessVars, uploads, openVars, inbox, shown, prompt, auto, sent, lost>>

DismissPrompt ==
    /\ prompt /\ prompt' = FALSE
    /\ UNCHANGED <<copy, remote, saves, sessVars, uploadVars, openVars, inbox, shown, uploading, auto, ghosts>>

Discard == sess' = NoSession /\ copy' = Gone /\ shown' = "none" /\ prompt' = FALSE

\* stop: changes the drawer knows of are discarded only once the user agrees.
Stop ==
    /\ shown # "none" /\ reopen = "none" /\ sess.open /\ Discard
    /\ IF shown = "synced" THEN Dropped /\ UNCHANGED declined
       ELSE declined' = declined \cup {copy} /\ UNCHANGED lost
    /\ UNCHANGED <<remote, saves, look, uploadVars, openVars, inbox, uploading, auto, sent>>

\* The tab closes: release_tab keeps the copies it knows to hold changes.
ReleaseTab ==
    /\ sess.open /\ reopen = "none" /\ tasks = [t \in {} |-> 0] /\ sess' = NoSession /\ shown' = "none" /\ prompt' = FALSE
    /\ copy' = IF sess.status = "synced" THEN Gone ELSE copy
    /\ IF sess.status = "synced" THEN Dropped /\ UNCHANGED declined
       ELSE declined' = declined \cup {copy} /\ UNCHANGED lost
    /\ UNCHANGED <<remote, saves, look, uploadVars, openVars, inbox, uploading, auto, sent>>

Machine ==
    \/ LookAt \/ ApplyLooks \/ Download \/ Launched
    \/ BeginUpload \/ UploadWrites \/ UploadEnds \/ EventArrives \/ AnswerArrives

Next ==
    \/ Save \/ RemoteChanges \/ Machine \/ Open \/ Reopen \/ DownloadFails \/ Upload
    \/ AnswerOverwrite \/ DismissPrompt \/ Stop \/ ReleaseTab

\* The runtime runs the watch and the commands; the webview takes what it is
\* sent.  What the user and the programs do is not fair.
Fairness ==
    /\ WF_vars(LookAt) /\ WF_vars(ApplyLooks)
    /\ WF_vars(Download) /\ WF_vars(Launched)
    /\ WF_vars(BeginUpload) /\ WF_vars(UploadWrites) /\ WF_vars(UploadEnds)
    /\ WF_vars(EventArrives) /\ WF_vars(AnswerArrives)

Spec == Init /\ [][Next]_vars /\ Fairness

----------------------------------------------------------------------------
\* Every save ends up on the server, or the user knows of it: a failed upload,
\* a question whether to overwrite, which may have been declined, or a mark to
\* upload it.  Only what opening or letting go of the file dropped is missing.
LastSaveKnown ==
    sess.open /\ uploads < MaxUploads =>
        \/ copy \in sent \cup lost \cup declined
        \/ sess.status = "failed" \/ \E t \in DOMAIN tasks : tasks[t].at = "asking"
        \/ ~auto /\ sess.status = "modified"
SavesSettle == <>[]LastSaveKnown

\* No save is dropped unless the user agreed.
UnsentSavesKept == lost = {}
=============================================================================
