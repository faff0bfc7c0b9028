---------------------------- MODULE SidecarStore ----------------------------
(***************************************************************************)
(* SidecarStore (transfer/checkpoint.rs): the checkpoint sidecar on disk,  *)
(* local or on the SFTP server, with every step of save, load and remove   *)
(* at which the application can die.  A file is absent, torn (a write was  *)
(* cut short) or holds a checkpoint.                                       *)
(***************************************************************************)
EXTENDS Naturals

CONSTANTS Checkpoints,   \* the sidecars a transfer may save
          NoCheckpoint,
          StoreFaults    \* subset of {"write", "remove", "rename"}

Absent == "absent"
Torn == "torn"

ASSUME StoreAssumption ==
  /\ NoCheckpoint \notin Checkpoints
  /\ Absent \notin Checkpoints /\ Torn \notin Checkpoints
  /\ StoreFaults \subseteq {"write", "remove", "rename"}

VARIABLES kind,     \* "remote" or "local": where the store is
          primary,  \* <final>.tterm.part.json
          tmp,      \* its temporary copy
          pc,       \* the next step of save or remove
          arg,      \* the checkpoint being saved
          loaded,   \* run_transfer has loaded or removed the sidecar since it started
          saved,    \* history: checkpoints handed to save since the last remove
          acked     \* history: the last operation was a save that returned Ok

vars == <<kind, primary, tmp, pc, arg, loaded, saved, acked>>

(* What load finds: the primary if it parses, else the temporary copy. *)
Loaded == IF primary \in Checkpoints THEN primary
          ELSE IF tmp \in Checkpoints THEN tmp ELSE NoCheckpoint

Init == /\ kind \in {"remote", "local"}
        /\ primary = Absent /\ tmp = Absent /\ pc = "idle" /\ arg = NoCheckpoint
        /\ loaded = FALSE /\ saved = {} /\ acked = FALSE

LoadIgnoringTmp ==                                                   \* mutant
  /\ pc = "idle" /\ ~loaded /\ loaded' = TRUE
  /\ UNCHANGED <<kind, primary, tmp, pc, arg, saved, acked>>

(* load, with its best-effort promotion of the temporary copy.  An SFTPv3  *)
(* rename does not overwrite; a local one does.                            *)
Load ==
  /\ pc = "idle" /\ ~loaded
  /\ loaded' = TRUE
  /\ \/ /\ primary \notin Checkpoints /\ tmp \in Checkpoints
        /\ kind = "remote" => primary = Absent
        /\ primary' = tmp /\ tmp' = Absent
     \/ /\ \/ primary \in Checkpoints \/ tmp \notin Checkpoints
           \/ kind = "remote" /\ primary # Absent
           \/ "rename" \in StoreFaults
        /\ UNCHANGED <<primary, tmp>>
  /\ UNCHANGED <<kind, pc, arg, saved, acked>>

(* save opens the temporary copy, truncating it, and writes it. *)
SaveBegins(s) ==
  /\ pc = "idle" /\ loaded
  /\ tmp' = Torn /\ arg' = s /\ pc' = "write" /\ saved' = saved \cup {s}
  /\ acked' = FALSE
  /\ UNCHANGED <<kind, primary, loaded>>

TmpLeftEmpty ==                                                      \* mutant
  /\ pc = "write" /\ tmp' = NoCheckpoint
  /\ pc' = IF kind = "remote" THEN "unlink" ELSE "swap"
  /\ UNCHANGED <<kind, primary, arg, loaded, saved, acked>>

TmpWritten ==
  /\ pc = "write" /\ tmp' = arg
  /\ pc' = IF kind = "remote" THEN "unlink" ELSE "swap"
  /\ UNCHANGED <<kind, primary, arg, loaded, saved, acked>>

Returns(ok) == pc' = "idle" /\ arg' = NoCheckpoint /\ acked' = ok

TmpWriteFails ==
  /\ pc = "write" /\ "write" \in StoreFaults
  /\ Returns(FALSE)
  /\ UNCHANGED <<kind, primary, tmp, loaded, saved>>

(* Remote before its rename, local after a failed one: remove the primary. *)
UnlinkPrimary ==
  /\ pc \in {"unlink", "local_unlink"}
  /\ pc' = IF pc = "unlink" THEN "swap" ELSE "local_retry"
  /\ primary' \in {Absent} \cup (IF "remove" \in StoreFaults THEN {primary} ELSE {})
  /\ UNCHANGED <<kind, tmp, arg, loaded, saved, acked>>

Swap ==
  /\ pc \in {"swap", "local_retry"}
  /\ kind = "remote" => primary = Absent
  /\ primary' = tmp /\ tmp' = Absent
  /\ Returns(TRUE)
  /\ UNCHANGED <<kind, loaded, saved>>

SwapFailureIgnored ==                                                \* mutant
  /\ pc = "swap"
  /\ "rename" \in StoreFaults \/ (kind = "remote" /\ primary # Absent)
  /\ Returns(TRUE)
  /\ UNCHANGED <<kind, primary, tmp, loaded, saved>>

SwapFails ==
  /\ pc = "swap"
  /\ "rename" \in StoreFaults \/ (kind = "remote" /\ primary # Absent)
  /\ IF kind = "remote"
     THEN pc' = "direct" /\ primary' = Torn     \* remote_write_all truncates
     ELSE pc' = "local_unlink" /\ UNCHANGED primary
  /\ UNCHANGED <<kind, tmp, arg, loaded, saved, acked>>

LocalRetryFails ==
  /\ pc = "local_retry" /\ "rename" \in StoreFaults
  /\ Returns(FALSE)
  /\ UNCHANGED <<kind, primary, tmp, loaded, saved>>

DirectWritten ==
  /\ pc = "direct" /\ primary' = arg
  /\ Returns(TRUE)
  /\ UNCHANGED <<kind, tmp, loaded, saved>>

DirectFails ==
  /\ pc = "direct" /\ "write" \in StoreFaults
  /\ Returns(FALSE)
  /\ UNCHANGED <<kind, primary, tmp, loaded, saved>>

(* remove: the primary first, then the temporary copy. *)
RemoveBegins ==
  /\ pc = "idle" /\ pc' = "remove_primary" /\ loaded' = TRUE /\ acked' = FALSE
  /\ UNCHANGED <<kind, primary, tmp, arg, saved>>

RemovePrimary ==
  /\ pc = "remove_primary" /\ pc' = "remove_tmp"
  /\ primary' \in {Absent} \cup (IF "remove" \in StoreFaults THEN {primary} ELSE {})
  /\ UNCHANGED <<kind, tmp, arg, loaded, saved, acked>>

RemoveTmp ==
  /\ pc = "remove_tmp" /\ pc' = "removed"
  /\ tmp' \in {Absent} \cup (IF "remove" \in StoreFaults THEN {tmp} ELSE {})
  /\ UNCHANGED <<kind, primary, arg, loaded, saved, acked>>

RemoveReturns ==
  /\ pc = "removed" /\ pc' = "idle" /\ saved' = {}
  /\ UNCHANGED <<kind, primary, tmp, arg, loaded, acked>>

(* The application dies, or one attempt ends and the next will load. *)
Restart ==
  /\ loaded' = FALSE /\ pc' = "idle" /\ arg' = NoCheckpoint /\ acked' = FALSE
  /\ UNCHANGED <<kind, primary, tmp, saved>>

Next ==
  \/ Load \/ \E s \in Checkpoints : SaveBegins(s)
  \/ TmpWritten \/ TmpWriteFails \/ UnlinkPrimary \/ Swap \/ SwapFails \/ LocalRetryFails
  \/ DirectWritten \/ DirectFails
  \/ RemoveBegins \/ RemovePrimary \/ RemoveTmp \/ RemoveReturns \/ Restart

Spec == Init /\ [][Next]_vars

-----------------------------------------------------------------------------
StepsOfSave == {"write", "unlink", "swap", "local_unlink", "local_retry", "direct"}
StepsOfRemove == {"remove_primary", "remove_tmp", "removed"}
Content == Checkpoints \cup {Absent, Torn}

TypeOK ==
  /\ kind \in {"remote", "local"}
  /\ primary \in Content /\ tmp \in Content
  /\ pc \in {"idle"} \cup StepsOfSave \cup StepsOfRemove
  /\ arg \in Checkpoints \cup {NoCheckpoint}
  /\ loaded \in BOOLEAN /\ acked \in BOOLEAN
  /\ saved \subseteq Checkpoints

(* Once an attempt has loaded the sidecar, the temporary copy is never the *)
(* only one between two operations, so that truncating it is safe.         *)
TmpIsSpare ==
  loaded /\ pc = "idle" => primary \in Checkpoints \/ tmp \notin Checkpoints

(* A crash mid-write leaves the previous checkpoint intact instead of a    *)
(* truncated one (checkpoint.rs, save): apart from remove, no step ever    *)
(* takes load's answer from a checkpoint to nothing.                       *)
CheckpointSurvives ==
  [][pc \notin StepsOfRemove /\ Loaded # NoCheckpoint => Loaded' # NoCheckpoint]_vars

(* A save that returned Ok is what load finds, whatever else has gone      *)
(* wrong before: persisted_chunks may count on it.                         *)
SavedIsLoaded ==
  [][acked' /\ ~acked => Loaded' = arg]_vars

(* The store is a register (CheckpointRegister): every operation takes     *)
(* effect at one point, and a crash at any step leaves the value of before *)
(* or of after the operation it cut short.                                 *)
opBar == IF pc \in StepsOfSave THEN "save"
         ELSE IF pc \in StepsOfRemove THEN "remove" ELSE "none"

Register == INSTANCE CheckpointRegister
              WITH reg <- Loaded, op <- opBar, arg <- arg, saved <- saved, acked <- acked

ImplementsRegister == Register!RSpec
=============================================================================
