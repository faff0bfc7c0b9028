------------------------- MODULE CheckpointRegister -------------------------
(***************************************************************************)
(* What the transfer engine expects of its sidecar store: one register.    *)
(* A save that returns Ok has taken effect; one that fails or is cut short *)
(* by a crash has taken effect or not; nothing else changes the value,     *)
(* except remove, which may, if it is cut short, bring back a checkpoint   *)
(* saved earlier.                                                          *)
(***************************************************************************)
CONSTANTS Checkpoints, NoCheckpoint

VARIABLES reg,    \* what load returns
          op,     \* the operation under way: "none", "save" or "remove"
          arg,    \* the checkpoint being saved
          saved,  \* checkpoints handed to save since the last remove
          acked   \* the last operation was a save that returned Ok

rvars == <<reg, op, arg, saved, acked>>

RInit == /\ reg = NoCheckpoint /\ op = "none" /\ arg = NoCheckpoint
         /\ saved = {} /\ acked = FALSE

BeginSave(s) == /\ op = "none" /\ op' = "save"
                /\ arg' = s /\ saved' = saved \cup {s} /\ acked' = FALSE
                /\ UNCHANGED reg

TakeEffect == op = "save" /\ reg' = arg /\ UNCHANGED <<op, arg, saved, acked>>

EndSave(ok) == /\ op = "save" /\ op' = "none"
               /\ reg' \in {arg} \cup (IF ok THEN {} ELSE {reg})
               /\ acked' = ok /\ arg' = NoCheckpoint
               /\ UNCHANGED saved

BeginRemove == /\ op = "none" /\ op' = "remove" /\ acked' = FALSE
               /\ UNCHANGED <<reg, arg, saved>>

LoseValue == /\ op = "remove" /\ reg' \in saved \cup {NoCheckpoint}
             /\ UNCHANGED <<op, arg, saved, acked>>

EndRemove == /\ op = "remove" /\ op' = "none"
             /\ reg = NoCheckpoint /\ saved' = {}
             /\ UNCHANGED <<reg, arg, acked>>

(* The application dies, or another attempt starts. *)
Restart == /\ op' = "none" /\ arg' = NoCheckpoint /\ acked' = FALSE
           /\ UNCHANGED <<reg, saved>>

RNext == \/ \E s \in Checkpoints : BeginSave(s)
         \/ TakeEffect \/ \E ok \in BOOLEAN : EndSave(ok)
         \/ BeginRemove \/ LoseValue \/ EndRemove \/ Restart

RSpec == RInit /\ [][RNext]_rvars
=============================================================================
