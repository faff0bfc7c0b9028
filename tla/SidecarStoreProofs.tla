------------------------- MODULE SidecarStoreProofs -------------------------
(***************************************************************************)
(* As long as renames and removes do not fail, the sidecar store           *)
(* implements CheckpointRegister, for every set of checkpoints and for     *)
(* both kinds of store; on a disk where they may, what a save reports is   *)
(* what load finds; and a transfer's sizes are sound, for any file.        *)
(***************************************************************************)
EXTENDS MCSidecarStore, TLAPS

(* The inductive invariant.  Between operations the temporary copy is      *)
(* spare; during save it is the checkpoint being saved, whole from the     *)
(* moment the primary may go; and load never finds anything but what was   *)
(* saved since the last remove.                                            *)
StoreInv ==
  /\ TypeOK
  /\ TmpIsSpare
  /\ pc \in StepsOfSave <=> arg \in Checkpoints
  /\ pc \notin {"direct", "local_unlink", "local_retry"}
  /\ primary # Torn
  /\ pc = "write" => tmp = Torn
  /\ pc \in {"unlink", "swap"} => tmp = arg
  /\ pc = "unlink" => kind = "remote"
  /\ pc = "swap" /\ kind = "remote" => primary = Absent
  /\ pc \in StepsOfSave => loaded
  /\ pc \in {"remove_tmp", "removed"} => primary = Absent
  /\ pc = "removed" => tmp = Absent
  /\ primary \in Checkpoints => primary \in saved
  /\ tmp \in Checkpoints => tmp \in saved
  /\ arg \in Checkpoints => arg \in saved
  /\ acked => pc = "idle"

LEMMA StoreInvInit == Init => StoreInv
BY StoreAssumption
DEF Init, StoreInv, TypeOK, TmpIsSpare, StepsOfSave, StepsOfRemove, Content, Absent, Torn

LEMMA StoreInvNext ==
  ASSUME StoreFaults \subseteq {"write"}, StoreInv, [Next]_vars
  PROVE  StoreInv'
<1> USE StoreAssumption
    DEF StoreInv, TypeOK, TmpIsSpare, StepsOfSave, StepsOfRemove, Content, Absent, Torn
<1>1. CASE Load
  BY <1>1 DEF Load
<1>2. ASSUME NEW s \in Checkpoints, SaveBegins(s) PROVE StoreInv'
  BY <1>2 DEF SaveBegins
<1>3. CASE TmpWritten
  BY <1>3 DEF TmpWritten
<1>4. CASE TmpWriteFails
  BY <1>4 DEF TmpWriteFails, Returns
<1>5. CASE UnlinkPrimary
  BY <1>5 DEF UnlinkPrimary
<1>6. CASE Swap
  BY <1>6 DEF Swap, Returns
<1>7. CASE SwapFails
  BY <1>7 DEF SwapFails
<1>8. CASE LocalRetryFails \/ DirectWritten \/ DirectFails
  BY <1>8 DEF LocalRetryFails, DirectWritten, DirectFails
<1>9. CASE RemoveBegins
  BY <1>9 DEF RemoveBegins
<1>10. CASE RemovePrimary
  BY <1>10 DEF RemovePrimary
<1>11. CASE RemoveTmp
  BY <1>11 DEF RemoveTmp
<1>12. CASE RemoveReturns
  BY <1>12 DEF RemoveReturns
<1>13. CASE Restart
  BY <1>13 DEF Restart
<1>14. CASE UNCHANGED vars
  BY <1>14 DEF vars
<1> QED BY <1>1, <1>2, <1>3, <1>4, <1>5, <1>6, <1>7, <1>8, <1>9, <1>10, <1>11, <1>12, <1>13,
           <1>14 DEF Next

(* Every step of the store is a step of the register, or changes nothing   *)
(* the register shows.                                                     *)
LEMMA StoreStepRefines ==
  ASSUME StoreFaults \subseteq {"write"}, StoreInv, [Next]_vars
  PROVE  [Register!RNext]_(Register!rvars)
<1> USE StoreAssumption
    DEF StoreInv, TypeOK, TmpIsSpare, StepsOfSave, StepsOfRemove, Content, Absent, Torn,
        Loaded, opBar
<1>1. CASE Load
  <2>1. Loaded' = Loaded
    BY <1>1 DEF Load
  <2>2. UNCHANGED <<pc, arg, saved, acked>>
    BY <1>1 DEF Load
  <2> QED BY <2>1, <2>2 DEF Register!rvars
<1>2. ASSUME NEW s \in Checkpoints, SaveBegins(s) PROVE Register!RNext
  <2>1. Register!BeginSave(s)
    BY <1>2 DEF SaveBegins, Register!BeginSave
  <2> QED BY <2>1 DEF Register!RNext
<1>3. CASE TmpWritten
  <2>1. UNCHANGED <<opBar, arg, saved, acked>> /\ opBar = "save"
    BY <1>3 DEF TmpWritten
  <2>2. Loaded' = Loaded \/ Loaded' = arg
    BY <1>3 DEF TmpWritten
  <2> QED BY <2>1, <2>2 DEF Register!rvars, Register!RNext, Register!TakeEffect
<1>4. CASE TmpWriteFails
  <2>1. Register!EndSave(FALSE)
    BY <1>4 DEF TmpWriteFails, Returns, Register!EndSave
  <2> QED BY <2>1 DEF Register!RNext
<1>5. CASE UnlinkPrimary
  <2>1. Register!TakeEffect
    BY <1>5 DEF UnlinkPrimary, Register!TakeEffect
  <2> QED BY <2>1 DEF Register!RNext
<1>6. CASE Swap
  <2>1. Register!EndSave(TRUE)
    BY <1>6 DEF Swap, Returns, Register!EndSave
  <2> QED BY <2>1 DEF Register!RNext
<1>7. CASE SwapFails
  BY <1>7 DEF SwapFails
<1>8. CASE LocalRetryFails \/ DirectWritten \/ DirectFails
  BY <1>8 DEF LocalRetryFails, DirectWritten, DirectFails
<1>9. CASE RemoveBegins
  <2>1. Register!BeginRemove
    BY <1>9 DEF RemoveBegins, Register!BeginRemove
  <2> QED BY <2>1 DEF Register!RNext
<1>10. CASE RemovePrimary
  <2>1. Register!LoseValue
    BY <1>10 DEF RemovePrimary, Register!LoseValue
  <2> QED BY <2>1 DEF Register!RNext
<1>11. CASE RemoveTmp
  <2>1. Register!LoseValue
    BY <1>11 DEF RemoveTmp, Register!LoseValue
  <2> QED BY <2>1 DEF Register!RNext
<1>12. CASE RemoveReturns
  <2>1. Register!EndRemove
    BY <1>12 DEF RemoveReturns, Register!EndRemove
  <2> QED BY <2>1 DEF Register!RNext
<1>13. CASE Restart
  <2>1. Register!Restart
    BY <1>13 DEF Restart, Register!Restart
  <2> QED BY <2>1 DEF Register!RNext
<1>14. CASE UNCHANGED vars
  BY <1>14 DEF vars, Register!rvars
<1> QED BY <1>1, <1>2, <1>3, <1>4, <1>5, <1>6, <1>7, <1>8, <1>9, <1>10, <1>11, <1>12, <1>13,
           <1>14 DEF Next

(* The store keeps StoreInv, and with it the spare copy, as long as its    *)
(* renames and removes succeed (writes may fail, and the application may   *)
(* die at every step).                                                     *)
THEOREM StoreInvariant ==
  ASSUME StoreFaults \subseteq {"write"}
  PROVE  Spec => []StoreInv
<1>1. Init => StoreInv
  BY StoreInvInit
<1>2. StoreInv /\ [Next]_vars => StoreInv'
  BY StoreInvNext
<1> QED BY <1>1, <1>2, PTL DEF Spec

(* TmpIsSpare holds of save and load in every instance. *)
THEOREM TmpIsAlwaysSpare ==
  ASSUME StoreFaults \subseteq {"write"}
  PROVE  Spec => []TmpIsSpare
<1>1. StoreInv => TmpIsSpare
  BY DEF StoreInv
<1> QED BY <1>1, StoreInvariant, PTL

(* The write-then-swap of SidecarStore implements the atomic register the  *)
(* transfer engine counts on.                                              *)
THEOREM StoreImplementsRegister ==
  ASSUME StoreFaults \subseteq {"write"}
  PROVE  Spec => ImplementsRegister
<1>1. Init => Register!RInit
  BY StoreAssumption DEF Init, Register!RInit, Loaded, opBar, StepsOfSave, StepsOfRemove
<1>2. StoreInv /\ [Next]_vars => [Register!RNext]_(Register!rvars)
  BY StoreStepRefines
<1> QED BY <1>1, <1>2, StoreInvariant, PTL DEF Spec, ImplementsRegister, Register!RSpec
-----------------------------------------------------------------------------
(* No step but those of remove takes the last checkpoint load can find:    *)
(* the copy a step gives up is either torn or stands in the other file.    *)
LEMMA CheckpointKept ==
  ASSUME StoreFaults \subseteq {"write"}, StoreInv, [Next]_vars,
         pc \notin StepsOfRemove, Loaded # NoCheckpoint
  PROVE  Loaded' # NoCheckpoint
<1> USE StoreAssumption
    DEF StoreInv, TypeOK, TmpIsSpare, StepsOfSave, StepsOfRemove, Content, Absent, Torn, Loaded
<1>1. CASE Load
  BY <1>1 DEF Load
<1>2. ASSUME NEW s \in Checkpoints, SaveBegins(s) PROVE Loaded' # NoCheckpoint
  BY <1>2 DEF SaveBegins
<1>3. CASE TmpWritten \/ TmpWriteFails \/ UnlinkPrimary \/ Swap \/ SwapFails
  BY <1>3 DEF TmpWritten, TmpWriteFails, UnlinkPrimary, Swap, SwapFails, Returns
<1>4. CASE LocalRetryFails \/ DirectWritten \/ DirectFails
  BY <1>4 DEF LocalRetryFails, DirectWritten, DirectFails
<1>5. CASE RemoveBegins \/ RemovePrimary \/ RemoveTmp \/ RemoveReturns
  BY <1>5 DEF RemoveBegins, RemovePrimary, RemoveTmp, RemoveReturns
<1>6. CASE Restart
  BY <1>6 DEF Restart
<1>7. CASE UNCHANGED vars
  BY <1>7 DEF vars
<1> QED BY <1>1, <1>2, <1>3, <1>4, <1>5, <1>6, <1>7 DEF Next

(* A crash, a failed write or a save cut short at any step leaves a        *)
(* checkpoint to resume from where there was one (checkpoint.rs, save).    *)
THEOREM CheckpointAlwaysSurvives ==
  ASSUME StoreFaults \subseteq {"write"}
  PROVE  Spec => CheckpointSurvives
<1>1. StoreInv /\ [Next]_vars
      => [pc \notin StepsOfRemove /\ Loaded # NoCheckpoint => Loaded' # NoCheckpoint]_vars
  BY CheckpointKept
<1> QED BY <1>1, StoreInvariant, PTL DEF Spec, CheckpointSurvives

-----------------------------------------------------------------------------
(* Whatever fails: from the moment the temporary copy is written it holds  *)
(* the checkpoint being saved until the swap gives it its name.            *)
SavingInv ==
  /\ Faulty!TypeOK
  /\ fPc \in Faulty!StepsOfSave => fArg \in Checkpoints
  /\ fPc \in {"unlink", "swap", "local_unlink", "local_retry"} => fTmp = fArg

LEMMA SavingInvInit == Faulty!Init => SavingInv
BY StoreAssumption
DEF Faulty!Init, SavingInv, Faulty!TypeOK, Faulty!StepsOfSave, Faulty!StepsOfRemove, Faulty!Content,
    Faulty!Absent, Faulty!Torn

LEMMA SavingInvNext == SavingInv /\ [Faulty!Next]_faultyVars => SavingInv'
<1> SUFFICES ASSUME SavingInv, [Faulty!Next]_faultyVars PROVE SavingInv'
  OBVIOUS
<1> USE StoreAssumption
    DEF SavingInv, Faulty!TypeOK, Faulty!StepsOfSave, Faulty!StepsOfRemove, Faulty!Content,
        Faulty!Absent, Faulty!Torn
<1>1. CASE Faulty!Load
  BY <1>1 DEF Faulty!Load
<1>2. ASSUME NEW s \in Checkpoints, Faulty!SaveBegins(s) PROVE SavingInv'
  BY <1>2 DEF Faulty!SaveBegins
<1>3. CASE Faulty!TmpWritten \/ Faulty!TmpWriteFails
  BY <1>3 DEF Faulty!TmpWritten, Faulty!TmpWriteFails, Faulty!Returns
<1>4. CASE Faulty!UnlinkPrimary
  BY <1>4 DEF Faulty!UnlinkPrimary
<1>5. CASE Faulty!Swap
  BY <1>5 DEF Faulty!Swap, Faulty!Returns
<1>6. CASE Faulty!SwapFails
  BY <1>6 DEF Faulty!SwapFails
<1>7. CASE Faulty!LocalRetryFails \/ Faulty!DirectWritten \/ Faulty!DirectFails
  BY <1>7 DEF Faulty!LocalRetryFails, Faulty!DirectWritten, Faulty!DirectFails, Faulty!Returns
<1>8. CASE Faulty!RemoveBegins \/ Faulty!RemovePrimary \/ Faulty!RemoveTmp \/ Faulty!RemoveReturns
  BY <1>8 DEF Faulty!RemoveBegins, Faulty!RemovePrimary, Faulty!RemoveTmp, Faulty!RemoveReturns
<1>9. CASE Faulty!Restart
  BY <1>9 DEF Faulty!Restart
<1>10. CASE UNCHANGED faultyVars
  BY <1>10 DEF faultyVars
<1> QED BY <1>1, <1>2, <1>3, <1>4, <1>5, <1>6, <1>7, <1>8, <1>9, <1>10 DEF Faulty!Next

(* What an acknowledged save leaves is what load finds. *)
LEMMA AckedIsLoaded ==
  ASSUME SavingInv, Faulty!Next, fAcked', ~fAcked
  PROVE  Faulty!Loaded' = fArg
<1> USE StoreAssumption DEF SavingInv, Faulty!TypeOK, Faulty!StepsOfSave, Faulty!Loaded
<1>1. CASE Faulty!Swap
  BY <1>1 DEF Faulty!Swap, Faulty!Returns
<1>2. CASE Faulty!DirectWritten
  BY <1>2 DEF Faulty!DirectWritten, Faulty!Returns
<1>3. CASE ~Faulty!Swap /\ ~Faulty!DirectWritten
  BY <1>3 DEF Faulty!Next, Faulty!Load, Faulty!SaveBegins, Faulty!TmpWritten, Faulty!TmpWriteFails,
     Faulty!UnlinkPrimary, Faulty!SwapFails, Faulty!LocalRetryFails, Faulty!DirectFails,
     Faulty!RemoveBegins, Faulty!RemovePrimary, Faulty!RemoveTmp, Faulty!RemoveReturns,
     Faulty!Restart, Faulty!Returns
<1> QED BY <1>1, <1>2, <1>3

(* A save that returned Ok is what load finds, on any disk: also one where *)
(* removing and renaming fail, and the save had to write directly.         *)
THEOREM SavedIsAlwaysLoaded == AllSpec => SavedSurvivesFaults
<1>1. AllInit => SavingInv
  BY SavingInvInit DEF AllInit
<1>2. [AllNext]_allVars => [Faulty!Next]_faultyVars
  BY DEF AllNext, allVars, faultyVars
<1>3. SavingInv /\ [AllNext]_allVars => SavingInv'
  BY <1>2, SavingInvNext
<1>4. SavingInv /\ [AllNext]_allVars => [fAcked' /\ ~fAcked => Faulty!Loaded' = fArg]_(Faulty!vars)
  BY <1>2, AckedIsLoaded DEF Faulty!vars, faultyVars
<1> QED BY <1>1, <1>3, <1>4, PTL DEF AllSpec, SavedSurvivesFaults, Faulty!SavedIsLoaded

-----------------------------------------------------------------------------
(* The sizes of a transfer, for every file, chunk, bitmap and limit.       *)
InputsOK ==
  /\ total \in Nat /\ cs \in Nat /\ MinChunk <= cs /\ bits \subseteq ChunkIndices(total, cs)
  /\ limits \in [max_write_len : Nat, max_read_len : Nat, max_packet_len : Nat]

LEMMA InputsInit == AllInit => InputsOK
<1> SUFFICES ASSUME AllInit PROVE InputsOK
  OBVIOUS
<1>1. limits \in Limits /\ total = 0 /\ cs = MinChunk /\ bits = {}
  BY DEF AllInit, InputInit
<1>2. MaxLimit \in Nat /\ MaxLimit \div 2 \in Nat
  BY InputsAssumption
<1>3. limits \in [max_write_len : Nat, max_read_len : Nat, max_packet_len : Nat]
  BY <1>1, <1>2 DEF Limits
<1> QED BY <1>1, <1>3, InputsAssumption DEF InputsOK

LEMMA InputsNext == InputsOK /\ [AllNext]_allVars => InputsOK'
<1> SUFFICES ASSUME InputsOK, [AllNext]_allVars PROVE InputsOK'
  OBVIOUS
<1>1. CASE NextInput
  <2>1. total' \in 0 .. MaxTotal /\ cs' \in MinChunk .. MaxChunk
    BY <1>1 DEF NextInput
  <2>2. bits' \subseteq ChunkIndices(total', cs') /\ limits' = limits
    BY <1>1 DEF NextInput
  <2> QED BY <2>1, <2>2, InputsAssumption DEF InputsOK
<1>2. CASE UNCHANGED inputVars
  BY <1>2 DEF inputVars, InputsOK
<1>3. NextInput \/ UNCHANGED inputVars
  BY DEF AllNext, allVars
<1> QED BY <1>1, <1>2, <1>3

LEMMA InputsTile == InputsOK => ChunksTile /\ RequiredIsTight
<1> SUFFICES ASSUME InputsOK PROVE ChunksTile /\ RequiredIsTight
  OBVIOUS
<1>1. total \in Nat /\ cs \in Nat \ {0} /\ bits \in SUBSET ChunkIndices(total, cs)
  BY InputsAssumption DEF InputsOK
<1>2. ChunkIndices(total, cs) \subseteq Nat
  BY <1>1, ChunkIndexBound
<1>3. ASSUME NEW c \in ChunkIndices(total, cs), NEW b \in ChunkSpan(c, cs, total)
      PROVE  b \in Int /\ c * cs <= b /\ b < total /\ b \in 0 .. (total - 1)
  <2>1. c * cs \in Nat
    BY <1>1, <1>2
  <2>2. b \in Int
    BY <2>1 DEF ChunkSpan
  <2>3. c * cs <= b /\ b < total
    BY <1>1, <1>2, <2>2, SpanBounds
  <2> QED BY <1>1, <2>1, <2>2, <2>3
<1>4. ChunksTile
  <2>1. \A b \in 0 .. (total - 1) : \E c \in ChunkIndices(total, cs) : b \in ChunkSpan(c, cs, total)
    BY <1>1, ByteHasChunk
  <2>2. ASSUME NEW c \in ChunkIndices(total, cs), NEW d \in ChunkIndices(total, cs), c # d
        PROVE  Span(c) \cap Span(d) = {}
    BY <1>1, <1>2, <1>3, <2>2, ChunksApart DEF Span
  <2> QED BY <1>3, <2>1, <2>2 DEF ChunksTile, Span
<1>5. RequiredIsTight
  <2> DEFINE bytes == UNION {Span(c) : c \in bits}
             need == required_part_size(bits, cs, total)
  <2>1. CASE bits = {}
    BY <2>1 DEF RequiredIsTight, required_part_size
  <2>2. CASE bits # {}
    <3>1. /\ need \in Nat \ {0}
          /\ \A c \in bits : \A b \in ChunkSpan(c, cs, total) : b < need
          /\ \E c \in bits : need - 1 \in ChunkSpan(c, cs, total)
      BY <1>1, <2>2, RequiredCovers
    <3> HIDE DEF need
    <3>2. bytes \subseteq 0 .. (need - 1)
      BY <1>1, <1>3, <3>1 DEF Span
    <3>3. need - 1 \in bytes
      BY <3>1 DEF Span
    <3> QED BY <3>2, <3>3 DEF RequiredIsTight, need
  <2> QED BY <2>1, <2>2
<1> QED BY <1>4, <1>5

LEMMA InputsFit == InputsOK => StepsFit /\ ShrinkIsSane
<1> SUFFICES ASSUME InputsOK PROVE StepsFit /\ ShrinkIsSane
  OBVIOUS
<1>1. StepsFit
  BY RequestsFit, InputsAssumption DEF InputsOK, StepsFit
<1>2. ShrinkIsSane
  <2> SUFFICES ASSUME NEW step \in 1 .. MaxChunk, NEW window \in 1 .. 3
               PROVE  LET e == effective_chunk_size(cs, step, total, window, MinChunk)
                      IN  /\ e <= cs
                          /\ e < cs => e >= step
                          /\ total = 0 => e = cs
                          /\ e < cs /\ e > step /\ e > MinChunk => chunk_count_for(total, e) >= window
    BY DEF ShrinkIsSane
  <2>1. step \in Nat \ {0} /\ window \in Nat \ {0}
    BY InputsAssumption
  <2> QED BY <2>1, ShrunkChunksFillWindow, InputsAssumption DEF InputsOK
<1> QED BY <1>1, <1>2

(* The chunks of any file tile it, what a bitmap requires of the part file *)
(* is tight, and requests and shrunk chunks fit any server's limits        *)
(* (SizesAreSound), for every size.                                        *)
THEOREM SizesAreAlwaysSound == AllSpec => []SizesAreSound
<1>1. InputsOK => SizesAreSound
  BY InputsTile, InputsFit DEF SizesAreSound
<1> QED BY <1>1, InputsInit, InputsNext, PTL DEF AllSpec
=============================================================================
