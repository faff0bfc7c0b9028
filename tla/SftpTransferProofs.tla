------------------------- MODULE SftpTransferProofs -------------------------
(***************************************************************************)
(* Theorems about the transfer engine, for every number of lanes, window,  *)
(* queue capacity, set of chunk sizes and set of source versions.          *)
(***************************************************************************)
EXTENDS SftpTransfer, TLAPS, FiniteSetTheorems

-----------------------------------------------------------------------------
LEMMA BlocksFinite == IsFiniteSet(Blocks) /\ \A B \in SUBSET Blocks : Cardinality(B) \in Nat
<1>1. IsFiniteSet(Blocks)
  BY FS_Interval, TransferAssumption DEF Blocks
<1>2. ASSUME NEW B \in SUBSET Blocks PROVE Cardinality(B) \in Nat
  BY <1>1, FS_Subset, FS_CardinalityType
<1> QED BY <1>1, <1>2

LEMMA ChunksAreBlocks ==
  ASSUME NEW v \in Versions, NEW cs \in ChunkSizes
  PROVE  ChunkIndices(SourceSize[v], cs) \subseteq Blocks
<1>1. SourceSize[v] \in Nat /\ SourceSize[v] <= MaxSize /\ cs \in Nat \ {0} /\ MaxSize \in Nat
  BY TransferAssumption
<1>2. ChunkIndices(SourceSize[v], cs) \subseteq 0 .. (SourceSize[v] - 1)
  BY <1>1, ChunkIndexBound
<1> QED BY <1>1, <1>2 DEF Blocks

LEMMA FilesTyped ==
  /\ NoFile \in File /\ EmptyFile \in File
  /\ \A f \in File : Create(f) \in File
  /\ \A f \in File, b \in Blocks, v \in Versions : Write(f, b, v) \in File
  /\ \A f \in File, n \in Nat : n <= MaxSize => Cut(f, n) \in File
<1> USE TransferAssumption DEF File, Blocks, Hole
<1>1. NoFile \in File /\ EmptyFile \in File
  BY DEF NoFile, EmptyFile
<1>2. ASSUME NEW f \in File PROVE Create(f) \in File
  BY <1>1 DEF Create
<1>3. ASSUME NEW f \in File, NEW b \in Blocks, NEW v \in Versions PROVE Write(f, b, v) \in File
  BY <1>3 DEF Write, MaxOf
<1>4. ASSUME NEW f \in File, NEW n \in Nat, n <= MaxSize PROVE Cut(f, n) \in File
  BY <1>4 DEF Cut
<1> QED BY <1>1, <1>2, <1>3, <1>4

LEMMA SnapshotsTyped ==
  /\ NoSidecar \in Snapshots
  /\ rver \in Versions /\ rcs \in ChunkSizes => \A B \in SUBSET Blocks : Snapshot(B) \in Sidecar
  /\ \A s \in Snapshots : s.bits \subseteq Blocks
  /\ Leftovers \subseteq Snapshots
BY DEF NoSidecar, Snapshots, Sidecar, Snapshot, Leftovers

LEMMA EmptySeq == ASSUME NEW S PROVE <<>> \in Seq(S) /\ Len(<<>>) = 0
OBVIOUS

LEMMA AppendTyped == ASSUME NEW S, NEW q \in Seq(S), NEW s \in S PROVE Append(q, s) \in Seq(S)
OBVIOUS

LEMMA LongTail ==
  ASSUME NEW S, NEW q \in Seq(S), Len(q) > 1
  PROVE  Tail(q) \in Seq(S) \ {<<>>}
<1>1. Len(q) \in Nat
  OBVIOUS
<1>2. Tail(q) \in Seq(S) /\ Len(Tail(q)) = Len(q) - 1
  OBVIOUS
<1>3. Len(Tail(q)) # 0
  BY <1>1, <1>2
<1>4. ASSUME Tail(q) = <<>> PROVE FALSE
  BY <1>3, <1>4, EmptySeq
<1> QED BY <1>2, <1>4

LEMMA TypeInit == Init => TypeOK
<1> SUFFICES ASSUME Init PROVE TypeOK
  OBVIOUS
<1> USE DEF Init
<1>1. src \in Versions /\ rver \in Versions /\ rcs \in ChunkSizes
  BY TransferAssumption
<1>2. part \in File /\ dest \in File /\ store \in Snapshots /\ saving \in Snapshots
  BY FilesTyped, SnapshotsTyped
<1>3. lane \in [Lanes -> {"off", "open"} \cup Live \cup Ended]
  BY DEF LanesAt
<1>4. tasks \in [Lanes -> SUBSET Blocks] /\ snap \in [Lanes -> Snapshots]
  BY SnapshotsTyped DEF NoTasks, NoSnaps
<1>5. ckq \in Seq(Snapshots)
  BY EmptySeq
<1>6. cancel \in BOOLEAN
  OBVIOUS
<1> QED BY <1>1, <1>2, <1>3, <1>4, <1>5, <1>6 DEF TypeOK

(* A lane's end keeps the types of what it touches. *)
LEMMA LaneEndsTyped ==
  ASSUME TypeOK, NEW l \in Lanes, NEW how \in Ended, LaneEnds(l, how)
  PROVE  /\ lane' \in [Lanes -> {"off", "open"} \cup Live \cup Ended]
         /\ tasks' \in [Lanes -> SUBSET Blocks]
         /\ sent' \subseteq Blocks
         /\ loose' \subseteq [by : Lanes \cup {NoLane}, at : {"part", "dest", "failed"},
                              off : Blocks, ver : Versions]
<1> USE DEF TypeOK, LaneEnds
<1>1. lane' \in [Lanes -> {"off", "open"} \cup Live \cup Ended]
  OBVIOUS
<1>2. tasks' \in [Lanes -> SUBSET Blocks] /\ sent' \subseteq Blocks
  OBVIOUS
<1>3. loose' \subseteq [by : Lanes \cup {NoLane}, at : {"part", "dest", "failed"},
                        off : Blocks, ver : Versions]
  OBVIOUS
<1> QED BY <1>1, <1>2, <1>3

(* Each action keeps the type invariant. *)
LEMMA TypeControl ==
  ASSUME TypeOK, ControlStep PROVE TypeOK'
<1> USE TransferAssumption DEF TypeOK, files, disk, attempt, marks, lanes, writer, Return
<1>1. CASE LoadCheckpoint
  BY <1>1, SnapshotsTyped DEF LoadCheckpoint
<1>2. CASE StartClean
  BY <1>2 DEF StartClean
<1>3. CASE CheckPart
  BY <1>3 DEF CheckPart
<1>4. CASE DiscardPart
  BY <1>4, FilesTyped DEF DiscardPart
<1>5. CASE DiscardSidecar
  BY <1>5, SnapshotsTyped DEF DiscardSidecar
<1>6. CASE BeginComplete
  BY <1>6, FilesTyped DEF BeginComplete
<1>7. CASE BeginLanes
  <2>1. queue' \subseteq Blocks
    BY <1>7, ChunksAreBlocks DEF BeginLanes, Chunks, Size
  <2>2. persisted' \in Nat
    BY <1>7, BlocksFinite DEF BeginLanes
  <2>3. lane' \in [Lanes -> {"off", "open"} \cup Live \cup Ended]
    BY <1>7 DEF BeginLanes, LanesAt
  <2> QED BY <1>7, <2>1, <2>2, <2>3 DEF BeginLanes
<1>8. CASE LanesEnd
  <2>1. lane' \in [Lanes -> {"off", "open"} \cup Live \cup Ended]
    BY <1>8 DEF LanesEnd, LanesAt
  <2> QED BY <1>8, <2>1 DEF LanesEnd
<1>9. CASE Flush
  <2>1. Snapshot(bits) \in Snapshots
    BY SnapshotsTyped DEF Snapshots
  <2>2. ckq' \in Seq(Snapshots)
    BY <1>9, <2>1, AppendTyped DEF Flush
  <2> QED BY <1>9, <2>2 DEF Flush
<1>10. CASE FlushTimeout
  BY <1>10 DEF FlushTimeout
<1>11. CASE Finish
  BY <1>11 DEF Finish
<1>12. CASE FinishTimeout
  <2> DEFINE todo == (IF saving = NoSidecar THEN <<>> ELSE <<saving>>) \o ckq
  <2>1. todo \in Seq(Snapshots) \ {<<>>}
    <3>1. CASE saving = NoSidecar
      <4>1. todo = ckq
        BY <3>1
      <4>2. ckq # <<>>
        BY <1>12, <3>1 DEF FinishTimeout, WriterIdle
      <4> QED BY <4>1, <4>2
    <3>2. CASE saving # NoSidecar
      <4>1. todo = <<saving>> \o ckq /\ <<saving>> \in Seq(Snapshots)
        BY <3>2
      <4>2. todo \in Seq(Snapshots) /\ Len(todo) = 1 + Len(ckq)
        BY <4>1
      <4> QED BY <4>2
    <3> QED BY <3>1, <3>2
  <2>2. [run |-> attempts, todo |-> todo] \in [run : Nat, todo : Seq(Snapshots) \ {<<>>}]
    BY <2>1
  <2>3. late' = late \cup {[run |-> attempts, todo |-> todo]}
    BY <1>12 DEF FinishTimeout
  <2>4. ckq' \in Seq(Snapshots) /\ saving' \in Snapshots
    BY <1>12, EmptySeq, SnapshotsTyped DEF FinishTimeout
  <2> HIDE DEF todo
  <2> QED BY <1>12, <2>2, <2>3, <2>4 DEF FinishTimeout
<1>13. CASE DrainAndVerify
  BY <1>13 DEF DrainAndVerify
<1>14. CASE Rename
  <2>1. loose' \subseteq [by : Lanes \cup {NoLane}, at : {"part", "dest", "failed"},
                          off : Blocks, ver : Versions]
    <3>1. ASSUME NEW w \in loose
          PROVE  [w EXCEPT !.at = IF @ = "part" THEN "dest" ELSE @] \in
                   [by : Lanes \cup {NoLane}, at : {"part", "dest", "failed"},
                    off : Blocks, ver : Versions]
      OBVIOUS
    <3> QED BY <1>14, <3>1 DEF Rename
  <2> QED BY <1>14, <2>1, FilesTyped DEF Rename
<1>15. CASE RenameRefused
  BY <1>15 DEF RenameRefused
<1>16. CASE RemoveDest
  BY <1>16, FilesTyped DEF RemoveDest
<1>17. CASE RetryRefused
  BY <1>17 DEF RetryRefused
<1>18. CASE RemoveSidecar
  BY <1>18, SnapshotsTyped DEF RemoveSidecar
<1>19. CASE SetupFails
  BY <1>19 DEF SetupFails
<1> QED BY <1>1, <1>2, <1>3, <1>4, <1>5, <1>6, <1>7, <1>8, <1>9, <1>10, <1>11, <1>12, <1>13,
           <1>14, <1>15, <1>16, <1>17, <1>18, <1>19 DEF ControlStep

LEMMA TypeLane ==
  ASSUME TypeOK, NEW l \in Lanes, LaneStep(l) PROVE TypeOK'
<1> USE TransferAssumption DEF TypeOK, files, disk, attempt, marks, lanes, writer
<1>1. CASE LaneOpens(l)
  BY <1>1, FilesTyped DEF LaneOpens, Live
<1>2. ASSUME NEW how \in Ended, LaneEnds(l, how), part' \in {part, Create(part)},
             UNCHANGED <<src, dest, store, late, phase, attempt, result, marks, queue, moved, snap,
                         writer, cancel>>
      PROVE  TypeOK'
  BY ZenonT(40), <1>2, LaneEndsTyped, FilesTyped
<1>3. CASE LaneCannotOpen(l) \/ LaneCancelled(l) \/ TaskFails(l) \/ LaneFinishes(l) \/ AbortLane(l)
  BY <1>2, <1>3 DEF LaneCannotOpen, LaneCancelled, TaskFails, LaneFinishes, AbortLane, Ended
<1>4. CASE PopChunk(l)
  BY <1>4 DEF PopChunk
<1>5. CASE StopFilling(l)
  BY <1>5 DEF StopFilling, Live
<1>6. ASSUME NEW c \in tasks[l], NEW b \in Blocks, Request(l, c, b) PROVE TypeOK'
  BY <1>6 DEF Request
<1>7. ASSUME NEW c \in tasks[l], NEW b \in Blocks, UploadAck(l, c, b) PROVE TypeOK'
  BY <1>7, FilesTyped DEF UploadAck
<1>8. ASSUME NEW c \in tasks[l], NEW b \in Blocks, DownloadReply(l, c, b) PROVE TypeOK'
  BY <1>8 DEF DownloadReply
<1>9. ASSUME NEW c \in tasks[l], NEW due \in BOOLEAN, ChunkDone(l, c, due) PROVE TypeOK'
  <2>1. bits' \subseteq Blocks /\ tasks' \in [Lanes -> SUBSET Blocks]
    BY <1>9 DEF ChunkDone
  <2>2. Snapshot(bits') \in Snapshots
    BY <2>1, SnapshotsTyped DEF Snapshots
  <2>3. snap' \in [Lanes -> Snapshots]
    BY <1>9, <2>2, SnapshotsTyped DEF ChunkDone
  <2>4. lane' \in [Lanes -> {"off", "open"} \cup Live \cup Ended]
    BY <1>9 DEF ChunkDone, Live
  <2> QED BY <1>9, <2>1, <2>3, <2>4 DEF ChunkDone
<1>10. CASE HandOff(l)
  <2>1. ckq' \in Seq(Snapshots)
    BY <1>10 DEF HandOff
  <2>2. snap' \in [Lanes -> Snapshots]
    BY <1>10, SnapshotsTyped DEF HandOff
  <2> QED BY <1>10, <2>1, <2>2 DEF HandOff, Live
<1> QED BY <1>1, <1>3, <1>4, <1>5, <1>6, <1>7, <1>8, <1>9, <1>10 DEF LaneStep

LEMMA TypeRest ==
  ASSUME TypeOK, Next, ~ControlStep, \A l \in Lanes : ~LaneStep(l) PROVE TypeOK'
<1> USE TransferAssumption DEF TypeOK, files, disk, attempt, marks, lanes, writer, Return
<1>1. CASE Start
  <2>1. rver' \in Versions /\ rcs' \in ChunkSizes /\ attempts' \in Nat /\ bits' \subseteq Blocks
    BY <1>1 DEF Start
  <2>2. cancel' \in BOOLEAN
    BY <1>1 DEF Start
  <2> QED BY <1>1, <2>1, <2>2 DEF Start
<1>2. CASE WriterReceives
  BY <1>2 DEF WriterReceives
<1>3. CASE WriterSaves
  <2>1. saving.bits \subseteq Blocks
    BY SnapshotsTyped
  <2>2. persisted' \in Nat
    BY <1>3, <2>1, BlocksFinite DEF WriterSaves, MaxOf
  <2> QED BY <1>3, <2>2, SnapshotsTyped DEF WriterSaves
<1>4. CASE WriterFails
  BY <1>4, SnapshotsTyped DEF WriterFails
<1>5. ASSUME NEW w \in loose, Lands(w) PROVE TypeOK'
  BY <1>5, FilesTyped DEF Lands
<1>6. ASSUME NEW w \in loose, LocalWriteFails(w) PROVE TypeOK'
  BY <1>6 DEF LocalWriteFails
<1>7. ASSUME NEW w \in late, LateSave(w) PROVE TypeOK'
  <2>1. w.todo \in Seq(Snapshots) /\ w.todo # <<>> /\ w.run \in Nat
    OBVIOUS
  <2>2. store' \in Snapshots
    BY <1>7, <2>1 DEF LateSave
  <2>3. ASSUME Len(w.todo) > 1 PROVE Tail(w.todo) \in Seq(Snapshots) \ {<<>>}
    BY <2>1, <2>3, LongTail
  <2>4. late' \subseteq [run : Nat, todo : Seq(Snapshots) \ {<<>>}]
    BY <1>7, <2>1, <2>3 DEF LateSave
  <2> QED BY <1>7, <2>2, <2>4 DEF LateSave
<1>8. CASE Cancel
  BY <1>8 DEF Cancel
<1>9. CASE ChangeSource
  BY <1>9 DEF ChangeSource
<1>10. CASE LosePart
  <2>1. part' \in File
    <3>1. ASSUME NEW n \in 0 .. (part.len - 1) PROVE Cut(part, n) \in File
      <4>1. n \in Nat /\ n <= MaxSize
        BY <3>1 DEF File
      <4> QED BY <4>1, FilesTyped
    <3> QED BY <1>10, <3>1, FilesTyped DEF LosePart
  <2> QED BY <1>10, <2>1 DEF LosePart
<1>11. CASE Crash
  <2>1. store' \in Snapshots
    BY <1>11, SnapshotsTyped DEF Crash
  <2>2. loose' \subseteq [by : Lanes \cup {NoLane}, at : {"part", "dest", "failed"},
                          off : Blocks, ver : Versions]
    BY <1>11 DEF Crash
  <2>3. /\ lane' \in [Lanes -> {"off", "open"} \cup Live \cup Ended]
        /\ tasks' \in [Lanes -> SUBSET Blocks] /\ snap' \in [Lanes -> Snapshots]
    BY <1>11, SnapshotsTyped DEF Crash, LanesAt, NoTasks, NoSnaps
  <2> QED BY <1>11, <2>1, <2>2, <2>3, SnapshotsTyped DEF Crash
<1> QED BY <1>1, <1>2, <1>3, <1>4, <1>5, <1>6, <1>7, <1>8, <1>9, <1>10, <1>11
        DEF Next, EngineStep, WriterStep

LEMMA TypeNext == TypeOK /\ [Next]_vars => TypeOK'
<1>1. ASSUME TypeOK, UNCHANGED vars PROVE TypeOK'
  BY <1>1 DEF TypeOK, vars
<1> QED BY <1>1, TypeControl, TypeLane, TypeRest

(* TypeOK holds of every transfer, whatever fails. *)
THEOREM TypeCorrect == Spec => []TypeOK
BY TypeInit, TypeNext, PTL DEF Spec

-----------------------------------------------------------------------------
(* The lanes' share of the work.  Nothing here depends on what may fail. *)

LEMMA WorkInit == Init => InvWork
BY DEF Init, InvWork, LanesAt, NoTasks

(* While the lanes run their chunks only move from the queue into a window *)
(* and from there into the bitmap.                                         *)
LEMMA WorkLane ==
  ASSUME TypeOK, InvWork, NEW l \in Lanes, LaneStep(l) PROVE InvWork'
<1> USE DEF TypeOK, Live, Ended
<1>1. phase = "run" /\ phase' = "run" /\ rver' = rver /\ rcs' = rcs
  BY DEF LaneStep, LaneOpens, LaneCannotOpen, PopChunk, StopFilling, LaneCancelled,
         Request, UploadAck, DownloadReply, TaskFails, ChunkDone, HandOff, LaneFinishes,
         AbortLane, InvWork, attempt
<1>2. Chunks' = Chunks
  BY <1>1 DEF Chunks, Size
<1>3. ASSUME NEW how \in Ended, LaneEnds(l, how), UNCHANGED <<queue, bits>>,
             lane[l] # "handoff", lane[l] \notin Ended,
             how = "ok" => tasks[l] = {} /\ queue = {},
             how = "aborted" => \E m \in Lanes : lane[m] = "err"
      PROVE  InvWork'
  <2>1. /\ \A m \in Lanes : lane'[m] = IF m = l THEN how ELSE lane[m]
        /\ \A m \in Lanes : tasks'[m] = IF m = l THEN {} ELSE tasks[m]
    BY <1>3 DEF LaneEnds
  <2>2. Windows' \subseteq Windows /\ (how = "ok" => Windows' = Windows)
    BY <1>3, <2>1 DEF Windows
  <2>3. (\A m \in Lanes : lane'[m] # "err") => how = "ok" /\ \A m \in Lanes : lane[m] # "err"
    BY <1>3, <2>1
  <2>4. \A m \in Lanes : lane'[m] = "aborted" => \E n \in Lanes : lane'[n] = "err"
    BY <1>1, <1>3, <2>1 DEF InvWork
  <2> QED BY <1>1, <1>2, <1>3, <2>1, <2>2, <2>3, <2>4 DEF InvWork
<1>4. CASE LaneCannotOpen(l) \/ LaneCancelled(l) \/ TaskFails(l) \/ AbortLane(l)
  BY <1>3, <1>4 DEF LaneCannotOpen, LaneCancelled, TaskFails, AbortLane, marks
<1>5. CASE LaneFinishes(l)
  BY <1>1, <1>3, <1>5 DEF LaneFinishes, marks, InvWork
<1>6. ASSUME UNCHANGED <<queue, bits, tasks>>, NEW to \in {"fill", "join"},
             lane' = [lane EXCEPT ![l] = to], lane[l] \notin Ended,
             to = "join" => tasks[l] # {} \/ queue = {}
      PROVE  InvWork'
  <2>1. \A m \in Lanes : lane'[m] = IF m = l THEN to ELSE lane[m]
    BY <1>6
  <2>2. Windows' = Windows
    BY <1>6 DEF Windows
  <2>3. \A m \in Lanes : lane[m] = "err" <=> lane'[m] = "err"
    BY <1>6, <2>1
  <2> QED BY <1>1, <1>2, <1>6, <2>1, <2>2, <2>3 DEF InvWork
<1>7. CASE LaneOpens(l) \/ HandOff(l)
  BY <1>6, <1>7 DEF LaneOpens, HandOff, marks
<1>8. CASE StopFilling(l)
  <2>1. tasks[l] # {} \/ queue = {}
    <3>1. ASSUME tasks[l] = {} PROVE Cardinality(tasks[l]) = 0
      BY <3>1, FS_EmptySet, Zenon
    <3>2. Window \in Nat \ {0}
      BY TransferAssumption
    <3> QED BY <1>8, <3>1, <3>2 DEF StopFilling
  <2> QED BY <1>6, <1>8, <2>1 DEF StopFilling, marks
<1>9. CASE PopChunk(l)
  <2>1. PICK c \in queue : queue' = queue \ {c} /\ tasks' = [tasks EXCEPT ![l] = @ \cup {c}]
    BY <1>9 DEF PopChunk
  <2>2. UNCHANGED <<bits, lane>> /\ lane[l] = "fill"
    BY <1>9 DEF PopChunk, marks
  <2>3. \A m \in Lanes : tasks'[m] = IF m = l THEN tasks[l] \cup {c} ELSE tasks[m]
    BY <2>1
  <2>4. Windows' = Windows \cup {c}
    BY <2>3 DEF Windows
  <2>5. c \notin bits /\ c \notin Windows /\ \A m \in Lanes : c \notin tasks[m]
    BY <1>1, <2>1 DEF InvWork, Windows
  <2>6. \A m, n \in Lanes : m # n => tasks'[m] \cap tasks'[n] = {}
    BY <1>1, <2>3, <2>5 DEF InvWork
  <2>7. queue' \cap (bits' \cup Windows') = {} /\ bits' \cap Windows' = {}
    BY <1>1, <2>1, <2>2, <2>4, <2>5 DEF InvWork
  <2>8. \A m \in Lanes : /\ lane'[m] \notin Live => tasks'[m] = {}
                         /\ lane'[m] = "join" /\ tasks'[m] = {} => queue' = {}
                         /\ lane'[m] = "ok" => queue' = {}
                         /\ lane'[m] # "off"
    BY <1>1, <2>1, <2>2, <2>3 DEF InvWork
  <2>9. queue \cup bits \cup Windows = queue' \cup bits' \cup Windows'
    BY <2>1, <2>2, <2>4
  <2> QED BY <1>1, <1>2, <2>2, <2>6, <2>7, <2>8, <2>9 DEF InvWork
<1>10. ASSUME NEW c \in tasks[l], NEW b \in Blocks,
              Request(l, c, b) \/ UploadAck(l, c, b) \/ DownloadReply(l, c, b)
       PROVE  InvWork'
  <2>1. UNCHANGED <<queue, bits, tasks, lane>>
    BY <1>10 DEF Request, UploadAck, DownloadReply, marks
  <2> QED BY <1>1, <1>2, <2>1 DEF InvWork, Windows
<1>11. ASSUME NEW c \in tasks[l], NEW due \in BOOLEAN, ChunkDone(l, c, due) PROVE InvWork'
  <2>1. /\ tasks' = [tasks EXCEPT ![l] = @ \ {c}] /\ bits' = bits \cup {c} /\ queue' = queue
        /\ lane' = [lane EXCEPT ![l] = IF due THEN "handoff" ELSE "fill"] /\ lane[l] = "join"
    BY <1>11 DEF ChunkDone
  <2>2. /\ \A m \in Lanes : tasks'[m] = IF m = l THEN tasks[l] \ {c} ELSE tasks[m]
        /\ \A m \in Lanes : m # l => lane'[m] = lane[m]
        /\ lane'[l] \in {"handoff", "fill"}
    BY <2>1
  <2>3. \A m \in Lanes : m # l => c \notin tasks[m]
    BY <1>1, <1>11 DEF InvWork
  <2>4. Windows' = Windows \ {c} /\ c \in Windows
    BY <1>11, <2>2, <2>3 DEF Windows
  <2>5. \A m, n \in Lanes : m # n => tasks'[m] \cap tasks'[n] = {}
    BY <1>1, <2>2 DEF InvWork
  <2>6. queue' \cap (bits' \cup Windows') = {} /\ bits' \cap Windows' = {}
    BY <1>1, <2>1, <2>4 DEF InvWork
  <2>7. \A m \in Lanes : /\ lane'[m] \notin Live => tasks'[m] = {}
                         /\ lane'[m] = "join" /\ tasks'[m] = {} => queue' = {}
                         /\ lane'[m] = "ok" => queue' = {}
                         /\ lane'[m] # "off"
    BY <1>1, <2>1, <2>2 DEF InvWork
  <2>8. queue' \cup bits' \cup Windows' = queue \cup bits \cup Windows
    BY <2>1, <2>4
  <2>9. \A m \in Lanes : /\ lane'[m] = "err" <=> lane[m] = "err"
                         /\ lane'[m] = "aborted" <=> lane[m] = "aborted"
    BY <2>1, <2>2
  <2> QED BY <1>1, <1>2, <2>5, <2>6, <2>7, <2>8, <2>9 DEF InvWork
<1> QED BY <1>4, <1>5, <1>7, <1>8, <1>9, <1>10, <1>11 DEF LaneStep

LEMMA WorkNext ==
  ASSUME TypeOK, InvWork, [Next]_vars PROVE InvWork'
<1> USE DEF files, disk, attempt, marks, lanes, writer, Return
<1>1. ASSUME UNCHANGED <<phase, rver, rcs, queue, bits, lane, tasks>> PROVE InvWork'
  BY <1>1 DEF InvWork, Windows, Chunks, Size
<1>2. CASE UNCHANGED vars
  BY <1>1, <1>2 DEF vars
<1>3. CASE WriterStep \/ Cancel \/ ChangeSource \/ LosePart
  BY <1>1, <1>3 DEF WriterStep, WriterReceives, WriterSaves, WriterFails, Cancel, ChangeSource,
         LosePart
<1>4. CASE \/ \E w \in loose : Lands(w) \/ LocalWriteFails(w)
           \/ \E w \in late : LateSave(w)
  BY <1>1, <1>4 DEF Lands, LocalWriteFails, LateSave
<1>5. ASSUME phase # "run", phase' \notin {"run", "drain"}, UNCHANGED <<lane, tasks>> PROVE InvWork'
  BY <1>5 DEF InvWork
<1>6. CASE SetupFails \/ LoadCheckpoint \/ StartClean \/ CheckPart \/ DiscardPart \/ DiscardSidecar
             \/ BeginComplete \/ Flush \/ FlushTimeout \/ Finish \/ FinishTimeout
  BY <1>5, <1>6 DEF SetupFails, LoadCheckpoint, StartClean, CheckPart, DiscardPart, DiscardSidecar,
         BeginComplete, Flush, FlushTimeout, Finish, FinishTimeout
<1>7. CASE DrainAndVerify \/ Rename \/ RenameRefused \/ RemoveDest \/ RetryRefused \/ RemoveSidecar
             \/ Start
  BY <1>5, <1>7 DEF DrainAndVerify, Rename, RenameRefused, RemoveDest, RetryRefused, RemoveSidecar,
         Start
<1>8. CASE BeginLanes
  <2>1. /\ phase' = "run" /\ phase # "run" /\ queue' = Chunks \ bits /\ bits' = bits /\ tasks' = tasks
        /\ \A l \in Lanes : lane'[l] = "open"
    BY <1>8 DEF BeginLanes, LanesAt
  <2>2. Chunks' = Chunks
    BY <1>8 DEF BeginLanes, Chunks, Size
  <2>3. Windows' = {} /\ \A l \in Lanes : tasks'[l] = {}
    BY <2>1 DEF InvWork, Windows
  <2> QED BY <2>1, <2>2, <2>3 DEF InvWork
<1>9. CASE LanesEnd
  <2>1. phase = "run" /\ \A l \in Lanes : lane[l] \in Ended /\ lane'[l] = "off" /\ tasks'[l] = tasks[l]
    BY <1>9 DEF LanesEnd, LanesAt
  <2>2. \A l \in Lanes : tasks[l] = {}
    BY <2>1 DEF InvWork, Ended, Live
  <2>3. phase' # "run"
    BY <1>9 DEF LanesEnd
  <2>4. ASSUME phase' = "drain" PROVE Chunks' \subseteq bits'
    <3>1. \A l \in Lanes : lane[l] = "ok"
      BY <1>9, <2>4 DEF LanesEnd
    <3>2. PICK l \in Lanes : TRUE
      BY TransferAssumption
    <3>3. queue = {} /\ Windows = {}
      BY <2>1, <2>2, <3>1, <3>2 DEF InvWork, Windows
    <3>4. Chunks \subseteq queue \cup bits \cup Windows
      BY <2>1, <3>1 DEF InvWork
    <3> QED BY <1>9, <3>3, <3>4 DEF LanesEnd, Chunks, Size
  <2> QED BY <2>1, <2>2, <2>3, <2>4 DEF InvWork
<1>10. CASE Crash
  <2>1. phase' = "idle" /\ \A l \in Lanes : lane'[l] = "off" /\ tasks'[l] = {}
    BY <1>10 DEF Crash, LanesAt, NoTasks
  <2> QED BY <2>1 DEF InvWork
<1>11. ASSUME NEW l \in Lanes, LaneStep(l) PROVE InvWork'
  BY <1>11, WorkLane
<1> QED BY <1>2, <1>3, <1>4, <1>6, <1>7, <1>8, <1>9, <1>10, <1>11 DEF Next, EngineStep, ControlStep

LEMMA WorkShared == Spec => []InvWork
<1>1. TypeOK /\ InvWork /\ [Next]_vars => InvWork'
  BY WorkNext
<1> QED BY <1>1, WorkInit, TypeCorrect, PTL DEF Spec

(* NoLostUpdate: the guard "Transfer incomplete" of run_transfer never     *)
(* fires, whatever fails: when every lane has ended well, the bitmap they  *)
(* share has every chunk.                                                  *)
THEOREM NoUpdateIsLost == Spec => []NoLostUpdate
<1>1. InvWork => NoLostUpdate
  BY DEF InvWork, NoLostUpdate
<1> QED BY <1>1, WorkShared, PTL

-----------------------------------------------------------------------------
(* What a bitmap claims *)

LEMMA ClaimSubset ==
  ASSUME NEW p, NEW W, NEW B, NEW cs, NEW v, NEW C \in SUBSET B, ClaimIn(p, W, B, cs, v)
  PROVE  ClaimIn(p, W, C, cs, v)
BY DEF ClaimIn

LEMMA SpanInBlocks ==
  ASSUME NEW v \in Versions, NEW cs \in ChunkSizes, NEW c \in Blocks
  PROVE  ChunkSpan(c, cs, SourceSize[v]) \subseteq 0 .. (SourceSize[v] - 1)
<1>1. SourceSize[v] \in Nat /\ cs \in Nat \ {0} /\ c \in Nat
  BY TransferAssumption DEF Blocks
<1>2. ChunkSpan(c, cs, SourceSize[v]) \subseteq Int
  <2>1. c * cs \in Int
    BY <1>1
  <2> QED BY <2>1 DEF ChunkSpan
<1>3. c * cs >= 0
  BY <1>1
<1>4. ASSUME NEW b \in ChunkSpan(c, cs, SourceSize[v]) PROVE b \in 0 .. (SourceSize[v] - 1)
  <2>1. b \in Int /\ c * cs <= b /\ b < SourceSize[v]
    BY <1>1, <1>2, <1>4, SpanBounds
  <2> QED BY <1>1, <1>3, <2>1
<1> QED BY <1>4

LEMMA SizesTyped ==
  /\ \A v \in Versions : SourceSize[v] \in Nat /\ SourceSize[v] <= MaxSize
  /\ \A cs \in ChunkSizes : cs \in Nat \ {0}
BY TransferAssumption

LEMMA SizeBound == \A v \in Versions : 0 .. (SourceSize[v] - 1) \subseteq Blocks
BY TransferAssumption DEF Blocks

(* A claim survives whatever keeps the blocks of its version. *)
LEMMA ClaimKept ==
  ASSUME NEW p, NEW W, NEW q, NEW X, NEW v \in Versions, NEW cs \in ChunkSizes,
         NEW B \in SUBSET Blocks, ClaimIn(p, W, B, cs, v),
         \A b \in Blocks : HoldsIn(p, W, b, v) => HoldsIn(q, X, b, v)
  PROVE  ClaimIn(q, X, B, cs, v)
BY SpanInBlocks, SizeBound DEF ClaimIn

-----------------------------------------------------------------------------
(* The safety invariant, action by action *)

(* Blocks of every version survive a step that leaves the part alone and   *)
(* drops no write on its way to it.                                        *)
LEMMA SamePartKeeps ==
  ASSUME NEW p, NEW W, NEW X, NEW b, NEW v, HoldsIn(p, W, b, v),
         \A w \in W : w.at = "part" =>
           \E x \in X : x.at = "part" /\ x.off = w.off /\ x.ver = w.ver
  PROVE  HoldsIn(p, X, b, v)
BY DEF HoldsIn

LEMMA SafeInit == Init => SafeInv
<1> SUFFICES ASSUME Init PROVE SafeInv
  OBVIOUS
<1> USE TransferAssumption DEF Init
<1>1. InvShape
  BY DEF InvShape, WellFormed, NoFile, LanesAt, NoTasks, NoSnaps, WriterIdle, WritesAt, Running,
         Live, Finalizing
<1>2. InvChunks /\ InvMarks
  BY DEF InvChunks, InvMarks, Active, Running, Finalizing
<1>3. InvSnapshots
  BY EmptySeq DEF InvSnapshots, LanesAt
<1>4. InvStore
  BY DEF InvStore
<1>5. InvDest
  BY DEF InvDest, FinalSettles, FinalIsWhole, WritesAt, NoFile
<1> QED BY <1>1, <1>2, <1>3, <1>4, <1>5 DEF SafeInv

(* With no checkpoint writer at work there is no snapshot to speak of. *)
LEMMA NoSnapshots ==
  ASSUME WriterIdle, \A l \in Lanes : lane[l] # "handoff" PROVE InvSnapshots
BY EmptySeq DEF InvSnapshots, WriterIdle

(* Creating a file that exists changes nothing, and a new one is empty. *)
LEMMA CreateFacts ==
  ASSUME NEW f \in File, WellFormed(f)
  PROVE  /\ WellFormed(Create(f))
         /\ \A b \in Blocks : Create(f).data[b] = f.data[b]
         /\ Create(f).len = (IF f.len < 0 THEN 0 ELSE f.len)
BY TransferAssumption DEF WellFormed, Create, EmptyFile, File, Blocks, Hole

(* A matching sidecar is a real one. *)
LEMMA MatchIsReal ==
  ASSUME TypeOK, matches_source(store) PROVE store # NoSidecar /\ store \in Sidecar
BY TransferAssumption DEF TypeOK, matches_source, NoSidecar, Snapshots

(* Steps of run_transfer before its lanes start. *)
LEMMA SafeBegin ==
  ASSUME TypeOK, TypeOK', SafeFaults, SafeInv,
         LoadCheckpoint \/ StartClean \/ CheckPart \/ DiscardPart \/ DiscardSidecar
           \/ BeginComplete \/ BeginLanes
  PROVE  SafeInv'
<1> USE TransferAssumption
    DEF SafeInv, files, disk, attempt, marks, lanes, writer
<1>0. InvSnapshots'
  <2>1. phase \notin Running
    BY DEF LoadCheckpoint, StartClean, CheckPart, DiscardPart, DiscardSidecar, BeginComplete,
           BeginLanes, Running
  <2>2. WriterIdle' /\ \A l \in Lanes : lane'[l] # "handoff"
    BY <2>1 DEF InvShape, WriterIdle, Running, LanesAt, LoadCheckpoint, StartClean, CheckPart,
                DiscardPart, DiscardSidecar, BeginComplete, BeginLanes
  <2> QED BY <2>2, EmptySeq DEF InvSnapshots, WriterIdle
<1>1. CASE LoadCheckpoint
  <2>1. InvShape'
    BY <1>1
    DEF LoadCheckpoint, InvShape, WellFormed, WriterIdle, WritesAt, Running, Finalizing, Live,
        Ended, Chunks, Size
  <2>2. InvChunks'
    BY <1>1, MatchIsReal DEF LoadCheckpoint, matches_source, InvChunks, InvStore, Chunks, Size
  <2>3. InvSnapshots'
    BY <1>0
  <2>4. InvStore'
    BY <1>1, MatchIsReal DEF LoadCheckpoint, matches_source, InvStore, ClaimHolds, WritesAt, Active,
           Running, Finalizing
  <2>5. InvMarks'
    BY <1>1
    DEF LoadCheckpoint, InvMarks, ClaimHolds, Holds, WritesAt, Size, Active, Running, Finalizing
  <2>6. InvDest'
    BY <1>1
    DEF LoadCheckpoint, InvDest, FinalSettles, FinalIsWhole, Whole, WritesAt
  <2> QED BY <2>1, <2>2, <2>3, <2>4, <2>5, <2>6 DEF SafeInv
<1>2. CASE StartClean
  <2>1. InvShape'
    BY <1>2
    DEF StartClean, InvShape, WellFormed, WriterIdle, WritesAt, Running, Finalizing, Live, Ended,
        Chunks, Size
  <2>2. InvChunks'
    BY <1>2
    DEF StartClean, InvChunks, Chunks, Size
  <2>3. InvSnapshots'
    BY <1>0
  <2>4. InvStore'
    BY <1>2
    DEF StartClean, InvStore, ClaimHolds, Claim, WritesAt, matches_source, Active, Running,
        Finalizing
  <2>5. InvMarks'
    BY <1>2
    DEF StartClean, InvMarks, ClaimHolds, Holds, WritesAt, Size, Active, Running, Finalizing
  <2>6. InvDest'
    BY <1>2
    DEF StartClean, InvDest, FinalSettles, FinalIsWhole, Whole, WritesAt
  <2> QED BY <2>1, <2>2, <2>3, <2>4, <2>5, <2>6 DEF SafeInv
<1>3. CASE CheckPart
  <2>7. phase' = "begin" =>
          /\ store # NoSidecar /\ store.bits = bits /\ bits # {}
          /\ store.ver = rver /\ store.cs = rcs
          /\ part.len <= Size /\ ClaimHolds(bits, rcs, rver)
    <3> SUFFICES ASSUME phase' = "begin" PROVE
          /\ store # NoSidecar /\ store.bits = bits /\ bits # {}
          /\ store.ver = rver /\ store.cs = rcs
          /\ part.len <= Size /\ ClaimHolds(bits, rcs, rver)
      OBVIOUS
    <3>1. /\ store # NoSidecar /\ store.bits = bits /\ bits # {} /\ store.ver = rver
          /\ store.cs = rcs /\ bits \in SUBSET ChunkIndices(Size, rcs)
      BY <1>3 DEF CheckPart, InvStore, matches_source, Size
    <3>2. part_covers_completed(bits)
      BY <1>3 DEF CheckPart
    <3>3. Size \in Nat /\ rcs \in Nat \ {0} /\ part.len \in Int
      BY DEF TypeOK, Size, File
    <3>4. required_part_size(bits, rcs, Size) \in Nat \ {0}
      BY <3>1, <3>3, RequiredCovers
    <3>5. required_part_size(bits, rcs, Size) <= part.len /\ part.len <= Size
      BY <3>2, <3>4 DEF part_covers_completed
    <3>6. ClaimHolds(bits, rcs, rver)
      BY <1>3, <3>1, <3>3, <3>4, <3>5 DEF InvStore, CheckPart, Size
    <3> QED BY <3>1, <3>5, <3>6
  <2>1. InvShape'
    BY <1>3
    DEF CheckPart, InvShape, WellFormed, WriterIdle, WritesAt, Running, Finalizing, Live, Ended,
        Chunks, Size
  <2>2. InvChunks'
    BY <1>3
    DEF CheckPart, InvChunks, Chunks, Size
  <2>3. InvSnapshots'
    BY <1>0
  <2>4. InvStore'
    <3>1. CASE phase' = "discard"
      BY <1>3, <3>1 DEF CheckPart, InvStore, ClaimHolds, WritesAt, Active, Running, Finalizing
    <3>2. CASE phase' = "begin"
      BY <1>3, <2>7, <3>2 DEF CheckPart, InvStore, ClaimHolds, Claim, WritesAt, matches_source
    <3> QED BY <1>3, <3>1, <3>2 DEF CheckPart
  <2>5. InvMarks'
    <3>1. CASE phase' = "discard"
      BY <3>1 DEF InvMarks, Active, Running, Finalizing
    <3>2. CASE phase' = "begin"
      <4>1. moved' = {}
        BY <1>3 DEF CheckPart, InvShape
      <4> QED BY <1>3, <2>7, <3>2, <4>1 DEF CheckPart, InvMarks, InvStore, ClaimHolds, WritesAt, Size
    <3> QED BY <1>3, <3>1, <3>2 DEF CheckPart
  <2>6. InvDest'
    BY <1>3
    DEF CheckPart, InvDest, FinalSettles, FinalIsWhole, Whole, WritesAt
  <2> QED BY <2>1, <2>2, <2>3, <2>4, <2>5, <2>6 DEF SafeInv
<1>4. CASE DiscardPart
  <2>1. InvShape'
    BY <1>4 DEF DiscardPart, SafeFaults, InvShape, WellFormed, WriterIdle, WritesAt, Running,
           Finalizing, Live, NoFile
  <2>2. InvChunks'
    BY <1>4
    DEF DiscardPart, InvChunks, Chunks, Size
  <2>3. InvSnapshots'
    BY <1>0
  <2>4. InvStore'
    <3>1. part' = NoFile /\ WritesAt("part")' = {}
      BY <1>4 DEF DiscardPart, SafeFaults, WritesAt
    <3>2. ASSUME store # NoSidecar
          PROVE  required_part_size(store.bits, store.cs, SourceSize[store.ver]) \in Nat \ {0}
      <4>1. store \in Sidecar
        BY <3>2 DEF TypeOK, Snapshots
      <4>2. /\ SourceSize[store.ver] \in Nat /\ store.cs \in Nat \ {0} /\ store.bits # {}
            /\ store.bits \in SUBSET ChunkIndices(SourceSize[store.ver], store.cs)
        <5>1. store.ver \in Versions /\ store.cs \in ChunkSizes
          BY <4>1 DEF Sidecar
        <5>2. SourceSize[store.ver] \in Nat /\ store.cs \in Nat \ {0}
          BY <5>1, SizesTyped
        <5> QED BY <3>2, <5>2 DEF InvStore
      <4> QED BY <4>2, RequiredCovers
    <3>3. part'.len = -1 /\ store' = store /\ phase' = "discard_sidecar"
      BY <1>4, <3>1 DEF DiscardPart, NoFile
    <3>4. store # NoSidecar => part'.len < required_part_size(store.bits, store.cs, SourceSize[store.ver])
      BY <3>2, <3>3
    <3> QED BY <3>1, <3>3, <3>4 DEF InvStore, WritesAt, Active, Running, Finalizing
  <2>5. InvMarks'
    BY <1>4
    DEF DiscardPart, InvMarks, ClaimHolds, Holds, WritesAt, Size, Active, Running, Finalizing
  <2>6. InvDest'
    BY <1>4
    DEF DiscardPart, InvDest, FinalSettles, FinalIsWhole, Whole, WritesAt
  <2> QED BY <2>1, <2>2, <2>3, <2>4, <2>5, <2>6 DEF SafeInv
<1>5. CASE DiscardSidecar
  <2>1. InvShape'
    BY <1>5
    DEF DiscardSidecar, InvShape, WellFormed, WriterIdle, WritesAt, Running, Finalizing, Live,
        Ended, Chunks, Size
  <2>2. InvChunks'
    BY <1>5
    DEF DiscardSidecar, InvChunks, Chunks, Size
  <2>3. InvSnapshots'
    BY <1>0
  <2>4. InvStore'
    BY <1>5 DEF DiscardSidecar, SafeFaults, InvStore
  <2>5. InvMarks'
    <3>1. /\ bits' = {} /\ moved' = {} /\ part' = NoFile /\ WritesAt("part")' = {}
          /\ rver' = rver
      BY <1>5 DEF DiscardSidecar, InvShape, WritesAt
    <3>2. part'.len <= Size'
      BY <3>1 DEF NoFile, Size, TypeOK
    <3> QED BY <3>1, <3>2 DEF InvMarks, ClaimHolds, ClaimIn
  <2>6. InvDest'
    BY <1>5
    DEF DiscardSidecar, InvDest, FinalSettles, FinalIsWhole, Whole, WritesAt
  <2> QED BY <2>1, <2>2, <2>3, <2>4, <2>5, <2>6 DEF SafeInv
<1>6. CASE BeginComplete
  <2>7. part' = Create(part) /\ loose' = loose /\ phase' = "rename" /\ phase = "begin"
    BY <1>6 DEF BeginComplete
  <2>8. \A b \in Blocks, v \in Versions : HoldsIn(part, loose, b, v) => HoldsIn(part', loose', b, v)
    BY <2>7, CreateFacts DEF HoldsIn, InvShape, TypeOK
  <2>1. InvShape'
    <3>1. WellFormed(part')
      BY <2>7, CreateFacts DEF InvShape, TypeOK
    <3> QED BY <1>6, <3>1 DEF BeginComplete, InvShape, WellFormed, WriterIdle, WritesAt, Running,
               Finalizing, Chunks, Size
  <2>2. InvChunks'
    BY <1>6
    DEF BeginComplete, InvChunks, Chunks, Size
  <2>3. InvSnapshots'
    BY <1>0
  <2>4. InvStore'
    <3> SUFFICES ASSUME store # NoSidecar PROVE InvStore'
      BY <1>6 DEF BeginComplete, InvStore
    <3>1. store \in Sidecar
      BY DEF TypeOK, Snapshots
    <3>2. store.ver \in Versions /\ store.cs \in ChunkSizes /\ store.bits \in SUBSET Blocks
      BY <3>1 DEF Sidecar
    <3>3. ClaimIn(part, loose, store.bits, store.cs, store.ver)
      BY <2>7 DEF InvStore, ClaimHolds, Active
    <3>4. ClaimIn(part', loose', store.bits, store.cs, store.ver)
      BY <2>8, <3>2, <3>3, ClaimKept
    <3> QED BY <1>6, <3>4 DEF BeginComplete, InvStore, ClaimHolds, Claim, WritesAt, Active,
               Running, Finalizing
  <2>5. InvMarks'
    <3>1. ClaimIn(part', loose', bits, rcs, rver)
      BY <2>7, <2>8, ClaimKept DEF InvMarks, ClaimHolds, Active, TypeOK
    <3>2. \A b \in moved : HoldsIn(part', loose', b, rver)
      BY <2>7, <2>8 DEF InvMarks, Holds, Active, TypeOK
    <3>3. part'.len <= Size
      <4>1. Size \in Nat /\ part.len \in Int /\ part.len <= Size
        BY <2>7 DEF InvMarks, Active, TypeOK, Size, File
      <4>2. part'.len = (IF part.len < 0 THEN 0 ELSE part.len)
        BY <2>7, CreateFacts DEF InvShape, TypeOK
      <4> QED BY <4>1, <4>2
    <3> QED BY <1>6, <2>7, <3>1, <3>2, <3>3 DEF BeginComplete, InvMarks, ClaimHolds, Holds,
               WritesAt, Size, Active
  <2>6. InvDest'
    BY <1>6
    DEF BeginComplete, InvDest, FinalSettles, FinalIsWhole, Whole, WritesAt
  <2> QED BY <2>1, <2>2, <2>3, <2>4, <2>5, <2>6 DEF SafeInv
<1>7. CASE BeginLanes
  <2>1. InvShape'
    BY <1>7
    DEF BeginLanes, InvShape, WellFormed, WriterIdle, WritesAt, Running, Finalizing, Live, Ended,
        Chunks, Size
  <2>2. InvChunks'
    BY <1>7
    DEF BeginLanes, InvChunks, Chunks, Size
  <2>3. InvSnapshots'
    BY <1>0
  <2>4. InvStore'
    BY <1>7
    DEF BeginLanes, InvStore, ClaimHolds, Claim, WritesAt, matches_source, Active, Running,
        Finalizing
  <2>5. InvMarks'
    BY <1>7
    DEF BeginLanes, InvMarks, ClaimHolds, Holds, WritesAt, Size, Active, Running, Finalizing
  <2>6. InvDest'
    BY <1>7
    DEF BeginLanes, InvDest, FinalSettles, FinalIsWhole, Whole, WritesAt
  <2> QED BY <2>1, <2>2, <2>3, <2>4, <2>5, <2>6 DEF SafeInv
<1> QED BY <1>1, <1>2, <1>3, <1>4, <1>5, <1>6, <1>7

-----------------------------------------------------------------------------
(* What a step that disturbs only the writes under way leaves alone *)

(* Every write under way still is, with the same offset and version. *)
KeepsWrites == \A w \in loose : \E x \in loose' : x.at = w.at /\ x.off = w.off /\ x.ver = w.ver

(* Whatever is new among the writes to the part is of the attempt's source. *)
AddsOwnWrites ==
  \A x \in loose' : \/ \E w \in loose : x.at = w.at /\ x.off = w.off /\ x.ver = w.ver
                    \/ x.at = "part" /\ x.off < SourceSize[rver] /\ x.ver = rver

KeepsBlocks(v) == \A b \in Blocks : Holds(b, v) => Holds(b, v)'

LEMMA WritesKeepBlocks ==
  ASSUME KeepsWrites, NEW v, \A b \in Blocks : part'.data[b] = part.data[b]
  PROVE  KeepsBlocks(v)
BY DEF KeepsWrites, KeepsBlocks, Holds, HoldsIn

LEMMA WritesKeepDest ==
  ASSUME InvDest, dest' = dest, KeepsWrites, AddsOwnWrites PROVE InvDest'
<1>1. WritesAt("dest")' # {} => dest'.len >= 0
  BY DEF InvDest, WritesAt, AddsOwnWrites
<1>2. FinalSettles'
  <2> SUFFICES ASSUME dest.len >= 0 PROVE FinalSettles'
    BY DEF FinalSettles
  <2>1. PICK v \in Versions :
          /\ dest.len <= SourceSize[v]
          /\ \A b \in 0 .. (SourceSize[v] - 1) :
               dest.data[b] = v \/ \E w \in loose : w.at = "dest" /\ w.off = b
          /\ \A w \in loose : w.at = "dest" => w.ver = v
    BY DEF InvDest, FinalSettles
  <2>2. \A b \in 0 .. (SourceSize[v] - 1) :
          dest.data[b] = v \/ \E w \in loose' : w.at = "dest" /\ w.off = b
    BY <2>1 DEF KeepsWrites
  <2>3. \A w \in loose' : w.at = "dest" => w.ver = v
    BY <2>1 DEF AddsOwnWrites
  <2> QED BY <2>1, <2>2, <2>3 DEF FinalSettles
<1>3. Direction = "upload" /\ dest'.len >= 0 =>
        \E v \in Versions : Whole(dest', v) /\ \A w \in WritesAt("dest")' : w.ver = v
  BY DEF InvDest, AddsOwnWrites, WritesAt
<1> QED BY <1>1, <1>2, <1>3 DEF InvDest

(* While an attempt believes its bitmap, the stored checkpoint is part of  *)
(* it, and stays true as long as the source's blocks do.                   *)
LEMMA ActiveStoreKept ==
  ASSUME TypeOK, InvStore, phase \in Active, phase' # "check", store' = store, rver' = rver,
         rcs' = rcs, bits \subseteq bits', KeepsBlocks(rver),
         \A w \in WritesAt("part")' : w.ver = rver
  PROVE  InvStore'
<1> SUFFICES ASSUME store # NoSidecar PROVE InvStore'
  BY DEF InvStore
<1>1. Claim(store) /\ ClaimIn(part, loose, store.bits, rcs, rver)
  BY DEF InvStore, ClaimHolds, Claim
<1>2. store.bits \in SUBSET Blocks
  BY DEF TypeOK, Snapshots, Sidecar
<1>3. ClaimIn(part', loose', store.bits, rcs, rver)
  BY <1>1, <1>2, ClaimKept DEF KeepsBlocks, Holds, TypeOK
<1>4. Claim(store)'
  BY <1>1 DEF Claim
<1> QED BY <1>1, <1>3, <1>4 DEF InvStore, ClaimHolds, Claim

LEMMA ActiveMarksKept ==
  ASSUME TypeOK, InvMarks, phase \in Active, rver' = rver, rcs' = rcs, bits' = bits,
         \A b \in moved' \ moved : Holds(b, rver)', KeepsBlocks(rver),
         part'.len <= Size, \A w \in WritesAt("part")' : w.ver = rver
  PROVE  InvMarks'
<1>1. ClaimIn(part', loose', bits, rcs, rver)
  BY ClaimKept DEF KeepsBlocks, Holds, InvMarks, ClaimHolds, TypeOK
<1>2. \A b \in moved' : Holds(b, rver)'
  BY DEF InvMarks, KeepsBlocks, TypeOK
<1> QED BY <1>1, <1>2 DEF InvMarks, ClaimHolds, Size

-----------------------------------------------------------------------------
(* The lanes *)

(* A lane that ends hands its writes over to nobody. *)
LEMMA SafeLaneEnds ==
  ASSUME TypeOK, TypeOK', SafeInv, phase = "run", NEW l \in Lanes, lane[l] # "handoff",
         NEW how \in Ended, LaneEnds(l, how), part' \in {part, Create(part)},
         UNCHANGED <<src, dest, store, late, phase, attempt, result, marks, queue, moved, snap,
                     writer, cancel>>
  PROVE  SafeInv'
<1> USE TransferAssumption DEF SafeInv, attempt, marks, writer
<1>1. KeepsWrites
  <2>1. ASSUME NEW w \in loose PROVE \E x \in loose' : x.at = w.at /\ x.off = w.off /\ x.ver = w.ver
    <3>1. CASE w.by # l
      <4>1. w \in loose'
        BY <3>1 DEF LaneEnds
      <4> QED BY <4>1
    <3>2. CASE w.by = l
      <4>1. [w EXCEPT !.by = NoLane] \in loose'
        BY <3>2 DEF LaneEnds, InvShape
      <4>2. /\ [w EXCEPT !.by = NoLane].at = w.at /\ [w EXCEPT !.by = NoLane].off = w.off
            /\ [w EXCEPT !.by = NoLane].ver = w.ver
        BY DEF TypeOK
      <4> QED BY <4>1, <4>2
    <3> QED BY <3>1, <3>2
  <2> QED BY <2>1 DEF KeepsWrites
<1>2. AddsOwnWrites
  <2>1. ASSUME NEW x \in loose'
        PROVE  \/ \E w \in loose : x.at = w.at /\ x.off = w.off /\ x.ver = w.ver
               \/ x.at = "part" /\ x.off < SourceSize[rver] /\ x.ver = rver
    <3>1. \/ x \in loose
          \/ \E w \in loose : x = [w EXCEPT !.by = NoLane]
          \/ \E b \in sent : x = [by |-> NoLane, at |-> "part", off |-> b, ver |-> rver]
      BY DEF LaneEnds
    <3>2. ASSUME NEW b \in sent, x = [by |-> NoLane, at |-> "part", off |-> b, ver |-> rver]
          PROVE  x.at = "part" /\ x.off < SourceSize[rver] /\ x.ver = rver
      <4>1. b \in 0 .. (SourceSize[rver] - 1) /\ SourceSize[rver] \in Nat
        BY SizesTyped DEF InvChunks, Size, TypeOK
      <4> QED BY <3>2, <4>1
    <3>3. ASSUME NEW w \in loose, x = [w EXCEPT !.by = NoLane]
          PROVE  x.at = w.at /\ x.off = w.off /\ x.ver = w.ver
      BY <3>3 DEF TypeOK
    <3> QED BY <3>1, <3>2, <3>3
  <2> QED BY <2>1 DEF AddsOwnWrites
<1>3. /\ WellFormed(part') /\ part'.len <= Size
      /\ \A b \in Blocks : part'.data[b] = part.data[b]
  <2>1. part.len <= Size /\ part.len \in Int /\ Size \in Nat
    BY DEF InvMarks, Active, Running, TypeOK, File, Size
  <2>2. part \in File /\ WellFormed(part)
    BY DEF InvShape, TypeOK
  <2> QED BY <2>1, <2>2, CreateFacts
<1>4. \A w \in WritesAt("part")' : w.ver = rver
  BY <1>2 DEF AddsOwnWrites, WritesAt, InvMarks, Active, Running
<1>5. InvShape'
  <2>1. \A w \in loose' : w.at # "failed" /\ w.off < SourceSize[w.ver]
    BY <1>2 DEF AddsOwnWrites, InvShape
  <2>2. \A m \in Lanes : /\ lane'[m] \notin Live => tasks'[m] = {}
                         /\ lane'[m] # "handoff" => snap'[m] = NoSidecar
    BY DEF LaneEnds, InvShape, TypeOK
  <2> QED BY <1>3, <2>1, <2>2 DEF InvShape, WellFormed, Running, Finalizing, WritesAt
<1>6. InvChunks'
  BY DEF LaneEnds, InvChunks, Chunks, Size, TypeOK
<1>7. InvSnapshots'
  BY DEF LaneEnds, InvSnapshots, Claim, Ended, TypeOK
<1>8. KeepsBlocks(rver)
  BY <1>1, <1>3, WritesKeepBlocks
<1>9. InvStore' /\ InvMarks'
  BY <1>3, <1>4, <1>8, ActiveStoreKept, ActiveMarksKept DEF Active, Running
<1>10. InvDest'
  BY <1>1, <1>2, WritesKeepDest
<1> QED BY <1>5, <1>6, <1>7, <1>9, <1>10

(* The steps of a lane. *)
LEMMA SafeLane ==
  ASSUME TypeOK, TypeOK', SafeInv, NEW l \in Lanes, LaneStep(l) PROVE SafeInv'
<1> USE TransferAssumption DEF SafeInv, files, attempt, marks, writer
<1>0. phase = "run"
  BY DEF LaneStep, LaneOpens, LaneCannotOpen, PopChunk, StopFilling, LaneCancelled, Request,
         UploadAck, DownloadReply, TaskFails, ChunkDone, HandOff, LaneFinishes, AbortLane,
         InvShape, Live
<1>1. CASE LaneCannotOpen(l) \/ LaneCancelled(l) \/ TaskFails(l) \/ LaneFinishes(l) \/ AbortLane(l)
  BY <1>0, <1>1, SafeLaneEnds
  DEF LaneCannotOpen, LaneCancelled, TaskFails, LaneFinishes, AbortLane, Ended
<1>2. \A w \in WritesAt("part") : w.ver = rver
  BY <1>0 DEF InvMarks, Active, Running
<1>3. part.len <= Size /\ part.len \in Int /\ Size \in Nat /\ part \in File /\ WellFormed(part)
  BY <1>0 DEF InvMarks, Active, Running, InvShape, TypeOK, File, Size
<1>4. ASSUME loose' = loose PROVE KeepsWrites /\ AddsOwnWrites
  BY <1>4 DEF KeepsWrites, AddsOwnWrites
<1>5. CASE LaneOpens(l)
  <2>1. /\ WellFormed(part') /\ part'.len <= Size
        /\ \A b \in Blocks : part'.data[b] = part.data[b]
    BY <1>3, <1>5, CreateFacts DEF LaneOpens
  <2>2. InvShape'
    BY <1>0, <1>5, <2>1 DEF LaneOpens, InvShape, WellFormed, WriterIdle, WritesAt, Live, Running,
           Finalizing, TypeOK
  <2>3. InvChunks' /\ InvSnapshots'
    BY <1>5 DEF LaneOpens, InvChunks, InvSnapshots, Claim, Chunks, Size, TypeOK
  <2>4. KeepsBlocks(rver) /\ InvDest'
    BY <1>4, <1>5, <2>1, WritesKeepBlocks, WritesKeepDest DEF LaneOpens
  <2>5. InvStore' /\ InvMarks'
    BY <1>0, <1>2, <1>5, <2>1, <2>4, ActiveStoreKept, ActiveMarksKept
    DEF LaneOpens, Active, Running, WritesAt
  <2> QED BY <2>2, <2>3, <2>4, <2>5
<1>6. ASSUME UNCHANGED <<part, dest, store, loose, phase, rver, rcs, bits, moved>>
      PROVE  InvStore' /\ InvMarks' /\ InvDest'
  <2>1. KeepsBlocks(rver) /\ InvDest'
    BY <1>4, <1>6, WritesKeepBlocks, WritesKeepDest
  <2> QED BY <1>0, <1>2, <1>3, <1>6, <2>1, ActiveStoreKept, ActiveMarksKept DEF Active, Running, WritesAt
<1>7. CASE PopChunk(l)
  <2>1. InvShape'
    BY <1>0, <1>7 DEF PopChunk, InvShape, WellFormed, WritesAt, Live, Running, Finalizing, TypeOK
  <2>2. InvChunks' /\ InvSnapshots'
    BY <1>7 DEF PopChunk, InvChunks, InvSnapshots, Claim, Chunks, Size, TypeOK
  <2> QED BY <1>6, <1>7, <2>1, <2>2 DEF PopChunk
<1>8. CASE StopFilling(l)
  <2>1. InvShape'
    BY <1>0, <1>8 DEF StopFilling, InvShape, WellFormed, WritesAt, Live, Running, Finalizing, TypeOK
  <2>2. InvChunks' /\ InvSnapshots'
    BY <1>8 DEF StopFilling, InvChunks, InvSnapshots, Claim, Chunks, Size, TypeOK
  <2> QED BY <1>6, <1>8, <2>1, <2>2 DEF StopFilling
<1>9. ASSUME NEW c \in tasks[l], NEW b \in Blocks PROVE b \in Span(c) => b \in 0 .. (Size - 1)
  BY <1>9, SpanInBlocks DEF TypeOK, Span, Size
<1>10. ASSUME NEW c \in tasks[l], NEW b \in Blocks, Request(l, c, b) PROVE SafeInv'
  <2>1. InvShape'
    BY <1>0, <1>10 DEF Request, InvShape, WellFormed, WritesAt, Running, Finalizing
  <2>2. InvChunks' /\ InvSnapshots'
    BY <1>9, <1>10 DEF Request, NextBlock, InvChunks, InvSnapshots, Claim, Chunks, Size
  <2> QED BY <1>6, <1>10, <2>1, <2>2 DEF Request
<1>11. ASSUME NEW c \in tasks[l], NEW b \in Blocks, UploadAck(l, c, b) PROVE SafeInv'
  <2>1. b \in 0 .. (Size - 1) /\ b \in sent
    BY <1>9, <1>11 DEF UploadAck
  <2>2. /\ WellFormed(part') /\ part'.len <= Size
        /\ \A a \in Blocks : part'.data[a] = IF a = b THEN rver ELSE part.data[a]
    BY SMTT(20), <1>3, <1>11, <2>1 DEF UploadAck, Write, WellFormed, MaxOf, File, Blocks, TypeOK
  <2>3. InvShape'
    BY <1>0, <1>11, <2>2 DEF UploadAck, InvShape, WellFormed, WritesAt, Running, Finalizing
  <2>4. InvChunks' /\ InvSnapshots'
    BY <1>11, <2>1 DEF UploadAck, InvChunks, InvSnapshots, Claim, Chunks, Size
  <2>5. InvDest'
    BY <1>4, <1>11, WritesKeepDest DEF UploadAck
  <2>6. KeepsBlocks(rver) /\ Holds(b, rver)'
    BY <1>11, <2>2 DEF UploadAck, KeepsBlocks, Holds, HoldsIn
  <2>7. InvStore' /\ InvMarks'
    BY <1>0, <1>2, <1>11, <2>2, <2>6, ActiveStoreKept, ActiveMarksKept
    DEF UploadAck, Active, Running, WritesAt
  <2> QED BY <2>3, <2>4, <2>5, <2>7
<1>12. ASSUME NEW c \in tasks[l], NEW b \in Blocks, DownloadReply(l, c, b) PROVE SafeInv'
  <2> DEFINE new == [by |-> l, at |-> "part", off |-> b, ver |-> rver]
  <2>1. b \in 0 .. (Size - 1) /\ b \in sent /\ b < SourceSize[rver]
    <3>1. b \in 0 .. (Size - 1) /\ b \in sent
      BY <1>9, <1>12 DEF DownloadReply
    <3> QED BY <1>3, <3>1 DEF Size
  <2>2. loose' = loose \cup {new} /\ new.at = "part" /\ new.off = b /\ new.ver = rver
    BY <1>12 DEF DownloadReply
  <2> HIDE DEF new
  <2>3. KeepsWrites /\ AddsOwnWrites
    BY <2>1, <2>2 DEF KeepsWrites, AddsOwnWrites, Size
  <2>4. InvShape'
    BY <1>0, <1>12, <2>1, <2>2 DEF DownloadReply, InvShape, WellFormed, WritesAt, Running,
           Finalizing, Size
  <2>5. InvChunks' /\ InvSnapshots'
    BY <1>12, <2>1 DEF DownloadReply, InvChunks, InvSnapshots, Claim, Chunks, Size
  <2>6. InvDest' /\ KeepsBlocks(rver)
    BY <1>12, <2>3, WritesKeepDest, WritesKeepBlocks DEF DownloadReply
  <2>7. Holds(b, rver)'
    BY <1>12, <2>2 DEF DownloadReply, Holds, HoldsIn
  <2>8. \A w \in WritesAt("part")' : w.ver = rver
    BY <1>2, <2>2 DEF WritesAt
  <2>9. InvStore' /\ InvMarks'
    BY <1>0, <1>3, <1>12, <2>6, <2>7, <2>8, ActiveStoreKept, ActiveMarksKept
    DEF DownloadReply, Active, Running
  <2> QED BY <2>4, <2>5, <2>6, <2>9
<1>13. ASSUME NEW c \in tasks[l], NEW due \in BOOLEAN, ChunkDone(l, c, due) PROVE SafeInv'
  <2>1. InvShape'
    BY <1>0, <1>13 DEF ChunkDone, InvShape, WellFormed, WritesAt, Live, Running, Finalizing, TypeOK
  <2>2. InvChunks'
    BY <1>0, <1>13 DEF ChunkDone, InvChunks, Chunks, Size, TypeOK
  <2>3. InvSnapshots'
    BY <1>13 DEF ChunkDone, InvSnapshots, Claim, Snapshot, TypeOK
  <2>4. KeepsBlocks(rver) /\ InvDest'
    BY <1>4, <1>13, WritesKeepBlocks, WritesKeepDest DEF ChunkDone, lanes
  <2>5. InvStore'
    BY <1>0, <1>2, <1>13, <2>4, ActiveStoreKept DEF ChunkDone, Active, Running, WritesAt
  <2>6. \A b \in Span(c) : Holds(b, rver)
    BY <1>0, <1>13 DEF ChunkDone, InvMarks, Active, Running
  <2>7. ClaimHolds(bits \cup {c}, rcs, rver)
    BY <1>0, <2>6 DEF InvMarks, Active, Running, ClaimHolds, ClaimIn, Holds, Span, Size
  <2>8. InvMarks'
    BY <1>0, <1>13, <2>7 DEF ChunkDone, InvMarks, Active, Running, ClaimHolds, Holds, WritesAt, Size
  <2> QED BY <2>1, <2>2, <2>3, <2>4, <2>5, <2>8
<1>14. CASE HandOff(l)
  <2>1. InvShape'
    BY <1>0, <1>14 DEF HandOff, InvShape, WellFormed, WritesAt, Live, Running, Finalizing, TypeOK
  <2>2. InvChunks'
    BY <1>14 DEF HandOff, InvChunks, Chunks, Size
  <2>3. Claim(snap[l]) /\ ckq \in Seq(Snapshots) /\ snap[l] \in Snapshots
    BY <1>14 DEF HandOff, InvSnapshots, TypeOK
  <2>4. \A i \in 1 .. Len(ckq') : ckq'[i] = snap[l] \/ (i \in 1 .. Len(ckq) /\ ckq'[i] = ckq[i])
    BY <1>14, <2>3 DEF HandOff
  <2>5. \A m \in Lanes : lane'[m] = "handoff" => lane[m] = "handoff" /\ snap'[m] = snap[m]
    BY <1>14 DEF HandOff, TypeOK
  <2>6. InvSnapshots'
    BY <1>14, <2>3, <2>4, <2>5 DEF HandOff, InvSnapshots, Claim
  <2> QED BY <1>6, <1>14, <2>1, <2>2, <2>6 DEF HandOff
<1> QED BY <1>1, <1>5, <1>7, <1>8, <1>10, <1>11, <1>12, <1>13, <1>14 DEF LaneStep

-----------------------------------------------------------------------------
(* run_transfer after its lanes *)

(* A stored checkpoint needs a part file. *)
LEMMA StoreNeedsPart ==
  ASSUME NEW s \in Sidecar, s.bits # {},
         s.bits \subseteq ChunkIndices(SourceSize[s.ver], s.cs)
  PROVE  /\ required_part_size(s.bits, s.cs, SourceSize[s.ver]) \in Nat \ {0}
         /\ \A c \in s.bits : \A b \in ChunkSpan(c, s.cs, SourceSize[s.ver]) :
              b < required_part_size(s.bits, s.cs, SourceSize[s.ver])
<1>1. SourceSize[s.ver] \in Nat /\ s.cs \in Nat \ {0}
  BY SizesTyped DEF Sidecar
<1> QED BY <1>1, RequiredCovers

(* Once the part is gone, so that nothing is on its way to it, a stored    *)
(* checkpoint is visibly untrue.                                           *)
LEMMA StoreWithoutPart ==
  ASSUME TypeOK, TypeOK', InvStore, store' = store, part' = NoFile, WritesAt("part")' = {},
         phase' \notin Active, phase' # "check"
  PROVE  InvStore'
<1> SUFFICES ASSUME store # NoSidecar PROVE InvStore'
  BY DEF InvStore
<1>1. store \in Sidecar
  BY DEF TypeOK, Snapshots
<1>2. required_part_size(store.bits, store.cs, SourceSize[store.ver]) \in Nat \ {0}
  BY <1>1, StoreNeedsPart DEF InvStore
<1>3. part'.len < required_part_size(store.bits, store.cs, SourceSize[store.ver])
  BY <1>2 DEF NoFile
<1> QED BY <1>3 DEF InvStore, WritesAt

LEMMA PartWritesKeepBlocks ==
  ASSUME part' = part, WritesAt("part") \subseteq loose', NEW v PROVE KeepsBlocks(v)
BY DEF WritesAt, KeepsBlocks, Holds, HoldsIn

(* When every chunk is marked the part is the source, whole up to the      *)
(* writes still on their way to it.                                        *)
LEMMA AllMarked ==
  ASSUME TypeOK, InvMarks, phase \in Finalizing, Chunks \subseteq bits, NEW b \in 0 .. (Size - 1)
  PROVE  Holds(b, rver)
<1>1. Size \in Nat /\ rcs \in Nat \ {0} /\ b \in Nat /\ b < Size
  BY SizesTyped DEF TypeOK, Size
<1>2. PICK c \in ChunkIndices(Size, rcs) : b \in ChunkSpan(c, rcs, Size)
  BY <1>1, ByteHasChunk
<1>3. c \in bits
  BY <1>2 DEF Chunks
<1> QED BY <1>2, <1>3 DEF InvMarks, Active, ClaimHolds, ClaimIn, Holds, Size

LEMMA SafeRename ==
  ASSUME TypeOK, TypeOK', SafeInv, Rename PROVE SafeInv'
<1> USE TransferAssumption DEF SafeInv, attempt, marks, lanes, writer
<1>1. /\ dest' = part /\ part' = NoFile /\ part.len >= 0 /\ phase \in Finalizing
      /\ phase' = "remove_sidecar"
  BY DEF Rename, Finalizing
<1>2. \A x \in loose' : /\ x.at = "dest"
                        /\ \E w \in WritesAt("part") : w.off = x.off /\ w.ver = x.ver
  <2>1. ASSUME NEW x \in loose'
        PROVE  /\ x.at = "dest"
               /\ \E w \in WritesAt("part") : w.off = x.off /\ w.ver = x.ver
    <3>1. PICK w \in loose : w.at # "dest" /\ x = [w EXCEPT !.at = IF @ = "part" THEN "dest" ELSE @]
      BY DEF Rename
    <3>2. w.at = "part"
      BY <3>1 DEF InvShape, TypeOK
    <3>3. x.at = "dest" /\ x.off = w.off /\ x.ver = w.ver
      BY <3>1, <3>2 DEF TypeOK
    <3> QED BY <3>2, <3>3 DEF WritesAt
  <2> QED BY <2>1
<1>3. \A w \in WritesAt("part") : w.ver = rver /\ \E x \in loose' : x.at = "dest" /\ x.off = w.off
  <2>1. ASSUME NEW w \in WritesAt("part") PROVE \E x \in loose' : x.at = "dest" /\ x.off = w.off
    <3>1. [w EXCEPT !.at = IF @ = "part" THEN "dest" ELSE @] \in loose'
      BY DEF Rename, WritesAt
    <3>2. /\ [w EXCEPT !.at = IF @ = "part" THEN "dest" ELSE @].at = "dest"
          /\ [w EXCEPT !.at = IF @ = "part" THEN "dest" ELSE @].off = w.off
      BY DEF WritesAt, TypeOK
    <3> QED BY <3>1, <3>2
  <2> QED BY <1>1, <2>1 DEF InvMarks, Active
<1>4. WritesAt("part")' = {}
  BY <1>2 DEF WritesAt
<1>5. InvShape'
  <2>1. \A x \in loose' : x.at # "failed" /\ x.off < SourceSize[x.ver]
    BY <1>2 DEF InvShape, WritesAt
  <2>2. WellFormed(part') /\ WellFormed(dest')
    BY <1>1 DEF InvShape, WellFormed, NoFile
  <2>3. WriterIdle'
    BY <1>1 DEF Rename, InvShape, WriterIdle, Running, Finalizing
  <2> QED BY <1>1, <1>4, <2>1, <2>2, <2>3 DEF Rename, InvShape, Running, Finalizing
<1>6. InvChunks' /\ InvSnapshots'
  BY <1>1 DEF Rename, InvChunks, InvSnapshots, Claim, Chunks, Size, Finalizing
<1>7. InvStore'
  BY <1>1, <1>4, StoreWithoutPart DEF Rename, Active, Running, Finalizing
<1>8. InvMarks'
  BY <1>1 DEF InvMarks, Active, Running, Finalizing
<1>9. part.len <= Size /\ part.len \in Int /\ Size \in Nat
  BY <1>1, SizesTyped DEF InvMarks, Active, TypeOK, File, Size
<1>10. \A b \in 0 .. (Size - 1) : Holds(b, rver)
  BY <1>1, AllMarked DEF InvShape
<1>11. InvDest'
  <2>1. \A x \in loose' : x.ver = rver
    BY <1>2, <1>3
  <2>2. \A b \in 0 .. (Size - 1) :
          dest'.data[b] = rver \/ \E x \in loose' : x.at = "dest" /\ x.off = b
    BY <1>1, <1>3, <1>10 DEF Holds, HoldsIn, WritesAt
  <2>3. FinalSettles'
    BY <1>1, <1>9, <2>1, <2>2 DEF FinalSettles, Size, TypeOK
  <2>4. ASSUME Direction = "upload" PROVE Whole(dest', rver)
    <3>1. \A b \in 0 .. (Size - 1) : part.data[b] = rver
      BY <1>10, <2>4 DEF Holds, HoldsIn
    <3>2. part.len = Size
      <4>1. CASE Size = 0
        BY <1>1, <1>9, <4>1
      <4>2. CASE Size > 0
        <5>1. Size - 1 \in 0 .. (Size - 1) /\ Size - 1 \in Blocks
          BY <1>9, <4>2, SizeBound DEF TypeOK, Size
        <5>2. part.data[Size - 1] # Hole
          BY <3>1, <5>1 DEF TypeOK
        <5>3. Size - 1 < part.len
          BY <5>1, <5>2 DEF InvShape, WellFormed
        <5> QED BY <1>9, <5>3
      <4> QED BY <1>9, <4>1, <4>2
    <3> QED BY <1>1, <3>1, <3>2 DEF Whole, Size
  <2> QED BY <1>1, <2>1, <2>3, <2>4 DEF InvDest, WritesAt, TypeOK
<1> QED BY <1>5, <1>6, <1>7, <1>8, <1>11

(* A step that only moves run_transfer on, or returns from it. *)
LEMMA OnlyPhase ==
  ASSUME TypeOK, SafeInv, phase \in Active, phase' # "check",
         UNCHANGED <<part, dest, store, loose, rver, rcs, bits, moved>>
  PROVE  InvStore' /\ InvMarks' /\ InvDest'
<1> USE DEF SafeInv
<1>1. KeepsWrites /\ AddsOwnWrites
  BY DEF KeepsWrites, AddsOwnWrites
<1>2. KeepsBlocks(rver) /\ InvDest'
  BY <1>1, WritesKeepBlocks, WritesKeepDest
<1>3. part'.len <= Size /\ \A w \in WritesAt("part")' : w.ver = rver
  BY DEF InvMarks, WritesAt
<1> QED BY <1>2, <1>3, ActiveStoreKept, ActiveMarksKept

(* Steps of run_transfer after its lanes have started. *)
LEMMA SafeAfter ==
  ASSUME TypeOK, TypeOK', SafeFaults, SafeInv, InvWriter,
         SetupFails \/ LanesEnd \/ Flush \/ FlushTimeout \/ Finish \/ FinishTimeout
           \/ DrainAndVerify \/ Rename \/ RenameRefused \/ RemoveDest \/ RetryRefused
           \/ RemoveSidecar
  PROVE  SafeInv'
<1> USE TransferAssumption DEF SafeInv, files, attempt, marks, lanes, writer
<1>1. CASE SetupFails
  <2>1. InvShape' /\ InvChunks' /\ InvSnapshots'
    BY <1>1 DEF SetupFails, Return, InvShape, InvChunks, InvSnapshots, Claim, WellFormed,
           WriterIdle, WritesAt, Running, Finalizing, Live
  <2>2. InvStore' /\ InvMarks' /\ InvDest'
    <3>1. CASE phase = "begin"
      BY <1>1, <3>1, OnlyPhase DEF SetupFails, Return, Active
    <3>2. CASE phase = "load"
      BY <1>1, <3>2 DEF SetupFails, Return, InvStore, InvMarks, InvDest, FinalSettles, Whole,
             ClaimHolds, WritesAt, Active, Running, Finalizing
    <3> QED BY <1>1, <3>1, <3>2 DEF SetupFails
  <2> QED BY <2>1, <2>2
<1>2. CASE LanesEnd
  <2>1. phase = "run" /\ phase' \in {"drain", "flush", "idle"} /\ lane' = [l \in Lanes |-> "off"]
    BY <1>2 DEF LanesEnd, Return, LanesAt
  <2>2. phase' = "idle" => WriterIdle
    BY <1>2 DEF LanesEnd, Return, InvWriter, Running
  <2>3. \A l \in Lanes : tasks[l] = {} /\ snap[l] = NoSidecar
    BY <1>2 DEF LanesEnd, InvShape, Ended, Live
  <2>4. InvShape'
    BY <1>2, <2>1, <2>2, <2>3 DEF LanesEnd, InvShape, WellFormed, WriterIdle, WritesAt, Running,
           Finalizing
  <2>5. InvChunks' /\ InvSnapshots'
    BY <1>2, <2>1 DEF LanesEnd, InvChunks, InvSnapshots, Claim, Chunks, Size
  <2>6. InvStore' /\ InvMarks' /\ InvDest'
    BY <1>2, <2>1, OnlyPhase DEF LanesEnd, Active, Running
  <2> QED BY <2>4, <2>5, <2>6
<1>3. CASE Flush
  <2>1. InvShape' /\ InvChunks'
    BY <1>3 DEF Flush, InvShape, InvChunks, WellFormed, WritesAt, Running, Finalizing, Chunks, Size
  <2>2. InvStore' /\ InvMarks' /\ InvDest'
    BY <1>3, OnlyPhase DEF Flush, Active, Running
  <2>3. InvSnapshots'
    <3>1. CASE ckq' = ckq
      BY <1>3, <3>1 DEF Flush, InvSnapshots, Claim
    <3>2. CASE Cardinality(bits) > persisted /\ ckq' = Append(ckq, Snapshot(bits))
      <4>1. bits # {}
        <5>1. ASSUME bits = {} PROVE Cardinality(bits) = 0
          BY <5>1, FS_EmptySet, Zenon
        <5>2. persisted \in Nat
          BY DEF TypeOK
        <5> QED BY <3>2, <5>1, <5>2
      <4>2. Claim(Snapshot(bits))
        BY <4>1 DEF Claim, Snapshot
      <4>3. ckq \in Seq(Snapshots)
        BY DEF TypeOK
      <4>4. \A i \in 1 .. Len(ckq') :
              ckq'[i] = Snapshot(bits) \/ (i \in 1 .. Len(ckq) /\ ckq'[i] = ckq[i])
        BY <3>2, <4>3
      <4> QED BY <1>3, <4>2, <4>4 DEF Flush, InvSnapshots, Claim
    <3> QED BY <1>3, <3>1, <3>2 DEF Flush
  <2> QED BY <2>1, <2>2, <2>3
<1>4. CASE FlushTimeout \/ FinishTimeout
  BY <1>4 DEF FlushTimeout, FinishTimeout, SafeFaults
<1>5. CASE Finish
  <2>1. InvShape' /\ InvChunks' /\ InvSnapshots'
    BY <1>5 DEF Finish, Return, InvShape, InvChunks, InvSnapshots, Claim, WellFormed, WriterIdle,
           WritesAt, Running, Finalizing
  <2> QED BY <1>5, <2>1, OnlyPhase DEF Finish, Return, Active, Running
<1>6. CASE DrainAndVerify
  <2>1. InvShape' /\ InvChunks' /\ InvSnapshots'
    BY <1>6 DEF DrainAndVerify, Return, InvShape, InvChunks, InvSnapshots, Claim, WellFormed,
           WriterIdle, WritesAt, Running, Finalizing, Chunks, Size
  <2>2. phase \in Active /\ phase' # "check"
    BY <1>6 DEF DrainAndVerify, Return, Active, Running
  <2> QED BY <1>6, <2>1, <2>2, OnlyPhase DEF DrainAndVerify
<1>7. CASE Rename
  BY <1>7, SafeRename
<1>8. CASE RenameRefused
  <2>1. InvShape' /\ InvChunks' /\ InvSnapshots'
    BY <1>8 DEF RenameRefused, InvShape, InvChunks, InvSnapshots, Claim, WellFormed,
           WriterIdle, WritesAt, Running, Finalizing, Chunks, Size
  <2> QED BY <1>8, <2>1, OnlyPhase DEF RenameRefused, Active, Finalizing
<1>9. CASE RemoveDest
  <2>1. /\ loose' \subseteq loose /\ WritesAt("part") \subseteq loose' /\ part' = part
        /\ phase = "remove_dest" /\ phase' = "retry"
    BY <1>9 DEF RemoveDest, WritesAt
  <2>2. WellFormed(dest)'
    BY <1>9 DEF RemoveDest, InvShape, WellFormed, NoFile
  <2>3. InvShape'
    BY <1>9, <2>1, <2>2 DEF RemoveDest, InvShape, WellFormed, WriterIdle, WritesAt, Running,
           Finalizing, Chunks, Size
  <2>4. InvChunks' /\ InvSnapshots'
    BY <1>9 DEF RemoveDest, InvChunks, InvSnapshots, Claim, Chunks, Size
  <2>5. KeepsBlocks(rver)
    BY <2>1, PartWritesKeepBlocks
  <2>6. part'.len <= Size /\ \A w \in WritesAt("part")' : w.ver = rver
    BY <2>1 DEF InvMarks, Active, Finalizing, WritesAt
  <2>7. InvStore' /\ InvMarks'
    BY <1>9, <2>1, <2>5, <2>6, ActiveStoreKept, ActiveMarksKept DEF RemoveDest, Active, Finalizing
  <2>8. InvDest'
    BY <1>9 DEF RemoveDest, InvDest, FinalSettles, Whole, WritesAt, NoFile
  <2> QED BY <2>3, <2>4, <2>7, <2>8
<1>10. CASE RetryRefused
  <2>1. InvShape' /\ InvChunks' /\ InvSnapshots'
    BY <1>10 DEF RetryRefused, Return, InvShape, InvChunks, InvSnapshots, Claim, WellFormed,
           WriterIdle, WritesAt, Running, Finalizing
  <2> QED BY <1>10, <2>1, OnlyPhase DEF RetryRefused, Return, Active, Finalizing
<1>11. CASE RemoveSidecar
  <2>1. InvShape' /\ InvChunks' /\ InvSnapshots'
    BY <1>11 DEF RemoveSidecar, Return, InvShape, InvChunks, InvSnapshots, Claim, WellFormed,
           WriterIdle, WritesAt, Running, Finalizing
  <2>2. InvStore' /\ InvMarks'
    BY <1>11 DEF RemoveSidecar, Return, SafeFaults, InvStore, InvMarks, Active, Running, Finalizing
  <2>3. InvDest'
    BY <1>11 DEF RemoveSidecar, InvDest, FinalSettles, Whole, WritesAt
  <2> QED BY <2>1, <2>2, <2>3
<1> QED BY <1>1, <1>2, <1>3, <1>4, <1>5, <1>6, <1>7, <1>8, <1>9, <1>10, <1>11

-----------------------------------------------------------------------------
(* The checkpoint writer, the writes under way and the world around *)

(* A snapshot of marked chunks is a true checkpoint. *)
LEMMA ClaimIsTrue ==
  ASSUME TypeOK, SafeInv, phase \in Active, NEW s \in Snapshots, Claim(s)
  PROVE  /\ s.bits # {} /\ s.bits \subseteq ChunkIndices(SourceSize[s.ver], s.cs)
         /\ \A w \in WritesAt("part") : w.ver = s.ver
         /\ ClaimHolds(s.bits, s.cs, s.ver)
<1> USE DEF SafeInv
<1>1. phase # "idle"
  BY DEF Active, Running, Finalizing
<1>2. ClaimIn(part, loose, s.bits, rcs, rver)
  BY ClaimSubset DEF InvMarks, Claim, ClaimHolds
<1> QED BY <1>1, <1>2 DEF InvMarks, InvChunks, Claim, ClaimHolds, Chunks, Size

LEMMA SafeWriter ==
  ASSUME TypeOK, TypeOK', SafeInv, WriterStep PROVE SafeInv'
<1> USE TransferAssumption DEF SafeInv, files, attempt, marks, lanes, writer
<1>1. phase \in Running
  <2>1. ~WriterIdle
    BY DEF WriterStep, WriterReceives, WriterSaves, WriterFails, WriterIdle
  <2> QED BY <2>1 DEF InvShape
<1>2. InvShape' /\ InvChunks' /\ InvDest'
  BY <1>1 DEF WriterStep, WriterReceives, WriterSaves, WriterFails, InvShape, InvChunks, InvDest,
         FinalSettles, Whole, WellFormed, WritesAt, Running, Finalizing, Chunks, Size
<1>3. InvSnapshots'
  <2>1. CASE WriterReceives
    <3>1. /\ ckq \in Seq(Snapshots) /\ ckq # <<>> /\ saving' = Head(ckq) /\ ckq' = Tail(ckq)
      BY <2>1 DEF WriterReceives, TypeOK
    <3>2. saving' = ckq[1] /\ 1 \in 1 .. Len(ckq)
      BY <3>1
    <3>3. \A i \in 1 .. Len(ckq') : i + 1 \in 1 .. Len(ckq) /\ ckq'[i] = ckq[i + 1]
      BY <3>1
    <3> QED BY <2>1, <3>2, <3>3 DEF WriterReceives, InvSnapshots, Claim
  <2>2. CASE WriterSaves \/ WriterFails
    BY <2>2 DEF WriterSaves, WriterFails, InvSnapshots, Claim
  <2> QED BY <2>1, <2>2 DEF WriterStep
<1>4. InvMarks'
  BY DEF WriterStep, WriterReceives, WriterSaves, WriterFails, InvMarks, ClaimHolds, Holds,
         WritesAt, Size
<1>5. InvStore'
  <2>1. CASE store' = store
    BY <2>1 DEF WriterStep, WriterReceives, WriterSaves, WriterFails, InvStore, ClaimHolds, Claim,
           WritesAt, matches_source
  <2>2. CASE store' = NoSidecar
    BY <1>1, <2>2 DEF InvStore, Running, WriterStep, WriterReceives, WriterSaves, WriterFails
  <2>3. CASE store' = saving /\ saving # NoSidecar
    <3>1. Claim(saving) /\ saving \in Snapshots /\ phase \in Active
      BY <1>1, <2>3 DEF InvSnapshots, TypeOK, Active
    <3>2. /\ saving.bits # {} /\ saving.bits \subseteq ChunkIndices(SourceSize[saving.ver], saving.cs)
          /\ \A w \in WritesAt("part") : w.ver = saving.ver
          /\ ClaimHolds(saving.bits, saving.cs, saving.ver)
      BY <3>1, ClaimIsTrue
    <3>3. UNCHANGED <<part, loose, phase, rver, rcs, bits>>
      BY DEF WriterStep, WriterReceives, WriterSaves, WriterFails
    <3> QED BY <1>1, <2>3, <3>1, <3>2, <3>3 DEF InvStore, ClaimHolds, Claim, WritesAt, Running
  <2> QED BY <2>1, <2>2, <2>3 DEF WriterStep, WriterReceives, WriterSaves, WriterFails
<1> QED BY <1>2, <1>3, <1>4, <1>5

LEMMA SameDestWrites ==
  ASSUME InvDest, dest' = dest, WritesAt("dest")' = WritesAt("dest") PROVE InvDest'
<1>1. FinalSettles'
  BY DEF InvDest, FinalSettles, WritesAt
<1> QED BY <1>1 DEF InvDest

(* What matters of the writes under way is which of them go to the part. *)
LEMMA SamePartWrites ==
  ASSUME TypeOK, SafeInv, part' = part, WritesAt("part")' = WritesAt("part"),
         UNCHANGED <<store, phase, rver, rcs, bits, moved>>
  PROVE  InvStore' /\ InvMarks'
<1> USE DEF SafeInv
<1>1. \A b, v : Holds(b, v)' <=> Holds(b, v)
  BY DEF Holds, HoldsIn, WritesAt
<1>2. \A B, cs, v : ClaimHolds(B, cs, v)' <=> ClaimHolds(B, cs, v)
  BY <1>1 DEF ClaimHolds, ClaimIn, Holds
<1>3. InvMarks'
  BY <1>1, <1>2 DEF InvMarks, Size
<1>4. InvStore'
  BY <1>2 DEF InvStore, Claim, matches_source
<1> QED BY <1>3, <1>4

LEMMA WriteFacts ==
  ASSUME NEW f \in File, WellFormed(f), NEW b \in Blocks, NEW v \in Versions
  PROVE  /\ WellFormed(Write(f, b, v))
         /\ \A a \in Blocks : Write(f, b, v).data[a] = IF a = b THEN v ELSE f.data[a]
         /\ \A n \in Nat : f.len <= n /\ b < n => Write(f, b, v).len <= n
         /\ f.len <= Write(f, b, v).len
BY TransferAssumption DEF Write, WellFormed, MaxOf, File, Blocks

LEMMA SafeLands ==
  ASSUME TypeOK, TypeOK', SafeInv, NEW w \in loose, Lands(w) PROVE SafeInv'
<1> USE TransferAssumption DEF SafeInv, attempt, marks, lanes, writer
<1>1. /\ w.off \in Blocks /\ w.ver \in Versions /\ w.off < SourceSize[w.ver]
      /\ SourceSize[w.ver] \in Nat
  BY SizesTyped DEF TypeOK, InvShape
<1>2. WellFormed(part') /\ WellFormed(dest')
  BY <1>1, WriteFacts DEF Lands, InvShape, TypeOK
<1>3. InvShape'
  <2>1. w.at = "part" => phase \notin {"discard_sidecar", "remove_sidecar"}
    BY DEF InvShape, WritesAt
  <2> QED BY <1>2, <2>1 DEF Lands, InvShape, WriterIdle, WritesAt, Running, Finalizing, Chunks, Size
<1>4. InvChunks' /\ InvSnapshots'
  BY DEF Lands, InvChunks, InvSnapshots, Claim, Chunks, Size
<1>5. CASE w.at = "part"
  <2>1. InvDest'
    <3>1. WritesAt("dest")' = WritesAt("dest") /\ dest' = dest
      BY <1>5 DEF Lands, WritesAt
    <3> QED BY <3>1, SameDestWrites
  <2>2. part' = Write(part, w.off, w.ver) /\ loose' = loose \ {w}
    BY <1>5 DEF Lands
  <2>3. \A a \in Blocks : part'.data[a] = IF a = w.off THEN w.ver ELSE part.data[a]
    BY <1>1, <2>2, WriteFacts DEF InvShape, TypeOK
  <2>4. KeepsBlocks(w.ver)
    BY <2>2, <2>3 DEF KeepsBlocks, Holds, HoldsIn
  <2>5. w \in WritesAt("part") /\ WritesAt("part")' \subseteq WritesAt("part")
    BY <1>5, <2>2 DEF WritesAt
  <2>6. InvStore'
    <3> SUFFICES ASSUME store # NoSidecar PROVE InvStore'
      BY DEF InvStore, Lands
    <3>1. store.ver = w.ver /\ ClaimHolds(store.bits, store.cs, store.ver)
      BY <2>5 DEF InvStore
    <3>2. store.cs \in ChunkSizes /\ store.bits \in SUBSET Blocks
      BY DEF TypeOK, Snapshots, Sidecar
    <3>3. ClaimIn(part', loose', store.bits, store.cs, store.ver)
      BY <1>1, <2>4, <3>1, <3>2, ClaimKept DEF KeepsBlocks, Holds, ClaimHolds
    <3> QED BY <2>5, <3>3 DEF InvStore, Lands, ClaimHolds, Claim, matches_source
  <2>7. InvMarks'
    <3> SUFFICES ASSUME phase \in Active PROVE InvMarks'
      BY DEF InvMarks, Lands
    <3>1. w.ver = rver /\ part.len <= Size
      BY <2>5 DEF InvMarks
    <3>2. part'.len <= Size
      BY <1>1, <2>2, <3>1, WriteFacts DEF InvShape, TypeOK, Size
    <3>3. \A x \in WritesAt("part")' : x.ver = rver
      BY <2>5 DEF InvMarks
    <3> QED BY <2>4, <3>1, <3>2, <3>3, ActiveMarksKept DEF Lands
  <2> QED BY <1>3, <1>4, <2>1, <2>6, <2>7
<1>6. CASE w.at = "dest"
  <2>1. dest' = Write(dest, w.off, w.ver) /\ loose' = loose \ {w} /\ part' = part
    BY <1>6 DEF Lands
  <2>2. InvStore' /\ InvMarks'
    <3>1. WritesAt("part")' = WritesAt("part")
      BY <1>6, <2>1 DEF WritesAt
    <3> QED BY <2>1, <3>1, SamePartWrites DEF Lands
  <2>3. w \in WritesAt("dest") /\ dest.len >= 0 /\ dest.len \in Int /\ dest'.len \in Int
    BY <1>6 DEF WritesAt, InvDest, TypeOK, File
  <2>4. /\ \A a \in Blocks : dest'.data[a] = IF a = w.off THEN w.ver ELSE dest.data[a]
        /\ \A n \in Nat : dest.len <= n /\ w.off < n => dest'.len <= n
        /\ dest.len <= dest'.len
    BY <1>1, <2>1, WriteFacts DEF InvShape, TypeOK
  <2>5. FinalSettles'
    <3>1. PICK v \in Versions :
            /\ dest.len <= SourceSize[v]
            /\ \A b \in 0 .. (SourceSize[v] - 1) :
                 dest.data[b] = v \/ \E x \in loose : x.at = "dest" /\ x.off = b
            /\ \A x \in loose : x.at = "dest" => x.ver = v
      BY <2>3 DEF InvDest, FinalSettles
    <3>2. w.ver = v
      BY <1>6, <3>1
    <3>3. dest'.len <= SourceSize[v]
      BY <1>1, <2>4, <3>1, <3>2
    <3>4. ASSUME NEW b \in 0 .. (SourceSize[v] - 1)
          PROVE  dest'.data[b] = v \/ \E x \in loose' : x.at = "dest" /\ x.off = b
      <4>1. b \in Blocks
        BY SizeBound
      <4> QED BY <2>1, <2>4, <3>1, <3>2, <4>1
    <3> QED BY <2>1, <3>1, <3>3, <3>4 DEF FinalSettles
  <2>6. ASSUME Direction = "upload"
        PROVE  \E v \in Versions : Whole(dest', v) /\ \A x \in WritesAt("dest")' : x.ver = v
    <3>1. PICK v \in Versions : Whole(dest, v) /\ \A x \in WritesAt("dest") : x.ver = v
      BY <2>3, <2>6 DEF InvDest
    <3>2. w.ver = v
      BY <2>3, <3>1
    <3>3. dest'.len = SourceSize[v]
      BY <1>1, <2>3, <2>4, <3>1, <3>2 DEF Whole
    <3>4. \A b \in 0 .. (SourceSize[v] - 1) : dest'.data[b] = v
      BY <2>4, <3>1, <3>2, SizeBound DEF Whole
    <3> QED BY <2>1, <3>1, <3>3, <3>4 DEF Whole, WritesAt
  <2>7. InvDest'
    BY <2>3, <2>4, <2>5, <2>6 DEF InvDest
  <2> QED BY <1>3, <1>4, <2>2, <2>7
<1> QED BY <1>5, <1>6 DEF Lands

LEMMA SafeStart ==
  ASSUME TypeOK, TypeOK', SafeInv, Start PROVE SafeInv'
<1> USE TransferAssumption DEF SafeInv, disk, writer
<1>1. phase = "idle" /\ phase' = "load" /\ bits' = {} /\ moved' = {}
  BY DEF Start
<1>2. InvShape'
  BY <1>1 DEF Start, InvShape, WellFormed, WriterIdle, WritesAt, Running, Finalizing
<1>3. InvChunks'
  BY <1>1 DEF Start, InvShape, InvChunks, Live
<1>4. InvSnapshots'
  BY <1>1, EmptySeq DEF Start, InvShape, InvSnapshots, WriterIdle, Running
<1>5. InvStore' /\ InvMarks'
  BY <1>1 DEF Start, InvStore, InvMarks, ClaimHolds, WritesAt, Active, Running, Finalizing
<1>6. InvDest'
  BY DEF Start, InvDest, FinalSettles, Whole, WritesAt
<1> QED BY <1>2, <1>3, <1>4, <1>5, <1>6

LEMMA SafeCancel ==
  ASSUME TypeOK, TypeOK', SafeInv, Cancel \/ ChangeSource PROVE SafeInv'
<1> USE TransferAssumption DEF SafeInv, files, disk, attempt, marks, lanes, writer
<1>1. UNCHANGED <<part, dest, store, loose, late, phase, rver, rcs, bits, queue, lane, tasks, sent,
                  moved, snap, ckq, saving>>
  BY DEF Cancel, ChangeSource
<1>2. InvShape' /\ InvChunks' /\ InvSnapshots'
  BY <1>1 DEF InvShape, InvChunks, InvSnapshots, Claim, WellFormed, WriterIdle, WritesAt, Chunks, Size
<1>3. InvStore' /\ InvMarks' /\ InvDest'
  BY <1>1, SamePartWrites, SameDestWrites DEF WritesAt
<1> QED BY <1>2, <1>3

(* The part is deleted or truncated behind the engine's back: the stored   *)
(* checkpoint stays true, or the part's length gives it away.              *)
LEMMA SafeLosePart ==
  ASSUME TypeOK, TypeOK', SafeInv, LosePart PROVE SafeInv'
<1> USE TransferAssumption DEF SafeInv, attempt, marks, lanes, writer
<1>1. phase = "idle" /\ phase' = "idle" /\ part.len >= 0
  BY DEF LosePart
<1>2. WritesAt("dest")' = WritesAt("dest") /\ WritesAt("part")' = {} /\ loose' \subseteq loose
  BY DEF LosePart, WritesAt
<1>3. InvDest'
  BY <1>2, SameDestWrites DEF LosePart
<1>4. InvChunks' /\ InvMarks' /\ InvSnapshots'
  BY <1>1 DEF LosePart, InvChunks, InvMarks, InvSnapshots, Claim, Active, Running, Finalizing
<1>5. WellFormed(part')
  <2>1. CASE part' = NoFile
    BY <2>1 DEF WellFormed, NoFile
  <2>2. ASSUME NEW n \in 0 .. (part.len - 1), part' = Cut(part, n) PROVE WellFormed(part')
    BY <2>2 DEF WellFormed, Cut
  <2> QED BY <2>1, <2>2 DEF LosePart
<1>6. InvShape'
  BY <1>1, <1>2, <1>5 DEF LosePart, InvShape, WellFormed, WriterIdle, Running, Finalizing
<1>7. InvStore'
  <2>1. CASE part' = NoFile
    BY <1>1, <1>2, <2>1, StoreWithoutPart DEF LosePart, Active, Running, Finalizing
  <2>2. ASSUME NEW n \in 0 .. (part.len - 1), part' = Cut(part, n), UNCHANGED loose PROVE InvStore'
    <3> DEFINE required == required_part_size(store.bits, store.cs, SourceSize[store.ver])
    <3> SUFFICES ASSUME store # NoSidecar PROVE InvStore'
      BY <1>1 DEF LosePart, InvStore
    <3>1. store \in Sidecar /\ store.ver \in Versions
      BY DEF TypeOK, Snapshots, Sidecar
    <3>2. /\ required \in Nat \ {0}
          /\ \A c \in store.bits : \A b \in ChunkSpan(c, store.cs, SourceSize[store.ver]) :
               b < required
      BY <3>1, StoreNeedsPart DEF InvStore
    <3>3. store.cs \in ChunkSizes /\ store.bits \subseteq Blocks /\ part.len \in Int
      BY <3>1 DEF Sidecar, TypeOK, File
    <3> HIDE DEF required
    <3>4. CASE n < required
      <4>1. part'.len < required
        BY <2>2, <3>4 DEF Cut
      <4> QED BY <1>1, <1>2, <4>1 DEF LosePart, InvStore, Active, Running, Finalizing, required
    <3>5. CASE required <= n
      <4>1. ~(part.len < required)
        BY <2>2, <3>2, <3>3, <3>5
      <4>2. ClaimIn(part, loose, store.bits, store.cs, store.ver)
        BY <4>1 DEF InvStore, ClaimHolds, required
      <4>3. ASSUME NEW c \in store.bits, NEW b \in ChunkSpan(c, store.cs, SourceSize[store.ver])
            PROVE  HoldsIn(part', loose', b, store.ver)
        <5>1. b \in Blocks /\ b \in 0 .. (SourceSize[store.ver] - 1)
          BY <3>1, <3>3, SpanInBlocks, SizeBound
        <5>2. HoldsIn(part, loose, b, store.ver) /\ b < required
          BY <3>2, <4>2 DEF ClaimIn
        <5>3. b < n
          BY <2>2, <3>2, <3>5, <5>1, <5>2 DEF Blocks
        <5>4. part'.data[b] = part.data[b]
          BY <2>2, <5>1, <5>3 DEF Cut
        <5> QED BY <2>2, <5>2, <5>4 DEF HoldsIn
      <4>4. ClaimIn(part', loose', store.bits, store.cs, store.ver)
        BY <4>3 DEF ClaimIn
      <4> QED BY <1>1, <1>2, <4>4 DEF LosePart, InvStore, ClaimHolds, Active, Running, Finalizing
    <3> QED BY <2>2, <3>2, <3>4, <3>5
  <2> QED BY <2>1, <2>2 DEF LosePart
<1> QED BY <1>3, <1>4, <1>6, <1>7

(* The application dies: what it was saving may or may not be there, and   *)
(* requests it had sent still reach the server.                            *)
LEMMA SafeCrash ==
  ASSUME TypeOK, TypeOK', SafeFaults, SafeInv, Crash PROVE SafeInv'
<1> USE TransferAssumption DEF SafeInv, files, attempt
<1>1. /\ phase' = "idle" /\ part' = part /\ dest' = dest /\ rver' = rver /\ late' = {}
      /\ bits' = {} /\ queue' = {} /\ sent' = {} /\ moved' = {} /\ ckq' = <<>>
      /\ saving' = NoSidecar
  BY DEF Crash, Return
<1>2. \A l \in Lanes : lane'[l] = "off" /\ tasks'[l] = {} /\ snap'[l] = NoSidecar
  BY DEF Crash, LanesAt, NoTasks, NoSnaps
<1>3. /\ loose \subseteq loose'
      /\ \A x \in loose' \ loose :
           \E b \in sent : x = [by |-> NoLane, at |-> "part", off |-> b, ver |-> rver]
  <2>1. CASE Direction = "upload"
    BY <2>1 DEF Crash
  <2>2. CASE Direction = "download"
    BY <2>2 DEF Crash, SafeFaults
  <2> QED BY <2>1, <2>2
<1>4. sent # {} => phase = "run"
  BY DEF InvShape
<1>5. \A x \in loose' \ loose :
        phase = "run" /\ x.at = "part" /\ x.off < SourceSize[rver] /\ x.ver = rver
  <2>1. \A b \in sent : b < SourceSize[rver]
    BY <1>4, SizesTyped DEF InvChunks, Size, TypeOK
  <2> QED BY <1>3, <1>4, <2>1
<1>6. KeepsWrites /\ AddsOwnWrites
  BY <1>3, <1>5 DEF KeepsWrites, AddsOwnWrites
<1>7. InvDest'
  BY <1>1, <1>6, WritesKeepDest
<1>8. \A v : KeepsBlocks(v)
  BY <1>1, <1>6, WritesKeepBlocks
<1>9. InvShape'
  <2>1. \A w \in loose' : w.at # "failed" /\ w.off < SourceSize[w.ver]
    BY <1>5 DEF InvShape
  <2> QED BY <1>1, <1>2, <2>1 DEF InvShape, WellFormed, WriterIdle, Running, Finalizing
<1>10. InvChunks' /\ InvMarks'
  BY <1>1 DEF InvChunks, InvMarks, Active, Running, Finalizing
<1>11. InvSnapshots'
  BY <1>1, <1>2, EmptySeq DEF InvSnapshots
<1>12. \A x \in WritesAt("part")' : x \in WritesAt("part") \/ (phase = "run" /\ x.ver = rver)
  BY <1>5 DEF WritesAt
<1>13. ASSUME NEW s \in Sidecar, ClaimHolds(s.bits, s.cs, s.ver) PROVE ClaimHolds(s.bits, s.cs, s.ver)'
  <2>1. s.ver \in Versions /\ s.cs \in ChunkSizes /\ s.bits \in SUBSET Blocks
    BY DEF Sidecar
  <2>2. ClaimIn(part', loose', s.bits, s.cs, s.ver)
    BY <1>8, <1>13, <2>1, ClaimKept DEF KeepsBlocks, Holds, ClaimHolds
  <2> QED BY <2>2 DEF ClaimHolds
<1>14. ASSUME NEW s \in Sidecar, store' = s, s.bits # {},
              s.bits \subseteq ChunkIndices(SourceSize[s.ver], s.cs),
              \A w \in WritesAt("part")' : w.ver = s.ver,
              \/ ClaimHolds(s.bits, s.cs, s.ver)'
              \/ WritesAt("part")' = {}
                   /\ part'.len < required_part_size(s.bits, s.cs, SourceSize[s.ver])
       PROVE  InvStore'
  BY <1>1, <1>14 DEF InvStore, Active, Running, Finalizing
<1>15. InvStore'
  <2>1. CASE store' = NoSidecar
    BY <1>1, <2>1 DEF InvStore
  <2>2. CASE store' = store /\ store # NoSidecar
    <3>1. store \in Sidecar
      BY <2>2 DEF TypeOK, Snapshots
    <3>2. \A w \in WritesAt("part")' : w.ver = store.ver
      BY <1>12, <2>2 DEF InvStore, Claim, Active, Running
    <3>3. CASE ClaimHolds(store.bits, store.cs, store.ver)
      BY <1>13, <1>14, <2>2, <3>1, <3>2, <3>3 DEF InvStore
    <3>4. CASE ~ClaimHolds(store.bits, store.cs, store.ver)
      <4>1. WritesAt("part")' = {}
        BY <1>12, <2>2, <3>4 DEF InvStore, Active, Running
      <4> QED BY <1>1, <1>14, <2>2, <3>1, <3>2, <3>4, <4>1 DEF InvStore
    <3> QED BY <3>3, <3>4
  <2>3. CASE store' = saving /\ saving # NoSidecar
    <3>1. saving \in Sidecar /\ Claim(saving) /\ phase \in Active
      BY <2>3 DEF TypeOK, Snapshots, InvSnapshots, InvShape, WriterIdle, Active
    <3>2. /\ saving.bits # {}
          /\ saving.bits \subseteq ChunkIndices(SourceSize[saving.ver], saving.cs)
          /\ \A w \in WritesAt("part") : w.ver = saving.ver
          /\ ClaimHolds(saving.bits, saving.cs, saving.ver)
      BY <3>1, ClaimIsTrue DEF Snapshots
    <3>3. \A w \in WritesAt("part")' : w.ver = saving.ver
      BY <1>12, <3>1, <3>2 DEF Claim
    <3> QED BY <1>13, <1>14, <2>3, <3>1, <3>2, <3>3
  <2>4. CASE phase \in {"discard_sidecar", "remove_sidecar"} /\ store' \in Leftovers \ {NoSidecar}
    <3>1. part' = NoFile /\ WritesAt("part")' = {}
      BY <1>1, <1>12, <2>4 DEF InvShape
    <3>2. /\ store' \in Sidecar /\ store'.bits # {}
          /\ store'.bits \subseteq ChunkIndices(SourceSize[store'.ver], store'.cs)
      BY <2>4 DEF Leftovers
    <3>3. required_part_size(store'.bits, store'.cs, SourceSize[store'.ver]) \in Nat \ {0}
      BY <3>2, StoreNeedsPart
    <3>4. part'.len < required_part_size(store'.bits, store'.cs, SourceSize[store'.ver])
      BY <3>1, <3>3 DEF NoFile
    <3> QED BY <1>14, <3>1, <3>2, <3>4
  <2> QED BY <2>1, <2>2, <2>3, <2>4 DEF Crash
<1> QED BY <1>7, <1>9, <1>10, <1>11, <1>15

(* No checkpoint writer comes to life in a transfer without checkpoints. *)
LEMMA WriterNext ==
  ASSUME TypeOK, InvShape, InvWriter, Next PROVE InvWriter'
<1> USE TransferAssumption DEF InvWriter, WriterIdle, Checkpointing, Size, files, disk, attempt, marks,
                              lanes, writer
<1>1. CASE BeginLanes
  BY <1>1 DEF BeginLanes, InvShape, LanesAt, Running
<1>2. CASE LanesEnd
  BY <1>2 DEF LanesEnd, Return, LanesAt, Running
<1>3. CASE Flush \/ FlushTimeout \/ DrainAndVerify
  BY <1>3 DEF Flush, FlushTimeout, DrainAndVerify, Return, Running
<1>4. CASE SetupFails \/ LoadCheckpoint \/ StartClean \/ CheckPart \/ DiscardPart \/ DiscardSidecar
             \/ BeginComplete \/ Finish \/ FinishTimeout \/ Rename \/ RenameRefused \/ RemoveDest
             \/ RetryRefused \/ RemoveSidecar \/ Start \/ Crash
  <2>1. phase' \notin Running
    BY <1>4 DEF SetupFails, LoadCheckpoint, StartClean, CheckPart, DiscardPart, DiscardSidecar,
           BeginComplete, Finish, FinishTimeout, Rename, RenameRefused, RemoveDest, RetryRefused,
           RemoveSidecar, Start, Crash, Return, Running
  <2> QED BY <2>1 DEF Running
<1>5. CASE WriterStep
  <2>1. phase \in Running => Checkpointing
    BY <1>5 DEF WriterStep, WriterReceives, WriterSaves, WriterFails
  <2> QED BY <1>5, <2>1 DEF WriterStep, WriterReceives, WriterSaves, WriterFails, Running
<1>6. ASSUME NEW l \in Lanes, LaneStep(l) PROVE InvWriter'
  <2>1. phase = "run" /\ phase' = "run" /\ rver' = rver /\ rcs' = rcs
    BY <1>6 DEF LaneStep, LaneOpens, LaneCannotOpen, PopChunk, StopFilling, LaneCancelled,
           Request, UploadAck, DownloadReply, TaskFails, ChunkDone, HandOff, LaneFinishes,
           AbortLane, InvShape, Live
  <2>2. ASSUME ~Checkpointing
        PROVE  UNCHANGED <<ckq, saving>> /\ \A m \in Lanes : lane'[m] # "handoff"
    <3>1. WriterIdle /\ \A m \in Lanes : lane[m] # "handoff"
      BY <2>1, <2>2 DEF Running
    <3>2. CASE LaneCannotOpen(l) \/ LaneCancelled(l) \/ TaskFails(l) \/ LaneFinishes(l)
                 \/ AbortLane(l)
      BY <3>1, <3>2 DEF LaneCannotOpen, LaneCancelled, TaskFails, LaneFinishes, AbortLane,
             LaneEnds, TypeOK
    <3>3. CASE LaneOpens(l) \/ PopChunk(l) \/ StopFilling(l)
      BY <3>1, <3>3 DEF LaneOpens, PopChunk, StopFilling, TypeOK
    <3>4. ASSUME NEW c \in tasks[l], NEW b \in Blocks,
                 Request(l, c, b) \/ UploadAck(l, c, b) \/ DownloadReply(l, c, b)
          PROVE  UNCHANGED <<ckq, saving, lane>>
      BY <3>4 DEF Request, UploadAck, DownloadReply
    <3>5. ASSUME NEW c \in tasks[l], NEW due \in BOOLEAN, ChunkDone(l, c, due)
          PROVE  UNCHANGED <<ckq, saving>> /\ \A m \in Lanes : lane'[m] # "handoff"
      <4>1. ~due
        BY <2>2, <3>5 DEF ChunkDone
      <4> QED BY <3>1, <3>5, <4>1 DEF ChunkDone, TypeOK
    <3>6. ~HandOff(l)
      BY <3>1 DEF HandOff
    <3> QED BY <1>6, <3>1, <3>2, <3>3, <3>4, <3>5, <3>6 DEF LaneStep
  <2> QED BY <2>1, <2>2 DEF Running
<1>7. ASSUME \/ \E w \in loose : Lands(w) \/ LocalWriteFails(w)
             \/ \E w \in late : LateSave(w)
             \/ Cancel \/ ChangeSource \/ LosePart
      PROVE  InvWriter'
  <2>1. UNCHANGED <<phase, rver, rcs, ckq, saving, lane>>
    BY <1>7 DEF Lands, LocalWriteFails, LateSave, Cancel, ChangeSource, LosePart
  <2> QED BY <2>1
<1> QED BY <1>1, <1>2, <1>3, <1>4, <1>5, <1>6, <1>7 DEF Next, EngineStep, ControlStep

(* What has been delivered stays so until the next attempt starts. *)
LEMMA DeliveryNext ==
  ASSUME TypeOK, TypeOK', SafeFaults, SafeInv, InvDelivery, Next PROVE InvDelivery'
<1> USE TransferAssumption DEF SafeInv, files, disk, attempt, marks, lanes, writer, Return
<1>1. CASE Rename
  <2>1. /\ dest' = part /\ part' = NoFile /\ phase \in Finalizing /\ phase' = "remove_sidecar"
        /\ rver' = rver /\ Size' = Size
    BY <1>1 DEF Rename, Finalizing, Size
  <2>2. \A x \in loose' : /\ x.at = "dest"
                          /\ \E w \in WritesAt("part") : w.off = x.off /\ w.ver = x.ver
    <3>1. ASSUME NEW x \in loose'
          PROVE  /\ x.at = "dest"
                 /\ \E w \in WritesAt("part") : w.off = x.off /\ w.ver = x.ver
      <4>1. PICK w \in loose : w.at # "dest" /\ x = [w EXCEPT !.at = IF @ = "part" THEN "dest" ELSE @]
        BY <1>1 DEF Rename
      <4>2. w.at = "part"
        BY <4>1 DEF InvShape, TypeOK
      <4>3. x.at = "dest" /\ x.off = w.off /\ x.ver = w.ver
        BY <4>1, <4>2 DEF TypeOK
      <4> QED BY <4>2, <4>3 DEF WritesAt
    <3> QED BY <3>1
  <2>3. \A w \in WritesAt("part") :
          \E x \in loose' : x.at = "dest" /\ x.off = w.off /\ x.ver = w.ver
    <3>1. ASSUME NEW w \in WritesAt("part")
          PROVE  \E x \in loose' : x.at = "dest" /\ x.off = w.off /\ x.ver = w.ver
      <4>1. [w EXCEPT !.at = IF @ = "part" THEN "dest" ELSE @] \in loose'
        BY <1>1 DEF Rename, WritesAt
      <4>2. /\ [w EXCEPT !.at = IF @ = "part" THEN "dest" ELSE @].at = "dest"
            /\ [w EXCEPT !.at = IF @ = "part" THEN "dest" ELSE @].off = w.off
            /\ [w EXCEPT !.at = IF @ = "part" THEN "dest" ELSE @].ver = w.ver
        BY DEF WritesAt, TypeOK
      <4> QED BY <4>1, <4>2
    <3> QED BY <3>1
  <2>4. part.len <= Size /\ \A w \in WritesAt("part") : w.ver = rver
    BY <2>1 DEF InvMarks, Active
  <2>5. \A b \in 0 .. (Size - 1) : Holds(b, rver)
    BY <2>1, AllMarked DEF InvShape
  <2>6. \A b \in 0 .. (Size - 1) :
          dest'.data[b] = rver \/ \E x \in loose' : x.at = "dest" /\ x.off = b /\ x.ver = rver
    BY <2>1, <2>3, <2>5 DEF Holds, HoldsIn, WritesAt
  <2>7. WritesAt("part")' = {} /\ \A x \in WritesAt("dest")' : x.ver = rver
    BY <2>2, <2>4 DEF WritesAt
  <2> QED BY <2>1, <2>4, <2>6, <2>7 DEF InvDelivery, Delivered
<1>2. CASE RemoveSidecar
  <2>1. UNCHANGED <<part, dest, loose, rver>> /\ phase = "remove_sidecar" /\ store' = NoSidecar
    BY <1>2 DEF RemoveSidecar, SafeFaults
  <2> QED BY <2>1 DEF InvDelivery, Delivered, WritesAt, Size
<1>3. ASSUME NEW w \in loose, Lands(w) PROVE InvDelivery'
  <2>1. UNCHANGED <<phase, result, rver, store>> /\ loose' = loose \ {w}
    BY <1>3 DEF Lands
  <2> SUFFICES ASSUME Delivered PROVE Delivered'
    BY <2>1 DEF InvDelivery
  <2>2. w.at = "dest" /\ w.ver = rver /\ w.off < Size
    <3>1. w.at = "dest"
      BY <1>3 DEF Lands, Delivered, WritesAt
    <3> QED BY <3>1 DEF Delivered, WritesAt, InvShape, Size
  <2>3. part' = part /\ dest' = Write(dest, w.off, rver)
    BY <1>3, <2>2 DEF Lands
  <2>4. Size \in Nat /\ w.off \in Nat /\ w.off \in Blocks /\ dest \in File
    BY SizesTyped DEF TypeOK, Size, Blocks
  <2>5. dest'.len <= Size
    BY <2>2, <2>3, <2>4 DEF Write, MaxOf, Delivered, File
  <2>6. \A b \in Blocks : dest'.data[b] = IF b = w.off THEN rver ELSE dest.data[b]
    BY <2>3, <2>4 DEF Write, File
  <2>7. \A b \in 0 .. (Size - 1) : b \in Blocks
    BY SizeBound DEF TypeOK, Size
  <2>8. \A b \in 0 .. (Size - 1) :
          dest'.data[b] = rver \/ \E x \in loose' : x.at = "dest" /\ x.off = b /\ x.ver = rver
    BY <2>1, <2>6, <2>7 DEF Delivered
  <2> QED BY <2>1, <2>3, <2>5, <2>8 DEF Delivered, WritesAt, Size
<1>4. ASSUME phase' \notin {"idle", "remove_sidecar"} PROVE InvDelivery'
  BY <1>4 DEF InvDelivery
<1>5. ASSUME phase' = "idle", result' # "ok" PROVE InvDelivery'
  BY <1>5 DEF InvDelivery
<1>6. CASE SetupFails \/ LanesEnd \/ Finish \/ DrainAndVerify \/ RetryRefused \/ Crash
  BY <1>4, <1>5, <1>6 DEF SetupFails, LanesEnd, Finish, DrainAndVerify, RetryRefused, Crash
<1>7. CASE Start \/ LoadCheckpoint \/ StartClean \/ CheckPart \/ DiscardPart \/ DiscardSidecar
             \/ BeginComplete \/ BeginLanes \/ Flush \/ RenameRefused \/ RemoveDest \/ Cancel
  BY <1>4, <1>7 DEF Start, LoadCheckpoint, StartClean, CheckPart, DiscardPart, DiscardSidecar,
         BeginComplete, BeginLanes, Flush, RenameRefused, RemoveDest, Cancel
<1>8. CASE FlushTimeout \/ FinishTimeout
  BY <1>8 DEF FlushTimeout, FinishTimeout, SafeFaults
<1>9. ASSUME NEW l \in Lanes, LaneStep(l) PROVE InvDelivery'
  <2>1. phase = "run" /\ phase' = "run"
    BY <1>9 DEF LaneStep, LaneOpens, LaneCannotOpen, PopChunk, StopFilling, LaneCancelled, Request,
           UploadAck, DownloadReply, TaskFails, ChunkDone, HandOff, LaneFinishes, AbortLane,
           InvShape, Live
  <2> QED BY <1>4, <2>1
<1>10. CASE WriterStep
  <2>1. phase \in Running /\ phase' = phase
    BY <1>10 DEF WriterStep, WriterReceives, WriterSaves, WriterFails, WriterIdle, InvShape
  <2> QED BY <1>4, <2>1 DEF Running
<1>11. CASE ChangeSource
  BY <1>11 DEF ChangeSource, InvDelivery, Delivered, WritesAt, Size
<1>12. CASE LosePart
  <2>1. phase = "idle" /\ phase' = "idle" /\ result' = result
    BY <1>12 DEF LosePart
  <2>2. part # NoFile
    BY <1>12 DEF LosePart, NoFile
  <2> QED BY <2>1, <2>2 DEF InvDelivery, Delivered
<1>13. ASSUME NEW w \in loose PROVE ~LocalWriteFails(w)
  BY DEF LocalWriteFails, SafeFaults
<1>14. late = {}
  BY DEF InvShape
<1> QED BY <1>1, <1>2, <1>3, <1>6, <1>7, <1>8, <1>9, <1>10, <1>11, <1>12, <1>13, <1>14
        DEF Next, EngineStep, ControlStep

LEMMA InductiveInit == Init => InductiveInv
<1>1. Init => InvWriter /\ InvDelivery
  BY DEF Init, InvWriter, Running, InvDelivery
<1> QED BY <1>1, SafeInit, WorkInit DEF InductiveInv

LEMMA SafeNext ==
  ASSUME SafeFaults, TypeOK, TypeOK', SafeInv, InvWriter, Next PROVE SafeInv'
<1>1. CASE ControlStep
  BY <1>1, SafeBegin, SafeAfter DEF ControlStep
<1>2. CASE WriterStep
  BY <1>2, SafeWriter
<1>3. ASSUME NEW l \in Lanes, LaneStep(l) PROVE SafeInv'
  BY <1>3, SafeLane
<1>4. ASSUME NEW w \in loose, Lands(w) PROVE SafeInv'
  BY <1>4, SafeLands
<1>5. ASSUME NEW w \in loose PROVE ~LocalWriteFails(w)
  BY DEF LocalWriteFails, SafeFaults
<1>6. late = {}
  BY DEF SafeInv, InvShape
<1>7. CASE Start \/ Cancel \/ ChangeSource \/ LosePart \/ Crash
  BY <1>7, SafeStart, SafeCancel, SafeLosePart, SafeCrash
<1> QED BY <1>1, <1>2, <1>3, <1>4, <1>5, <1>6, <1>7 DEF Next, EngineStep

LEMMA InductiveNext ==
  ASSUME SafeFaults, TypeOK, TypeOK', InductiveInv, [Next]_vars PROVE InductiveInv'
<1> USE DEF InductiveInv
<1>1. InvWork'
  BY WorkNext
<1>2. CASE UNCHANGED vars
  <2>1. UNCHANGED <<part, dest, store, loose, late, phase, result, rver, rcs, bits, queue, lane,
                    tasks, sent, moved, snap, ckq, saving>>
    BY <1>2 DEF vars
  <2>2. InvShape' /\ InvChunks' /\ InvSnapshots'
    BY <2>1 DEF SafeInv, InvShape, InvChunks, InvSnapshots, Claim, WellFormed, WriterIdle,
           WritesAt, Chunks, Size
  <2>3. InvStore' /\ InvMarks' /\ InvDest'
    BY <2>1, SamePartWrites, SameDestWrites DEF SafeInv, WritesAt
  <2>4. InvWriter' /\ InvDelivery'
    BY <2>1 DEF InvWriter, InvDelivery, Delivered, WritesAt, WriterIdle, Checkpointing, Size
  <2> QED BY <1>1, <2>2, <2>3, <2>4 DEF SafeInv
<1>3. CASE Next
  <2>1. InvWriter'
    BY <1>3, WriterNext DEF SafeInv
  <2>2. SafeInv' /\ InvDelivery'
    BY <1>3, SafeNext, DeliveryNext
  <2> QED BY <1>1, <2>1, <2>2
<1> QED BY <1>2, <1>3

(* InductiveInv, what carries the safety of a transfer from one attempt to *)
(* the next, holds throughout, as long as the store and the disk do what   *)
(* they are told.                                                          *)
THEOREM Safe == ASSUME SafeFaults PROVE Spec => []InductiveInv
<1>1. TypeOK /\ TypeOK' /\ InductiveInv /\ [Next]_vars => InductiveInv'
  BY InductiveNext
<1> QED BY <1>1, InductiveInit, TypeCorrect, PTL DEF Spec

(* MarkedIsStored: chunk data is only ever marked after it was             *)
(* acknowledged, in the bitmap of lane_worker and in one read back from a  *)
(* sidecar.                                                                *)
THEOREM MarkedChunksAreStored == ASSUME SafeFaults PROVE Spec => []MarkedIsStored
<1>1. InductiveInv => MarkedIsStored
  BY DEF InductiveInv, SafeInv, InvMarks, MarkedIsStored, Active, Running
<1> QED BY <1>1, Safe, PTL

(* CheckpointIsTrue: a sidecar that part_covers_completed would let pass   *)
(* claims only blocks the part holds, after every crash, loss of the part  *)
(* and change of the source.                                               *)
THEOREM CheckpointsAreTrue == ASSUME SafeFaults PROVE Spec => []CheckpointIsTrue
<1>1. TypeOK /\ InductiveInv => CheckpointIsTrue
  <2> SUFFICES ASSUME TypeOK, InductiveInv, store # NoSidecar,
                      required_part_size(store.bits, store.cs, SourceSize[store.ver]) <= part.len
               PROVE  ClaimHolds(store.bits, store.cs, store.ver)
    BY DEF CheckpointIsTrue
  <2>1. store \in Sidecar
    BY DEF TypeOK, Snapshots
  <2>2. required_part_size(store.bits, store.cs, SourceSize[store.ver]) \in Nat \ {0}
    BY <2>1, StoreNeedsPart DEF InductiveInv, SafeInv, InvStore
  <2>3. part.len \in Int
    BY DEF TypeOK, File
  <2> QED BY <2>2, <2>3 DEF InductiveInv, SafeInv, InvStore
<1> QED BY <1>1, Safe, TypeCorrect, PTL

(* FinalIsWhole: the final path of an upload never exposes a half-written  *)
(* file.                                                                   *)
THEOREM UploadsAreWhole ==
  ASSUME SafeFaults, Direction = "upload" PROVE Spec => []FinalIsWhole
<1>1. InductiveInv => FinalIsWhole
  BY DEF InductiveInv, SafeInv, InvDest, FinalIsWhole
<1> QED BY <1>1, Safe, PTL

(* FinalSettles: the final path of a transfer becomes one whole version of *)
(* the source as soon as the local writes under way have landed.           *)
THEOREM TransfersSettle == ASSUME SafeFaults PROVE Spec => []FinalSettles
<1>1. InductiveInv => FinalSettles
  BY DEF InductiveInv, SafeInv, InvDest
<1> QED BY <1>1, Safe, PTL

(* SuccessIsDelivery: an attempt that reports success has put the source   *)
(* it started from at the final path, up to local writes on their way, and *)
(* has left neither part nor sidecar, whatever happens until the next one. *)
THEOREM SuccessDelivers == ASSUME SafeFaults PROVE Spec => []SuccessIsDelivery
<1>1. InductiveInv => SuccessIsDelivery
  BY DEF InductiveInv, InvDelivery, Delivered, SuccessIsDelivery
<1> QED BY <1>1, Safe, PTL

(* NoStaleTail: what discard_partial is there for - the delivered file is  *)
(* no longer than its source, whatever part an earlier attempt had left.   *)
THEOREM NoTailIsStale == ASSUME SafeFaults PROVE Spec => []NoStaleTail
<1>1. InductiveInv => NoStaleTail
  BY DEF InductiveInv, InvDelivery, Delivered, NoStaleTail
<1> QED BY <1>1, Safe, PTL

(* ChunksAccounted: the lanes share the queue without losing or repeating  *)
(* a chunk, and none has gone missing as long as no lane has failed.       *)
THEOREM LanesShareTheWork == ASSUME SafeFaults PROVE Spec => []ChunksAccounted
<1>1. InductiveInv => ChunksAccounted
  <2> SUFFICES ASSUME InductiveInv, phase = "run"
               PROVE  /\ queue \cap (bits \cup Windows) = {} /\ bits \cap Windows = {}
                      /\ \A l, m \in Lanes : l # m => tasks[l] \cap tasks[m] = {}
                      /\ (\A l \in Lanes : lane[l] \notin {"err", "aborted"}) =>
                           queue \cup bits \cup Windows = Chunks
    BY DEF ChunksAccounted, Windows
  <2>1. queue \cup bits \cup Windows \subseteq Chunks
    BY DEF InductiveInv, SafeInv, InvChunks, Windows
  <2> QED BY <2>1 DEF InductiveInv, InvWork
<1> QED BY <1>1, Safe, PTL
=============================================================================
