---------------------------- MODULE SftpTransfer ----------------------------
(***************************************************************************)
(* The resumable, chunked, parallel SFTP transfer engine                   *)
(* (sftp/internal/transfer): one destination path, transferred by a series *)
(* of attempts of run_transfer, with the part file, the checkpoint sidecar *)
(* and its background writer, the lanes and their pipelined chunk tasks,   *)
(* cancellation, request failures and crashes of the application.          *)
(*                                                                         *)
(* Data.  A block is what one wire request moves.  The source is one of    *)
(* Versions; a file is a length and the version each block came from, Hole *)
(* where nothing was written.  Two versions have different fingerprints    *)
(* (size and mtime), and the source changes between attempts only.         *)
(* The sidecar is an atomic register here: CheckpointRegister, which       *)
(* SidecarStore implements.                                                *)
(***************************************************************************)
EXTENDS ChunkMath, FiniteSets, Sequences

CONSTANTS
  Direction,    \* "upload" or "download"
  Versions,     \* versions of the source file
  SourceSize,   \* blocks of each version
  MaxSize,      \* bound on the blocks of a file
  ChunkSizes,   \* what effective_chunk_size may return, in blocks
  Lanes,        \* parallel lanes
  Window,       \* pipeline_window: chunk tasks one lane keeps in flight
  Capacity,     \* CHECKPOINT_QUEUE_CAPACITY
  MaxAttempts,  \* bound on the calls of run_transfer
  Faults        \* what may go wrong, see FaultKinds

FaultKinds ==
  { "crash",      \* the application dies at any point
    "quiet",      \* the application dies while no local write is deferred
    "request",    \* an open, read or write request of a lane fails
    "save",       \* saving the checkpoint fails
    "load",       \* reading the checkpoint or the part's size fails
    "rename",     \* the second rename of finalize fails too
    "unlink",     \* the part cannot be removed, only truncated
    "truncate",   \* for now it can be neither removed nor truncated
    "sidecar",    \* removing the sidecar fails, silently
    "stall",      \* the store is slower than CHECKPOINT_TEARDOWN_TIMEOUT
    "lost",       \* the part is deleted or truncated while nothing runs
    "disk" }      \* a deferred local write fails

Hole == 0
NoLane == "none"
Blocks == 0 .. (MaxSize - 1)

ASSUME TransferAssumption ==
  /\ Direction \in {"upload", "download"}
  /\ MaxSize \in Nat
  /\ Hole \notin Versions /\ Versions # {}
  /\ SourceSize \in [Versions -> 0 .. MaxSize]
  /\ ChunkSizes \subseteq Nat \ {0}
  /\ Lanes # {} /\ NoLane \notin Lanes
  /\ Window \in Nat \ {0}
  /\ Capacity \in Nat \ {0}
  /\ MaxAttempts \in Nat
  /\ Faults \subseteq FaultKinds

VARIABLES
  src,       \* the version of the source now
  part,      \* <final>.tterm.part
  dest,      \* the final path
  store,     \* what SidecarStore::load would read
  loose,     \* writes under way that no chunk task waits for
  late,      \* detached checkpoint writers of earlier attempts
  phase,     \* where run_transfer is
  rver, rcs, \* the attempt's source version and chunk size
  result,    \* outcome of the last attempt
  attempts,
  bits,      \* SidecarState.bits: the chunks marked complete
  persisted, \* SidecarState.persisted_chunks
  queue,     \* LaneShared.queue: chunks nobody has taken
  lane,      \* where each lane_worker is
  tasks,     \* the chunks in each lane's window
  sent,      \* blocks whose request awaits its answer
  moved,     \* blocks this attempt's chunk tasks have got past
  snap,      \* a snapshot between the state's lock and try_send
  ckq,       \* the checkpoint writer's channel
  saving,    \* the snapshot the checkpoint writer is saving
  cancel

files == <<src, part, dest>>
disk == <<part, dest, store>>
attempt == <<rver, rcs, attempts>>
marks == <<bits, persisted>>
lanes == <<queue, lane, tasks, sent, moved, snap>>
writer == <<ckq, saving>>
vars == <<src, part, dest, store, loose, late, phase, rver, rcs, result, attempts,
          bits, persisted, queue, lane, tasks, sent, moved, snap, ckq, saving, cancel>>

-----------------------------------------------------------------------------
(* Files *)

NoFile == [len |-> -1, data |-> [b \in Blocks |-> Hole]]
EmptyFile == [len |-> 0, data |-> [b \in Blocks |-> Hole]]
File == [len : -1 .. MaxSize, data : [Blocks -> Versions \cup {Hole}]]

Create(f) == IF f.len < 0 THEN EmptyFile ELSE f

WriteAppends(f, b, v) ==                                             \* mutant
  [len |-> f.len + b + 1, data |-> [f.data EXCEPT ![b] = v]]

Write(f, b, v) == [len |-> MaxOf(f.len, b + 1), data |-> [f.data EXCEPT ![b] = v]]
Cut(f, n) == [len |-> n, data |-> [b \in Blocks |-> IF b < n THEN f.data[b] ELSE Hole]]

(* f is version v of the source, whole. *)
Whole(f, v) == /\ f.len = SourceSize[v]
               /\ \A b \in 0 .. (SourceSize[v] - 1) : f.data[b] = v

-----------------------------------------------------------------------------
(* The attempt's chunks, and the sidecar *)

Size == SourceSize[rver]
Chunks == ChunkIndices(Size, rcs)
Span(c) == ChunkSpan(c, rcs, Size)
SpanOf(C) == UNION {Span(c) : c \in C}
Checkpointing == chunk_count_for(Size, rcs) > 1

(* The request a chunk task makes next: its steps are sequential. *)
NextBlock(c, b) == /\ b \in Span(c) \ moved
                   /\ \A a \in Span(c) : a < b => a \in moved

NoSidecar == [ver |-> Hole, cs |-> 0, bits |-> {}]
Sidecar == [ver : Versions, cs : ChunkSizes, bits : SUBSET Blocks]
Snapshots == Sidecar \cup {NoSidecar}
Snapshot(B) == [ver |-> rver, cs |-> rcs, bits |-> B]

MatchesAnySource(s) == s # NoSidecar /\ s.cs = rcs                    \* mutant

matches_source(s) == s.ver = rver /\ s.cs = rcs

PartAssumedCovered(B) == TRUE                                        \* mutant

part_covers_completed(B) ==
  LET required == required_part_size(B, rcs, Size)
  IN  required = 0 \/ (required <= part.len /\ part.len <= Size)

NoSnaps == [l \in Lanes |-> NoSidecar]
LanesAt(s) == [l \in Lanes |-> s]
NoTasks == [l \in Lanes |-> {}]
Ended == {"ok", "err", "aborted"}
Live == {"fill", "join", "handoff"}

Init ==
  /\ src \in Versions
  /\ part = NoFile /\ dest = NoFile /\ store = NoSidecar
  /\ loose = {} /\ late = {}
  /\ phase = "idle" /\ rver = src /\ rcs \in ChunkSizes
  /\ result = "none" /\ attempts = 0
  /\ bits = {} /\ persisted = 0
  /\ queue = {} /\ lane = LanesAt("off") /\ tasks = NoTasks
  /\ sent = {} /\ moved = {} /\ snap = NoSnaps
  /\ ckq = <<>> /\ saving = NoSidecar
  /\ cancel = FALSE

-----------------------------------------------------------------------------
(* run_transfer up to its lanes *)

Start ==
  /\ phase = "idle" /\ attempts < MaxAttempts
  /\ rver' = src
  /\ rcs' \in ChunkSizes
  /\ attempts' = attempts + 1
  /\ phase' = "load" /\ result' = "none" /\ cancel' = FALSE
  /\ bits' = {} /\ moved' = {}
  /\ UNCHANGED <<src, disk, loose, late, persisted, queue, lane, tasks, sent, snap, writer>>

Return(r) == phase' = "idle" /\ result' = r

(* The source, the destination's directory or the empty part fails. *)
SetupFails ==
  /\ "request" \in Faults
  /\ phase = "load" \/ (phase = "begin" /\ Chunks \subseteq bits)
  /\ Return("err")
  /\ UNCHANGED <<files, store, loose, late, attempt, marks, lanes, writer, cancel>>

(* A sidecar that matches the source, the destination and the chunk size. *)
LoadCheckpoint ==
  /\ phase = "load" /\ Checkpointing /\ matches_source(store)
  /\ bits' = store.bits /\ phase' = "check"
  /\ UNCHANGED <<files, store, loose, late, attempt, result, persisted, lanes, writer, cancel>>

(* A brand-new transfer, another baseline, one chunk only, or a read error. *)
StartClean ==
  /\ phase = "load"
  /\ Checkpointing /\ matches_source(store) => "load" \in Faults
  /\ phase' = "discard"
  /\ UNCHANGED <<files, store, loose, late, attempt, result, marks, lanes, writer, cancel>>

CheckPart ==
  /\ phase = "check"
  /\ \/ part_covers_completed(bits) /\ phase' = "begin" /\ UNCHANGED bits
     \/ /\ ~part_covers_completed(bits) \/ "load" \in Faults
        /\ phase' = "discard" /\ bits' = {}
  /\ UNCHANGED <<files, store, loose, late, attempt, result, persisted, lanes, writer, cancel>>

(* discard_partial removes the part, so that writes still under way on it  *)
(* go to an unlinked file.  When it cannot, it truncates the part in       *)
(* place, and when that fails too it carries on.                           *)
DiscardPart ==
  /\ phase = "discard" /\ phase' = "discard_sidecar"
  /\ \/ part' = NoFile /\ loose' = {w \in loose : w.at # "part"}
     \/ "unlink" \in Faults /\ part' = EmptyFile /\ UNCHANGED loose
     \/ "truncate" \in Faults /\ UNCHANGED <<part, loose>>
  /\ UNCHANGED <<src, dest, store, late, attempt, result, marks, lanes, writer, cancel>>

SidecarKept ==                                                       \* mutant
  /\ phase = "discard_sidecar" /\ phase' = "begin"
  /\ UNCHANGED <<files, store, loose, late, attempt, result, marks, lanes, writer, cancel>>

DiscardSidecar ==
  /\ phase = "discard_sidecar" /\ phase' = "begin"
  /\ store' \in {NoSidecar} \cup (IF "sidecar" \in Faults THEN {store} ELSE {})
  /\ UNCHANGED <<files, loose, late, attempt, result, marks, lanes, writer, cancel>>

(* Nothing is missing: ensure_part_exists, then finalize without any lane. *)
BeginComplete ==
  /\ phase = "begin" /\ Chunks \subseteq bits
  /\ part' = Create(part) /\ phase' = "rename"
  /\ UNCHANGED <<src, dest, store, loose, late, attempt, result, marks, lanes, writer, cancel>>

BeginLanes ==
  /\ phase = "begin" /\ ~(Chunks \subseteq bits)
  /\ phase' = "run"
  /\ queue' = Chunks \ bits /\ persisted' = Cardinality(bits)
  /\ lane' = LanesAt("open")
  /\ UNCHANGED <<files, store, loose, late, attempt, result, bits, tasks, sent, moved,
                 snap, writer, cancel>>

-----------------------------------------------------------------------------
(* lane_worker *)

(* The lane is over: its chunk tasks are dropped.  An upload's requests    *)
(* reach the server all the same; a download's deferred local write goes   *)
(* on in the thread pool, and nobody will learn of its failure.            *)
LaneEnds(l, how) ==
  LET mine == {w \in loose : w.by = l}
      cutOff == IF Direction = "upload" THEN sent \cap SpanOf(tasks[l]) ELSE {}
  IN  /\ lane' = [lane EXCEPT ![l] = how]
      /\ tasks' = [tasks EXCEPT ![l] = {}]
      /\ sent' = sent \ SpanOf(tasks[l])
      /\ loose' = (loose \ mine)
           \cup {[w EXCEPT !.by = NoLane] : w \in {x \in mine : x.at # "failed"}}
           \cup {[by |-> NoLane, at |-> "part", off |-> b, ver |-> rver] : b \in cutOff}

LaneOpens(l) ==
  /\ lane[l] = "open"
  /\ lane' = [lane EXCEPT ![l] = "fill"]
  /\ part' = Create(part)
  /\ UNCHANGED <<src, dest, store, loose, late, phase, attempt, result, marks, queue, tasks,
                 sent, moved, snap, writer, cancel>>

(* An upload's part may have been created before the source failed to open. *)
LaneCannotOpen(l) ==
  /\ lane[l] = "open" /\ "request" \in Faults
  /\ LaneEnds(l, "err")
  /\ part' \in {part} \cup (IF Direction = "upload" THEN {Create(part)} ELSE {})
  /\ UNCHANGED <<src, dest, store, late, phase, attempt, result, marks, queue, moved, snap,
                 writer, cancel>>

PeekChunk(l) ==                                                      \* mutant
  /\ lane[l] = "fill" /\ ~cancel /\ Cardinality(tasks[l]) < Window
  /\ \E c \in queue : tasks' = [tasks EXCEPT ![l] = @ \cup {c}]
  /\ UNCHANGED <<files, store, loose, late, phase, attempt, result, marks, queue, lane, sent,
                 moved, snap, writer, cancel>>

(* Fill the window from the front of the queue. *)
PopChunk(l) ==
  /\ lane[l] = "fill" /\ ~cancel /\ Cardinality(tasks[l]) < Window
  /\ \E c \in queue :
       /\ \A d \in queue : c <= d
       /\ queue' = queue \ {c}
       /\ tasks' = [tasks EXCEPT ![l] = @ \cup {c}]
  /\ UNCHANGED <<files, store, loose, late, phase, attempt, result, marks, lane, sent, moved,
                 snap, writer, cancel>>

(* The window is full or the queue empty: wait for a chunk task. *)
StopFilling(l) ==
  /\ lane[l] = "fill" /\ ~cancel
  /\ Cardinality(tasks[l]) >= Window \/ queue = {}
  /\ lane' = [lane EXCEPT ![l] = "join"]
  /\ UNCHANGED <<files, store, loose, late, phase, attempt, result, marks, queue, tasks, sent,
                 moved, snap, writer, cancel>>

(* Cancellation is looked at before any completion is drained. *)
LaneCancelled(l) ==
  /\ lane[l] = "fill" /\ cancel
  /\ LaneEnds(l, "err")
  /\ UNCHANGED <<files, store, late, phase, attempt, result, marks, queue, moved, snap,
                 writer, cancel>>

(* upload_chunk, download_chunk: one request per step of the chunk. *)
Request(l, c, b) ==
  /\ lane[l] \in Live /\ c \in tasks[l] /\ ~cancel
  /\ NextBlock(c, b) /\ b \notin sent
  /\ sent' = sent \cup {b}
  /\ UNCHANGED <<files, store, loose, late, phase, attempt, result, marks, queue, lane, tasks,
                 moved, snap, writer, cancel>>

(* The server has written the block and acknowledges it. *)
UploadAck(l, c, b) ==
  /\ Direction = "upload" /\ lane[l] \in Live /\ c \in tasks[l] /\ b \in Span(c) \cap sent
  /\ part' = Write(part, b, rver)
  /\ sent' = sent \ {b} /\ moved' = moved \cup {b}
  /\ UNCHANGED <<src, dest, store, loose, late, phase, attempt, result, marks, queue, lane,
                 tasks, snap, writer, cancel>>

(* The block arrives; write_all on the lane's tokio File hands it to the   *)
(* thread pool and returns.  The File runs one operation at a time, and    *)
(* reports the failure of one at the next.                                 *)
DownloadReply(l, c, b) ==
  /\ Direction = "download" /\ lane[l] \in Live /\ c \in tasks[l] /\ b \in Span(c) \cap sent
  /\ \A w \in loose : w.by # l
  /\ loose' = loose \cup {[by |-> l, at |-> "part", off |-> b, ver |-> rver]}
  /\ sent' = sent \ {b} /\ moved' = moved \cup {b}
  /\ UNCHANGED <<files, store, late, phase, attempt, result, marks, queue, lane, tasks, snap,
                 writer, cancel>>

TaskIgnoresCancel(l) ==                                              \* mutant
  /\ lane[l] = "join" /\ "request" \in Faults
  /\ \E c \in tasks[l], b \in sent : NextBlock(c, b)
  /\ LaneEnds(l, "err")
  /\ UNCHANGED <<files, store, late, phase, attempt, result, marks, queue, moved, snap,
                 writer, cancel>>

(* A chunk task sees the cancellation between two steps, its request       *)
(* fails, or the lane's previous local write did.                          *)
TaskFails(l) ==
  /\ lane[l] = "join"
  /\ \E c \in tasks[l], b \in Blocks :
       /\ NextBlock(c, b)
       /\ \/ cancel /\ b \notin sent
          \/ "request" \in Faults /\ b \in sent
          \/ b \in sent /\ \E w \in loose : w.by = l /\ w.at = "failed"
  /\ LaneEnds(l, "err")
  /\ UNCHANGED <<files, store, late, phase, attempt, result, marks, queue, moved, snap,
                 writer, cancel>>

ChunkDoneUnanswered(l, c, due) ==                                    \* mutant
  /\ lane[l] = "join" /\ c \in tasks[l] /\ Span(c) \subseteq moved \cup sent
  /\ tasks' = [tasks EXCEPT ![l] = @ \ {c}]
  /\ bits' = bits \cup {c}
  /\ due => c \notin bits /\ Checkpointing /\ Cardinality(bits') > persisted
  /\ lane' = [lane EXCEPT ![l] = IF due THEN "handoff" ELSE "fill"]
  /\ snap' = [snap EXCEPT ![l] = IF due THEN Snapshot(bits') ELSE NoSidecar]
  /\ UNCHANGED <<files, store, loose, late, phase, attempt, result, persisted, queue, sent,
                 moved, writer, cancel>>

(* record_chunk_completion: mark the chunk under the state's lock, and     *)
(* take a snapshot there when one is due (bytes or elapsed time).          *)
ChunkDone(l, c, due) ==
  /\ lane[l] = "join" /\ c \in tasks[l] /\ Span(c) \subseteq moved
  /\ tasks' = [tasks EXCEPT ![l] = @ \ {c}]
  /\ bits' = bits \cup {c}
  /\ due => c \notin bits /\ Checkpointing /\ Cardinality(bits') > persisted
  /\ lane' = [lane EXCEPT ![l] = IF due THEN "handoff" ELSE "fill"]
  /\ snap' = [snap EXCEPT ![l] = IF due THEN Snapshot(bits') ELSE NoSidecar]
  /\ UNCHANGED <<files, store, loose, late, phase, attempt, result, persisted, queue, sent,
                 moved, writer, cancel>>

(* try_send, after the lock is released: dropped when the queue is full. *)
HandOff(l) ==
  /\ lane[l] = "handoff"
  /\ ckq' = IF Len(ckq) < Capacity THEN Append(ckq, snap[l]) ELSE ckq
  /\ lane' = [lane EXCEPT ![l] = "fill"]
  /\ snap' = [snap EXCEPT ![l] = NoSidecar]
  /\ UNCHANGED <<files, store, loose, late, phase, attempt, result, marks, queue, tasks, sent,
                 moved, saving, cancel>>

LaneFinishes(l) ==
  /\ lane[l] = "join" /\ tasks[l] = {}
  /\ LaneEnds(l, "ok")
  /\ UNCHANGED <<files, store, late, phase, attempt, result, marks, queue, moved, snap,
                 writer, cancel>>

(* execute_parallel aborts the others after the first error.  A lane stops *)
(* at an await: never between its mark and its try_send.                   *)
AbortLane(l) ==
  /\ lane[l] \in {"open", "fill", "join"} /\ \E m \in Lanes : lane[m] = "err"
  /\ LaneEnds(l, "aborted")
  /\ UNCHANGED <<files, store, late, phase, attempt, result, marks, queue, moved, snap,
                 writer, cancel>>

LaneStep(l) ==
  \/ LaneOpens(l) \/ LaneCannotOpen(l) \/ PopChunk(l) \/ StopFilling(l) \/ LaneCancelled(l)
  \/ \E c \in tasks[l], b \in Blocks : Request(l, c, b) \/ UploadAck(l, c, b) \/ DownloadReply(l, c, b)
  \/ TaskFails(l)
  \/ \E c \in tasks[l], due \in BOOLEAN : ChunkDone(l, c, due)
  \/ HandOff(l) \/ LaneFinishes(l) \/ AbortLane(l)

(* A write nobody waits for reaches its file, wherever that is by now. *)
Lands(w) ==
  /\ w.at \in {"part", "dest"}
  /\ loose' = loose \ {w}
  /\ part' = IF w.at = "part" THEN Write(part, w.off, w.ver) ELSE part
  /\ dest' = IF w.at = "dest" THEN Write(dest, w.off, w.ver) ELSE dest
  /\ UNCHANGED <<src, store, late, phase, attempt, result, marks, lanes, writer, cancel>>

LocalWriteFails(w) ==
  /\ "disk" \in Faults /\ Direction = "download" /\ w.at # "failed"
  /\ loose' = (loose \ {w}) \cup
              (IF w.by = NoLane THEN {} ELSE {[w EXCEPT !.at = "failed"]})
  /\ UNCHANGED <<files, store, late, phase, attempt, result, marks, lanes, writer, cancel>>

-----------------------------------------------------------------------------
(* checkpoint_writer *)

WriterReceives ==
  /\ saving = NoSidecar /\ ckq # <<>>
  /\ saving' = Head(ckq) /\ ckq' = Tail(ckq)
  /\ UNCHANGED <<files, store, loose, late, phase, attempt, result, marks, lanes, cancel>>

WriterSaves ==
  /\ saving # NoSidecar
  /\ store' = saving /\ saving' = NoSidecar
  /\ persisted' = MaxOf(persisted, Cardinality(saving.bits))
  /\ UNCHANGED <<files, loose, late, phase, attempt, result, bits, lanes, ckq, cancel>>

(* Non-fatal.  The register may hold the old value, the new one or none. *)
WriterFails ==
  /\ saving # NoSidecar /\ "save" \in Faults
  /\ store' \in {store, saving, NoSidecar} /\ saving' = NoSidecar
  /\ UNCHANGED <<files, loose, late, phase, attempt, result, marks, lanes, ckq, cancel>>

WriterStep == WriterReceives \/ WriterSaves \/ WriterFails

(* A writer that run_transfer stopped waiting for. *)
LateSave(w) ==
  /\ w \in late
  /\ store' = Head(w.todo)
  /\ late' = (late \ {w}) \cup
             (IF Len(w.todo) > 1 THEN {[w EXCEPT !.todo = Tail(@)]} ELSE {})
  /\ UNCHANGED <<files, loose, phase, attempt, result, marks, lanes, writer, cancel>>

-----------------------------------------------------------------------------
(* run_transfer after its lanes *)

OneLaneSuffices ==                                                   \* mutant
  /\ phase = "run" /\ \A l \in Lanes : lane[l] \in Ended
  /\ \E l \in Lanes : lane[l] = "ok"
  /\ phase' = "drain" /\ lane' = LanesAt("off") /\ queue' = {}
  /\ UNCHANGED <<files, store, loose, late, attempt, result, marks, tasks, sent, moved, snap,
                 writer, cancel>>

LanesEnd ==
  /\ phase = "run" /\ \A l \in Lanes : lane[l] \in Ended
  /\ \/ /\ \A l \in Lanes : lane[l] = "ok"
        /\ phase' = "drain" /\ UNCHANGED result
     \/ /\ Checkpointing /\ \E l \in Lanes : lane[l] = "err"
        /\ phase' = "flush" /\ UNCHANGED result
     \/ /\ ~Checkpointing /\ \E l \in Lanes : lane[l] = "err"
        /\ Return("err")
  /\ lane' = LanesAt("off") /\ queue' = {} /\ sent' = {}
  /\ UNCHANGED <<files, store, loose, late, attempt, marks, tasks, moved, snap, writer, cancel>>

(* flush_checkpoint, waiting for room in the channel. *)
Flush ==
  /\ phase = "flush" /\ phase' = "finish"
  /\ \/ Cardinality(bits) <= persisted /\ UNCHANGED ckq
     \/ /\ Cardinality(bits) > persisted /\ Len(ckq) < Capacity
        /\ ckq' = Append(ckq, Snapshot(bits))
  /\ UNCHANGED <<files, store, loose, late, attempt, result, marks, lanes, saving, cancel>>

FlushTimeout ==
  /\ phase = "flush" /\ "stall" \in Faults
  /\ Cardinality(bits) > persisted /\ Len(ckq) >= Capacity
  /\ phase' = "finish"
  /\ UNCHANGED <<files, store, loose, late, attempt, result, marks, lanes, writer, cancel>>

WriterIdle == ckq = <<>> /\ saving = NoSidecar

Finish ==
  /\ phase = "finish" /\ WriterIdle
  /\ Return("err")
  /\ UNCHANGED <<files, store, loose, late, attempt, marks, lanes, writer, cancel>>

FinishHasNoTimeout == FALSE                                          \* mutant

(* The timeout drops finish(), and with it the join handle: the writer     *)
(* task is detached, not stopped.                                          *)
FinishTimeout ==
  /\ phase = "finish" /\ "stall" \in Faults /\ ~WriterIdle
  /\ Return("err")
  /\ late' = late \cup {[run |-> attempts,
                         todo |-> (IF saving = NoSidecar THEN <<>> ELSE <<saving>>) \o ckq]}
  /\ ckq' = <<>> /\ saving' = NoSidecar
  /\ UNCHANGED <<files, store, loose, attempt, marks, lanes, cancel>>

VerifyWithoutDrain ==                                                \* mutant
  /\ phase = "drain"
  /\ IF Chunks \subseteq bits
     THEN phase' = "rename" /\ UNCHANGED result
     ELSE Return("err")
  /\ UNCHANGED <<files, store, loose, late, attempt, marks, lanes, writer, cancel>>

(* Wait for every queued save, then guard against a lost update. *)
DrainAndVerify ==
  /\ phase = "drain" /\ WriterIdle
  /\ IF Chunks \subseteq bits
     THEN phase' = "rename" /\ UNCHANGED result
     ELSE Return("err")
  /\ UNCHANGED <<files, store, loose, late, attempt, marks, lanes, writer, cancel>>

(* finalize: rename, or remove the destination and rename again. *)
Rename ==
  /\ phase \in {"rename", "retry"} /\ part.len >= 0
  /\ dest' = part /\ part' = NoFile
  /\ loose' = {[w EXCEPT !.at = IF @ = "part" THEN "dest" ELSE @] :
                 w \in {x \in loose : x.at # "dest"}}
  /\ phase' = "remove_sidecar"
  /\ UNCHANGED <<src, store, late, attempt, result, marks, lanes, writer, cancel>>

RenameRefused ==
  /\ phase = "rename" /\ phase' = "remove_dest"
  /\ UNCHANGED <<files, store, loose, late, attempt, result, marks, lanes, writer, cancel>>

RemoveDest ==
  /\ phase = "remove_dest" /\ phase' = "retry"
  /\ \/ dest' = NoFile /\ loose' = {w \in loose : w.at # "dest"}
     \/ "rename" \in Faults /\ UNCHANGED <<dest, loose>>
  /\ UNCHANGED <<src, part, store, late, attempt, result, marks, lanes, writer, cancel>>

RetryRefused ==
  /\ phase = "retry" /\ "rename" \in Faults
  /\ Return("err")
  /\ UNCHANGED <<files, store, loose, late, attempt, marks, lanes, writer, cancel>>

RemoveSidecar ==
  /\ phase = "remove_sidecar"
  /\ store' \in {NoSidecar} \cup (IF "sidecar" \in Faults THEN {store} ELSE {})
  /\ Return("ok")
  /\ UNCHANGED <<files, loose, late, attempt, marks, lanes, writer, cancel>>

ControlStep ==
  \/ SetupFails \/ LoadCheckpoint \/ StartClean \/ CheckPart \/ DiscardPart \/ DiscardSidecar
  \/ BeginComplete \/ BeginLanes \/ LanesEnd \/ Flush \/ FlushTimeout \/ Finish
  \/ FinishTimeout \/ DrainAndVerify \/ Rename \/ RenameRefused \/ RemoveDest
  \/ RetryRefused \/ RemoveSidecar

-----------------------------------------------------------------------------
(* The world around the engine *)

Cancel ==
  /\ phase = "run" /\ ~cancel
  /\ cancel' = TRUE
  /\ UNCHANGED <<files, store, loose, late, phase, attempt, result, marks, lanes, writer>>

ChangeSource ==
  /\ phase = "idle"
  /\ src' \in Versions \ {src}
  /\ UNCHANGED <<disk, loose, late, phase, attempt, result, marks, lanes, writer, cancel>>

LosePart ==
  /\ phase = "idle" /\ "lost" \in Faults /\ part.len >= 0
  /\ \/ part' = NoFile /\ loose' = {w \in loose : w.at # "part"}
     \/ /\ \A w \in loose : w.at # "part"
        /\ \E n \in 0 .. (part.len - 1) : part' = Cut(part, n)
        /\ UNCHANGED loose
  /\ UNCHANGED <<src, dest, store, late, phase, attempt, result, marks, lanes, writer, cancel>>

(* What a remove cut short may leave: the temporary copy of an earlier     *)
(* save.  Which one is left open.                                          *)
Leftovers == {s \in Sidecar : s.bits # {} /\ s.bits \subseteq ChunkIndices(SourceSize[s.ver], s.cs)}
             \cup {NoSidecar}

(* Everything in memory is gone.  An upload's requests may still reach the *)
(* server; a download's deferred writes die with the process.              *)
Crash ==
  /\ phase # "idle" \/ loose # {} \/ late # {}
  /\ \/ "crash" \in Faults
     \/ "quiet" \in Faults /\ (Direction = "upload" \/ loose = {})
  /\ store' \in {store} \cup (IF saving = NoSidecar THEN {} ELSE {saving})
                       \cup (IF phase \in {"discard_sidecar", "remove_sidecar"} THEN Leftovers ELSE {})
  /\ loose' = IF Direction = "download" THEN {}
              ELSE loose \cup {[by |-> NoLane, at |-> "part", off |-> b, ver |-> rver] : b \in sent}
  /\ Return("none") /\ late' = {}
  /\ bits' = {} /\ queue' = {} /\ sent' = {} /\ moved' = {}
  /\ lane' = LanesAt("off") /\ tasks' = NoTasks /\ snap' = NoSnaps
  /\ ckq' = <<>> /\ saving' = NoSidecar
  /\ UNCHANGED <<files, attempt, persisted, cancel>>

EngineStep == ControlStep \/ WriterStep \/ \E l \in Lanes : LaneStep(l)

Next ==
  \/ Start \/ EngineStep
  \/ \E w \in loose : Lands(w) \/ LocalWriteFails(w)
  \/ \E w \in late : LateSave(w)
  \/ Cancel \/ ChangeSource \/ LosePart \/ Crash

Spec == Init /\ [][Next]_vars

(***************************************************************************)
(* Fairness.  The runtime polls every ready task, and every request ends:  *)
(* the SFTP session answers it or times it out.  Deferred local writes     *)
(* reach the disk, too.                                                    *)
(***************************************************************************)
DeferredLands == Direction = "download" /\ \E w \in loose : Lands(w)

FairSpec == Spec /\ WF_vars(EngineStep) /\ WF_vars(DeferredLands)

(* The same, but nothing is promised about the checkpoint store. *)
StoreUnfairSpec == Spec /\ WF_vars(ControlStep \/ \E l \in Lanes : LaneStep(l))

-----------------------------------------------------------------------------
(* Properties *)

TypeOK ==
  /\ src \in Versions /\ part \in File /\ dest \in File /\ store \in Snapshots
  /\ loose \subseteq [by : Lanes \cup {NoLane}, at : {"part", "dest", "failed"},
                      off : Blocks, ver : Versions]
  /\ late \subseteq [run : Nat, todo : Seq(Snapshots) \ {<<>>}]
  /\ phase \in {"idle", "load", "check", "discard", "discard_sidecar", "begin", "run", "drain",
                "flush", "finish", "rename", "remove_dest", "retry", "remove_sidecar"}
  /\ rver \in Versions /\ rcs \in ChunkSizes
  /\ result \in {"none", "ok", "err"} /\ attempts \in Nat
  /\ bits \subseteq Blocks /\ persisted \in Nat
  /\ queue \subseteq Blocks
  /\ lane \in [Lanes -> {"off", "open"} \cup Live \cup Ended]
  /\ tasks \in [Lanes -> SUBSET Blocks]
  /\ sent \subseteq Blocks /\ moved \subseteq Blocks
  /\ snap \in [Lanes -> Snapshots]
  /\ ckq \in Seq(Snapshots) /\ saving \in Snapshots
  /\ cancel \in BOOLEAN

(* Block b of version v is in the part file p, or in one of the local      *)
(* writes W that are on their way there.                                   *)
HoldsIn(p, W, b, v) ==
  \/ p.data[b] = v
  \/ Direction = "download" /\ \E w \in W : w.at = "part" /\ w.off = b /\ w.ver = v

(* So is every block of the chunks B. *)
ClaimIn(p, W, B, cs, v) ==
  \A c \in B : \A b \in ChunkSpan(c, cs, SourceSize[v]) : HoldsIn(p, W, b, v)

Holds(b, v) == HoldsIn(part, loose, b, v)
ClaimHolds(B, cs, v) == ClaimIn(part, loose, B, cs, v)

Finalizing == {"rename", "remove_dest", "retry"}

(* Chunk data is only ever marked in the bitmap after the server           *)
(* acknowledged it (mod.rs): from the moment a checkpoint has been         *)
(* believed or a chunk marked, until the part file is renamed, every block *)
(* of every marked chunk is in the part file with this source's bytes.     *)
MarkedIsStored ==
  phase \in {"begin", "run", "drain", "flush", "finish"} \cup Finalizing =>
    ClaimHolds(bits, rcs, rver)

(* A lagging checkpoint never stitches wrong bytes (mod.rs): whatever the  *)
(* sidecar claims, either the part file is visibly unusable to             *)
(* part_covers_completed, or every claimed block is in it.                 *)
CheckpointIsTrue ==
  LET size == SourceSize[store.ver]
  IN  /\ store # NoSidecar
      /\ required_part_size(store.bits, store.cs, size) <= part.len
      /\ part.len <= size
      => ClaimHolds(store.bits, store.cs, store.ver)

(* The final path never exposes a half-written file (mod.rs): it is absent *)
(* or one version of the source, whole.                                    *)
FinalIsWhole == dest.len >= 0 => \E v \in Versions : Whole(dest, v)

(* What is left of FinalIsWhole when local writes are deferred: the final  *)
(* path becomes one whole version of the source as soon as the writes      *)
(* under way have landed, and none of them is of another version.          *)
FinalSettles ==
  dest.len >= 0 => \E v \in Versions :
    /\ dest.len <= SourceSize[v]
    /\ \A b \in 0 .. (SourceSize[v] - 1) :
         dest.data[b] = v \/ \E w \in loose : w.at = "dest" /\ w.off = b
    /\ \A w \in loose : w.at = "dest" => w.ver = v

(* The lanes share the queue without losing or repeating work: a chunk is  *)
(* queued, in one lane's window, or marked, and as long as no lane has     *)
(* failed none has gone missing.                                           *)
ChunksAccounted ==
  phase = "run" =>
    LET Windows == UNION {tasks[l] : l \in Lanes}
    IN  /\ queue \cap (bits \cup Windows) = {} /\ bits \cap Windows = {}
        /\ \A l, m \in Lanes : l # m => tasks[l] \cap tasks[m] = {}
        /\ (\A l \in Lanes : lane[l] \notin {"err", "aborted"}) =>
             queue \cup bits \cup Windows = Chunks

(* The guard "Transfer incomplete" against a lost update (run.rs) never    *)
(* fires: when every lane has finished, every chunk is marked.             *)
NoLostUpdate == phase = "drain" => Chunks \subseteq bits

(* An attempt that reports success has put the source it started from at   *)
(* the final path and has left neither part file nor sidecar behind.       *)
SuccessIsDelivery ==
  phase = "idle" /\ result = "ok" =>
    /\ part = NoFile /\ store = NoSidecar
    /\ \A b \in 0 .. (Size - 1) :
         dest.data[b] = rver \/ \E w \in loose : w.at = "dest" /\ w.off = b /\ w.ver = rver

(* A stale part from an older, larger attempt never carries its tail       *)
(* through the final rename as trailing garbage (discard_partial, run.rs): *)
(* the delivered file is as long as its source.                            *)
NoStaleTail == phase = "idle" /\ result = "ok" => dest.len <= Size

(* Every attempt ends, whatever fails and whenever it is cancelled.        *)
AttemptEnds == (phase # "idle") ~> (phase = "idle")

(* Persisting through a dead connection never turns a fast failure into a  *)
(* wait (run.rs): once the lanes have failed, the attempt returns even if  *)
(* the checkpoint store never answers again.                               *)
FailureReturns == (phase = "flush") ~> (phase = "idle")

(* flush_checkpoint is skipped only when the on-disk checkpoint already    *)
(* reflects every marked chunk (run.rs), no save having failed.            *)
SkippedFlushIsPersisted ==
  phase = "finish" /\ WriterIdle /\ Faults = {} => store.bits = bits

-----------------------------------------------------------------------------
(***************************************************************************)
(* The invariant the proofs carry.  It needs a store and a disk that do    *)
(* what they are told: the faults below each break it, which is what the   *)
(* findings are about.                                                     *)
(***************************************************************************)
SafeFaults ==
  /\ Faults \cap {"unlink", "truncate", "sidecar", "stall", "disk"} = {}
  /\ Direction = "download" => "crash" \notin Faults

Running == {"run", "drain", "flush", "finish"}
Active == {"begin"} \cup Running \cup Finalizing

WritesAt(file) == {w \in loose : w.at = file}

(* Nothing is allocated past a file's end. *)
WellFormed(f) == \A b \in Blocks : f.data[b] # Hole => b < f.len

InvShape ==
  /\ late = {}
  /\ \A w \in loose : w.at # "failed" /\ w.off < SourceSize[w.ver]
  /\ WellFormed(part) /\ WellFormed(dest)
  /\ \A l \in Lanes : /\ lane[l] \notin Live => tasks[l] = {}
                      /\ lane[l] # "handoff" => snap[l] = NoSidecar
                      /\ phase # "run" => lane[l] = "off"
  /\ phase # "run" => sent = {} /\ queue = {}
  /\ phase \notin Running => WriterIdle
  /\ phase \in {"load", "discard", "discard_sidecar"} => bits = {}
  /\ phase \in {"load", "check", "discard", "discard_sidecar"} => moved = {}
  /\ phase \in {"discard_sidecar", "remove_sidecar"} => part = NoFile /\ WritesAt("part") = {}
  /\ phase \in Finalizing => Chunks \subseteq bits

InvChunks ==
  phase # "idle" =>
    /\ bits \subseteq Chunks /\ queue \subseteq Chunks
    /\ \A l \in Lanes : tasks[l] \subseteq Chunks
    /\ sent \subseteq 0 .. (Size - 1) /\ moved \subseteq 0 .. (Size - 1)

(* A snapshot on its way to the store claims marked chunks only. *)
Claim(s) == s.ver = rver /\ s.cs = rcs /\ s.bits # {} /\ s.bits \subseteq bits

InvSnapshots ==
  /\ saving # NoSidecar => Claim(saving)
  /\ \A i \in 1 .. Len(ckq) : Claim(ckq[i])
  /\ \A l \in Lanes : lane[l] = "handoff" => Claim(snap[l])

(* A stored checkpoint is true, or visibly untrue and about to be dropped. *)
InvStore ==
  /\ store # NoSidecar =>
       /\ store.bits # {} /\ store.bits \subseteq ChunkIndices(SourceSize[store.ver], store.cs)
       /\ \A w \in WritesAt("part") : w.ver = store.ver
       /\ \/ ClaimHolds(store.bits, store.cs, store.ver)
          \/ /\ WritesAt("part") = {} /\ phase \notin Active
             /\ part.len < required_part_size(store.bits, store.cs, SourceSize[store.ver])
       /\ phase \in Active => Claim(store)
  /\ phase = "check" => store # NoSidecar /\ matches_source(store) /\ bits = store.bits

InvMarks ==
  phase \in Active =>
    /\ ClaimHolds(bits, rcs, rver)
    /\ \A b \in moved : Holds(b, rver)
    /\ part.len <= Size
    /\ \A w \in WritesAt("part") : w.ver = rver

InvDest ==
  /\ WritesAt("dest") # {} => dest.len >= 0
  /\ FinalSettles
  /\ Direction = "upload" /\ dest.len >= 0 =>
       \E v \in Versions : Whole(dest, v) /\ \A w \in WritesAt("dest") : w.ver = v

(* A transfer without checkpoints has no checkpoint writer. *)
InvWriter ==
  /\ phase \in Running /\ ~Checkpointing => WriterIdle /\ \A l \in Lanes : lane[l] # "handoff"
  /\ phase = "flush" => Checkpointing

(* The lanes' share of the work.  A lane stops filling with an empty       *)
(* window only when the queue is empty, so that once every lane has ended  *)
(* well nothing is left but what is marked.  No fault disturbs this.       *)
Windows == UNION {tasks[l] : l \in Lanes}

InvWork ==
  /\ phase # "run" => \A l \in Lanes : lane[l] = "off" /\ tasks[l] = {}
  /\ phase = "run" =>
       /\ \A l \in Lanes :
            /\ lane[l] \notin Live => tasks[l] = {}
            /\ lane[l] = "join" /\ tasks[l] = {} => queue = {}
            /\ lane[l] = "ok" => queue = {}
            /\ lane[l] # "off"
       /\ queue \cap (bits \cup Windows) = {} /\ bits \cap Windows = {}
       /\ \A l, m \in Lanes : l # m => tasks[l] \cap tasks[m] = {}
       /\ \A l \in Lanes : lane[l] = "aborted" => \E m \in Lanes : lane[m] = "err"
       /\ (\A l \in Lanes : lane[l] # "err") => Chunks \subseteq queue \cup bits \cup Windows
  /\ phase = "drain" => Chunks \subseteq bits

(* What finalize has delivered stays as it was until the next attempt.     *)
Delivered ==
  /\ part = NoFile /\ WritesAt("part") = {}
  /\ dest.len <= Size
  /\ \A w \in WritesAt("dest") : w.ver = rver
  /\ \A b \in 0 .. (Size - 1) :
       dest.data[b] = rver \/ \E w \in loose : w.at = "dest" /\ w.off = b /\ w.ver = rver

InvDelivery ==
  /\ phase = "remove_sidecar" => Delivered
  /\ phase = "idle" /\ result = "ok" => Delivered /\ store = NoSidecar

SafeInv == InvShape /\ InvChunks /\ InvSnapshots /\ InvStore /\ InvMarks /\ InvDest

(* SafeInv is what carries the safety properties from one attempt to the   *)
(* next: it is inductive, together with the types, InvWriter and InvWork.  *)
InductiveInv == SafeInv /\ InvWriter /\ InvWork /\ InvDelivery
=============================================================================
