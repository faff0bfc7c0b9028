--------------------------- MODULE MCSidecarStore ---------------------------
(***************************************************************************)
(* The sidecar store of a transfer for TLC, next to the store on a disk    *)
(* where any operation may fail, and the chunk arithmetic over every input *)
(* of a small grid.  They share no state, so a behaviour is one of a       *)
(* single part, chosen at the start.                                       *)
(***************************************************************************)
EXTENDS SidecarStore, ChunkMath, FiniteSets

\* The inputs of ChunkMath: MIN_CHUNK_SIZE, the 1024 bytes kept for packet framing and
\* DEFAULT_IO_STEP, and the longest file, chunk and server limit.
CONSTANTS MinChunk, Reserve, DefaultStep, MaxTotal, MaxChunk, MaxLimit

ASSUME InputsAssumption ==
  MinChunk \in Nat \ {0} /\ {Reserve, DefaultStep, MaxTotal, MaxChunk, MaxLimit} \subseteq Nat

VARIABLE part
VARIABLES fKind, fPrimary, fTmp, fPc, fArg, fLoaded, fSaved, fAcked   \* the faulty store
VARIABLES total, cs, bits, limits   \* one input of ChunkMath; a step moves to another file

faultyVars == <<fKind, fPrimary, fTmp, fPc, fArg, fLoaded, fSaved, fAcked>>
inputVars == <<total, cs, bits, limits>>
allVars == <<part, vars, faultyVars, inputVars>>

Faulty == INSTANCE SidecarStore WITH StoreFaults <- {"write", "remove", "rename"}, kind <- fKind,
    primary <- fPrimary, tmp <- fTmp, pc <- fPc, arg <- fArg, loaded <- fLoaded,
    saved <- fSaved, acked <- fAcked

Limits == [max_write_len : {0, MaxLimit}, max_read_len : {0, MaxLimit \div 2},
           max_packet_len : 0 .. MaxLimit]

InputInit == limits \in Limits /\ total = 0 /\ cs = MinChunk /\ bits = {}
NextInput ==
    /\ total' \in 0 .. MaxTotal /\ cs' \in MinChunk .. MaxChunk
    /\ bits' \in SUBSET ChunkIndices(total', cs')
    /\ UNCHANGED limits

AllInit ==
    /\ Init /\ Faulty!Init /\ InputInit
    /\ part \in {"store", "faulty", "chunks"}
    /\ part # "store" => kind = "remote"
    /\ part # "faulty" => fKind = "remote"
    /\ part # "chunks" => limits = [max_write_len |-> 0, max_read_len |-> 0, max_packet_len |-> 0]

AllNext ==
    \/ part = "store" /\ Next /\ UNCHANGED <<part, faultyVars, inputVars>>
    \/ part = "faulty" /\ Faulty!Next /\ UNCHANGED <<part, vars, inputVars>>
    \/ part = "chunks" /\ NextInput /\ UNCHANGED <<part, vars, faultyVars>>

AllSpec == AllInit /\ [][AllNext]_allVars

-----------------------------------------------------------------------------
Span(c) == ChunkSpan(c, cs, total)

(* Cutting a file into chunks (chunk_count_for, chunk_len_for) tiles it:   *)
(* every offset belongs to one chunk and to no other, so that marking all  *)
(* chunks in the bitmap is the same as having moved every byte.            *)
ChunksTile ==
  /\ UNION {Span(c) : c \in ChunkIndices(total, cs)} = 0 .. (total - 1)
  /\ \A c, d \in ChunkIndices(total, cs) : c # d => Span(c) \cap Span(d) = {}

(* required_part_size is the length of the shortest file that holds every  *)
(* byte of the chunks the bitmap claims.                                   *)
RequiredIsTight ==
  LET bytes == UNION {Span(c) : c \in bits}
      need  == required_part_size(bits, cs, total)
  IN  /\ bytes \subseteq 0 .. (need - 1)
      /\ need > 0 => need - 1 \in bytes

(* Every request a lane or the sidecar store issues moves at least a byte  *)
(* (a zero-length step would loop forever) and, with its framing, stays    *)
(* inside the packet size the server advertised, or is a single byte.      *)
StepsFit ==
  \A step \in {io_write_step(limits, Reserve, DefaultStep),
               io_read_step(limits, Reserve, DefaultStep),
               step_from_limits(limits, Reserve, DefaultStep)} :
    /\ step >= 1
    /\ limits.max_packet_len > 0 => step + Reserve <= MaxOf(limits.max_packet_len, Reserve + 1)

(* effective_chunk_size, as its comment promises: it never grows the       *)
(* chunk, never shrinks it below one write step, leaves empty transfers    *)
(* alone, and a shrunk chunk leaves work for the whole window.             *)
ShrinkIsSane ==
  \A step \in 1 .. MaxChunk, window \in 1 .. 3 :
    LET e == effective_chunk_size(cs, step, total, window, MinChunk)
    IN  /\ e <= cs
        /\ e < cs => e >= step
        /\ total = 0 => e = cs
        /\ e < cs /\ e > step /\ e > MinChunk => chunk_count_for(total, e) >= window

(* The sizes a transfer computes are sound: its chunks tile the file, what *)
(* it requires of the partial file is tight, and its steps and chunks fit  *)
(* the server's limits (chunk_count_for, required_part_size, step_from_    *)
(* limits, effective_chunk_size).                                          *)
SizesAreSound == ChunksTile /\ RequiredIsTight /\ StepsFit /\ ShrinkIsSane

(* Also on a disk where removing and renaming fail, a save that returned   *)
(* Ok is what load finds (checkpoint.rs, save).                            *)
SavedSurvivesFaults == Faulty!SavedIsLoaded
=============================================================================
