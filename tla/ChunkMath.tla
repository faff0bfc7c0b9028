----------------------------- MODULE ChunkMath -----------------------------
(***************************************************************************)
(* The sizes of an SFTP transfer: how a file is cut into chunks, how a     *)
(* chunk is cut into wire requests, and how long the part file must be     *)
(* before a checkpoint may be believed.                                    *)
(*                                                                         *)
(* A bitmap is the set of the chunk indices whose bit is set.  The module  *)
(* holds operators and what is proved of them; the transfer engine and its *)
(* proofs use both.                                                        *)
(***************************************************************************)
EXTENDS Integers, TLAPS, WellFoundedInduction

MinOf(a, b) == IF a <= b THEN a ELSE b
MaxOf(a, b) == IF a >= b THEN a ELSE b

ChunkCountFloor(total, cs) == IF total = 0 THEN 0 ELSE total \div cs  \* mutant

(* mod.rs: total_size.div_ceil(chunk_size), 0 for an empty file. *)
chunk_count_for(total, cs) == IF total = 0 THEN 0 ELSE (total + cs - 1) \div cs

ChunkIndices(total, cs) == 0 .. (chunk_count_for(total, cs) - 1)

(* mod.rs: the last chunk is cut at the end of the file. *)
chunk_len_for(c, cs, total) == MinOf(total - c * cs, cs)

(* The offsets transfer_chunk walks for one chunk. *)
ChunkSpan(c, cs, total) ==
  {c * cs + i : i \in 0 .. (chunk_len_for(c, cs, total) - 1)}

RequiredUncut(bits, cs, total) ==                                     \* mutant
  IF bits = {} THEN 0
  ELSE ((CHOOSE c \in bits : \A d \in bits : d <= c) + 1) * cs

(* chunks.rs: the end of the last completed chunk, 0 for an empty bitmap. *)
required_part_size(bits, cs, total) ==
  IF bits = {} THEN 0
  ELSE LET last == CHOOSE c \in bits : \A d \in bits : d <= c
       IN  MinOf((last + 1) * cs, total)

(***************************************************************************)
(* chunks.rs: the request sizes the server's limits@openssh.com extension  *)
(* allows.  `limits` is NoLimits or a record of three lengths, 0 meaning   *)
(* "not advertised".  Reserve and DefaultStep are the code's 1024 and      *)
(* DEFAULT_IO_STEP, scaled with the instance.                              *)
(***************************************************************************)
NoLimits == [max_write_len |-> 0, max_read_len |-> 0, max_packet_len |-> 0]

CapPacketWrapping(step, packet, reserve) ==                           \* mutant
  IF packet > 0 THEN MinOf(step, (packet - reserve) % 65536) ELSE step

CapPacket(step, packet, reserve) ==
  IF packet > 0 THEN MinOf(step, MaxOf(packet - reserve, 0)) ELSE step

io_write_step(limits, reserve, default) ==
  LET base == IF limits.max_write_len > 0 THEN limits.max_write_len ELSE default
  IN  MaxOf(CapPacket(base, limits.max_packet_len, reserve), 1)

io_read_step(limits, reserve, default) ==
  LET base == IF limits.max_read_len > 0 THEN limits.max_read_len ELSE default
  IN  MaxOf(CapPacket(base, limits.max_packet_len, reserve), 1)

(* The step of the sidecar's own reads and writes: never above 32 KiB. *)
step_from_limits(limits, reserve, small) ==
  LET cut(step, len) == IF len > 0 THEN MinOf(step, len) ELSE step
      both == cut(cut(small, limits.max_write_len), limits.max_read_len)
  IN  MaxOf(CapPacket(both, limits.max_packet_len, reserve), 1)

EffectiveUnclamped(negotiated, step, total, window, minChunk) ==      \* mutant
  IF total = 0 THEN negotiated
  ELSE MaxOf(MaxOf(step, total \div MaxOf(window, 1)), minChunk)

(* chunks.rs: small files get smaller chunks, so that the window fills. *)
effective_chunk_size(negotiated, step, total, window, minChunk) ==
  IF total = 0 THEN negotiated
  ELSE LET target == MaxOf(total \div MaxOf(window, 1), 1)
       IN  MaxOf(MinOf(negotiated, MaxOf(step, target)), minChunk)

-----------------------------------------------------------------------------
(* Chunk geometry for every file and chunk size: the chunks tile the file, *)
(* and a part file of required_part_size bytes reaches past every byte the *)
(* bitmap claims.                                                          *)

(* Division by the chunk size, as chunk_count_for uses it. *)
LEMMA DivFacts ==
  ASSUME NEW a \in Nat, NEW n \in Nat \ {0}
  PROVE  /\ a \div n \in Nat
         /\ (a \div n) * n <= a
         /\ a < (a \div n + 1) * n
OBVIOUS

(* A chunk's span, written with inequalities. *)
LEMMA SpanBounds ==
  ASSUME NEW total \in Nat, NEW cs \in Nat \ {0}, NEW c \in Nat, NEW b \in Int
  PROVE  b \in ChunkSpan(c, cs, total) <=> c * cs <= b /\ b < (c + 1) * cs /\ b < total
<1>1. c * cs \in Nat /\ (c + 1) * cs = c * cs + cs
  OBVIOUS
<1> DEFINE m == c * cs
           len == MinOf(total - m, cs)
<1>2. m \in Nat /\ len \in Int
  BY <1>1 DEF MinOf
<1>3. b \in {m + i : i \in 0 .. (len - 1)} <=> m <= b /\ b < m + len
  <2>1. ASSUME m <= b, b < m + len
        PROVE  b \in {m + i : i \in 0 .. (len - 1)}
    <3>1. b - m \in 0 .. (len - 1) /\ b = m + (b - m)
      BY <1>2, <2>1
    <3> QED BY <3>1
  <2>2. ASSUME b \in {m + i : i \in 0 .. (len - 1)}
        PROVE  m <= b /\ b < m + len
    BY <1>2, <2>2
  <2> QED BY <2>1, <2>2
<1>4. b < m + len <=> b < m + cs /\ b < total
  BY <1>2 DEF MinOf
<1> QED BY <1>1, <1>3, <1>4 DEF ChunkSpan, chunk_len_for

(* Every byte of the file lies in a chunk the bitmap has a bit for.        *)
LEMMA ByteHasChunk ==
  ASSUME NEW total \in Nat, NEW cs \in Nat \ {0}, NEW b \in 0 .. (total - 1)
  PROVE  \E c \in ChunkIndices(total, cs) : b \in ChunkSpan(c, cs, total)
<1> DEFINE c == b \div cs
           n == (total + cs - 1) \div cs
<1>1. c \in Nat /\ c * cs <= b /\ b < (c + 1) * cs
  BY DivFacts
<1>2. n \in Nat /\ n * cs <= total + cs - 1 /\ total + cs - 1 < (n + 1) * cs
  <2>1. total + cs - 1 \in Nat
    OBVIOUS
  <2> QED BY <2>1, DivFacts
<1>3. c < n
  <2>1. ASSUME n <= c PROVE FALSE
    <3>1. n * cs <= c * cs
      BY <1>1, <1>2, <2>1
    <3>2. (n + 1) * cs = n * cs + cs
      BY <1>2
    <3> QED BY <1>1, <1>2, <3>1, <3>2
  <2> QED BY <1>1, <1>2, <2>1
<1>4. c \in ChunkIndices(total, cs)
  BY <1>1, <1>2, <1>3 DEF ChunkIndices, chunk_count_for
<1>5. b \in ChunkSpan(c, cs, total)
  BY <1>1, SpanBounds
<1> QED BY <1>4, <1>5

(* No byte lies in two chunks, so that two lanes never write the same one. *)
LEMMA ChunksApart ==
  ASSUME NEW total \in Nat, NEW cs \in Nat \ {0}, NEW c \in Nat, NEW d \in Nat,
         NEW b \in Int, b \in ChunkSpan(c, cs, total), b \in ChunkSpan(d, cs, total)
  PROVE  c = d
<1>1. c * cs <= b /\ b < (c + 1) * cs /\ d * cs <= b /\ b < (d + 1) * cs
  BY SpanBounds
<1>2. ASSUME NEW x \in Nat, NEW y \in Nat, x < y, y * cs <= b, b < (x + 1) * cs
      PROVE  FALSE
  <2>1. (x + 1) * cs <= y * cs
    BY <1>2
  <2> QED BY <1>2, <2>1
<1> QED BY <1>1, <1>2

(* chunk_count_for and chunk_len_for tile the file: each byte has exactly  *)
(* one chunk, for every file length and every chunk size.                  *)
THEOREM ChunksTileEveryFile ==
  ASSUME NEW total \in Nat, NEW cs \in Nat \ {0}, NEW b \in 0 .. (total - 1)
  PROVE  \E c \in ChunkIndices(total, cs) :
           /\ b \in ChunkSpan(c, cs, total)
           /\ \A d \in ChunkIndices(total, cs) : b \in ChunkSpan(d, cs, total) => d = c
<1>1. PICK c \in ChunkIndices(total, cs) : b \in ChunkSpan(c, cs, total)
  BY ByteHasChunk
<1>2. ChunkIndices(total, cs) \subseteq Nat
  BY DEF ChunkIndices
<1>3. ASSUME NEW d \in ChunkIndices(total, cs), b \in ChunkSpan(d, cs, total)
      PROVE  d = c
  BY <1>1, <1>2, <1>3, ChunksApart
<1> QED BY <1>1, <1>3

-----------------------------------------------------------------------------

(* A chunk index is smaller than the file is long. *)
LEMMA ChunkIndexBound ==
  ASSUME NEW total \in Nat, NEW cs \in Nat \ {0}
  PROVE  ChunkIndices(total, cs) \subseteq 0 .. (total - 1)
<1> DEFINE n == (total + cs - 1) \div cs
<1>1. CASE total = 0
  BY <1>1 DEF ChunkIndices, chunk_count_for
<1>2. CASE total # 0
  <2>1. n \in Nat /\ n * cs <= total + cs - 1
    <3>1. total + cs - 1 \in Nat
      OBVIOUS
    <3> QED BY <3>1, DivFacts
  <2>2. n <= total
    <3>1. ASSUME total + 1 <= n PROVE FALSE
      <4>1. (total + 1) * cs <= n * cs
        BY <2>1, <3>1
      <4>2. (total + 1) * cs = total * cs + cs /\ total <= total * cs
        OBVIOUS
      <4> QED BY <2>1, <4>1, <4>2
    <3> QED BY <2>1, <3>1
  <2> QED BY <1>2, <2>1, <2>2 DEF ChunkIndices, chunk_count_for
<1> QED BY <1>1, <1>2

(* A nonempty set of chunk indices has a last one. *)
LEMMA LastChunk ==
  ASSUME NEW n \in Nat, NEW B \in SUBSET (0 .. (n - 1)), B # {}
  PROVE  \E c \in B : \A d \in B : d <= c
<1> DEFINE T == {n - c : c \in B}
           R == OpToRel(<, Nat)
<1>1. T \in SUBSET Nat
  OBVIOUS
<1>2. T # {}
  <2>1. PICK c \in B : TRUE
    OBVIOUS
  <2>2. n - c \in T
    BY <2>1
  <2> QED BY <2>2
<1>3. PICK t \in T : \A u \in T : <<u, t>> \notin R
  <2> HIDE DEF T, R
  <2>1. IsWellFoundedOn(R, Nat)
    BY NatLessThanWellFounded DEF R
  <2> QED BY <1>1, <1>2, <2>1, WFMin
<1>4. \A u \in T : ~(u < t)
  BY <1>1, <1>3 DEF OpToRel
<1>5. PICK c \in B : t = n - c
  OBVIOUS
<1>6. ASSUME NEW d \in B PROVE d <= c
  <2>1. n - d \in T
    OBVIOUS
  <2>2. ~(n - d < n - c)
    BY <1>4, <1>5, <2>1
  <2> QED BY <2>2
<1> QED BY <1>6

(* part_covers_completed is a sound test, and no stricter than it has to   *)
(* be: the claimed bytes all lie before required_part_size, and the last   *)
(* one right before it.                                                    *)
LEMMA RequiredCovers ==
  ASSUME NEW total \in Nat, NEW cs \in Nat \ {0},
         NEW B \in SUBSET ChunkIndices(total, cs), B # {}
  PROVE  /\ required_part_size(B, cs, total) \in Nat \ {0}
         /\ required_part_size(B, cs, total) <= total
         /\ \A c \in B : \A b \in ChunkSpan(c, cs, total) : b < required_part_size(B, cs, total)
         /\ \E c \in B : required_part_size(B, cs, total) - 1 \in ChunkSpan(c, cs, total)
<1> DEFINE last == CHOOSE c \in B : \A d \in B : d <= c
           end == (last + 1) * cs
<1>1. B \in SUBSET (0 .. (total - 1)) /\ total # 0
  <2>1. B \in SUBSET (0 .. (total - 1))
    BY ChunkIndexBound
  <2>2. PICK c \in B : TRUE
    OBVIOUS
  <2>3. 0 <= c /\ c <= total - 1 /\ c \in Int
    BY <2>1, <2>2
  <2> QED BY <2>1, <2>3
<1>2. last \in B /\ \A d \in B : d <= last
  <2>1. PICK m \in B : \A d \in B : d <= m
    BY <1>1, LastChunk
  <2> QED BY <2>1
<1> HIDE DEF last
<1>3. last \in Nat
  BY <1>1, <1>2
<1>4. end \in Nat \ {0}
  <2>1. last + 1 \in Nat \ {0}
    BY <1>3
  <2> QED BY <2>1
<1>5. required_part_size(B, cs, total) = MinOf(end, total)
  BY DEF required_part_size, last
<1>6. ASSUME NEW c \in B, NEW b \in ChunkSpan(c, cs, total)
      PROVE  b < MinOf(end, total)
  <2>1. c \in Nat /\ c <= last
    BY <1>1, <1>2
  <2>2. b \in Int
    <3>1. c * cs \in Int
      BY <2>1
    <3> QED BY <3>1 DEF ChunkSpan
  <2>3. b < (c + 1) * cs /\ b < total
    BY <2>1, <2>2, <1>6, SpanBounds
  <2>4. (c + 1) * cs <= end
    BY <1>3, <2>1
  <2>5. (c + 1) * cs \in Int
    BY <2>1
  <2> HIDE DEF end
  <2> QED BY <1>4, <2>2, <2>3, <2>4, <2>5 DEF MinOf
<1>7. MinOf(end, total) - 1 \in ChunkSpan(last, cs, total)
  <2> DEFINE n == (total + cs - 1) \div cs
             m == last * cs
  <2>1. n \in Nat /\ n * cs <= total + cs - 1
    <3>1. total + cs - 1 \in Nat
      BY <1>1
    <3> QED BY <3>1, DivFacts
  <2>2. last + 1 <= n
    BY <1>1, <1>2, <1>3, <2>1 DEF ChunkIndices, chunk_count_for
  <2>3. end <= n * cs /\ end = m + cs /\ m \in Nat
    BY <1>3, <2>1, <2>2
  <2> HIDE DEF m, n, end
  <2>4. m <= total - 1 /\ MinOf(end, total) - 1 \in Int
    BY <2>1, <2>3, <1>4 DEF MinOf
  <2>5. m <= MinOf(end, total) - 1 /\ MinOf(end, total) - 1 < end /\ MinOf(end, total) - 1 < total
    BY <2>3, <2>4, <1>4 DEF MinOf
  <2> QED BY <1>3, <2>4, <2>5, SpanBounds DEF m, end
<1> HIDE DEF end
<1> QED BY <1>1, <1>2, <1>4, <1>5, <1>6, <1>7 DEF MinOf

-----------------------------------------------------------------------------
(* The sizes of requests and of shrunk chunks, for every limit a server    *)
(* may advertise.                                                          *)

(* A step is at least a byte, and with its framing no longer than a packet *)
(* unless it is that byte.                                                 *)
LEMMA PacketFits ==
  ASSUME NEW step \in Nat, NEW packet \in Nat, NEW reserve \in Nat
  PROVE  LET cut == MaxOf(CapPacket(step, packet, reserve), 1) IN
         cut \in Nat /\ cut >= 1 /\ (packet > 0 => cut + reserve <= MaxOf(packet, reserve + 1))
BY DEF CapPacket, MinOf, MaxOf

(* Every request a lane or the sidecar's store issues moves a byte at      *)
(* least and fits a packet, or is that byte (io_write_step, io_read_step,  *)
(* step_from_limits).                                                      *)
THEOREM RequestsFit ==
  ASSUME NEW limits \in [max_write_len : Nat, max_read_len : Nat, max_packet_len : Nat],
         NEW reserve \in Nat, NEW default \in Nat,
         NEW step \in {io_write_step(limits, reserve, default), io_read_step(limits, reserve, default),
                       step_from_limits(limits, reserve, default)}
  PROVE  /\ step >= 1
         /\ limits.max_packet_len > 0 => step + reserve <= MaxOf(limits.max_packet_len, reserve + 1)
<1> DEFINE cut(s, len) == IF len > 0 THEN MinOf(s, len) ELSE s
           both == cut(cut(default, limits.max_write_len), limits.max_read_len)
           write == IF limits.max_write_len > 0 THEN limits.max_write_len ELSE default
           read == IF limits.max_read_len > 0 THEN limits.max_read_len ELSE default
<1>1. both \in Nat /\ write \in Nat /\ read \in Nat /\ limits.max_packet_len \in Nat
  BY DEF MinOf
<1>2. PICK base \in {both, write, read} : step = MaxOf(CapPacket(base, limits.max_packet_len, reserve), 1)
  BY DEF io_write_step, io_read_step, step_from_limits
<1> HIDE DEF both, write, read
<1> QED BY <1>1, <1>2, PacketFits

(* effective_chunk_size keeps what its comment promises: it never grows a  *)
(* chunk, shrinks it no further than one write step, leaves empty files    *)
(* alone, and a shrunk chunk leaves work for the whole window.             *)
THEOREM ShrunkChunksFillWindow ==
  ASSUME NEW cs \in Nat, NEW minChunk \in Nat \ {0}, minChunk <= cs, NEW step \in Nat \ {0},
         NEW total \in Nat, NEW window \in Nat \ {0}
  PROVE  LET e == effective_chunk_size(cs, step, total, window, minChunk)
         IN  /\ e <= cs
             /\ e < cs => e >= step
             /\ total = 0 => e = cs
             /\ e < cs /\ e > step /\ e > minChunk => chunk_count_for(total, e) >= window
<1> DEFINE share == total \div window
           e == effective_chunk_size(cs, step, total, window, minChunk)
<1>1. share \in Nat /\ share * window <= total /\ MaxOf(window, 1) = window
  BY DivFacts DEF MaxOf
<1>2. total # 0 => e = MaxOf(MinOf(cs, MaxOf(step, MaxOf(share, 1))), minChunk)
  BY <1>1 DEF effective_chunk_size
<1>3. total = 0 => e = cs
  BY DEF effective_chunk_size
<1> HIDE DEF share, e
<1>4. e \in Nat /\ e <= cs /\ (e < cs => e >= step)
  BY <1>1, <1>2, <1>3 DEF MaxOf, MinOf
<1>5. ASSUME e < cs, e > step, e > minChunk PROVE chunk_count_for(total, e) >= window
  <2>1. total # 0 /\ e = share /\ e \in Nat \ {0}
    BY <1>1, <1>2, <1>3, <1>4, <1>5 DEF MaxOf, MinOf
  <2> DEFINE n == (total + e - 1) \div e
  <2>2. n \in Nat /\ total + e - 1 < (n + 1) * e
    <3>1. total + e - 1 \in Nat
      BY <2>1
    <3> QED BY <2>1, <3>1, DivFacts
  <2>3. e * window <= total
    BY <1>1, <2>1
  <2>4. ASSUME n + 1 <= window PROVE FALSE
    <3>1. (n + 1) * e <= window * e
      BY <2>1, <2>2, <2>4
    <3>2. window * e = e * window
      BY <2>1
    <3> QED BY <2>1, <2>2, <2>3, <3>1, <3>2
  <2>5. chunk_count_for(total, e) = n
    BY <2>1 DEF chunk_count_for
  <2> HIDE DEF n
  <2> QED BY <2>2, <2>4, <2>5
<1> QED BY <1>3, <1>4, <1>5 DEF e
=============================================================================
