----------------------------- MODULE OutputFlow -----------------------------
(***************************************************************************)
(* Terminal output on its way to the web view (terminal/io_batcher.rs):    *)
(* the reader hands bytes to a bounded queue, the sender thread gathers    *)
(* them into batches, cuts the batches between characters and sends them,  *)
(* pausing while the page has too many bytes it has not acknowledged; a    *)
(* reloaded page takes the output over, and the tab may be closed.         *)
(*                                                                         *)
(* Data.  A stream is a sequence of byte classes; what is in a queue or a  *)
(* buffer is always a contiguous piece of it, and is kept as offsets.      *)
(* Time is left open: a batching window may elapse, output may count as an *)
(* answer to input, and acknowledgements may stall, whenever the code      *)
(* looks.                                                                  *)
(***************************************************************************)
EXTENDS Naturals, Sequences, FiniteSets

CONSTANTS
  Streams,         \* what the session may write
  MaxMessage,      \* largest read, in bytes
  QueueCapacity,   \* QUEUE_CAPACITY_MESSAGES
  FlushThreshold,  \* FLUSH_THRESHOLD_BYTES
  MaxChunk,        \* MAX_CHUNK_BYTES
  HighWatermark,   \* HIGH_WATERMARK_BYTES
  MaxPages         \* bound on the pages that show the tab

(* Byte classes: the length a lead byte announces, or one of these. *)
Cont == 0
BadLead == 5

ASSUME OutputAssumption ==
  /\ Streams # {} /\ Streams \subseteq Seq(Cont .. BadLead)
  /\ {MaxMessage, QueueCapacity, FlushThreshold, HighWatermark, MaxPages} \subseteq Nat \ {0}
  /\ MaxChunk \in Nat /\ MaxChunk >= 4

Pages == 1 .. MaxPages

VARIABLES
  stream,
  read,     \* bytes the reader has passed to send
  queue,    \* the sync_channel: the offset at which each message in it ends
  tx,       \* the reader's end: open, then dropped by finish, then joined
  pc,       \* where sender_loop is
  next,     \* where it goes when the flush it is in is over
  window,   \* flush_deadline is set
  lo, hi,   \* pending is what lies between these offsets
  end,      \* end of the chunk being sent, which starts at lo
  target,   \* the page whose channel was cloned for it
  out,      \* the chunks sent, and to which page
  unacked,  \* FlowState.unacked
  closed,   \* FlowState.closed
  page,     \* the page whose channel is current
  view,     \* bytes each page has received and not acknowledged
  gone,     \* pages whose channel fails
  moving,   \* move_to has replaced the channel and not yet reset the flow
  forgot    \* history: outstanding bytes have been forgotten, or ignored

reader == <<stream, read, tx>>
batch == <<pc, next, window, lo, hi>>
sending == <<end, target, out>>
flow == <<unacked, closed, forgot>>
pages == <<page, view, gone, moving>>
vars == <<stream, read, queue, tx, pc, next, window, lo, hi, end, target, out, unacked,
          closed, page, view, gone, moving, forgot>>

-----------------------------------------------------------------------------
(* Characters *)

(* The last s bytes of d are the beginning of a character. *)
Partial(d, s) ==
  LET start == Len(d) - s + 1
  IN  /\ d[start] \in 2 .. 4 /\ d[start] > s
      /\ \A k \in (start + 1) .. Len(d) : d[k] = Cont

NothingPartial(d) == Len(d)                                          \* mutant

utf8_complete_prefix_len(d) ==
  LET tails == {s \in 1 .. 4 : s <= Len(d) /\ Partial(d, s)}
  IN  IF tails = {} THEN Len(d) ELSE Len(d) - (CHOOSE s \in tails : TRUE)

Pending == SubSeq(stream, lo + 1, hi)

-----------------------------------------------------------------------------
Init ==
  /\ stream \in Streams
  /\ read = 0 /\ queue = <<>> /\ tx = "open"
  /\ pc = "recv" /\ next = "recv" /\ window = FALSE /\ lo = 0 /\ hi = 0
  /\ end = 0 /\ target = 1 /\ out = <<>>
  /\ unacked = 0 /\ closed = FALSE /\ forgot = FALSE
  /\ page = 1 /\ view = [p \in Pages |-> 0] /\ gone = {} /\ moving = FALSE

(* TerminalOutputSender::send, which waits for room in the queue. *)
ReaderSends ==
  /\ tx = "open" /\ Len(queue) < QueueCapacity
  /\ \E n \in 1 .. MaxMessage :
       /\ read + n <= Len(stream)
       /\ read' = read + n /\ queue' = Append(queue, read + n)
  /\ UNCHANGED <<stream, tx, batch, sending, flow, pages>>

(* TerminalOutputSender::finish drops its end and joins the sender thread. *)
FinishDrops ==
  /\ tx = "open" /\ tx' = "dropped"
  /\ UNCHANGED <<stream, read, queue, batch, sending, flow, pages>>

FinishJoins ==
  /\ tx = "dropped" /\ pc = "exit" /\ tx' = "joined"
  /\ UNCHANGED <<stream, read, queue, batch, sending, flow, pages>>

-----------------------------------------------------------------------------
(* sender_loop *)

Flush(n) == pc' = "flush" /\ next' = n /\ window' = FALSE

(* An answer to input goes out at once, a full batch too; anything else    *)
(* waits for its window, which later arrivals do not extend.               *)
Receive ==
  /\ pc = "recv" /\ queue # <<>>
  /\ queue' = Tail(queue) /\ hi' = Head(queue)
  /\ \/ ~window /\ Flush("recv")
     \/ hi' - lo >= FlushThreshold /\ Flush("drain")
     \/ hi' - lo < FlushThreshold /\ window' = TRUE /\ UNCHANGED <<pc, next>>
  /\ UNCHANGED <<reader, lo, sending, flow, pages>>

WindowElapses ==
  /\ pc = "recv" /\ window /\ queue = <<>>
  /\ Flush("recv")
  /\ UNCHANGED <<reader, queue, lo, hi, sending, flow, pages>>

Disconnected ==
  /\ pc = "recv" /\ queue = <<>> /\ tx # "open"
  /\ Flush(IF window THEN "final" ELSE "exit")
  /\ UNCHANGED <<reader, queue, lo, hi, sending, flow, pages>>

(* After a full batch, take what is already queued. *)
DrainTakes ==
  /\ pc = "drain" /\ queue # <<>>
  /\ queue' = Tail(queue) /\ hi' = Head(queue)
  /\ IF hi' - lo >= MaxChunk THEN Flush("drain") ELSE UNCHANGED <<pc, next, window>>
  /\ UNCHANGED <<reader, lo, sending, flow, pages>>

DrainOpensNoWindow ==                                                \* mutant
  /\ pc = "drain" /\ queue = <<>>
  /\ IF tx = "open"
     THEN pc' = "recv" /\ UNCHANGED <<next, window>>
     ELSE Flush("exit")
  /\ UNCHANGED <<reader, queue, lo, hi, sending, flow, pages>>

DrainEnds ==
  /\ pc = "drain" /\ queue = <<>>
  /\ IF tx = "open"
     THEN pc' = "recv" /\ window' = (lo < hi) /\ UNCHANGED next
     ELSE Flush("exit")
  /\ UNCHANGED <<reader, queue, lo, hi, sending, flow, pages>>

-----------------------------------------------------------------------------
(* flush_all and, once nothing more will come, flush_final *)

Limit == IF hi - lo > MaxChunk THEN lo + MaxChunk ELSE hi

ChunkEnd ==
  IF next = "exit" THEN Limit
  ELSE lo + utf8_complete_prefix_len(SubSeq(stream, lo + 1, Limit))

NextChunk ==
  /\ pc = "flush" /\ lo < ChunkEnd
  /\ end' = ChunkEnd /\ pc' = "reserve"
  /\ UNCHANGED <<reader, queue, next, window, lo, hi, target, out, flow, pages>>

FlushEnds ==
  /\ pc = "flush" /\ lo = ChunkEnd
  /\ IF next = "final" THEN Flush("exit") ELSE pc' = next /\ UNCHANGED <<next, window>>
  /\ UNCHANGED <<reader, queue, lo, hi, sending, flow, pages>>

ReserveUnlimited ==                                                  \* mutant
  /\ pc = "reserve" /\ pc' = "clone"
  /\ unacked' = unacked + (end - lo)
  /\ UNCHANGED <<reader, queue, next, window, lo, hi, sending, closed, forgot, pages>>

(* OutputFlow::reserve: wait while the page is too far behind. *)
Reserve ==
  /\ pc = "reserve" /\ (closed \/ unacked < HighWatermark)
  /\ pc' = "clone"
  /\ unacked' = unacked + (end - lo)
  /\ UNCHANGED <<reader, queue, next, window, lo, hi, sending, closed, forgot, pages>>

WaitForever == FALSE                                                 \* mutant

(* No acknowledgement for ACK_STALL_TIMEOUT: send again anyway. *)
Stalled ==
  /\ pc = "reserve" /\ ~closed /\ unacked >= HighWatermark
  /\ unacked' = 0 /\ forgot' = TRUE
  /\ UNCHANGED <<reader, queue, batch, sending, closed, pages>>

CloneChannel ==
  /\ pc = "clone" /\ pc' = "send" /\ target' = page
  /\ UNCHANGED <<reader, queue, next, window, lo, hi, end, out, flow, pages>>

SendDropsTheRest ==                                                  \* mutant
  /\ pc = "send" /\ target \notin gone
  /\ out' = Append(out, [to |-> target, from |-> lo, upto |-> end, last |-> next = "exit"])
  /\ view' = [view EXCEPT ![target] = @ + (end - lo)]
  /\ lo' = hi /\ pc' = "flush"
  /\ UNCHANGED <<reader, queue, next, window, hi, end, target, flow, page, gone, moving>>

SendChunk ==
  /\ pc = "send" /\ target \notin gone
  /\ out' = Append(out, [to |-> target, from |-> lo, upto |-> end, last |-> next = "exit"])
  /\ view' = [view EXCEPT ![target] = @ + (end - lo)]
  /\ lo' = end /\ pc' = "flush"
  /\ UNCHANGED <<reader, queue, next, window, hi, end, target, flow, page, gone, moving>>

(* The page is gone: what is pending is dropped. *)
SendFails ==
  /\ pc = "send" /\ target \in gone
  /\ lo' = hi /\ pc' = "flush"
  /\ UNCHANGED <<reader, queue, next, window, hi, sending, flow, pages>>

SenderStep ==
  \/ Receive \/ WindowElapses \/ Disconnected \/ DrainTakes \/ DrainEnds
  \/ NextChunk \/ FlushEnds \/ Reserve \/ Stalled \/ CloneChannel \/ SendChunk \/ SendFails

-----------------------------------------------------------------------------
(* The page, and the tab *)

AckUnderflows ==                                                     \* mutant
  \E p \in Pages \ gone : \E n \in 1 .. view[p] :
    /\ view' = [view EXCEPT ![p] = @ - n]
    /\ unacked' = unacked - n
    /\ UNCHANGED <<reader, queue, batch, sending, closed, forgot, page, gone, moving>>

(* ack_pty_output.  A reloaded page keeps its session's nonce, so the last *)
(* acknowledgements of the old page still count.                           *)
Ack ==
  \E p \in Pages \ gone : \E n \in 1 .. view[p] :
    /\ view' = [view EXCEPT ![p] = @ - n]
    /\ unacked' = IF unacked >= n THEN unacked - n ELSE 0
    /\ UNCHANGED <<reader, queue, batch, sending, closed, forgot, page, gone, moving>>

(* TerminalOutput::move_to: the new page's channel, then a fresh count. *)
MoveTo ==
  /\ page < MaxPages /\ ~moving
  /\ page' = page + 1 /\ moving' = TRUE
  /\ UNCHANGED <<reader, queue, batch, sending, flow, view, gone>>

ResetSkipped ==                                                      \* mutant
  /\ moving /\ moving' = FALSE
  /\ UNCHANGED <<reader, queue, batch, sending, flow, page, view, gone>>

ResetFlow ==
  /\ moving /\ moving' = FALSE
  /\ unacked' = 0 /\ forgot' = TRUE
  /\ UNCHANGED <<reader, queue, batch, sending, closed, page, view, gone>>

(* stop_pty_session: nobody will acknowledge this output again. *)
Close ==
  /\ ~closed /\ closed' = TRUE /\ forgot' = TRUE
  /\ UNCHANGED <<reader, queue, batch, sending, unacked, pages>>

PageDies ==
  /\ page \notin gone /\ gone' = gone \cup {page}
  /\ UNCHANGED <<reader, queue, batch, sending, flow, page, view, moving>>

Next ==
  \/ ReaderSends \/ FinishDrops \/ FinishJoins \/ SenderStep
  \/ Ack \/ MoveTo \/ ResetFlow \/ Close \/ PageDies

Spec == Init /\ [][Next]_vars

(* The sender thread runs, its waits time out, and a join notices its end. *)
FairSpec == Spec /\ WF_vars(SenderStep) /\ WF_vars(FinishJoins)

-----------------------------------------------------------------------------
(* Properties *)

TypeOK ==
  /\ stream \in Streams /\ read \in 0 .. Len(stream)
  /\ queue \in Seq(Nat) /\ Len(queue) <= QueueCapacity
  /\ tx \in {"open", "dropped", "joined"}
  /\ pc \in {"recv", "drain", "flush", "reserve", "clone", "send", "exit"}
  /\ next \in {"recv", "drain", "final", "exit"}
  /\ window \in BOOLEAN /\ closed \in BOOLEAN /\ moving \in BOOLEAN /\ forgot \in BOOLEAN
  /\ lo \in Nat /\ hi \in Nat /\ end \in Nat /\ unacked \in Nat
  /\ page \in Pages /\ target \in Pages /\ gone \subseteq Pages
  /\ view \in [Pages -> Nat]
  /\ out \in Seq([to : Pages, from : Nat, upto : Nat, last : BOOLEAN])

(* Every byte is sent once and in order, and what finish waits for is      *)
(* every queued byte: trailing output is never dropped (finish), unless    *)
(* the page it goes to is gone.                                            *)
SentInOrder ==
  /\ \A i \in 1 .. Len(out) :
       LET before == IF i = 1 THEN 0 ELSE out[i - 1].upto
       IN  IF gone = {} THEN out[i].from = before ELSE out[i].from >= before
  /\ gone = {} /\ lo > 0 => out[Len(out)].upto = lo
  /\ tx = "joined" => lo = read

(* A chunk that holds the first byte of a character holds all of it, even  *)
(* where the stream is malformed around it (flush_all); only the last      *)
(* bytes of a session go out as they are (flush_final).                    *)
CharactersStayWhole ==
  \A i \in 1 .. Len(out) : \A k \in (out[i].from + 1) .. out[i].upto :
    LET last == k + stream[k] - 1
    IN  /\ ~out[i].last /\ stream[k] \in 2 .. 4 /\ last <= Len(stream)
        /\ \A j \in (k + 1) .. last : stream[j] = Cont
        => last <= out[i].upto

(* Bytes no live page will ever acknowledge are not counted against the    *)
(* window for good (move_to replaces the channel before it resets): what   *)
(* is outstanding is with the current page or about to be sent.            *)
NothingLeaks ==
  ~moving /\ page \notin gone =>
    unacked <= view[page] + (IF pc \in {"clone", "send"} THEN end - lo ELSE 0)

(* As long as no acknowledgement was given up on, the page is never more   *)
(* than the high watermark and one chunk behind.                           *)
WindowHolds == ~forgot => view[1] < HighWatermark + MaxChunk

(* With no batching window open, only the beginning of a character is left *)
(* buffered: it needs more input, not a timeout (sender_loop).             *)
NothingStranded == pc = "recv" /\ ~window => utf8_complete_prefix_len(Pending) = 0

(* finish returns, whatever the page does. *)
FinishReturns == (tx = "dropped") ~> (tx = "joined")

(* A dying web view cannot wedge the reader: a full queue drains. *)
ReaderIsFreed == (Len(queue) = QueueCapacity) ~> (Len(queue) < QueueCapacity)

-----------------------------------------------------------------------------
(***************************************************************************)
(* The invariant the proofs carry.                                         *)
(***************************************************************************)
Sending == {"reserve", "clone", "send"}

(* The queue and the buffer hold the stream from lo to read, in order. *)
InvQueue ==
  /\ lo <= hi /\ hi <= read
  /\ \A i \in 1 .. Len(queue) : hi < queue[i] /\ queue[i] <= read
  /\ \A i, j \in 1 .. Len(queue) : i < j => queue[i] < queue[j]
  /\ IF queue = <<>> THEN hi = read ELSE queue[Len(queue)] = read

InvLoop ==
  /\ pc \in Sending => lo < end /\ end = ChunkEnd
  /\ next \in {"final", "exit"} => tx # "open" /\ queue = <<>> /\ pc \notin {"recv", "drain"}
  /\ pc = "exit" => next = "exit" /\ lo = hi
  /\ tx = "joined" => pc = "exit"

(* The chunk being sent, as far as the current page will acknowledge it. *)
Reserved == IF pc = "clone" \/ (pc = "send" /\ target = page) THEN end - lo ELSE 0

InvLeak == ~moving /\ page \notin gone => unacked <= view[page] + Reserved

(* Before the first page is replaced, every outstanding byte is counted. *)
InvWindow ==
  ~forgot =>
    /\ ~closed /\ unacked < HighWatermark + MaxChunk
    /\ target <= page /\ (page = 1 \/ (page = 2 /\ moving))
    /\ view[1] + (IF page = 2 THEN view[2] ELSE 0)
         + (IF pc \in {"clone", "send"} THEN end - lo ELSE 0) <= unacked
    /\ \A p \in Pages : p > page => view[p] = 0

InvOut ==
  LET sent == IF out = <<>> THEN 0 ELSE out[Len(out)].upto
  IN  /\ sent <= lo /\ (gone = {} => sent = lo)
      /\ \A i \in 1 .. Len(out) :
           LET before == IF i = 1 THEN 0 ELSE out[i - 1].upto
           IN  IF gone = {} THEN out[i].from = before ELSE out[i].from >= before

FlowInv ==
  InvQueue /\ InvLoop /\ InvLeak /\ InvWindow /\ InvOut /\ CharactersStayWhole /\ NothingStranded
=============================================================================
