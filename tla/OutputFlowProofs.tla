-------------------------- MODULE OutputFlowProofs --------------------------
(***************************************************************************)
(* Theorems about the output path, for every stream, queue capacity, batch *)
(* and chunk size, window and number of reloads.                           *)
(***************************************************************************)
EXTENDS OutputFlow, SequenceTheorems, TLAPS

(* A piece of a sequence, by offsets. *)
LEMMA Piece ==
  ASSUME NEW S, NEW s \in Seq(S), NEW a \in Nat, NEW b \in Nat, a <= b, b <= Len(s)
  PROVE  /\ SubSeq(s, a + 1, b) \in Seq(S)
         /\ Len(SubSeq(s, a + 1, b)) = b - a
         /\ \A i \in 1 .. (b - a) : SubSeq(s, a + 1, b)[i] = s[a + i]
<1>1. CASE a = b
  <2>1. SubSeq(s, a + 1, b) = <<>>
    BY <1>1
  <2> QED BY <1>1, <2>1
<1>2. CASE a < b
  BY <1>2
<1> QED BY <1>1, <1>2

(* What utf8_complete_prefix_len leaves off is the beginning of one        *)
(* character, and it leaves it off whenever there is one.                  *)
LEMMA Prefix ==
  ASSUME NEW d \in Seq(Cont .. BadLead)
  PROVE  LET n == utf8_complete_prefix_len(d)
         IN  /\ n \in Nat /\ n <= Len(d) /\ Len(d) - n <= 4
             /\ n < Len(d) => Partial(d, Len(d) - n)
             /\ n = Len(d) => \A s \in 1 .. 4 : s <= Len(d) => ~Partial(d, s)
<1> DEFINE tails == {s \in 1 .. 4 : s <= Len(d) /\ Partial(d, s)}
           pick == CHOOSE s \in tails : TRUE
<1>0. Len(d) \in Nat
  OBVIOUS
<1>1. CASE tails = {}
  <2>1. utf8_complete_prefix_len(d) = Len(d)
    BY <1>1 DEF utf8_complete_prefix_len
  <2>2. \A s \in 1 .. 4 : s <= Len(d) => ~Partial(d, s)
    BY <1>1
  <2> QED BY <1>0, <2>1, <2>2
<1>2. CASE tails # {}
  <2>1. pick \in tails
    BY <1>2
  <2>2. utf8_complete_prefix_len(d) = Len(d) - pick
    BY <1>2 DEF utf8_complete_prefix_len
  <2>3. pick \in 1 .. 4 /\ pick <= Len(d) /\ Partial(d, pick)
    BY <2>1
  <2> HIDE DEF pick, tails
  <2>4. Len(d) - (Len(d) - pick) = pick
    BY <1>0, <2>3
  <2> QED BY <1>0, <2>2, <2>3, <2>4
<1> QED BY <1>1, <1>2

LEMMA LimitFacts ==
  ASSUME TypeOK, InvQueue
  PROVE  /\ Limit \in Nat /\ lo <= Limit /\ Limit <= hi /\ hi <= Len(stream)
         /\ Limit - lo <= MaxChunk /\ (lo < hi => lo < Limit)
         /\ stream \in Seq(Cont .. BadLead) /\ Len(stream) \in Nat
BY OutputAssumption DEF TypeOK, InvQueue, Limit

(* Where the next chunk ends, and why it does not end inside a character. *)
LEMMA ChunkFacts ==
  ASSUME TypeOK, InvQueue
  PROVE  /\ ChunkEnd \in Nat /\ lo <= ChunkEnd /\ ChunkEnd <= Limit
         /\ next # "exit" =>
              /\ ChunkEnd < Limit =>
                   stream[ChunkEnd + 1] \in 2 .. 4 /\ stream[ChunkEnd + 1] > Limit - ChunkEnd
              /\ ChunkEnd = Limit =>
                   \A k \in (lo + 1) .. Limit :
                     /\ stream[k] \in 2 .. 4 /\ stream[k] > Limit - k + 1
                     /\ Limit - k + 1 <= 4
                     => \E j \in (k + 1) .. Limit : stream[j] # Cont
<1> DEFINE d == SubSeq(stream, lo + 1, Limit)
           n == utf8_complete_prefix_len(d)
<1>0. /\ Limit \in Nat /\ lo \in Nat /\ lo <= Limit /\ Limit <= Len(stream)
      /\ stream \in Seq(Cont .. BadLead) /\ Len(stream) \in Nat
  BY LimitFacts DEF TypeOK
<1>1. CASE next = "exit"
  BY <1>0, <1>1 DEF ChunkEnd
<1>2. CASE next # "exit"
  <2>1. ChunkEnd = lo + n
    BY <1>2 DEF ChunkEnd
  <2>2. /\ d \in Seq(Cont .. BadLead) /\ Len(d) = Limit - lo
        /\ \A i \in 1 .. (Limit - lo) : d[i] = stream[lo + i]
    BY ZenonT(40), <1>0, Piece
  <2>3. /\ n \in Nat /\ n <= Len(d)
        /\ n < Len(d) => Partial(d, Len(d) - n)
        /\ n = Len(d) => \A s \in 1 .. 4 : s <= Len(d) => ~Partial(d, s)
    BY <2>2, Prefix
  <2> HIDE DEF d, n
  <2>4. ChunkEnd \in Nat /\ lo <= ChunkEnd /\ ChunkEnd <= Limit
    BY <1>0, <2>1, <2>2, <2>3
  <2>5. ASSUME ChunkEnd < Limit
        PROVE  stream[ChunkEnd + 1] \in 2 .. 4 /\ stream[ChunkEnd + 1] > Limit - ChunkEnd
    <3>1. Partial(d, Len(d) - n) /\ n + 1 \in 1 .. (Limit - lo)
      BY <1>0, <2>1, <2>2, <2>3, <2>5
    <3>2. Len(d) - (Len(d) - n) + 1 = n + 1
      BY <1>0, <2>2, <2>3
    <3>3. d[n + 1] \in 2 .. 4 /\ d[n + 1] > Len(d) - n
      BY <3>1, <3>2 DEF Partial
    <3>4. d[n + 1] = stream[ChunkEnd + 1] /\ Len(d) - n = Limit - ChunkEnd
      <4>1. lo + (n + 1) = ChunkEnd + 1
        BY <1>0, <2>1, <2>3
      <4> QED BY <1>0, <2>1, <2>2, <2>3, <3>1, <4>1
    <3> QED BY <3>3, <3>4
  <2>6. ASSUME ChunkEnd = Limit, NEW k \in (lo + 1) .. Limit,
               stream[k] \in 2 .. 4, stream[k] > Limit - k + 1, Limit - k + 1 <= 4
        PROVE  \E j \in (k + 1) .. Limit : stream[j] # Cont
    <3> DEFINE s == Limit - k + 1
    <3>1. s \in 1 .. 4 /\ s <= Len(d) /\ k \in Nat
      BY <1>0, <2>2, <2>6
    <3>2. ~Partial(d, s)
      <4>1. n = Len(d)
        BY <1>0, <2>1, <2>2, <2>3, <2>6
      <4> QED BY <2>3, <3>1, <4>1
    <3>3. Len(d) - s + 1 = k - lo /\ k - lo \in 1 .. (Limit - lo)
      BY <1>0, <2>2, <2>6, <3>1
    <3>4. d[k - lo] = stream[k]
      <4>1. lo + (k - lo) = k
        BY <1>0, <3>1
      <4> QED BY <2>2, <3>3, <4>1
    <3>5. PICK i \in (k - lo + 1) .. Len(d) : d[i] # Cont
      <4>1. d[k - lo] \in 2 .. 4 /\ d[k - lo] > s
        BY <2>6, <3>4
      <4> QED BY <3>2, <3>3, <4>1 DEF Partial
    <3>6. i \in 1 .. (Limit - lo) /\ lo + i \in (k + 1) .. Limit
      BY <1>0, <2>2, <3>1, <3>3, <3>5
    <3> QED BY <2>2, <3>5, <3>6
  <2> QED BY <2>4, <2>5, <2>6
<1> QED BY <1>1, <1>2

-----------------------------------------------------------------------------
(* Types *)

LEMMA TypeInit == Init => TypeOK
<1> SUFFICES ASSUME Init PROVE TypeOK
  OBVIOUS
<1>1. stream \in Streams /\ read \in 0 .. Len(stream)
  BY OutputAssumption DEF Init
<1>2. queue \in Seq(Nat) /\ Len(queue) <= QueueCapacity
  BY OutputAssumption DEF Init
<1>3. page \in Pages /\ target \in Pages /\ gone \subseteq Pages /\ view \in [Pages -> Nat]
  BY OutputAssumption DEF Init, Pages
<1>4. out \in Seq([to : Pages, from : Nat, upto : Nat, last : BOOLEAN])
  BY DEF Init
<1> QED BY <1>1, <1>2, <1>3, <1>4 DEF Init, TypeOK

LEMMA TypeNext ==
  ASSUME TypeOK, InvQueue, InvLoop, [Next]_vars
  PROVE  TypeOK'
<1> USE DEF reader, batch, sending, flow, pages
<1>0. stream \in Seq(Cont .. BadLead) /\ Len(stream) \in Nat /\ Len(queue) \in Nat
  BY OutputAssumption DEF TypeOK
<1>1. CASE ReaderSends
  <2>1. PICK n \in 1 .. MaxMessage : /\ read + n <= Len(stream)
                                     /\ read' = read + n /\ queue' = Append(queue, read + n)
    BY <1>1 DEF ReaderSends
  <2>2. read' \in 0 .. Len(stream) /\ read + n \in Nat
    BY <1>0, <2>1, OutputAssumption DEF TypeOK
  <2>3. queue' \in Seq(Nat) /\ Len(queue') = Len(queue) + 1
    BY <2>1, <2>2 DEF TypeOK
  <2>4. Len(queue') <= QueueCapacity
    BY <1>0, <1>1, <2>3, OutputAssumption DEF ReaderSends
  <2> QED BY <1>1, <2>2, <2>3, <2>4 DEF ReaderSends, TypeOK
<1>2. CASE Receive \/ DrainTakes
  <2>1. queue # <<>> /\ queue' = Tail(queue) /\ hi' = Head(queue)
    BY <1>2 DEF Receive, DrainTakes
  <2>2. queue' \in Seq(Nat) /\ Len(queue') <= QueueCapacity /\ hi' \in Nat
    BY <1>0, <2>1, OutputAssumption DEF TypeOK
  <2>3. CASE Receive
    BY <2>2, <2>3 DEF Receive, TypeOK, Flush
  <2>4. CASE DrainTakes
    BY <2>2, <2>4 DEF DrainTakes, TypeOK, Flush
  <2> QED BY <1>2, <2>3, <2>4
<1>3. CASE FinishDrops \/ FinishJoins
  BY <1>3 DEF FinishDrops, FinishJoins, TypeOK
<1>4. CASE WindowElapses \/ Disconnected \/ DrainEnds
  <2>1. CASE WindowElapses
    BY <2>1 DEF WindowElapses, TypeOK, Flush
  <2>2. CASE Disconnected
    BY <2>2 DEF Disconnected, TypeOK, Flush
  <2>3. CASE DrainEnds
    <3>1. window' \in BOOLEAN
      <4>1. CASE tx = "open"
        <5>1. window' = (lo < hi)
          BY <2>3, <4>1 DEF DrainEnds
        <5>2. CASE lo < hi
          BY <5>1, <5>2, Zenon
        <5>3. CASE ~(lo < hi)
          <6>1. (lo < hi) = FALSE
            BY <5>3
          <6> QED BY <5>1, <6>1
        <5> QED BY <5>2, <5>3
      <4>2. CASE tx # "open"
        BY <2>3, <4>2 DEF DrainEnds, Flush
      <4> QED BY <4>1, <4>2
    <3> QED BY <2>3, <3>1 DEF DrainEnds, TypeOK, Flush
  <2> QED BY <1>4, <2>1, <2>2, <2>3
<1>5. CASE NextChunk
  BY <1>5, ChunkFacts DEF NextChunk, TypeOK
<1>6. CASE FlushEnds
  BY <1>6 DEF FlushEnds, TypeOK, Flush
<1>7. CASE Reserve
  <2>1. unacked' \in Nat
    BY <1>7 DEF Reserve, TypeOK, InvLoop, Sending
  <2> QED BY <1>7, <2>1 DEF Reserve, TypeOK
<1>8. CASE Stalled \/ CloneChannel
  <2>1. CASE Stalled
    BY <2>1 DEF Stalled, TypeOK
  <2>2. CASE CloneChannel
    BY <2>2 DEF CloneChannel, TypeOK
  <2> QED BY <1>8, <2>1, <2>2
<1>9. CASE SendChunk
  <2>1. end - lo \in Nat
    BY <1>9 DEF SendChunk, TypeOK, InvLoop, Sending
  <2>2. view' \in [Pages -> Nat]
    BY <1>9, <2>1 DEF SendChunk, TypeOK
  <2>3. [to |-> target, from |-> lo, upto |-> end, last |-> next = "exit"]
          \in [to : Pages, from : Nat, upto : Nat, last : BOOLEAN]
    BY DEF TypeOK
  <2>4. out' \in Seq([to : Pages, from : Nat, upto : Nat, last : BOOLEAN])
    BY <1>9, <2>3 DEF SendChunk, TypeOK
  <2> QED BY <1>9, <2>2, <2>4 DEF SendChunk, TypeOK
<1>10. CASE SendFails
  BY <1>10 DEF SendFails, TypeOK
<1>11. CASE Ack
  <2>1. PICK p \in Pages \ gone : \E n \in 1 .. view[p] :
          /\ view' = [view EXCEPT ![p] = @ - n]
          /\ unacked' = IF unacked >= n THEN unacked - n ELSE 0
    BY <1>11 DEF Ack
  <2>2. PICK n \in 1 .. view[p] :
          /\ view' = [view EXCEPT ![p] = @ - n]
          /\ unacked' = IF unacked >= n THEN unacked - n ELSE 0
    BY <2>1
  <2>3. view[p] \in Nat /\ n \in Nat /\ n <= view[p]
    BY <2>1, <2>2 DEF TypeOK
  <2>4. view' \in [Pages -> Nat] /\ unacked' \in Nat
    BY <2>2, <2>3 DEF TypeOK
  <2> QED BY <1>11, <2>4 DEF Ack, TypeOK
<1>12. CASE MoveTo
  <2>1. page' \in Pages
    BY <1>12, OutputAssumption DEF MoveTo, TypeOK, Pages
  <2> QED BY <1>12, <2>1 DEF MoveTo, TypeOK
<1>13. CASE ResetFlow \/ Close \/ PageDies
  <2>1. CASE ResetFlow
    BY <2>1 DEF ResetFlow, TypeOK
  <2>2. CASE Close
    BY <2>2 DEF Close, TypeOK
  <2>3. CASE PageDies
    BY <2>3 DEF PageDies, TypeOK
  <2> QED BY <1>13, <2>1, <2>2, <2>3
<1>14. CASE UNCHANGED vars
  BY <1>14 DEF vars, TypeOK
<1> QED BY <1>1, <1>2, <1>3, <1>4, <1>5, <1>6, <1>7, <1>8, <1>9, <1>10, <1>11, <1>12, <1>13, <1>14
        DEF Next, SenderStep

-----------------------------------------------------------------------------
(* The queue and the loop *)

LEMMA QueueNext ==
  ASSUME TypeOK, InvQueue, InvLoop, [Next]_vars
  PROVE  InvQueue'
<1> USE DEF reader, batch, sending, flow, pages
<1>0. /\ lo \in Nat /\ hi \in Nat /\ read \in Nat /\ end \in Nat
      /\ queue \in Seq(Nat) /\ Len(queue) \in Nat
  BY OutputAssumption DEF TypeOK
<1>1. CASE UNCHANGED <<lo, hi, read, queue>>
  BY <1>1 DEF InvQueue
<1>2. CASE ReaderSends
  <2>1. PICK n \in 1 .. MaxMessage : read' = read + n /\ queue' = Append(queue, read + n)
    BY <1>2 DEF ReaderSends
  <2>2. n \in Nat /\ n >= 1 /\ read + n \in Nat /\ lo' = lo /\ hi' = hi
    BY <1>0, <1>2, <2>1, OutputAssumption DEF ReaderSends
  <2>3. /\ Len(queue') = Len(queue) + 1 /\ queue'[Len(queue) + 1] = read + n
        /\ \A i \in 1 .. Len(queue) : queue'[i] = queue[i] /\ queue[i] \in Nat
    BY <1>0, <2>1, <2>2
  <2>4. \A i \in 1 .. Len(queue') : i \in 1 .. Len(queue) \/ i = Len(queue) + 1
    BY <1>0, <2>3
  <2>5. \A i \in 1 .. Len(queue') : hi' < queue'[i] /\ queue'[i] <= read'
    BY <1>0, <2>1, <2>2, <2>3, <2>4 DEF InvQueue
  <2>6. \A i, j \in 1 .. Len(queue') : i < j => queue'[i] < queue'[j]
    BY <1>0, <2>1, <2>2, <2>3, <2>4 DEF InvQueue
  <2>7. queue' # <<>>
    BY <1>0, <2>3
  <2> QED BY SMTT(20), <1>0, <2>1, <2>2, <2>3, <2>5, <2>6, <2>7 DEF InvQueue
<1>3. CASE Receive \/ DrainTakes
  <2>1. queue # <<>> /\ queue' = Tail(queue) /\ hi' = queue[1] /\ lo' = lo /\ read' = read
    BY <1>3 DEF Receive, DrainTakes
  <2>2. /\ Len(queue) >= 1 /\ Len(queue') = Len(queue) - 1
        /\ \A i \in 1 .. Len(queue') : queue'[i] = queue[i + 1] /\ i + 1 \in 1 .. Len(queue)
        /\ \A i \in 1 .. Len(queue) : queue[i] \in Nat
    BY <1>0, <2>1
  <2>3. queue' = <<>> <=> Len(queue) = 1
    <3>1. queue' \in Seq(Nat)
      BY <1>0, <2>1
    <3>2. queue' = <<>> <=> Len(queue') = 0
      BY <3>1
    <3> QED BY <1>0, <2>2, <3>2
  <2>4. \A i \in 1 .. Len(queue') : hi' < queue'[i] /\ queue'[i] <= read'
    BY <1>0, <2>1, <2>2 DEF InvQueue
  <2>5. \A i, j \in 1 .. Len(queue') : i < j => queue'[i] < queue'[j]
    BY <1>0, <2>1, <2>2 DEF InvQueue
  <2>6. IF queue' = <<>> THEN hi' = read' ELSE queue'[Len(queue')] = read'
    BY <1>0, <2>1, <2>2, <2>3 DEF InvQueue
  <2>7. lo' <= hi' /\ hi' <= read'
    BY <1>0, <2>1, <2>2 DEF InvQueue
  <2> QED BY <2>4, <2>5, <2>6, <2>7 DEF InvQueue
<1>4. CASE SendChunk
  <2>1. end <= hi
    <3>1. end = ChunkEnd
      BY <1>4 DEF SendChunk, InvLoop, Sending
    <3> QED BY <1>0, <3>1, ChunkFacts, LimitFacts
  <2> QED BY <1>0, <1>4, <2>1 DEF SendChunk, InvQueue
<1>5. CASE SendFails
  BY <1>0, <1>5 DEF SendFails, InvQueue
<1> QED BY <1>1, <1>2, <1>3, <1>4, <1>5
        DEF Next, SenderStep, FinishDrops, FinishJoins, WindowElapses, Disconnected, DrainEnds,
            NextChunk, FlushEnds, Reserve, Stalled, CloneChannel, Ack, MoveTo, ResetFlow, Close,
            PageDies, Flush, vars

LEMMA LoopNext ==
  ASSUME TypeOK, InvQueue, InvLoop, [Next]_vars
  PROVE  InvLoop'
<1> USE DEF reader, batch, sending, flow, pages
<1>1. CASE UNCHANGED <<stream, pc, next, lo, hi, end, queue, tx>>
  BY <1>1 DEF InvLoop, ChunkEnd, Limit
<1>2. CASE ReaderSends
  BY <1>2 DEF ReaderSends, InvLoop, ChunkEnd, Limit
<1>3. CASE FinishDrops \/ FinishJoins
  BY <1>3 DEF FinishDrops, FinishJoins, InvLoop, ChunkEnd, Limit
<1>4. CASE Receive \/ WindowElapses \/ Disconnected
  BY <1>4 DEF Receive, WindowElapses, Disconnected, Flush, InvLoop, Sending
<1>5. CASE DrainTakes \/ DrainEnds
  BY <1>5 DEF DrainTakes, DrainEnds, Flush, InvLoop, Sending, TypeOK
<1>6. CASE NextChunk
  BY <1>6 DEF NextChunk, InvLoop, ChunkEnd, Limit
<1>7. CASE FlushEnds
  <2>1. next = "exit" => lo = hi
    BY <1>7, LimitFacts DEF FlushEnds, ChunkEnd, TypeOK, InvQueue
  <2> QED BY <1>7, <2>1 DEF FlushEnds, Flush, InvLoop, Sending, TypeOK
<1>8. CASE Reserve \/ CloneChannel
  BY <1>8 DEF Reserve, CloneChannel, InvLoop, ChunkEnd, Limit, Sending
<1>9. CASE SendChunk \/ SendFails
  BY <1>9 DEF SendChunk, SendFails, InvLoop, Sending
<1> QED BY <1>1, <1>2, <1>3, <1>4, <1>5, <1>6, <1>7, <1>8, <1>9
        DEF Next, SenderStep, Stalled, Ack, MoveTo, ResetFlow, Close, PageDies, vars

-----------------------------------------------------------------------------
(* The acknowledgement window *)

LEMMA LeakNext ==
  ASSUME TypeOK, InvQueue, InvLoop, InvLeak, [Next]_vars
  PROVE  InvLeak'
<1> USE DEF reader, batch, sending, flow, pages
<1>0. /\ unacked \in Nat /\ lo \in Nat /\ end \in Nat /\ page \in Pages
      /\ view \in [Pages -> Nat] /\ view[page] \in Nat /\ target \in Pages
      /\ pc \in Sending => lo < end
  BY DEF TypeOK, InvLoop
<1>1. CASE UNCHANGED <<unacked, pc, lo, end, target, page, view>> /\ (moving => moving') /\ gone \subseteq gone'
  BY <1>1 DEF InvLeak, Reserved
<1>2. CASE Receive \/ WindowElapses \/ Disconnected \/ DrainTakes \/ DrainEnds
  BY <1>2 DEF Receive, WindowElapses, Disconnected, DrainTakes, DrainEnds, Flush, InvLeak, Reserved
<1>3. CASE NextChunk \/ FlushEnds
  BY <1>3 DEF NextChunk, FlushEnds, Flush, InvLeak, Reserved, TypeOK
<1>4. CASE Reserve
  BY <1>0, <1>4 DEF Reserve, InvLeak, Reserved, Sending
<1>5. CASE Stalled \/ ResetFlow
  BY <1>0, <1>5 DEF Stalled, ResetFlow, InvLeak, Reserved, Sending
<1>6. CASE CloneChannel
  BY <1>0, <1>6 DEF CloneChannel, InvLeak, Reserved
<1>7. CASE SendChunk
  <2>1. view'[page] = view[page] + (IF target = page THEN end - lo ELSE 0)
    BY <1>0, <1>7 DEF SendChunk
  <2> QED BY <1>0, <1>7, <2>1 DEF SendChunk, InvLeak, Reserved, Sending
<1>8. CASE SendFails
  BY <1>0, <1>8 DEF SendFails, InvLeak, Reserved
<1>9. CASE Ack
  <2>1. PICK p \in Pages : \E n \in 1 .. view[p] :
          /\ view' = [view EXCEPT ![p] = @ - n]
          /\ unacked' = IF unacked >= n THEN unacked - n ELSE 0
    BY <1>9 DEF Ack
  <2>2. PICK n \in 1 .. view[p] :
          /\ view' = [view EXCEPT ![p] = @ - n]
          /\ unacked' = IF unacked >= n THEN unacked - n ELSE 0
    BY <2>1
  <2>3. view[p] \in Nat /\ n \in Nat /\ n <= view[p]
    BY <1>0, <2>1, <2>2
  <2>4. view'[page] = view[page] - (IF p = page THEN n ELSE 0)
    BY <1>0, <2>2, <2>3
  <2>5. Reserved' = Reserved /\ Reserved \in Nat /\ page' = page /\ moving' = moving /\ gone' = gone
    BY <1>0, <1>9 DEF Ack, Reserved, Sending
  <2> QED BY <1>0, <2>2, <2>3, <2>4, <2>5 DEF InvLeak
<1>10. CASE MoveTo
  BY <1>10 DEF MoveTo, InvLeak
<1> QED BY <1>1, <1>2, <1>3, <1>4, <1>5, <1>6, <1>7, <1>8, <1>9, <1>10
        DEF Next, SenderStep, ReaderSends, FinishDrops, FinishJoins, Close, PageDies, vars

LEMMA WindowNext ==
  ASSUME TypeOK, InvQueue, InvLoop, InvWindow, [Next]_vars
  PROVE  InvWindow'
<1> USE DEF reader, batch, sending, flow, pages
<1> DEFINE inHand == IF pc \in {"clone", "send"} THEN end - lo ELSE 0
<1>0. /\ unacked \in Nat /\ lo \in Nat /\ end \in Nat /\ page \in Pages /\ target \in Pages
      /\ view \in [Pages -> Nat] /\ \A p \in Pages : view[p] \in Nat
      /\ pc \in Sending => lo < end /\ end - lo <= MaxChunk
      /\ HighWatermark \in Nat /\ MaxChunk \in Nat /\ MaxPages \in Nat
      /\ 1 \in Pages /\ (page = 2 => 2 \in Pages) /\ Pages \subseteq Nat
  <2>1. pc \in Sending => lo < end /\ end - lo <= MaxChunk
    <3> SUFFICES ASSUME pc \in Sending PROVE lo < end /\ end - lo <= MaxChunk
      OBVIOUS
    <3>1. lo < end /\ end = ChunkEnd
      BY DEF InvLoop
    <3>2. /\ ChunkEnd <= Limit /\ Limit - lo <= MaxChunk
          /\ ChunkEnd \in Nat /\ Limit \in Nat /\ lo \in Nat /\ MaxChunk \in Nat
      BY ChunkFacts, LimitFacts, OutputAssumption DEF TypeOK
    <3> QED BY <3>1, <3>2
  <2>2. MaxPages \in Nat \ {0} /\ HighWatermark \in Nat /\ MaxChunk \in Nat  BY OutputAssumption
  <2>3. 1 \in Pages /\ Pages \subseteq Nat  BY <2>2 DEF Pages
  <2>4. page \in Pages /\ target \in Pages /\ view \in [Pages -> Nat]  BY DEF TypeOK
  <2>5. \A p \in Pages : view[p] \in Nat  BY <2>4
  <2>6. unacked \in Nat /\ lo \in Nat /\ end \in Nat  BY DEF TypeOK
  <2>7. page = 2 => 2 \in Pages  BY <2>4
  <2> QED BY <2>1, <2>2, <2>3, <2>4, <2>5, <2>6, <2>7
<1>1. CASE UNCHANGED <<unacked, closed, forgot, pc, lo, end, target, page, moving, view>>
  BY <1>1 DEF InvWindow
<1>2. CASE forgot'
  BY <1>2 DEF InvWindow
<1>3. CASE Receive \/ WindowElapses \/ Disconnected \/ DrainTakes \/ DrainEnds
  BY <1>0, <1>3 DEF Receive, WindowElapses, Disconnected, DrainTakes, DrainEnds, Flush, InvWindow
<1>4. CASE NextChunk \/ FlushEnds
  BY <1>0, <1>4 DEF NextChunk, FlushEnds, Flush, InvWindow, TypeOK
<1>5. CASE Reserve
  BY <1>0, <1>5 DEF Reserve, InvWindow, Sending
<1>6. CASE CloneChannel
  BY <1>0, <1>6 DEF CloneChannel, InvWindow
<1>7. CASE SendChunk
  <2>0. SUFFICES ASSUME ~forgot PROVE InvWindow'
    BY <1>7 DEF SendChunk, InvWindow
  <2>1. /\ ~closed /\ unacked < HighWatermark + MaxChunk
        /\ target <= page /\ (page = 1 \/ (page = 2 /\ moving))
        /\ view[1] + (IF page = 2 THEN view[2] ELSE 0) + (end - lo) <= unacked
        /\ \A p \in Pages : p > page => view[p] = 0
    BY <1>7, <2>0 DEF InvWindow, SendChunk
  <2>2. \A p \in Pages : view'[p] = view[p] + (IF p = target THEN end - lo ELSE 0)
    BY <1>0, <1>7 DEF SendChunk
  <2>3. \A p \in Pages : p > page => view'[p] = 0
    BY <1>0, <2>1, <2>2
  <2>4. target = 1 \/ (target = 2 /\ page = 2)
    BY <1>0, <2>1 DEF Pages
  <2>5. view'[1] + (IF page = 2 THEN view'[2] ELSE 0) <= unacked
    BY <1>0, <1>7, <2>1, <2>2, <2>4 DEF Sending, SendChunk
  <2> QED BY <1>0, <1>7, <2>1, <2>3, <2>5 DEF SendChunk, InvWindow
<1>8. CASE SendFails
  BY <1>0, <1>8 DEF SendFails, InvWindow, Sending
<1>9. CASE Ack
  <2>0. SUFFICES ASSUME ~forgot PROVE InvWindow'
    BY <1>9 DEF Ack, InvWindow
  <2>1. /\ ~closed /\ unacked < HighWatermark + MaxChunk
        /\ target <= page /\ (page = 1 \/ (page = 2 /\ moving))
        /\ view[1] + (IF page = 2 THEN view[2] ELSE 0) + inHand <= unacked
        /\ \A p \in Pages : p > page => view[p] = 0
    BY <2>0 DEF InvWindow
  <2>2. PICK p \in Pages : \E n \in 1 .. view[p] :
          /\ view' = [view EXCEPT ![p] = @ - n]
          /\ unacked' = IF unacked >= n THEN unacked - n ELSE 0
    BY <1>9 DEF Ack
  <2>3. PICK n \in 1 .. view[p] :
          /\ view' = [view EXCEPT ![p] = @ - n]
          /\ unacked' = IF unacked >= n THEN unacked - n ELSE 0
    BY <2>2
  <2>4. view[p] \in Nat /\ n \in Nat /\ 1 <= n /\ n <= view[p]
    BY <1>0, <2>3
  <2>5. p = 1 \/ (p = 2 /\ page = 2)
    BY <1>0, <2>1, <2>4 DEF Pages
  <2>6. inHand \in Nat
    BY <1>0 DEF Sending
  <2>7. \A q \in Pages : view'[q] = view[q] - (IF q = p THEN n ELSE 0)
    BY <1>0, <2>3
  <2>8. \A q \in Pages : q > page => view'[q] = 0
    BY <1>0, <2>1, <2>5, <2>7
  <2>9. n <= unacked /\ unacked' = unacked - n
    BY <1>0, <2>1, <2>3, <2>4, <2>5, <2>6
  <2>10. view'[1] + (IF page = 2 THEN view'[2] ELSE 0) + inHand <= unacked'
    BY <1>0, <2>1, <2>4, <2>5, <2>6, <2>7, <2>9
  <2>11. inHand' = inHand
    BY <1>9 DEF Ack
  <2> QED BY <1>0, <1>9, <2>1, <2>4, <2>8, <2>9, <2>10, <2>11 DEF Ack, InvWindow
<1>10. CASE MoveTo
  BY <1>0, <1>10 DEF MoveTo, InvWindow, Pages
<1> QED BY <1>1, <1>2, <1>3, <1>4, <1>5, <1>6, <1>7, <1>8, <1>9, <1>10
        DEF Next, SenderStep, ReaderSends, FinishDrops, FinishJoins, Stalled, ResetFlow, Close, PageDies, vars

-----------------------------------------------------------------------------
(* What has been sent, and what is left *)

LEMMA OutNext ==
  ASSUME TypeOK, InvQueue, InvLoop, InvOut, [Next]_vars
  PROVE  InvOut'
<1> USE DEF reader, batch, sending, flow, pages
<1>0. /\ lo \in Nat /\ hi \in Nat /\ end \in Nat /\ lo <= hi /\ Len(out) \in Nat
      /\ out \in Seq([to : Pages, from : Nat, upto : Nat, last : BOOLEAN])
      /\ \A i \in 1 .. Len(out) : out[i].upto \in Nat /\ out[i].from \in Nat
  <2>1. out \in Seq([to : Pages, from : Nat, upto : Nat, last : BOOLEAN])
    BY DEF TypeOK
  <2>2. \A i \in 1 .. Len(out) : out[i] \in [to : Pages, from : Nat, upto : Nat, last : BOOLEAN]
    BY <2>1, ElementOfSeq
  <2>3. \A i \in 1 .. Len(out) : out[i].upto \in Nat /\ out[i].from \in Nat
    BY <2>2
  <2> QED BY <2>1, <2>3 DEF TypeOK, InvQueue
<1>1. CASE UNCHANGED <<lo, out, gone>>
  BY <1>1 DEF InvOut
<1>2. CASE PageDies
  <2>1. lo' = lo /\ out' = out /\ gone' # {}
    BY <1>2 DEF PageDies
  <2>2. \A i \in 1 .. Len(out) :
          LET before == IF i = 1 THEN 0 ELSE out[i - 1].upto IN out[i].from >= before
    <3> SUFFICES ASSUME NEW i \in 1 .. Len(out)
                 PROVE  out[i].from >= (IF i = 1 THEN 0 ELSE out[i - 1].upto)
      OBVIOUS
    <3>1. i # 1 => i - 1 \in 1 .. Len(out)
      BY <1>0
    <3>2. out[i].from \in Nat  BY <1>0
    <3>3. CASE i = 1
      <4>1. gone = {} => out[1].from = 0  BY <3>3 DEF InvOut
      <4> QED BY <3>2, <3>3, <4>1
    <3>4. CASE i # 1
      <4>1. i - 1 \in 1 .. Len(out) /\ out[i - 1].upto \in Nat  BY <1>0, <3>1, <3>4
      <4>2. IF gone = {} THEN out[i].from = out[i - 1].upto ELSE out[i].from >= out[i - 1].upto
        BY <3>4 DEF InvOut
      <4> QED BY <3>2, <3>4, <4>1, <4>2
    <3> QED BY <3>3, <3>4
  <2> QED BY <1>0, <2>1, <2>2 DEF InvOut
<1>3. CASE SendFails
  <2>1. gone # {} /\ gone' = gone /\ out' = out /\ lo' = hi
    BY <1>3 DEF SendFails
  <2>2. out # <<>> => Len(out) \in 1 .. Len(out)
    BY <1>0
  <2> QED BY <1>0, <2>1, <2>2 DEF InvOut
<1>4. CASE SendChunk
  <2> DEFINE n == Len(out)
             r == [to |-> target, from |-> lo, upto |-> end, last |-> next = "exit"]
  <2>1. lo' = end /\ lo < end /\ gone' = gone /\ out' = Append(out, r)
    BY <1>4 DEF SendChunk, InvLoop, Sending
  <2>2. /\ Len(out') = n + 1 /\ out'[n + 1] = r
        /\ \A i \in 1 .. n : out'[i] = out[i]
    BY <1>0, <2>1
  <2>3. out' # <<>>
    BY <1>0, <2>2
  <2>4. out = <<>> <=> n = 0
    BY <1>0
  <2>5. r.from = lo /\ r.upto = end
    OBVIOUS
  <2> HIDE DEF r
  <2>6. ASSUME NEW i \in 1 .. Len(out')
        PROVE  LET before == IF i = 1 THEN 0 ELSE out'[i - 1].upto
               IN  IF gone' = {} THEN out'[i].from = before ELSE out'[i].from >= before
    <3>1. CASE i \in 1 .. n
      <4>1. i # 1 => i - 1 \in 1 .. n
        BY <1>0, <3>1
      <4> QED BY <2>1, <2>2, <3>1, <4>1 DEF InvOut
    <3>2. CASE i = n + 1
      <4>1. n # 0 => n \in 1 .. n /\ i - 1 = n /\ i # 1
        BY <1>0, <3>2
      <4>2. CASE n = 0
        BY <1>0, <2>1, <2>2, <2>4, <2>5, <3>2, <4>2 DEF InvOut
      <4>3. CASE n # 0
        BY <1>0, <2>1, <2>2, <2>4, <2>5, <3>2, <4>1, <4>3 DEF InvOut
      <4> QED BY <4>2, <4>3
    <3> QED BY <1>0, <2>2, <3>1, <3>2
  <2>7. out'[Len(out')].upto = lo'
    BY <2>1, <2>2, <2>5
  <2>8. (IF out' = <<>> THEN 0 ELSE out'[Len(out')].upto) = lo' /\ lo' \in Nat
    BY <1>0, <2>1, <2>3, <2>7
  <2> QED BY <2>6, <2>8 DEF InvOut
<1> QED BY <1>1, <1>2, <1>3, <1>4
        DEF Next, SenderStep, ReaderSends, FinishDrops, FinishJoins, Receive, WindowElapses,
            Disconnected, DrainTakes, DrainEnds, NextChunk, FlushEnds, Reserve, Stalled,
            CloneChannel, Ack, MoveTo, ResetFlow, Close, Flush, vars

LEMMA CharactersNext ==
  ASSUME TypeOK, InvQueue, InvLoop, CharactersStayWhole, [Next]_vars
  PROVE  CharactersStayWhole'
<1> USE DEF reader, batch, sending, flow, pages
<1>0. /\ lo \in Nat /\ end \in Nat /\ Len(out) \in Nat
      /\ out \in Seq([to : Pages, from : Nat, upto : Nat, last : BOOLEAN])
      /\ stream \in Seq(Cont .. BadLead) /\ Len(stream) \in Nat
  BY OutputAssumption DEF TypeOK
<1>1. CASE UNCHANGED <<stream, out>>
  BY <1>1 DEF CharactersStayWhole
<1>2. CASE SendChunk
  <2> DEFINE n == Len(out)
             r == [to |-> target, from |-> lo, upto |-> end, last |-> next = "exit"]
  <2>1. stream' = stream /\ out' = Append(out, r) /\ lo < end /\ end = ChunkEnd
    BY <1>2 DEF SendChunk, InvLoop, Sending
  <2>2. /\ Len(out') = n + 1 /\ out'[n + 1] = r
        /\ \A i \in 1 .. n : out'[i] = out[i]
    BY <1>0, <2>1
  <2>3. r.from = lo /\ r.upto = end /\ r.last = (next = "exit")
    OBVIOUS
  <2> HIDE DEF r
  <2>4. ASSUME NEW k \in (lo + 1) .. end, next # "exit", stream[k] \in 2 .. 4,
               k + stream[k] - 1 <= Len(stream),
               \A j \in (k + 1) .. (k + stream[k] - 1) : stream[j] = Cont
        PROVE  k + stream[k] - 1 <= end
    <3> DEFINE b == k + stream[k] - 1
    <3>1. k \in Nat /\ stream[k] \in Nat /\ b \in Nat /\ Limit \in Nat /\ end <= Limit
      <4>1. Limit \in Nat /\ end <= Limit
        BY <2>1, LimitFacts, ChunkFacts
      <4> QED BY <1>0, <2>4, <4>1
    <3>2. SUFFICES ASSUME b > end PROVE FALSE
      BY <1>0, <3>1
    <3>3. CASE end < Limit
      <4>1. stream[end + 1] \in 2 .. 4
        BY <2>1, <2>4, <3>3, ChunkFacts
      <4>2. end + 1 \in (k + 1) .. b
        BY <1>0, <2>4, <3>1, <3>2
      <4> QED BY <2>4, <4>1, <4>2 DEF Cont
    <3>4. CASE end = Limit
      <4>1. k \in (lo + 1) .. Limit /\ stream[k] > Limit - k + 1 /\ Limit - k + 1 <= 4
        BY <1>0, <2>4, <3>1, <3>2, <3>4
      <4>2. PICK j \in (k + 1) .. Limit : stream[j] # Cont
        BY <2>1, <2>4, <3>4, <4>1, ChunkFacts
      <4>3. j \in (k + 1) .. b
        BY <1>0, <3>1, <3>2, <3>4, <4>2
      <4> QED BY <2>4, <4>2, <4>3
    <3> QED BY <1>0, <3>1, <3>3, <3>4
  <2>5. ASSUME NEW i \in 1 .. Len(out'), NEW k \in (out'[i].from + 1) .. out'[i].upto,
               ~out'[i].last, stream[k] \in 2 .. 4, k + stream[k] - 1 <= Len(stream),
               \A j \in (k + 1) .. (k + stream[k] - 1) : stream[j] = Cont
        PROVE  k + stream[k] - 1 <= out'[i].upto
    <3>1. CASE i \in 1 .. n
      BY <2>2, <2>5, <3>1 DEF CharactersStayWhole
    <3>2. CASE i = n + 1
      BY <2>2, <2>3, <2>4, <2>5, <3>2
    <3> QED BY <1>0, <2>2, <3>1, <3>2
  <2> QED BY <2>1, <2>5 DEF CharactersStayWhole
<1> QED BY <1>1, <1>2
        DEF Next, SenderStep, ReaderSends, FinishDrops, FinishJoins, Receive, WindowElapses,
            Disconnected, DrainTakes, DrainEnds, NextChunk, FlushEnds, Reserve, Stalled,
            CloneChannel, SendFails, Ack, MoveTo, ResetFlow, Close, PageDies, Flush, vars

LEMMA StrandedNext ==
  ASSUME TypeOK, InvQueue, InvLoop, NothingStranded, [Next]_vars
  PROVE  NothingStranded'
<1> USE DEF reader, batch, sending, flow, pages
<1>0. /\ lo \in Nat /\ hi \in Nat /\ lo <= hi /\ hi <= Len(stream)
      /\ stream \in Seq(Cont .. BadLead) /\ Len(stream) \in Nat
  BY OutputAssumption, LimitFacts DEF TypeOK, InvQueue
<1>1. CASE UNCHANGED <<stream, lo, hi, pc, window>>
  BY <1>1 DEF NothingStranded, Pending
<1>2. CASE pc' # "recv" \/ window'
  BY <1>2 DEF NothingStranded
<1>3. CASE DrainEnds /\ ~window' /\ pc' = "recv"
  <2>1. lo = hi /\ UNCHANGED <<stream, lo, hi>>
    <3>1. tx = "open" /\ window' = (lo < hi) /\ UNCHANGED <<stream, lo, hi>>
      BY <1>3 DEF DrainEnds, Flush
    <3>2. ~(lo < hi)
      BY <1>3, <3>1, Zenon
    <3> QED BY <1>0, <3>1, <3>2
  <2>2. Pending \in Seq(Cont .. BadLead) /\ Len(Pending) = 0
    BY <1>0, <2>1, Piece DEF Pending
  <2>3. utf8_complete_prefix_len(Pending) = 0
    <3>1. utf8_complete_prefix_len(Pending) \in Nat /\ utf8_complete_prefix_len(Pending) <= Len(Pending)
      BY <2>2, Prefix
    <3> QED BY <2>2, <3>1
  <2> QED BY <2>1, <2>3 DEF NothingStranded, Pending
<1>4. CASE FlushEnds /\ pc' = "recv"
  <2>1. next = "recv" /\ lo = ChunkEnd /\ UNCHANGED <<stream, lo, hi>>
    BY <1>4 DEF FlushEnds, Flush
  <2>2. Limit = hi
    <3>1. SUFFICES ASSUME hi - lo > MaxChunk PROVE FALSE
      BY DEF Limit
    <3>2. Limit = lo + MaxChunk /\ MaxChunk \in Nat /\ MaxChunk >= 4
      BY <3>1, OutputAssumption DEF Limit
    <3>3. ChunkEnd < Limit /\ Limit - ChunkEnd = MaxChunk
      BY <1>0, <2>1, <3>2
    <3>4. stream[ChunkEnd + 1] \in 2 .. 4 /\ stream[ChunkEnd + 1] > MaxChunk
      BY <2>1, <3>3, ChunkFacts
    <3> QED BY <3>2, <3>4
  <2>3. ChunkEnd = lo + utf8_complete_prefix_len(Pending)
    BY <2>1, <2>2 DEF ChunkEnd, Pending
  <2>4. utf8_complete_prefix_len(Pending) \in Nat
    BY <1>0, Piece, Prefix DEF Pending
  <2>5. utf8_complete_prefix_len(Pending) = 0
    BY <1>0, <2>1, <2>3, <2>4
  <2> QED BY <2>1, <2>5 DEF NothingStranded, Pending
<1> QED BY <1>1, <1>2, <1>3, <1>4
        DEF Next, SenderStep, ReaderSends, FinishDrops, FinishJoins, Receive, WindowElapses,
            Disconnected, DrainTakes, DrainEnds, NextChunk, FlushEnds, Reserve, Stalled,
            CloneChannel, SendChunk, SendFails, Ack, MoveTo, ResetFlow, Close, PageDies, Flush, vars

-----------------------------------------------------------------------------
LEMMA FlowInit == Init => FlowInv
<1> SUFFICES ASSUME Init PROVE FlowInv
  OBVIOUS
<1>1. InvQueue /\ InvLoop
  BY DEF Init, InvQueue, InvLoop, Sending
<1>2. InvLeak /\ InvWindow
  BY OutputAssumption DEF Init, InvLeak, InvWindow, Reserved, Pages
<1>3. InvOut /\ CharactersStayWhole
  BY DEF Init, InvOut, CharactersStayWhole
<1>4. NothingStranded
  <2>1. stream \in Seq(Cont .. BadLead) /\ Len(stream) \in Nat
    BY OutputAssumption DEF Init
  <2>2. Pending \in Seq(Cont .. BadLead) /\ Len(Pending) = 0
    BY <2>1, Piece DEF Init, Pending
  <2>3. utf8_complete_prefix_len(Pending) \in Nat /\ utf8_complete_prefix_len(Pending) <= Len(Pending)
    BY <2>2, Prefix
  <2> QED BY <2>2, <2>3 DEF NothingStranded
<1> QED BY <1>1, <1>2, <1>3, <1>4 DEF FlowInv

(* The state of the output path stays well typed, and the invariant that   *)
(* relates queue, buffer, flow state and pages is never broken.            *)
THEOREM FlowInvariant == Spec => [](TypeOK /\ FlowInv)
<1>1. Init => TypeOK /\ FlowInv
  BY TypeInit, FlowInit
<1>2. TypeOK /\ FlowInv /\ [Next]_vars => (TypeOK /\ FlowInv)'
  BY TypeNext, QueueNext, LoopNext, LeakNext, WindowNext, OutNext, CharactersNext, StrandedNext
     DEF FlowInv
<1> QED BY <1>1, <1>2, PTL DEF Spec

(* Every byte the reader passes to send goes out once and in order while   *)
(* its page lives, and all of it has gone through when finish returns.     *)
THEOREM OutputIsInOrder == Spec => []SentInOrder
<1>1. TypeOK /\ FlowInv => SentInOrder
  <2> SUFFICES ASSUME TypeOK, InvQueue, InvLoop, InvOut PROVE SentInOrder
    BY DEF FlowInv
  <2>1. \A i \in 1 .. Len(out) :
          LET before == IF i = 1 THEN 0 ELSE out[i - 1].upto
          IN  IF gone = {} THEN out[i].from = before ELSE out[i].from >= before
    BY DEF InvOut
  <2>2. gone = {} /\ lo > 0 => out[Len(out)].upto = lo
    BY DEF InvOut
  <2>3. tx = "joined" => lo = read
    BY DEF InvLoop, InvQueue
  <2> QED BY <2>1, <2>2, <2>3 DEF SentInOrder
<1> QED BY <1>1, FlowInvariant, PTL

(* flush_all never splits a character, however reads and batches cut the   *)
(* stream and whatever else it holds.                                      *)
THEOREM CharactersAreWhole == Spec => []CharactersStayWhole
<1>1. TypeOK /\ FlowInv => CharactersStayWhole
  BY DEF FlowInv
<1> QED BY <1>1, FlowInvariant, PTL

(* A reload between reserve and send leaves nothing counted against the    *)
(* new page that it has not been sent.                                     *)
THEOREM ReloadsLeakNothing == Spec => []NothingLeaks
<1>1. TypeOK /\ FlowInv => NothingLeaks
  <2> SUFFICES ASSUME TypeOK, InvLoop, InvLeak, ~moving, page \notin gone
               PROVE  unacked <= view[page] + (IF pc \in {"clone", "send"} THEN end - lo ELSE 0)
    BY DEF FlowInv, NothingLeaks
  <2>1. /\ unacked \in Nat /\ lo \in Nat /\ end \in Nat /\ view[page] \in Nat
        /\ pc \in Sending => lo < end
    BY DEF TypeOK, InvLoop
  <2>2. unacked <= view[page] + Reserved
    BY DEF InvLeak
  <2> QED BY <2>1, <2>2 DEF Reserved, Sending
<1> QED BY <1>1, FlowInvariant, PTL

(* The page is never more than a watermark and a chunk behind until the    *)
(* window is reset, closed or given up on.                                 *)
THEOREM WindowIsBounded == Spec => []WindowHolds
<1>1. TypeOK /\ FlowInv => WindowHolds
  <2> SUFFICES ASSUME TypeOK, InvLoop, InvWindow, ~forgot
               PROVE  view[1] < HighWatermark + MaxChunk
    BY DEF FlowInv, WindowHolds
  <2> DEFINE second == IF page = 2 THEN view[2] ELSE 0
             inHand == IF pc \in {"clone", "send"} THEN end - lo ELSE 0
  <2>1. unacked < HighWatermark + MaxChunk /\ view[1] + second + inHand <= unacked
    BY DEF InvWindow
  <2>2. /\ 1 \in Pages /\ (page = 2 => 2 \in Pages) /\ view[1] \in Nat
        /\ unacked \in Nat /\ HighWatermark \in Nat /\ MaxChunk \in Nat
    <3>1. 1 \in Pages
      BY OutputAssumption DEF Pages
    <3> QED BY <3>1, OutputAssumption DEF TypeOK
  <2>3. second \in Nat /\ inHand \in Nat
    BY <2>2 DEF TypeOK, InvLoop, Sending
  <2> QED BY <2>1, <2>2, <2>3
<1> QED BY <1>1, FlowInvariant, PTL

(* Outside a batching window, what stays buffered is the beginning of one  *)
(* character.                                                              *)
THEOREM NothingIsStranded == Spec => []NothingStranded
<1>1. TypeOK /\ FlowInv => NothingStranded
  BY DEF FlowInv
<1> QED BY <1>1, FlowInvariant, PTL
=============================================================================
