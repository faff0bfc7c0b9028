----------------------------- MODULE LogReplay -----------------------------
(***************************************************************************)
(* The player of a recorded terminal session: an engine that writes frames  *)
(* to a terminal which parses its queue later, driven by an animation clock,*)
(* by seeks that redraw from the start, and by changes of the timeline.     *)
(***************************************************************************)
EXTENDS Integers, Sequences, FiniteSets

CONSTANTS
    Recording,      \* frames: at, and either out (big: fills a write chunk) or size
    IdleLimit,      \* IDLE_LIMIT_MS
    Speeds,
    MaxActs         \* bound on inputs

VARIABLES
    frames,         \* the recording, once loaded
    skipIdle, speed,
    engine,         \* index, position, playing, busy, generation
    playing,        \* what the play button shows
    queue,          \* the terminal's writes, each with the writer that waits for it
    screen, size,   \* what the terminal shows: frames, each at the size it was parsed at
    view,           \* "loading", "failed", "open" or "gone"
    acts

vars == <<frames, skipIdle, speed, engine, playing, queue, screen, size, view, acts>>

DefaultSize == 0
Len0 == Len(frames)
Least(a, b) == IF a <= b THEN a ELSE b
IsSize(f) == f.kind = "size"

-----------------------------------------------------------------------------
(* Frames and their clock.                                                 *)

InitialReplaySize(fs) ==
    LET sized == {i \in DOMAIN fs : IsSize(fs[i])}
    IN  IF sized = {} THEN DefaultSize ELSE fs[CHOOSE i \in sized : \A j \in sized : i <= j].size

\* A pause longer than the limit plays as that long.
BuildReplayTimeline(fs, skip) ==
    LET gap(i) == IF fs[i].at >= fs[i-1].at THEN fs[i].at - fs[i-1].at ELSE 0
        at[i \in DOMAIN fs] ==
            IF i = 1 THEN 0 ELSE at[i-1] + (IF skip THEN Least(gap(i), IdleLimit) ELSE gap(i))
    IN  at

Timeline == BuildReplayTimeline(frames, skipIdle)
ReplayDuration(tl) == IF DOMAIN tl = {} THEN 0 ELSE tl[Cardinality(DOMAIN tl)]
FramesPlayedBy(tl, ms) == Cardinality({i \in DOMAIN tl : tl[i] <= ms})

\* Past the end of a recording; also what "skip to the end" seeks to.
PastEnd == ReplayDuration(BuildReplayTimeline(Recording, FALSE)) + 1

-----------------------------------------------------------------------------
(* writeFrames: output is collected until a chunk is full or a size change  *)
(* has to wait for it; one flush at a time is in the queue.                *)

\* Mutant: a writer never learns that it is no longer wanted.
AliveAnyway(generation) == generation \in 0..engine.generation
Alive(generation) == generation = engine.generation

Outputs(from, to) == SelectSeq([i \in 1..(to - from) |-> from + i], LAMBDA i : ~IsSize(frames[i]))
EndsFlush(i) == IsSize(frames[i]) \/ frames[i].big

\* The flush that follows frame `from`, or none when all are written.
Flush(from, to, writer) ==
    LET ends == {i \in (from + 1)..to : EndsFlush(i)}
        last == IF ends = {} THEN to ELSE CHOOSE i \in ends : \A j \in ends : i <= j
    IN  IF from = to THEN <<>>
        ELSE <<[data |-> Outputs(from, last), resize |-> IsSize(frames[last]), next |-> last,
                to |-> to, writer |-> writer]>>

NoFlush == <<>>

-----------------------------------------------------------------------------
(* The engine.                                                             *)

StopLoop(e) == [e EXCEPT !.playing = FALSE]
StartLoop(e) == [e EXCEPT !.playing = TRUE]

\* A reset goes through the queue too, behind the writes still in it.
Seek(targetMs, resume) ==
    /\ engine' = [StopLoop(engine) EXCEPT !.generation = @ + 1, !.busy = TRUE]
    /\ queue' = Append(queue, [data |-> <<>>, resize |-> FALSE, next |-> 0, to |-> 0,
                               writer |-> [kind |-> "reset", generation |-> engine.generation + 1,
                                           targetMs |-> targetMs, resume |-> resume]])

\* A seek whose frames are written.
SeekDone(w, target) ==
    LET carryOn == w.resume /\ target < Len0
        landed == [engine EXCEPT !.busy = FALSE, !.index = target,
                                 !.position = Least(w.targetMs, ReplayDuration(Timeline))]
    IN  /\ engine' = IF carryOn THEN StartLoop(landed) ELSE landed
        /\ playing' = carryOn

\* Who waited for a write goes on: with its next flush, or it is done.
Written(e, next, to) ==
    LET more == Flush(next, to, [e.writer EXCEPT !.kind = IF @ = "reset" THEN "seek" ELSE @])
    IN  /\ queue' = Tail(queue) \o more
        /\ IF more # NoFlush THEN UNCHANGED <<engine, playing>>
           ELSE IF e.writer.kind = "play" THEN engine' = [engine EXCEPT !.busy = FALSE] /\ UNCHANGED playing
           ELSE SeekDone(e.writer, to)

Shown(data, at) == [i \in DOMAIN data |-> [frame |-> data[i], at |-> at]]

\* The terminal parses a write and calls back.
Parse ==
    /\ queue # <<>>
    /\ LET e == Head(queue)
           w == e.writer
           target == FramesPlayedBy(Timeline, w.targetMs)
       IN  /\ screen' = IF w.kind = "reset" THEN <<>> ELSE screen \o Shown(e.data, size)
           /\ IF ~Alive(w.generation)
              THEN queue' = Tail(queue) /\ UNCHANGED <<size, engine, playing>>
              ELSE IF w.kind = "reset"
              THEN size' = InitialReplaySize(frames) /\ Written(e, 0, target)
              ELSE /\ size' = IF e.resize THEN frames[e.next].size ELSE size
                   /\ Written(e, e.next, e.to)
    /\ UNCHANGED <<frames, skipIdle, speed, view, acts>>

\* An animation frame: the clock moves, and what is due is written unless a
\* write or a seek is in flight.
Tick ==
    LET position == Least(engine.position + speed, PastEnd)
        target == FramesPlayedBy(Timeline, position)
        write == ~engine.busy /\ target > engine.index
        moved == [engine EXCEPT !.position = position, !.busy = @ \/ write,
                                !.index = IF write THEN target ELSE @]
    IN  /\ view = "open" /\ engine.playing
        /\ queue' = IF write THEN queue \o Flush(engine.index, target,
                            [kind |-> "play", generation |-> engine.generation, targetMs |-> 0, resume |-> FALSE])
                    ELSE queue
        /\ IF moved.index >= Len0 /\ ~moved.busy
           THEN engine' = [StopLoop(moved) EXCEPT !.position = ReplayDuration(Timeline)] /\ playing' = FALSE
           ELSE engine' = moved /\ UNCHANGED playing
        /\ UNCHANGED <<frames, skipIdle, speed, screen, size, view, acts>>

-----------------------------------------------------------------------------
(* The replayer around it.                                                 *)

\* The recording arrives: a new terminal opens on the whole of it.
Loaded ==
    /\ view = "loading"
    /\ \/ /\ view' = "failed" /\ UNCHANGED <<frames, engine, queue, size>>
       \/ /\ view' = "open"
          /\ frames' = Recording
          /\ size' = InitialReplaySize(Recording)
          /\ Seek(PastEnd, FALSE)
    /\ UNCHANGED <<skipIdle, speed, playing, screen, acts>>

\* The buttons and the slider.
ControlsOffered == view = "open" /\ acts < MaxActs

TogglePlay ==
    /\ ControlsOffered
    /\ \/ /\ engine.playing
          /\ engine' = StopLoop(engine) /\ playing' = FALSE /\ UNCHANGED queue
       \/ /\ ~engine.playing /\ engine.index >= Len0
          /\ Seek(0, TRUE) /\ UNCHANGED playing
       \/ /\ ~engine.playing /\ engine.index < Len0
          /\ engine' = StartLoop(engine) /\ playing' = TRUE /\ UNCHANGED queue
    /\ acts' = acts + 1
    /\ UNCHANGED <<frames, skipIdle, speed, screen, size, view>>

\* Restart, skip to the end, or the slider (which carries on when playing).
SeekTo ==
    /\ ControlsOffered
    /\ \/ Seek(0, TRUE)
       \/ Seek(PastEnd, FALSE)
       \/ \E ms \in 0..ReplayDuration(Timeline) : Seek(ms, engine.playing)
    /\ acts' = acts + 1
    /\ UNCHANGED <<frames, skipIdle, speed, playing, screen, size, view>>

SetSpeed ==
    /\ view \in {"loading", "open"} /\ acts < MaxActs
    /\ speed' \in Speeds \ {speed}
    /\ acts' = acts + 1
    /\ UNCHANGED <<frames, skipIdle, engine, playing, queue, screen, size, view>>

\* A changed timeline keeps the frame and moves the clock.
SetSkipIdle ==
    /\ view \in {"loading", "open"} /\ acts < MaxActs
    /\ skipIdle' = ~skipIdle
    /\ LET tl == BuildReplayTimeline(frames, ~skipIdle)
       IN  engine' = [engine EXCEPT !.position = IF engine.index > 0 THEN tl[engine.index] ELSE 0]
    /\ acts' = acts + 1
    /\ UNCHANGED <<frames, speed, playing, queue, screen, size, view>>

\* Another session, the text view, or the page closed: the terminal goes.
Unmount ==
    /\ view \in {"loading", "failed", "open"} /\ acts < MaxActs
    /\ view' = "gone"
    /\ engine' = [StopLoop(engine) EXCEPT !.generation = @ + 1]
    /\ queue' = <<>> /\ screen' = <<>>
    /\ acts' = acts + 1
    /\ UNCHANGED <<frames, skipIdle, speed, playing, size>>

Init ==
    /\ frames = <<>> /\ skipIdle = TRUE /\ speed \in Speeds
    /\ engine = [index |-> 0, position |-> 0, playing |-> FALSE, busy |-> FALSE, generation |-> 0]
    /\ playing = FALSE /\ queue = <<>>
    /\ screen = <<>> /\ size = DefaultSize
    /\ view = "loading" /\ acts = 0

Next == Loaded \/ Parse \/ Tick \/ TogglePlay \/ SeekTo \/ SetSpeed \/ SetSkipIdle \/ Unmount

Spec == Init /\ [][Next]_vars

-----------------------------------------------------------------------------
(* Correctness.                                                            *)

TypeOK ==
    /\ engine.index \in 0..Len0 /\ engine.position \in 0..PastEnd
    /\ skipIdle \in BOOLEAN /\ playing \in BOOLEAN /\ engine.busy \in BOOLEAN
    /\ view \in {"loading", "failed", "open", "gone"}

\* What one undisturbed run through the first n frames shows.
SizeAfter(n) ==
    LET sized == {i \in 1..n : IsSize(frames[i])}
    IN  IF sized = {} THEN InitialReplaySize(frames)
        ELSE frames[CHOOSE i \in sized : \A j \in sized : j <= i].size
Straight(n) == LET shown == Outputs(0, n)
               IN  [k \in DOMAIN shown |-> [frame |-> shown[k], at |-> SizeAfter(shown[k] - 1)]]

\* However play, pause, seeks and changes of the timeline overlap with writes
\* the terminal has not parsed, once nothing is in flight the terminal shows
\* exactly the frames the player counts as played, each once, in order and
\* parsed at the size it was recorded at (useReplayPlayer.ts, replayWriter.ts).
ScreenShowsPlayed ==
    view = "open" /\ queue = <<>> =>
        /\ ~engine.busy
        /\ screen = Straight(engine.index)
        /\ size = SizeAfter(engine.index)
=============================================================================
