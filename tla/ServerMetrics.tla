---------------------------- MODULE ServerMetrics ----------------------------
(***************************************************************************)
(* The server monitor of a terminal tab: one polling loop per run of its    *)
(* effect, paused while the tab is out of view, and rates taken between     *)
(* successive samples.                                                      *)
(***************************************************************************)
EXTENDS Integers

CONSTANTS
    Counters,       \* the host keeps CPU counters (not macOS)
    HistoryLimit,   \* CPU_HISTORY_SAMPLE_LIMIT
    MaxActs,        \* bound on what happens to the tab
    MaxSamples      \* bound on snapshots asked for

VARIABLES
    visible, connected, active,
    run,            \* the run of the polling effect, and whether it is on
    loop,           \* of this run: timer, paused, resuming, usedDelay
    asked,          \* snapshots in flight: the run and the request each belongs to
    requestId,
    base,           \* the baselines: cpu, net; crossed: a pause came since (ghost)
    status,         \* "loading", "ready" or "error"
    collected, staleAt,
    cpuHistory, netHistory,
    overPause,      \* ghost: a rate shown was taken over a pause
    panel,          \* the details are expanded
    acts

tabVars == <<visible, connected, active>>
shownVars == <<status, collected, staleAt, cpuHistory, netHistory, overPause>>
vars == <<tabVars, run, loop, asked, requestId, base, shownVars, panel, acts>>

NoBase == [cpu |-> FALSE, net |-> FALSE, crossed |-> FALSE]
Idle == [timer |-> FALSE, paused |-> FALSE, resuming |-> FALSE, usedDelay |-> FALSE]
Act == acts < MaxActs /\ acts' = acts + 1

\* A request of the current run goes out.
Ask(r) == /\ requestId' = requestId + 1
          /\ asked' = asked \cup {[run |-> r, id |-> requestId + 1]}

-----------------------------------------------------------------------------
(* The effect: started when the monitor is shown and connected, over again   *)
(* when the session, the connection or the interval changes.                *)

Start(isActive) ==
    /\ run' = [id |-> run.id + 1, on |-> TRUE]
    /\ loop' = [Idle EXCEPT !.paused = ~isActive]
    /\ base' = NoBase
    /\ IF isActive THEN Ask(run.id + 1) ELSE UNCHANGED <<asked, requestId>>

\* The cleanup keeps the last values while the monitor is stopped.
Cleanup ==
    /\ cpuHistory' = 0 /\ netHistory' = 0
    /\ status' = IF status = "ready" THEN "ready" ELSE "loading"
    /\ UNCHANGED <<collected, staleAt, overPause>>

Changes(v, c) ==
    /\ visible' = v /\ connected' = c
    /\ IF run.on THEN Cleanup ELSE UNCHANGED shownVars
    /\ IF v /\ c THEN Start(active)
       ELSE /\ run' = [run EXCEPT !.on = FALSE] /\ loop' = Idle
            /\ UNCHANGED <<asked, requestId, base>>
    /\ UNCHANGED <<active, panel>>

ToggleVisible == Act /\ Changes(~visible, connected)
ConnectionChanges == Act /\ Changes(visible, ~connected)
SettingsChange == Act /\ run.on /\ requestId < MaxSamples /\ Changes(visible, connected)

\* Mutant: coming into view always polls.
ResumesAnyway == run.on
Resumes == run.on /\ loop.paused

\* The tab comes into view, or leaves it.
SetActive ==
    /\ Act
    /\ active' = ~active
    /\ IF ~active /\ Resumes
       THEN /\ loop' = [loop EXCEPT !.paused = FALSE, !.resuming = base.cpu]
            /\ Ask(run.id)
       ELSE UNCHANGED <<loop, asked, requestId>>
    /\ UNCHANGED <<visible, connected, run, base, shownVars, panel>>

TimerFires ==
    /\ run.on /\ loop.timer /\ requestId < MaxSamples
    /\ loop' = [loop EXCEPT !.timer = FALSE]
    /\ Ask(run.id)
    /\ UNCHANGED <<tabVars, run, base, shownVars, panel, acts>>

-----------------------------------------------------------------------------
(* A snapshot arrives.                                                     *)

\* The loop goes on, or pauses when the tab is out of view.
GoOn(l) == IF active THEN [l EXCEPT !.timer = TRUE] ELSE [l EXCEPT !.paused = TRUE]
Based(net) == [cpu |-> Counters, net |-> net, crossed |-> FALSE]
AfterPause(b) == IF active THEN b ELSE [b EXCEPT !.crossed = TRUE]
Appended(n) == IF n < HistoryLimit THEN n + 1 ELSE HistoryLimit

\* Rates need a sample before this one.
Sample(net) ==
    LET cpu == ~Counters \/ base.cpu
        rate == base.net /\ net
    IN  /\ status' = "ready" /\ collected' = collected + 1
        /\ cpuHistory' = IF cpu THEN Appended(cpuHistory) ELSE cpuHistory
        /\ netHistory' = IF rate THEN Appended(netHistory) ELSE netHistory
        /\ overPause' = (overPause \/ (base.crossed /\ (rate \/ (Counters /\ base.cpu))))
        /\ UNCHANGED staleAt

Answered ==
    \E q \in asked :
        LET live == q.run = run.id /\ run.on
            current == q.id = requestId
        IN  /\ asked' = asked \ {q}
            /\ \/ /\ ~live
                  /\ UNCHANGED <<loop, base, shownVars>>
               \/ \E net \in BOOLEAN :
                  /\ live /\ current /\ loop.resuming
                  /\ base' = AfterPause(Based(net))
                  /\ loop' = GoOn([loop EXCEPT !.resuming = FALSE])
                  /\ UNCHANGED shownVars
               \/ \E net \in BOOLEAN :
                  /\ live /\ current /\ ~loop.resuming
                  /\ Sample(net)
                  /\ base' = AfterPause(Based(net))
                  /\ loop' = GoOn([loop EXCEPT !.usedDelay = @ \/ (Counters /\ ~base.cpu)])
               \/ /\ live                                        \* the command failed
                  /\ base' = AfterPause(base)
                  /\ loop' = GoOn(loop)
                  /\ IF current THEN status' = "error" ELSE UNCHANGED status
                  /\ UNCHANGED <<collected, staleAt, cpuHistory, netHistory, overPause>>
            /\ UNCHANGED <<tabVars, run, requestId, panel, acts>>

\* No newer sample within staleAfterMs.
StaleTimer ==
    /\ status = "ready" /\ staleAt # collected
    /\ staleAt' = collected
    /\ UNCHANGED <<tabVars, run, loop, asked, requestId, base, status, collected, cpuHistory,
                   netHistory, overPause, panel, acts>>
Stale == status = "ready" /\ staleAt = collected

\* The details open over a sample.
TogglePanel ==
    /\ Act /\ visible /\ status = "ready"
    /\ panel' = ~panel
    /\ UNCHANGED <<tabVars, run, loop, asked, requestId, base, shownVars>>

Init ==
    /\ visible \in BOOLEAN /\ connected = FALSE /\ active \in BOOLEAN
    /\ run = [id |-> 0, on |-> FALSE] /\ loop = Idle /\ asked = {} /\ requestId = 0 /\ base = NoBase
    /\ status = "loading" /\ collected = 0 /\ staleAt = -1
    /\ cpuHistory = 0 /\ netHistory = 0 /\ overPause = FALSE /\ panel = FALSE /\ acts = 0

Next == \/ ToggleVisible \/ ConnectionChanges \/ SettingsChange \/ SetActive
        \/ TimerFires \/ Answered \/ StaleTimer \/ TogglePanel
Spec == Init /\ [][Next]_vars

-----------------------------------------------------------------------------
(* Correctness.                                                            *)

OneAsked == \E q \in asked : \A p \in asked : p.run = run.id <=> p = q
NoneAsked == \A p \in asked : p.run # run.id

\* However the tab leaves and enters the view while a sample is on its way,
\* a monitor that runs has exactly one poll under way, a request or a timer,
\* or is paused, out of view only: it never polls twice and never stops
\* polling in view (useServerMetricsPolling.ts refresh, resumeRef).
OnePollingLoop ==
    run.on => \/ OneAsked /\ ~loop.timer /\ ~loop.paused
              \/ NoneAsked /\ loop.timer /\ ~loop.paused
              \/ NoneAsked /\ ~loop.timer /\ loop.paused /\ ~active

\* "The first sample after a pause only sets new baselines, so the bar keeps its
\* last values instead of showing an average over the pause"
\* (useServerMetricsPolling.ts:126-127).
NoAverageOverPause == ~overPause

-----------------------------------------------------------------------------
(* What is always so, for the proofs of both.                              *)

TypeOK ==
    /\ visible \in BOOLEAN /\ connected \in BOOLEAN /\ active \in BOOLEAN
    /\ run \in [id : Nat, on : BOOLEAN] /\ requestId \in Nat
    /\ loop \in [timer : BOOLEAN, paused : BOOLEAN, resuming : BOOLEAN, usedDelay : BOOLEAN]
    /\ asked \subseteq [run : Nat, id : Nat]
    /\ base \in [cpu : BOOLEAN, net : BOOLEAN, crossed : BOOLEAN]

\* No request of a run is under way before it starts.
RunWaitsForOne == (\A p \in asked : p.run <= run.id) /\ OnePollingLoop

\* A baseline from before a pause is replaced by the first sample after it.
BaselinesAreFresh ==
    /\ base.net => base.cpu
    /\ run.on /\ base.crossed /\ base.cpu => loop.paused \/ loop.resuming

MetricsInv == TypeOK /\ RunWaitsForOne /\ BaselinesAreFresh /\ NoAverageOverPause
=============================================================================
