------------------------------ MODULE ShellRun ------------------------------
(***************************************************************************)
(* The compose bar runs lines one at a time in a tab's shell               *)
(* (composerRun.ts, composerRuns.ts), told by the shell integration marks  *)
(* (commandMarks.ts) when a line has ended: A at a prompt, C where a       *)
(* command's output starts, D with a status.  The shell is bash as tTerm   *)
(* sets it up: it writes D and A at every prompt, C for a command only.    *)
(* Lines wait in the tty until it reads them, marks on their way back, and *)
(* the user may press Enter in the terminal meanwhile.                     *)
(*                                                                         *)
(* A saved command that asks before it runs guards the bar                 *)
(* (commandComposer.ts).  The bar's words, history and layout, the places  *)
(* of the marks in the buffer and runs in several tabs are left out.       *)
(***************************************************************************)
EXTENDS Naturals, Sequences

CONSTANTS
    Lines,        \* number of lines in a run, the second a comment
    MaxSends,     \* bound on the lines sent and the Enters pressed
    Settled       \* the shell has marked a command in this session before

VARIABLES
    tty,          \* what the shell has yet to read: a line's number, or 0 for Enter alone
    shell,        \* 0 at its prompt, or the number of the line it runs
    exitStatus,   \* the shell's $?, zero or not
    marks,        \* marks on their way to the front end
    result,       \* what became of each line sent last in the shell
    sends,        \* lines and Enters so far
    tracker,      \* CommandMarks
    run,          \* ComposerRun, with the status of every line
    following,    \* the run listens for prompts
    mended,       \* a failed line was run again or left behind
    composer      \* the bar: text, guarded commands, the question asked before sending

shellVars == <<tty, shell, exitStatus, marks, result>>
vars == <<shellVars, sends, tracker, run, following, mended, composer>>

NoRun == [phase |-> "none", current |-> 0, status |-> [k \in 1..Lines |-> "pending"]]
NoEntry == [output |-> "none", end |-> FALSE, exitCode |-> "unknown"]

Init ==
    /\ tty = <<>> /\ shell = 0 /\ exitStatus = "ok" /\ marks = <<>>
    /\ result = [k \in 1..Lines |-> "none"] /\ sends = 0
    /\ tracker = [sendsOutput |-> Settled, running |-> FALSE, outputSince |-> FALSE,
                  statusSince |-> "unknown", entry |-> NoEntry]
    /\ run = NoRun /\ following = FALSE /\ mended = FALSE
    /\ composer = [text |-> FALSE, guarded |-> FALSE, asks |-> FALSE, agreed |-> TRUE]

IsComment(k) == k = 2
Statuses == {"ok", "bad"}

----------------------------------------------------------------------------
(* The shell.                                                              *)

\* Reads a line: a command starts; Enter alone, a comment and a line it
\* cannot parse run nothing, and the prompt comes back with a status.
ShellReads ==
    /\ tty # <<>> /\ shell = 0
    /\ LET k == Head(tty)
       IN  \/ /\ k > 0 /\ ~IsComment(k)
              /\ shell' = k /\ marks' = Append(marks, "C")
              /\ UNCHANGED <<exitStatus, result>>
           \/ \E status \in Statuses :
              /\ (k = 0 \/ IsComment(k)) => status = exitStatus
              /\ (k > 0 /\ ~IsComment(k)) => status = "bad"
              /\ exitStatus' = status /\ shell' = 0
              /\ marks' = marks \o <<status, "A">>
              /\ result' = [j \in 1..Lines |->
                    IF j = k THEN IF IsComment(k) \/ status = "ok" THEN "ended" ELSE "failed"
                    ELSE result[j]]
    /\ tty' = Tail(tty)
    /\ UNCHANGED <<sends, tracker, run, following, mended, composer>>

\* The command ends; what waits in the tty it may read as its own input.
ShellEnds ==
    /\ shell > 0 /\ shell' = 0
    /\ \E status \in Statuses, eaten \in 0..Len(tty) :
          /\ exitStatus' = status
          /\ marks' = marks \o <<status, "A">>
          /\ tty' = SubSeq(tty, eaten + 1, Len(tty))
          /\ result' = [result EXCEPT ![shell] = IF status = "ok" THEN "ended" ELSE "failed"]
    /\ UNCHANGED <<sends, tracker, run, following, mended, composer>>

\* handleEnter: a shell that has sent no C mark starts its command here.
HandleEnter(t) ==
    IF ~t.sendsOutput /\ t.entry.output = "none" /\ ~t.entry.end
    THEN [t EXCEPT !.entry = [@ EXCEPT !.output = "enter"], !.running = TRUE]
    ELSE t

PressEnter ==
    /\ sends < MaxSends
    /\ sends' = sends + 1
    /\ tty' = Append(tty, 0)
    /\ tracker' = HandleEnter(tracker)
    /\ UNCHANGED <<shell, exitStatus, marks, result, run, following, mended, composer>>

----------------------------------------------------------------------------
(* The run.                                                                *)

\* Runs line k next, or ends the run when there is none.
RunFrom(r, k) ==
    IF k > Lines THEN [r EXCEPT !.phase = "done", !.current = Lines]
    ELSE [phase |-> "running", current |-> k, status |-> [r.status EXCEPT ![k] = "running"]]

FinishLine(r, exitCode) ==
    LET ended(status) == [r EXCEPT !.status = [@ EXCEPT ![r.current] = status]]
    IN  IF r.phase # "running" THEN r
        ELSE IF exitCode = "bad" THEN [ended("failed") EXCEPT !.phase = "failed"]
        ELSE RunFrom(ended("succeeded"), r.current + 1)

RetryLine(r) == IF r.phase = "failed" THEN RunFrom(r, r.current) ELSE r
ContinueRun(r) == IF r.phase = "failed" THEN RunFrom(r, r.current + 1) ELSE r

StopRun(r) ==
    CASE r.phase = "running" -> [r EXCEPT !.phase = "stopped",
                                                 !.status = [@ EXCEPT ![r.current] = "unfinished"]]
      [] r.phase = "failed" -> [r EXCEPT !.phase = "stopped"]
      [] OTHER -> r

PromptEndsLine(r, event) == FinishLine(r, event.exitCode)

\* A prompt after which the shell ran nothing ends no line, unless the line is
\* a comment or the prompt comes with a failing status.
PromptReached(r, event) ==
    IF event.started # "no" THEN FinishLine(r, event.exitCode)
    ELSE IF r.phase # "running" THEN r
    ELSE IF IsComment(r.current) THEN FinishLine(r, "unknown")
    ELSE IF event.status = "bad" THEN FinishLine(r, event.status)
    ELSE r

IsRunActive == run.phase \in {"running", "failed"}

\* Keeps the run and sends the line it has just started.
Apply(next) ==
    LET sendsLine == next.phase = "running"
                     /\ (run.phase # "running" \/ run.current # next.current)
    IN  /\ run' = next
        /\ following' = (next.phase \in {"running", "failed"})
        /\ IF sendsLine
           THEN /\ sends < MaxSends /\ sends' = sends + 1
                /\ tty' = Append(tty, next.current)
                /\ result' = [result EXCEPT ![next.current] = "none"]
           ELSE UNCHANGED <<sends, tty, result>>

\* A line goes in through the terminal's own input, as typing does.
AfterInput(t) == IF sends' > sends THEN HandleEnter(t) ELSE t

----------------------------------------------------------------------------
(* commandMarks.ts: handleMark.                                            *)

StartOutput(t) ==
    [t EXCEPT !.sendsOutput = TRUE, !.outputSince = TRUE, !.running = TRUE,
              !.entry = [@ EXCEPT !.output = IF t.entry.end THEN t.entry.output ELSE "mark"]]

FinishCommand(t, status) ==
    [t EXCEPT !.running = FALSE, !.statusSince = status,
              !.entry = [@ EXCEPT !.end = TRUE,
                                  !.exitCode = IF t.entry.end \/ t.entry.output = "none"
                                               THEN t.entry.exitCode ELSE status]]

StartPrompt(t) ==
    [t EXCEPT !.running = FALSE, !.outputSince = FALSE, !.statusSince = "unknown", !.entry = NoEntry]

PromptEvent(t) ==
    [exitCode |-> t.entry.exitCode, status |-> t.statusSince,
     started |-> IF ~t.sendsOutput THEN "unknown" ELSE IF t.outputSince THEN "yes" ELSE "no"]

HandleMark ==
    /\ marks # <<>> /\ marks' = Tail(marks)
    /\ LET mark == Head(marks)
       IN  \/ /\ mark = "C" /\ tracker' = StartOutput(tracker)
              /\ UNCHANGED <<tty, result, sends, run, following>>
           \/ /\ mark \in Statuses /\ tracker' = FinishCommand(tracker, mark)
              /\ UNCHANGED <<tty, result, sends, run, following>>
           \/ /\ mark = "A"
              /\ IF following THEN Apply(PromptReached(run, PromptEvent(tracker)))
                 ELSE UNCHANGED <<tty, result, sends, run, following>>
              /\ tracker' = AfterInput(StartPrompt(tracker))
    /\ UNCHANGED <<shell, exitStatus, mended, composer>>

PromptState == IF tracker.running THEN "busy" ELSE "prompt"

----------------------------------------------------------------------------
(* The bar.                                                                *)

\* insertIntoComposer, from the command library, with or without a guard
InsertIntoComposer ==
    \E asks \in BOOLEAN :
        /\ ~composer.asks /\ run = NoRun
        /\ composer' = [composer EXCEPT !.text = TRUE, !.guarded = (@ \/ asks), !.agreed = ~(composer.guarded \/ asks)]
        /\ UNCHANGED <<shellVars, sends, tracker, run, following, mended>>

EmptiedBar == [text |-> FALSE, guarded |-> FALSE, asks |-> FALSE, agreed |-> TRUE]

ClearComposer ==
    /\ composer.text /\ ~composer.asks
    /\ composer' = EmptiedBar
    /\ UNCHANGED <<shellVars, sends, tracker, run, following, mended>>

\* startComposerRun, refused while the shell is busy or another run goes on
StartComposerRun ==
    /\ PromptState = "prompt" /\ run = NoRun /\ sends < MaxSends
    /\ Apply(RunFrom(run, 1))
    /\ tracker' = AfterInput(tracker)
    /\ composer' = EmptiedBar
    /\ UNCHANGED <<shell, exitStatus, marks, mended>>

\* confirmGuarded, then submitToPane
SubmitUnasked ==
    /\ composer.text /\ ~composer.asks
    /\ StartComposerRun

Submit ==
    /\ composer.text /\ ~composer.asks
    /\ \/ /\ composer.guarded
          /\ composer' = [composer EXCEPT !.asks = TRUE]
          /\ UNCHANGED <<shellVars, sends, tracker, run, following, mended>>
       \/ /\ ~composer.guarded
          /\ StartComposerRun

AnswerConfirm ==
    /\ composer.asks
    /\ \/ /\ composer' = [composer EXCEPT !.asks = FALSE]
          /\ UNCHANGED <<shellVars, sends, tracker, run, following, mended>>
       \/ StartComposerRun

\* The progress's buttons: retry or go on after a failure, stop, dismiss.
RunButtons ==
    /\ \/ run.phase = "failed" /\ Apply(RetryLine(run)) /\ mended' = TRUE
       \/ run.phase = "failed" /\ Apply(ContinueRun(run)) /\ mended' = TRUE
       \/ IsRunActive /\ Apply(StopRun(run)) /\ UNCHANGED mended
    /\ tracker' = AfterInput(tracker)
    /\ UNCHANGED <<shell, exitStatus, marks, composer>>

----------------------------------------------------------------------------
Next ==
    \/ ShellReads \/ ShellEnds \/ PressEnter \/ HandleMark
    \/ InsertIntoComposer \/ ClearComposer \/ Submit \/ AnswerConfirm \/ RunButtons

Spec == Init /\ [][Next]_vars

----------------------------------------------------------------------------
RunStates ==
    [phase : {"none", "running", "failed", "done", "stopped"}, current : 0..Lines,
     status : [1..Lines -> {"pending", "running", "succeeded", "failed", "unfinished"}]]

TrackerStates ==
    [sendsOutput : BOOLEAN, running : BOOLEAN, outputSince : BOOLEAN,
     statusSince : Statuses \cup {"unknown"},
     entry : [output : {"none", "mark", "enter"}, end : BOOLEAN,
              exitCode : Statuses \cup {"unknown"}]]

TypeOK ==
    /\ tty \in Seq(0..Lines) /\ shell \in 0..Lines /\ exitStatus \in Statuses
    /\ marks \in Seq({"A", "C"} \cup Statuses)
    /\ result \in [1..Lines -> {"none", "ended", "failed"}] /\ sends \in 0..MaxSends
    /\ run \in RunStates /\ tracker \in TrackerStates
    /\ {following, mended} \subseteq BOOLEAN

\* "A line goes to the shell only once the one before it has ended"
\* (composerRun.ts): a command the run takes to have succeeded is over in the
\* shell, so the next line never becomes its input.
LineGoesAfterLine ==
    \A k \in 1..Lines : run.status[k] = "succeeded" /\ ~IsComment(k) => result[k] = "ended"

\* The same as long as no failure has been answered: whatever Enters the user
\* presses in the terminal before and while the lines run.
LinesInTurn == mended \/ LineGoesAfterLine

\* A saved command that asks before it runs is never sent unasked from the
\* bar, whatever was in the bar before it.
GuardedAsksFirst ==
    run = NoRun /\ run' # NoRun => composer.agreed \/ composer.asks

\* The marks on their way: a C is followed by a status once its command is over, a status by
\* an A; and the tracker knows how far it has read them.
MarksInOrder ==
    /\ tracker.sendsOutput
    /\ \A i \in 1..Len(marks) :
          /\ marks[i] \in Statuses => i < Len(marks) /\ marks[i+1] = "A"
          /\ marks[i] = "C" => IF i = Len(marks) THEN shell > 0 ELSE marks[i+1] \in Statuses
          /\ marks[i] = "A" /\ i < Len(marks) => marks[i+1] # "A"
    /\ tracker.entry.end <=> marks # <<>> /\ marks[1] = "A"
    /\ tracker.entry.output = IF tracker.outputSince THEN "mark" ELSE "none"
    /\ tracker.outputSince /\ ~tracker.entry.end =>
          IF marks = <<>> THEN shell > 0 ELSE marks[1] \in Statuses
    /\ shell > 0 => IF marks = <<>> THEN tracker.outputSince ELSE marks[Len(marks)] = "C"

CommandAt(i) == tty[i] > 0 /\ ~IsComment(tty[i])

\* While lines are to run, no command but the current line is with the shell or marked, and
\* its C and its status are not told apart from another's.
RunsOneCommand ==
    /\ \A i \in 1..Len(tty) : CommandAt(i) =>
          /\ run.phase = "running" /\ tty[i] = run.current /\ shell = 0
          /\ ~tracker.outputSince /\ \A j \in 1..Len(marks) : marks[j] # "C"
          /\ \A j \in 1..Len(tty) : CommandAt(j) => j = i
    /\ shell > 0 => shell = run.current
    /\ \A i \in 1..Len(marks) : marks[i] = "C" =>
          /\ run.phase = "running" /\ ~IsComment(run.current) /\ ~tracker.outputSince
          /\ \A j \in 1..Len(marks) : marks[j] = "C" => j = i
          /\ i < Len(marks) /\ marks[i+1] = "ok" => result[run.current] = "ended"
    /\ tracker.outputSince =>
          /\ run.phase = "running" /\ ~IsComment(run.current)
          /\ ~tracker.entry.end /\ marks # <<>> /\ marks[1] = "ok" => result[run.current] = "ended"
          /\ tracker.entry.end => /\ tracker.entry.exitCode \in Statuses
                                  /\ tracker.entry.exitCode = "ok" => result[run.current] = "ended"
    /\ run.phase = "running" => run.current > 0 /\ run.status[run.current] = "running"

\* What has succeeded is not with the shell any more.
SucceededIsOver ==
    /\ \A i \in 1..Len(tty) : CommandAt(i) => run.status[tty[i]] # "succeeded"
    /\ shell > 0 => ~IsComment(shell) /\ run.status[shell] # "succeeded"

TurnInv ==
    /\ TypeOK /\ MarksInOrder
    /\ ~mended => /\ SucceededIsOver /\ LineGoesAfterLine
                  /\ run.phase \in {"none", "running"} => RunsOneCommand

\* A bar that guards nothing needs no answer, and only a run listens for prompts.
BarTellsGuards ==
    /\ composer \in [text : BOOLEAN, guarded : BOOLEAN, asks : BOOLEAN, agreed : BOOLEAN]
    /\ composer.guarded \/ composer.agreed
    /\ following => run # NoRun
=============================================================================
