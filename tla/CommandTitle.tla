---------------------------- MODULE CommandTitle ----------------------------
(***************************************************************************)
(* The command a tab shows while its shell runs it: CommandTimer, which    *)
(* follows the keys and the shell's marks (terminalNotifications,          *)
(* commandTracking), and the delay after which tabAttention shows the      *)
(* command.  A reconnect replaces the timer of the tab's session.          *)
(***************************************************************************)
EXTENDS Integers

CONSTANTS Commands, MaxMarks

VARIABLES startedAt,      \* a command has started
          typedCommand,   \* the command line known of, or "none"
          runningName,    \* what the timer reported as running, or "none"
          titleTimer,     \* the command shown once the delay is over, or "none"
          title,          \* runningCommands: the command on the tab, or "none"
          shellReports,   \* the shell reports its command lines
          finishedOf,     \* the command of the last finished notification, or "none"
          marksSeen

vars == <<startedAt, typedCommand, runningName, titleTimer, title, shellReports, finishedOf,
          marksSeen>>

Names == Commands \cup {"none"}

TypeOK ==
    /\ startedAt \in BOOLEAN /\ shellReports \in BOOLEAN
    /\ typedCommand \in Names /\ runningName \in Names /\ titleTimer \in Names
    /\ title \in Names /\ finishedOf \in Names \cup {"unnamed"}
    /\ marksSeen \in 0..MaxMarks

Init ==
    /\ startedAt = FALSE /\ shellReports = FALSE
    /\ typedCommand = "none" /\ runningName = "none" /\ titleTimer = "none" /\ title = "none"
    /\ finishedOf = "none" /\ marksSeen = 0

Marked == marksSeen < MaxMarks /\ marksSeen' = marksSeen + 1

SetWithoutClearing(command) ==
    /\ titleTimer' = IF command = "none" THEN titleTimer ELSE command
    /\ title' = "none"

\* setTabRunningCommand: a command shows after the delay, one that is over goes at once.
SetTabRunningCommand(command) == titleTimer' = command /\ title' = "none"

TitleStays == UNCHANGED <<titleTimer, title>>

\* reportRunning: the first command after the prompt is what runs.
ReportRunning(started, command) ==
    IF runningName # "none" \/ ~started \/ command = "none"
    THEN TitleStays /\ UNCHANGED runningName
    ELSE runningName' = command /\ SetTabRunningCommand(command)

\* prompt: whatever ran is over.
Prompt ==
    /\ startedAt' = FALSE /\ typedCommand' = "none" /\ runningName' = "none"
    /\ IF runningName = "none" THEN TitleStays ELSE SetTabRunningCommand("none")

\* A line typed at the prompt names the command, unless the shell reports its lines; Enter
\* starts it where the shell sends no output mark.  Lines typed into a program name nothing.
TypeLine(command, starts) ==
    LET names == ~shellReports /\ ~startedAt
        line == IF names THEN command ELSE typedCommand
    IN  /\ Marked
        /\ typedCommand' = line
        /\ startedAt' = (startedAt \/ starts)
        /\ ReportRunning(startedAt', line)
        /\ UNCHANGED <<shellReports, finishedOf>>

OutputMark ==
    /\ Marked
    /\ startedAt' = TRUE
    /\ ReportRunning(TRUE, typedCommand)
    /\ UNCHANGED <<typedCommand, shellReports, finishedOf>>

\* The command line the shell says it runs (OSC 633 E) names the command in any case.
CommandMark(command) ==
    /\ Marked
    /\ typedCommand' = command /\ shellReports' = TRUE
    /\ IF runningName \in {"none", command} THEN ReportRunning(startedAt, command)
       ELSE runningName' = command /\ SetTabRunningCommand(command)
    /\ UNCHANGED <<startedAt, finishedOf>>

PromptMark ==
    /\ Marked /\ Prompt
    /\ UNCHANGED <<shellReports, finishedOf>>

DoneMark ==
    /\ Marked /\ Prompt
    /\ finishedOf' = IF ~startedAt THEN finishedOf
                     ELSE IF typedCommand = "none" THEN "unnamed" ELSE typedCommand
    /\ UNCHANGED shellReports

\* The session ends, or the tab reconnects: a new timer that knows nothing.
SessionReplaced ==
    /\ Marked /\ Prompt
    /\ shellReports' = FALSE
    /\ UNCHANGED finishedOf

DelayOver ==
    /\ titleTimer # "none"
    /\ title' = titleTimer /\ titleTimer' = "none"
    /\ UNCHANGED <<startedAt, typedCommand, runningName, shellReports, finishedOf, marksSeen>>

Next ==
    \/ \E c \in Commands : \/ CommandMark(c)
                           \/ \E starts \in BOOLEAN : TypeLine(c, starts)
    \/ OutputMark \/ PromptMark \/ DoneMark \/ SessionReplaced \/ DelayOver

Spec == Init /\ [][Next]_vars

-----------------------------------------------------------------------------
(***************************************************************************)
(* A tab shows the command its shell runs and no other: what it shows, or  *)
(* will once the delay is over, is what the timer last reported, and       *)
(* nothing once that is over.                                              *)
(***************************************************************************)
TitleIsRunning == {title, titleTimer} \subseteq {"none", runningName}
=============================================================================
