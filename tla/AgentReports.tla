---------------------------- MODULE AgentReports ----------------------------
(***************************************************************************)
(* What programs in the terminals report of themselves: AI agents through  *)
(* tTerm's hooks (agentStatus: one AgentTracker per terminal, the sessions *)
(* of a shared server claimed across them) and kitty's notifications in    *)
(* chunks (terminalNotifications, attentionReports).                       *)
(***************************************************************************)
EXTENDS Integers, Sequences, SequencesExt

CONSTANTS Terminals, Agents,
          StopReporters,   \* the agents that report it when they are stopped
          AgentSessions,   \* sessions of the server every terminal hears of
          ChunkIds, PartialLimit,
          MaxReports       \* bound on reports and notifications

VARIABLES agentStatus,   \* what a tab shows: [agent, activity], or None
          runningAgent,  \* the agent of the terminal, or "none"
          lastReport,    \* a report was heard less than the echo window ago
          waitTimer,     \* the agent whose wait will be announced, or "none"
          submitted,     \* Enter was typed less than the claim window ago
          owner,         \* sessionOwners
          partials,      \* unfinished chunked notifications, oldest first
          said,          \* the announcement or request of the last step, or Silence
          reported

vars == <<agentStatus, runningAgent, lastReport, waitTimer, submitted, owner, partials, said,
          reported>>

None == [agent |-> "none", activity |-> "none"]
Silence == [from |-> "none", agent |-> "none", state |-> "none"]
States == {"processing", "waiting", "done", "error", "idle", "ended"}

TypeOK ==
    /\ agentStatus \in [Terminals -> [agent : Agents \cup {"none"},
                                      activity : {"processing", "waiting", "none"}]]
    /\ runningAgent \in [Terminals -> Agents \cup {"none"}]
    /\ waitTimer \in [Terminals -> Agents \cup {"none"}]
    /\ lastReport \in [Terminals -> BOOLEAN] /\ submitted \in [Terminals -> BOOLEAN]
    /\ owner \in [AgentSessions -> Terminals \cup {"none"}]
    /\ \A t \in Terminals : Len(partials[t]) <= PartialLimit
    /\ said \in [from : Terminals \cup {"none"}, agent : Agents \cup {"none"},
                 state : {"waiting", "done", "error", "request", "none"}]
    /\ reported \in 0..MaxReports

Init ==
    /\ agentStatus = [t \in Terminals |-> None]
    /\ runningAgent = [t \in Terminals |-> "none"]
    /\ waitTimer = [t \in Terminals |-> "none"]
    /\ lastReport = [t \in Terminals |-> FALSE] /\ submitted = [t \in Terminals |-> FALSE]
    /\ owner = [s \in AgentSessions |-> "none"]
    /\ partials = [t \in Terminals |-> <<>>]
    /\ said = Silence /\ reported = 0

Reported == reported < MaxReports /\ reported' = reported + 1

Says(t, agent, state) == said' = [from |-> t, agent |-> agent, state |-> state]

CancelWait(t) == waitTimer' = [waitTimer EXCEPT ![t] = "none"]

ReleaseSessions(t) == [s \in AgentSessions |-> IF owner[s] = t THEN "none" ELSE owner[s]]

-----------------------------------------------------------------------------
(* AgentTracker.                                                           *)

\* claim: a session belongs to the terminal Enter was typed in shortly before it was first
\* heard of, and each Enter submits one session.
Claims(t, session, state) ==
    \/ owner[session] = t
    \/ owner[session] = "none" /\ state # "ended" /\ submitted[t]

Claim(t, session, state) ==
    /\ owner' = IF state = "ended" THEN ReleaseSessions(t) ELSE [owner EXCEPT ![session] = t]
    /\ submitted' = [submitted EXCEPT ![t] = owner[session] = t /\ @]

\* reset: the shell's prompt is back, the agent ended or the session closed.
Reset(t) ==
    /\ CancelWait(t)
    /\ lastReport' = [lastReport EXCEPT ![t] = FALSE]
    /\ agentStatus' = [agentStatus EXCEPT ![t] = None]
    /\ runningAgent' = [runningAgent EXCEPT ![t] = "none"]

\* What a report the terminal takes as its own does.
TakeReport(t, agent, state) ==
    IF state = "ended" THEN Reset(t) /\ said' = Silence
    ELSE /\ lastReport' = [lastReport EXCEPT ![t] = TRUE]
         /\ runningAgent' = [runningAgent EXCEPT ![t] = agent]
         /\ agentStatus' = [agentStatus EXCEPT
              ![t] = IF state \in {"processing", "waiting"}
                     THEN [agent |-> agent, activity |-> state] ELSE None]
         /\ waitTimer' = [waitTimer EXCEPT ![t] = IF state = "waiting" THEN agent ELSE "none"]
         /\ IF state \in {"done", "error"} THEN Says(t, agent, state) ELSE said' = Silence

\* An agent's own hook writes to its terminal.
Report(t, agent, state) ==
    /\ Reported
    /\ TakeReport(t, agent, state)
    /\ owner' = IF state = "ended" THEN ReleaseSessions(t) ELSE owner
    /\ UNCHANGED <<submitted, partials>>

\* The shared server tells every terminal of a session; t hears of it now.
SessionReport(t, session, agent, state) ==
    /\ Reported
    /\ Claims(t, session, state)
    /\ Claim(t, session, state)
    /\ TakeReport(t, agent, state)
    /\ UNCHANGED partials

\* The wait lasted.
WaitOver(t) ==
    /\ waitTimer[t] # "none"
    /\ Says(t, waitTimer[t], "waiting")
    /\ CancelWait(t)
    /\ UNCHANGED <<agentStatus, runningAgent, lastReport, submitted, owner, partials, reported>>

\* Esc or Ctrl+C typed in the terminal.
Interrupt(t) ==
    /\ agentStatus[t] # None /\ agentStatus[t].agent \notin StopReporters
    /\ CancelWait(t)
    /\ agentStatus' = [agentStatus EXCEPT ![t] = None]
    /\ said' = Silence
    /\ UNCHANGED <<runningAgent, lastReport, submitted, owner, partials, reported>>

Answering(t) == agentStatus[t].activity = "waiting" /\ agentStatus[t].agent \in StopReporters

\* answer: the agent waiting for the user works on.
AnswerKeepsTimer(t) ==
    /\ agentStatus' = IF Answering(t) THEN [agentStatus EXCEPT ![t].activity = "processing"]
                      ELSE agentStatus
    /\ UNCHANGED waitTimer

AnswerAgent(t) ==
    IF Answering(t)
    THEN CancelWait(t) /\ agentStatus' = [agentStatus EXCEPT ![t].activity = "processing"]
    ELSE UNCHANGED <<waitTimer, agentStatus>>

\* Anything else typed; Enter may take the next new session the terminal hears of.
Typed(t, enter) ==
    /\ Answering(t) \/ (enter /\ ~submitted[t])
    /\ AnswerAgent(t)
    /\ submitted' = [submitted EXCEPT ![t] = @ \/ enter]
    /\ said' = Silence
    /\ UNCHANGED <<runningAgent, lastReport, owner, partials, reported>>

ClaimWindowOver(t) ==
    /\ submitted[t]
    /\ submitted' = [submitted EXCEPT ![t] = FALSE]
    /\ said' = Silence
    /\ UNCHANGED <<agentStatus, runningAgent, lastReport, waitTimer, owner, partials, reported>>

EchoWindowOver(t) ==
    /\ lastReport[t]
    /\ lastReport' = [lastReport EXCEPT ![t] = FALSE]
    /\ said' = Silence
    /\ UNCHANGED <<agentStatus, runningAgent, waitTimer, submitted, owner, partials, reported>>

\* The shell marks its prompt, or the session closes.
PromptBack(t) ==
    /\ Reset(t)
    /\ owner' = ReleaseSessions(t)
    /\ said' = Silence
    /\ UNCHANGED <<submitted, partials, reported>>

-----------------------------------------------------------------------------
(* Notifications programs ask for.                                         *)

\* An agent's own notifications repeat what its reports say.
SpeaksForAgent(t) == agentStatus[t] # None \/ lastReport[t]

\* OSC 9 and 777.
Notifies(t) ==
    /\ Reported
    /\ ~SpeaksForAgent(t)
    /\ Says(t, "none", "request")
    /\ UNCHANGED <<agentStatus, runningAgent, lastReport, waitTimer, submitted, owner, partials>>

\* OSC 99: a chunk of notification id; an unfinished one is kept, the oldest going when
\* there are too many.
NotifiesInChunks(t, id, last) ==
    LET others == SelectSeq(partials[t], LAMBDA p : p # id)
        fresh == \A i \in DOMAIN partials[t] : partials[t][i] # id
        kept == IF fresh /\ Len(partials[t]) >= PartialLimit THEN Tail(partials[t])
                ELSE partials[t]
    IN  /\ Reported
        /\ ~SpeaksForAgent(t)
        /\ partials' = [partials EXCEPT ![t] = IF last THEN others
                                               ELSE IF fresh THEN Append(kept, id) ELSE @]
        /\ IF last THEN Says(t, "none", "request") ELSE said' = Silence
        /\ UNCHANGED <<agentStatus, runningAgent, lastReport, waitTimer, submitted, owner>>

Next ==
    \E t \in Terminals :
        \/ \E agent \in Agents, state \in States :
            \/ Report(t, agent, state)
            \/ \E s \in AgentSessions : SessionReport(t, s, agent, state)
        \/ WaitOver(t) \/ Interrupt(t)
        \/ \E enter \in BOOLEAN : Typed(t, enter)
        \/ ClaimWindowOver(t) \/ EchoWindowOver(t) \/ PromptBack(t)
        \/ Notifies(t)
        \/ \E id \in ChunkIds, last \in BOOLEAN : NotifiesInChunks(t, id, last)

Spec == Init /\ [][Next]_vars

-----------------------------------------------------------------------------
(***************************************************************************)
(* A wait is announced only while it lasts: the terminal it is announced   *)
(* for still shows that agent waiting, whatever was reported, typed or     *)
(* prompted since the timer was set.                                       *)
(***************************************************************************)
AnnouncedWaitsLast ==
    said'.state = "waiting" =>
        agentStatus[said'.from] = [agent |-> said'.agent, activity |-> "waiting"]

\* A wait that will be announced is the one shown.
TimedWaitIsShown ==
    /\ DOMAIN agentStatus = Terminals /\ DOMAIN waitTimer = Terminals
    /\ \A t \in Terminals :
          waitTimer[t] # "none" => agentStatus[t] = [agent |-> waitTimer[t], activity |-> "waiting"]
=============================================================================
