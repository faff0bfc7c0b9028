--------------------------- MODULE MCTerminalTab ----------------------------
(***************************************************************************)
(* A terminal tab for TLC: its output path, session, password prompts,     *)
(* compose bar, predictive echo, server monitor, notifications, agents,    *)
(* command title and search. The parts share no state the properties are   *)
(* about, so a behaviour is one of a single part, chosen at the start: the *)
(* variables of OutputFlow hold the output path's state, s1 to s18 that of *)
(* any other part.                                                         *)
(***************************************************************************)
EXTENDS OutputFlow, SequenceTheorems, TLAPS

CONSTANTS
    MaxNonce, MaxAttempts, ReconnectEnabled,    \* of TerminalSession
    HistoryLimit, MetricsActs, MaxSamples,      \* of ServerMetrics
    MaxFeeds, MaxChecks, MaxScript,             \* of PasswordPrompt
    Lines, MaxSends,                            \* of ShellRun
    Terminals, Agents, StopReporters, AgentSessions,
    ChunkIds, PartialLimit, MaxReports,         \* of AgentReports
    Commands, MaxMarks,                         \* of CommandTitle
    Queries, Options, Found, Broken, SearchActs,    \* of TerminalSearch
    Tabs, Settings, MaxUnseen, NoticeActs       \* of Attention

ASSUME SessionAssumption == MaxNonce \in Nat /\ MaxAttempts \in Nat /\ ReconnectEnabled \in BOOLEAN
ASSUME PromptAssumption == MaxFeeds \in Nat /\ MaxChecks \in Nat /\ MaxScript \in Nat
ASSUME RunAssumption == Lines \in Nat /\ MaxSends \in Nat
ASSUME TitleAssumption == MaxMarks \in Nat
\* The addon finds nothing for an empty query.
ASSUME SearchAssumption == SearchActs \in Nat /\ \A pair \in Found : pair[1] # "empty"
ASSUME NoticeAssumption == MaxUnseen \in Nat /\ NoticeActs \in Nat /\ "none" \notin Tabs

VARIABLES part, s1, s2, s3, s4, s5, s6, s7, s8, s9, s10, s11, s12, s13, s14, s15, s16, s17, s18

slots == <<s1, s2, s3, s4, s5, s6, s7, s8, s9, s10, s11, s12, s13, s14, s15, s16, s17, s18>>
allVars == <<part, vars, slots>>

\* Output of six bytes, well formed and not.
SmallStreams == { <<1, 3, 0, 0, 2, 0>>, <<4, 0, 0, 0, 1, 2>>, <<2, 1, 0, 4, 0, 0>> }

\* Two prompts that look alike and echo differently among those the remote shows.
RemotePrompts == {[look |-> "$", echo |-> "shell"], [look |-> "P", echo |-> "mask"],
                  [look |-> "?", echo |-> "mask"], [look |-> "?", echo |-> "silent"]}
NotifyAll == [enabled |-> TRUE, bellNotify |-> TRUE, bellStyle |-> "sound",
              wanted |-> {"command", "agent"}]
InTheBuffer == {<<"q1", "o1">>, <<"q1", "o2">>, <<"q2", "o1">>}
Unsearchable == {<<"q2", "o2">>}

Session == INSTANCE TerminalSession WITH nonce <- s1, open <- s2, stage <- s3, disposed <- s4,
    creating <- s5, calls <- s6, shown <- s7, waiting <- s8, mapped <- s9, supervisor <- s10,
    stopped <- s11, attempt <- s12, failures <- s13
Passwords == INSTANCE PasswordPrompt WITH cursorLine <- s1, lineFeeds <- s2, promptKey <- s3,
    prompt <- s4, answered <- s5, offered <- s6, bar <- s7, checkId <- s8, lookups <- s9,
    rejected <- s10, lastFill <- s11, filling <- s12, suspended <- s13, captured <- s14,
    recorded <- s15, scriptLeft <- s16, scriptTimer <- s17, asking <- s18
Runs == INSTANCE ShellRun WITH Settled <- TRUE, tty <- s1, shell <- s2, exitStatus <- s3,
    marks <- s4, result <- s5, sends <- s6, tracker <- s7, run <- s8, following <- s9,
    mended <- s10, composer <- s11
Predicted == INSTANCE PredictiveEcho WITH Prompts <- RemotePrompts, Chars <- {"a", "b"},
    Cols <- 8, TypeAhead <- FALSE, MaxKeys <- 4, MaxRow <- 1, p <- s1, promptRow <- s2,
    cells <- s3, cursor <- s4, up <- s5, down <- s6, remote <- s7, typed <- s8, shown <- s9,
    secret <- s10
Metrics == INSTANCE ServerMetrics WITH Counters <- TRUE, MaxActs <- MetricsActs, visible <- s1,
    connected <- s2, active <- s3, run <- s4, loop <- s5, asked <- s6, requestId <- s7,
    base <- s8, status <- s9, collected <- s10, staleAt <- s11, cpuHistory <- s12,
    netHistory <- s13, overPause <- s14, panel <- s15, acts <- s16
Notices == INSTANCE Attention WITH MaxActs <- NoticeActs, openTabs <- s1, visible <- s2,
    activeTab <- s3, windowFocused <- s4, hasBeenActive <- s5, marks <- s6, unseen <- s7,
    tabToasts <- s8, announced <- s9, onTheWay <- s10, userActs <- s11
Agent == INSTANCE AgentReports WITH agentStatus <- s1, runningAgent <- s2, lastReport <- s3,
    waitTimer <- s4, submitted <- s5, owner <- s6, partials <- s7, said <- s8, reported <- s9
Titles == INSTANCE CommandTitle WITH startedAt <- s1, typedCommand <- s2, runningName <- s3,
    titleTimer <- s4, title <- s5, shellReports <- s6, finishedOf <- s7, marksSeen <- s8
Search == INSTANCE TerminalSearch WITH MaxActs <- SearchActs, isSearchOpen <- s1,
    searchQuery <- s2, searchOptions <- s3, previousSearchOptions <- s4, searchResults <- s5,
    highlighted <- s6, selection <- s7, active <- s8, searchTimer <- s9, decorations <- s10,
    acts <- s11

\* The slots a part does not use.
Idle18 == s18 = 0
Idle17 == s17 = 0 /\ Idle18
Idle16 == s16 = 0 /\ Idle17
Idle15 == s15 = 0 /\ Idle16
Idle14 == s14 = 0 /\ Idle15
Idle13 == s13 = 0 /\ Idle14
Idle12 == s12 = 0 /\ Idle13
Idle11 == s11 = 0 /\ Idle12
Idle10 == s10 = 0 /\ Idle11
Idle9 == s9 = 0 /\ Idle10
Idle8 == s8 = 0 /\ Idle9
Idle7 == s7 = 0 /\ Idle8
Idle6 == s6 = 0 /\ Idle7
Idle5 == s5 = 0 /\ Idle6
Idle4 == s4 = 0 /\ Idle5
Idle3 == s3 = 0 /\ Idle4
Idle2 == s2 = 0 /\ Idle3
Idle1 == s1 = 0 /\ Idle2

AllInit ==
    /\ Init
    /\ \/ part = "output" /\ Idle1
       \/ part = "session" /\ Session!Init /\ Idle14
       \/ part = "prompts" /\ Passwords!Init
       \/ part = "runs" /\ Runs!Init /\ Idle12
       \/ part = "echo" /\ Predicted!Init /\ Idle11
       \/ part = "metrics" /\ Metrics!Init /\ Idle17
       \/ part = "attention" /\ Notices!Init /\ Idle12
       \/ part = "agents" /\ Agent!Init /\ Idle10
       \/ part = "title" /\ Titles!Init /\ Idle9
       \/ part = "search" /\ Search!Init /\ Idle12
    /\ part # "output" => stream = <<1, 3, 0, 0, 2, 0>>

AllNext ==
    \/ part = "output" /\ Next /\ UNCHANGED <<part, slots>>
    \/ part = "session" /\ Session!Next /\ UNCHANGED <<part, vars, s14, s15, s16, s17, s18>>
    \/ part = "prompts" /\ Passwords!Next /\ UNCHANGED <<part, vars>>
    \/ part = "runs" /\ Runs!Next /\ UNCHANGED <<part, vars, s12, s13, s14, s15, s16, s17, s18>>
    \/ /\ part = "echo" /\ Predicted!Next
       /\ UNCHANGED <<part, vars, s11, s12, s13, s14, s15, s16, s17, s18>>
    \/ part = "metrics" /\ Metrics!Next /\ UNCHANGED <<part, vars, s17, s18>>
    \/ /\ part = "attention" /\ Notices!Next
       /\ UNCHANGED <<part, vars, s12, s13, s14, s15, s16, s17, s18>>
    \/ /\ part = "agents" /\ Agent!Next
       /\ UNCHANGED <<part, vars, s10, s11, s12, s13, s14, s15, s16, s17, s18>>
    \/ /\ part = "title" /\ Titles!Next
       /\ UNCHANGED <<part, vars, s9, s10, s11, s12, s13, s14, s15, s16, s17, s18>>
    \/ /\ part = "search" /\ Search!Next
       /\ UNCHANGED <<part, vars, s12, s13, s14, s15, s16, s17, s18>>

\* The fairness each module assumes, of the chosen part.
sessionVars == <<s1, s2, s3, s4, s5, s6, s7, s8, s9, s10, s11, s12, s13>>
AllFairness ==
    /\ WF_vars(part = "output" /\ SenderStep) /\ WF_vars(part = "output" /\ FinishJoins)
    /\ \A n \in Session!Nonces :
        /\ WF_sessionVars(part = "session" /\ Session!BackoffEnds(n))
        /\ WF_sessionVars(part = "session" /\ Session!SpawnAttempt(n))
        /\ WF_sessionVars(part = "session" /\ Session!AttemptSeesStop(n))

AllSpec == AllInit /\ [][AllNext]_allVars /\ AllFairness

-----------------------------------------------------------------------------
\* Nothing outlives its tab: once every call is answered, the backend holds a session only
\* for a session of the tab that has not been disposed of (ptySession).
NoOrphanPty == part = "session" => Session!TypeOK /\ Session!NoOrphanPty

\* A session that was stopped ends, an attempt its supervisor was about to start included
\* (supervisor.rs).
StoppedSessionsEnd ==
    \A n \in Session!Nonces :
        (part = "session" /\ s11[n]) ~> (part = "session" => Session!Over(n))

\* The saved password is offered for the unanswered prompt on the screen only, though
\* lookups answer late (savedPasswordPrompts).
OfferIsForThePrompt == part = "prompts" => Passwords!TypeOK /\ Passwords!OfferIsForThePrompt

\* What is typed at a prompt that does not echo is neither recorded in the command history
\* nor drawn as a guess (savedPasswordPrompts, commandTracking, predictiveEcho).
SecretsStayHidden ==
    /\ part = "prompts" => Passwords!SecretsNotRecorded
    /\ part = "echo" => Predicted!SecretsNeverDrawn

\* A line of the compose bar goes to the shell only once the one before it has ended
\* (composerRun).
LinesInTurn == part = "runs" => Runs!TypeOK /\ Runs!LinesInTurn

\* However the tab leaves and enters the view, the monitor has one poll under way or is
\* paused out of view, and shows no average over a pause (useServerMetricsPolling).
OnePollingLoop == part = "metrics" => Metrics!OnePollingLoop /\ Metrics!NoAverageOverPause

\* A saved command that asks before it runs is never sent unasked, and a wait of an agent
\* is announced only while it lasts (useComposerSubmit, agentStatus).
AsksAndAnnouncesInTime ==
    [][/\ part = "runs" => Runs!GuardedAsksFirst
       /\ part = "agents" => Agent!AnnouncedWaitsLast]_allVars

\* What the tab shows is so: its title names the command that runs, what is highlighted and
\* counted is what the open search bar asks for, and a tab in sight has nothing unseen
\* (commandTitle, useTerminalSearch, useTerminalNotifications).
TabTellsTheTruth ==
    /\ part = "title" => Titles!TypeOK /\ Titles!TitleIsRunning
    /\ part = "search" => Search!SearchSettles
    /\ part = "attention" => Notices!TypeOK /\ Notices!SeenIsAnswered

-----------------------------------------------------------------------------
(* The session.                                                            *)

LEMMA SessionInit == Session!Init => Session!OrphanInv
<1> SUFFICES ASSUME Session!Init PROVE Session!OrphanInv
  OBVIOUS
<1>1. Session!TypeOK
  <2>1. s1 \in Session!Nonces /\ s9 \in Session!Nonces \cup {Session!NoSession}
    BY SessionAssumption DEF Session!Init, Session!Nonces, Session!NoSession
  <2>2. s13 \in [Session!Nonces -> 0..(MaxAttempts + 1)]
    BY SessionAssumption DEF Session!Init
  <2>3. s6 \subseteq Session!Calls
    BY DEF Session!Init
  <2> QED BY <2>1, <2>2, <2>3 DEF Session!Init, Session!TypeOK
<1>2. Session!CreatedOnce /\ Session!KillOnTheWay /\ Session!NoOrphanPty
  BY SessionAssumption DEF Session!Init, Session!CreatedOnce, Session!KillOnTheWay,
     Session!NoOrphanPty, Session!Nonces, Session!NoSession, Session!Fresh
<1> QED BY <1>1, <1>2 DEF Session!OrphanInv

\* Two calls are the same only if they are of one kind and of one session.
LEMMA SessionCalls ==
    \A m, n \in Session!Nonces :
        /\ {Session!Create(n), Session!Kill(n), Session!Answer(n, "created"), Session!Answer(n, "failed")} \subseteq Session!Calls
        /\ Session!Create(n) # Session!Kill(m)
        /\ \A r \in {"created", "failed"} :
              /\ Session!Answer(m, r) # Session!Create(n) /\ Session!Answer(m, r) # Session!Kill(n)
              /\ Session!Answer(m, r) = Session!Answer(n, r) => m = n
        /\ Session!Answer(m, "created") # Session!Answer(n, "failed")
        /\ Session!Create(m) = Session!Create(n) => m = n
        /\ Session!Kill(m) = Session!Kill(n) => m = n
BY DEF Session!Create, Session!Kill, Session!Answer, Session!Calls

LEMMA SessionReconnect == ASSUME Session!OrphanInv, Session!Reconnect PROVE Session!OrphanInv'
<1> USE SessionAssumption DEF Session!Nonces, Session!NoSession
<1>0. Session!TypeOK /\ Session!CreatedOnce /\ Session!KillOnTheWay /\ Session!NoOrphanPty
  BY DEF Session!OrphanInv
<1>1. Session!TypeOK'
  <2>1. s1' \in Session!Nonces /\ s1 \in Session!Nonces
    BY <1>0 DEF Session!TypeOK, Session!Reconnect
  <2>2. s6' \subseteq Session!Calls
    BY <1>0, <2>1, SessionCalls DEF Session!TypeOK, Session!Reconnect
  <2> QED BY <1>0, <2>1, <2>2 DEF Session!TypeOK, Session!Reconnect, Session!beVars
<1>2. Session!CreatedOnce'
  BY <1>0, <1>1, SessionCalls DEF Session!TypeOK, Session!CreatedOnce, Session!Fresh,
     Session!Reconnect, Session!beVars
<1>3. Session!KillOnTheWay'
  BY <1>0, <1>1, SessionCalls DEF Session!TypeOK, Session!CreatedOnce, Session!KillOnTheWay,
     Session!Reconnect, Session!beVars
<1>4. Session!NoOrphanPty'
  BY <1>0, <1>1, <1>3, SessionCalls DEF Session!TypeOK, Session!CreatedOnce,
     Session!KillOnTheWay, Session!NoOrphanPty, Session!Reconnect, Session!beVars
<1> QED BY <1>1, <1>2, <1>3, <1>4 DEF Session!OrphanInv

LEMMA SessionCloseTab == ASSUME Session!OrphanInv, Session!CloseTab PROVE Session!OrphanInv'
<1> USE SessionAssumption DEF Session!Nonces, Session!NoSession
<1>0. Session!TypeOK /\ Session!CreatedOnce /\ Session!KillOnTheWay /\ Session!NoOrphanPty
  BY DEF Session!OrphanInv
<1>1. Session!TypeOK'
  BY <1>0, SessionCalls DEF Session!TypeOK, Session!CloseTab, Session!beVars
<1>2. Session!CreatedOnce'
  BY <1>0, <1>1, SessionCalls DEF Session!TypeOK, Session!CreatedOnce, Session!Fresh,
     Session!CloseTab, Session!beVars
<1>3. Session!KillOnTheWay'
  BY <1>0, <1>1, SessionCalls DEF Session!TypeOK, Session!CreatedOnce, Session!KillOnTheWay,
     Session!CloseTab, Session!beVars
<1>4. Session!NoOrphanPty'
  BY <1>0, <1>1, <1>3, SessionCalls DEF Session!TypeOK, Session!CreatedOnce,
     Session!KillOnTheWay, Session!NoOrphanPty, Session!CloseTab, Session!beVars
<1> QED BY <1>1, <1>2, <1>3, <1>4 DEF Session!OrphanInv

LEMMA SessionListenersReady == ASSUME Session!OrphanInv, NEW n \in Session!Nonces, Session!ListenersReady(n) PROVE Session!OrphanInv'
<1> USE SessionAssumption DEF Session!Nonces, Session!NoSession
<1>0. Session!TypeOK /\ Session!CreatedOnce /\ Session!KillOnTheWay /\ Session!NoOrphanPty
  BY DEF Session!OrphanInv
<1>1. Session!TypeOK'
  BY <1>0 DEF Session!TypeOK, Session!ListenersReady, Session!beVars
<1>2. Session!CreatedOnce'
  BY <1>0, <1>1 DEF Session!TypeOK, Session!CreatedOnce, Session!Fresh,
     Session!ListenersReady, Session!beVars
<1>3. Session!KillOnTheWay'
  BY <1>0, <1>1 DEF Session!TypeOK, Session!CreatedOnce, Session!KillOnTheWay,
     Session!ListenersReady, Session!beVars
<1>4. Session!NoOrphanPty'
  BY <1>0, <1>1, <1>3 DEF Session!TypeOK, Session!CreatedOnce, Session!KillOnTheWay,
     Session!NoOrphanPty, Session!ListenersReady, Session!beVars
<1> QED BY <1>1, <1>2, <1>3, <1>4 DEF Session!OrphanInv

LEMMA SessionFitSettled == ASSUME Session!OrphanInv, NEW n \in Session!Nonces, Session!FitSettled(n) PROVE Session!OrphanInv'
<1> USE SessionAssumption DEF Session!Nonces, Session!NoSession
<1>0. Session!TypeOK /\ Session!CreatedOnce /\ Session!KillOnTheWay /\ Session!NoOrphanPty
  BY DEF Session!OrphanInv
<1>1. Session!TypeOK'
  BY <1>0, SessionCalls DEF Session!TypeOK, Session!FitSettled, Session!beVars
<1>2. Session!CreatedOnce'
  BY <1>0, <1>1, SessionCalls DEF Session!TypeOK, Session!CreatedOnce, Session!Fresh,
     Session!FitSettled, Session!beVars
<1>3. Session!KillOnTheWay'
  BY <1>0, <1>1, SessionCalls DEF Session!TypeOK, Session!CreatedOnce, Session!KillOnTheWay,
     Session!FitSettled, Session!beVars
<1>4. Session!NoOrphanPty'
  BY <1>0, <1>1, <1>3, SessionCalls DEF Session!TypeOK, Session!CreatedOnce,
     Session!KillOnTheWay, Session!NoOrphanPty, Session!FitSettled, Session!beVars
<1> QED BY <1>1, <1>2, <1>3, <1>4 DEF Session!OrphanInv

LEMMA SessionCreated == ASSUME Session!OrphanInv, NEW n \in Session!Nonces, Session!Created(n) PROVE Session!OrphanInv'
<1> USE SessionAssumption DEF Session!Nonces, Session!NoSession
<1>0. Session!TypeOK /\ Session!CreatedOnce /\ Session!KillOnTheWay /\ Session!NoOrphanPty
  BY DEF Session!OrphanInv
<1>1. Session!TypeOK'
  BY <1>0, SessionCalls DEF Session!TypeOK, Session!Created, Session!beVars
<1>2. Session!CreatedOnce'
  BY <1>0, <1>1, SessionCalls DEF Session!TypeOK, Session!CreatedOnce, Session!Fresh,
     Session!Created, Session!beVars
<1>3. Session!KillOnTheWay'
  BY <1>0, <1>1, SessionCalls DEF Session!TypeOK, Session!CreatedOnce, Session!KillOnTheWay,
     Session!Created, Session!beVars
<1>4. Session!NoOrphanPty'
  BY <1>0, <1>1, <1>3, SessionCalls DEF Session!TypeOK, Session!CreatedOnce,
     Session!KillOnTheWay, Session!NoOrphanPty, Session!Created, Session!beVars
<1> QED BY <1>1, <1>2, <1>3, <1>4 DEF Session!OrphanInv

LEMMA SessionCreateFailed == ASSUME Session!OrphanInv, NEW n \in Session!Nonces, Session!CreateFailed(n) PROVE Session!OrphanInv'
<1> USE SessionAssumption DEF Session!Nonces, Session!NoSession
<1>0. Session!TypeOK /\ Session!CreatedOnce /\ Session!KillOnTheWay /\ Session!NoOrphanPty
  BY DEF Session!OrphanInv
<1>1. Session!TypeOK'
  BY <1>0, SessionCalls DEF Session!TypeOK, Session!CreateFailed, Session!beVars
<1>2. Session!CreatedOnce'
  BY <1>0, <1>1, SessionCalls DEF Session!TypeOK, Session!CreatedOnce, Session!Fresh,
     Session!CreateFailed, Session!beVars
<1>3. Session!KillOnTheWay'
  BY <1>0, <1>1, SessionCalls DEF Session!TypeOK, Session!CreatedOnce, Session!KillOnTheWay,
     Session!CreateFailed, Session!beVars
<1>4. Session!NoOrphanPty'
  BY <1>0, <1>1, <1>3, SessionCalls DEF Session!TypeOK, Session!CreatedOnce,
     Session!KillOnTheWay, Session!NoOrphanPty, Session!CreateFailed, Session!beVars
<1> QED BY <1>1, <1>2, <1>3, <1>4 DEF Session!OrphanInv

LEMMA SessionCreatePty == ASSUME Session!OrphanInv, NEW n \in Session!Nonces, Session!CreatePty(n) PROVE Session!OrphanInv'
<1> USE SessionAssumption DEF Session!Nonces, Session!NoSession
<1>0. Session!TypeOK /\ Session!CreatedOnce /\ Session!KillOnTheWay /\ Session!NoOrphanPty
  BY DEF Session!OrphanInv
<1>1. Session!TypeOK'
  <2>1. s6' \subseteq Session!Calls /\ s9' \in Session!Nonces \cup {Session!NoSession}
    BY <1>0, SessionCalls DEF Session!TypeOK, Session!CreatePty
  <2>2. s11' \in [Session!Nonces -> BOOLEAN]
    BY <1>0 DEF Session!TypeOK, Session!CreatePty
  <2>3. s10' \in [Session!Nonces -> {"none", "watching", "backoff", "spawning", "gone"}]
    BY <1>0 DEF Session!TypeOK, Session!CreatePty
  <2>4. s12' \in [Session!Nonces -> {"none", "connecting", "up"}]
    BY <1>0 DEF Session!TypeOK, Session!CreatePty
  <2> QED BY <1>0, <2>1, <2>2, <2>3, <2>4 DEF Session!TypeOK, Session!CreatePty, Session!feVars
<1>2. Session!CreatedOnce'
  BY <1>0, <1>1, SessionCalls DEF Session!TypeOK, Session!CreatedOnce, Session!Fresh,
     Session!CreatePty, Session!feVars
<1>3. Session!KillOnTheWay'
  BY <1>0, <1>1, SessionCalls DEF Session!TypeOK, Session!CreatedOnce, Session!KillOnTheWay,
     Session!CreatePty, Session!feVars
<1>4. Session!NoOrphanPty'
  BY <1>0, <1>1, <1>3, SessionCalls DEF Session!TypeOK, Session!CreatedOnce,
     Session!KillOnTheWay, Session!NoOrphanPty, Session!CreatePty, Session!feVars
<1> QED BY <1>1, <1>2, <1>3, <1>4 DEF Session!OrphanInv

LEMMA SessionKillPty == ASSUME Session!OrphanInv, NEW n \in Session!Nonces, Session!KillPty(n) PROVE Session!OrphanInv'
<1> USE SessionAssumption DEF Session!Nonces, Session!NoSession
<1>0. Session!TypeOK /\ Session!CreatedOnce /\ Session!KillOnTheWay /\ Session!NoOrphanPty
  BY DEF Session!OrphanInv
<1>1. Session!TypeOK'
  BY <1>0, SessionCalls DEF Session!TypeOK, Session!KillPty, Session!feVars,
     Session!StopPtySession
<1>2. Session!CreatedOnce'
  BY <1>0, <1>1, SessionCalls DEF Session!TypeOK, Session!CreatedOnce, Session!Fresh,
     Session!KillPty, Session!feVars, Session!StopPtySession
<1>3. Session!KillOnTheWay'
  BY <1>0, <1>1, SessionCalls DEF Session!TypeOK, Session!CreatedOnce, Session!KillOnTheWay,
     Session!KillPty, Session!feVars, Session!StopPtySession
<1>4. Session!NoOrphanPty'
  BY <1>0, <1>1, <1>3, SessionCalls DEF Session!TypeOK, Session!CreatedOnce,
     Session!KillOnTheWay, Session!NoOrphanPty, Session!KillPty, Session!feVars,
     Session!StopPtySession
<1> QED BY <1>1, <1>2, <1>3, <1>4 DEF Session!OrphanInv

LEMMA SessionAttemptConnects == ASSUME Session!OrphanInv, NEW n \in Session!Nonces, Session!AttemptConnects(n) PROVE Session!OrphanInv'
<1> USE SessionAssumption DEF Session!Nonces, Session!NoSession
<1>0. Session!TypeOK /\ Session!CreatedOnce /\ Session!KillOnTheWay /\ Session!NoOrphanPty
  BY DEF Session!OrphanInv
<1>1. Session!TypeOK'
  BY <1>0 DEF Session!TypeOK, Session!AttemptConnects, Session!feVars, Session!Show,
     Session!Listens
<1>2. Session!CreatedOnce'
  BY <1>0, <1>1 DEF Session!TypeOK, Session!CreatedOnce, Session!Fresh,
     Session!AttemptConnects, Session!feVars, Session!Show, Session!Listens
<1>3. Session!KillOnTheWay'
  BY <1>0, <1>1 DEF Session!TypeOK, Session!CreatedOnce, Session!KillOnTheWay,
     Session!AttemptConnects, Session!feVars, Session!Show, Session!Listens
<1>4. Session!NoOrphanPty'
  BY <1>0, <1>1, <1>3 DEF Session!TypeOK, Session!CreatedOnce, Session!KillOnTheWay,
     Session!NoOrphanPty, Session!AttemptConnects, Session!feVars, Session!Show,
     Session!Listens
<1> QED BY <1>1, <1>2, <1>3, <1>4 DEF Session!OrphanInv

LEMMA SessionAttemptSeesStop == ASSUME Session!OrphanInv, NEW n \in Session!Nonces, Session!AttemptSeesStop(n) PROVE Session!OrphanInv'
<1> USE SessionAssumption DEF Session!Nonces, Session!NoSession
<1>0. Session!TypeOK /\ Session!CreatedOnce /\ Session!KillOnTheWay /\ Session!NoOrphanPty
  BY DEF Session!OrphanInv
<1>1. Session!TypeOK'
  BY <1>0 DEF Session!TypeOK, Session!AttemptSeesStop, Session!feVars
<1>2. Session!CreatedOnce'
  BY <1>0, <1>1 DEF Session!TypeOK, Session!CreatedOnce, Session!Fresh,
     Session!AttemptSeesStop, Session!feVars
<1>3. Session!KillOnTheWay'
  BY <1>0, <1>1 DEF Session!TypeOK, Session!CreatedOnce, Session!KillOnTheWay,
     Session!AttemptSeesStop, Session!feVars
<1>4. Session!NoOrphanPty'
  BY <1>0, <1>1, <1>3 DEF Session!TypeOK, Session!CreatedOnce, Session!KillOnTheWay,
     Session!NoOrphanPty, Session!AttemptSeesStop, Session!feVars
<1> QED BY <1>1, <1>2, <1>3, <1>4 DEF Session!OrphanInv

LEMMA SessionSignalHandled == ASSUME Session!OrphanInv, NEW n \in Session!Nonces, Session!SignalHandled(n) PROVE Session!OrphanInv'
<1> USE SessionAssumption DEF Session!Nonces, Session!NoSession
<1>0. Session!TypeOK /\ Session!CreatedOnce /\ Session!KillOnTheWay /\ Session!NoOrphanPty
  BY DEF Session!OrphanInv
<1>1. Session!TypeOK'
  <2>1. s13' \in [Session!Nonces -> 0..(MaxAttempts + 1)]
    <3>1. s13[n] \in 0..MaxAttempts
      <4>1. s13[n] > MaxAttempts => s10[n] = "gone"
        BY <1>0 DEF Session!CreatedOnce
      <4>2. s10[n] = "watching" /\ s13[n] \in 0..(MaxAttempts + 1)
        BY <1>0 DEF Session!TypeOK, Session!SignalHandled
      <4> QED BY <4>1, <4>2
    <3>2. UNCHANGED s13 \/ \E kept \in 0..s13[n] : s13' = [s13 EXCEPT ![n] = kept + 1]
      BY DEF Session!SignalHandled
    <3>3. s13 \in [Session!Nonces -> 0..(MaxAttempts + 1)]
      BY <1>0 DEF Session!TypeOK
    <3>4. ASSUME NEW kept \in 0..s13[n] PROVE kept + 1 \in 0..(MaxAttempts + 1)
      BY <3>1
    <3> QED BY <3>2, <3>3, <3>4
  <2>2. s10' \in [Session!Nonces -> {"none", "watching", "backoff", "spawning", "gone"}]
    BY <1>0 DEF Session!TypeOK, Session!SignalHandled, Session!ReportExit
  <2>3. s12' \in [Session!Nonces -> {"none", "connecting", "up"}]
    BY <1>0 DEF Session!TypeOK, Session!SignalHandled
  <2>4. s7' \in {"connecting", "connected", "reconnecting", "disconnected", "error"} /\ s8' \in BOOLEAN
    BY <1>0 DEF Session!TypeOK, Session!SignalHandled, Session!ReportExit, Session!Show
  <2> QED BY <1>0, <2>1, <2>2, <2>3, <2>4 DEF Session!TypeOK, Session!SignalHandled
<1>2. Session!CreatedOnce'
  BY SMTT(20), <1>0, <1>1 DEF Session!TypeOK, Session!CreatedOnce, Session!Fresh,
     Session!SignalHandled, Session!Show, Session!Listens, Session!ReportExit
<1>3. Session!KillOnTheWay'
  BY <1>0, <1>1 DEF Session!TypeOK, Session!CreatedOnce, Session!KillOnTheWay,
     Session!SignalHandled, Session!Show, Session!Listens, Session!ReportExit
<1>4. Session!NoOrphanPty'
  BY SMTT(20), <1>0, <1>1, <1>3 DEF Session!TypeOK, Session!CreatedOnce, Session!KillOnTheWay,
     Session!NoOrphanPty, Session!SignalHandled, Session!Show, Session!Listens,
     Session!ReportExit
<1> QED BY <1>1, <1>2, <1>3, <1>4 DEF Session!OrphanInv

LEMMA SessionBackoffEnds == ASSUME Session!OrphanInv, NEW n \in Session!Nonces, Session!BackoffEnds(n) PROVE Session!OrphanInv'
<1> USE SessionAssumption DEF Session!Nonces, Session!NoSession
<1>0. Session!TypeOK /\ Session!CreatedOnce /\ Session!KillOnTheWay /\ Session!NoOrphanPty
  BY DEF Session!OrphanInv
<1>1. Session!TypeOK'
  BY <1>0 DEF Session!TypeOK, Session!BackoffEnds, Session!feVars
<1>2. Session!CreatedOnce'
  BY <1>0, <1>1 DEF Session!TypeOK, Session!CreatedOnce, Session!Fresh, Session!BackoffEnds,
     Session!feVars
<1>3. Session!KillOnTheWay'
  BY <1>0, <1>1 DEF Session!TypeOK, Session!CreatedOnce, Session!KillOnTheWay,
     Session!BackoffEnds, Session!feVars
<1>4. Session!NoOrphanPty'
  BY <1>0, <1>1, <1>3 DEF Session!TypeOK, Session!CreatedOnce, Session!KillOnTheWay,
     Session!NoOrphanPty, Session!BackoffEnds, Session!feVars
<1> QED BY <1>1, <1>2, <1>3, <1>4 DEF Session!OrphanInv

LEMMA SessionSpawnAttempt == ASSUME Session!OrphanInv, NEW n \in Session!Nonces, Session!SpawnAttempt(n) PROVE Session!OrphanInv'
<1> USE SessionAssumption DEF Session!Nonces, Session!NoSession
<1>0. Session!TypeOK /\ Session!CreatedOnce /\ Session!KillOnTheWay /\ Session!NoOrphanPty
  BY DEF Session!OrphanInv
<1>1. Session!TypeOK'
  BY <1>0 DEF Session!TypeOK, Session!SpawnAttempt, Session!feVars, Session!Show,
     Session!Listens
<1>2. Session!CreatedOnce'
  BY <1>0, <1>1 DEF Session!TypeOK, Session!CreatedOnce, Session!Fresh,
     Session!SpawnAttempt, Session!feVars, Session!Show, Session!Listens
<1>3. Session!KillOnTheWay'
  BY <1>0, <1>1 DEF Session!TypeOK, Session!CreatedOnce, Session!KillOnTheWay,
     Session!SpawnAttempt, Session!feVars, Session!Show, Session!Listens
<1>4. Session!NoOrphanPty'
  BY <1>0, <1>1, <1>3 DEF Session!TypeOK, Session!CreatedOnce, Session!KillOnTheWay,
     Session!NoOrphanPty, Session!SpawnAttempt, Session!feVars, Session!Show,
     Session!Listens
<1> QED BY <1>1, <1>2, <1>3, <1>4 DEF Session!OrphanInv

LEMMA SessionNext ==
    Session!OrphanInv /\ (Session!Next \/ UNCHANGED Session!vars) => Session!OrphanInv'
<1> SUFFICES ASSUME Session!OrphanInv, Session!Next \/ UNCHANGED Session!vars PROVE Session!OrphanInv'
  OBVIOUS
<1>1. CASE UNCHANGED Session!vars
  BY <1>1 DEF Session!vars, Session!feVars, Session!beVars, Session!OrphanInv, Session!TypeOK,
     Session!CreatedOnce, Session!Fresh, Session!KillOnTheWay, Session!NoOrphanPty
<1>2. ASSUME NEW n \in Session!Nonces, Session!SessionStep(n) PROVE Session!OrphanInv'
  BY <1>2, SessionListenersReady, SessionFitSettled, SessionCreated, SessionCreateFailed,
     SessionCreatePty, SessionKillPty, SessionAttemptConnects, SessionAttemptSeesStop,
     SessionSignalHandled, SessionBackoffEnds, SessionSpawnAttempt DEF Session!SessionStep
<1> QED BY <1>1, <1>2, SessionReconnect, SessionCloseTab DEF Session!Next

\* Whatever the number of reconnects and of attempts at a connection, nothing
\* in the backend outlives the tab it was made for.
THEOREM NoSessionIsLeft == AllSpec => []NoOrphanPty
<1> DEFINE I == part = "session" => Session!OrphanInv
<1>1. AllInit => I
  BY SessionInit DEF AllInit
<1>2. I /\ [AllNext]_allVars => I'
  <2> SUFFICES ASSUME I, [AllNext]_allVars, part' = "session" PROVE Session!OrphanInv'
    OBVIOUS
  <2>1. part = "session" /\ (Session!Next \/ UNCHANGED Session!vars)
    BY DEF AllNext, allVars, slots, Session!vars, Session!feVars, Session!beVars
  <2> QED BY <2>1, SessionNext
<1>3. I => NoOrphanPty
  BY DEF NoOrphanPty, Session!OrphanInv
<1> QED BY <1>1, <1>2, <1>3, PTL DEF AllSpec
-----------------------------------------------------------------------------
(* The server monitor.                                                     *)

LEMMA MetricsInit == Metrics!Init => Metrics!MetricsInv
<1> SUFFICES ASSUME Metrics!Init PROVE Metrics!MetricsInv
  OBVIOUS
<1>1. /\ s4 = [id |-> 0, on |-> FALSE] /\ s6 = {} /\ s7 = 0 /\ s14 = FALSE
      /\ s5 = [timer |-> FALSE, paused |-> FALSE, resuming |-> FALSE, usedDelay |-> FALSE]
      /\ s8 = [cpu |-> FALSE, net |-> FALSE, crossed |-> FALSE]
      /\ s1 \in BOOLEAN /\ s2 \in BOOLEAN /\ s3 \in BOOLEAN
  BY DEF Metrics!Init, Metrics!Idle, Metrics!NoBase
<1>2. Metrics!TypeOK
  BY <1>1 DEF Metrics!TypeOK
<1> QED BY <1>1, <1>2 DEF Metrics!MetricsInv, Metrics!RunWaitsForOne, Metrics!OnePollingLoop, Metrics!BaselinesAreFresh,
           Metrics!NoAverageOverPause

\* A request of a run that has none is its only one.
LEMMA OnlyRequest ==
    ASSUME NEW S, NEW T, NEW r, NEW q, q.run = r, \A p \in S : p.run # r, T = S \cup {q}
    PROVE  q \in T /\ \A p \in T : p.run = r <=> p = q
OBVIOUS

\* The tab is shown or hidden, its connection or the settings change: the run
\* ends, and a new one starts with nothing under way.
LEMMA MetricsChange ==
    ASSUME Metrics!MetricsInv, NEW v \in BOOLEAN, NEW c \in BOOLEAN, Metrics!Changes(v, c)
    PROVE  Metrics!MetricsInv'
<1>0. Metrics!TypeOK /\ Metrics!RunWaitsForOne /\ Metrics!BaselinesAreFresh /\ Metrics!NoAverageOverPause
  BY DEF Metrics!MetricsInv
<1>1. s1' = v /\ s2' = c /\ UNCHANGED s3 /\ UNCHANGED s14
  BY DEF Metrics!Changes, Metrics!Cleanup, Metrics!shownVars
<1>2. CASE v /\ c
  <2>0. Metrics!Start(s3)
    BY <1>2 DEF Metrics!Changes
  <2>1. s4' = [id |-> s4.id + 1, on |-> TRUE]
        /\ s8' = [cpu |-> FALSE, net |-> FALSE, crossed |-> FALSE]
    BY <2>0 DEF Metrics!Start, Metrics!NoBase
  <2>2. CASE s3 = TRUE
    <3>1. s5' = [timer |-> FALSE, paused |-> FALSE, resuming |-> FALSE, usedDelay |-> FALSE]
      BY <2>0, <2>2 DEF Metrics!Start, Metrics!Idle
    <3>2. s7' = s7 + 1 /\ s6' = s6 \cup {[run |-> s4.id + 1, id |-> s7 + 1]}
      BY <2>0, <2>2 DEF Metrics!Start, Metrics!Ask
    <3>3. Metrics!TypeOK'
      BY <1>0, <1>1, <2>1, <3>1, <3>2 DEF Metrics!TypeOK
    <3>4. Metrics!RunWaitsForOne'
      <4>1. s4.id \in Nat /\ \A p \in s6 : p.run \in Nat /\ p.run <= s4.id
        BY <1>0 DEF Metrics!TypeOK, Metrics!RunWaitsForOne, Metrics!OnePollingLoop
      <4>2. \A p \in s6 : p.run # s4.id + 1
        BY <4>1
      <4>3. Metrics!OneAsked'
        <5> DEFINE q == [run |-> s4.id + 1, id |-> s7 + 1]
        <5>1. q \in s6' /\ \A p \in s6' : p.run = s4.id + 1 <=> p = q
          BY <3>2, <4>2, OnlyRequest
        <5> QED BY <2>1, <5>1 DEF Metrics!OneAsked
      <4>4. \A p \in s6' : p.run <= s4'.id
        BY <2>1, <3>2, <4>1
      <4> QED BY <2>1, <3>1, <4>3, <4>4 DEF Metrics!RunWaitsForOne, Metrics!OnePollingLoop
    <3> QED BY <1>0, <1>1, <2>1, <3>3, <3>4
            DEF Metrics!MetricsInv, Metrics!BaselinesAreFresh, Metrics!NoAverageOverPause
  <2>3. CASE s3 = FALSE
    <3>1. s5' = [timer |-> FALSE, paused |-> TRUE, resuming |-> FALSE, usedDelay |-> FALSE]
      BY <2>0, <2>3 DEF Metrics!Start, Metrics!Idle
    <3>2. UNCHANGED <<s6, s7>>
      BY <2>0, <2>3 DEF Metrics!Start
    <3>3. Metrics!TypeOK'
      BY <1>0, <1>1, <2>1, <3>1, <3>2 DEF Metrics!TypeOK
    <3>4. Metrics!RunWaitsForOne'
      BY <1>0, <1>1, <2>1, <2>3, <3>1, <3>2 DEF Metrics!TypeOK, Metrics!RunWaitsForOne, Metrics!OnePollingLoop, Metrics!NoneAsked
    <3> QED BY <1>0, <1>1, <2>1, <3>3, <3>4
            DEF Metrics!MetricsInv, Metrics!BaselinesAreFresh, Metrics!NoAverageOverPause
  <2> QED BY <1>0, <2>2, <2>3 DEF Metrics!TypeOK
<1>3. CASE ~(v /\ c)
  <2>1. /\ s4' = [s4 EXCEPT !.on = FALSE] /\ UNCHANGED <<s6, s7, s8>>
        /\ s5' = [timer |-> FALSE, paused |-> FALSE, resuming |-> FALSE, usedDelay |-> FALSE]
    BY <1>3 DEF Metrics!Changes, Metrics!Idle
  <2>2. Metrics!TypeOK'
    BY <1>0, <1>1, <2>1 DEF Metrics!TypeOK
  <2> QED BY <1>0, <1>1, <2>1, <2>2 DEF Metrics!TypeOK, Metrics!RunWaitsForOne, Metrics!OnePollingLoop, Metrics!MetricsInv,
             Metrics!BaselinesAreFresh, Metrics!NoAverageOverPause
<1> QED BY <1>2, <1>3

LEMMA MetricsSetActive == Metrics!MetricsInv /\ Metrics!SetActive => Metrics!MetricsInv'
<1> SUFFICES ASSUME Metrics!MetricsInv, Metrics!SetActive PROVE Metrics!MetricsInv'
  OBVIOUS
<1>0. Metrics!TypeOK /\ Metrics!RunWaitsForOne /\ Metrics!BaselinesAreFresh /\ Metrics!NoAverageOverPause
  BY DEF Metrics!MetricsInv
<1>1. Metrics!TypeOK'
  <2>1. s5' \in [timer : BOOLEAN, paused : BOOLEAN, resuming : BOOLEAN, usedDelay : BOOLEAN]
    BY <1>0 DEF Metrics!TypeOK, Metrics!SetActive
  <2>2. s6' \subseteq [run : Nat, id : Nat] /\ s7' \in Nat
    BY <1>0 DEF Metrics!TypeOK, Metrics!SetActive, Metrics!Ask
  <2>3. s3' \in BOOLEAN
    BY DEF Metrics!SetActive
  <2> QED BY <1>0, <2>1, <2>2, <2>3 DEF Metrics!TypeOK, Metrics!SetActive
<1>2. Metrics!RunWaitsForOne'
  <2>1. UNCHANGED s4 /\ (s3' <=> ~s3)
    BY DEF Metrics!SetActive
  <2>2. CASE ~s3 /\ Metrics!Resumes
    <3>1. /\ s6' = s6 \cup {[run |-> s4.id, id |-> s7 + 1]}
          /\ s5' = [s5 EXCEPT !.paused = FALSE, !.resuming = s8.cpu]
      BY <2>2 DEF Metrics!SetActive, Metrics!Ask
    <3>2. s4.on /\ Metrics!NoneAsked /\ ~s5.timer /\ s4.id \in Nat
      BY <1>0, <2>2 DEF Metrics!Resumes, Metrics!RunWaitsForOne, Metrics!OnePollingLoop, Metrics!TypeOK
    <3>3. Metrics!OneAsked'
      <4> DEFINE q == [run |-> s4.id, id |-> s7 + 1]
      <4>1. q \in s6' /\ \A p \in s6' : p.run = s4.id <=> p = q
        BY <3>1, <3>2, OnlyRequest DEF Metrics!NoneAsked
      <4> QED BY <2>1, <4>1 DEF Metrics!OneAsked
    <3>4. ~s5'.timer /\ ~s5'.paused
      BY <1>0, <3>1, <3>2 DEF Metrics!TypeOK
    <3> QED BY <1>0, <2>1, <3>1, <3>2, <3>3, <3>4 DEF Metrics!RunWaitsForOne, Metrics!OnePollingLoop
  <2>3. CASE ~(~s3 /\ Metrics!Resumes)
    <3>1. UNCHANGED <<s5, s6>>
      BY <2>3 DEF Metrics!SetActive
    <3>2. s4.on /\ s5.paused => s3
      BY <2>3 DEF Metrics!Resumes
    <3> QED BY <1>0, <2>1, <3>1, <3>2 DEF Metrics!RunWaitsForOne, Metrics!OnePollingLoop, Metrics!OneAsked, Metrics!NoneAsked
  <2> QED BY <2>2, <2>3
<1>3. Metrics!BaselinesAreFresh' /\ Metrics!NoAverageOverPause'
  BY <1>0, <1>1 DEF Metrics!TypeOK, Metrics!BaselinesAreFresh, Metrics!NoAverageOverPause, Metrics!SetActive,
     Metrics!Resumes, Metrics!shownVars
<1> QED BY <1>1, <1>2, <1>3 DEF Metrics!MetricsInv

LEMMA MetricsTimerFires == Metrics!MetricsInv /\ Metrics!TimerFires => Metrics!MetricsInv'
<1> SUFFICES ASSUME Metrics!MetricsInv, Metrics!TimerFires PROVE Metrics!MetricsInv'
  OBVIOUS
<1>0. Metrics!TypeOK /\ Metrics!RunWaitsForOne /\ Metrics!BaselinesAreFresh /\ Metrics!NoAverageOverPause
  BY DEF Metrics!MetricsInv
<1>1. Metrics!TypeOK'
  <2>1. s5' \in [timer : BOOLEAN, paused : BOOLEAN, resuming : BOOLEAN, usedDelay : BOOLEAN]
    BY <1>0 DEF Metrics!TypeOK, Metrics!TimerFires
  <2>2. s6' \subseteq [run : Nat, id : Nat] /\ s7' \in Nat
    BY <1>0 DEF Metrics!TypeOK, Metrics!TimerFires, Metrics!Ask
  <2> QED BY <1>0, <2>1, <2>2 DEF Metrics!TypeOK, Metrics!TimerFires, Metrics!tabVars
<1>2. Metrics!RunWaitsForOne'
  <2>0. UNCHANGED s4
    BY DEF Metrics!TimerFires
  <2>1. /\ s4.on /\ s5.timer /\ s5' = [s5 EXCEPT !.timer = FALSE]
        /\ s6' = s6 \cup {[run |-> s4.id, id |-> s7 + 1]}
    BY DEF Metrics!TimerFires, Metrics!Ask
  <2>2. Metrics!NoneAsked /\ ~s5.paused /\ s4.id \in Nat
    BY <1>0, <2>1 DEF Metrics!RunWaitsForOne, Metrics!OnePollingLoop, Metrics!TypeOK
  <2>3. Metrics!OneAsked'
    <3> DEFINE q == [run |-> s4.id, id |-> s7 + 1]
    <3>1. q \in s6' /\ \A p \in s6' : p.run = s4.id <=> p = q
      BY <2>1, <2>2, OnlyRequest DEF Metrics!NoneAsked
    <3> QED BY <2>0, <3>1 DEF Metrics!OneAsked
  <2>4. ~s5'.timer /\ ~s5'.paused
    BY <1>0, <2>1, <2>2 DEF Metrics!TypeOK
  <2> QED BY <1>0, <2>0, <2>1, <2>2, <2>3, <2>4 DEF Metrics!RunWaitsForOne, Metrics!OnePollingLoop
<1>3. Metrics!BaselinesAreFresh' /\ Metrics!NoAverageOverPause'
  BY <1>0, <1>1 DEF Metrics!TypeOK, Metrics!BaselinesAreFresh, Metrics!NoAverageOverPause, Metrics!TimerFires,
     Metrics!shownVars
<1> QED BY <1>1, <1>2, <1>3 DEF Metrics!MetricsInv

\* An answer takes its request away; one of the run that is on has it go on.
LEMMA MetricsAnswered == Metrics!MetricsInv /\ Metrics!Answered => Metrics!MetricsInv'
<1> SUFFICES ASSUME Metrics!MetricsInv, Metrics!Answered PROVE Metrics!MetricsInv'
  OBVIOUS
<1>0. Metrics!TypeOK /\ Metrics!RunWaitsForOne /\ Metrics!BaselinesAreFresh /\ Metrics!NoAverageOverPause
  BY DEF Metrics!MetricsInv
<1>1. PICK q \in s6 :
         /\ s6' = s6 \ {q} /\ UNCHANGED <<s1, s2, s3, s4, s7>>
         /\ \/ ~(q.run = s4.id /\ s4.on) /\ UNCHANGED <<s5, s8, s14>>
            \/ /\ q.run = s4.id /\ s4.on /\ s5.resuming /\ UNCHANGED s14
               /\ \E net \in BOOLEAN : s8' = Metrics!AfterPause(Metrics!Based(net))
               /\ s5' = Metrics!GoOn([s5 EXCEPT !.resuming = FALSE])
            \/ /\ q.run = s4.id /\ s4.on /\ ~s5.resuming
               /\ \E net \in BOOLEAN : Metrics!Sample(net) /\ s8' = Metrics!AfterPause(Metrics!Based(net))
               /\ s5' = Metrics!GoOn([s5 EXCEPT !.usedDelay = @ \/ ~s8.cpu])
            \/ /\ q.run = s4.id /\ s4.on /\ UNCHANGED s14
               /\ s8' = Metrics!AfterPause(s8) /\ s5' = Metrics!GoOn(s5)
  BY DEF Metrics!Answered, Metrics!tabVars, Metrics!shownVars
<1>2. CASE ~(q.run = s4.id /\ s4.on)
  <2>1. UNCHANGED <<s5, s8, s14>>
    BY <1>1, <1>2
  <2>2. Metrics!TypeOK'
    BY <1>0, <1>1, <2>1 DEF Metrics!TypeOK
  <2>3. Metrics!RunWaitsForOne'
    BY <1>0, <1>1, <1>2, <2>1 DEF Metrics!RunWaitsForOne, Metrics!OnePollingLoop, Metrics!OneAsked, Metrics!NoneAsked
  <2> QED BY <1>0, <1>1, <2>1, <2>2, <2>3
          DEF Metrics!MetricsInv, Metrics!BaselinesAreFresh, Metrics!NoAverageOverPause
<1>3. CASE q.run = s4.id /\ s4.on
  <2>1. ~s5.timer /\ ~s5.paused /\ Metrics!NoneAsked'
    BY <1>0, <1>1, <1>3 DEF Metrics!RunWaitsForOne, Metrics!OnePollingLoop, Metrics!OneAsked, Metrics!NoneAsked
  <2>2. ASSUME NEW l, l = s5 \/ l = [s5 EXCEPT !.resuming = FALSE] \/ \E x \in BOOLEAN : l = [s5 EXCEPT !.usedDelay = x]
        PROVE  /\ l \in [timer : BOOLEAN, paused : BOOLEAN, resuming : BOOLEAN, usedDelay : BOOLEAN]
               /\ ~l.timer /\ ~l.paused /\ (l # [s5 EXCEPT !.resuming = FALSE] => l.resuming = s5.resuming)
    <3>1. CASE l = s5
      BY <1>0, <2>1, <3>1 DEF Metrics!TypeOK
    <3>2. CASE l = [s5 EXCEPT !.resuming = FALSE]
      BY <1>0, <2>1, <3>2 DEF Metrics!TypeOK
    <3>3. ASSUME NEW x \in BOOLEAN, l = [s5 EXCEPT !.usedDelay = x] PROVE l.resuming = s5.resuming
      BY <1>0, <3>3 DEF Metrics!TypeOK
    <3>4. ASSUME NEW x \in BOOLEAN, l = [s5 EXCEPT !.usedDelay = x]
          PROVE  /\ l \in [timer : BOOLEAN, paused : BOOLEAN, resuming : BOOLEAN, usedDelay : BOOLEAN]
                 /\ ~l.timer /\ ~l.paused
      BY <1>0, <2>1, <3>4 DEF Metrics!TypeOK
    <3> QED BY <2>2, <3>1, <3>2, <3>3, <3>4
  <2>3. \A net \in BOOLEAN :
           /\ Metrics!Based(net) \in [cpu : BOOLEAN, net : BOOLEAN, crossed : BOOLEAN]
           /\ Metrics!Based(net).cpu /\ ~Metrics!Based(net).crossed
    BY DEF Metrics!Based
  <2>4. PICK l, b :
           /\ s5' = Metrics!GoOn(l) /\ s8' = Metrics!AfterPause(b)
           /\ l \in [timer : BOOLEAN, paused : BOOLEAN, resuming : BOOLEAN, usedDelay : BOOLEAN]
           /\ ~l.timer /\ ~l.paused
           /\ b \in [cpu : BOOLEAN, net : BOOLEAN, crossed : BOOLEAN] /\ (b.net => b.cpu)
           /\ b.crossed => b = s8 /\ l.resuming = s5.resuming
    <3>1. CASE s5' = Metrics!GoOn(s5) /\ s8' = Metrics!AfterPause(s8)
      BY <1>0, <2>1, <3>1 DEF Metrics!TypeOK, Metrics!BaselinesAreFresh
    <3>2. CASE /\ \E net \in BOOLEAN : s8' = Metrics!AfterPause(Metrics!Based(net))
               /\ s5' = Metrics!GoOn([s5 EXCEPT !.resuming = FALSE])
      BY <2>2, <2>3, <3>2
    <3>3. CASE /\ \E net \in BOOLEAN : s8' = Metrics!AfterPause(Metrics!Based(net))
               /\ s5' = Metrics!GoOn([s5 EXCEPT !.usedDelay = @ \/ ~s8.cpu])
      <4>1. (s5.usedDelay \/ ~s8.cpu) \in BOOLEAN
        OBVIOUS
      <4> QED BY <2>2, <2>3, <3>3, <4>1
    <3> QED BY <1>1, <1>3, <3>1, <3>2, <3>3
  <2>5. /\ s3 = TRUE => s5' = [l EXCEPT !.timer = TRUE] /\ s8' = b
        /\ s3 = FALSE => s5' = [l EXCEPT !.paused = TRUE] /\ s8' = [b EXCEPT !.crossed = TRUE]
    BY <2>4 DEF Metrics!GoOn, Metrics!AfterPause
  <2>6. s3 = TRUE \/ s3 = FALSE
    BY <1>0 DEF Metrics!TypeOK
  <2>7. Metrics!TypeOK'
    BY <1>0, <1>1, <2>4, <2>5, <2>6 DEF Metrics!TypeOK
  <2>8. Metrics!RunWaitsForOne'
    BY <1>0, <1>1, <1>3, <2>1, <2>4, <2>5, <2>6 DEF Metrics!RunWaitsForOne, Metrics!OnePollingLoop
  <2>9. s8.crossed /\ s8.cpu => s5.resuming
    BY <1>0, <1>3, <2>1 DEF Metrics!BaselinesAreFresh
  <2>10. Metrics!BaselinesAreFresh'
    BY <1>1, <2>4, <2>5, <2>6, <2>9 DEF Metrics!BaselinesAreFresh
  <2>11. Metrics!NoAverageOverPause'
    <3>1. CASE Metrics!NoAverageOverPause /\ UNCHANGED s14
      BY <3>1 DEF Metrics!NoAverageOverPause
    <3>2. CASE ~s5.resuming /\ \E net \in BOOLEAN : Metrics!Sample(net)
      BY <1>0, <2>9, <3>2 DEF Metrics!NoAverageOverPause, Metrics!Sample, Metrics!BaselinesAreFresh
    <3> QED BY <1>0, <1>1, <1>3, <3>1, <3>2
  <2> QED BY <2>7, <2>8, <2>10, <2>11 DEF Metrics!MetricsInv
<1> QED BY <1>2, <1>3

LEMMA MetricsNext == Metrics!MetricsInv /\ (Metrics!Next \/ UNCHANGED Metrics!vars) => Metrics!MetricsInv'
<1> SUFFICES ASSUME Metrics!MetricsInv, Metrics!Next \/ UNCHANGED Metrics!vars PROVE Metrics!MetricsInv'
  OBVIOUS
<1>1. CASE UNCHANGED Metrics!vars \/ Metrics!StaleTimer \/ Metrics!TogglePanel
  <2>1. UNCHANGED <<s1, s2, s3, s4, s5, s6, s7, s8, s14>>
    BY <1>1 DEF Metrics!vars, Metrics!tabVars, Metrics!shownVars, Metrics!StaleTimer, Metrics!TogglePanel
  <2> QED BY <2>1 DEF Metrics!MetricsInv, Metrics!TypeOK, Metrics!RunWaitsForOne, Metrics!OnePollingLoop, Metrics!OneAsked, Metrics!NoneAsked,
                      Metrics!BaselinesAreFresh, Metrics!NoAverageOverPause
<1>2. CASE Metrics!ToggleVisible \/ Metrics!ConnectionChanges \/ Metrics!SettingsChange
  <2>1. \E v, c \in BOOLEAN : Metrics!Changes(v, c)
    BY <1>2 DEF Metrics!ToggleVisible, Metrics!ConnectionChanges, Metrics!SettingsChange, Metrics!MetricsInv,
       Metrics!TypeOK
  <2> QED BY <2>1, MetricsChange
<1> QED BY <1>1, <1>2, MetricsSetActive, MetricsTimerFires, MetricsAnswered DEF Metrics!Next

\* However long the tab's history and the monitor's, it polls once at a time.
THEOREM MonitorPollsOnce == AllSpec => []OnePollingLoop
<1> DEFINE I == part = "metrics" => Metrics!MetricsInv
<1>1. AllInit => I
  BY MetricsInit DEF AllInit
<1>2. I /\ [AllNext]_allVars => I'
  <2> SUFFICES ASSUME I, [AllNext]_allVars, part' = "metrics" PROVE Metrics!MetricsInv'
    OBVIOUS
  <2>1. part = "metrics" /\ (Metrics!Next \/ UNCHANGED Metrics!vars)
    BY DEF AllNext, allVars, slots, Metrics!vars, Metrics!tabVars, Metrics!shownVars
  <2> QED BY <2>1, MetricsNext
<1>3. I => OnePollingLoop
  BY DEF OnePollingLoop, Metrics!MetricsInv, Metrics!RunWaitsForOne, Metrics!OnePollingLoop
<1> QED BY <1>1, <1>2, <1>3, PTL DEF AllSpec

-----------------------------------------------------------------------------
(* What the tab shows: its title, the search bar, what it is noticed for.   *)

LEMMA TitleInit == Titles!Init => Titles!TypeOK /\ Titles!TitleIsRunning
<1> SUFFICES ASSUME Titles!Init PROVE Titles!TypeOK /\ Titles!TitleIsRunning
  OBVIOUS
<1>1. s8 \in 0..MaxMarks
  BY TitleAssumption DEF Titles!Init
<1>2. Titles!TypeOK
  BY <1>1 DEF Titles!Init, Titles!TypeOK, Titles!Names
<1> QED BY <1>2 DEF Titles!Init, Titles!TitleIsRunning

\* The first command after the prompt is shown, a later one changes nothing.
LEMMA ReportKeepsTitle ==
    ASSUME Titles!TypeOK, Titles!TitleIsRunning, NEW started, NEW c \in Titles!Names, Titles!ReportRunning(started, c)
    PROVE  /\ {s3', s4', s5'} \subseteq Titles!Names
           /\ {s5', s4'} \subseteq {"none", s3'}
BY DEF Titles!TypeOK, Titles!TitleIsRunning, Titles!ReportRunning, Titles!TitleStays,
       Titles!SetTabRunningCommand, Titles!Names

LEMMA PromptEndsTitle ==
    ASSUME Titles!TypeOK, Titles!TitleIsRunning, Titles!Prompt
    PROVE  s1' = FALSE /\ s2' = "none" /\ s3' = "none" /\ s4' = "none" /\ s5' = "none"
BY DEF Titles!TypeOK, Titles!TitleIsRunning, Titles!Prompt, Titles!TitleStays, Titles!SetTabRunningCommand

LEMMA TitleNext ==
    Titles!TypeOK /\ Titles!TitleIsRunning /\ (Titles!Next \/ UNCHANGED Titles!vars)
        => (Titles!TypeOK /\ Titles!TitleIsRunning)'
<1> SUFFICES ASSUME Titles!TypeOK, Titles!TitleIsRunning, Titles!Next \/ UNCHANGED Titles!vars
             PROVE  (Titles!TypeOK /\ Titles!TitleIsRunning)'
  OBVIOUS
<1> USE DEF Titles!Names
<1>1. CASE UNCHANGED Titles!vars
  BY <1>1 DEF Titles!vars, Titles!TypeOK, Titles!TitleIsRunning
<1>2. ASSUME Titles!Marked PROVE s8' \in 0..MaxMarks
  BY <1>2, TitleAssumption DEF Titles!Marked, Titles!TypeOK
<1>3. ASSUME NEW c \in Commands, Titles!CommandMark(c) PROVE (Titles!TypeOK /\ Titles!TitleIsRunning)'
  <2>1. /\ {s3', s4', s5'} \subseteq Titles!Names
        /\ {s5', s4'} \subseteq {"none", s3'}
    <3>1. CASE s3 \in {"none", c}
      BY <1>3, <3>1, ReportKeepsTitle DEF Titles!CommandMark
    <3>2. CASE s3 \notin {"none", c}
      BY <1>3, <3>2 DEF Titles!CommandMark, Titles!SetTabRunningCommand
    <3> QED BY <3>1, <3>2
  <2> QED BY <1>2, <1>3, <2>1 DEF Titles!CommandMark, Titles!TypeOK, Titles!TitleIsRunning
<1>4. ASSUME NEW c \in Commands, NEW starts \in BOOLEAN, Titles!TypeLine(c, starts)
      PROVE  (Titles!TypeOK /\ Titles!TitleIsRunning)'
  <2> DEFINE line == IF ~s6 /\ ~s1 THEN c ELSE s2
  <2>1. line \in Titles!Names
    BY DEF Titles!TypeOK
  <2>2. Titles!ReportRunning(s1', line)
    BY <1>4 DEF Titles!TypeLine
  <2>3. s2' = line /\ s1' \in BOOLEAN /\ UNCHANGED <<s6, s7>> /\ Titles!Marked
    BY <1>4 DEF Titles!TypeLine, Titles!TypeOK
  <2> HIDE DEF line
  <2>4. /\ {s3', s4', s5'} \subseteq Titles!Names
        /\ {s5', s4'} \subseteq {"none", s3'}
    BY <2>1, <2>2, ReportKeepsTitle
  <2> QED BY <1>2, <2>1, <2>3, <2>4 DEF Titles!TypeOK, Titles!TitleIsRunning
<1>5. CASE Titles!OutputMark
  <2>1. Titles!ReportRunning(TRUE, s2) /\ s2 \in Titles!Names
    BY <1>5 DEF Titles!OutputMark, Titles!TypeOK
  <2>2. /\ {s3', s4', s5'} \subseteq Titles!Names
        /\ {s5', s4'} \subseteq {"none", s3'}
    BY <2>1, ReportKeepsTitle
  <2> QED BY <1>2, <1>5, <2>2 DEF Titles!OutputMark, Titles!TypeOK, Titles!TitleIsRunning
<1>6. CASE Titles!PromptMark \/ Titles!DoneMark \/ Titles!SessionReplaced
  <2>1. Titles!Marked /\ Titles!Prompt /\ s6' \in BOOLEAN /\ s7' \in Titles!Names \cup {"unnamed"}
    BY <1>6 DEF Titles!PromptMark, Titles!DoneMark, Titles!SessionReplaced, Titles!TypeOK
  <2> QED BY <1>2, <2>1, PromptEndsTitle DEF Titles!TypeOK, Titles!TitleIsRunning
<1>7. CASE Titles!DelayOver
  BY <1>7 DEF Titles!DelayOver, Titles!TypeOK, Titles!TitleIsRunning
<1> QED BY <1>1, <1>3, <1>4, <1>5, <1>6, <1>7 DEF Titles!Next

LEMMA SearchInit == Search!Init => Search!SearchInv
<1> SUFFICES ASSUME Search!Init PROVE Search!SearchInv
  OBVIOUS
<1>1. /\ s1 = FALSE /\ s2 = "empty" /\ s3 \in Options /\ s5 = <<"empty", "empty">> /\ s6 = <<"empty", "empty">> /\ s10 = 0
      /\ s9 = [query |-> "empty", options |-> "empty", changed |-> FALSE, due |-> FALSE, after |-> 0] /\ s11 = 0
  BY DEF Search!Init, Search!NoTimer, Search!Empty, Search!None
<1>2. s11 \in 0..SearchActs /\ s10 \in Nat
  BY <1>1, SearchAssumption
<1>3. s9 \in [query : Queries \cup {"empty"}, options : Options \cup {"empty"},
            changed : BOOLEAN, due : BOOLEAN, after : Nat]
  BY <1>1
<1>4. Search!TypeOK
  BY <1>1, <1>2, <1>3 DEF Search!TypeOK, Search!Empty
<1> QED BY <1>1, <1>4 DEF Search!SearchInv, Search!SearchSettles, Search!DueIsAsked, Search!None, Search!Empty

\* A search is made due for what an open bar asks for.
LEMMA ScheduleIsAsked ==
    ASSUME Search!TypeOK, NEW q \in Queries \cup {"empty"}, NEW o \in Options, Search!Schedule(TRUE, q, o)
    PROVE  /\ s9' \in [query : Queries \cup {"empty"}, options : Options \cup {"empty"},
                       changed : BOOLEAN, due : BOOLEAN, after : Nat]
           /\ s9'.due /\ s9'.query = q /\ s9'.options = o
<1>1. s9' = [query |-> q, options |-> o, changed |-> s4 # o, due |-> TRUE, after |-> s10]
  BY DEF Search!Schedule
<1> QED BY <1>1 DEF Search!TypeOK

LEMMA SearchNext == Search!SearchInv /\ (Search!Next \/ UNCHANGED Search!vars) => Search!SearchInv'
<1> SUFFICES ASSUME Search!SearchInv, Search!Next \/ UNCHANGED Search!vars PROVE Search!SearchInv'
  OBVIOUS
<1> USE DEF Search!SearchInv, Search!Empty, Search!None, Search!Searched
<1>0. ASSUME Search!Act PROVE s11' \in 0..SearchActs
  <2>1. s11 \in 0..SearchActs
    BY DEF Search!TypeOK
  <2> QED BY <1>0, <2>1, SearchAssumption DEF Search!Act
<1>1. CASE UNCHANGED Search!vars \/ Search!ClearSelection
  <2>1. UNCHANGED <<s1, s2, s3, s5, s6, s9, s10>> /\ s11' \in 0..SearchActs
    BY <1>0, <1>1 DEF Search!vars, Search!ClearSelection, Search!TypeOK
  <2> QED BY <2>1 DEF Search!TypeOK, Search!SearchSettles, Search!DueIsAsked
<1>2. CASE Search!OpenSearch \/ Search!TypeQuery \/ Search!ToggleSearchOption
  <2>1. /\ s2' \in Queries \cup {"empty"} /\ s3' \in Options /\ s1' = TRUE
        /\ Search!Schedule(TRUE, s2', s3') /\ Search!Act /\ UNCHANGED s10
    BY <1>2 DEF Search!OpenSearch, Search!TypeQuery, Search!ToggleSearchOption, Search!TypeOK
  <2>2. /\ s9' \in [query : Queries \cup {"empty"}, options : Options \cup {"empty"},
                    changed : BOOLEAN, due : BOOLEAN, after : Nat]
        /\ s9'.due /\ s9'.query = s2' /\ s9'.options = s3'
    BY <2>1, ScheduleIsAsked
  <2> QED BY <1>0, <2>1, <2>2 DEF Search!TypeOK, Search!SearchSettles, Search!DueIsAsked
<1>3. CASE Search!CloseSearch
  <2>1. s1' = FALSE /\ s6' = <<"empty", "empty">> /\ s5' = <<"empty", "empty">> /\ UNCHANGED s10 /\ Search!Act
        /\ s9' = [query |-> "empty", options |-> "empty", changed |-> FALSE, due |-> FALSE, after |-> 0]
    BY <1>3 DEF Search!CloseSearch, Search!Schedule, Search!NoTimer
  <2>2. s9' \in [query : Queries \cup {"empty"}, options : Options \cup {"empty"},
               changed : BOOLEAN, due : BOOLEAN, after : Nat]
    BY <2>1
  <2>3. s2' = "empty" /\ s3' \in Options /\ s10' \in Nat /\ s11' \in 0..SearchActs
    BY <1>0, <1>3, <2>1 DEF Search!CloseSearch, Search!TypeOK
  <2>4. Search!TypeOK'
    BY <2>1, <2>2, <2>3 DEF Search!TypeOK
  <2> QED BY <2>1, <2>4 DEF Search!SearchSettles, Search!DueIsAsked
<1>4. CASE Search!SearchAgain
  <2>1. UNCHANGED <<s1, s2, s3, s9>> /\ s10' \in Nat /\ Search!Act /\ s1 = TRUE
    <3>1. s10 \in Nat /\ s1 \in BOOLEAN
      BY DEF Search!TypeOK
    <3>2. s10' = s10 + 1 \/ s10' = s10
      BY <1>4 DEF Search!SearchAgain, Search!RunSearch
    <3>3. UNCHANGED <<s1, s2, s3, s9>> /\ Search!Act /\ s1
      BY <1>4 DEF Search!SearchAgain
    <3> QED BY <3>1, <3>2, <3>3
  <2>2. /\ s6' = IF <<s2, s3>> \in Found THEN <<s2, s3>> ELSE <<"empty", "empty">>
        /\ s5' = IF <<s2, s3>> \in Found THEN <<s2, s3>> ELSE <<"empty", "empty">>
    BY <1>4, SearchAssumption DEF Search!SearchAgain, Search!RunSearch, Search!Find
  <2> QED BY <1>0, <2>1, <2>2 DEF Search!TypeOK, Search!SearchSettles, Search!DueIsAsked
<1>5. CASE Search!SearchTimerFires
  <2>1. UNCHANGED <<s1, s2, s3, s11>> /\ s10' \in Nat /\ s1 = TRUE
        /\ s9' = [query |-> "empty", options |-> "empty", changed |-> FALSE, due |-> FALSE, after |-> 0]
    <3>1. s10 \in Nat /\ s1 \in BOOLEAN
      BY DEF Search!TypeOK
    <3>2. s10' = s10 + 1 \/ s10' = s10
      BY <1>5 DEF Search!SearchTimerFires, Search!RunSearch
    <3>3. UNCHANGED <<s1, s2, s3, s11>> /\ s1
      BY <1>5 DEF Search!SearchTimerFires, Search!DueIsAsked
    <3> QED BY <1>5, <3>1, <3>2, <3>3 DEF Search!SearchTimerFires, Search!NoTimer
  <2>2. s9.query = s2 /\ s9.options = s3
    BY <1>5 DEF Search!SearchTimerFires, Search!DueIsAsked
  <2>3. /\ s6' = IF <<s2, s3>> \in Found THEN <<s2, s3>> ELSE <<"empty", "empty">>
        /\ s5' = IF <<s2, s3>> \in Found THEN <<s2, s3>> ELSE <<"empty", "empty">>
    BY <1>5, <2>2, SearchAssumption DEF Search!SearchTimerFires, Search!RunSearch, Search!Find
  <2> QED BY <2>1, <2>3 DEF Search!TypeOK, Search!SearchSettles, Search!DueIsAsked
<1>6. CASE Search!DecorateSelection
  <2>1. UNCHANGED <<s1, s2, s3, s5, s6, s11>> /\ s10' \in Nat
    <3>1. s10 \in Nat
      BY DEF Search!TypeOK
    <3> QED BY <1>6, <3>1 DEF Search!DecorateSelection
  <2>2. /\ s9' \in [query : Queries \cup {"empty"}, options : Options \cup {"empty"},
                    changed : BOOLEAN, due : BOOLEAN, after : Nat]
        /\ s9'.due = s9.due /\ s9'.query = s9.query /\ s9'.options = s9.options
    <3> DEFINE later == IF s9.after = 0 THEN 0 ELSE s9.after - 1
    <3>1. /\ s9 \in [query : Queries \cup {"empty"}, options : Options \cup {"empty"},
                      changed : BOOLEAN, due : BOOLEAN, after : Nat]
          /\ s9' = [s9 EXCEPT !.after = later]
      BY <1>6 DEF Search!DecorateSelection, Search!TypeOK
    <3>2. later \in Nat
      BY <3>1
    <3> HIDE DEF later
    <3> QED BY <3>1, <3>2
  <2> QED BY <2>1, <2>2 DEF Search!TypeOK, Search!SearchSettles, Search!DueIsAsked
<1> QED BY <1>1, <1>2, <1>3, <1>4, <1>5, <1>6 DEF Search!Next

LEMMA NoticeInit == Notices!Init => Notices!AttentionInv
<1> SUFFICES ASSUME Notices!Init PROVE Notices!AttentionInv
  OBVIOUS
<1>1. PICK t \in Tabs : s2 = {t} /\ s3 = t /\ s5 = {t}
  BY DEF Notices!Init
<1>2. s6 \in [Tabs -> {"none", "activity", "bell", "notification"}]
  BY DEF Notices!Init
<1>3. s7 \in [Tabs -> 0..MaxUnseen] /\ s10 \in [Notices!Notifications -> 0..MaxUnseen] /\ s11 \in 0..NoticeActs
  BY NoticeAssumption DEF Notices!Init
<1>4. Notices!TypeOK
  BY <1>1, <1>2, <1>3 DEF Notices!Init, Notices!TypeOK
<1> QED BY <1>1, <1>4 DEF Notices!AttentionInv, Notices!Init, Notices!SeenIsAnswered, Notices!NoToastInFocus

\* The marks and counts of what is looked at go, the others stay.
LEMMA ClearingAnswers ==
    ASSUME Notices!TypeOK, NEW seen, Notices!ClearTabAttention(seen)
    PROVE  /\ s6' \in [Tabs -> {"none", "activity", "bell", "notification"}]
           /\ s7' \in [Tabs -> 0..MaxUnseen]
           /\ \A t \in Tabs : IF t \in seen THEN s6'[t] = "none" /\ s7'[t] = 0
                              ELSE s6'[t] = s6[t] /\ s7'[t] = s7[t]
<1>1. 0 \in 0..MaxUnseen
  BY NoticeAssumption
<1>2. s6' = [t \in Tabs |-> IF t \in seen THEN "none" ELSE s6[t]]
      /\ s7' = [t \in Tabs |-> IF t \in seen THEN 0 ELSE s7[t]]
  BY DEF Notices!ClearTabAttention
<1> QED BY <1>1, <1>2 DEF Notices!TypeOK

\* A notification moves on or is over.
LEMMA OnItsWay ==
    ASSUME NEW bag \in [Notices!Notifications -> 0..MaxUnseen], NEW n \in Notices!Notifications
    PROVE  /\ bag[n] > 0 => [bag EXCEPT ![n] = @ - 1] \in [Notices!Notifications -> 0..MaxUnseen]
           /\ bag[n] < MaxUnseen => [bag EXCEPT ![n] = @ + 1] \in [Notices!Notifications -> 0..MaxUnseen]
<1>1. bag[n] \in 0..MaxUnseen
  OBVIOUS
<1>2. /\ bag[n] > 0 => bag[n] - 1 \in 0..MaxUnseen
      /\ bag[n] < MaxUnseen => bag[n] + 1 \in 0..MaxUnseen
  BY <1>1, NoticeAssumption
<1> QED BY <1>2

\* A terminal reports something: nothing is marked or shown for the tab the user looks at.
LEMMA NoticeReported ==
    ASSUME Notices!AttentionInv, NEW t \in Tabs, NEW kind \in Notices!Kinds, Notices!Attention(t, kind)
    PROVE  Notices!AttentionInv'
<1> DEFINE d == Notices!DecideAttention(kind, t \in s2, t = s3)
           announces == (d.system \/ d.toast) /\ Notices!Key(t, kind) \notin s9
<1>0. Notices!TypeOK
  BY DEF Notices!AttentionInv
<1>1. /\ d.mark \in {"none", "bell", "notification"}
      /\ d.mark # "none" => t \notin s2
      /\ d.toast => s4 /\ t # s3
      /\ d # Notices!Nothing => ~(s4 /\ t = s3)
  BY DEF Notices!DecideAttention, Notices!Nothing
<1>2. /\ t \in s1
      /\ IF d.mark = "none" THEN UNCHANGED s6 ELSE Notices!MarkTabAttention(t, d.mark)
      /\ s9' = IF announces THEN s9 \cup {Notices!Key(t, kind)} ELSE s9
      /\ IF announces /\ d.system
         THEN /\ s10[[tab |-> t, at |-> "sound"]] < MaxUnseen
              /\ s10' = [s10 EXCEPT ![[tab |-> t, at |-> "sound"]] = @ + 1]
         ELSE UNCHANGED s10
      /\ s8' = IF announces /\ d.toast THEN s8 \cup {t} ELSE s8
      /\ UNCHANGED <<s1, s2, s3, s4, s5, s7, s11>>
  BY DEF Notices!Attention
<1> HIDE DEF d
<1>3. s6' \in [Tabs -> {"none", "activity", "bell", "notification"}]
      /\ \A u \in s2 : s6'[u] = s6[u]
  BY <1>0, <1>1, <1>2 DEF Notices!TypeOK, Notices!MarkTabAttention, Notices!StrongerAttention
<1>4. s9' \subseteq Notices!Keys
  BY <1>0, <1>2 DEF Notices!TypeOK, Notices!Keys, Notices!Key
<1>5. s10' \in [Notices!Notifications -> 0..MaxUnseen]
  <2>1. [tab |-> t, at |-> "sound"] \in Notices!Notifications
    BY DEF Notices!Notifications
  <2> QED BY <1>0, <1>2, <2>1, OnItsWay DEF Notices!TypeOK
<1>6. s8' \subseteq s1 /\ s3 \notin s8'
  BY <1>0, <1>1, <1>2 DEF Notices!TypeOK, Notices!AttentionInv, Notices!NoToastInFocus
<1>7. Notices!TypeOK'
  BY <1>0, <1>2, <1>3, <1>4, <1>5, <1>6 DEF Notices!TypeOK
<1> QED BY <1>2, <1>3, <1>6, <1>7 DEF Notices!AttentionInv, Notices!SeenIsAnswered, Notices!NoToastInFocus

\* Output, and the notifications on their way: only tabs out of sight are marked or counted.
LEMMA NoticeArrives ==
    ASSUME Notices!AttentionInv, NEW t \in Tabs,
           \/ Notices!BackgroundOutput(t) \/ Notices!SoundPlayed(t) \/ Notices!NotificationShown(t)
           \/ Notices!NotificationFailed(t)
    PROVE  Notices!AttentionInv'
<1>0. Notices!TypeOK
  BY DEF Notices!AttentionInv
<1> DEFINE from == [tab |-> t, at |-> "sound"]
           to == [tab |-> t, at |-> "system"]
<1>1. from \in Notices!Notifications /\ to \in Notices!Notifications /\ from # to
  BY DEF Notices!Notifications
<1>2. CASE Notices!BackgroundOutput(t)
  <2>1. t \notin s2 /\ UNCHANGED <<s1, s2, s3, s4, s5, s7, s8, s9, s10, s11>>
        /\ Notices!MarkTabAttention(t, "activity")
    BY <1>2 DEF Notices!BackgroundOutput
  <2>2. s6' \in [Tabs -> {"none", "activity", "bell", "notification"}]
        /\ \A u \in s2 : s6'[u] = s6[u]
    BY <1>0, <2>1 DEF Notices!TypeOK, Notices!MarkTabAttention, Notices!StrongerAttention
  <2>3. Notices!TypeOK'
    BY <1>0, <2>1, <2>2 DEF Notices!TypeOK
  <2> QED BY <2>1, <2>2, <2>3 DEF Notices!AttentionInv, Notices!SeenIsAnswered, Notices!NoToastInFocus
<1>3. CASE Notices!SoundPlayed(t)
  <2>1. s10[from] > 0 /\ s10[to] < MaxUnseen /\ s10' = [s10 EXCEPT ![from] = @ - 1, ![to] = @ + 1]
        /\ UNCHANGED <<s1, s2, s3, s4, s5, s6, s7, s8, s9, s11>>
    BY <1>3 DEF Notices!SoundPlayed
  <2> DEFINE bag == [s10 EXCEPT ![from] = @ - 1]
  <2>2. s10 \in [Notices!Notifications -> 0..MaxUnseen]
    BY <1>0 DEF Notices!TypeOK
  <2>3. bag \in [Notices!Notifications -> 0..MaxUnseen]
    BY <1>1, <2>1, <2>2, OnItsWay
  <2>4. bag[to] = s10[to]
    BY <1>1, <2>2
  <2>5. s10' = [bag EXCEPT ![to] = @ + 1]
    BY <2>1
  <2>6. s10' \in [Notices!Notifications -> 0..MaxUnseen]
    <3> HIDE DEF bag, to, from
    <3> QED BY <1>1, <2>1, <2>3, <2>4, <2>5, OnItsWay
  <2>7. Notices!TypeOK'
    BY <1>0, <2>1, <2>6 DEF Notices!TypeOK
  <2> QED BY <2>1, <2>7 DEF Notices!AttentionInv, Notices!SeenIsAnswered, Notices!NoToastInFocus
<1>4. CASE Notices!NotificationShown(t) \/ Notices!NotificationFailed(t)
  <2>1. s10[to] > 0 /\ s10' = [s10 EXCEPT ![to] = @ - 1]
        /\ UNCHANGED <<s1, s2, s3, s4, s5, s6, s8, s9, s11>>
    BY <1>4 DEF Notices!NotificationShown, Notices!NotificationFailed
  <2>2. s10' \in [Notices!Notifications -> 0..MaxUnseen]
    BY <1>0, <1>1, <2>1, OnItsWay DEF Notices!TypeOK
  <2>3. s7' \in [Tabs -> 0..MaxUnseen] /\ (s4 => \A u \in s2 : s7'[u] = s7[u])
    <3>1. s7 \in [Tabs -> 0..MaxUnseen] /\ s7[t] \in 0..MaxUnseen /\ s2 \subseteq Tabs
      BY <1>0 DEF Notices!TypeOK
    <3>2. CASE Notices!NotificationFailed(t) \/ (s4 /\ t \in s2)
      <4>1. s7' = s7
        BY <1>4, <3>1, <3>2 DEF Notices!NotificationShown, Notices!NotificationFailed, Notices!SeenMeanwhile
      <4> QED BY <3>1, <4>1
    <3>3. CASE Notices!NotificationShown(t) /\ ~(s4 /\ t \in s2)
      <4>1. s7' = [s7 EXCEPT ![t] = s7[t] + 1] /\ s7[t] < MaxUnseen
        BY <3>3 DEF Notices!NotificationShown, Notices!SeenMeanwhile
      <4>2. s7[t] + 1 \in 0..MaxUnseen
        BY <3>1, <4>1, NoticeAssumption
      <4> QED BY <3>1, <3>3, <4>1, <4>2
    <3> QED BY <1>4, <3>2, <3>3
  <2>4. Notices!TypeOK'
    BY <1>0, <2>1, <2>2, <2>3 DEF Notices!TypeOK
  <2> QED BY <2>1, <2>3, <2>4 DEF Notices!AttentionInv, Notices!SeenIsAnswered, Notices!NoToastInFocus
<1> QED BY <1>2, <1>3, <1>4

\* The window comes to the front, or a tab into sight: what is seen is answered.
LEMMA NoticeLooked ==
    ASSUME Notices!AttentionInv,
           \/ Notices!FocusChanged \/ \E t \in Tabs : Notices!ShowTab(t) \/ Notices!CloseTab(t)
    PROVE  Notices!AttentionInv'
<1>0. Notices!TypeOK /\ s3 \notin s8
  BY DEF Notices!AttentionInv, Notices!NoToastInFocus
<1>1. s11' \in 0..NoticeActs
  <2>1. s11 \in 0..NoticeActs /\ Notices!UserActs
    BY <1>0 DEF Notices!TypeOK, Notices!FocusChanged, Notices!ShowTab, Notices!CloseTab
  <2>2. NoticeActs \in Nat
    BY NoticeAssumption
  <2> QED BY <2>1, <2>2 DEF Notices!UserActs
<1>2. CASE Notices!FocusChanged
  <2>1. s4' = ~s4 /\ UNCHANGED <<s1, s2, s3, s5, s8, s9, s10>>
    BY <1>2 DEF Notices!FocusChanged
  <2>2. CASE s4 = TRUE
    <3>1. UNCHANGED <<s6, s7>> /\ s4' = FALSE
      BY <1>2, <2>1, <2>2 DEF Notices!FocusChanged
    <3>2. Notices!TypeOK'
      BY <1>0, <1>1, <2>1, <3>1 DEF Notices!TypeOK
    <3> QED BY <1>0, <2>1, <3>1, <3>2 DEF Notices!AttentionInv, Notices!SeenIsAnswered, Notices!NoToastInFocus
  <2>3. CASE s4 = FALSE
    <3>1. Notices!ClearTabAttention(s2) /\ s4' = TRUE
      BY <1>2, <2>1, <2>3 DEF Notices!FocusChanged
    <3>2. /\ s6' \in [Tabs -> {"none", "activity", "bell", "notification"}]
          /\ s7' \in [Tabs -> 0..MaxUnseen]
          /\ \A t \in s2 : s6'[t] = "none" /\ s7'[t] = 0
      BY <1>0, <3>1, ClearingAnswers DEF Notices!TypeOK
    <3>3. Notices!TypeOK'
      BY <1>0, <1>1, <2>1, <3>1, <3>2 DEF Notices!TypeOK
    <3> QED BY <1>0, <2>1, <3>2, <3>3 DEF Notices!AttentionInv, Notices!SeenIsAnswered, Notices!NoToastInFocus
  <2> QED BY <1>0, <2>2, <2>3 DEF Notices!TypeOK
<1>3. ASSUME NEW t \in Tabs, Notices!ShowTab(t) PROVE Notices!AttentionInv'
  <2>1. PICK vs \in SUBSET s1 : t \in vs /\ Notices!Render(vs, t) /\ Notices!ClearTabAttention(vs \ s2)
    BY <1>3 DEF Notices!ShowTab
  <2>2. s2' = vs /\ s3' = t /\ s5' = s5 \cup vs /\ s8' = s8 \ {t} /\ UNCHANGED <<s1, s4, s9, s10>>
    BY <1>3, <2>1 DEF Notices!Render, Notices!ShowTab
  <2>3. /\ s6' \in [Tabs -> {"none", "activity", "bell", "notification"}]
        /\ s7' \in [Tabs -> 0..MaxUnseen]
        /\ \A u \in vs : \/ s6'[u] = "none" /\ s7'[u] = 0
                         \/ u \in s2 /\ s6'[u] = s6[u] /\ s7'[u] = s7[u]
    BY <1>0, <2>1, ClearingAnswers DEF Notices!TypeOK
  <2>4. Notices!TypeOK'
    BY <1>0, <1>1, <2>1, <2>2, <2>3 DEF Notices!TypeOK
  <2> QED BY <2>2, <2>3, <2>4 DEF Notices!AttentionInv, Notices!SeenIsAnswered, Notices!NoToastInFocus
<1>4. ASSUME NEW t \in Tabs, Notices!CloseTab(t) PROVE Notices!AttentionInv'
  <2>1. PICK vs \in SUBSET (s1 \ {t}), n \in s1 \cup {"none"} :
            /\ n \in vs \cup {"none"}
            /\ Notices!Render(vs, n) /\ Notices!ClearTabAttention((vs \ s2) \cup {t})
            /\ s8' = s8 \ {t, n}
    BY <1>4 DEF Notices!CloseTab
  <2>2. s2' = vs /\ s3' = n /\ s5' = s5 \cup vs /\ s1' = s1 \ {t} /\ UNCHANGED <<s4, s9, s10>>
    BY <1>4, <2>1 DEF Notices!Render, Notices!CloseTab
  <2>3. /\ s6' \in [Tabs -> {"none", "activity", "bell", "notification"}]
        /\ s7' \in [Tabs -> 0..MaxUnseen]
        /\ \A u \in vs : \/ s6'[u] = "none" /\ s7'[u] = 0
                         \/ u \in s2 /\ s6'[u] = s6[u] /\ s7'[u] = s7[u]
    BY <1>0, <2>1, ClearingAnswers DEF Notices!TypeOK
  <2>4. Notices!TypeOK'
    BY <1>0, <1>1, <2>1, <2>2, <2>3 DEF Notices!TypeOK
  <2> QED BY <2>1, <2>2, <2>3, <2>4 DEF Notices!AttentionInv, Notices!SeenIsAnswered, Notices!NoToastInFocus
<1> QED BY <1>2, <1>3, <1>4

LEMMA NoticeNext == Notices!AttentionInv /\ (Notices!Next \/ UNCHANGED Notices!vars) => Notices!AttentionInv'
<1> SUFFICES ASSUME Notices!AttentionInv, Notices!Next \/ UNCHANGED Notices!vars PROVE Notices!AttentionInv'
  OBVIOUS
<1>1. CASE UNCHANGED Notices!vars
  BY <1>1 DEF Notices!vars, Notices!AttentionInv, Notices!TypeOK, Notices!SeenIsAnswered, Notices!NoToastInFocus
<1>2. CASE (\E t \in Tabs : Notices!ToastClosed(t)) \/ \E key \in Notices!Keys : Notices!IntervalOver(key)
  <2>1. s8' \subseteq s8 /\ s9' \subseteq s9 /\ UNCHANGED <<s1, s2, s3, s4, s5, s6, s7, s10, s11>>
    BY <1>2 DEF Notices!ToastClosed, Notices!IntervalOver
  <2> QED BY <2>1 DEF Notices!AttentionInv, Notices!TypeOK, Notices!SeenIsAnswered, Notices!NoToastInFocus
<1> QED BY <1>1, <1>2, NoticeReported, NoticeArrives, NoticeLooked DEF Notices!Next

\* What the tab shows is so, whatever the commands, the queries, the tabs and the settings.
THEOREM TabsTellTheTruth == AllSpec => []TabTellsTheTruth
<1> DEFINE I == /\ part = "title" => Titles!TypeOK /\ Titles!TitleIsRunning
                /\ part = "search" => Search!SearchInv
                /\ part = "attention" => Notices!AttentionInv
<1>1. AllInit => I
  BY TitleInit, SearchInit, NoticeInit DEF AllInit
<1>2. I /\ [AllNext]_allVars => I'
  <2> SUFFICES ASSUME I, [AllNext]_allVars PROVE I'
    OBVIOUS
  <2>1. ASSUME part' = "title" PROVE Titles!TypeOK' /\ Titles!TitleIsRunning'
    <3>1. part = "title" /\ (Titles!Next \/ UNCHANGED Titles!vars)
      BY <2>1 DEF AllNext, allVars, slots, Titles!vars
    <3> QED BY <3>1, TitleNext
  <2>2. ASSUME part' = "search" PROVE Search!SearchInv'
    <3>1. part = "search" /\ (Search!Next \/ UNCHANGED Search!vars)
      BY <2>2 DEF AllNext, allVars, slots, Search!vars
    <3> QED BY <3>1, SearchNext
  <2>3. ASSUME part' = "attention" PROVE Notices!AttentionInv'
    <3>1. part = "attention" /\ (Notices!Next \/ UNCHANGED Notices!vars)
      BY <2>3 DEF AllNext, allVars, slots, Notices!vars
    <3> QED BY <3>1, NoticeNext
  <2> QED BY <2>1, <2>2, <2>3
<1>3. I => TabTellsTheTruth
  BY DEF TabTellsTheTruth, Search!SearchInv, Notices!AttentionInv
<1> QED BY <1>1, <1>2, <1>3, PTL DEF AllSpec

-----------------------------------------------------------------------------
(* Password prompts.                                                       *)

LEMMA PromptInit == Passwords!Init => Passwords!PromptInv
<1> SUFFICES ASSUME Passwords!Init PROVE Passwords!PromptInv
  OBVIOUS
<1>1. /\ s1 = "text" /\ s3 = <<>> /\ s4 = "none" /\ s5 = <<>> /\ s6 = "none" /\ s7 = "none" /\ s9 = {}
      /\ s10 = FALSE /\ s11 = "none" /\ s12 = {} /\ s13 = FALSE /\ s14 = {} /\ s15 = {} /\ s18 = FALSE
      /\ s17 \in BOOLEAN
  BY DEF Passwords!Init, Passwords!NoKey
<1>2. s2 \in 0..MaxFeeds /\ s8 \in 0..MaxChecks /\ s16 \in 0..MaxScript
  BY PromptAssumption DEF Passwords!Init
<1>3. Passwords!TypeOK
  BY <1>1, <1>2 DEF Passwords!TypeOK, Passwords!CursorLines, Passwords!NoKey
<1>4. Passwords!TimerHasLine
  BY DEF Passwords!Init, Passwords!TimerHasLine
<1> QED BY <1>1, <1>3, <1>4 DEF Passwords!PromptInv, Passwords!KeyOfLine, Passwords!LookupsAreForThePrompt, Passwords!Prompts,
           Passwords!OfferIsForThePrompt, Passwords!SecretsNotCaptured, Passwords!SecretsNotRecorded, Passwords!NoKey

\* No key is one of no line.
LEMMA KeysName == ASSUME NEW n, NEW m PROVE <<n, m>> # <<>>
OBVIOUS

\* Whatever answers the prompt takes the offer and what was looked up for it.
LEMMA AnswerTakesOffer ==
    ASSUME Passwords!PromptInv, s8 < MaxChecks, Passwords!AnswerCurrentPrompt, UNCHANGED <<s1, s2, s3, s9, s10>>
    PROVE  /\ s5' \in {<<>>} \cup ((0..MaxFeeds) \X Passwords!Prompts) /\ s6' = "none" /\ s8' \in 0..MaxChecks
           /\ Passwords!KeyOfLine' /\ Passwords!LookupsAreForThePrompt' /\ Passwords!OfferIsForThePrompt'
<1>0. Passwords!TypeOK /\ Passwords!KeyOfLine /\ Passwords!LookupsAreForThePrompt
  BY DEF Passwords!PromptInv
<1>1. s5' \in {s3, s5} /\ s6' = "none" /\ s8' = s8 + 1
  BY DEF Passwords!AnswerCurrentPrompt, Passwords!ClearSavedPasswordOffer
<1>2. s8 \in 0..MaxChecks /\ \A call \in s9 : call.id \in 0..MaxChecks
  BY <1>0 DEF Passwords!TypeOK
<1>3. s8' \in 0..MaxChecks /\ \A call \in s9 : call.id <= s8 => call.id <= s8' /\ call.id # s8'
  BY <1>1, <1>2, PromptAssumption
<1> QED BY <1>0, <1>1, <1>3 DEF Passwords!TypeOK, Passwords!KeyOfLine, Passwords!LookupsAreForThePrompt,
           Passwords!OfferIsForThePrompt, Passwords!NoKey

\* Output: an unanswered prompt is new, and what is looked up from now on is for it.
LEMMA PromptOutput ==
    ASSUME Passwords!PromptInv, Passwords!Output
    PROVE  Passwords!PromptInv'
<1>0. /\ Passwords!TypeOK /\ Passwords!KeyOfLine /\ Passwords!LookupsAreForThePrompt /\ Passwords!OfferIsForThePrompt
      /\ Passwords!SecretsNotCaptured /\ Passwords!SecretsNotRecorded
  BY DEF Passwords!PromptInv
<1>1. PICK line \in Passwords!CursorLines, feeds \in s2..(s2 + 1) :
          /\ feeds <= MaxFeeds /\ s8 + 2 <= MaxChecks
          /\ s1' = line /\ s2' = feeds
          /\ Passwords!CheckPasswordPrompt(line, feeds)
          /\ s17' = (s16 > 0)
          /\ UNCHANGED <<s12, s16>>
  BY DEF Passwords!Output
<1>2. s2' \in 0..MaxFeeds
  <2>1. s2 \in 0..MaxFeeds
    BY <1>0 DEF Passwords!TypeOK
  <2> QED BY <1>1, <2>1, PromptAssumption
<1>3. s1' \in Passwords!CursorLines /\ s17' \in BOOLEAN /\ Passwords!TimerHasLine'
  <2>1. s17' = TRUE \/ s17' = FALSE
    BY <1>1
  <2> QED BY <1>1, <2>1 DEF Passwords!TimerHasLine
<1> DEFINE match == Passwords!MatchPasswordPrompt(line)
           key == IF match = "none" THEN <<>> ELSE <<feeds, match>>
<1>4. match = IF line \in Passwords!Prompts THEN line ELSE "none"
  BY DEF Passwords!MatchPasswordPrompt
<1>5. key = IF line \in Passwords!Prompts THEN <<feeds, line>> ELSE <<>>
  BY <1>4 DEF Passwords!Prompts
<1>6. key \in {<<>>} \cup ((0..MaxFeeds) \X Passwords!Prompts) /\ match \in Passwords!Prompts \cup {"none"}
  BY <1>1, <1>2, <1>4, <1>5
<1>7. /\ \/ key = s3 /\ UNCHANGED <<s3, s4, s5, s6, s7, s8, s9, s10, s11, s13, s14, s15, s18>>
         \/ /\ key # s3 /\ s3' = key /\ s4' = match /\ UNCHANGED s5
            /\ \/ match # "none" /\ key # s5 /\ Passwords!HandlePasswordPrompt(match)
               \/ /\ match = "none" \/ key = s5
                  /\ Passwords!ClearSavedPasswordOffer
                  /\ s7' = "none" /\ s18' = (s18 /\ feeds = s2)
                  /\ UNCHANGED <<s9, s10, s11, s13, s14, s15>>
  BY <1>1 DEF Passwords!CheckPasswordPrompt, Passwords!NoKey, Passwords!promptVars, Passwords!captureVars
<1>8. Passwords!KeyOfLine'
  BY <1>1, <1>5, <1>7 DEF Passwords!KeyOfLine, Passwords!NoKey
<1>9. s8 \in Nat /\ \A call \in s9 : call.id \in Nat /\ call.id <= s8
  BY <1>0, PromptAssumption DEF Passwords!TypeOK, Passwords!LookupsAreForThePrompt
<1> HIDE DEF key, match
<1>10. CASE key = s3 /\ UNCHANGED <<s3, s4, s5, s6, s7, s8, s9, s10, s11, s13, s14, s15, s18>>
  <2>1. s3 # <<>> => s1' = s1
    BY <1>0, <1>1, <1>5, <1>10, KeysName DEF Passwords!KeyOfLine, Passwords!NoKey
  <2>2. Passwords!TypeOK'
    BY <1>0, <1>1, <1>2, <1>3, <1>10 DEF Passwords!TypeOK
  <2>3. Passwords!LookupsAreForThePrompt' /\ Passwords!OfferIsForThePrompt'
    BY <1>0, <1>10, <2>1 DEF Passwords!LookupsAreForThePrompt, Passwords!OfferIsForThePrompt, Passwords!NoKey
  <2> QED BY <1>0, <1>3, <1>8, <1>10, <2>2, <2>3 DEF Passwords!PromptInv, Passwords!SecretsNotCaptured,
             Passwords!SecretsNotRecorded
<1>11. CASE /\ s3' = key /\ s4' = match /\ UNCHANGED s5
            /\ match # "none" /\ key # s5 /\ Passwords!HandlePasswordPrompt(match)
  <2> DEFINE looksUp == ~(s11 = match) /\ ~s10 /\ match = "own"
             call == [id |-> s8 + 2, prompt |-> match]
  <2>1. /\ s13' = TRUE /\ s14' = {} /\ UNCHANGED s15 /\ s11' = "none" /\ s10' = (s10 \/ s11 = match)
        /\ s8' = s8 + (IF looksUp THEN 2 ELSE 1)
        /\ s9' = s9 \cup (IF looksUp THEN {call} ELSE {})
        /\ s7' \in {"none", "rejected", "manual"} /\ s6' = "none" /\ s18' = TRUE
    BY <1>11 DEF Passwords!HandlePasswordPrompt
  <2>2. s8' \in 0..MaxChecks /\ s8 + 2 \in 0..MaxChecks
    BY <1>1, <1>9, <2>1, PromptAssumption
  <2>3. s10' \in BOOLEAN /\ (looksUp => s10' = FALSE)
    BY <1>0, <2>1 DEF Passwords!TypeOK
  <2>4. s9' \subseteq [id : 0..MaxChecks, prompt : Passwords!Prompts]
    BY <1>0, <1>6, <1>11, <2>1, <2>2 DEF Passwords!TypeOK
  <2>5. Passwords!TypeOK'
    BY <1>0, <1>1, <1>2, <1>3, <1>6, <1>11, <2>1, <2>2, <2>3, <2>4 DEF Passwords!TypeOK, Passwords!NoKey
  <2>6. Passwords!LookupsAreForThePrompt'
    <3>1. \A c \in s9 : c.id < s8'
      BY <1>9, <2>1
    <3>2. CASE looksUp
      <4>1. key # <<>> /\ line = "own"
        BY <1>4, <1>5, <3>2, KeysName DEF Passwords!Prompts
      <4>2. call.id = s8' /\ call.prompt = "own"
        BY <2>1, <3>2
      <4>3. s9' = s9 \cup {call}
        BY <2>1, <3>2
      <4>4. \A c \in s9 : c.id # s8' /\ c.id <= s8'
        BY <1>9, <2>1, <2>2, <3>1
      <4>5. call.id <= s8'
        BY <1>9, <2>1, <3>2
      <4> QED BY <1>0, <1>1, <1>11, <2>1, <2>3, <3>2, <4>1, <4>2, <4>3, <4>4, <4>5
              DEF Passwords!LookupsAreForThePrompt, Passwords!NoKey
    <3>3. CASE ~looksUp
      <4>1. s9' = s9
        BY <2>1, <3>3
      <4>2. \A c \in s9 : c.id # s8' /\ c.id <= s8'
        BY <1>9, <2>1, <2>2, <3>1
      <4> QED BY <1>0, <4>1, <4>2 DEF Passwords!LookupsAreForThePrompt
    <3> QED BY <3>2, <3>3
  <2> QED BY <1>0, <1>3, <1>8, <2>1, <2>5, <2>6 DEF Passwords!PromptInv, Passwords!OfferIsForThePrompt,
             Passwords!SecretsNotCaptured, Passwords!SecretsNotRecorded
<1>12. CASE /\ s3' = key /\ s4' = match /\ UNCHANGED s5
            /\ Passwords!ClearSavedPasswordOffer
            /\ s7' = "none" /\ s18' = (s18 /\ feeds = s2)
            /\ UNCHANGED <<s9, s10, s11, s13, s14, s15>>
  <2>1. s6' = "none" /\ s8' = s8 + 1
    BY <1>12 DEF Passwords!ClearSavedPasswordOffer
  <2>2. s8' \in 0..MaxChecks /\ \A c \in s9 : c.id # s8' /\ c.id <= s8'
    BY <1>1, <1>9, <2>1, PromptAssumption
  <2>3. s18' \in BOOLEAN /\ (s18' => s18)
    <3>1. s18 \in BOOLEAN
      BY <1>0 DEF Passwords!TypeOK
    <3>2. s18' = s18 \/ s18' = FALSE
      BY <1>12, <3>1
    <3>3. CASE s18' = s18
      BY <3>1, <3>3
    <3>4. CASE s18' = FALSE
      BY <3>4
    <3> QED BY <3>2, <3>3, <3>4
  <2>4. Passwords!TypeOK'
    BY <1>0, <1>1, <1>2, <1>3, <1>6, <1>12, <2>1, <2>2, <2>3 DEF Passwords!TypeOK, Passwords!NoKey
  <2> QED BY <1>0, <1>3, <1>8, <1>12, <2>1, <2>2, <2>3, <2>4 DEF Passwords!PromptInv, Passwords!OfferIsForThePrompt,
             Passwords!LookupsAreForThePrompt, Passwords!SecretsNotCaptured, Passwords!SecretsNotRecorded
<1> QED BY <1>7, <1>10, <1>11, <1>12

\* A late answer finds its lookup withdrawn; the wanted one is for the prompt on the screen.
LEMMA PromptLookup ==
    ASSUME Passwords!PromptInv, Passwords!LookupAnswers
    PROVE  Passwords!PromptInv'
<1>0. /\ Passwords!TypeOK /\ Passwords!KeyOfLine /\ Passwords!LookupsAreForThePrompt /\ Passwords!OfferIsForThePrompt
      /\ Passwords!SecretsNotCaptured /\ Passwords!SecretsNotRecorded
  BY DEF Passwords!PromptInv
<1>1. PICK call \in s9, found \in BOOLEAN :
          /\ s9' = s9 \ {call}
          /\ IF call.id # s8 THEN UNCHANGED <<s6, s7>>
             ELSE /\ s6' = IF found THEN call.prompt ELSE s6
                  /\ s7' = IF found THEN "available" ELSE "manual"
          /\ UNCHANGED <<s1, s2, s3, s4, s5, s8, s10, s11, s12, s13, s14, s15, s16, s17, s18>>
  BY DEF Passwords!LookupAnswers, Passwords!fillVars, Passwords!captureVars
<1>2. call.prompt = "own" /\ s9 \subseteq [id : 0..MaxChecks, prompt : Passwords!Prompts]
  BY <1>0 DEF Passwords!TypeOK, Passwords!LookupsAreForThePrompt
<1>3. \A c \in s9' : call.id = s8 => c.id # s8
  <2> SUFFICES ASSUME NEW c \in s9, c # call PROVE c.id # call.id
    BY <1>1
  <2> QED BY <1>0, <1>2 DEF Passwords!LookupsAreForThePrompt
<1>4. Passwords!TypeOK'
  BY <1>0, <1>1, <1>2 DEF Passwords!TypeOK
<1>5. Passwords!LookupsAreForThePrompt' /\ Passwords!OfferIsForThePrompt'
  <2>1. CASE call.id # s8
    BY <1>0, <1>1, <2>1 DEF Passwords!LookupsAreForThePrompt, Passwords!OfferIsForThePrompt
  <2>2. CASE call.id = s8
    <3>1. s3 # <<>> /\ s3 # s5 /\ s1 = "own" /\ s6 = "none" /\ ~s10
      BY <1>0, <2>2 DEF Passwords!LookupsAreForThePrompt, Passwords!NoKey
    <3> QED BY <1>0, <1>1, <1>2, <1>3, <2>2, <3>1
            DEF Passwords!LookupsAreForThePrompt, Passwords!OfferIsForThePrompt, Passwords!NoKey
  <2> QED BY <2>1, <2>2
<1> QED BY <1>0, <1>1, <1>4, <1>5 DEF Passwords!PromptInv, Passwords!KeyOfLine, Passwords!SecretsNotCaptured,
           Passwords!SecretsNotRecorded, Passwords!TimerHasLine

\* The prompt is answered: filled, closed or typed at.
LEMMA PromptAnswered ==
    ASSUME Passwords!PromptInv,
           Passwords!FillSavedPassword \/ Passwords!DismissCurrentPrompt \/ Passwords!TypeData
    PROVE  Passwords!PromptInv'
<1>0. Passwords!TypeOK /\ Passwords!SecretsNotCaptured /\ Passwords!SecretsNotRecorded
  BY DEF Passwords!PromptInv
<1>1. s8 < MaxChecks /\ Passwords!AnswerCurrentPrompt /\ UNCHANGED <<s1, s2, s3, s9, s10>>
  BY DEF Passwords!FillSavedPassword, Passwords!DismissCurrentPrompt, Passwords!TypeData, Passwords!TypeAtPrompt,
     Passwords!fillVars
<1>2. /\ s5' \in {<<>>} \cup ((0..MaxFeeds) \X Passwords!Prompts) /\ s6' = "none" /\ s8' \in 0..MaxChecks
      /\ Passwords!KeyOfLine' /\ Passwords!LookupsAreForThePrompt' /\ Passwords!OfferIsForThePrompt'
  BY <1>1, AnswerTakesOffer
<1>3. CASE Passwords!FillSavedPassword
  <2>1. /\ s7' = "none" /\ s13' = FALSE /\ s14' = {} /\ s12' = s12 \cup {s6} /\ s6 # "none" /\ s18' = FALSE
        /\ UNCHANGED <<s4, s11, s15, s16, s17>>
    BY <1>3 DEF Passwords!FillSavedPassword
  <2>2. Passwords!TypeOK'
    BY <1>0, <1>1, <1>2, <2>1 DEF Passwords!TypeOK, Passwords!NoKey
  <2>3. Passwords!TimerHasLine'
    BY <2>1 DEF Passwords!PromptInv, Passwords!TimerHasLine
  <2> QED BY <1>0, <1>2, <2>1, <2>2, <2>3 DEF Passwords!PromptInv, Passwords!SecretsNotCaptured,
             Passwords!SecretsNotRecorded
<1>4. CASE Passwords!DismissCurrentPrompt
  <2>1. s7' \in {"manual", "none"} /\ UNCHANGED <<s4, s11, s12, s13, s14, s15, s16, s17, s18>>
    BY <1>4 DEF Passwords!DismissCurrentPrompt, Passwords!fillVars, Passwords!captureVars
  <2>2. Passwords!TypeOK'
    BY <1>0, <1>1, <1>2, <2>1 DEF Passwords!TypeOK, Passwords!NoKey
  <2>3. Passwords!TimerHasLine'
    BY <2>1 DEF Passwords!PromptInv, Passwords!TimerHasLine
  <2> QED BY <1>0, <1>2, <2>1, <2>2, <2>3 DEF Passwords!PromptInv, Passwords!SecretsNotCaptured,
             Passwords!SecretsNotRecorded
<1>5. CASE Passwords!TypeData
  <2>1. PICK keys \in {"key", "enter", "interrupt", "line"} :
            LET ends == keys # "key"
                text == IF keys \in {"enter", "interrupt"} THEN {}
                        ELSE {IF s18 THEN "secret" ELSE "command"}
            IN  /\ s16' = IF s3 = <<>> THEN 0 ELSE s16
                /\ s17' = (s17 /\ s3 # <<>>)
                /\ Passwords!TypeAtPrompt(ends)
                /\ Passwords!CaptureTerminalInput(text, ends, keys = "interrupt")
                /\ s18' = (s18 /\ ~ends)
                /\ UNCHANGED s12
    BY <1>5 DEF Passwords!TypeData, Passwords!NoKey
  <2> DEFINE ends == keys # "key"
             text == IF keys \in {"enter", "interrupt"} THEN {} ELSE {IF s18 THEN "secret" ELSE "command"}
  <2>2. s13 \in BOOLEAN /\ s17 \in BOOLEAN /\ s18 \in BOOLEAN /\ s16 \in 0..MaxScript
        /\ s14 \subseteq {"secret", "command"} /\ s15 \subseteq {"secret", "command"}
        /\ s11 \in Passwords!Prompts \cup {"none"} /\ s4 \in Passwords!Prompts \cup {"none"}
    BY <1>0 DEF Passwords!TypeOK
  <2>3. /\ s13' = (s13 /\ ~ends)
        /\ s14' = IF ends THEN {} ELSE IF s13 THEN s14 ELSE s14 \cup text
        /\ \/ ~s13 /\ Passwords!EmitTypedCommand(s14 \cup text)
           \/ UNCHANGED <<s15, s11>>
    BY <2>1 DEF Passwords!CaptureTerminalInput
  <2>4. /\ s15' = s15 \/ (~s13 /\ s15' = s15 \cup s14 \cup text)
        /\ s11' = s11 \/ s11' = "none"
    BY <2>3 DEF Passwords!EmitTypedCommand
  <2>5. ~s13 => "secret" \notin text /\ text \subseteq {"command"}
    BY <1>0 DEF Passwords!SecretsNotCaptured
  <2>6. text \subseteq {"secret", "command"}
    OBVIOUS
  <2>7. s16' \in 0..MaxScript
    BY <2>1, <2>2, PromptAssumption
  <2>8. s17' \in BOOLEAN /\ s18' \in BOOLEAN /\ s13' \in BOOLEAN /\ (s18' => s13')
    <3>1. s18 => s13
      BY <1>0 DEF Passwords!SecretsNotCaptured
    <3>2. CASE ends
      BY <2>1, <2>2, <2>3, <3>2
    <3>3. CASE ~ends
      BY <2>1, <2>2, <2>3, <3>1, <3>3
    <3> QED BY <3>2, <3>3
  <2>9. s7' \in {"manual", "none"} /\ s4' \in {s4, "none"}
    BY <2>1 DEF Passwords!TypeAtPrompt
  <2> HIDE DEF text, ends
  <2>10. s14' \subseteq {"secret", "command"} /\ "secret" \notin s14' /\ s15' \subseteq {"secret", "command"} /\ "secret" \notin s15'
    BY <1>0, <2>2, <2>3, <2>4, <2>5, <2>6 DEF Passwords!SecretsNotCaptured, Passwords!SecretsNotRecorded
  <2>11. Passwords!TypeOK'
    <3>1. s12' \subseteq Passwords!Prompts /\ s1' \in Passwords!CursorLines /\ s2' \in 0..MaxFeeds /\ s10' \in BOOLEAN
          /\ s9' \subseteq [id : 0..MaxChecks, prompt : Passwords!Prompts]
          /\ s3' \in {<<>>} \cup ((0..MaxFeeds) \X Passwords!Prompts)
      BY <1>0, <1>1, <2>1 DEF Passwords!TypeOK, Passwords!NoKey
    <3> QED BY <1>2, <2>2, <2>4, <2>7, <2>8, <2>9, <2>10, <3>1 DEF Passwords!TypeOK, Passwords!NoKey
  <2>12. Passwords!TimerHasLine'
    BY <2>1, <2>2 DEF Passwords!PromptInv, Passwords!TimerHasLine
  <2> QED BY <1>2, <2>8, <2>10, <2>11, <2>12 DEF Passwords!PromptInv, Passwords!SecretsNotCaptured, Passwords!SecretsNotRecorded
<1> QED BY <1>3, <1>4, <1>5

LEMMA PromptNext == Passwords!PromptInv /\ (Passwords!Next \/ UNCHANGED Passwords!vars) => Passwords!PromptInv'
<1> SUFFICES ASSUME Passwords!PromptInv, Passwords!Next \/ UNCHANGED Passwords!vars PROVE Passwords!PromptInv'
  OBVIOUS
<1> USE DEF Passwords!promptVars, Passwords!fillVars, Passwords!captureVars
<1>0. Passwords!TypeOK
  BY DEF Passwords!PromptInv
<1>1. CASE \/ UNCHANGED Passwords!vars \/ Passwords!FillWritten \/ Passwords!FillForgotten
           \/ Passwords!ShellReportsCommand \/ Passwords!LoginScriptTypes
  <2>1. /\ UNCHANGED <<s1, s2, s3, s4, s5, s6, s7, s8, s9, s10, s13, s14, s18>>
        /\ s12' \subseteq s12 /\ s15' \subseteq s15 \cup {"command"}
    BY <1>1 DEF Passwords!vars, Passwords!FillWritten, Passwords!FillForgotten, Passwords!ShellReportsCommand,
       Passwords!LoginScriptTypes
  <2>2. s11' \in Passwords!Prompts \cup {"none"}
    <3>1. s11' \in {s11, "none"} \cup s12
      BY <1>1 DEF Passwords!vars, Passwords!FillWritten, Passwords!FillForgotten, Passwords!ShellReportsCommand,
         Passwords!LoginScriptTypes
    <3> QED BY <1>0, <3>1 DEF Passwords!TypeOK
  <2>3. s16' \in 0..MaxScript /\ s17' \in BOOLEAN /\ Passwords!TimerHasLine'
    <3>1. s16 \in 0..MaxScript /\ s17 \in BOOLEAN /\ (s17 => s16 > 0)
      BY <1>0 DEF Passwords!PromptInv, Passwords!TypeOK, Passwords!TimerHasLine
    <3>2. \/ s16' = s16 /\ s17' = s17
          \/ s17 /\ s17' = FALSE /\ s16' \in {s16, s16 - 1}
      BY <1>1 DEF Passwords!vars, Passwords!FillWritten, Passwords!FillForgotten, Passwords!ShellReportsCommand,
         Passwords!LoginScriptTypes
    <3>3. s16 > 0 => s16 - 1 \in 0..MaxScript
      BY <3>1, PromptAssumption
    <3>4. CASE s16' = s16 /\ s17' = s17
      BY <3>1, <3>4 DEF Passwords!TimerHasLine
    <3>5. CASE s17 /\ s17' = FALSE /\ s16' \in {s16, s16 - 1}
      <4>1. s16 > 0
        BY <3>1, <3>5
      <4>2. s16' \in 0..MaxScript
        BY <3>1, <3>3, <3>5, <4>1
      <4> QED BY <3>5, <4>2 DEF Passwords!TimerHasLine
    <3> QED BY <3>2, <3>4, <3>5
  <2>4. Passwords!TypeOK'
    BY <1>0, <2>1, <2>2, <2>3 DEF Passwords!TypeOK
  <2> QED BY <2>1, <2>3, <2>4 DEF Passwords!PromptInv, Passwords!KeyOfLine, Passwords!LookupsAreForThePrompt,
             Passwords!OfferIsForThePrompt, Passwords!SecretsNotCaptured, Passwords!SecretsNotRecorded
<1> QED BY <1>1, PromptOutput, PromptLookup, PromptAnswered DEF Passwords!Next

LEMMA PromptsAreFollowed == AllSpec => [](part = "prompts" => Passwords!PromptInv)
<1> DEFINE I == part = "prompts" => Passwords!PromptInv
<1>1. AllInit => I
  BY PromptInit DEF AllInit
<1>2. I /\ [AllNext]_allVars => I'
  <2> SUFFICES ASSUME I, [AllNext]_allVars, part' = "prompts" PROVE Passwords!PromptInv'
    OBVIOUS
  <2>1. part = "prompts" /\ (Passwords!Next \/ UNCHANGED Passwords!vars)
    BY DEF AllNext, allVars, slots, Passwords!vars, Passwords!promptVars, Passwords!fillVars, Passwords!captureVars
  <2> QED BY <2>1, PromptNext
<1> QED BY <1>1, <1>2, PTL DEF AllSpec

\* The password offered is the one of the prompt on the screen, however late it was found.
THEOREM OffersAreForThePrompt == AllSpec => []OfferIsForThePrompt
<1>1. (part = "prompts" => Passwords!PromptInv) => OfferIsForThePrompt
  BY DEF OfferIsForThePrompt, Passwords!PromptInv
<1> QED BY <1>1, PromptsAreFollowed, PTL

\* What is typed at a prompt that waits for a password is not recorded.
THEOREM NoSecretIsRecorded == AllSpec => [](part = "prompts" => Passwords!SecretsNotRecorded)
<1>1. (part = "prompts" => Passwords!PromptInv) => (part = "prompts" => Passwords!SecretsNotRecorded)
  BY DEF Passwords!PromptInv
<1> QED BY <1>1, PromptsAreFollowed, PTL

-----------------------------------------------------------------------------
(* The compose bar asks, and agents are announced, in time.                *)

LEMMA BarInit == Runs!Init => Runs!BarTellsGuards
BY DEF Runs!Init, Runs!BarTellsGuards

\* Only a run listens for prompts.
LEMMA RunListens ==
    ASSUME NEW r, Runs!Apply(r)
    PROVE  s9' => s8' # Runs!NoRun
<1>1. Runs!NoRun.phase = "none"
  BY DEF Runs!NoRun
<1>2. s8' = r /\ s9' = (r.phase \in {"running", "failed"})
  BY DEF Runs!Apply
<1> QED BY <1>1, <1>2

LEMMA BarNext ==
    Runs!BarTellsGuards /\ (Runs!Next \/ UNCHANGED Runs!vars) => Runs!BarTellsGuards' /\ Runs!GuardedAsksFirst
<1> SUFFICES ASSUME Runs!BarTellsGuards, Runs!Next \/ UNCHANGED Runs!vars
             PROVE  Runs!BarTellsGuards' /\ Runs!GuardedAsksFirst
  OBVIOUS
<1> USE DEF Runs!BarTellsGuards, Runs!GuardedAsksFirst
<1>1. CASE UNCHANGED Runs!vars \/ Runs!ShellReads \/ Runs!ShellEnds \/ Runs!PressEnter
  <2>1. UNCHANGED <<s8, s9, s11>>
    BY <1>1 DEF Runs!vars, Runs!ShellReads, Runs!ShellEnds, Runs!PressEnter
  <2> QED BY <2>1
<1>2. CASE Runs!HandleMark
  <2>1. UNCHANGED s11
    BY <1>2 DEF Runs!HandleMark
  <2>2. UNCHANGED <<s8, s9>> \/ (s9 /\ \E r : Runs!Apply(r))
    BY <1>2 DEF Runs!HandleMark
  <2> QED BY <2>1, <2>2, RunListens
<1>3. CASE Runs!InsertIntoComposer
  <2>1. UNCHANGED <<s8, s9>>
    BY <1>3 DEF Runs!InsertIntoComposer
  <2>2. PICK asks \in BOOLEAN :
            s11' = [s11 EXCEPT !.text = TRUE, !.guarded = (@ \/ asks), !.agreed = ~(s11.guarded \/ asks)]
    BY <1>3 DEF Runs!InsertIntoComposer
  <2>3. s11' \in [text : BOOLEAN, guarded : BOOLEAN, asks : BOOLEAN, agreed : BOOLEAN]
        /\ s11'.guarded = (s11.guarded \/ asks) /\ s11'.agreed = ~(s11.guarded \/ asks)
    BY <2>2
  <2>4. s11'.guarded \/ s11'.agreed
    BY <2>3
  <2> QED BY <2>1, <2>3, <2>4
<1>4. ASSUME Runs!StartComposerRun PROVE Runs!BarTellsGuards'
  <2>1. s11' = [text |-> FALSE, guarded |-> FALSE, asks |-> FALSE, agreed |-> TRUE]
    BY <1>4 DEF Runs!StartComposerRun, Runs!EmptiedBar
  <2>2. s9' => s8' # Runs!NoRun
    BY <1>4, RunListens DEF Runs!StartComposerRun
  <2> QED BY <2>1, <2>2
<1>5. CASE Runs!ClearComposer
  BY <1>5 DEF Runs!ClearComposer, Runs!EmptiedBar
<1>6. CASE Runs!Submit
  <2>1. CASE s11.guarded /\ s11' = [s11 EXCEPT !.asks = TRUE] /\ UNCHANGED <<s8, s9>>
    <3>1. s11' \in [text : BOOLEAN, guarded : BOOLEAN, asks : BOOLEAN, agreed : BOOLEAN]
          /\ s11'.guarded = s11.guarded /\ s11'.agreed = s11.agreed
      BY <2>1
    <3> QED BY <2>1, <3>1
  <2>2. CASE ~s11.guarded /\ Runs!StartComposerRun
    BY <1>4, <2>2
  <2> QED BY <1>6, <2>1, <2>2 DEF Runs!Submit
<1>7. CASE Runs!AnswerConfirm
  <2>1. CASE s11' = [s11 EXCEPT !.asks = FALSE] /\ UNCHANGED <<s8, s9>>
    <3>1. s11' \in [text : BOOLEAN, guarded : BOOLEAN, asks : BOOLEAN, agreed : BOOLEAN]
          /\ s11'.guarded = s11.guarded /\ s11'.agreed = s11.agreed
      BY <2>1
    <3> QED BY <2>1, <3>1
  <2>2. CASE Runs!StartComposerRun
    BY <1>4, <1>7, <2>2 DEF Runs!AnswerConfirm
  <2> QED BY <1>7, <2>1, <2>2 DEF Runs!AnswerConfirm
<1>8. CASE Runs!RunButtons
  <2>1. UNCHANGED s11 /\ \E r : Runs!Apply(r)
    BY <1>8 DEF Runs!RunButtons
  <2>2. s8 # Runs!NoRun
    BY <1>8 DEF Runs!RunButtons, Runs!IsRunActive, Runs!NoRun
  <2> QED BY <2>1, <2>2, RunListens
<1> QED BY <1>1, <1>2, <1>3, <1>5, <1>6, <1>7, <1>8 DEF Runs!Next

LEMMA WaitInit == Agent!Init => Agent!TimedWaitIsShown
BY DEF Agent!Init, Agent!TimedWaitIsShown

\* What a report does to its terminal.
LEMMA ReportShowsWait ==
    ASSUME Agent!TimedWaitIsShown, NEW t \in Terminals, NEW agent \in Agents, NEW state \in Agent!States,
           Agent!TakeReport(t, agent, state)
    PROVE  Agent!TimedWaitIsShown' /\ s8'.state # "waiting"
<1>1. CASE state = "ended"
  BY <1>1 DEF Agent!TakeReport, Agent!Reset, Agent!CancelWait, Agent!Silence, Agent!TimedWaitIsShown
<1>2. CASE state # "ended"
  <2>1. s4' = [s4 EXCEPT ![t] = IF state = "waiting" THEN agent ELSE "none"]
        /\ s1' = [s1 EXCEPT ![t] = IF state \in {"processing", "waiting"}
                     THEN [agent |-> agent, activity |-> state] ELSE Agent!None]
    BY <1>2 DEF Agent!TakeReport
  <2>2. Agent!TimedWaitIsShown'
    BY <2>1 DEF Agent!TimedWaitIsShown
  <2>3. s8'.state # "waiting"
    BY <1>2 DEF Agent!TakeReport, Agent!Says, Agent!Silence
  <2> QED BY <2>2, <2>3
<1> QED BY <1>1, <1>2

LEMMA WaitNext ==
    Agent!TimedWaitIsShown /\ Agent!Next => Agent!TimedWaitIsShown' /\ Agent!AnnouncedWaitsLast
<1> SUFFICES ASSUME Agent!TimedWaitIsShown, Agent!Next PROVE Agent!TimedWaitIsShown' /\ Agent!AnnouncedWaitsLast
  OBVIOUS
<1>0. PICK t \in Terminals :
        \/ \E agent \in Agents, state \in Agent!States : Agent!TakeReport(t, agent, state)
        \/ Agent!WaitOver(t) \/ Agent!Interrupt(t)
        \/ \E enter \in BOOLEAN : Agent!Typed(t, enter)
        \/ Agent!ClaimWindowOver(t) \/ Agent!EchoWindowOver(t) \/ Agent!PromptBack(t) \/ Agent!Notifies(t)
        \/ \E id \in ChunkIds, last \in BOOLEAN : Agent!NotifiesInChunks(t, id, last)
  BY DEF Agent!Next, Agent!Report, Agent!SessionReport
<1>1. CASE \E agent \in Agents, state \in Agent!States : Agent!TakeReport(t, agent, state)
  BY <1>1, ReportShowsWait DEF Agent!AnnouncedWaitsLast
<1>2. CASE Agent!WaitOver(t)
  <2>1. s4[t] # "none" /\ s8' = [from |-> t, agent |-> s4[t], state |-> "waiting"]
        /\ s4' = [s4 EXCEPT ![t] = "none"] /\ UNCHANGED s1
    BY <1>2 DEF Agent!WaitOver, Agent!Says, Agent!CancelWait
  <2> QED BY <2>1 DEF Agent!TimedWaitIsShown, Agent!AnnouncedWaitsLast
<1>3. CASE Agent!Interrupt(t) \/ Agent!PromptBack(t)
  <2>1. s4' = [s4 EXCEPT ![t] = "none"] /\ s1' = [s1 EXCEPT ![t] = Agent!None] /\ s8'.state = "none"
    BY <1>3 DEF Agent!Interrupt, Agent!PromptBack, Agent!Reset, Agent!CancelWait, Agent!Silence
  <2> QED BY <2>1 DEF Agent!TimedWaitIsShown, Agent!AnnouncedWaitsLast
<1>4. CASE \E enter \in BOOLEAN : Agent!Typed(t, enter)
  <2>1. Agent!AnswerAgent(t) /\ s8'.state = "none"
    BY <1>4 DEF Agent!Typed, Agent!Silence
  <2>2. CASE Agent!Answering(t)
    <3>1. s4' = [s4 EXCEPT ![t] = "none"] /\ s1' = [s1 EXCEPT ![t].activity = "processing"]
      BY <2>1, <2>2 DEF Agent!AnswerAgent, Agent!CancelWait
    <3> QED BY <2>1, <3>1 DEF Agent!TimedWaitIsShown, Agent!AnnouncedWaitsLast
  <2>3. CASE ~Agent!Answering(t)
    BY <2>1, <2>3 DEF Agent!AnswerAgent, Agent!TimedWaitIsShown, Agent!AnnouncedWaitsLast
  <2> QED BY <2>2, <2>3
<1>5. CASE \/ Agent!ClaimWindowOver(t) \/ Agent!EchoWindowOver(t) \/ Agent!Notifies(t)
           \/ \E id \in ChunkIds, last \in BOOLEAN : Agent!NotifiesInChunks(t, id, last)
  <2>1. UNCHANGED <<s1, s4>>
    BY <1>5 DEF Agent!ClaimWindowOver, Agent!EchoWindowOver, Agent!Notifies, Agent!NotifiesInChunks
  <2>2. s8' = [from |-> "none", agent |-> "none", state |-> "none"] \/ s8' = [from |-> t, agent |-> "none", state |-> "request"]
    BY <1>5 DEF Agent!ClaimWindowOver, Agent!EchoWindowOver, Agent!Notifies, Agent!NotifiesInChunks, Agent!Says,
       Agent!Silence
  <2> QED BY <2>1, <2>2 DEF Agent!TimedWaitIsShown, Agent!AnnouncedWaitsLast
<1> QED BY <1>0, <1>1, <1>2, <1>3, <1>4, <1>5

\* No saved command that asks runs unasked, and no wait is announced that is over.
THEOREM AskedAndAnnouncedInTime == AllSpec => AsksAndAnnouncesInTime
<1> DEFINE I == /\ part = "runs" => Runs!BarTellsGuards
                /\ part = "agents" => Agent!TimedWaitIsShown
           A == /\ part = "runs" => Runs!GuardedAsksFirst
                /\ part = "agents" => Agent!AnnouncedWaitsLast
<1>1. AllInit => I
  BY BarInit, WaitInit DEF AllInit
<1>2. I /\ [AllNext]_allVars => I' /\ [A]_allVars
  <2> SUFFICES ASSUME I, [AllNext]_allVars PROVE I' /\ [A]_allVars
    OBVIOUS
  <2>1. CASE UNCHANGED allVars
    BY <2>1 DEF allVars, slots, Runs!BarTellsGuards, Agent!TimedWaitIsShown, Runs!NoRun
  <2>2. CASE AllNext /\ part' = "runs"
    <3>1. part = "runs" /\ (Runs!Next \/ UNCHANGED Runs!vars)
      BY <2>2 DEF AllNext
    <3> QED BY <2>2, <3>1, BarNext
  <2>3. CASE AllNext /\ part' = "agents"
    <3>1. part = "agents" /\ Agent!Next
      BY <2>3 DEF AllNext
    <3> QED BY <2>3, <3>1, WaitNext
  <2>4. CASE AllNext /\ part' \notin {"runs", "agents"}
    <3>1. part \notin {"runs", "agents"}
      BY <2>4 DEF AllNext
    <3> QED BY <2>4, <3>1
  <2> QED BY <2>1, <2>2, <2>3, <2>4
<1>3. [][A]_allVars => AsksAndAnnouncesInTime
  BY PTL DEF AsksAndAnnouncesInTime
<1> QED BY <1>1, <1>2, <1>3, PTL DEF AllSpec

-----------------------------------------------------------------------------
(* The compose bar's run.                                                  *)

LEMMA TurnInit == Runs!Init => Runs!TurnInv
<1> SUFFICES ASSUME Runs!Init PROVE Runs!TurnInv
  OBVIOUS
<1>1. /\ s1 = <<>> /\ s2 = 0 /\ s3 = "ok" /\ s4 = <<>> /\ s5 = [k \in 1..Lines |-> "none"] /\ s6 = 0
      /\ s9 = FALSE /\ s10 = FALSE
      /\ s8 = [phase |-> "none", current |-> 0, status |-> [k \in 1..Lines |-> "pending"]]
  BY DEF Runs!Init, Runs!NoRun
<1>2. s7 = [sendsOutput |-> TRUE, running |-> FALSE, outputSince |-> FALSE, statusSince |-> "unknown",
            entry |-> [output |-> "none", end |-> FALSE, exitCode |-> "unknown"]]
  BY DEF Runs!Init, Runs!NoEntry
<1>3. s7 \in Runs!TrackerStates
  BY <1>2 DEF Runs!TrackerStates
<1>4. s8 \in Runs!RunStates
  <2>1. 0 \in 0..Lines
    BY RunAssumption
  <2>2. [k \in 1..Lines |-> "pending"] \in [1..Lines -> {"pending", "running", "succeeded", "failed", "unfinished"}]
    OBVIOUS
  <2> QED BY <1>1, <2>1, <2>2 DEF Runs!RunStates
<1>5. s2 \in 0..Lines /\ s6 \in 0..MaxSends /\ s1 \in Seq(0..Lines) /\ s4 \in Seq({"A", "C"} \cup Runs!Statuses)
  BY <1>1, RunAssumption
<1>6. Runs!TypeOK
  BY <1>1, <1>3, <1>4, <1>5 DEF Runs!TypeOK, Runs!Statuses
<1>7. Runs!MarksInOrder
  BY <1>1, <1>2 DEF Runs!MarksInOrder
<1>8. Runs!RunsOneCommand
  BY <1>1, <1>2 DEF Runs!RunsOneCommand
<1>9. Runs!SucceededIsOver /\ Runs!LineGoesAfterLine
  BY <1>1 DEF Runs!SucceededIsOver, Runs!LineGoesAfterLine
<1> QED BY <1>6, <1>7, <1>8, <1>9 DEF Runs!TurnInv

\* Which sequences are empty.
LEMMA EmptyIsShort == ASSUME NEW S, NEW q \in Seq(S) PROVE q = <<>> <=> Len(q) = 0
OBVIOUS

\* What the marks do to the tracker.
LEMMA TrackerSteps ==
    ASSUME NEW t \in Runs!TrackerStates, NEW status \in Runs!Statuses
    PROVE  /\ Runs!StartOutput(t) \in Runs!TrackerStates
           /\ Runs!StartOutput(t).sendsOutput = TRUE /\ Runs!StartOutput(t).outputSince = TRUE
           /\ Runs!StartOutput(t).entry.end = t.entry.end
           /\ Runs!StartOutput(t).entry.output = IF ~t.entry.end THEN "mark" ELSE t.entry.output
           /\ Runs!FinishCommand(t, status) \in Runs!TrackerStates
           /\ Runs!FinishCommand(t, status).sendsOutput = t.sendsOutput
           /\ Runs!FinishCommand(t, status).outputSince = t.outputSince
           /\ Runs!FinishCommand(t, status).entry.end = TRUE
           /\ Runs!FinishCommand(t, status).entry.output = t.entry.output
           /\ Runs!FinishCommand(t, status).entry.exitCode =
                IF ~t.entry.end /\ t.entry.output # "none" THEN status ELSE t.entry.exitCode
           /\ Runs!StartPrompt(t) \in Runs!TrackerStates
           /\ Runs!StartPrompt(t).sendsOutput = t.sendsOutput /\ Runs!StartPrompt(t).outputSince = FALSE
           /\ Runs!StartPrompt(t).entry = [output |-> "none", end |-> FALSE, exitCode |-> "unknown"]
<1> DEFINE E == [output : {"none", "mark", "enter"}, end : BOOLEAN, exitCode : Runs!Statuses \cup {"unknown"}]
           started == [t.entry EXCEPT !.output = IF t.entry.end THEN t.entry.output ELSE "mark"]
           ended == [t.entry EXCEPT !.end = TRUE,
                         !.exitCode = IF t.entry.end \/ t.entry.output = "none"
                                      THEN t.entry.exitCode ELSE status]
<1>1. t.entry \in E
  BY DEF Runs!TrackerStates
<1>2. /\ started \in E /\ started.end = t.entry.end
      /\ started.output = IF ~t.entry.end THEN "mark" ELSE t.entry.output
  BY <1>1
<1>3. /\ ended \in E /\ ended.end = TRUE /\ ended.output = t.entry.output
      /\ ended.exitCode = IF ~t.entry.end /\ t.entry.output # "none" THEN status ELSE t.entry.exitCode
  BY <1>1
<1>4. Runs!NoEntry \in E /\ Runs!NoEntry = [output |-> "none", end |-> FALSE, exitCode |-> "unknown"]
  BY DEF Runs!NoEntry
<1>5. /\ Runs!StartOutput(t) = [t EXCEPT !.sendsOutput = TRUE, !.outputSince = TRUE, !.running = TRUE,
                                         !.entry = started]
      /\ Runs!FinishCommand(t, status) = [t EXCEPT !.running = FALSE, !.statusSince = status, !.entry = ended]
      /\ Runs!StartPrompt(t) = [t EXCEPT !.running = FALSE, !.outputSince = FALSE, !.statusSince = "unknown",
                                         !.entry = Runs!NoEntry]
  BY DEF Runs!StartOutput, Runs!FinishCommand, Runs!StartPrompt
<1>6. \A n \in E :
        /\ [t EXCEPT !.sendsOutput = TRUE, !.outputSince = TRUE, !.running = TRUE, !.entry = n] \in Runs!TrackerStates
        /\ [t EXCEPT !.running = FALSE, !.statusSince = status, !.entry = n] \in Runs!TrackerStates
        /\ [t EXCEPT !.running = FALSE, !.outputSince = FALSE, !.statusSince = "unknown", !.entry = n] \in Runs!TrackerStates
  BY DEF Runs!TrackerStates
<1>7. /\ Runs!StartOutput(t).sendsOutput = TRUE /\ Runs!StartOutput(t).outputSince = TRUE
      /\ Runs!StartOutput(t).entry = started
      /\ Runs!FinishCommand(t, status).sendsOutput = t.sendsOutput
      /\ Runs!FinishCommand(t, status).outputSince = t.outputSince
      /\ Runs!FinishCommand(t, status).entry = ended
      /\ Runs!StartPrompt(t).sendsOutput = t.sendsOutput /\ Runs!StartPrompt(t).outputSince = FALSE
      /\ Runs!StartPrompt(t).entry = Runs!NoEntry
  <2> HIDE DEF started, ended
  <2> QED BY <1>5 DEF Runs!TrackerStates
<1> HIDE DEF started, ended, E
<1>8. Runs!StartOutput(t) \in Runs!TrackerStates
  BY <1>2, <1>5, <1>6
<1>9. Runs!FinishCommand(t, status) \in Runs!TrackerStates
  BY <1>3, <1>5, <1>6
<1>10. Runs!StartPrompt(t) \in Runs!TrackerStates
  BY <1>4, <1>5, <1>6
<1> QED BY <1>2, <1>3, <1>4, <1>7, <1>8, <1>9, <1>10

LEMMA FinishSteps ==
    ASSUME NEW t \in Runs!TrackerStates, NEW status \in Runs!Statuses
    PROVE  /\ Runs!FinishCommand(t, status) \in Runs!TrackerStates
           /\ Runs!FinishCommand(t, status).sendsOutput = t.sendsOutput
           /\ Runs!FinishCommand(t, status).outputSince = t.outputSince
           /\ Runs!FinishCommand(t, status).entry.end = TRUE
           /\ Runs!FinishCommand(t, status).entry.output = t.entry.output
           /\ Runs!FinishCommand(t, status).entry.exitCode =
                IF ~t.entry.end /\ t.entry.output # "none" THEN status ELSE t.entry.exitCode
<1> DEFINE E == [output : {"none", "mark", "enter"}, end : BOOLEAN, exitCode : Runs!Statuses \cup {"unknown"}]
           ended == [t.entry EXCEPT !.end = TRUE,
                         !.exitCode = IF t.entry.end \/ t.entry.output = "none"
                                      THEN t.entry.exitCode ELSE status]
<1>1. t.entry \in E
  BY DEF Runs!TrackerStates
<1>2. /\ ended \in E /\ ended.end = TRUE /\ ended.output = t.entry.output
      /\ ended.exitCode = IF ~t.entry.end /\ t.entry.output # "none" THEN status ELSE t.entry.exitCode
  BY <1>1
<1>3. Runs!FinishCommand(t, status) = [t EXCEPT !.running = FALSE, !.statusSince = status, !.entry = ended]
  BY DEF Runs!FinishCommand
<1>4. \A n \in E : [t EXCEPT !.running = FALSE, !.statusSince = status, !.entry = n] \in Runs!TrackerStates
  BY DEF Runs!TrackerStates
<1> HIDE DEF ended
<1>5. /\ Runs!FinishCommand(t, status).sendsOutput = t.sendsOutput
      /\ Runs!FinishCommand(t, status).outputSince = t.outputSince
      /\ Runs!FinishCommand(t, status).entry = ended
  BY <1>3 DEF Runs!TrackerStates
<1> HIDE DEF E
<1>6. Runs!FinishCommand(t, status) \in Runs!TrackerStates
  BY <1>2, <1>3, <1>4
<1> QED BY <1>2, <1>5, <1>6

\* A tracker that has heard a C mark takes no Enter for a start.
LEMMA EnterStartsNothing ==
    ASSUME NEW t, t.sendsOutput = TRUE
    PROVE  Runs!HandleEnter(t) = t /\ Runs!AfterInput(t) = t
BY DEF Runs!HandleEnter, Runs!AfterInput

\* The shell writes a C mark.
LEMMA OrderStarts ==
    ASSUME Runs!TypeOK, Runs!MarksInOrder, s2 = 0, s2' > 0, s4' = Append(s4, "C"), UNCHANGED s7
    PROVE  Runs!MarksInOrder'
<1>1. s4 \in Seq({"A", "C"} \cup {"ok", "bad"})
  BY DEF Runs!TypeOK, Runs!Statuses
<1>2. /\ Len(s4') = Len(s4) + 1 /\ s4'[Len(s4) + 1] = "C" /\ Len(s4) \in Nat
      /\ \A i \in 1..Len(s4) : s4'[i] = s4[i]
  BY <1>1
<1>3. \A i \in 1..Len(s4) : i = Len(s4) => s4[i] = "A"
  BY <1>1, <1>2 DEF Runs!MarksInOrder, Runs!Statuses
<1>4. \A i \in 1..Len(s4') :
          /\ s4'[i] \in Runs!Statuses => i < Len(s4') /\ s4'[i+1] = "A"
          /\ s4'[i] = "C" => IF i = Len(s4') THEN s2' > 0 ELSE s4'[i+1] \in Runs!Statuses
          /\ s4'[i] = "A" /\ i < Len(s4') => s4'[i+1] # "A"
  <2> SUFFICES ASSUME NEW i \in 1..Len(s4')
               PROVE  /\ s4'[i] \in Runs!Statuses => i < Len(s4') /\ s4'[i+1] = "A"
                      /\ s4'[i] = "C" => IF i = Len(s4') THEN s2' > 0 ELSE s4'[i+1] \in Runs!Statuses
                      /\ s4'[i] = "A" /\ i < Len(s4') => s4'[i+1] # "A"
    OBVIOUS
  <2>1. CASE i = Len(s4')
    BY <1>2, <2>1 DEF Runs!Statuses
  <2>2. CASE i = Len(s4) /\ i > 0
    BY <1>2, <1>3, <2>2 DEF Runs!Statuses
  <2>3. CASE i < Len(s4)
    <3>1. i \in 1..Len(s4) /\ i + 1 \in 1..Len(s4)
      BY <1>2, <2>3
    <3> QED BY <1>2, <2>3, <3>1 DEF Runs!MarksInOrder
  <2> QED BY <1>2, <2>1, <2>2, <2>3
<1>5. s4 = <<>> => s7.outputSince = FALSE /\ s4' # <<>> /\ s4'[1] = "C"
  BY <1>1, <1>2 DEF Runs!MarksInOrder, Runs!TypeOK, Runs!TrackerStates
<1>6. s4 # <<>> => s4' # <<>> /\ s4'[1] = s4[1]
  BY <1>1, <1>2
<1> QED BY <1>2, <1>4, <1>5, <1>6 DEF Runs!MarksInOrder

\* The shell comes back to its prompt.
LEMMA OrderEnds ==
    ASSUME Runs!TypeOK, Runs!MarksInOrder, NEW status \in Runs!Statuses,
           s2' = 0, s4' = s4 \o <<status, "A">>, UNCHANGED s7
    PROVE  Runs!MarksInOrder'
<1>1. s4 \in Seq({"A", "C"} \cup {"ok", "bad"})
  BY DEF Runs!TypeOK, Runs!Statuses
<1>2. /\ Len(s4') = Len(s4) + 2 /\ s4'[Len(s4) + 1] = status /\ s4'[Len(s4) + 2] = "A" /\ Len(s4) \in Nat
      /\ \A i \in 1..Len(s4) : s4'[i] = s4[i]
  BY <1>1
<1>3. \A i \in 1..Len(s4) : i = Len(s4) => s4[i] \in {"A", "C"}
  BY SMTT(20), <1>1, <1>2 DEF Runs!MarksInOrder, Runs!Statuses
<1>4. \A i \in 1..Len(s4') :
          /\ s4'[i] \in Runs!Statuses => i < Len(s4') /\ s4'[i+1] = "A"
          /\ s4'[i] = "C" => IF i = Len(s4') THEN s2' > 0 ELSE s4'[i+1] \in Runs!Statuses
          /\ s4'[i] = "A" /\ i < Len(s4') => s4'[i+1] # "A"
  <2> SUFFICES ASSUME NEW i \in 1..Len(s4')
               PROVE  /\ s4'[i] \in Runs!Statuses => i < Len(s4') /\ s4'[i+1] = "A"
                      /\ s4'[i] = "C" => IF i = Len(s4') THEN s2' > 0 ELSE s4'[i+1] \in Runs!Statuses
                      /\ s4'[i] = "A" /\ i < Len(s4') => s4'[i+1] # "A"
    OBVIOUS
  <2>1. CASE i = Len(s4) + 2
    BY <1>2, <2>1 DEF Runs!Statuses
  <2>2. CASE i = Len(s4) + 1
    BY <1>2, <2>2 DEF Runs!Statuses
  <2>3. CASE i = Len(s4) /\ i > 0
    BY <1>2, <1>3, <2>3 DEF Runs!Statuses
  <2>4. CASE i < Len(s4)
    <3>1. i \in 1..Len(s4) /\ i + 1 \in 1..Len(s4)
      BY <1>2, <2>4
    <3> QED BY <1>2, <2>4, <3>1 DEF Runs!MarksInOrder
  <2> QED BY <1>2, <2>1, <2>2, <2>3, <2>4
<1>5. s4 = <<>> => s4' # <<>> /\ s4'[1] = status /\ status # "A"
  BY <1>1, <1>2 DEF Runs!Statuses
<1>6. s4 # <<>> => s4' # <<>> /\ s4'[1] = s4[1]
  BY <1>1, <1>2
<1> QED BY <1>2, <1>4, <1>5, <1>6 DEF Runs!MarksInOrder

\* A mark is read.
LEMMA OrderRead ==
    ASSUME Runs!TypeOK, Runs!MarksInOrder, s4 # <<>>, s4' = Tail(s4), UNCHANGED s2,
           \/ s4[1] = "C" /\ s7' = Runs!StartOutput(s7)
           \/ s4[1] \in Runs!Statuses /\ s7' = Runs!FinishCommand(s7, s4[1])
           \/ s4[1] = "A" /\ s7' = Runs!StartPrompt(s7)
    PROVE  Runs!MarksInOrder' /\ s7' \in Runs!TrackerStates
<1>1. s4 \in Seq({"A", "C"} \cup {"ok", "bad"}) /\ s7 \in Runs!TrackerStates
  BY DEF Runs!TypeOK, Runs!Statuses
<1>2. /\ Len(s4') = Len(s4) - 1 /\ Len(s4) \in Nat /\ Len(s4) > 0
      /\ \A i \in 1..Len(s4') : s4'[i] = s4[i+1]
  BY <1>1
<1>3. \A i \in 1..Len(s4') :
          /\ s4'[i] \in Runs!Statuses => i < Len(s4') /\ s4'[i+1] = "A"
          /\ s4'[i] = "C" => IF i = Len(s4') THEN s2' > 0 ELSE s4'[i+1] \in Runs!Statuses
          /\ s4'[i] = "A" /\ i < Len(s4') => s4'[i+1] # "A"
  <2> SUFFICES ASSUME NEW i \in 1..Len(s4')
               PROVE  /\ s4'[i] \in Runs!Statuses => i < Len(s4') /\ s4'[i+1] = "A"
                      /\ s4'[i] = "C" => IF i = Len(s4') THEN s2' > 0 ELSE s4'[i+1] \in Runs!Statuses
                      /\ s4'[i] = "A" /\ i < Len(s4') => s4'[i+1] # "A"
    OBVIOUS
  <2>1. i + 1 \in 1..Len(s4) /\ s4'[i] = s4[i+1]
        /\ (i < Len(s4') => s4'[i+1] = s4[i+1+1]) /\ (i < Len(s4') <=> i + 1 < Len(s4)) /\ (i = Len(s4') <=> i + 1 = Len(s4))
    BY <1>2
  <2>2. /\ s4[i+1] \in Runs!Statuses => i + 1 < Len(s4) /\ s4[i+1+1] = "A"
        /\ s4[i+1] = "C" => IF i + 1 = Len(s4) THEN s2 > 0 ELSE s4[i+1+1] \in Runs!Statuses
        /\ s4[i+1] = "A" /\ i + 1 < Len(s4) => s4[i+1+1] # "A"
    BY <2>1 DEF Runs!MarksInOrder
  <2> QED BY <2>1, <2>2
<1>4. 1 \in 1..Len(s4) /\ (s4' = <<>> <=> Len(s4) = 1) /\ (s4' # <<>> => s4'[1] = s4[2] /\ s4'[Len(s4')] = s4[Len(s4)])
  <2>1. s4' \in Seq({"A", "C"} \cup {"ok", "bad"})
    <3>1. \A S, q : q \in Seq(S) /\ q # <<>> => Tail(q) \in Seq(S)
      OBVIOUS
    <3> QED BY <1>1, <3>1
  <2>2. s4' = <<>> <=> Len(s4') = 0
    BY <2>1, EmptyIsShort
  <2>3. Len(s4') # 0 => Len(s4') \in 1..Len(s4') /\ 1 \in 1..Len(s4') /\ Len(s4') + 1 = Len(s4) /\ 1 + 1 = 2
    BY <1>2
  <2> QED BY <1>2, <2>2, <2>3
<1>5. /\ s4[1] \in Runs!Statuses => Len(s4) > 1 /\ s4[2] = "A"
      /\ s4[1] = "C" => IF Len(s4) = 1 THEN s2 > 0 ELSE s4[2] \in Runs!Statuses
      /\ s4[1] = "A" /\ Len(s4) > 1 => s4[2] # "A"
  <2>1. 1 + 1 = 2 /\ (1 < Len(s4) <=> Len(s4) > 1) /\ (1 = Len(s4) <=> Len(s4) = 1)
    BY <1>2
  <2> QED BY <1>4, <2>1 DEF Runs!MarksInOrder
<1>6. s2 > 0 => s4[Len(s4)] = "C"
  BY DEF Runs!MarksInOrder
<1>7. CASE s4[1] = "C" /\ s7' = Runs!StartOutput(s7)
  <2>1. s7.entry.end = FALSE
    BY <1>1, <1>7 DEF Runs!MarksInOrder, Runs!TrackerStates
  <2>2. s7' \in Runs!TrackerStates /\ s7'.sendsOutput = TRUE /\ s7'.outputSince = TRUE /\ s7'.entry.end = FALSE /\ s7'.entry.output = "mark"
    BY <1>1, <1>7, <2>1, TrackerSteps DEF Runs!Statuses
  <2> QED BY <1>3, <1>4, <1>5, <1>6, <1>7, <2>2 DEF Runs!MarksInOrder, Runs!Statuses
<1>8. CASE s4[1] \in Runs!Statuses /\ s7' = Runs!FinishCommand(s7, s4[1])
  <2>1. /\ s7' \in Runs!TrackerStates /\ s7'.sendsOutput = s7.sendsOutput /\ s7'.outputSince = s7.outputSince
        /\ s7'.entry.end = TRUE /\ s7'.entry.output = s7.entry.output
    BY ZenonT(40), <1>1, <1>8, FinishSteps
  <2> QED BY <1>3, <1>4, <1>5, <1>6, <1>8, <2>1 DEF Runs!MarksInOrder
<1>9. CASE s4[1] = "A" /\ s7' = Runs!StartPrompt(s7)
  <2>1. /\ s7' \in Runs!TrackerStates /\ s7'.sendsOutput = s7.sendsOutput /\ s7'.outputSince = FALSE
        /\ s7'.entry.end = FALSE /\ s7'.entry.output = "none"
    <3>1. "ok" \in Runs!Statuses
      BY DEF Runs!Statuses
    <3>2. s7' \in Runs!TrackerStates /\ s7'.sendsOutput = s7.sendsOutput /\ s7'.outputSince = FALSE
          /\ s7'.entry = [output |-> "none", end |-> FALSE, exitCode |-> "unknown"]
      BY <1>1, <1>9, <3>1, TrackerSteps
    <3> QED BY <3>2
  <2>2. s4' = <<>> => s2 = 0 \/ ~(s2 > 0)
    BY <1>4, <1>6, <1>9
  <2> QED BY <1>3, <1>4, <1>5, <1>6, <1>9, <2>1, <2>2 DEF Runs!MarksInOrder
<1> QED BY <1>7, <1>8, <1>9

\* The next line to run, or the end of the run.
LEMMA RunFromIs ==
    ASSUME NEW r \in Runs!RunStates, NEW k \in 0..(Lines + 1)
    PROVE  /\ Runs!RunFrom(r, k) \in Runs!RunStates
           /\ k > Lines => Runs!RunFrom(r, k).phase = "done" /\ Runs!RunFrom(r, k).status = r.status
           /\ k \in 1..Lines => /\ Runs!RunFrom(r, k).phase = "running" /\ Runs!RunFrom(r, k).current = k
                                /\ Runs!RunFrom(r, k).status = [r.status EXCEPT ![k] = "running"]
<1> DEFINE W == {"pending", "running", "succeeded", "failed", "unfinished"}
           P == {"none", "running", "failed", "done", "stopped"}
<1>0. Runs!RunStates = [phase : P, current : 0..Lines, status : [1..Lines -> W]]
  BY DEF Runs!RunStates
<1>1. r.status \in [1..Lines -> W] /\ r.current \in 0..Lines
  BY <1>0
<1>2. CASE k > Lines
  <2>1. Runs!RunFrom(r, k) = [r EXCEPT !.phase = "done", !.current = Lines]
    BY <1>2 DEF Runs!RunFrom
  <2>2. Lines \in 0..Lines /\ k \notin 1..Lines
    BY <1>2, RunAssumption
  <2> QED BY <1>0, <1>2, <2>1, <2>2
<1>3. CASE ~(k > Lines)
  <2> DEFINE st == [r.status EXCEPT ![k] = "running"]
  <2>1. Runs!RunFrom(r, k) = [phase |-> "running", current |-> k, status |-> st]
    BY <1>3 DEF Runs!RunFrom
  <2>2. st \in [1..Lines -> W] /\ k \in 0..Lines
    <3>1. k \in 0..Lines
      BY <1>3, RunAssumption
    <3>2. \A f \in [1..Lines -> W] : [f EXCEPT ![k] = "running"] \in [1..Lines -> W]
      OBVIOUS
    <3> QED BY <1>1, <3>1, <3>2
  <2> HIDE DEF st
  <2>3. Runs!RunFrom(r, k) \in Runs!RunStates
    BY <1>0, <2>1, <2>2
  <2>4. Runs!RunFrom(r, k).phase = "running" /\ Runs!RunFrom(r, k).current = k /\ Runs!RunFrom(r, k).status = st
    BY <2>1
  <2> QED BY <1>3, <2>3, <2>4 DEF st
<1> QED BY <1>2, <1>3

\* A line is sent, the last one being over: it is the only one with the shell.
LEMMA NextLine ==
    ASSUME Runs!TypeOK, NEW r \in Runs!RunStates, NEW k \in 1..(Lines + 1),
           \A i \in 1..Len(s1) : ~Runs!CommandAt(i), s2 = 0, s2' = 0,
           \A j \in 1..Len(s4') : s4'[j] # "C", s7'.outputSince = FALSE,
           s8.phase = "running" => s8.current # k,
           \A j \in 1..Lines : r.status[j] = "succeeded" /\ ~Runs!IsComment(j) => s5[j] = "ended",
           Runs!Apply(Runs!RunFrom(r, k))
    PROVE  Runs!SucceededIsOver' /\ Runs!LineGoesAfterLine' /\ Runs!RunsOneCommand'
<1> DEFINE n == Runs!RunFrom(r, k)
<1>1. /\ k > Lines => n.phase = "done" /\ n.status = r.status
      /\ k \in 1..Lines => n.phase = "running" /\ n.current = k /\ n.status = [r.status EXCEPT ![k] = "running"]
  <2>1. k \in 0..(Lines + 1)
    BY RunAssumption
  <2> QED BY <2>1, RunFromIs
<1>2. s8' = n
  BY DEF Runs!Apply
<1>3. s1 \in Seq(0..Lines) /\ s5 \in [1..Lines -> {"none", "ended", "failed"}]
  BY DEF Runs!TypeOK
<1>4. r.status \in [1..Lines -> {"pending", "running", "succeeded", "failed", "unfinished"}]
  BY DEF Runs!RunStates
<1>5. CASE k > Lines
  <2>1. n.phase = "done" /\ n.status = r.status
    BY <1>1, <1>5
  <2>2. UNCHANGED <<s1, s5>>
    BY <2>1 DEF Runs!Apply
  <2> HIDE DEF n
  <2> QED BY <1>2, <2>1, <2>2 DEF Runs!SucceededIsOver, Runs!LineGoesAfterLine, Runs!RunsOneCommand, Runs!CommandAt
<1>6. CASE k \in 1..Lines
  <2>1. n.phase = "running" /\ n.current = k /\ n.status = [r.status EXCEPT ![k] = "running"]
    BY <1>1, <1>6
  <2>2. s1' = Append(s1, k) /\ s5' = [s5 EXCEPT ![k] = "none"]
    BY <2>1 DEF Runs!Apply
  <2>3. /\ n.status[k] = "running"
        /\ \A j \in 1..Lines : j # k => n.status[j] = r.status[j] /\ s5'[j] = s5[j]
    BY <1>3, <1>4, <1>6, <2>1, <2>2
  <2>4. /\ \A i \in 1..Len(s1') : i # Len(s1') => i \in 1..Len(s1) /\ s1'[i] = s1[i]
        /\ \A i \in 1..Len(s1') : i = Len(s1') => s1'[i] = k
    BY <1>3, <2>2
  <2> HIDE DEF n
  <2>5. \A i \in 1..Len(s1') : Runs!CommandAt(i)' => i = Len(s1') /\ s1'[i] = k
    BY <2>4 DEF Runs!CommandAt
  <2>6. Runs!SucceededIsOver'
    BY <1>2, <2>3, <2>5 DEF Runs!SucceededIsOver
  <2>7. Runs!LineGoesAfterLine'
    BY <1>2, <2>3 DEF Runs!LineGoesAfterLine
  <2>8. k > 0
    BY <1>6
  <2>9. Runs!RunsOneCommand'
    BY <1>2, <2>1, <2>3, <2>5, <2>8 DEF Runs!RunsOneCommand
  <2> QED BY <2>6, <2>7, <2>9
<1>7. k > Lines \/ k \in 1..Lines
  BY RunAssumption
<1> QED BY <1>5, <1>6, <1>7

\* What keeping a run and sending its line does to the types.
LEMMA ApplyTypes ==
    ASSUME Runs!TypeOK, NEW n \in Runs!RunStates, Runs!Apply(n)
    PROVE  /\ s1' \in Seq(0..Lines) /\ s5' \in [1..Lines -> {"none", "ended", "failed"}] /\ s6' \in 0..MaxSends
           /\ s8' \in Runs!RunStates /\ s9' \in BOOLEAN
<1>1. n.current \in 0..Lines
  BY DEF Runs!RunStates
<1>2. s1 \in Seq(0..Lines) /\ s5 \in [1..Lines -> {"none", "ended", "failed"}] /\ s6 \in 0..MaxSends
  BY DEF Runs!TypeOK
<1>3. s8' = n /\ s9' \in BOOLEAN
  BY DEF Runs!Apply
<1>4. \/ s6 < MaxSends /\ s6' = s6 + 1 /\ s1' = Append(s1, n.current) /\ s5' = [s5 EXCEPT ![n.current] = "none"]
      \/ UNCHANGED <<s6, s1, s5>>
  BY DEF Runs!Apply
<1>5. s6 < MaxSends => s6 + 1 \in 0..MaxSends
  BY <1>2, RunAssumption
<1>6. Append(s1, n.current) \in Seq(0..Lines)
  BY <1>1, <1>2
<1>7. [s5 EXCEPT ![n.current] = "none"] \in [1..Lines -> {"none", "ended", "failed"}]
  BY <1>2
<1> QED BY <1>2, <1>3, <1>4, <1>5, <1>6, <1>7

LEMMA TurnReads ==
    ASSUME Runs!TurnInv, Runs!ShellReads
    PROVE  Runs!TurnInv'
<1>0. Runs!TypeOK /\ Runs!MarksInOrder
  BY DEF Runs!TurnInv
<1>1. s1 \in Seq(0..Lines) /\ s1 # <<>> /\ s2 = 0 /\ s1' = Tail(s1) /\ UNCHANGED <<s6, s7, s8, s9, s10, s11>>
  BY <1>0 DEF Runs!ShellReads, Runs!TypeOK
<1> DEFINE k == s1[1]
<1>2. k = Head(s1) /\ k \in 0..Lines /\ 1 \in 1..Len(s1)
      /\ s1' \in Seq(0..Lines) /\ \A i \in 1..Len(s1') : i + 1 \in 1..Len(s1) /\ s1'[i] = s1[i+1] /\ i + 1 # 1
  <2>1. \A S, q : q \in Seq(S) /\ q # <<>> => Tail(q) \in Seq(S) /\ Head(q) \in S /\ Head(q) = q[1]
    OBVIOUS
  <2>2. Len(s1) \in Nat /\ Len(s1) # 0
    BY <1>1, EmptyIsShort
  <2>3. Len(s1') = Len(s1) - 1 /\ \A i \in 1..Len(s1') : s1'[i] = s1[i+1]
    BY <1>1
  <2>4. 1 \in 1..Len(s1) /\ \A i \in 1..Len(s1') : i + 1 \in 1..Len(s1) /\ i + 1 # 1
    BY <2>2, <2>3
  <2> QED BY <1>1, <2>1, <2>3, <2>4
<1>3. s4 \in Seq({"A", "C"} \cup Runs!Statuses)
  BY <1>0 DEF Runs!TypeOK
<1>4. ASSUME ~s10 PROVE Runs!SucceededIsOver /\ Runs!LineGoesAfterLine
                        /\ (s8.phase \in {"none", "running"} => Runs!RunsOneCommand)
  BY <1>4 DEF Runs!TurnInv
<1>5. \A i \in 1..Len(s1') : Runs!CommandAt(i)' <=> Runs!CommandAt(i + 1)
  BY <1>2 DEF Runs!CommandAt
<1>6. CASE k > 0 /\ ~Runs!IsComment(k) /\ s2' = k /\ s4' = Append(s4, "C") /\ UNCHANGED <<s3, s5>>
  <2>1. Runs!TypeOK'
    <3>1. s4' \in Seq({"A", "C"} \cup Runs!Statuses)
      BY <1>3, <1>6
    <3> QED BY <1>0, <1>1, <1>2, <1>6, <3>1 DEF Runs!TypeOK
  <2>2. Runs!MarksInOrder'
    BY <1>0, <1>1, <1>6, OrderStarts
  <2>3. Runs!CommandAt(1)
    BY <1>6 DEF Runs!CommandAt
  <2>4. ASSUME ~s10 PROVE Runs!SucceededIsOver' /\ Runs!LineGoesAfterLine'
    <3>1. Runs!SucceededIsOver'
      BY <1>1, <1>2, <1>4, <1>5, <1>6, <2>3, <2>4 DEF Runs!SucceededIsOver
    <3> QED BY <1>1, <1>4, <1>6, <2>4, <3>1 DEF Runs!LineGoesAfterLine
  <2>5. ASSUME ~s10, s8.phase \in {"none", "running"} PROVE Runs!RunsOneCommand'
    <3>1. /\ s8.phase = "running" /\ k = s8.current /\ ~s7.outputSince /\ \A j \in 1..Len(s4) : s4[j] # "C"
          /\ \A j \in 1..Len(s1) : Runs!CommandAt(j) => j = 1
          /\ s8.current > 0 /\ s8.status[s8.current] = "running"
      BY <1>2, <1>4, <2>3, <2>5 DEF Runs!RunsOneCommand
    <3>2. \A i \in 1..Len(s1') : ~Runs!CommandAt(i)'
      BY <1>2, <1>5, <3>1
    <3>3. \A i \in 1..Len(s4') : s4'[i] = "C" => i = Len(s4')
      BY <1>3, <1>6, <3>1
    <3>4. \A i \in 1..Len(s4') : s4'[i] = "C" => ~(i < Len(s4')) /\ \A j \in 1..Len(s4') : s4'[j] = "C" => j = i
      <4>1. Len(s4') \in Nat
        BY <1>3, <1>6
      <4> QED BY <3>3, <4>1
    <3> QED BY <1>1, <1>6, <3>1, <3>2, <3>4 DEF Runs!RunsOneCommand
  <2> QED BY <1>1, <2>1, <2>2, <2>4, <2>5 DEF Runs!TurnInv
<1>7. ASSUME NEW status \in Runs!Statuses, k > 0 /\ ~Runs!IsComment(k) => status = "bad",
             s3' = status, s2' = 0, s4' = s4 \o <<status, "A">>,
             s5' = [j \in 1..Lines |-> IF j = k THEN IF Runs!IsComment(k) \/ status = "ok" THEN "ended" ELSE "failed"
                                       ELSE s5[j]]
      PROVE  Runs!TurnInv'
  <2>0. s5' \in [1..Lines -> {"none", "ended", "failed"}] /\ \A j \in 1..Lines : j # k => s5'[j] = s5[j]
    BY <1>0, <1>7 DEF Runs!TypeOK
  <2>1. Runs!TypeOK'
    <3>1. s4' \in Seq({"A", "C"} \cup Runs!Statuses)
      BY <1>3, <1>7
    <3>2. s2' \in 0..Lines
      BY <1>7, RunAssumption
    <3> QED BY <1>0, <1>1, <1>2, <1>7, <2>0, <3>1, <3>2 DEF Runs!TypeOK
  <2>2. Runs!MarksInOrder'
    BY <1>0, <1>1, <1>7, OrderEnds
  <2>3. k > 0 /\ ~Runs!IsComment(k) => Runs!CommandAt(1)
    BY DEF Runs!CommandAt
  <2>4. ASSUME ~s10 PROVE Runs!SucceededIsOver' /\ Runs!LineGoesAfterLine'
    <3>1. Runs!SucceededIsOver'
      BY <1>1, <1>2, <1>4, <1>5, <1>7, <2>4 DEF Runs!SucceededIsOver
    <3>2. \A j \in 1..Lines : s8.status[j] = "succeeded" /\ ~Runs!IsComment(j) => s5[j] = "ended" /\ j # k
      <4> SUFFICES ASSUME NEW j \in 1..Lines, s8.status[j] = "succeeded", ~Runs!IsComment(j)
                   PROVE  s5[j] = "ended" /\ j # k
        OBVIOUS
      <4>1. j > 0
        OBVIOUS
      <4> QED BY <1>2, <1>4, <2>3, <2>4, <4>1 DEF Runs!SucceededIsOver, Runs!LineGoesAfterLine
    <3> QED BY <1>1, <2>0, <3>1, <3>2 DEF Runs!LineGoesAfterLine
  <2>5. ASSUME ~s10, s8.phase \in {"none", "running"} PROVE Runs!RunsOneCommand'
    <3>0. Runs!RunsOneCommand
      BY <1>4, <2>5
    <3>1. /\ Len(s4') = Len(s4) + 2 /\ Len(s4) \in Nat
          /\ \A i \in 1..Len(s4) : i \in 1..Len(s4') /\ s4'[i] = s4[i]
          /\ \A i \in 1..Len(s4') : s4'[i] = "C" => i \in 1..Len(s4)
          /\ (s4 # <<>> => 1 \in 1..Len(s4))
      BY <1>3, <1>7 DEF Runs!Statuses
    <3>2. \A i \in 1..Len(s4) : s4[i] = "C" => i < Len(s4) /\ i + 1 \in 1..Len(s4)
      BY <1>0, <1>1, <3>1 DEF Runs!MarksInOrder
    <3>3. (\E i \in 1..Len(s4) : s4[i] = "C") \/ s7.outputSince => s8.current # k /\ s8.current \in 1..Lines
      <4>1. SUFFICES ASSUME (\E i \in 1..Len(s4) : s4[i] = "C") \/ s7.outputSince
                     PROVE  s8.current # k /\ s8.current \in 1..Lines
        OBVIOUS
      <4>2. ~Runs!CommandAt(1) /\ s8.phase = "running" /\ ~Runs!IsComment(s8.current) /\ s8.current > 0
        BY <1>2, <3>0, <4>1 DEF Runs!RunsOneCommand
      <4>3. s8.current \in 0..Lines
        BY <1>0 DEF Runs!TypeOK, Runs!RunStates
      <4>4. s8.current \in 1..Lines
        BY <4>2, <4>3, RunAssumption
      <4> QED BY <2>3, <4>2, <4>4
    <3>4. s7.outputSince /\ ~s7.entry.end => s4 # <<>>
      BY <1>0, <1>1 DEF Runs!MarksInOrder
    <3>5. \A i \in 1..Len(s1') : Runs!CommandAt(i)' =>
            /\ s8.phase = "running" /\ s1'[i] = s8.current /\ ~s7.outputSince
            /\ \A j \in 1..Len(s4') : s4'[j] # "C"
            /\ \A j \in 1..Len(s1') : Runs!CommandAt(j)' => j = i
      <4> SUFFICES ASSUME NEW i \in 1..Len(s1'), Runs!CommandAt(i)'
                   PROVE  /\ s8.phase = "running" /\ s1'[i] = s8.current /\ ~s7.outputSince
                          /\ \A j \in 1..Len(s4') : s4'[j] # "C"
                          /\ \A j \in 1..Len(s1') : Runs!CommandAt(j)' => j = i
        OBVIOUS
      <4>1. i + 1 \in 1..Len(s1) /\ Runs!CommandAt(i + 1) /\ s1'[i] = s1[i + 1]
        BY <1>2, <1>5
      <4>2. /\ s8.phase = "running" /\ s1[i + 1] = s8.current /\ ~s7.outputSince
            /\ \A j \in 1..Len(s4) : s4[j] # "C"
            /\ \A j \in 1..Len(s1) : Runs!CommandAt(j) => j = i + 1
        BY <3>0, <4>1 DEF Runs!RunsOneCommand
      <4>3. \A j \in 1..Len(s1') : Runs!CommandAt(j)' => j + 1 = i + 1
        BY <1>2, <1>5, <4>2
      <4> QED BY <3>1, <4>1, <4>2, <4>3
    <3>6. \A i \in 1..Len(s4') : s4'[i] = "C" =>
            /\ s8.phase = "running" /\ ~Runs!IsComment(s8.current) /\ ~s7.outputSince
            /\ \A j \in 1..Len(s4') : s4'[j] = "C" => j = i
            /\ i < Len(s4') /\ s4'[i+1] = "ok" => s5'[s8.current] = "ended"
      <4> SUFFICES ASSUME NEW i \in 1..Len(s4'), s4'[i] = "C"
                   PROVE  /\ s8.phase = "running" /\ ~Runs!IsComment(s8.current) /\ ~s7.outputSince
                          /\ \A j \in 1..Len(s4') : s4'[j] = "C" => j = i
                          /\ i < Len(s4') /\ s4'[i+1] = "ok" => s5'[s8.current] = "ended"
        OBVIOUS
      <4>1. i \in 1..Len(s4) /\ s4[i] = "C" /\ i < Len(s4) /\ s4'[i+1] = s4[i+1]
        BY <3>1, <3>2
      <4>2. /\ s8.phase = "running" /\ ~Runs!IsComment(s8.current) /\ ~s7.outputSince
            /\ \A j \in 1..Len(s4) : s4[j] = "C" => j = i
            /\ i < Len(s4) /\ s4[i+1] = "ok" => s5[s8.current] = "ended"
        BY <3>0, <4>1 DEF Runs!RunsOneCommand
      <4>3. s5'[s8.current] = s5[s8.current]
        BY <2>0, <3>3, <4>1
      <4> QED BY <3>1, <4>1, <4>2, <4>3
    <3>7. s7.outputSince =>
            /\ s8.phase = "running" /\ ~Runs!IsComment(s8.current)
            /\ ~s7.entry.end /\ s4' # <<>> /\ s4'[1] = "ok" => s5'[s8.current] = "ended"
            /\ s7.entry.end => s7.entry.exitCode \in Runs!Statuses
                               /\ (s7.entry.exitCode = "ok" => s5'[s8.current] = "ended")
      <4> SUFFICES ASSUME s7.outputSince
                   PROVE  /\ s8.phase = "running" /\ ~Runs!IsComment(s8.current)
                          /\ ~s7.entry.end /\ s4' # <<>> /\ s4'[1] = "ok" => s5'[s8.current] = "ended"
                          /\ s7.entry.end => s7.entry.exitCode \in Runs!Statuses
                                             /\ (s7.entry.exitCode = "ok" => s5'[s8.current] = "ended")
        OBVIOUS
      <4>1. /\ s8.phase = "running" /\ ~Runs!IsComment(s8.current)
            /\ ~s7.entry.end /\ s4 # <<>> /\ s4[1] = "ok" => s5[s8.current] = "ended"
            /\ s7.entry.end => s7.entry.exitCode \in Runs!Statuses
                               /\ (s7.entry.exitCode = "ok" => s5[s8.current] = "ended")
        BY <3>0 DEF Runs!RunsOneCommand
      <4>2. s5'[s8.current] = s5[s8.current]
        BY <2>0, <3>3
      <4>3. s4 # <<>> => s4'[1] = s4[1]
        BY <3>1
      <4> QED BY <3>4, <4>1, <4>2, <4>3
    <3>8. s8.phase = "running" => s8.current > 0 /\ s8.status[s8.current] = "running"
      BY <3>0 DEF Runs!RunsOneCommand
    <3>9. ~(s2' > 0) /\ s2' = 0
      BY <1>7
    <3> QED BY <1>1, <3>5, <3>6, <3>7, <3>8, <3>9 DEF Runs!RunsOneCommand
  <2> QED BY <1>1, <2>1, <2>2, <2>4, <2>5 DEF Runs!TurnInv
<1> QED BY ZenonT(40), <1>1, <1>2, <1>6, <1>7 DEF Runs!ShellReads

LEMMA TurnEnds ==
    ASSUME Runs!TurnInv, Runs!ShellEnds
    PROVE  Runs!TurnInv'
<1>0. Runs!TypeOK /\ Runs!MarksInOrder
  BY DEF Runs!TurnInv
<1>1. s2 > 0 /\ s2' = 0 /\ UNCHANGED <<s6, s7, s8, s9, s10, s11>>
  BY DEF Runs!ShellEnds
<1>2. PICK status \in Runs!Statuses, eaten \in 0..Len(s1) :
        /\ s3' = status /\ s4' = s4 \o <<status, "A">> /\ s1' = SubSeq(s1, eaten + 1, Len(s1))
        /\ s5' = [s5 EXCEPT ![s2] = IF status = "ok" THEN "ended" ELSE "failed"]
  BY DEF Runs!ShellEnds
<1>3. /\ s1 \in Seq(0..Lines) /\ s2 \in 0..Lines /\ s4 \in Seq({"A", "C"} \cup Runs!Statuses)
      /\ s5 \in [1..Lines -> {"none", "ended", "failed"}]
  BY <1>0 DEF Runs!TypeOK
<1>4. s2 \in 1..Lines
  BY <1>1, <1>3, RunAssumption
<1>5. /\ s1' \in Seq(0..Lines)
      /\ \A i \in 1..Len(s1') : i + eaten \in 1..Len(s1) /\ s1'[i] = s1[i + eaten]
  <2>1. Len(s1) \in Nat
    BY <1>3
  <2>2. SubSeq(s1, eaten + 1, Len(s1)) \in Seq(0..Lines)
    <3>1. \A i \in (eaten + 1)..Len(s1) : s1[i] \in 0..Lines
      <4>1. \A i \in (eaten + 1)..Len(s1) : i \in 1..Len(s1)
        BY <2>1
      <4>2. \A S, q : q \in Seq(S) => \A i \in 1..Len(q) : q[i] \in S
        OBVIOUS
      <4>3. \A i \in 1..Len(s1) : s1[i] \in 0..Lines
        BY <1>3, <4>2
      <4> QED BY <4>1, <4>3
    <3>2. eaten + 1 \in Int /\ Len(s1) \in Int
      BY <2>1
    <3> QED BY <3>1, <3>2, SubSeqProperties
  <2>3. eaten + 1 \in 1..(Len(s1) + 1)
    BY <2>1
  <2>4. Len(s1') = Len(s1) - eaten
    BY <1>2, <1>3, <2>1, <2>3
  <2>5. \A i \in 1..Len(s1') : i + eaten \in 1..Len(s1)
    BY <2>1, <2>4
  <2>6. \A i \in 1..Len(s1') : s1'[i] = s1[i + eaten]
    BY <1>2, <1>3, <2>1, <2>3, <2>4
  <2> QED BY <1>2, <2>2, <2>3, <2>5, <2>6
<1>6. /\ s5' \in [1..Lines -> {"none", "ended", "failed"}]
      /\ \A j \in 1..Lines : j # s2 => s5'[j] = s5[j]
      /\ status = "ok" => s5'[s2] = "ended"
  BY <1>2, <1>3, <1>4
<1>7. Runs!TypeOK'
  <2>1. s4' \in Seq({"A", "C"} \cup Runs!Statuses)
    BY <1>2, <1>3
  <2>2. s2' \in 0..Lines
    BY <1>1, RunAssumption
  <2> QED BY <1>0, <1>1, <1>2, <1>5, <1>6, <2>1, <2>2 DEF Runs!TypeOK
<1>8. Runs!MarksInOrder'
  BY <1>0, <1>1, <1>2, OrderEnds
<1>9. ASSUME ~s10 PROVE Runs!SucceededIsOver' /\ Runs!LineGoesAfterLine'
  <2>1. Runs!SucceededIsOver /\ Runs!LineGoesAfterLine
    BY <1>9 DEF Runs!TurnInv
  <2>2. \A i \in 1..Len(s1') : Runs!CommandAt(i)' => Runs!CommandAt(i + eaten)
    BY <1>5 DEF Runs!CommandAt
  <2>3. Runs!SucceededIsOver'
    <3>1. \A i \in 1..Len(s1') : Runs!CommandAt(i)' => s8.status[s1'[i]] # "succeeded"
      BY <1>5, <2>1, <2>2 DEF Runs!SucceededIsOver
    <3>2. ~(s2' > 0)
      BY <1>1
    <3> QED BY <1>1, <3>1, <3>2 DEF Runs!SucceededIsOver
  <2>4. s8.status[s2] # "succeeded"
    BY <1>1, <2>1 DEF Runs!SucceededIsOver
  <2> QED BY <1>1, <1>6, <2>1, <2>3, <2>4 DEF Runs!LineGoesAfterLine
<1>10. ASSUME ~s10, s8.phase \in {"none", "running"} PROVE Runs!RunsOneCommand'
  <2>0. Runs!RunsOneCommand
    BY <1>10 DEF Runs!TurnInv
  <2>1. s2 = s8.current /\ \A i \in 1..Len(s1) : ~Runs!CommandAt(i)
    BY <1>1, <2>0 DEF Runs!RunsOneCommand
  <2>2. \A i \in 1..Len(s1') : ~Runs!CommandAt(i)'
    BY <1>5, <2>1 DEF Runs!CommandAt
  <2>3. /\ Len(s4') = Len(s4) + 2 /\ Len(s4) \in Nat
        /\ s4'[Len(s4) + 1] = status /\ s4'[Len(s4) + 2] = "A"
        /\ \A i \in 1..Len(s4) : i \in 1..Len(s4') /\ s4'[i] = s4[i]
        /\ s4 # <<>> => Len(s4) \in 1..Len(s4)
        /\ s4 = <<>> => Len(s4) = 0
    BY <1>2, <1>3
  <2>4. \A i \in 1..Len(s4') : s4'[i] = "C" => i \in 1..Len(s4) /\ s4[i] = "C"
    BY <2>3 DEF Runs!Statuses
  <2>5. s4 # <<>> => s4[Len(s4)] = "C"
    BY <1>0, <1>1 DEF Runs!MarksInOrder
  <2>6. \A i \in 1..Len(s4') : s4'[i] = "C" =>
          /\ s8.phase = "running" /\ ~Runs!IsComment(s8.current) /\ ~s7.outputSince
          /\ \A j \in 1..Len(s4') : s4'[j] = "C" => j = i
          /\ i < Len(s4') /\ s4'[i+1] = "ok" => s5'[s8.current] = "ended"
    <3> SUFFICES ASSUME NEW i \in 1..Len(s4'), s4'[i] = "C"
                 PROVE  /\ s8.phase = "running" /\ ~Runs!IsComment(s8.current) /\ ~s7.outputSince
                        /\ \A j \in 1..Len(s4') : s4'[j] = "C" => j = i
                        /\ i < Len(s4') /\ s4'[i+1] = "ok" => s5'[s8.current] = "ended"
      OBVIOUS
    <3>1. i \in 1..Len(s4) /\ s4[i] = "C"
      BY <2>4
    <3>2. /\ s8.phase = "running" /\ ~Runs!IsComment(s8.current) /\ ~s7.outputSince
          /\ \A j \in 1..Len(s4) : s4[j] = "C" => j = i
      BY <2>0, <3>1 DEF Runs!RunsOneCommand
    <3>3. s4 # <<>>
      BY <2>3, <3>1
    <3>4. i = Len(s4)
      BY <2>3, <2>5, <3>2, <3>3
    <3>5. s4'[i+1] = status
      BY <2>3, <3>4
    <3> QED BY <1>6, <2>1, <2>4, <3>2, <3>5
  <2>7. s7.outputSince => s4 = <<>> /\ s7.entry.end = FALSE
    <3>1. s7.entry.end \in BOOLEAN
      BY <1>0 DEF Runs!TypeOK, Runs!TrackerStates
    <3>2. s7.outputSince => s4 = <<>>
      BY <2>0, <2>3, <2>5 DEF Runs!RunsOneCommand
    <3> QED BY <1>0, <3>1, <3>2 DEF Runs!MarksInOrder
  <2>8. s4 = <<>> => s4'[1] = status
    BY <2>3
  <2>9. s7.outputSince => s8.phase = "running" /\ ~Runs!IsComment(s8.current)
    BY <2>0 DEF Runs!RunsOneCommand
  <2>10. s8.phase = "running" => s8.current > 0 /\ s8.status[s8.current] = "running"
    BY <2>0 DEF Runs!RunsOneCommand
  <2>11. ~(s2' > 0)
    BY <1>1
  <2> QED BY <1>1, <1>6, <2>1, <2>2, <2>6, <2>7, <2>8, <2>9, <2>10, <2>11 DEF Runs!RunsOneCommand
<1> QED BY <1>1, <1>7, <1>8, <1>9, <1>10 DEF Runs!TurnInv

\* Enter alone, which runs nothing.
LEMMA TurnEnter ==
    ASSUME Runs!TurnInv, Runs!PressEnter
    PROVE  Runs!TurnInv'
<1>0. Runs!TypeOK /\ Runs!MarksInOrder
  BY DEF Runs!TurnInv
<1>1. s6 < MaxSends /\ s6' = s6 + 1 /\ s1' = Append(s1, 0) /\ UNCHANGED <<s2, s3, s4, s5, s8, s9, s10, s11>>
  BY DEF Runs!PressEnter
<1>2. s7' = s7
  <2>1. s7.sendsOutput = TRUE
    BY <1>0 DEF Runs!MarksInOrder, Runs!TypeOK, Runs!TrackerStates
  <2> QED BY <2>1, EnterStartsNothing DEF Runs!PressEnter
<1>3. s1 \in Seq(0..Lines) /\ s6 \in 0..MaxSends
  BY <1>0 DEF Runs!TypeOK
<1>4. s1' \in Seq(0..Lines) /\ \A i \in 1..Len(s1') : s1'[i] > 0 => i \in 1..Len(s1) /\ s1'[i] = s1[i]
  <2>1. 0 \in 0..Lines
    BY RunAssumption
  <2>2. s1' \in Seq(0..Lines)
    BY <1>1, <1>3, <2>1
  <2>3. Len(s1') = Len(s1) + 1 /\ Len(s1) \in Nat /\ s1'[Len(s1) + 1] = 0 /\ \A i \in 1..Len(s1) : s1'[i] = s1[i]
    BY <1>1, <1>3
  <2> QED BY <2>2, <2>3
<1>5. Runs!TypeOK'
  <2>1. s6' \in 0..MaxSends
    BY <1>1, <1>3, RunAssumption
  <2> QED BY <1>0, <1>1, <1>2, <1>4, <2>1 DEF Runs!TypeOK
<1>6. Runs!MarksInOrder'
  BY <1>0, <1>1, <1>2 DEF Runs!MarksInOrder
<1>7. \A i \in 1..Len(s1') : Runs!CommandAt(i)' => i \in 1..Len(s1) /\ Runs!CommandAt(i) /\ s1'[i] = s1[i]
  BY <1>4 DEF Runs!CommandAt
<1>8. ASSUME ~s10 PROVE Runs!SucceededIsOver' /\ Runs!LineGoesAfterLine'
  BY <1>1, <1>7, <1>8 DEF Runs!TurnInv, Runs!SucceededIsOver, Runs!LineGoesAfterLine
<1>9. ASSUME ~s10, s8.phase \in {"none", "running"} PROVE Runs!RunsOneCommand'
  <2>1. Runs!RunsOneCommand
    BY <1>9 DEF Runs!TurnInv
  <2> QED BY <1>1, <1>2, <1>7, <2>1 DEF Runs!RunsOneCommand
<1> QED BY <1>1, <1>5, <1>6, <1>8, <1>9 DEF Runs!TurnInv

\* How the current line of a run ends.
LEMMA FinishIs ==
    ASSUME NEW r \in Runs!RunStates, r.phase = "running", NEW e
    PROVE  /\ e = "bad" => /\ Runs!FinishLine(r, e) \in Runs!RunStates
                           /\ Runs!FinishLine(r, e).phase = "failed"
                           /\ Runs!FinishLine(r, e).status = [r.status EXCEPT ![r.current] = "failed"]
           /\ e # "bad" => \E q \in Runs!RunStates :
                              /\ q.status = [r.status EXCEPT ![r.current] = "succeeded"]
                              /\ Runs!FinishLine(r, e) = Runs!RunFrom(q, r.current + 1)
<1> DEFINE W == {"pending", "running", "succeeded", "failed", "unfinished"}
           P == {"none", "running", "failed", "done", "stopped"}
           st(x) == [r.status EXCEPT ![r.current] = x]
           over(x) == [r EXCEPT !.status = [r.status EXCEPT ![r.current] = x]]
<1>0. Runs!RunStates = [phase : P, current : 0..Lines, status : [1..Lines -> W]]
  BY DEF Runs!RunStates
<1>1. r.status \in [1..Lines -> W] /\ r.current \in 0..Lines /\ r.phase \in P
  BY <1>0
<1>2. st("failed") \in [1..Lines -> W] /\ st("succeeded") \in [1..Lines -> W]
  <2>1. \A f \in [1..Lines -> W], k, x \in W : [f EXCEPT ![k] = x] \in [1..Lines -> W]
    OBVIOUS
  <2> QED BY <1>1, <2>1
<1>3. /\ Runs!FinishLine(r, e) = IF e = "bad" THEN [over("failed") EXCEPT !.phase = "failed"]
                                 ELSE Runs!RunFrom(over("succeeded"), r.current + 1)
  BY DEF Runs!FinishLine
<1>4. \A f \in [1..Lines -> W] :
        /\ [r EXCEPT !.status = f] \in Runs!RunStates /\ [r EXCEPT !.status = f].status = f
        /\ [[r EXCEPT !.status = f] EXCEPT !.phase = "failed"] \in Runs!RunStates
        /\ [[r EXCEPT !.status = f] EXCEPT !.phase = "failed"].phase = "failed"
        /\ [[r EXCEPT !.status = f] EXCEPT !.phase = "failed"].status = f
  BY <1>0
<1>5. over("failed") = [r EXCEPT !.status = st("failed")] /\ over("succeeded") = [r EXCEPT !.status = st("succeeded")]
  OBVIOUS
<1> HIDE DEF st, over, W
<1>6. ASSUME e = "bad"
      PROVE  /\ Runs!FinishLine(r, e) \in Runs!RunStates /\ Runs!FinishLine(r, e).phase = "failed"
             /\ Runs!FinishLine(r, e).status = st("failed")
  <2>1. Runs!FinishLine(r, e) = [[r EXCEPT !.status = st("failed")] EXCEPT !.phase = "failed"]
    BY <1>3, <1>5, <1>6
  <2> QED BY <1>2, <1>4, <2>1
<1>7. ASSUME e # "bad"
      PROVE  /\ over("succeeded") \in Runs!RunStates /\ over("succeeded").status = st("succeeded")
             /\ Runs!FinishLine(r, e) = Runs!RunFrom(over("succeeded"), r.current + 1)
  BY <1>2, <1>3, <1>4, <1>5, <1>7
<1> QED BY <1>6, <1>7 DEF st

\* The current line is over and so is its command: the next one is sent.
LEMMA LineSucceeds ==
    ASSUME Runs!TypeOK, ~s10, Runs!SucceededIsOver, Runs!LineGoesAfterLine, s8.phase = "running", s8.current > 0,
           NEW e, e # "bad", Runs!Apply(Runs!FinishLine(s8, e)),
           Runs!IsComment(s8.current) \/ s5[s8.current] = "ended",
           \A i \in 1..Len(s1) : ~Runs!CommandAt(i), s2 = 0, s2' = 0,
           \A j \in 1..Len(s4') : s4'[j] # "C", s7'.outputSince = FALSE
    PROVE  Runs!SucceededIsOver' /\ Runs!LineGoesAfterLine' /\ Runs!RunsOneCommand'
<1>1. s8 \in Runs!RunStates
  BY DEF Runs!TypeOK
<1>2. PICK q \in Runs!RunStates : /\ q.status = [s8.status EXCEPT ![s8.current] = "succeeded"]
                                  /\ Runs!FinishLine(s8, e) = Runs!RunFrom(q, s8.current + 1)
  BY ZenonT(40), <1>1, FinishIs
<1>3. s8.current \in 0..Lines /\ s8.status \in [1..Lines -> {"pending", "running", "succeeded", "failed", "unfinished"}]
  BY <1>1 DEF Runs!RunStates
<1>4. s8.current + 1 \in 1..(Lines + 1) /\ s8.current # s8.current + 1
  BY <1>3, RunAssumption
<1>5. \A j \in 1..Lines : j # s8.current => q.status[j] = s8.status[j]
  BY <1>2, <1>3
<1>6. \A j \in 1..Lines : q.status[j] = "succeeded" /\ ~Runs!IsComment(j) => s5[j] = "ended"
  BY <1>5 DEF Runs!LineGoesAfterLine
<1>7. Runs!Apply(Runs!RunFrom(q, s8.current + 1))
  BY <1>2
<1> QED BY <1>4, <1>6, <1>7, NextLine

\* The current line fails, and the run waits.
LEMMA LineFails ==
    ASSUME Runs!TypeOK, Runs!SucceededIsOver, Runs!LineGoesAfterLine, s8.phase = "running", s8.current > 0,
           Runs!Apply(Runs!FinishLine(s8, "bad")), s2' = s2
    PROVE  /\ Runs!FinishLine(s8, "bad") \in Runs!RunStates
           /\ s8'.phase = "failed" /\ Runs!SucceededIsOver' /\ Runs!LineGoesAfterLine'
<1> DEFINE n == Runs!FinishLine(s8, "bad")
<1>1. s8 \in Runs!RunStates
  BY DEF Runs!TypeOK
<1>2. n \in Runs!RunStates /\ n.phase = "failed" /\ n.status = [s8.status EXCEPT ![s8.current] = "failed"]
  BY <1>1, FinishIs
<1> HIDE DEF n
<1>3. s8' = n /\ UNCHANGED <<s1, s5>>
  BY <1>2 DEF Runs!Apply, n
<1>4. s8.status \in [1..Lines -> {"pending", "running", "succeeded", "failed", "unfinished"}]
  BY <1>1 DEF Runs!RunStates
<1>5. \A j : n.status[j] = "succeeded" /\ j \in 1..Lines => s8.status[j] = "succeeded"
  BY <1>2, <1>4
<1>6. s1 \in Seq(0..Lines) /\ s2 \in 0..Lines
  BY DEF Runs!TypeOK
<1>7. \A i \in 1..Len(s1) : Runs!CommandAt(i) => s1[i] \in 1..Lines
  <2>1. \A S, x : x \in Seq(S) => \A i \in 1..Len(x) : x[i] \in S
    OBVIOUS
  <2>2. \A i \in 1..Len(s1) : s1[i] \in 0..Lines
    BY <1>6, <2>1
  <2> QED BY <2>2, RunAssumption DEF Runs!CommandAt
<1>8. s2 > 0 => s2 \in 1..Lines
  BY <1>6, RunAssumption
<1>9. Runs!SucceededIsOver'
  BY <1>3, <1>5, <1>7, <1>8 DEF Runs!SucceededIsOver, Runs!CommandAt
<1>10. Runs!LineGoesAfterLine'
  BY <1>3, <1>5 DEF Runs!LineGoesAfterLine
<1> QED BY <1>2, <1>3, <1>9, <1>10 DEF n

\* What reading a mark leaves of the marks.
LEMMA MarksLeft ==
    ASSUME Runs!TypeOK, s4 # <<>>, s4' = Tail(s4)
    PROVE  /\ s4[1] \in {"A", "C"} \cup Runs!Statuses /\ 1 \in 1..Len(s4)
           /\ s4' \in Seq({"A", "C"} \cup Runs!Statuses)
           /\ \A i \in 1..Len(s4') : i + 1 \in 1..Len(s4) /\ s4'[i] = s4[i+1] /\ i + 1 # 1
           /\ \A i \in 1..Len(s4') : i < Len(s4') => i + 1 < Len(s4) /\ s4'[i+1] = s4[i+1+1]
           /\ s4' # <<>> => 1 < Len(s4) /\ s4'[1] = s4[1+1]
<1>1. s4 \in Seq({"A", "C"} \cup Runs!Statuses)
  BY DEF Runs!TypeOK
<1>2. \A S, q : q \in Seq(S) /\ q # <<>> => Tail(q) \in Seq(S) /\ q[1] \in S
  OBVIOUS
<1>3. Len(s4) \in Nat /\ Len(s4) # 0 /\ Len(s4') = Len(s4) - 1 /\ \A i \in 1..Len(s4') : s4'[i] = s4[i+1]
  BY <1>1
<1>4. s4' \in Seq({"A", "C"} \cup Runs!Statuses) /\ s4[1] \in {"A", "C"} \cup Runs!Statuses
  BY <1>1, <1>2
<1>5. s4' # <<>> => Len(s4') # 0
  BY <1>4, EmptyIsShort
<1>6. 1 \in 1..Len(s4) /\ \A i \in 1..Len(s4') : i + 1 \in 1..Len(s4) /\ i + 1 # 1
  BY <1>3
<1>7. \A i \in 1..Len(s4') : i < Len(s4') => i + 1 < Len(s4) /\ i + 1 \in 1..Len(s4')
  BY <1>3
<1>8. Len(s4') # 0 => 1 < Len(s4) /\ 1 \in 1..Len(s4')
  BY <1>3
<1> QED BY <1>3, <1>4, <1>5, <1>6, <1>7, <1>8

\* A mark is read that ends no prompt, or a prompt that ends no line.
LEMMA TurnReadsMark ==
    ASSUME Runs!TurnInv, s4 # <<>>, s4' = Tail(s4), UNCHANGED <<s1, s2, s3, s5, s6, s8, s10, s11>>,
           s9' \in BOOLEAN,
           \/ s4[1] = "C" /\ s7' = Runs!StartOutput(s7)
           \/ s4[1] \in Runs!Statuses /\ s7' = Runs!FinishCommand(s7, s4[1])
           \/ s4[1] = "A" /\ s7' = Runs!StartPrompt(s7)
    PROVE  Runs!TurnInv'
<1>0. Runs!TypeOK /\ Runs!MarksInOrder
  BY DEF Runs!TurnInv
<1>1. Runs!MarksInOrder' /\ s7' \in Runs!TrackerStates
  BY <1>0, OrderRead
<1>2. Runs!TypeOK'
  BY <1>0, <1>1, MarksLeft DEF Runs!TypeOK
<1>3. ASSUME ~s10 PROVE Runs!SucceededIsOver' /\ Runs!LineGoesAfterLine'
  BY <1>3 DEF Runs!TurnInv, Runs!SucceededIsOver, Runs!LineGoesAfterLine, Runs!CommandAt
<1>4. ASSUME ~s10, s8.phase \in {"none", "running"} PROVE Runs!RunsOneCommand'
  <2>0. Runs!RunsOneCommand
    BY <1>4 DEF Runs!TurnInv
  <2>1. \A i \in 1..Len(s4') : s4'[i] = "C" =>
          /\ s8.phase = "running" /\ ~Runs!IsComment(s8.current) /\ ~s7.outputSince
          /\ s4[1] # "C"
          /\ \A j \in 1..Len(s4') : s4'[j] = "C" => j = i
          /\ i < Len(s4') /\ s4'[i+1] = "ok" => s5[s8.current] = "ended"
    <3> SUFFICES ASSUME NEW i \in 1..Len(s4'), s4'[i] = "C"
                 PROVE  /\ s8.phase = "running" /\ ~Runs!IsComment(s8.current) /\ ~s7.outputSince
                        /\ s4[1] # "C"
                        /\ \A j \in 1..Len(s4') : s4'[j] = "C" => j = i
                        /\ i < Len(s4') /\ s4'[i+1] = "ok" => s5[s8.current] = "ended"
      OBVIOUS
    <3>1. i + 1 \in 1..Len(s4) /\ s4[i+1] = "C" /\ i + 1 # 1 /\ 1 \in 1..Len(s4)
      BY <1>0, MarksLeft
    <3>2. /\ s8.phase = "running" /\ ~Runs!IsComment(s8.current) /\ ~s7.outputSince
          /\ \A j \in 1..Len(s4) : s4[j] = "C" => j = i + 1
          /\ i + 1 < Len(s4) /\ s4[i+1+1] = "ok" => s5[s8.current] = "ended"
      BY <2>0, <3>1 DEF Runs!RunsOneCommand
    <3>3. i < Len(s4') => i + 1 < Len(s4) /\ s4'[i+1] = s4[i+1+1]
      BY <1>0, MarksLeft
    <3>4. \A j \in 1..Len(s4') : s4'[j] = "C" => j = i
      <4>1. \A j \in 1..Len(s4') : s4'[j] = "C" => j + 1 = i + 1
        BY <1>0, <3>2, MarksLeft
      <4> QED BY <4>1
    <3> QED BY <3>1, <3>2, <3>3, <3>4
  <2>2. \A i \in 1..Len(s1) : Runs!CommandAt(i) =>
          /\ s8.phase = "running" /\ s1[i] = s8.current /\ s2 = 0 /\ ~s7.outputSince /\ s4[1] # "C"
          /\ \A j \in 1..Len(s4') : s4'[j] # "C"
          /\ \A j \in 1..Len(s1) : Runs!CommandAt(j) => j = i
    BY <1>0, <2>0, MarksLeft DEF Runs!RunsOneCommand
  <2>3. s2 > 0 => s2 = s8.current
    BY <2>0 DEF Runs!RunsOneCommand
  <2>4. s8.phase = "running" => s8.current > 0 /\ s8.status[s8.current] = "running"
    BY <2>0 DEF Runs!RunsOneCommand
  <2>5. s4[1] # "C" /\ ~s7.outputSince => ~s7'.outputSince
    <3>1. s7 \in Runs!TrackerStates /\ "ok" \in Runs!Statuses
      BY <1>0 DEF Runs!TypeOK, Runs!Statuses
    <3>2. Runs!StartPrompt(s7).outputSince = FALSE
      BY <3>1, TrackerSteps
    <3>3. s4[1] \in Runs!Statuses => Runs!FinishCommand(s7, s4[1]).outputSince = s7.outputSince
      BY ZenonT(40), <3>1, TrackerSteps
    <3> QED BY <3>2, <3>3
  <2>6. s7'.outputSince =>
          /\ s8.phase = "running" /\ ~Runs!IsComment(s8.current)
          /\ ~s7'.entry.end /\ s4' # <<>> /\ s4'[1] = "ok" => s5[s8.current] = "ended"
          /\ s7'.entry.end => /\ s7'.entry.exitCode \in Runs!Statuses
                              /\ s7'.entry.exitCode = "ok" => s5[s8.current] = "ended"
    <3>1. s7 \in Runs!TrackerStates
      BY <1>0 DEF Runs!TypeOK
    <3>2. CASE s4[1] = "C" /\ s7' = Runs!StartOutput(s7)
      <4>1. s7.entry.end = FALSE
        BY <1>0, <3>1, <3>2 DEF Runs!MarksInOrder, Runs!TrackerStates
      <4>2. s7'.entry.end = FALSE
        BY <3>1, <3>2, <4>1, TrackerSteps DEF Runs!Statuses
      <4>3. 1 \in 1..Len(s4)
        BY <1>0, MarksLeft
      <4>4. /\ s8.phase = "running" /\ ~Runs!IsComment(s8.current)
            /\ 1 < Len(s4) /\ s4[1+1] = "ok" => s5[s8.current] = "ended"
        BY <2>0, <3>2, <4>3 DEF Runs!RunsOneCommand
      <4>5. s4' # <<>> => 1 < Len(s4) /\ s4'[1] = s4[1+1]
        BY <1>0, MarksLeft
      <4> QED BY <4>2, <4>4, <4>5
    <3>3. CASE s4[1] \in Runs!Statuses /\ s7' = Runs!FinishCommand(s7, s4[1])
      <4>1. s7.entry.end = FALSE
        BY <1>0, <3>1, <3>3 DEF Runs!MarksInOrder, Runs!TrackerStates, Runs!Statuses
      <4>2. /\ s7'.outputSince = s7.outputSince /\ s7'.entry.end = TRUE
            /\ s7'.entry.exitCode = IF ~s7.entry.end /\ s7.entry.output # "none" THEN s4[1] ELSE s7.entry.exitCode
        <5>1. s7 \in Runs!TrackerStates /\ s4[1] \in Runs!Statuses  BY <3>1, <3>3
        <5> QED BY ZenonT(40), <3>3, <5>1, FinishSteps
      <4>3. s7.outputSince => s7.entry.output # "none"
        BY <1>0 DEF Runs!MarksInOrder
      <4>4. s7.outputSince =>
              /\ s8.phase = "running" /\ ~Runs!IsComment(s8.current)
              /\ s4[1] = "ok" => s5[s8.current] = "ended"
        BY <2>0, <4>1 DEF Runs!RunsOneCommand
      <4> QED BY <3>3, <4>1, <4>2, <4>3, <4>4
    <3>4. CASE s4[1] = "A" /\ s7' = Runs!StartPrompt(s7)
      <4>1. s7'.outputSince = FALSE
        BY <3>1, <3>4, TrackerSteps DEF Runs!Statuses
      <4> QED BY <4>1
    <3> QED BY <3>2, <3>3, <3>4
  <2>7. \A i \in 1..Len(s4') : s4'[i] = "C" => ~s7'.outputSince
    BY <2>1, <2>5
  <2>8. \A i \in 1..Len(s1) : Runs!CommandAt(i) => ~s7'.outputSince
    BY <2>2, <2>5
  <2> QED BY <2>1, <2>2, <2>3, <2>4, <2>6, <2>7, <2>8 DEF Runs!RunsOneCommand, Runs!CommandAt
<1> QED BY <1>1, <1>2, <1>3, <1>4 DEF Runs!TurnInv

\* What goes on at a prompt while a run listens.
LEMMA TurnAtPrompt ==
    ASSUME Runs!TurnInv, s4 # <<>>, s4[1] = "A", s4' = Tail(s4), UNCHANGED <<s2, s3, s10, s11>>,
           s7' = Runs!StartPrompt(s7), Runs!Apply(Runs!PromptReached(s8, Runs!PromptEvent(s7)))
    PROVE  Runs!TurnInv'
<1> DEFINE event == Runs!PromptEvent(s7)
           n == Runs!PromptReached(s8, event)
<1>0. Runs!TypeOK /\ Runs!MarksInOrder
  BY DEF Runs!TurnInv
<1>1. Runs!MarksInOrder' /\ s7' \in Runs!TrackerStates
  BY <1>0, OrderRead
<1>2. s7 \in Runs!TrackerStates /\ s8 \in Runs!RunStates
  BY <1>0 DEF Runs!TypeOK
<1>3. s7'.outputSince = FALSE
  BY <1>2, TrackerSteps DEF Runs!Statuses
<1>4. /\ event.exitCode = s7.entry.exitCode /\ event.status = s7.statusSince
      /\ event.started = IF s7.outputSince THEN "yes" ELSE "no"
  BY <1>0 DEF Runs!PromptEvent, Runs!MarksInOrder
<1>5. ASSUME n \in Runs!RunStates PROVE Runs!TypeOK'
  <2>1. /\ s1' \in Seq(0..Lines) /\ s5' \in [1..Lines -> {"none", "ended", "failed"}] /\ s6' \in 0..MaxSends
        /\ s8' \in Runs!RunStates /\ s9' \in BOOLEAN
    BY <1>0, <1>5, ApplyTypes
  <2> QED BY <1>0, <1>1, <2>1, MarksLeft DEF Runs!TypeOK
<1>6. CASE n = s8
  <2>1. UNCHANGED <<s1, s5, s6, s8>> /\ s9' \in BOOLEAN
    BY <1>6 DEF Runs!Apply
  <2> QED BY <2>1, TurnReadsMark
<1>7. CASE n # s8
  <2>1. s8.phase = "running"
    BY <1>7 DEF Runs!PromptReached, Runs!FinishLine
  <2>2. CASE n = Runs!FinishLine(s8, "bad")
    <3>1. n \in Runs!RunStates /\ n.phase = "failed"
      <4>1. /\ Runs!FinishLine(s8, "bad") \in Runs!RunStates
            /\ Runs!FinishLine(s8, "bad").phase = "failed"
        BY <1>2, <2>1, FinishIs
      <4> QED BY <2>2, <4>1
    <3>2. s8' = n
      BY DEF Runs!Apply
    <3>3. ASSUME ~s10 PROVE Runs!SucceededIsOver' /\ Runs!LineGoesAfterLine'
      <4>1. Runs!SucceededIsOver /\ Runs!LineGoesAfterLine /\ s8.current > 0
        BY <2>1, <3>3 DEF Runs!TurnInv, Runs!RunsOneCommand
      <4>2. Runs!Apply(Runs!FinishLine(s8, "bad"))
        BY <2>2
      <4> QED BY <1>0, <2>1, <4>1, <4>2, LineFails
    <3> QED BY <1>1, <1>5, <3>1, <3>2, <3>3 DEF Runs!TurnInv
  <2>3. CASE \E e : /\ e # "bad" /\ n = Runs!FinishLine(s8, e)
                    /\ ~s10 => /\ s8.current > 0 /\ (Runs!IsComment(s8.current) \/ s5[s8.current] = "ended")
                               /\ \A i \in 1..Len(s1) : ~Runs!CommandAt(i)
                               /\ s2 = 0 /\ \A j \in 1..Len(s4) : s4[j] # "C"
    <3>1. PICK e : /\ e # "bad" /\ n = Runs!FinishLine(s8, e)
                   /\ ~s10 => /\ s8.current > 0 /\ (Runs!IsComment(s8.current) \/ s5[s8.current] = "ended")
                              /\ \A i \in 1..Len(s1) : ~Runs!CommandAt(i)
                              /\ s2 = 0 /\ \A j \in 1..Len(s4) : s4[j] # "C"
      BY <2>3
    <3>2. n \in Runs!RunStates
      <4>1. PICK q \in Runs!RunStates : n = Runs!RunFrom(q, s8.current + 1)
        <5>1. \E q \in Runs!RunStates : Runs!FinishLine(s8, e) = Runs!RunFrom(q, s8.current + 1)
          BY ZenonT(40), <1>2, <2>1, <3>1, FinishIs
        <5> QED BY <3>1, <5>1
      <4>2. s8.current + 1 \in 0..(Lines + 1)
        <5>1. s8.current \in 0..Lines
          BY <1>2 DEF Runs!RunStates
        <5> QED BY <5>1, RunAssumption
      <4> QED BY <4>1, <4>2, RunFromIs
    <3>3. \A j \in 1..Len(s4') : s4'[j] # "C" \/ s10
      BY <1>0, <3>1, MarksLeft
    <3>4. ASSUME ~s10 PROVE Runs!SucceededIsOver' /\ Runs!LineGoesAfterLine' /\ Runs!RunsOneCommand'
      <4>1. Runs!SucceededIsOver /\ Runs!LineGoesAfterLine
        BY <3>4 DEF Runs!TurnInv
      <4>2. Runs!Apply(Runs!FinishLine(s8, e))
        BY <3>1
      <4>3. s2 = 0 /\ s2' = 0 /\ \A j \in 1..Len(s4') : s4'[j] # "C"
        BY <3>1, <3>3, <3>4
      <4> QED BY <1>0, <1>3, <2>1, <3>1, <3>4, <4>1, <4>2, <4>3, LineSucceeds
    <3> QED BY <1>1, <1>5, <3>2, <3>4 DEF Runs!TurnInv
  <2>4. ASSUME ~s10 PROVE Runs!RunsOneCommand /\ Runs!SucceededIsOver
    BY <2>1, <2>4 DEF Runs!TurnInv
  <2>5. s4[Len(s4)] # "C" => ~(s2 > 0)
    BY <1>0 DEF Runs!MarksInOrder
  <2>6. Len(s4) \in 1..Len(s4) /\ s2 \in 0..Lines /\ s8.current \in 0..Lines
    <3>1. s4 \in Seq({"A", "C"} \cup Runs!Statuses)
      BY <1>0 DEF Runs!TypeOK
    <3>2. Len(s4) \in Nat /\ Len(s4) # 0
      BY <3>1, EmptyIsShort
    <3>3. Len(s4) \in 1..Len(s4)
      BY <3>2
    <3> QED BY <1>0, <1>2, <3>3 DEF Runs!TypeOK, Runs!RunStates
  <2>7. CASE s7.outputSince
    <3>1. n = Runs!FinishLine(s8, s7.entry.exitCode)
      BY <1>4, <2>7 DEF Runs!PromptReached
    <3>2. ASSUME ~s10, s7.entry.exitCode # "bad"
          PROVE  /\ s8.current > 0 /\ s5[s8.current] = "ended"
                 /\ \A i \in 1..Len(s1) : ~Runs!CommandAt(i)
                 /\ s2 = 0 /\ \A j \in 1..Len(s4) : s4[j] # "C"
      <4>1. s7.entry.end
        BY <1>0 DEF Runs!MarksInOrder
      <4>2. s5[s8.current] = "ended"
        BY <2>4, <2>7, <3>2, <4>1 DEF Runs!RunsOneCommand, Runs!Statuses
      <4>3. \A j \in 1..Len(s4) : s4[j] # "C"
        BY <2>4, <2>7, <3>2 DEF Runs!RunsOneCommand
      <4>4. \A i \in 1..Len(s1) : ~Runs!CommandAt(i)
        BY <2>4, <2>7, <3>2 DEF Runs!RunsOneCommand
      <4>5. s8.current > 0
        BY <2>1, <2>4, <3>2 DEF Runs!RunsOneCommand
      <4>6. s2 = 0
        BY <2>5, <2>6, <4>3, RunAssumption
      <4> QED BY <4>2, <4>3, <4>4, <4>5, <4>6
    <3> QED BY <2>2, <2>3, <3>1, <3>2
  <2>8. CASE ~s7.outputSince /\ Runs!IsComment(s8.current)
    <3>1. n = Runs!FinishLine(s8, "unknown")
      BY <1>4, <2>1, <2>8 DEF Runs!PromptReached
    <3>2. ASSUME ~s10
          PROVE  /\ s8.current > 0
                 /\ \A i \in 1..Len(s1) : ~Runs!CommandAt(i)
                 /\ s2 = 0 /\ \A j \in 1..Len(s4) : s4[j] # "C"
      <4>1. \A j \in 1..Len(s4) : s4[j] # "C"
        BY <2>4, <2>8, <3>2 DEF Runs!RunsOneCommand
      <4>2. \A i \in 1..Len(s1) : ~Runs!CommandAt(i)
        BY <2>4, <2>8, <3>2 DEF Runs!RunsOneCommand, Runs!CommandAt
      <4>3. s8.current > 0
        BY <2>1, <2>4, <3>2 DEF Runs!RunsOneCommand
      <4>4. s2 = 0
        BY <2>5, <2>6, <4>1, RunAssumption
      <4> QED BY <4>1, <4>2, <4>3, <4>4
    <3> QED BY <2>3, <2>8, <3>1, <3>2
  <2>9. CASE ~s7.outputSince /\ ~Runs!IsComment(s8.current)
    BY <1>4, <1>7, <2>1, <2>2, <2>9 DEF Runs!PromptReached
  <2> QED BY <2>7, <2>8, <2>9
<1> QED BY <1>6, <1>7

LEMMA TurnMark ==
    ASSUME Runs!TurnInv, Runs!HandleMark
    PROVE  Runs!TurnInv'
<1>0. Runs!TypeOK /\ Runs!MarksInOrder
  BY DEF Runs!TurnInv
<1>1. s4 # <<>> /\ s4' = Tail(s4) /\ UNCHANGED <<s2, s3, s10, s11>> /\ Head(s4) = s4[1] /\ s9 \in BOOLEAN
  BY <1>0 DEF Runs!HandleMark, Runs!TypeOK
<1>2. CASE s4[1] = "C" /\ s7' = Runs!StartOutput(s7) /\ UNCHANGED <<s1, s5, s6, s8, s9>>
  BY <1>1, <1>2, TurnReadsMark
<1>3. CASE s4[1] \in Runs!Statuses /\ s7' = Runs!FinishCommand(s7, s4[1]) /\ UNCHANGED <<s1, s5, s6, s8, s9>>
  BY <1>1, <1>3, TurnReadsMark
<1>4. ASSUME s4[1] = "A", s7' = Runs!AfterInput(Runs!StartPrompt(s7)) PROVE s7' = Runs!StartPrompt(s7)
  <2>1. "ok" \in Runs!Statuses /\ s7 \in Runs!TrackerStates
    BY <1>0 DEF Runs!TypeOK, Runs!Statuses
  <2>2. Runs!StartPrompt(s7).sendsOutput = s7.sendsOutput /\ s7.sendsOutput \in BOOLEAN
    BY <2>1, TrackerSteps DEF Runs!TrackerStates
  <2>3. Runs!StartPrompt(s7).sendsOutput = TRUE
    BY <1>0, <2>2 DEF Runs!MarksInOrder
  <2> QED BY <1>4, <2>3, EnterStartsNothing
<1>5. CASE /\ s4[1] = "A" /\ s7' = Runs!AfterInput(Runs!StartPrompt(s7))
           /\ UNCHANGED <<s1, s5, s6, s8, s9>>
  BY <1>1, <1>4, <1>5, TurnReadsMark
<1>6. CASE /\ s4[1] = "A" /\ s7' = Runs!AfterInput(Runs!StartPrompt(s7))
           /\ Runs!Apply(Runs!PromptReached(s8, Runs!PromptEvent(s7)))
  BY <1>1, <1>4, <1>6, TurnAtPrompt
<1> QED BY <1>1, <1>2, <1>3, <1>5, <1>6 DEF Runs!HandleMark

\* A run starts, in a shell at its prompt.
LEMMA TurnStarts ==
    ASSUME Runs!TurnInv, Runs!StartComposerRun
    PROVE  Runs!TurnInv'
<1>0. Runs!TypeOK /\ Runs!MarksInOrder
  BY DEF Runs!TurnInv
<1>1. /\ s8 = Runs!NoRun /\ Runs!Apply(Runs!RunFrom(s8, 1)) /\ UNCHANGED <<s2, s3, s4, s10>>
      /\ s7' = Runs!AfterInput(s7)
  BY DEF Runs!StartComposerRun
<1>2. s7' = s7
  <2>1. s7.sendsOutput = TRUE
    BY <1>0 DEF Runs!MarksInOrder, Runs!TypeOK, Runs!TrackerStates
  <2> QED BY <1>1, <2>1, EnterStartsNothing
<1>3. s8 \in Runs!RunStates /\ s7 \in Runs!TrackerStates /\ 1 \in 0..(Lines + 1) /\ 1 \in 1..(Lines + 1)
  <2>1. 1 \in 0..(Lines + 1) /\ 1 \in 1..(Lines + 1)
    BY RunAssumption
  <2> QED BY <1>0, <2>1 DEF Runs!TypeOK
<1>4. Runs!RunFrom(s8, 1) \in Runs!RunStates
  BY <1>3, RunFromIs
<1>5. Runs!TypeOK'
  <2>1. /\ s1' \in Seq(0..Lines) /\ s5' \in [1..Lines -> {"none", "ended", "failed"}] /\ s6' \in 0..MaxSends
        /\ s8' \in Runs!RunStates /\ s9' \in BOOLEAN
    BY <1>0, <1>1, <1>4, ApplyTypes
  <2> QED BY <1>0, <1>1, <1>2, <2>1 DEF Runs!TypeOK
<1>6. Runs!MarksInOrder'
  BY <1>0, <1>1, <1>2 DEF Runs!MarksInOrder
<1>7. ASSUME ~s10 PROVE Runs!SucceededIsOver' /\ Runs!LineGoesAfterLine' /\ Runs!RunsOneCommand'
  <2>1. s8.phase = "none" /\ s8.current = 0 /\ \A j \in 1..Lines : s8.status[j] = "pending"
    BY <1>1 DEF Runs!NoRun
  <2>2. Runs!RunsOneCommand
    BY <1>7, <2>1 DEF Runs!TurnInv
  <2>3. (\A i \in 1..Len(s1) : ~Runs!CommandAt(i)) /\ (\A j \in 1..Len(s4) : s4[j] # "C") /\ ~s7.outputSince
    BY <2>1, <2>2 DEF Runs!RunsOneCommand
  <2>4. s7'.outputSince = FALSE
    BY <1>2, <1>3, <2>3 DEF Runs!TrackerStates
  <2>5. s2 \in 0..Lines /\ ~(s2 > 0)
    <3>1. s2 > 0 => s2 = 0
      BY <2>1, <2>2 DEF Runs!RunsOneCommand
    <3> QED BY <1>0, <3>1 DEF Runs!TypeOK
  <2>6. s2 = 0
    BY <2>5, RunAssumption
  <2>7. \A j \in 1..Len(s4') : s4'[j] # "C"
    BY <1>1, <2>3
  <2>8. /\ s8.phase = "running" => s8.current # 1
        /\ \A j \in 1..Lines : s8.status[j] = "succeeded" /\ ~Runs!IsComment(j) => s5[j] = "ended"
    BY <2>1
  <2>9. s2' = 0 /\ Runs!Apply(Runs!RunFrom(s8, 1))
    BY <1>1, <2>6
  <2> QED BY <1>0, <1>3, <2>3, <2>4, <2>6, <2>7, <2>8, <2>9, NextLine
<1> QED BY <1>1, <1>5, <1>6, <1>7 DEF Runs!TurnInv

\* The bar changes, and the run does not.
LEMMA TurnBar ==
    ASSUME Runs!TurnInv, UNCHANGED <<s1, s2, s3, s4, s5, s6, s7, s8, s9, s10>>
    PROVE  Runs!TurnInv'
BY DEF Runs!TurnInv, Runs!TypeOK, Runs!MarksInOrder, Runs!SucceededIsOver, Runs!LineGoesAfterLine,
       Runs!RunsOneCommand, Runs!CommandAt

LEMMA TurnButtons ==
    ASSUME Runs!TurnInv, Runs!RunButtons
    PROVE  Runs!TurnInv'
<1>0. Runs!TypeOK /\ Runs!MarksInOrder
  BY DEF Runs!TurnInv
<1>1. UNCHANGED <<s2, s3, s4>> /\ s7' = Runs!AfterInput(s7)
  BY DEF Runs!RunButtons
<1>2. s7' = s7
  <2>1. s7.sendsOutput = TRUE
    BY <1>0 DEF Runs!MarksInOrder, Runs!TypeOK, Runs!TrackerStates
  <2> QED BY <1>1, <2>1, EnterStartsNothing
<1>3. Runs!MarksInOrder'
  BY <1>0, <1>1, <1>2 DEF Runs!MarksInOrder
<1>4. s8 \in Runs!RunStates /\ s8.current \in 0..(Lines + 1) /\ s8.current + 1 \in 0..(Lines + 1)
  <2>1. s8.current \in 0..Lines
    BY <1>0 DEF Runs!TypeOK, Runs!RunStates
  <2>2. s8.current \in 0..(Lines + 1) /\ s8.current + 1 \in 0..(Lines + 1)
    BY <2>1, RunAssumption
  <2> QED BY <1>0, <2>2 DEF Runs!TypeOK
<1>5. ASSUME NEW n \in Runs!RunStates, Runs!Apply(n), s10' \in BOOLEAN PROVE Runs!TypeOK'
  <2>1. /\ s1' \in Seq(0..Lines) /\ s5' \in [1..Lines -> {"none", "ended", "failed"}] /\ s6' \in 0..MaxSends
        /\ s8' \in Runs!RunStates /\ s9' \in BOOLEAN
    BY <1>0, <1>5, ApplyTypes
  <2> QED BY <1>0, <1>1, <1>2, <1>5, <2>1 DEF Runs!TypeOK
<1>6. CASE s8.phase = "failed" /\ Runs!Apply(Runs!RetryLine(s8)) /\ s10' = TRUE
  <2>1. Runs!RetryLine(s8) \in Runs!RunStates
    BY <1>4, <1>6, RunFromIs DEF Runs!RetryLine
  <2> QED BY <1>3, <1>5, <1>6, <2>1 DEF Runs!TurnInv
<1>7. CASE s8.phase = "failed" /\ Runs!Apply(Runs!ContinueRun(s8)) /\ s10' = TRUE
  <2>1. Runs!ContinueRun(s8) \in Runs!RunStates
    BY <1>4, <1>7, RunFromIs DEF Runs!ContinueRun
  <2> QED BY <1>3, <1>5, <1>7, <2>1 DEF Runs!TurnInv
<1>8. CASE Runs!IsRunActive /\ Runs!Apply(Runs!StopRun(s8)) /\ UNCHANGED s10
  <2> DEFINE W == {"pending", "running", "succeeded", "failed", "unfinished"}
             n == Runs!StopRun(s8)
  <2>1. s8.status \in [1..Lines -> W] /\ Runs!RunStates = [phase : {"none", "running", "failed", "done", "stopped"},
                                                            current : 0..Lines, status : [1..Lines -> W]]
    BY <1>4 DEF Runs!RunStates
  <2>2. /\ n \in Runs!RunStates /\ n.phase = "stopped"
        /\ n.status = IF s8.phase = "running" THEN [s8.status EXCEPT ![s8.current] = "unfinished"] ELSE s8.status
    <3> DEFINE st == IF s8.phase = "running" THEN [s8.status EXCEPT ![s8.current] = "unfinished"] ELSE s8.status
    <3>1. st \in [1..Lines -> W]
      BY <2>1
    <3>2. n = [s8 EXCEPT !.phase = "stopped", !.status = st]
      BY <1>4, <1>8, <2>1 DEF Runs!StopRun, Runs!IsRunActive
    <3> HIDE DEF st
    <3>3. n \in Runs!RunStates /\ n.phase = "stopped" /\ n.status = st
      BY <1>4, <2>1, <3>1, <3>2
    <3> QED BY <3>3 DEF st
  <2> HIDE DEF n
  <2>3. s8' = n /\ UNCHANGED <<s1, s5>> /\ Runs!Apply(n)
    BY <1>8, <2>2 DEF Runs!Apply, n
  <2>4. \A j \in 1..Lines : n.status[j] = "succeeded" => s8.status[j] = "succeeded"
    BY <2>1, <2>2
  <2>5. \A i \in 1..Len(s1) : Runs!CommandAt(i) => s1[i] \in 1..Lines
    <3>1. \A S, x : x \in Seq(S) => \A i \in 1..Len(x) : x[i] \in S
      OBVIOUS
    <3>2. \A i \in 1..Len(s1) : s1[i] \in 0..Lines
      BY <1>0, <3>1 DEF Runs!TypeOK
    <3> QED BY <3>2, RunAssumption DEF Runs!CommandAt
  <2>6. s2 > 0 => s2 \in 1..Lines
    BY <1>0, RunAssumption DEF Runs!TypeOK
  <2>7. ASSUME ~s10 PROVE Runs!SucceededIsOver' /\ Runs!LineGoesAfterLine'
    <3>1. Runs!SucceededIsOver /\ Runs!LineGoesAfterLine
      BY <2>7 DEF Runs!TurnInv
    <3>2. Runs!SucceededIsOver'
      BY <1>1, <2>3, <2>4, <2>5, <2>6, <3>1 DEF Runs!SucceededIsOver, Runs!CommandAt
    <3> QED BY <2>3, <2>4, <3>1, <3>2 DEF Runs!LineGoesAfterLine
  <2>8. Runs!TypeOK'
    BY <1>0, <1>5, <1>8, <2>2, <2>3 DEF Runs!TypeOK
  <2> QED BY <1>3, <1>8, <2>2, <2>3, <2>7, <2>8 DEF Runs!TurnInv
<1> QED BY <1>6, <1>7, <1>8 DEF Runs!RunButtons

LEMMA TurnNext == Runs!TurnInv /\ [Runs!Next]_(Runs!vars) => Runs!TurnInv'
<1> SUFFICES ASSUME Runs!TurnInv, [Runs!Next]_(Runs!vars) PROVE Runs!TurnInv'
  OBVIOUS
<1>1. CASE Runs!ShellReads
  BY <1>1, TurnReads
<1>2. CASE Runs!ShellEnds
  BY <1>2, TurnEnds
<1>3. CASE Runs!PressEnter
  BY <1>3, TurnEnter
<1>4. CASE Runs!HandleMark
  BY <1>4, TurnMark
<1>5. CASE Runs!InsertIntoComposer \/ Runs!ClearComposer
  BY <1>5, TurnBar DEF Runs!InsertIntoComposer, Runs!ClearComposer, Runs!shellVars
<1>6. CASE Runs!Submit \/ Runs!AnswerConfirm
  BY <1>6, TurnBar, TurnStarts DEF Runs!Submit, Runs!AnswerConfirm, Runs!shellVars
<1>7. CASE Runs!RunButtons
  BY <1>7, TurnButtons
<1>8. CASE UNCHANGED Runs!vars
  BY <1>8, TurnBar DEF Runs!vars, Runs!shellVars
<1> QED BY <1>1, <1>2, <1>3, <1>4, <1>5, <1>6, <1>7, <1>8 DEF Runs!Next

\* A line of a run goes to the shell once the one before it has ended there, whatever Enters
\* the user presses meanwhile, as long as no failure has been answered.
THEOREM LinesGoInTurn == AllSpec => []LinesInTurn
<1> DEFINE I == part = "runs" => Runs!TurnInv
<1>1. AllInit => I
  BY TurnInit DEF AllInit
<1>2. I /\ [AllNext]_allVars => I'
  <2> SUFFICES ASSUME I, [AllNext]_allVars, part' = "runs" PROVE Runs!TurnInv'
    OBVIOUS
  <2>1. part = "runs" /\ (Runs!Next \/ UNCHANGED Runs!vars)
    BY DEF AllNext, allVars, slots, Runs!vars, Runs!shellVars
  <2> QED BY <2>1, TurnNext
<1>3. I => LinesInTurn
  BY DEF LinesInTurn, Runs!TurnInv, Runs!LinesInTurn
<1> QED BY <1>1, <1>2, <1>3, PTL DEF AllSpec
=============================================================================
