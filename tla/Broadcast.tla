----------------------------- MODULE Broadcast -----------------------------
(***************************************************************************)
(* Broadcasting what is typed or sent to several terminals:                *)
(* useBroadcastState, useBroadcastRuntime, useBroadcastSending and         *)
(* useBroadcastControls of src/components/TTermApp.                        *)
(*                                                                         *)
(* A session is a pair [tab, nonce]: reconnecting a tab starts the session *)
(* of its next nonce.  A request - sending a command, starting a live      *)
(* broadcast - first has its targets connected, asking before it           *)
(* reconnects any, then asks about itself, and only then acts; tabs close, *)
(* connections come and go while it waits.  Writes go through one queue    *)
(* and wait for the answer of the one before.                              *)
(*                                                                         *)
(* Dialogs are modal, so the user does nothing else while one is open; but *)
(* there is one place for them, and a dialog opened over another leaves    *)
(* the flow behind the first without an answer, ever.  The refs the        *)
(* callbacks read are one with the state they mirror.  What the backend    *)
(* answers to a write is any status.                                       *)
(***************************************************************************)
EXTENDS Naturals, Sequences, FiniteSets, TLAPS

CONSTANTS
    Tabs,         \* session tabs
    ConnStates,   \* the connection states of the instance
    MaxNonce,     \* bound on reconnects of a tab
    MaxGeneration,\* bound on starts, stops, pauses and resumes
    MaxQueue      \* bound on writes waiting

ASSUME BoundsAssumption == MaxNonce \in Nat /\ MaxGeneration \in Nat /\ MaxQueue \in Nat

VARIABLES
    open,         \* tabs that are open
    nonce,        \* Tab.sessionNonce
    runtime,      \* terminalRuntimeStates
    targetIds,    \* broadcastTargetIds
    unavailable,  \* unavailableBroadcastTargetIds
    live,         \* [source, state]: liveSourceRef and liveStateRef
    generation,   \* broadcastGenerationRef
    preparing,    \* broadcastPreparingRef
    flow,         \* the request under way
    paste,        \* the session whose paste waits for an answer
    dialog,       \* whose question is on screen
    queue,        \* broadcastWriteQueueRef: the writes not settled yet
    writing       \* what the head of the queue is writing, once it has started

vars == <<open, nonce, runtime, targetIds, unavailable, live, generation,
          preparing, flow, paste, dialog, queue, writing>>

Session(tab, n) == [tab |-> tab, nonce |-> n]
None == [tab |-> "none"]

NoRuntime == [state |-> "none"]
Runtime(state, n) == [state |-> state, nonce |-> n]

NoFlow == [stage |-> "none"]
NotWriting == [kind |-> "none"]

isTerminalConnectionUnavailable(state) == state \in {"disconnected", "reconnecting", "error"}

Connected(tab) == runtime[tab] = Runtime("connected", nonce[tab])

SessionsOf(tabs) == {Session(t, nonce[t]) : t \in tabs}

\* resolveBroadcastTargets: the selected sessions that can be written to now.
ResolveBroadcastTargets ==
    SessionsOf({t \in targetIds \cap open : t \notin unavailable /\ Connected(t)})

----------------------------------------------------------------------------
Init ==
    /\ open = Tabs
    /\ nonce = [t \in Tabs |-> 0]
    /\ runtime = [t \in Tabs |-> NoRuntime]
    /\ targetIds = {}
    /\ unavailable = {}
    /\ live = [source |-> None, state |-> "idle"]
    /\ generation = 0
    /\ preparing = FALSE
    /\ flow = NoFlow
    /\ paste = None
    /\ dialog = "none"
    /\ queue = <<>>
    /\ writing = NotWriting

NextGeneration == generation < MaxGeneration /\ generation' = generation + 1

StopKeepsState == NextGeneration /\ live' = [live EXCEPT !.source = None]

StopLiveBroadcast == NextGeneration /\ live' = [source |-> None, state |-> "idle"]

SourceGoneIgnoringNonce(tabs, nonces, states) ==
    LET s == live.source
    IN  /\ s # None
        /\ \/ s.tab \notin tabs
           \/ states[s.tab] # NoRuntime /\ isTerminalConnectionUnavailable(states[s.tab].state)

\* Whether the live source, if there is one, is still the session it was.
SourceGone(tabs, nonces, states) ==
    LET s == live.source
    IN  /\ s # None
        /\ \/ s.tab \notin tabs
           \/ nonces[s.tab] # s.nonce
           \/ /\ states[s.tab] # NoRuntime
              /\ \/ states[s.tab].nonce # s.nonce
                 \/ isTerminalConnectionUnavailable(states[s.tab].state)

\* Tabs or runtime states change: stopLiveSource when the handler asks for it,
\* and the effect that watches the source.
Follow(tabs, nonces, states, stopped) ==
    /\ open' = tabs
    /\ nonce' = nonces
    /\ runtime' = states
    /\ IF live.source \in stopped \/ SourceGone(tabs, nonces, states)
       THEN StopLiveBroadcast
       ELSE UNCHANGED <<live, generation>>

UserActs == dialog = "none"

\* A question on screen; the one it covers is never answered.  A flow whose
\* question is covered while it prepares keeps the others out for good.
OpenDialog(owner, nextFlow, nextPaste) ==
    /\ dialog' = owner
    /\ flow' = IF dialog # "flow" \/ owner = "flow" THEN nextFlow
               ELSE IF preparing THEN [flow EXCEPT !.stage = "unanswered"] ELSE NoFlow
    /\ paste' = IF dialog = "paste" /\ owner # "paste" THEN None ELSE nextPaste

----------------------------------------------------------------------------
(* Tabs and their terminals.                                               *)

\* The tab goes, and its terminal with it: that reports it has no state left.
CloseTab ==
    /\ UserActs
    /\ \E t \in open :
        /\ Follow(open \ {t}, nonce, [runtime EXCEPT ![t] = NoRuntime], SessionsOf({t}))
        /\ targetIds' = targetIds \ {t}
    /\ UNCHANGED <<unavailable, preparing, flow, paste, dialog, queue, writing>>

ReconnectTab ==
    /\ UserActs
    /\ \E t \in open :
        /\ nonce[t] < MaxNonce
        /\ Follow(open, [nonce EXCEPT ![t] = @ + 1], runtime, {})
    /\ UNCHANGED <<targetIds, unavailable, preparing, flow, paste, dialog, queue, writing>>

\* handleTerminalConnectionStateChange: of the tab's session, or of the one
\* before it while the new one has not reported yet.
ConnectionStateChange ==
    /\ \E t \in open, state \in ConnStates : \E n \in 0..nonce[t] :
        /\ runtime[t] # Runtime(state, n)
        /\ runtime[t] # NoRuntime => n >= runtime[t].nonce
        /\ Follow(open, nonce, [runtime EXCEPT ![t] = Runtime(state, n)],
                  IF isTerminalConnectionUnavailable(state) THEN {Session(t, n)} ELSE {})
        /\ unavailable' = IF state = "connected" THEN unavailable \ {t} ELSE unavailable
    /\ UNCHANGED <<targetIds, preparing, flow, paste, dialog, queue, writing>>

\* The same with a null state: the terminal is unmounted, or its session replaced.
TerminalGone ==
    /\ \E t \in open :
        /\ runtime[t] # NoRuntime
        /\ Follow(open, nonce, [runtime EXCEPT ![t] = NoRuntime], {})
    /\ UNCHANGED <<targetIds, unavailable, preparing, flow, paste, dialog, queue, writing>>

\* handleTerminalSessionUnavailable: the session said so itself.
SessionUnavailable ==
    /\ \E t \in open : \E n \in 0..nonce[t] :
        /\ Follow(open, nonce, runtime, {Session(t, n)})
        /\ unavailable' = unavailable \cup {t}
    /\ UNCHANGED <<targetIds, preparing, flow, paste, dialog, queue, writing>>

\* handleTerminalSensitivePrompt: the source asks for a password.
SensitivePrompt ==
    /\ live.source # None
    /\ StopLiveBroadcast
    /\ UNCHANGED <<open, nonce, runtime, targetIds, unavailable, preparing, flow, paste,
                   dialog, queue, writing>>

----------------------------------------------------------------------------
(* The panel.                                                              *)

ToggleBroadcastTarget ==
    /\ UserActs /\ ~preparing
    /\ \E t \in open : targetIds' = (targetIds \ {t}) \cup ({t} \ targetIds)
    /\ UNCHANGED <<open, nonce, runtime, unavailable, live, generation, preparing, flow,
                   paste, dialog, queue, writing>>

ClearBroadcastTargets ==
    /\ UserActs /\ ~preparing
    /\ targetIds' = {}
    /\ IF live.source # None THEN StopLiveBroadcast ELSE UNCHANGED <<live, generation>>
    /\ UNCHANGED <<open, nonce, runtime, unavailable, preparing, flow, paste, dialog, queue,
                   writing>>

PauseKeepsGeneration ==
    /\ UserActs
    /\ live.source # None
    /\ live' = [live EXCEPT !.state = IF @ = "active" THEN "paused" ELSE "active"]
    /\ UNCHANGED <<open, nonce, runtime, targetIds, unavailable, generation, preparing, flow, paste,
                   dialog, queue, writing>>

PauseOrResume ==
    /\ UserActs
    /\ live.source # None
    /\ NextGeneration
    /\ live' = [live EXCEPT !.state = IF @ = "active" THEN "paused" ELSE "active"]
    /\ UNCHANGED <<open, nonce, runtime, targetIds, unavailable, preparing, flow, paste,
                   dialog, queue, writing>>

----------------------------------------------------------------------------
(* A request: ensureBroadcastTargetsConnected, then what it is for.        *)

Enqueue(write) == Len(queue) < MaxQueue /\ queue' = Append(queue, write)

\* The targets are connected: a command of several lines and a live broadcast
\* ask, a command of one line is queued.
Prepared(request, targets) ==
    /\ preparing' = FALSE
    /\ \/ /\ OpenDialog("flow", [request EXCEPT !.stage = "asked", !.targets = targets], paste)
          /\ UNCHANGED queue
       \/ /\ request.kind = "command"
          /\ Enqueue([kind |-> "command", targets |-> targets])
          /\ flow' = NoFlow
          /\ UNCHANGED <<paste, dialog>>

StartRequest(request) ==
    LET targets == targetIds \cap open
    IN  /\ UserActs /\ ~preparing /\ flow = NoFlow
        /\ targets # {}
        /\ IF \A t \in targets : Connected(t)
           THEN Prepared([request EXCEPT !.targets = SessionsOf(targets)], SessionsOf(targets))
           ELSE /\ preparing' = TRUE
                /\ OpenDialog("flow", [request EXCEPT !.stage = "reconnect",
                                                      !.targets = SessionsOf(targets)], paste)
                /\ UNCHANGED queue
        /\ UNCHANGED <<open, nonce, runtime, targetIds, unavailable, live, generation, writing>>

Request(kind, source) == [stage |-> "start", kind |-> kind, source |-> source, targets |-> {}]

SendBroadcastCommand == StartRequest(Request("command", "none"))

StartLiveBroadcast ==
    \E t \in open : /\ Connected(t)
                    /\ live.source = None
                    /\ StartRequest(Request("live", t))

\* The user agrees to reconnect: every target not connected when the request
\* was made, and not connecting now, goes to its next session.
ReconnectTargets ==
    /\ dialog = "flow" /\ flow.stage = "reconnect"
    /\ LET lost == {s \in flow.targets : runtime[s.tab] # Runtime("connected", s.nonce)}
           again == {s \in lost : runtime[s.tab] # Runtime("connecting", s.nonce)}
           bumped == {s.tab : s \in again} \cap open
       IN  /\ \A t \in bumped : nonce[t] < MaxNonce
           /\ Follow(open, [t \in Tabs |-> IF t \in bumped THEN nonce[t] + 1 ELSE nonce[t]],
                     runtime, {})
           /\ flow' = [flow EXCEPT !.stage = "connecting",
                                   !.targets = {IF s \in again THEN Session(s.tab, s.nonce + 1) ELSE s
                                                  : s \in flow.targets}]
    /\ dialog' = "none"
    /\ UNCHANGED <<targetIds, unavailable, preparing, paste, queue, writing>>

\* evaluateBroadcastPreflight; which target it meets first is left open.
TargetFailed(s) ==
    \/ s.tab \notin open
    \/ nonce[s.tab] > s.nonce
    \/ /\ nonce[s.tab] = s.nonce
       /\ runtime[s.tab] # NoRuntime
       /\ \/ runtime[s.tab].nonce > s.nonce
          \/ runtime[s.tab].nonce = s.nonce /\ runtime[s.tab].state \in {"error", "disconnected"}

TargetReady(s) ==
    s.tab \in open /\ nonce[s.tab] = s.nonce /\ runtime[s.tab] = Runtime("connected", s.nonce)

EvaluateBroadcastPreflight ==
    /\ flow.stage = "connecting"
    /\ \/ /\ \E s \in flow.targets : TargetFailed(s)
          /\ flow' = NoFlow
          /\ preparing' = FALSE
          /\ UNCHANGED <<paste, dialog, queue>>
       \/ /\ \A s \in flow.targets : TargetReady(s)
          /\ Prepared(flow, flow.targets)
    /\ UNCHANGED <<open, nonce, runtime, targetIds, unavailable, live, generation, writing>>

\* The answer to a request's own question, or no to any of its questions.
SendAgreed ==
    /\ dialog = "flow" /\ flow.stage = "asked" /\ flow.kind = "command"
    /\ Enqueue([kind |-> "command", targets |-> flow.targets])
    /\ flow' = NoFlow /\ dialog' = "none"
    /\ UNCHANGED <<open, nonce, runtime, targetIds, unavailable, live, generation, preparing,
                   paste, writing>>

LiveAgreed ==
    /\ dialog = "flow" /\ flow.stage = "asked" /\ flow.kind = "live"
    /\ LET source == flow.source
           others(targets) == {s \in targets : s.tab # source}
           valid == /\ source \in open /\ Connected(source)
                    /\ others(ResolveBroadcastTargets) # {}
                    /\ others(ResolveBroadcastTargets) = others(flow.targets)
       IN  IF valid
           THEN /\ NextGeneration
                /\ live' = [source |-> Session(source, nonce[source]), state |-> "active"]
                /\ targetIds' = targetIds \ {source}
           ELSE UNCHANGED <<live, generation, targetIds>>
    /\ flow' = NoFlow /\ dialog' = "none"
    /\ UNCHANGED <<open, nonce, runtime, unavailable, preparing, paste, queue, writing>>

RequestRefused ==
    /\ dialog = "flow"
    /\ flow' = NoFlow /\ dialog' = "none" /\ preparing' = FALSE
    /\ UNCHANGED <<open, nonce, runtime, targetIds, unavailable, live, generation, paste,
                   queue, writing>>

----------------------------------------------------------------------------
(* handleTerminalInput, at the live source; elsewhere, and while paused,   *)
(* input goes to its own terminal alone.                                   *)

LiveInput(source) == [kind |-> "input", source |-> source, generation |-> generation]

TypeAtLiveSource ==
    /\ UserActs
    /\ live.source # None /\ live.state = "active"
    /\ \/ Enqueue(LiveInput(live.source)) /\ UNCHANGED <<flow, paste, dialog>>
       \/ OpenDialog("paste", flow, live.source) /\ UNCHANGED queue
    /\ UNCHANGED <<open, nonce, runtime, targetIds, unavailable, live, generation, preparing,
                   writing>>

\* The generation is read once the paste is agreed to.
AnswerPaste ==
    /\ dialog = "paste"
    /\ \/ Enqueue(LiveInput(paste))
       \/ UNCHANGED queue
    /\ paste' = None /\ dialog' = "none"
    /\ UNCHANGED <<open, nonce, runtime, targetIds, unavailable, live, generation, preparing,
                   flow, writing>>

\* Another part of the program - the prompt before quitting - asks something.
OtherDialog ==
    /\ dialog # "other"
    /\ OpenDialog("other", flow, paste)
    /\ UNCHANGED <<open, nonce, runtime, targetIds, unavailable, live, generation, preparing,
                   queue, writing>>

OtherAnswered ==
    /\ dialog = "other" /\ dialog' = "none"
    /\ UNCHANGED <<open, nonce, runtime, targetIds, unavailable, live, generation, preparing,
                   flow, paste, queue, writing>>

----------------------------------------------------------------------------
(* The queue of writes.                                                    *)

CurrentIfTargetsLeft(write) ==
    IF write.kind = "command" THEN ResolveBroadcastTargets # {}
    ELSE write.generation = generation /\ live.source # None

\* A write is dropped when the targets of a command are no longer the ones it
\* was prepared for, or the broadcast it was typed for has ended.
Current(write) ==
    IF write.kind = "command" THEN ResolveBroadcastTargets = write.targets
    ELSE write.generation = generation /\ live.source # None

StartWrite ==
    /\ queue # <<>> /\ writing = NotWriting
    /\ LET write == Head(queue)
       IN  IF ~Current(write) THEN queue' = Tail(queue) /\ UNCHANGED writing
           ELSE /\ writing' = [kind |-> write.kind,
                               guard |-> IF write.kind = "command" THEN None ELSE live.source,
                               targets |-> {s \in ResolveBroadcastTargets :
                                              write.kind = "input" => s.tab # live.source.tab}]
                /\ UNCHANGED queue
    /\ UNCHANGED <<open, nonce, runtime, targetIds, unavailable, live, generation, preparing,
                   flow, paste, dialog>>

\* write_pty_batch answers, or fails; a failed write does not hold up the next.
WriteAnswered ==
    /\ writing # NotWriting
    /\ queue' = Tail(queue)
    /\ writing' = NotWriting
    /\ LET input == Head(queue)
           ended == writing.kind = "command" \/ input.generation # generation \/ live.source = None
       IN  \/ \* every status the backend may give; the source must be written to
              \E failed \in SUBSET {s.tab : s \in writing.targets} :
                 /\ IF ended THEN UNCHANGED <<unavailable, targetIds>>
                    ELSE /\ unavailable' = unavailable \cup failed
                         /\ targetIds' = targetIds \ failed
                 /\ UNCHANGED <<live, generation>>
           \/ \* the source was not written to
              /\ ~ended /\ live.source = input.source
              /\ StopLiveBroadcast /\ UNCHANGED <<unavailable, targetIds>>
           \/ \* the call itself failed
              /\ writing.kind = "input"
              /\ StopLiveBroadcast /\ UNCHANGED <<unavailable, targetIds>>
    /\ UNCHANGED <<open, nonce, runtime, preparing, flow, paste, dialog>>

----------------------------------------------------------------------------
Next ==
    \/ CloseTab \/ ReconnectTab \/ ConnectionStateChange \/ TerminalGone
    \/ SessionUnavailable \/ SensitivePrompt
    \/ ToggleBroadcastTarget \/ ClearBroadcastTargets \/ PauseOrResume
    \/ SendBroadcastCommand \/ StartLiveBroadcast \/ ReconnectTargets
    \/ EvaluateBroadcastPreflight \/ SendAgreed \/ LiveAgreed \/ RequestRefused
    \/ TypeAtLiveSource \/ AnswerPaste \/ OtherDialog \/ OtherAnswered
    \/ StartWrite \/ WriteAnswered

Spec == Init /\ [][Next]_vars

----------------------------------------------------------------------------
(* What the broadcast promises.                                            *)

Stages == {"none", "reconnect", "connecting", "asked", "unanswered"}

\* The targets of a request are sessions; a closed tab among them may be counted past MaxNonce.
AnySession == [tab : Tabs, nonce : Nat]
Writes == [kind : {"command"}, targets : SUBSET AnySession]
          \cup [kind : {"input"}, source : AnySession, generation : Nat]
Requests == [stage : Stages \cup {"start"}, kind : {"command", "live"}, source : Tabs \cup {"none"},
             targets : SUBSET AnySession]

\* The types the writes, requests and questions keep, whatever happens to the tabs.
TypeOK ==
    /\ open \subseteq Tabs /\ targetIds \subseteq Tabs
    /\ nonce \in [Tabs -> Nat]
    /\ live.source \in AnySession \cup {None}
    /\ live = [source |-> live.source, state |-> live.state]
    /\ generation \in Nat
    /\ flow = NoFlow \/ flow \in Requests
    /\ paste \in AnySession \cup {None}
    /\ queue \in Seq(Writes)

\* What is typed or pasted at a session goes out to others only while the live
\* broadcast it was typed for runs: not after that was stopped, paused or
\* moved to another session, however long the write waited in the queue or
\* the paste for an answer.
InputStaysWithItsBroadcast ==
    writing' # writing /\ writing'.kind = "input" =>
        /\ live = [source |-> Head(queue).source, state |-> "active"]
        /\ Head(queue).source.tab \notin {s.tab : s \in writing'.targets}

\* A command goes to exactly the sessions it was prepared for, every one of
\* them connected: a tab reconnected since is another session, and none of
\* the targets may have closed or dropped out.
CommandToConfirmedTargets ==
    writing' # writing /\ writing'.kind = "command" =>
        /\ writing'.targets = Head(queue).targets
        /\ \A s \in writing'.targets : s.tab \in open /\ s.nonce = nonce[s.tab] /\ Connected(s.tab)

\* The live source is an open tab's session of now, and not one known to be
\* gone: closing, reconnecting or losing it ends the broadcast, while news of
\* an earlier session of its tab does not keep it alive.
LiveSourceIsLive ==
    live.source # None =>
        /\ live.source.tab \in open
        /\ live.source.nonce = nonce[live.source.tab]
        /\ LET known == runtime[live.source.tab]
           IN  known # NoRuntime => known.nonce = live.source.nonce
                                    /\ ~isTerminalConnectionUnavailable(known.state)

\* The three together: what the broadcast owes its user at every step (useBroadcastSending,
\* useBroadcastRuntime).
BroadcastStaysTrue ==
    [][InputStaysWithItsBroadcast /\ CommandToConfirmedTargets /\ LiveSourceIsLive']_vars

----------------------------------------------------------------------------
(* The proof.  A write carries the generation it was typed in, and a paste *)
(* the session it was made at; what keeps them together with the broadcast *)
(* is that every start, stop, pause and resume is a new generation, and    *)
(* that none but a stop happens while the question about a paste is open.  *)

\* An input of this generation was typed at the source that is live, if one is.
InputIsLive(write) ==
    /\ write.generation <= generation
    /\ write.generation = generation /\ live.source # None =>
         live = [source |-> write.source, state |-> "active"]

InputsInv == \A i \in DOMAIN queue : queue[i].kind = "input" => InputIsLive(queue[i])

\* The question on screen has something behind it.
DialogInv ==
    /\ dialog = "flow" => flow # NoFlow /\ flow.stage \in {"reconnect", "asked"}
    /\ paste # None <=> dialog = "paste"
    /\ paste # None /\ live.source # None => live = [source |-> paste, state |-> "active"]

BroadcastInv == TypeOK /\ InputsInv /\ DialogInv /\ LiveSourceIsLive

LEMMA InvInit == Init => BroadcastInv
BY BoundsAssumption
   DEF Init, BroadcastInv, TypeOK, InputsInv, DialogInv, LiveSourceIsLive, None

\* What a step may do to the live broadcast: nothing, or stop it.
StaysOrStops ==
    \/ live' = live /\ generation' = generation
    \/ live' = [source |-> None, state |-> "idle"] /\ generation' = generation + 1

LEMMA StopStops == ASSUME StopLiveBroadcast PROVE StaysOrStops
BY DEF StopLiveBroadcast, NextGeneration, StaysOrStops

\* What a change of tabs or states leaves behind.
LEMMA FollowKeeps ==
    ASSUME NEW tabs, NEW nonces, NEW states, NEW stopped,
           Follow(tabs, nonces, states, stopped)
    PROVE  /\ open' = tabs /\ nonce' = nonces /\ runtime' = states
           /\ StaysOrStops
           /\ LiveSourceIsLive'
<1>0. open' = tabs /\ nonce' = nonces /\ runtime' = states  BY DEF Follow
<1>1. CASE live.source \in stopped \/ SourceGone(tabs, nonces, states)
  BY <1>0, <1>1, StopStops DEF Follow, StopLiveBroadcast, LiveSourceIsLive
<1>2. CASE ~(live.source \in stopped \/ SourceGone(tabs, nonces, states))
  <2>1. live' = live /\ generation' = generation  BY <1>2 DEF Follow
  <2>2. ~SourceGone(tabs, nonces, states)  BY <1>2
  <2>3. LiveSourceIsLive'
    BY <1>0, <2>1, <2>2 DEF SourceGone, LiveSourceIsLive, isTerminalConnectionUnavailable
  <2> QED BY <1>0, <2>1, <2>3 DEF StaysOrStops
<1> QED BY <1>1, <1>2

\* Neither makes a waiting input wrong, nor an open question.
LEMMA StopKeepsWaiting ==
    ASSUME TypeOK, InputsInv, DialogInv, StaysOrStops
    PROVE  /\ queue' = queue => InputsInv'
           /\ flow' = flow /\ paste' = paste /\ dialog' = dialog => DialogInv'
           /\ live'.source \in AnySession \cup {None}
           /\ live' = [source |-> live'.source, state |-> live'.state]
           /\ generation' \in Nat
<1>1. queue' = queue => InputsInv'
  <2> SUFFICES ASSUME queue' = queue, NEW i \in DOMAIN queue, queue[i].kind = "input"
               PROVE  InputIsLive(queue[i])'
    BY DEF InputsInv
  <2>1. InputIsLive(queue[i])  BY DEF InputsInv
  <2>2. queue[i] \in Writes  BY DEF TypeOK
  <2>3. queue[i].generation \in Nat  BY <2>2 DEF Writes
  <2> QED BY <2>1, <2>3 DEF InputIsLive, StaysOrStops, TypeOK
<1>2. flow' = flow /\ paste' = paste /\ dialog' = dialog => DialogInv'
  BY DEF DialogInv, StaysOrStops
<1>3. live'.source \in AnySession \cup {None}
  BY DEF StaysOrStops, TypeOK
<1>4. live' = [source |-> live'.source, state |-> live'.state]
  BY DEF StaysOrStops, TypeOK
<1> QED BY <1>1, <1>2, <1>3, <1>4 DEF StaysOrStops, TypeOK

\* The live source where neither tabs nor states change.
LEMMA SourceStays ==
    ASSUME LiveSourceIsLive, StaysOrStops, UNCHANGED <<open, nonce, runtime>>
    PROVE  LiveSourceIsLive'
BY DEF LiveSourceIsLive, StaysOrStops

LEMMA TabsKeepInv ==
    ASSUME BroadcastInv,
           CloseTab \/ ReconnectTab \/ ConnectionStateChange \/ TerminalGone \/ SessionUnavailable
    PROVE  BroadcastInv'
<1>0. TypeOK /\ InputsInv /\ DialogInv  BY DEF BroadcastInv
<1>1. StaysOrStops /\ LiveSourceIsLive'
  BY FollowKeeps DEF CloseTab, ReconnectTab, ConnectionStateChange, TerminalGone, SessionUnavailable
<1>2. UNCHANGED <<queue, flow, paste, dialog>>
  BY DEF CloseTab, ReconnectTab, ConnectionStateChange, TerminalGone, SessionUnavailable
<1>3. open' \subseteq Tabs /\ targetIds' \subseteq Tabs /\ nonce' \in [Tabs -> Nat]
  <2>1. CASE CloseTab
    <3>1. PICK t \in open : /\ Follow(open \ {t}, nonce, [runtime EXCEPT ![t] = NoRuntime], SessionsOf({t}))
                            /\ targetIds' = targetIds \ {t}
      BY <2>1 DEF CloseTab
    <3>2. open' = open \ {t} /\ nonce' = nonce  BY <3>1, FollowKeeps
    <3> QED BY <1>0, <3>1, <3>2 DEF TypeOK
  <2>2. CASE ReconnectTab
    <3>1. PICK t \in open : Follow(open, [nonce EXCEPT ![t] = @ + 1], runtime, {})
      BY <2>2 DEF ReconnectTab
    <3>2. open' = open /\ nonce' = [nonce EXCEPT ![t] = @ + 1]  BY <3>1, FollowKeeps
    <3>3. targetIds' = targetIds  BY <2>2 DEF ReconnectTab
    <3> QED BY <1>0, <3>2, <3>3 DEF TypeOK
  <2>3. CASE ConnectionStateChange
    BY <1>0, <2>3, FollowKeeps DEF TypeOK, ConnectionStateChange
  <2>4. CASE TerminalGone
    BY <1>0, <2>4, FollowKeeps DEF TypeOK, TerminalGone
  <2>5. CASE SessionUnavailable
    BY <1>0, <2>5, FollowKeeps DEF TypeOK, SessionUnavailable
  <2> QED BY <2>1, <2>2, <2>3, <2>4, <2>5
<1>4. TypeOK'  BY <1>0, <1>1, <1>2, <1>3, StopKeepsWaiting DEF TypeOK
<1> QED BY <1>0, <1>1, <1>2, <1>4, StopKeepsWaiting DEF BroadcastInv

\* A write joins the queue.
LEMMA EnqueueKeeps ==
    ASSUME TypeOK, InputsInv, NEW write \in Writes, Enqueue(write),
           live' = live, generation' = generation,
           write.kind = "input" => InputIsLive(write)
    PROVE  queue' \in Seq(Writes) /\ InputsInv'
<1>1. queue' = Append(queue, write)  BY DEF Enqueue
<1>2. queue' \in Seq(Writes)  BY <1>1 DEF TypeOK
<1>3. ASSUME NEW i \in DOMAIN queue', queue'[i].kind = "input"  PROVE InputIsLive(queue[i])'
  <2>1. CASE i \in DOMAIN queue
    BY <1>1, <1>3, <2>1 DEF TypeOK, InputsInv, InputIsLive
  <2>2. CASE i \notin DOMAIN queue
    <3>1. queue'[i] = write  BY <1>1, <2>2 DEF TypeOK
    <3> QED BY <1>3, <3>1 DEF InputIsLive
  <2> QED BY <2>1, <2>2
<1> QED BY <1>2, <1>3 DEF InputsInv

\* One invariant of the broadcast for every action, in four groups: what
\* changes tabs (above), what only touches the live source, the requests,
\* and the writes.
LEMMA SourceKeepsInv ==
    ASSUME BroadcastInv,
           SensitivePrompt \/ ToggleBroadcastTarget \/ ClearBroadcastTargets \/ PauseOrResume
    PROVE  BroadcastInv'
<1>0. TypeOK /\ InputsInv /\ DialogInv /\ LiveSourceIsLive  BY DEF BroadcastInv
<1>1. ASSUME UNCHANGED <<open, nonce, runtime, queue, flow, paste, dialog>>,
             StaysOrStops, targetIds' \subseteq Tabs
      PROVE  BroadcastInv'
  <2>1. TypeOK'  BY <1>0, <1>1, StopKeepsWaiting DEF TypeOK
  <2> QED BY <1>0, <1>1, <2>1, StopKeepsWaiting, SourceStays DEF BroadcastInv
<1>2. CASE SensitivePrompt
  BY <1>0, <1>1, <1>2, StopStops DEF SensitivePrompt, TypeOK
<1>3. CASE ToggleBroadcastTarget
  BY <1>0, <1>1, <1>3 DEF ToggleBroadcastTarget, StaysOrStops, TypeOK
<1>4. CASE ClearBroadcastTargets
  BY <1>0, <1>1, <1>4, StopStops DEF ClearBroadcastTargets, StaysOrStops, TypeOK
<1>5. CASE PauseOrResume
  <2>1. /\ dialog = "none" /\ paste = None
        /\ UNCHANGED <<open, nonce, runtime, targetIds, queue, flow, paste, dialog>>
        /\ generation' = generation + 1
        /\ live' = [source |-> live.source, state |-> live'.state]
    BY <1>0, <1>5 DEF PauseOrResume, UserActs, NextGeneration, DialogInv, TypeOK
  <2>2. live'.source = live.source  BY <2>1
  <2>3. TypeOK'  BY <1>0, <2>1, <2>2 DEF TypeOK
  <2>4. ASSUME NEW i \in DOMAIN queue', queue'[i].kind = "input"  PROVE InputIsLive(queue[i])'
    <3>1. InputIsLive(queue[i]) /\ queue[i] \in Writes
      BY <1>0, <2>1, <2>4 DEF InputsInv, TypeOK
    <3> QED BY <1>0, <2>1, <2>4, <3>1 DEF InputIsLive, Writes, TypeOK
  <2>5. DialogInv'  BY <1>0, <2>1 DEF DialogInv
  <2>6. LiveSourceIsLive'  BY <1>0, <2>1, <2>2 DEF LiveSourceIsLive
  <2> QED BY <2>3, <2>4, <2>5, <2>6 DEF BroadcastInv, InputsInv
<1> QED BY <1>2, <1>3, <1>4, <1>5

\* Steps of a request or a question: the live source stays, the queue stays or
\* takes one write.
Asks ==
    /\ UNCHANGED <<open, nonce, runtime, targetIds, live, generation>>
    /\ flow' = NoFlow \/ flow' \in Requests
    /\ paste' \in AnySession \cup {None}
    /\ DialogInv'
    /\ \/ queue' = queue
       \/ \E write \in Writes : Enqueue(write) /\ (write.kind = "input" => InputIsLive(write))

LEMMA AsksKeepsInv == ASSUME BroadcastInv, Asks PROVE BroadcastInv'
<1>0. TypeOK /\ InputsInv /\ DialogInv /\ LiveSourceIsLive  BY DEF BroadcastInv
<1>1. queue' \in Seq(Writes) /\ InputsInv'
  <2>1. CASE queue' = queue
    <3>1. \A i \in DOMAIN queue : InputIsLive(queue[i])' <=> InputIsLive(queue[i])
      BY <2>1 DEF Asks, InputIsLive
    <3> QED BY <1>0, <2>1, <3>1 DEF InputsInv, TypeOK
  <2>2. CASE queue' # queue
    <3>1. PICK write \in Writes : Enqueue(write) /\ (write.kind = "input" => InputIsLive(write))
      BY <2>2 DEF Asks
    <3> QED BY <1>0, <3>1, EnqueueKeeps DEF Asks
  <2> QED BY <2>1, <2>2
<1>2. TypeOK'  BY <1>0, <1>1 DEF Asks, TypeOK
<1>3. LiveSourceIsLive'  BY <1>0 DEF Asks, LiveSourceIsLive
<1> QED BY <1>1, <1>2, <1>3 DEF BroadcastInv, Asks

LEMMA TargetsAreSessions ==
    ASSUME TypeOK, NEW tabs \in SUBSET Tabs PROVE SessionsOf(tabs) \in SUBSET AnySession
BY DEF TypeOK, SessionsOf, Session, AnySession

\* A question of a request, over whatever is on screen.
LEMMA AskingIsFine ==
    ASSUME TypeOK, DialogInv, NEW request \in Requests, request.stage \in {"reconnect", "asked"},
           OpenDialog("flow", request, paste), live' = live
    PROVE  flow' \in Requests /\ paste' \in AnySession \cup {None} /\ DialogInv'
<1>1. dialog' = "flow" /\ flow' = request
  BY DEF OpenDialog
<1>2. paste' = None
  BY DEF OpenDialog, DialogInv
<1>3. flow' # NoFlow
  BY <1>1 DEF Requests, NoFlow
<1> QED BY <1>1, <1>2, <1>3 DEF DialogInv

LEMMA RequestMoves ==
    ASSUME NEW request \in Requests, NEW stage \in Stages, NEW targets \in SUBSET AnySession
    PROVE  /\ [request EXCEPT !.stage = stage, !.targets = targets] \in Requests
           /\ [request EXCEPT !.stage = stage, !.targets = targets].stage = stage
BY DEF Requests

LEMMA PreparedAsks ==
    ASSUME BroadcastInv, NEW request \in Requests, NEW targets \in SUBSET AnySession,
           Prepared(request, targets), dialog # "flow",
           UNCHANGED <<open, nonce, runtime, targetIds, live, generation>>
    PROVE  Asks
<1>0. TypeOK /\ DialogInv  BY DEF BroadcastInv
<1>1. CASE /\ OpenDialog("flow", [request EXCEPT !.stage = "asked", !.targets = targets], paste)
           /\ UNCHANGED queue
  <2>1. PICK asked \in Requests :
          /\ asked = [request EXCEPT !.stage = "asked", !.targets = targets]
          /\ asked.stage = "asked"
    <3>1. "asked" \in Stages  BY DEF Stages
    <3> QED BY <3>1, RequestMoves, Zenon
  <2>2. OpenDialog("flow", asked, paste)  BY <1>1, <2>1
  <2>3. flow' \in Requests /\ paste' \in AnySession \cup {None} /\ DialogInv'
    BY <1>0, <2>1, <2>2, AskingIsFine
  <2> QED BY <1>1, <2>3 DEF Asks
<1>2. CASE /\ Enqueue([kind |-> "command", targets |-> targets])
           /\ flow' = NoFlow
           /\ UNCHANGED <<paste, dialog>>
  <2>1. [kind |-> "command", targets |-> targets] \in Writes  BY DEF Writes
  <2>2. DialogInv'  BY <1>0, <1>2 DEF DialogInv
  <2> QED BY <1>0, <1>2, <2>1, <2>2 DEF Asks, TypeOK
<1> QED BY <1>1, <1>2 DEF Prepared

LEMMA StartKeepsInv ==
    ASSUME BroadcastInv, NEW request \in Requests, StartRequest(request) PROVE BroadcastInv'
<1>0. TypeOK /\ DialogInv  BY DEF BroadcastInv
<1>1. /\ dialog = "none"
      /\ UNCHANGED <<open, nonce, runtime, targetIds, live, generation>>
  BY DEF StartRequest, UserActs
<1>2. SessionsOf(targetIds \cap open) \in SUBSET AnySession
  BY <1>0, TargetsAreSessions DEF TypeOK
<1>3. CASE \A t \in targetIds \cap open : Connected(t)
  <2>1. PICK ready \in Requests : ready = [request EXCEPT !.targets = SessionsOf(targetIds \cap open)]
    BY <1>2 DEF Requests
  <2>2. Prepared(ready, SessionsOf(targetIds \cap open))
    BY <1>3, <2>1 DEF StartRequest
  <2> QED BY <1>1, <1>2, <2>2, PreparedAsks, AsksKeepsInv
<1>4. CASE ~\A t \in targetIds \cap open : Connected(t)
  <2>1. PICK asked \in Requests :
          /\ asked = [request EXCEPT !.stage = "reconnect", !.targets = SessionsOf(targetIds \cap open)]
          /\ asked.stage = "reconnect"
    <3>1. "reconnect" \in Stages  BY DEF Stages
    <3> QED BY ZenonT(40), <1>2, <3>1, RequestMoves
  <2>2. OpenDialog("flow", asked, paste) /\ UNCHANGED queue
    BY <1>4, <2>1 DEF StartRequest
  <2>3. flow' \in Requests /\ paste' \in AnySession \cup {None} /\ DialogInv'
    BY <1>0, <1>1, <2>1, <2>2, AskingIsFine
  <2>4. Asks  BY <1>1, <2>2, <2>3 DEF Asks
  <2> QED BY <2>4, AsksKeepsInv
<1> QED BY <1>3, <1>4

LEMMA ReconnectKeepsInv == ASSUME BroadcastInv, ReconnectTargets PROVE BroadcastInv'
<1>0. TypeOK /\ InputsInv /\ DialogInv /\ LiveSourceIsLive  BY DEF BroadcastInv
<1>1. /\ dialog = "flow" /\ flow.stage = "reconnect" /\ flow \in Requests /\ paste = None
  BY <1>0 DEF ReconnectTargets, DialogInv, TypeOK
<1> DEFINE lost == {s \in flow.targets : runtime[s.tab] # Runtime("connected", s.nonce)}
           again == {s \in lost : runtime[s.tab] # Runtime("connecting", s.nonce)}
           bumped == {s.tab : s \in again} \cap open
           nonces == [t \in Tabs |-> IF t \in bumped THEN nonce[t] + 1 ELSE nonce[t]]
           next == {IF s \in again THEN Session(s.tab, s.nonce + 1) ELSE s : s \in flow.targets}
<1>2. /\ Follow(open, nonces, runtime, {})
      /\ flow' = [flow EXCEPT !.stage = "connecting", !.targets = next]
      /\ dialog' = "none"
      /\ UNCHANGED <<targetIds, paste, queue>>
  BY DEF ReconnectTargets
<1>3. next \in SUBSET AnySession
  <2> SUFFICES ASSUME NEW s \in flow.targets
               PROVE  (IF s \in again THEN Session(s.tab, s.nonce + 1) ELSE s) \in AnySession
    OBVIOUS
  <2>1. s \in AnySession  BY <1>1 DEF Requests
  <2> QED BY <2>1 DEF AnySession, Session
<1>4. nonces \in [Tabs -> Nat]
  BY <1>0 DEF TypeOK
<1> HIDE DEF next, nonces
<1>5. flow' \in Requests
  BY <1>1, <1>2, <1>3, RequestMoves DEF Stages
<1>6. open' = open /\ nonce' = nonces /\ StaysOrStops /\ LiveSourceIsLive'
  BY <1>2, FollowKeeps
<1>7. TypeOK' /\ InputsInv'
  BY <1>0, <1>2, <1>4, <1>5, <1>6, StopKeepsWaiting DEF TypeOK
<1>8. DialogInv'
  BY <1>1, <1>2 DEF DialogInv
<1> QED BY <1>6, <1>7, <1>8 DEF BroadcastInv

LEMMA LiveAgreedKeepsInv == ASSUME BroadcastInv, LiveAgreed PROVE BroadcastInv'
<1>0. TypeOK /\ InputsInv /\ DialogInv /\ LiveSourceIsLive  BY DEF BroadcastInv
<1>1. dialog = "flow" /\ paste = None /\ flow \in Requests
  BY <1>0 DEF LiveAgreed, DialogInv, TypeOK
<1>2. /\ UNCHANGED <<open, nonce, runtime, paste, queue>>
      /\ flow' = NoFlow /\ dialog' = "none"
  BY DEF LiveAgreed
<1>3. DialogInv'  BY <1>1, <1>2 DEF DialogInv
<1>4. CASE UNCHANGED <<live, generation, targetIds>>
  BY <1>0, <1>1, <1>2, <1>3, <1>4, AsksKeepsInv DEF Asks, TypeOK
<1>5. CASE /\ flow.source \in open /\ Connected(flow.source)
           /\ generation' = generation + 1
           /\ live' = [source |-> Session(flow.source, nonce[flow.source]), state |-> "active"]
           /\ targetIds' = targetIds \ {flow.source}
  <2>1. live'.source \in AnySession
    BY <1>0, <1>5 DEF TypeOK, Session, AnySession
  <2>2. TypeOK'  BY <1>0, <1>2, <1>5, <2>1 DEF TypeOK
  <2>3. ASSUME NEW i \in DOMAIN queue', queue'[i].kind = "input"  PROVE InputIsLive(queue[i])'
    <3>1. InputIsLive(queue[i]) /\ queue[i] \in Writes
      BY <1>0, <1>2, <2>3 DEF InputsInv, TypeOK
    <3> QED BY <1>0, <1>2, <1>5, <2>3, <3>1 DEF InputIsLive, Writes, TypeOK
  <2>4. LiveSourceIsLive'
    BY <1>0, <1>2, <1>5
       DEF LiveSourceIsLive, Connected, Runtime, Session, isTerminalConnectionUnavailable
  <2> QED BY <1>3, <2>2, <2>3, <2>4 DEF BroadcastInv, InputsInv
<1> QED BY <1>4, <1>5 DEF LiveAgreed, NextGeneration

LEMMA RequestsKeepInv ==
    ASSUME BroadcastInv,
           \/ SendBroadcastCommand \/ StartLiveBroadcast \/ EvaluateBroadcastPreflight
           \/ SendAgreed \/ RequestRefused
    PROVE  BroadcastInv'
<1>0. TypeOK /\ DialogInv  BY DEF BroadcastInv
<1>1. CASE SendBroadcastCommand
  <2>1. Request("command", "none") \in Requests  BY DEF Request, Requests
  <2> QED BY <1>1, <2>1, StartKeepsInv DEF SendBroadcastCommand
<1>2. CASE StartLiveBroadcast
  <2>1. PICK t \in open : StartRequest(Request("live", t))  BY <1>2 DEF StartLiveBroadcast
  <2>2. Request("live", t) \in Requests  BY <1>0 DEF Request, Requests, TypeOK
  <2> QED BY <2>1, <2>2, StartKeepsInv
<1>3. CASE EvaluateBroadcastPreflight
  <2>1. /\ flow \in Requests /\ dialog # "flow"
        /\ UNCHANGED <<open, nonce, runtime, targetIds, live, generation>>
    BY <1>0, <1>3 DEF EvaluateBroadcastPreflight, TypeOK, DialogInv, NoFlow
  <2>2. CASE flow' = NoFlow /\ UNCHANGED <<paste, dialog, queue>>
    <3>1. DialogInv'  BY <1>0, <2>1, <2>2 DEF DialogInv
    <3> QED BY <1>0, <2>1, <2>2, <3>1, AsksKeepsInv DEF Asks, TypeOK
  <2>3. CASE Prepared(flow, flow.targets)
    <3>1. flow.targets \in SUBSET AnySession  BY <2>1 DEF Requests
    <3> QED BY <2>1, <2>3, <3>1, PreparedAsks, AsksKeepsInv
  <2> QED BY <1>3, <2>2, <2>3 DEF EvaluateBroadcastPreflight
<1>4. CASE SendAgreed
  <2>1. flow \in Requests /\ paste = None
    BY <1>0, <1>4 DEF SendAgreed, DialogInv, TypeOK
  <2>2. [kind |-> "command", targets |-> flow.targets] \in Writes
    BY <2>1 DEF Requests, Writes
  <2>3. DialogInv'  BY <2>1, <1>4 DEF SendAgreed, DialogInv
  <2>4. Asks  BY <1>0, <1>4, <2>2, <2>3 DEF SendAgreed, Asks, TypeOK
  <2> QED BY <2>4, AsksKeepsInv
<1>5. CASE RequestRefused
  <2>1. DialogInv'  BY <1>0, <1>5 DEF RequestRefused, DialogInv
  <2>2. Asks  BY <1>0, <1>5, <2>1 DEF RequestRefused, Asks, TypeOK
  <2> QED BY <2>2, AsksKeepsInv
<1> QED BY <1>1, <1>2, <1>3, <1>4, <1>5

LEMMA InputsKeepInv ==
    ASSUME BroadcastInv, TypeAtLiveSource \/ AnswerPaste \/ OtherDialog \/ OtherAnswered
    PROVE  BroadcastInv'
<1>0. TypeOK /\ DialogInv  BY DEF BroadcastInv
<1>1. UNCHANGED <<open, nonce, runtime, targetIds, live, generation>>
  BY DEF TypeAtLiveSource, AnswerPaste, OtherDialog, OtherAnswered
<1>2. ASSUME NEW source \in AnySession, live.source # None => live = [source |-> source, state |-> "active"]
      PROVE  LiveInput(source) \in Writes /\ InputIsLive(LiveInput(source))
  BY <1>0, <1>2 DEF LiveInput, Writes, InputIsLive, TypeOK
<1>3. CASE TypeAtLiveSource
  <2>1. /\ dialog = "none" /\ paste = None /\ live.source \in AnySession
        /\ live = [source |-> live.source, state |-> "active"]
    BY <1>0, <1>3 DEF TypeAtLiveSource, UserActs, DialogInv, TypeOK
  <2>2. CASE Enqueue(LiveInput(live.source)) /\ UNCHANGED <<flow, paste, dialog>>
    <3>1. DialogInv'  BY <1>0, <1>1, <2>2 DEF DialogInv
    <3> QED BY <1>0, <1>1, <1>2, <2>1, <2>2, <3>1, AsksKeepsInv DEF Asks, TypeOK
  <2>3. CASE OpenDialog("paste", flow, live.source) /\ UNCHANGED queue
    <3>1. dialog' = "paste" /\ flow' = flow /\ paste' = live.source
      BY <2>1, <2>3 DEF OpenDialog
    <3>2. DialogInv'  BY <1>1, <2>1, <3>1 DEF DialogInv, AnySession, None
    <3> QED BY <1>0, <1>1, <2>1, <2>3, <3>1, <3>2, AsksKeepsInv DEF Asks, TypeOK
  <2> QED BY <1>3, <2>2, <2>3 DEF TypeAtLiveSource
<1>4. CASE AnswerPaste
  <2>1. /\ paste \in AnySession
        /\ live.source # None => live = [source |-> paste, state |-> "active"]
    BY <1>0, <1>4 DEF AnswerPaste, DialogInv, TypeOK
  <2>2. DialogInv'  BY <1>4 DEF AnswerPaste, DialogInv
  <2> QED BY <1>0, <1>1, <1>2, <1>4, <2>1, <2>2, AsksKeepsInv DEF AnswerPaste, Asks, TypeOK
<1>5. CASE OtherDialog
  <2>1. dialog' = "other" /\ paste' = None
    BY <1>0, <1>5 DEF OtherDialog, OpenDialog, DialogInv
  <2>2. DialogInv'  BY <2>1 DEF DialogInv
  <2>3. flow' = NoFlow \/ flow' \in Requests
    <3>1. CASE dialog # "flow"
      BY <1>0, <1>5, <3>1 DEF OtherDialog, OpenDialog, TypeOK
    <3>2. CASE dialog = "flow"
      <4>1. flow \in Requests  BY <1>0, <3>2 DEF DialogInv, TypeOK
      <4>2. [flow EXCEPT !.stage = "unanswered"] \in Requests  BY <4>1 DEF Requests, Stages
      <4> QED BY <1>5, <3>2, <4>2 DEF OtherDialog, OpenDialog
    <3> QED BY <3>1, <3>2
  <2>4. queue' = queue  BY <1>5 DEF OtherDialog
  <2> QED BY <1>1, <2>1, <2>2, <2>3, <2>4, AsksKeepsInv DEF Asks
<1>6. CASE OtherAnswered
  <2>1. DialogInv'  BY <1>0, <1>1, <1>6 DEF OtherAnswered, DialogInv
  <2> QED BY <1>0, <1>1, <1>6, <2>1, AsksKeepsInv DEF OtherAnswered, Asks, TypeOK
<1> QED BY <1>3, <1>4, <1>5, <1>6

\* The queue loses its head.
LEMMA TailKeeps ==
    ASSUME TypeOK, InputsInv, queue # <<>>, queue' = Tail(queue), StaysOrStops
    PROVE  queue' \in Seq(Writes) /\ InputsInv'
<1>1. queue \in Seq(Writes) /\ queue' \in Seq(Writes)
  BY DEF TypeOK
<1>2. ASSUME NEW i \in DOMAIN queue', queue'[i].kind = "input"  PROVE InputIsLive(queue[i])'
  <2>1. i + 1 \in DOMAIN queue /\ queue'[i] = queue[i + 1]
    BY <1>1, <1>2
  <2>2. InputIsLive(queue[i + 1]) /\ queue[i + 1] \in Writes
    BY <1>1, <1>2, <2>1 DEF InputsInv
  <2>3. queue[i + 1].generation \in Nat
    BY <1>2, <2>1, <2>2 DEF Writes
  <2> QED BY <2>1, <2>2, <2>3 DEF InputIsLive, StaysOrStops, TypeOK
<1> QED BY <1>1, <1>2 DEF InputsInv

\* A write under way is the head of the queue.
WritingInv == writing # NotWriting => queue # <<>>

LEMMA WritingKeeps == ASSUME TypeOK, WritingInv, [Next]_vars PROVE WritingInv'
<1>1. CASE UNCHANGED <<queue, writing>>
  BY <1>1 DEF WritingInv
<1>2. CASE UNCHANGED writing /\ \E write : Enqueue(write)
  <2>1. PICK write : queue' = Append(queue, write)  BY <1>2 DEF Enqueue
  <2>2. queue \in Seq(Writes \cup {write})  BY DEF TypeOK
  <2>3. Len(queue') = Len(queue) + 1 /\ Len(queue) \in Nat  BY <2>1, <2>2
  <2> QED BY <2>3 DEF WritingInv
<1>3. CASE StartWrite
  BY <1>3 DEF WritingInv, StartWrite
<1>4. CASE WriteAnswered
  BY <1>4 DEF WritingInv, WriteAnswered
<1>5. ASSUME NEW request, StartRequest(request)
      PROVE  UNCHANGED writing /\ (UNCHANGED queue \/ \E write : Enqueue(write))
  <2>1. ASSUME NEW r, NEW targets, Prepared(r, targets)
        PROVE  UNCHANGED queue \/ \E write : Enqueue(write)
    BY <2>1 DEF Prepared
  <2>2. UNCHANGED writing  BY <1>5 DEF StartRequest
  <2>3. CASE \A t \in targetIds \cap open : Connected(t)
    <3>1. Prepared([request EXCEPT !.targets = SessionsOf(targetIds \cap open)],
                   SessionsOf(targetIds \cap open))
      BY <1>5, <2>3 DEF StartRequest
    <3> QED BY <2>1, <2>2, <3>1
  <2>4. CASE ~\A t \in targetIds \cap open : Connected(t)
    BY <1>5, <2>2, <2>4 DEF StartRequest
  <2> QED BY <2>3, <2>4
<1>6. CASE SendBroadcastCommand \/ StartLiveBroadcast
  BY <1>1, <1>2, <1>5, <1>6 DEF SendBroadcastCommand, StartLiveBroadcast
<1>7. CASE EvaluateBroadcastPreflight
  BY <1>1, <1>2, <1>7 DEF EvaluateBroadcastPreflight, Prepared
<1>8. CASE SendAgreed \/ TypeAtLiveSource \/ AnswerPaste
  BY <1>1, <1>2, <1>8 DEF SendAgreed, TypeAtLiveSource, AnswerPaste
<1>9. CASE \/ CloseTab \/ ReconnectTab \/ ConnectionStateChange \/ TerminalGone
           \/ SessionUnavailable \/ SensitivePrompt \/ ToggleBroadcastTarget
           \/ ClearBroadcastTargets \/ PauseOrResume \/ ReconnectTargets \/ LiveAgreed
           \/ RequestRefused \/ OtherDialog \/ OtherAnswered \/ UNCHANGED vars
  BY <1>1, <1>9
     DEF CloseTab, ReconnectTab, ConnectionStateChange, TerminalGone, SessionUnavailable,
         SensitivePrompt, ToggleBroadcastTarget, ClearBroadcastTargets, PauseOrResume,
         ReconnectTargets, LiveAgreed, RequestRefused, OtherDialog, OtherAnswered, vars
<1> QED BY <1>3, <1>4, <1>6, <1>7, <1>8, <1>9 DEF Next

LEMMA WritesKeepInv ==
    ASSUME BroadcastInv, WritingInv, StartWrite \/ WriteAnswered PROVE BroadcastInv'
<1>0. TypeOK /\ InputsInv /\ DialogInv /\ LiveSourceIsLive  BY DEF BroadcastInv
<1>1. CASE StartWrite
  <2>1. /\ UNCHANGED <<open, nonce, runtime, targetIds, live, generation, flow, paste, dialog>>
        /\ queue # <<>> /\ (queue' = Tail(queue) \/ queue' = queue)
    BY <1>1 DEF StartWrite
  <2>2. StaysOrStops  BY <2>1 DEF StaysOrStops
  <2>3. queue' \in Seq(Writes) /\ InputsInv'
    BY <1>0, <2>1, <2>2, TailKeeps, StopKeepsWaiting DEF TypeOK
  <2>4. TypeOK' /\ DialogInv' /\ LiveSourceIsLive'
    BY <1>0, <2>1, <2>2, <2>3, SourceStays, StopKeepsWaiting DEF TypeOK
  <2> QED BY <2>3, <2>4 DEF BroadcastInv
<1>2. CASE WriteAnswered
  <2>1. /\ UNCHANGED <<open, nonce, runtime, flow, paste, dialog>>
        /\ StaysOrStops /\ targetIds' \subseteq Tabs
        /\ queue' = Tail(queue)
    BY <1>0, <1>2, StopStops DEF WriteAnswered, StaysOrStops, TypeOK
  <2>2. queue # <<>>
    BY <1>2 DEF WriteAnswered, WritingInv
  <2>3. queue' \in Seq(Writes) /\ InputsInv'
    BY <1>0, <2>1, <2>2, TailKeeps
  <2>4. TypeOK' /\ DialogInv' /\ LiveSourceIsLive'
    BY <1>0, <2>1, <2>3, SourceStays, StopKeepsWaiting DEF TypeOK
  <2> QED BY <2>3, <2>4 DEF BroadcastInv
<1> QED BY <1>1, <1>2

LEMMA InvNext == BroadcastInv /\ WritingInv /\ [Next]_vars => BroadcastInv' /\ WritingInv'
<1> SUFFICES ASSUME BroadcastInv, WritingInv, [Next]_vars  PROVE BroadcastInv' /\ WritingInv'
  OBVIOUS
<1>1. WritingInv'
  BY WritingKeeps DEF BroadcastInv
<1>2. CASE UNCHANGED vars
  <2>0. TypeOK /\ InputsInv /\ DialogInv /\ LiveSourceIsLive  BY DEF BroadcastInv
  <2>1. StaysOrStops  BY <1>2 DEF vars, StaysOrStops
  <2>2. InputsInv' /\ DialogInv' /\ LiveSourceIsLive'
    BY <1>2, <2>0, <2>1, StopKeepsWaiting, SourceStays DEF vars
  <2>3. TypeOK'  BY <1>2, <2>0 DEF vars, TypeOK
  <2> QED BY <1>1, <2>2, <2>3 DEF BroadcastInv
<1>3. CASE CloseTab \/ ReconnectTab \/ ConnectionStateChange \/ TerminalGone \/ SessionUnavailable
  BY <1>1, <1>3, TabsKeepInv
<1>4. CASE SensitivePrompt \/ ToggleBroadcastTarget \/ ClearBroadcastTargets \/ PauseOrResume
  BY <1>1, <1>4, SourceKeepsInv
<1>5. CASE \/ SendBroadcastCommand \/ StartLiveBroadcast \/ EvaluateBroadcastPreflight
           \/ SendAgreed \/ RequestRefused
  BY <1>1, <1>5, RequestsKeepInv
<1>6. CASE ReconnectTargets \/ LiveAgreed
  BY <1>1, <1>6, ReconnectKeepsInv, LiveAgreedKeepsInv
<1>7. CASE TypeAtLiveSource \/ AnswerPaste \/ OtherDialog \/ OtherAnswered
  BY <1>1, <1>7, InputsKeepInv
<1>8. CASE StartWrite \/ WriteAnswered
  BY <1>1, <1>8, WritesKeepInv
<1> QED BY <1>2, <1>3, <1>4, <1>5, <1>6, <1>7, <1>8 DEF Next

\* What a write starts out with.
LEMMA StartIsTrue ==
    ASSUME BroadcastInv, StartWrite PROVE InputStaysWithItsBroadcast /\ CommandToConfirmedTargets
<1>0. TypeOK /\ InputsInv  BY DEF BroadcastInv
<1>1. /\ queue # <<>> /\ Head(queue) \in Writes /\ Head(queue) = queue[1] /\ 1 \in DOMAIN queue
  BY <1>0 DEF StartWrite, TypeOK
<1> DEFINE write == Head(queue)
<1> SUFFICES ASSUME writing' # writing
             PROVE  InputStaysWithItsBroadcast /\ CommandToConfirmedTargets
  BY DEF InputStaysWithItsBroadcast, CommandToConfirmedTargets
<1>2. /\ Current(write)
      /\ writing'.kind = write.kind
      /\ writing'.targets = {s \in ResolveBroadcastTargets :
                               write.kind = "input" => s.tab # live.source.tab}
  BY DEF StartWrite
<1>3. CASE write.kind = "input"
  <2>1. write.generation = generation /\ live.source # None
    BY <1>2, <1>3 DEF Current
  <2>2. live = [source |-> write.source, state |-> "active"]
    BY <1>0, <1>1, <1>3, <2>1 DEF InputsInv, InputIsLive
  <2>3. write.source.tab \notin {s.tab : s \in writing'.targets}
    BY <1>2, <1>3, <2>2
  <2> QED BY <1>2, <1>3, <2>2, <2>3 DEF InputStaysWithItsBroadcast, CommandToConfirmedTargets
<1>4. CASE write.kind = "command"
  <2>1. writing'.targets = ResolveBroadcastTargets /\ ResolveBroadcastTargets = write.targets
    BY <1>2, <1>4 DEF Current
  <2>2. \A s \in ResolveBroadcastTargets : s.tab \in open /\ s.nonce = nonce[s.tab] /\ Connected(s.tab)
    BY DEF ResolveBroadcastTargets, SessionsOf, Session
  <2> QED BY <1>2, <1>4, <2>1, <2>2 DEF InputStaysWithItsBroadcast, CommandToConfirmedTargets
<1> QED BY <1>1, <1>3, <1>4 DEF Writes

\* No other step starts a write.
LEMMA OthersStartNone ==
    ASSUME [Next]_vars, ~StartWrite PROVE InputStaysWithItsBroadcast /\ CommandToConfirmedTargets
<1>1. writing' = writing \/ writing' = NotWriting
  BY DEF Next, vars, CloseTab, ReconnectTab, ConnectionStateChange, TerminalGone,
         SessionUnavailable, SensitivePrompt, ToggleBroadcastTarget, ClearBroadcastTargets,
         PauseOrResume, SendBroadcastCommand, StartLiveBroadcast, StartRequest,
         ReconnectTargets, EvaluateBroadcastPreflight, SendAgreed, LiveAgreed, RequestRefused,
         TypeAtLiveSource, AnswerPaste, OtherDialog, OtherAnswered, WriteAnswered
<1> QED BY <1>1 DEF InputStaysWithItsBroadcast, CommandToConfirmedTargets, NotWriting

\* The live broadcast and its writes stay true to each other, whatever closes,
\* reconnects, asks or fails meanwhile: input goes out only for the broadcast
\* it was typed at, a command only to the sessions it was confirmed for, and
\* the live source is an open tab's present session (useBroadcastState,
\* useBroadcastSending).
THEOREM BroadcastIsTrue == Spec => BroadcastStaysTrue
<1>1. Init => BroadcastInv /\ WritingInv
  BY InvInit DEF Init, WritingInv
<1>2. BroadcastInv /\ WritingInv /\ [Next]_vars => BroadcastInv' /\ WritingInv'
  BY InvNext
<1>3. BroadcastInv /\ BroadcastInv' /\ [Next]_vars
        => [InputStaysWithItsBroadcast /\ CommandToConfirmedTargets /\ LiveSourceIsLive']_vars
  BY StartIsTrue, OthersStartNone DEF BroadcastInv
<1> QED BY <1>1, <1>2, <1>3, PTL DEF Spec, BroadcastStaysTrue
=============================================================================
