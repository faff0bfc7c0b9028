-------------------------- MODULE TerminalSession --------------------------
(***************************************************************************)
(* One terminal tab and its sessions: the effect of useTerminalLifecycle   *)
(* that starts one (ptySession.ts) and ends it, the PtyMap of the backend  *)
(* (core/commands.rs) and the supervisor that reconnects a dropped SSH or  *)
(* serial connection (core/supervisor.rs).                                 *)
(*                                                                         *)
(* Reconnecting the tab starts the session of the next nonce.  create_pty  *)
(* and kill_pty are calls on their way: two of them are carried out in     *)
(* either order.  The backend's events name the tab and no session, and    *)
(* reach the session that listens when they are sent.  Delays, sizes,      *)
(* output and the terminal itself are left out; how many attempts a        *)
(* connection that held for a while forgives is any number.                *)
(***************************************************************************)
EXTENDS Naturals

CONSTANTS
    MaxNonce,             \* bound on reconnects asked for
    MaxAttempts,          \* reconnect_max_attempts
    ReconnectEnabled      \* reconnect_enabled: a connection's; a local shell has none

Nonces == 0..MaxNonce
NoSession == MaxNonce + 1

VARIABLES
    nonce,       \* Tab.sessionNonce
    open,        \* the tab is open, its terminal mounted
    stage,       \* how far each session's start has come
    disposed,    \* session.disposed
    creating,    \* creatingPtyRef
    calls,       \* calls on their way to the backend and answers on their way back
    shown,       \* connectionState, of the session of nonce
    waiting,     \* waitingForReconnectRef
    mapped,      \* the session the PtyMap holds for the tab
    supervisor,  \* what each backend session's supervisor does
    stopped,     \* stop_tx sent
    attempt,     \* each session's connection attempt
    failures     \* SshBackoff.attempt

feVars == <<nonce, open, stage, disposed, creating, shown, waiting>>
beVars == <<mapped, supervisor, stopped, attempt, failures>>
vars == <<feVars, calls, beVars>>

Init ==
    /\ nonce = 0 /\ open = TRUE
    /\ stage = [n \in Nonces |-> IF n = 0 THEN "listening" ELSE "none"]
    /\ disposed = [n \in Nonces |-> FALSE]
    /\ creating = FALSE
    /\ calls = {}
    /\ shown = "connecting" /\ waiting = FALSE
    /\ mapped = NoSession
    /\ supervisor = [n \in Nonces |-> "none"]
    /\ stopped = [n \in Nonces |-> FALSE]
    /\ attempt = [n \in Nonces |-> "none"]
    /\ failures = [n \in Nonces |-> 0]

Create(n) == [call |-> "create", nonce |-> n]
Kill(n) == [call |-> "kill", nonce |-> n]
Answer(n, result) == [call |-> result, nonce |-> n]

\* An event reaches the session whose listeners are set up.
Listens(n) == open /\ n = nonce /\ stage[n] # "listening"

Show(state, wait) ==
    IF Listens(nonce)
    THEN shown' = state /\ waiting' = (wait \/ waiting)
    ELSE UNCHANGED <<shown, waiting>>

----------------------------------------------------------------------------
(* The terminal's effect.                                                  *)

\* Its cleanup, and the effect run again for the next nonce.
Reconnect ==
    /\ open /\ nonce < MaxNonce
    /\ nonce' = nonce + 1
    /\ disposed' = [disposed EXCEPT ![nonce] = TRUE]
    /\ stage' = [stage EXCEPT ![nonce + 1] = "listening"]
    /\ creating' = FALSE /\ waiting' = FALSE /\ shown' = "connecting"
    /\ calls' = calls \cup {Kill(nonce)}
    /\ UNCHANGED <<open, beVars>>

CloseTab ==
    /\ open /\ open' = FALSE
    /\ disposed' = [disposed EXCEPT ![nonce] = TRUE]
    /\ creating' = FALSE /\ waiting' = FALSE
    /\ calls' = calls \cup {Kill(nonce)}
    /\ UNCHANGED <<nonce, stage, shown, beVars>>

\* The listeners are set up; a session disposed of meanwhile takes them down.
ListenersReady(n) ==
    /\ stage[n] = "listening"
    /\ LET starts == ~disposed[n] /\ ~creating
       IN  /\ stage' = [stage EXCEPT ![n] = IF starts THEN "fitting" ELSE "ended"]
           /\ creating' = (creating \/ starts)
           /\ shown' = IF disposed[n] THEN shown ELSE "connecting"
    /\ UNCHANGED <<nonce, open, disposed, waiting, calls, beVars>>

\* waitForStableFit ends early for a session disposed of, which is created all the same.
FitSettled(n) ==
    /\ stage[n] = "fitting"
    /\ stage' = [stage EXCEPT ![n] = "creating"]
    /\ calls' = calls \cup {Create(n)}
    /\ UNCHANGED <<nonce, open, disposed, creating, shown, waiting, beVars>>

CreatedKept(n) ==
    /\ Answer(n, "created") \in calls
    /\ calls' = calls \ {Answer(n, "created")}
    /\ stage' = [stage EXCEPT ![n] = "ended"]
    /\ shown' = IF ~disposed[n] /\ ~ReconnectEnabled THEN "connected" ELSE shown
    /\ creating' = FALSE
    /\ UNCHANGED <<nonce, open, disposed, waiting, beVars>>

\* create_pty has answered: a session nobody waits for any more is killed.
Created(n) ==
    /\ Answer(n, "created") \in calls
    /\ calls' = (calls \ {Answer(n, "created")}) \cup (IF disposed[n] THEN {Kill(n)} ELSE {})
    /\ stage' = [stage EXCEPT ![n] = "ended"]
    /\ shown' = IF ~disposed[n] /\ ~ReconnectEnabled THEN "connected" ELSE shown
    /\ creating' = FALSE
    /\ UNCHANGED <<nonce, open, disposed, waiting, beVars>>

CreateFailed(n) ==
    /\ Answer(n, "failed") \in calls
    /\ calls' = calls \ {Answer(n, "failed")}
    /\ stage' = [stage EXCEPT ![n] = "ended"]
    /\ IF disposed[n] THEN UNCHANGED <<shown, waiting>>
       ELSE shown' = "error" /\ waiting' = ReconnectEnabled
    /\ creating' = FALSE
    /\ UNCHANGED <<nonce, open, disposed, beVars>>

----------------------------------------------------------------------------
(* The backend's commands.                                                 *)

\* stop_pty_session: the attempt in its slot is aborted, the supervisor too.
\* One past its check for the stop may still put an attempt there.
StopPtySession(n) ==
    /\ stopped' = [stopped EXCEPT ![n] = TRUE]
    /\ attempt' = [attempt EXCEPT ![n] = "none"]
    /\ supervisor' = [supervisor EXCEPT ![n] = IF @ = "spawning" THEN @ ELSE "gone"]

CreatePty(n) ==
    /\ Create(n) \in calls
    /\ LET replaced == IF mapped = NoSession THEN {} ELSE {mapped}
           gone(f, m, value) == IF m \in replaced THEN value ELSE f[m]
       IN  /\ stopped' = [m \in Nonces |-> gone(stopped, m, TRUE)]
           /\ \/ /\ calls' = (calls \ {Create(n)}) \cup {Answer(n, "failed")}
                 /\ mapped' = NoSession
                 /\ attempt' = [m \in Nonces |-> gone(attempt, m, "none")]
                 /\ supervisor' = [m \in Nonces |->
                      IF m \in replaced /\ supervisor[m] # "spawning" THEN "gone" ELSE supervisor[m]]
              \/ /\ calls' = (calls \ {Create(n)}) \cup {Answer(n, "created")}
                 /\ mapped' = n
                 /\ attempt' = [m \in Nonces |-> IF m = n THEN "connecting" ELSE gone(attempt, m, "none")]
                 /\ supervisor' = [m \in Nonces |->
                      IF m = n THEN "watching"
                      ELSE IF m \in replaced /\ supervisor[m] # "spawning" THEN "gone" ELSE supervisor[m]]
    /\ UNCHANGED <<feVars, failures>>

KillPty(n) ==
    /\ Kill(n) \in calls
    /\ calls' = calls \ {Kill(n)}
    /\ IF mapped = n
       THEN mapped' = NoSession /\ StopPtySession(n)
       ELSE UNCHANGED <<mapped, stopped, attempt, supervisor>>
    /\ UNCHANGED <<feVars, failures>>

----------------------------------------------------------------------------
(* The supervisor and its attempts.                                        *)

\* The connection is ready, and says so.
AttemptConnects(n) ==
    /\ attempt[n] = "connecting" /\ ~stopped[n]
    /\ attempt' = [attempt EXCEPT ![n] = "up"]
    /\ Show("connected", FALSE)
    /\ UNCHANGED <<nonce, open, stage, disposed, creating, calls, mapped, supervisor, stopped, failures>>

AttemptSeesStopOnceUp(n) ==
    /\ attempt[n] = "up" /\ stopped[n]
    /\ attempt' = [attempt EXCEPT ![n] = "none"]
    /\ UNCHANGED <<feVars, calls, mapped, supervisor, stopped, failures>>

\* An attempt spawned though its session was stopped sees the stop and ends.
AttemptSeesStop(n) ==
    /\ attempt[n] # "none" /\ stopped[n]
    /\ attempt' = [attempt EXCEPT ![n] = "none"]
    /\ UNCHANGED <<feVars, calls, mapped, supervisor, stopped, failures>>

\* The session's end is reported: report_exit, or a retry budget spent.
ReportExit(n, state) ==
    /\ supervisor' = [supervisor EXCEPT ![n] = "gone"]
    /\ Show(state, ReconnectEnabled)

\* The attempt ends by itself or is lost, and the supervisor hears of it.
SignalHandled(n) ==
    /\ attempt[n] # "none" /\ supervisor[n] = "watching" /\ ~stopped[n]
    /\ attempt' = [attempt EXCEPT ![n] = "none"]
    /\ \/ /\ ReportExit(n, "disconnected") /\ UNCHANGED failures
       \/ /\ ReportExit(n, "error") /\ UNCHANGED failures
       \/ \* recoverable: SshBackoff::wait
          /\ ReconnectEnabled
          /\ \E kept \in 0..failures[n] :
                /\ attempt[n] = "connecting" => kept = failures[n]
                /\ failures' = [failures EXCEPT ![n] = kept + 1]
                /\ IF kept + 1 > MaxAttempts THEN ReportExit(n, "error")
                   ELSE /\ supervisor' = [supervisor EXCEPT ![n] = "backoff"]
                        /\ Show("reconnecting", FALSE)
    /\ UNCHANGED <<nonce, open, stage, disposed, creating, calls, mapped, stopped>>

BackoffEndsShort(n) ==
    /\ supervisor[n] = "backoff" /\ failures[n] < MaxAttempts
    /\ supervisor' = [supervisor EXCEPT ![n] = "spawning"]
    /\ UNCHANGED <<feVars, calls, mapped, stopped, attempt, failures>>

\* The delay is over and the session not stopped.
BackoffEnds(n) ==
    /\ supervisor[n] = "backoff"
    /\ supervisor' = [supervisor EXCEPT ![n] = "spawning"]
    /\ UNCHANGED <<feVars, calls, mapped, stopped, attempt, failures>>

\* The next attempt runs; whether it was stopped meanwhile it finds out itself.
SpawnAttempt(n) ==
    /\ supervisor[n] = "spawning"
    /\ attempt' = [attempt EXCEPT ![n] = "connecting"]
    /\ supervisor' = [supervisor EXCEPT ![n] = IF stopped[n] THEN "gone" ELSE "watching"]
    /\ Show("connecting", FALSE)
    /\ UNCHANGED <<nonce, open, stage, disposed, creating, calls, mapped, stopped, failures>>

----------------------------------------------------------------------------
SessionStep(n) ==
    \/ ListenersReady(n) \/ FitSettled(n) \/ Created(n) \/ CreateFailed(n)
    \/ CreatePty(n) \/ KillPty(n)
    \/ AttemptConnects(n) \/ AttemptSeesStop(n) \/ SignalHandled(n) \/ BackoffEnds(n)
    \/ SpawnAttempt(n)

Next == Reconnect \/ CloseTab \/ \E n \in Nonces : SessionStep(n)

Spec == Init /\ [][Next]_vars

\* Every session has a supervisor and attempts of its own, tasks that go on:
\* the delay ends, the attempt is spawned, and an attempt watches the stop.
Fairness ==
    \A n \in Nonces :
        WF_vars(BackoffEnds(n)) /\ WF_vars(SpawnAttempt(n)) /\ WF_vars(AttemptSeesStop(n))

FairSpec == Spec /\ Fairness

----------------------------------------------------------------------------
Calls == [call : {"create", "kill", "created", "failed"}, nonce : Nonces]

TypeOK ==
    /\ nonce \in Nonces /\ open \in BOOLEAN
    /\ stage \in [Nonces -> {"none", "listening", "fitting", "creating", "ended"}]
    /\ disposed \in [Nonces -> BOOLEAN] /\ creating \in BOOLEAN
    /\ calls \subseteq Calls
    /\ shown \in {"connecting", "connected", "reconnecting", "disconnected", "error"}
    /\ waiting \in BOOLEAN
    /\ mapped \in Nonces \cup {NoSession}
    /\ supervisor \in [Nonces -> {"none", "watching", "backoff", "spawning", "gone"}]
    /\ stopped \in [Nonces -> BOOLEAN]
    /\ attempt \in [Nonces -> {"none", "connecting", "up"}]
    /\ failures \in [Nonces -> 0..(MaxAttempts + 1)]

\* Nothing outlives its tab: only the session the backend holds for it runs
\* unstopped, and once every call is answered that is one the tab has not
\* disposed of, though it closes and reconnects while create_pty is on its way.
NoOrphanPty ==
    /\ \A n \in Nonces : supervisor[n] # "none" /\ ~stopped[n] => mapped = n
    /\ calls = {} /\ (\A n \in Nonces : stage[n] \in {"none", "ended"})
           => mapped = NoSession \/ ~disposed[mapped]

\* A session is created once: no call of it is on its way before, and nothing
\* of it is in the backend.
Fresh(n) == stage[n] \in {"none", "listening", "fitting"}
CreatedOnce ==
    \A n \in Nonces :
        /\ n > nonce => stage[n] = "none"
        /\ Fresh(n) =>
              /\ supervisor[n] = "none"
              /\ Create(n) \notin calls /\ Answer(n, "created") \notin calls /\ Answer(n, "failed") \notin calls
        /\ Create(n) \in calls => supervisor[n] = "none"
        /\ supervisor[n] = "none" => mapped # n /\ ~stopped[n] /\ attempt[n] = "none"
        /\ failures[n] > MaxAttempts => supervisor[n] = "gone"

\* A session the tab has disposed of is killed, or will be by the answer to its creation.
KillOnTheWay ==
    mapped # NoSession /\ disposed[mapped] => Kill(mapped) \in calls \/ Answer(mapped, "created") \in calls

OrphanInv == TypeOK /\ CreatedOnce /\ KillOnTheWay /\ NoOrphanPty

\* A session that was stopped ends, an attempt the supervisor was just about
\* to start included.
Over(n) == attempt[n] = "none" /\ supervisor[n] = "gone"
StoppedSessionsEnd == \A n \in Nonces : stopped[n] ~> Over(n)

\* A tab does not stay "reconnecting" while the backend session in place is its
\* own: the next attempt starts, or the budget is spent and the tab says so.
Reconnects == shown = "reconnecting" /\ mapped = nonce /\ supervisor[nonce] \in {"backoff", "spawning"}
ReconnectingEnds == Reconnects ~> (shown # "reconnecting" \/ ~open \/ mapped # nonce)

\* "State that belongs to one session ... A new session starts over"
\* (useSessionScopedState): the connection state a session shows comes from
\* the backend session of its own nonce.
StateBelongsToSession ==
    [][ \A n \in Nonces :
          (attempt'[n] # attempt[n] \/ supervisor'[n] # supervisor[n]) /\ <<shown, waiting>>' # <<shown, waiting>>
          /\ nonce' = nonce
            => n = nonce ]_vars
=============================================================================
