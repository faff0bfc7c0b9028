------------------------------ MODULE Tunnels ------------------------------
(***************************************************************************)
(* The port forwarding page (useTunnelList, useTunnelActions and its        *)
(* dialogs) and the count of running tunnels in the title bar               *)
(* (useRunningTunnelCount).  Both follow the backend by "tunnel-status"     *)
(* events and by fetching every status; events arrive in order, but an      *)
(* answer to a fetch may overtake them or be overtaken.                     *)
(*                                                                         *)
(* A rule is the number of the save that wrote it; 0 means there is none.   *)
(***************************************************************************)
EXTENDS Integers, Sequences

CONSTANTS
    Rules,         \* ids of tunnels
    MaxSaves,      \* bound on the saves of one rule
    MaxActs        \* bound on what users, other windows and the network do

VARIABLES
    saved,         \* the rules in the database
    live,          \* state of each tunnel in the backend
    runs,          \* the rule its task was started with
    events,        \* "tunnel-status" events on their way
    title,         \* useRunningTunnelCount: stage, running, seen, and its fetch's answer
    panel,         \* useTunnelList: whether it listens, its rules and statuses
    reloads,       \* answers to reload() on their way to the panel
    starts,        \* start_tunnel calls in flight, and their answers
    flow,          \* credentialFlow, and whether every secret is typed
    dialog,        \* the rule being edited, and whether the form is filled in
    saves,         \* handleSave calls that have not returned
    confirming,    \* the rule handleDelete or handleResetTraffic asks about
    restarted,     \* the last edit of each tunnel that was followed by a restart
    acts

vars == <<saved, live, runs, events, title, panel, reloads, starts, flow, dialog, saves,
          confirming, restarted, acts>>
backendVars == <<saved, live, runs, events>>
pageVars == <<starts, flow, dialog, saves, confirming, restarted>>

None == "none"
IsTunnelActive(state) == state \notin {"stopped", "error", "needsCredentials"}
Statuses == [t \in {u \in Rules : saved[u] > 0} |-> live[t]]
Shown(t) == IF t \in DOMAIN panel.statuses THEN panel.statuses[t] ELSE "stopped"
Flow(t) == [t |-> t, busy |-> FALSE, complete |-> FALSE]
\* TunnelForm is mounted anew each time it opens, on a rule that is valid.
Form(t) == [t |-> t, valid |-> TRUE, saving |-> FALSE]
Act == acts > 0 /\ acts' = acts - 1
\* Dialogs are modal: the cards are reached only when none is open.
Free == panel.on /\ dialog.t = None /\ flow.t = None /\ confirming = None

Init ==
    /\ saved = [t \in Rules |-> 1] /\ live = [t \in Rules |-> "stopped"]
    /\ runs = [t \in Rules |-> 0] /\ events = <<>>
    /\ title = [stage |-> "off", running |-> {}, seen |-> {}, answer |-> <<>>]
    /\ panel = [on |-> FALSE, rules |-> {}, statuses |-> <<>>]
    /\ reloads = {} /\ starts = {} /\ flow = Flow(None)
    /\ dialog = Form(None) /\ saves = {} /\ confirming = None
    /\ restarted = [t \in Rules |-> 0] /\ acts = MaxActs

----------------------------------------------------------------------------
(* The backend: a rule's task reports every state it reaches.              *)

SetState(t, state) ==
    live' = [live EXCEPT ![t] = state] /\ events' = Append(events, [t |-> t, state |-> state])

\* What a running task meets: its connection is made, lost, or given up.
TunnelMoves ==
    /\ Act
    /\ \E t \in Rules, state \in {"running", "reconnecting", "error"} :
          IsTunnelActive(live[t]) /\ live[t] # state /\ SetState(t, state)
    /\ UNCHANGED <<saved, runs, title, panel, reloads, pageVars>>

\* auto_start_tunnels, the tray menu: started with no one to ask.
StartUnattended ==
    /\ Act
    /\ \E t \in Rules, state \in {"starting", "needsCredentials", "error"} :
          /\ saved[t] > 0 /\ ~IsTunnelActive(live[t])
          /\ SetState(t, state) /\ runs' = [runs EXCEPT ![t] = saved[t]]
    /\ UNCHANGED <<saved, title, panel, reloads, pageVars>>

\* start_rule for a call of the page; a task that runs already is left alone.
StartTunnel ==
    /\ \E c \in starts :
          /\ c.at = "called"
          /\ \/ /\ saved[c.t] > 0
                /\ starts' = (starts \ {c}) \cup {[c EXCEPT !.at = "started"]}
                /\ IF IsTunnelActive(live[c.t]) THEN UNCHANGED <<live, runs, events>>
                   ELSE SetState(c.t, "starting") /\ runs' = [runs EXCEPT ![c.t] = saved[c.t]]
             \/ /\ \E at \in {"needsCredentials", "failed"} :
                      starts' = (starts \ {c}) \cup {[c EXCEPT !.at = at]}
                /\ UNCHANGED <<live, runs, events>>
    /\ UNCHANGED <<saved, title, panel, reloads, flow, dialog, saves, confirming, restarted, acts>>

Stopped(t) == IF IsTunnelActive(live[t]) THEN SetState(t, "stopped") ELSE UNCHANGED <<live, events>>

----------------------------------------------------------------------------
(* useRunningTunnelCount.                                                  *)

Counted(running, t, state) == IF state = "running" THEN running \cup {t} ELSE running \ {t}

TitleListens ==
    /\ title.stage = "off" /\ title' = [title EXCEPT !.stage = "asking"]
    /\ UNCHANGED <<backendVars, panel, reloads, pageVars, acts>>

\* The backend reads the statuses for the first fetch.
TitleRead ==
    /\ title.stage = "asking" /\ title' = [title EXCEPT !.stage = "answering", !.answer = Statuses]
    /\ UNCHANGED <<backendVars, panel, reloads, pageVars, acts>>

\* Mutant: the answer replaces what events have said.
FetchedOverAll ==
    /\ title.stage = "answering"
    /\ title' = [title EXCEPT !.stage = "on", !.answer = <<>>,
           !.running = {t \in DOMAIN title.answer : title.answer[t] = "running"}]
    /\ UNCHANGED <<backendVars, panel, reloads, pageVars, acts>>

TitleFetched ==
    /\ title.stage = "answering"
    /\ \/ title' = [title EXCEPT !.stage = "on", !.answer = <<>>,
              !.running = (title.running \cap title.seen)
                  \cup {t \in DOMAIN title.answer \ title.seen : title.answer[t] = "running"}]
       \/ title' = [title EXCEPT !.stage = "failed", !.answer = <<>>]
    /\ UNCHANGED <<backendVars, panel, reloads, pageVars, acts>>

\* An event reaches whoever listens.
EventArrives ==
    /\ events # <<>> /\ events' = Tail(events)
    /\ LET e == Head(events) IN
          /\ title' = IF title.stage = "off" THEN title
                      ELSE [title EXCEPT !.seen = @ \cup {e.t}, !.running = Counted(@, e.t, e.state)]
          /\ panel' = IF ~panel.on THEN panel
                      ELSE [panel EXCEPT !.statuses = [t \in DOMAIN @ \cup {e.t} |->
                               IF t = e.t THEN e.state ELSE @[t]]]
    /\ UNCHANGED <<saved, live, runs, reloads, pageVars, acts>>

----------------------------------------------------------------------------
(* useTunnelList.                                                          *)

Reloads(for) == reloads' = reloads \cup {[for |-> for, read |-> FALSE, rules |-> {}, statuses |-> <<>>]}

\* The page opens: it listens, then fetches.
OpenPanel ==
    /\ Act /\ ~panel.on /\ panel' = [panel EXCEPT !.on = TRUE] /\ Reloads("page")
    /\ UNCHANGED <<backendVars, title, pageVars>>

\* A sync changed tunnels: another reload.
SyncApplied ==
    /\ Act /\ panel.on /\ Reloads("sync")
    /\ UNCHANGED <<backendVars, title, panel, pageVars>>

ReloadReads ==
    /\ \E r \in reloads : /\ ~r.read
          /\ reloads' = (reloads \ {r}) \cup {[r EXCEPT !.read = TRUE, !.statuses = Statuses,
                                               !.rules = {t \in Rules : saved[t] > 0}]}
    /\ UNCHANGED <<backendVars, title, panel, pageVars, acts>>

\* The answers replace rules and statuses alike.
ReloadAnswered ==
    /\ \E r \in reloads : /\ r.read /\ r.for \notin Rules /\ reloads' = reloads \ {r}
          /\ panel' = [panel EXCEPT !.rules = r.rules, !.statuses = r.statuses]
    /\ UNCHANGED <<backendVars, title, pageVars, acts>>

----------------------------------------------------------------------------
(* useTunnelActions, the cards and the dialogs.                            *)

Call(t) == starts' = starts \cup {[t |-> t, at |-> "called", for |-> "card"]}

\* A card's Start or Stop, after what the card shows.
HandleToggle ==
    /\ Act /\ Free
    /\ \E t \in panel.rules :
          \/ ~IsTunnelActive(Shown(t)) /\ Call(t) /\ UNCHANGED <<live, events>>
          \/ IsTunnelActive(Shown(t)) /\ Stopped(t) /\ UNCHANGED starts
    /\ UNCHANGED <<saved, runs, title, panel, reloads, flow, dialog, saves, confirming, restarted>>

\* startTunnel after its call: the one credentialFlow is replaced or cleared.
StartAnswered ==
    /\ \E c \in starts :
          /\ c.at # "called" /\ starts' = starts \ {c}
          /\ flow' = Flow(IF c.at = "needsCredentials" THEN c.t ELSE None)
          /\ IF c.for = "card" THEN UNCHANGED <<saves, restarted>>
             ELSE /\ saves' = {s \in saves : ~(s.t = c.t /\ s.at = "start")}
                  /\ restarted' = IF c.at # "started" THEN restarted
                        ELSE [restarted EXCEPT ![c.t] = CHOOSE v \in 0..MaxSaves :
                                 [t |-> c.t, rule |-> v, active |-> TRUE, at |-> "start"] \in saves]
          /\ dialog' = IF c.for # "card" THEN Form(None) ELSE dialog
    /\ UNCHANGED <<backendVars, title, panel, reloads, confirming, acts>>

\* The credentials dialog: fields are disabled and it stays while it connects.
TypeCredentials ==
    /\ flow.t # None /\ ~flow.busy /\ flow' = [flow EXCEPT !.complete = ~@]
    /\ UNCHANGED <<backendVars, title, panel, reloads, starts, dialog, saves, confirming, restarted, acts>>

HandleCredentialsSubmit ==
    /\ Act /\ flow.t # None /\ ~flow.busy /\ flow.complete
    /\ flow' = [flow EXCEPT !.busy = TRUE] /\ Call(flow.t)
    /\ UNCHANGED <<backendVars, title, panel, reloads, dialog, saves, confirming, restarted>>

CancelCredentials ==
    /\ flow.t # None /\ ~flow.busy /\ flow' = Flow(None)
    /\ UNCHANGED <<backendVars, title, panel, reloads, starts, dialog, saves, confirming, restarted, acts>>

\* The dialog opens on a card's rule, and may be left even while it saves.
OpenEdit ==
    /\ Act /\ Free /\ \E t \in panel.rules : dialog' = Form(t)
    /\ UNCHANGED <<backendVars, title, panel, reloads, starts, flow, saves, confirming, restarted>>

CloseDialog ==
    /\ dialog.t # None /\ dialog' = Form(None)
    /\ UNCHANGED <<backendVars, title, panel, reloads, starts, flow, saves, confirming, restarted, acts>>

\* Its fields; validateTunnel decides whether they can be saved.
UpdateForm ==
    /\ dialog.t # None /\ dialog' = [dialog EXCEPT !.valid = ~@]
    /\ UNCHANGED <<backendVars, title, panel, reloads, starts, flow, saves, confirming, restarted, acts>>

\* handleSave: whether to restart is read from what the panel shows.
HandleSave ==
    /\ dialog.t # None /\ dialog.valid /\ ~dialog.saving /\ dialog' = [dialog EXCEPT !.saving = TRUE]
    /\ LET t == dialog.t IN
          /\ saved[t] \in 1..MaxSaves - 1 /\ \A s \in saves : s.t # t
          /\ saved' = [saved EXCEPT ![t] = @ + 1] /\ Reloads(t)
          /\ saves' = saves \cup {[t |-> t, rule |-> saved[t] + 1, at |-> "reload",
                                   active |-> IsTunnelActive(Shown(t))]}
    /\ UNCHANGED <<live, runs, events, title, panel, starts, flow, confirming, restarted, acts>>

\* The form closes when all is done; a reload that fails shows an error in it.
SaveReloaded ==
    /\ \E s \in saves, r \in reloads :
          /\ r.for = s.t /\ s.at = "reload" /\ reloads' = reloads \ {r}
          /\ \/ /\ r.read /\ panel' = [panel EXCEPT !.rules = r.rules, !.statuses = r.statuses]
                /\ saves' = (saves \ {s}) \cup (IF s.active THEN {[s EXCEPT !.at = "stop"]} ELSE {})
                /\ dialog' = IF s.active THEN dialog ELSE Form(None)
             \/ saves' = saves \ {s} /\ dialog' = [dialog EXCEPT !.saving = FALSE] /\ UNCHANGED panel
    /\ UNCHANGED <<backendVars, title, starts, flow, confirming, restarted, acts>>

\* Mutant: it is only started.
SaveStarts ==
    /\ \E s \in saves :
          /\ s.at = "stop" /\ saves' = (saves \ {s}) \cup {[s EXCEPT !.at = "start"]}
          /\ starts' = starts \cup {[t |-> s.t, at |-> "called", for |-> "save"]}
    /\ UNCHANGED <<backendVars, title, panel, reloads, flow, dialog, confirming, restarted, acts>>

\* A running tunnel keeps its old rule: it is stopped, and started again.
SaveRestarts ==
    /\ \E s \in saves :
          /\ s.at = "stop" /\ Stopped(s.t)
          /\ saves' = (saves \ {s}) \cup {[s EXCEPT !.at = "start"]}
          /\ starts' = starts \cup {[t |-> s.t, at |-> "called", for |-> "save"]}
    /\ UNCHANGED <<saved, runs, title, panel, reloads, flow, dialog, confirming, restarted, acts>>

\* The bin of a card, or the reset of its totals.
HandleDelete ==
    /\ Act /\ Free /\ \E t \in panel.rules : confirming' = t
    /\ UNCHANGED <<backendVars, title, panel, reloads, starts, flow, dialog, saves, restarted>>

DeleteAnswered ==
    /\ confirming # None /\ confirming' = None
    /\ \/ UNCHANGED <<saved, live, events, reloads>>
       \/ Stopped(confirming) /\ saved' = [saved EXCEPT ![confirming] = 0] /\ Reloads("page")
    /\ UNCHANGED <<runs, title, panel, starts, flow, dialog, saves, restarted, acts>>

HandleResetTraffic ==
    /\ Act /\ Free /\ panel.rules # {} /\ Reloads("page")
    /\ UNCHANGED <<backendVars, title, panel, pageVars>>

Next ==
    \/ TunnelMoves \/ StartUnattended \/ StartTunnel
    \/ TitleListens \/ TitleRead \/ TitleFetched \/ EventArrives
    \/ OpenPanel \/ SyncApplied \/ ReloadReads \/ ReloadAnswered
    \/ HandleToggle \/ StartAnswered \/ TypeCredentials \/ HandleCredentialsSubmit \/ CancelCredentials
    \/ OpenEdit \/ UpdateForm \/ CloseDialog \/ HandleSave \/ SaveReloaded \/ SaveRestarts
    \/ HandleDelete \/ DeleteAnswered \/ HandleResetTraffic

Spec == Init /\ [][Next]_vars

----------------------------------------------------------------------------
\* Once nothing is on its way, the title bar counts the tunnels that run: the
\* fetch made after subscribing never overwrites what an event has said since
\* (useRunningTunnelCount), and no change is missed in between.
CountSettles ==
    (events = <<>> /\ title.stage = "on") => title.running = {t \in Rules : live[t] = "running"}

\* An edit of a tunnel the page shows as active is applied: once handleSave has
\* restarted it, no task runs an older rule, whoever else starts, stops or
\* saves the tunnel meanwhile.
EditsReachTheTunnel ==
    \A t \in Rules : IsTunnelActive(live[t]) => runs[t] >= restarted[t]

\* Once nothing is on its way, the page shows every tunnel's state.
PanelSettles ==
    (events = <<>> /\ reloads = {} /\ panel.on) => \A t \in panel.rules : Shown(t) = live[t]

\* What keeps EditsReachTheTunnel true from step to step: the one save of a tunnel that is
\* under way is of its newest rule, and once it has stopped the task none runs an older one.
RestartTypeOK ==
    /\ saved \in [Rules -> 0..MaxSaves] /\ runs \in [Rules -> 0..MaxSaves]
    /\ restarted \in [Rules -> 0..MaxSaves] /\ DOMAIN live = Rules
    /\ \A c \in starts : DOMAIN c = {"t", "at", "for"} /\ c.t \in Rules /\ c.for \in {"card", "save"}
    /\ saves \subseteq [t : Rules, rule : 1..MaxSaves, at : {"reload", "stop", "start"}, active : BOOLEAN]
PageTypeOK ==
    /\ DOMAIN dialog = {"t", "valid", "saving"} /\ dialog.t \in Rules \cup {None}
    /\ DOMAIN flow = {"t", "busy", "complete"} /\ flow.t \in Rules \cup {None}
    /\ confirming \in Rules \cup {None}
    /\ DOMAIN panel = {"on", "rules", "statuses"} /\ panel.rules \subseteq Rules
    /\ \A r \in reloads : DOMAIN r = {"for", "read", "rules", "statuses"} /\ r.rules \subseteq Rules
OneSave ==
    /\ \A s, u \in saves : s.t = u.t => s = u
    /\ \A s \in saves : (saved[s.t] # 0 => s.rule = saved[s.t]) /\ (s.at # "reload" => s.active)
    /\ \A c, d \in starts : (c.for = "save" /\ d.for = "save" /\ c.t = d.t) => c = d
    /\ \A c \in starts : c.for = "save" => \E s \in saves : s.t = c.t /\ s.at = "start"
RestartInv ==
    /\ RestartTypeOK /\ PageTypeOK /\ OneSave
    /\ \A s \in saves : (s.at = "start" /\ IsTunnelActive(live[s.t])) => runs[s.t] >= s.rule
    /\ \A t \in Rules :
          /\ saved[t] = 0 => ~IsTunnelActive(live[t])
          /\ saved[t] # 0 => restarted[t] <= saved[t]
    /\ EditsReachTheTunnel

\* What keeps CountSettles true from step to step: the last event on its way of a tunnel
\* tells its state; where none is left, what the title has seen of it or is about to learn
\* from its fetch does.
Reported(t) == \E i \in 1..Len(events) : events[i].t = t
IsLast(i) == \A j \in (i + 1)..Len(events) : events[j].t # events[i].t
FetchSays(t) == t \in DOMAIN title.answer /\ title.answer[t] = "running"
States == {"stopped", "starting", "running", "reconnecting", "error", "needsCredentials"}
Reports == [t : Rules, state : States]
CountTypeOK ==
    /\ DOMAIN title = {"stage", "running", "seen", "answer"}
    /\ title.stage \in {"off", "asking", "answering", "on", "failed"}
    /\ title.running \subseteq Rules /\ title.seen \subseteq Rules
    /\ title.stage = "off" => title.seen = {}
    /\ title.stage = "answering" => DOMAIN title.answer \subseteq Rules
    /\ events \in Seq(Reports) /\ DOMAIN live = Rules
CountInv ==
    /\ CountTypeOK
    /\ \A i \in 1..Len(events) : IsLast(i) => events[i].state = live[events[i].t]
    /\ \A t \in Rules : ~Reported(t) =>
          /\ title.stage = "on" \/ (title.stage \in {"asking", "answering"} /\ t \in title.seen)
                => (t \in title.running <=> live[t] = "running")
          /\ title.stage = "answering" /\ t \notin title.seen => (FetchSays(t) <=> live[t] = "running")
=============================================================================
