----------------------------- MODULE Attention -----------------------------
(***************************************************************************)
(* What terminals want attention for: the marks on tabs out of sight, the  *)
(* toasts, the system notifications and the count on the app icon          *)
(* (useTerminalNotifications, tabAttention, useTerminalActivation).        *)
(* A notification is on its way while its sound is played and while the    *)
(* system takes it; tabs and the window's focus change meanwhile.          *)
(***************************************************************************)
EXTENDS Integers, FiniteSets, FiniteSetsExt

CONSTANTS Tabs,        \* the tabs open at the start; the ids of closed ones never return
          Settings,    \* the notification settings in force
          MaxUnseen,   \* bound on notifications on their way and on the count of a tab
          MaxActs      \* bound on what the user does to tabs and the window

VARIABLES openTabs, visible, activeTab, windowFocused,
          hasBeenActive,   \* tabs that were in sight once
          marks, unseen,   \* tabAttention: the mark and the unseen count of each tab
          tabToasts,       \* tabs with a toast up
          announced,       \* the keys announced less than the interval ago
          onTheWay,        \* bag of notifications: [tab, at] -> how many
          userActs

vars == <<openTabs, visible, activeTab, windowFocused, hasBeenActive, marks, unseen, tabToasts,
          announced, onTheWay, userActs>>

Kinds == {"command", "request", "agent", "bell"}
Levels == <<"activity", "bell", "notification">>
Keys == Tabs \X {"bell", "event"}
Notifications == [tab : Tabs, at : {"sound", "system"}]

Rank(level) == IF level = "none" THEN 0 ELSE CHOOSE i \in 1..3 : Levels[i] = level

StrongerAttention(current, next) == IF Rank(current) >= Rank(next) THEN current ELSE next

Nothing == [mark |-> "none", system |-> FALSE, toast |-> FALSE]

\* decideAttention; Settings.wanted are the kinds asked for, a command that ran too briefly is
\* no event.  Nothing interrupts the user in the focused tab; a bell marks its tab even when
\* it announces nothing.
DecideAttention(kind, tabVisible, tabFocused) ==
    IF (windowFocused /\ tabFocused) \/ (kind # "bell" /\ kind \notin Settings.wanted)
    THEN Nothing
    ELSE LET announce == Settings.enabled /\ (kind = "bell" => Settings.bellNotify)
         IN  [mark |-> IF tabVisible THEN "none"
                       ELSE IF kind = "bell" THEN "bell" ELSE "notification",
              system |-> announce /\ ~windowFocused,
              toast |-> announce /\ windowFocused /\ kind # "bell"]

MarkTabAttention(t, level) == marks' = [marks EXCEPT ![t] = StrongerAttention(@, level)]

ClearTabAttention(seen) ==
    /\ marks' = [t \in Tabs |-> IF t \in seen THEN "none" ELSE marks[t]]
    /\ unseen' = [t \in Tabs |-> IF t \in seen THEN 0 ELSE unseen[t]]

\* The count on the app icon.
UnseenNotificationTotal == MapThenSumSet(LAMBDA t : unseen[t], Tabs)

TypeOK ==
    /\ visible \subseteq openTabs /\ openTabs \subseteq Tabs
    /\ activeTab \in visible \cup {"none"}
    /\ windowFocused \in BOOLEAN
    /\ hasBeenActive \subseteq Tabs /\ tabToasts \subseteq openTabs
    /\ marks \in [Tabs -> {"none", "activity", "bell", "notification"}]
    /\ unseen \in [Tabs -> 0..MaxUnseen]
    /\ announced \subseteq Keys
    /\ onTheWay \in [Notifications -> 0..MaxUnseen]
    /\ userActs \in 0..MaxActs

Init ==
    /\ openTabs = Tabs
    /\ \E t \in Tabs : visible = {t} /\ activeTab = t /\ hasBeenActive = {t}
    /\ windowFocused \in BOOLEAN
    /\ marks = [t \in Tabs |-> "none"] /\ unseen = [t \in Tabs |-> 0]
    /\ tabToasts = {} /\ announced = {}
    /\ onTheWay = [n \in Notifications |-> 0]
    /\ userActs = 0

-----------------------------------------------------------------------------
(* What terminals report.                                                  *)

\* A bell is heard of unless the settings silence it; what else a tab reports always is.
Heard(kind) == kind = "bell" => Settings.bellStyle # "none"

Key(t, kind) == <<t, IF kind = "bell" THEN "bell" ELSE "event">>

\* The handler useTerminalNotifications returns.
Attention(t, kind) ==
    LET decision == DecideAttention(kind, t \in visible, t = activeTab)
        announces == (decision.system \/ decision.toast) /\ Key(t, kind) \notin announced
    IN  /\ t \in openTabs /\ Heard(kind)
        /\ decision # Nothing
        /\ IF decision.mark = "none" THEN UNCHANGED marks ELSE MarkTabAttention(t, decision.mark)
        /\ announced' = IF announces THEN announced \cup {Key(t, kind)} ELSE announced
        /\ IF announces /\ decision.system
           THEN /\ onTheWay[[tab |-> t, at |-> "sound"]] < MaxUnseen
                /\ onTheWay' = [onTheWay EXCEPT ![[tab |-> t, at |-> "sound"]] = @ + 1]
           ELSE UNCHANGED onTheWay
        /\ tabToasts' = IF announces /\ decision.toast THEN tabToasts \cup {t} ELSE tabToasts
        /\ UNCHANGED <<openTabs, visible, activeTab, windowFocused, hasBeenActive, unseen, userActs>>

\* Output of a tab out of sight, once it was looked at.
BackgroundOutput(t) ==
    /\ t \in openTabs \ visible /\ t \in hasBeenActive
    /\ Rank(marks[t]) < Rank("activity")
    /\ MarkTabAttention(t, "activity")
    /\ UNCHANGED <<openTabs, visible, activeTab, windowFocused, hasBeenActive, unseen, tabToasts,
                   announced, onTheWay, userActs>>

IntervalOver(key) ==
    /\ key \in announced
    /\ announced' = announced \ {key}
    /\ UNCHANGED <<openTabs, visible, activeTab, windowFocused, hasBeenActive, marks, unseen,
                   tabToasts, onTheWay, userActs>>

-----------------------------------------------------------------------------
(* showSystemNotification: the sound first, then the notification.         *)

\* The settings' sound is played, or left to the system when it cannot be.
SoundPlayed(t) ==
    LET from == [tab |-> t, at |-> "sound"]  to == [tab |-> t, at |-> "system"]
    IN  /\ onTheWay[from] > 0 /\ onTheWay[to] < MaxUnseen
        /\ onTheWay' = [onTheWay EXCEPT ![from] = @ - 1, ![to] = @ + 1]
        /\ UNCHANGED <<openTabs, visible, activeTab, windowFocused, hasBeenActive, marks, unseen,
                       tabToasts, announced, userActs>>

NeverSeen(t) == FALSE

\* Whether the tab came into sight while the notification was on its way.
SeenMeanwhile(t) == windowFocused /\ t \in visible

NotificationShown(t) ==
    /\ onTheWay[[tab |-> t, at |-> "system"]] > 0
    /\ onTheWay' = [onTheWay EXCEPT ![[tab |-> t, at |-> "system"]] = @ - 1]
    /\ SeenMeanwhile(t) \/ unseen[t] < MaxUnseen
    /\ unseen' = [unseen EXCEPT ![t] = IF SeenMeanwhile(t) THEN @ ELSE @ + 1]
    /\ UNCHANGED <<openTabs, visible, activeTab, windowFocused, hasBeenActive, marks, tabToasts,
                   announced, userActs>>

NotificationFailed(t) ==
    /\ onTheWay[[tab |-> t, at |-> "system"]] > 0
    /\ onTheWay' = [onTheWay EXCEPT ![[tab |-> t, at |-> "system"]] = @ - 1]
    /\ UNCHANGED <<openTabs, visible, activeTab, windowFocused, hasBeenActive, marks, unseen,
                   tabToasts, announced, userActs>>

-----------------------------------------------------------------------------
(* The window and the tabs.                                                *)

UserActs == userActs < MaxActs /\ userActs' = userActs + 1

\* Coming back to the window sees the panes in sight.
FocusChanged ==
    /\ UserActs
    /\ windowFocused' = ~windowFocused
    /\ IF windowFocused THEN UNCHANGED <<marks, unseen>> ELSE ClearTabAttention(visible)
    /\ UNCHANGED <<openTabs, visible, activeTab, hasBeenActive, tabToasts, announced, onTheWay>>

\* A layout with the panes vs in sight and t focused is rendered: what comes into sight is
\* answered, the focused tab's toast goes.
Render(vs, t) ==
    /\ visible' = vs /\ activeTab' = t
    /\ hasBeenActive' = hasBeenActive \cup vs

ShowTab(t) ==
    /\ UserActs /\ t \in openTabs
    /\ \E vs \in SUBSET openTabs :
        /\ t \in vs /\ <<vs, t>> # <<visible, activeTab>>
        /\ Render(vs, t)
        /\ ClearTabAttention(vs \ visible)
    /\ tabToasts' = tabToasts \ {t}
    /\ UNCHANGED <<openTabs, windowFocused, announced, onTheWay>>

\* The tab's terminal unmounts; another tab comes into sight, if one is left.
CloseTab(t) ==
    /\ UserActs /\ t \in openTabs
    /\ openTabs' = openTabs \ {t}
    /\ \E vs \in SUBSET (openTabs \ {t}), next \in openTabs \cup {"none"} :
        /\ IF openTabs = {t} THEN vs = {} /\ next = "none"
           ELSE next \in vs /\ (t # activeTab => next = activeTab /\ visible \ {t} \subseteq vs)
        /\ Render(vs, next)
        /\ ClearTabAttention((vs \ visible) \cup {t})
        /\ tabToasts' = tabToasts \ {t, next}
    /\ UNCHANGED <<windowFocused, announced, onTheWay>>

ToastClosed(t) ==
    /\ t \in tabToasts
    /\ tabToasts' = tabToasts \ {t}
    /\ UNCHANGED <<openTabs, visible, activeTab, windowFocused, hasBeenActive, marks, unseen,
                   announced, onTheWay, userActs>>

Next ==
    \/ \E t \in Tabs, kind \in Kinds : Attention(t, kind)
    \/ \E t \in Tabs :
        \/ BackgroundOutput(t) \/ SoundPlayed(t) \/ NotificationShown(t) \/ NotificationFailed(t)
        \/ ShowTab(t) \/ CloseTab(t) \/ ToastClosed(t)
    \/ \E key \in Keys : IntervalOver(key)
    \/ FocusChanged

Spec == Init /\ [][Next]_vars

-----------------------------------------------------------------------------
(***************************************************************************)
(* Looking at a tab answers it: while the window is in front, no tab in    *)
(* sight has a mark or an unseen notification, however late the sound and  *)
(* the system were, and the focused tab has no toast up.                   *)
(***************************************************************************)
SeenIsAnswered ==
    windowFocused => /\ \A t \in visible : marks[t] = "none" /\ unseen[t] = 0
                     /\ activeTab \notin tabToasts

NoToastInFocus == activeTab \notin tabToasts

AttentionInv == TypeOK /\ SeenIsAnswered /\ NoToastInFocus

(***************************************************************************)
(* "The app icon counts system notifications until the user sees their     *)
(* tabs" (useTerminalNotifications.tsx): what the icon counts is in a tab   *)
(* that can still be looked at.                                            *)
(***************************************************************************)
CountCanBeSeen == UnseenNotificationTotal > 0 => \E t \in openTabs : unseen[t] > 0
=============================================================================
