------------------------------- MODULE Keymap -------------------------------
(***************************************************************************)
(* Keyboard shortcuts: default chords and a sparse layer of overrides, the  *)
(* settings page that records them, and the dispatcher that turns a key     *)
(* press into an action.  Four actions stand for the registry: two bound    *)
(* with a physical Ctrl off macOS, the nine digit chords and an unbound     *)
(* one.  Shift belongs to the key.                                          *)
(***************************************************************************)
EXTENDS Integers, Sequences

CONSTANTS
    IsMac,          \* the platform: Cmd or Ctrl is the primary modifier
    MaxActs         \* bound on inputs

VARIABLES
    config,         \* the overrides in effect
    saves,          \* saves in the queue, each with all overrides; the first is being sent
    recordingAction, conflict, recordingError,
    suppressed,     \* setDispatchSuppressed
    acts

vars == <<config, saves, recordingAction, conflict, recordingError, suppressed, acts>>

-----------------------------------------------------------------------------
(* Chords and bindings.                                                    *)

Digits == {"1", "2"}
Chord(mods, key) == [mods |-> mods, key |-> key]
KeymapActions == <<"newTab", "nextTab", "switchToNth", "reset">>
Actions == {KeymapActions[i] : i \in DOMAIN KeymapActions}
None == "none"

DigitChords(modifier) == {Chord({modifier}, d) : d \in Digits}

DefaultBindings ==
    [a \in Actions |->
        CASE a = "newTab" -> {Chord({IF IsMac THEN "mod" ELSE "ctrl"}, "t")}
          [] a = "nextTab" -> {Chord({"ctrl"}, "tab")}
          [] a = "switchToNth" -> DigitChords(IF IsMac THEN "mod" ELSE "alt")
          [] a = "reset" -> {}]

\* An override: absent, unbound or chords.
Default == [kind |-> "default", chords |-> {}]
Unbound == [kind |-> "unbound", chords |-> {}]
Bound(chords) == [kind |-> "bound", chords |-> chords]

ResolveEffectiveKeymap(bindings) ==
    [a \in Actions |-> IF bindings[a].kind = "default" THEN DefaultBindings[a]
                       ELSE bindings[a].chords]

Owners(effective, c) == {i \in DOMAIN KeymapActions : c \in effective[KeymapActions[i]]}

\* Mutant: only chords that were recorded are compared.
ConflictsRecorded(bindings) ==
    {c \in UNION {bindings[a].chords : a \in Actions} :
        \E a, b \in Actions : a # b /\ c \in bindings[a].chords \cap bindings[b].chords}

FindKeymapConflicts(bindings) ==
    LET effective == ResolveEffectiveKeymap(bindings) IN
    {c \in UNION {effective[a] : a \in Actions} :
        \E i, j \in Owners(effective, c) : i # j}

\* buildChordIndex: the first action of the registry that has the chord.
ChordIndex(effective, c) ==
    LET owners == Owners(effective, c) IN
    IF owners = {} THEN None
    ELSE KeymapActions[CHOOSE i \in owners : \A j \in owners : i <= j]

-----------------------------------------------------------------------------
(* Key presses.                                                            *)

\* The modifiers a user holds down, with the keys the defaults use.
Events == [mods : {{"meta"}, {"ctrl"}, {"alt"}, {"meta", "ctrl"}}, key : {"t", "tab"} \cup Digits]

EventToChord(e) ==
    LET mod == IF IsMac THEN "meta" ELSE "ctrl" IN
    Chord((IF mod \in e.mods THEN {"mod"} ELSE {})
          \cup (IF IsMac /\ "ctrl" \in e.mods THEN {"ctrl"} ELSE {})
          \cup (e.mods \cap {"alt"}), e.key)

IsTerminalCtrlKey(key) == key = "t"

\* What a chord is looked up as when it is bound to nothing: on macOS Ctrl stands in for
\* Cmd, elsewhere Mod is a physical Ctrl.
FallbackChord(c) ==
    IF IsMac
    THEN IF "ctrl" \in c.mods /\ "mod" \notin c.mods /\ ~IsTerminalCtrlKey(c.key)
         THEN Chord((c.mods \ {"ctrl"}) \cup {"mod"}, c.key) ELSE c
    ELSE IF "mod" \in c.mods THEN Chord((c.mods \ {"mod"}) \cup {"ctrl"}, c.key) ELSE c

DispatchKeydownEvent(effective, e) ==
    LET c == EventToChord(e) IN
    IF suppressed THEN None
    ELSE IF ChordIndex(effective, c) # None THEN ChordIndex(effective, c)
    ELSE ChordIndex(effective, FallbackChord(c))

\* formatChord: the keys a shortcut's label names.
LabelledKeys(c) ==
    [mods |-> {IF m = "mod" THEN (IF IsMac THEN "meta" ELSE "ctrl") ELSE m : m \in c.mods},
     key |-> c.key]

-----------------------------------------------------------------------------
(* The settings page.                                                      *)

Act == acts < MaxActs /\ acts' = acts + 1

\* persistKeymap: overrides that conflict are shown, not saved.
PersistKeymap(bindings, a, recorded) ==
    IF FindKeymapConflicts(bindings) # {}
    THEN conflict' = a /\ UNCHANGED saves
    ELSE conflict' = None /\ saves' = Append(saves, [bindings |-> bindings, recorded |-> recorded])

UpdateBinding(a, override, recorded) == PersistKeymap([config EXCEPT ![a] = override], a, recorded)

\* A shortcut's button: starts to record it, or stops.
ToggleRecording ==
    /\ Act
    /\ \E a \in Actions :
          /\ recordingAction' = IF recordingAction = a THEN None ELSE a
          /\ suppressed' = (recordingAction # a)
    /\ conflict' = None /\ recordingError' = None
    /\ UNCHANGED <<config, saves>>

\* Escape while recording; or the page is left.
StopRecording ==
    /\ Act /\ recordingAction # None
    /\ recordingAction' = None /\ suppressed' = FALSE
    /\ conflict' = None /\ recordingError' = None
    /\ UNCHANGED <<config, saves>>

\* Backspace or Delete while recording.
RecordUnbound ==
    /\ Act /\ recordingAction # None
    /\ UpdateBinding(recordingAction, Unbound, TRUE)
    /\ UNCHANGED <<config, recordingAction, recordingError, suppressed>>

Record ==
    /\ Act /\ recordingAction # None
    /\ \E e \in Events :
          LET c == EventToChord(e) IN
          IF recordingAction = "switchToNth" /\ c.key \notin Digits
          THEN recordingError' = recordingAction /\ UNCHANGED <<saves, conflict>>
          ELSE /\ recordingError' = None
               /\ UpdateBinding(recordingAction,
                     Bound(IF recordingAction = "switchToNth" THEN {[c EXCEPT !.key = d] : d \in Digits}
                           ELSE {c}), TRUE)
    /\ UNCHANGED <<config, recordingAction, suppressed>>

ClearBinding ==
    /\ Act
    /\ \E a \in Actions : UpdateBinding(a, Unbound, FALSE)
    /\ UNCHANGED <<config, recordingAction, recordingError, suppressed>>

RestoreDefault ==
    /\ Act
    /\ \E a \in Actions : config[a] # Default /\ UpdateBinding(a, Default, FALSE)
    /\ UNCHANGED <<config, recordingAction, recordingError, suppressed>>

HandleResetOverrides ==
    /\ Act
    /\ conflict' = None /\ recordingError' = None
    /\ saves' = Append(saves, [bindings |-> [a \in Actions |-> Default], recorded |-> FALSE])
    /\ UNCHANGED <<config, recordingAction, suppressed>>

\* A recorded shortcut that was saved ends whatever is being recorded by then.
SaveLands ==
    /\ saves # <<>>
    /\ config' = Head(saves).bindings
    /\ saves' = Tail(saves)
    /\ IF Head(saves).recorded THEN recordingAction' = None /\ suppressed' = FALSE
       ELSE UNCHANGED <<recordingAction, suppressed>>
    /\ UNCHANGED <<conflict, recordingError, acts>>

SaveFails ==
    /\ saves # <<>>
    /\ saves' = Tail(saves)
    /\ UNCHANGED <<config, recordingAction, conflict, recordingError, suppressed, acts>>

Init ==
    /\ config = [a \in Actions |-> Default]
    /\ saves = <<>>
    /\ recordingAction = None /\ conflict = None /\ recordingError = None
    /\ suppressed = FALSE
    /\ acts = 0

Next ==
    \/ ToggleRecording \/ StopRecording \/ RecordUnbound \/ Record
    \/ ClearBinding \/ RestoreDefault \/ HandleResetOverrides
    \/ SaveLands \/ SaveFails

Spec == Init /\ [][Next]_vars

-----------------------------------------------------------------------------
\* The keys a shortcut's label names run that action, whatever was recorded, cleared,
\* restored or reset before and whichever saves landed; nothing runs while one is recorded.
LabelsTellTheTruth ==
    LET effective == ResolveEffectiveKeymap(config) IN
    \A a \in Actions : \A c \in effective[a] :
        DispatchKeydownEvent(effective, LabelledKeys(c))
            = IF recordingAction = None THEN a ELSE None

\* What makes it hold: bindings in effect, or on their way to it, have no conflict.
Chords == [mods : SUBSET {"mod", "ctrl", "alt"}, key : {"t", "tab"} \cup Digits]
Overrides == [kind : {"default", "unbound", "bound"}, chords : SUBSET Chords]
SoundBindings == {b \in [Actions -> Overrides] : FindKeymapConflicts(b) = {}}
SoundSaves == [bindings : SoundBindings, recorded : BOOLEAN]

KeymapInv ==
    /\ config \in SoundBindings
    /\ saves \in Seq(SoundSaves)
    /\ recordingAction \in Actions \cup {None}
    /\ suppressed = (recordingAction # None)
=============================================================================
