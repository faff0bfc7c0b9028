----------------------------- MODULE Appearance -----------------------------
(***************************************************************************)
(* The blur behind the window, the native colours that go with it, the tint *)
(* the native window carries while the page may not be on screen, and the   *)
(* sliders of the appearance page that preview a value before saving it.    *)
(* The native side answers calls in the order they were made.               *)
(***************************************************************************)
EXTENDS Integers, Sequences, FiniteSets

CONSTANTS
    Levels,         \* values of a slider
    MaxActs,        \* bound on inputs and on changes of the theme and the visibility
    MaxFaults       \* bound on refused commands

VARIABLES
    platform,       \* "macos" or "windows"
    config,         \* blur, material, radius, opacity, scale
    isLoaded,
    blur, known,    \* windowBlur, windowBlurKnown
    look,           \* the page's background, "l" or "d"
    keys,           \* nativeBackground, nativeBlur, savedBackground
    native,         \* what the window has: its background, its blur; the colour saved
    sent,           \* native calls in flight
    tab,            \* the appearance page: open, its drafts, the scale being saved
    domScale,       \* the scale on the page
    waiting,        \* saves of the configuration in flight
    visible, drawn, \* the page is on screen; it has drawn a frame since it was shown
    generation, tinted, watching,
    frames,         \* animation callbacks: the generation they hold, frames left
    drawing,        \* the callbacks of a frame have run, it is about to be drawn
    acts, faults

winVars == <<blur, known, keys, sent>>
pageVars == <<visible, drawn, generation, tinted, watching, frames, drawing>>
envVars == <<platform, native, faults>>
vars == <<winVars, pageVars, envVars, config, isLoaded, look, tab, domScale, waiting, acts>>

Act == acts < MaxActs /\ acts' = acts + 1
Fault == faults < MaxFaults /\ faults' = faults + 1
Unknown == <<>>
NoColor == "none"
Off == [enabled |-> FALSE, radius |-> 0, material |-> "acrylic", opacity |-> 0]
BlurOf(c) == IF c.blur THEN [enabled |-> TRUE, radius |-> c.radius, material |-> c.material, opacity |-> c.opacity]
             ELSE [Off EXCEPT !.material = c.material]

-----------------------------------------------------------------------------
(* The native window follows the page.                                     *)

BackgroundKey(b, l, t) == <<l, IF ~b.enabled THEN "solid" ELSE IF t THEN "tint" ELSE "clear",
                          IF b.enabled /\ t THEN b.opacity ELSE 0>>
BlurKey(b, l) ==
    IF ~b.enabled THEN <<"off">>
    ELSE IF platform = "macos" THEN <<"radius", b.radius>>
    ELSE <<b.material, l>>

\* syncNativeBackground: the colour is saved for the next launch; the Windows
\* window stays clear.
BackgroundCalls(k, key, l) ==
    IF key = k.background THEN <<>>
    ELSE (IF l = k.saved THEN <<>> ELSE <<[kind |-> "save", value |-> l]>>) \o
         (IF platform = "windows" THEN <<>> ELSE <<[kind |-> "background", value |-> key]>>)

\* syncNativeBlur: nothing before the configuration is known.
BlurCalls(k, key, isKnown) ==
    IF ~isKnown \/ key = k.blur THEN <<>> ELSE <<[kind |-> "blur", value |-> key]>>

Sync(b, isKnown, l, t) ==
    LET back == BackgroundKey(b, l, t)
        key == BlurKey(b, l)
    IN  /\ sent' = sent \o BackgroundCalls(keys, back, l) \o BlurCalls(keys, key, isKnown)
        /\ keys' = [background |-> back, saved |-> l, blur |-> IF isKnown THEN key ELSE keys.blur]

SyncBackground(t) ==
    LET back == BackgroundKey(blur, look, t)
    IN  /\ sent' = sent \o BackgroundCalls(keys, back, look)
        /\ keys' = [keys EXCEPT !.background = back, !.saved = look]

\* setWindowBlur, when nothing changed, leaves the window alone.
SetWindowBlur(b) ==
    /\ blur' = b /\ known' = TRUE
    /\ IF known /\ b = blur THEN UNCHANGED <<keys, sent>> ELSE Sync(b, TRUE, look, tinted)

NativeAnswers(ok) ==
    /\ sent # <<>>
    /\ LET c == Head(sent)
       IN  IF ok
           THEN /\ native' = [native EXCEPT ![c.kind] = c.value]
                /\ UNCHANGED <<keys, faults>>
           ELSE /\ Fault
                /\ keys' = CASE c.kind = "blur" -> [keys EXCEPT !.blur = Unknown]
                             [] c.kind = "background" -> [keys EXCEPT !.background = Unknown]
                             [] c.kind = "save" -> [keys EXCEPT !.background = Unknown, !.saved = NoColor]
                /\ UNCHANGED native
    /\ sent' = Tail(sent)
    /\ UNCHANGED <<platform, blur, known, pageVars, config, isLoaded, look, tab, domScale, waiting, acts>>

-----------------------------------------------------------------------------
(* The tint.                                                               *)

\* applyThemeToDom: the first theme starts the watch.
ApplyThemeToDom(l) ==
    /\ Act /\ (l # look \/ ~watching)
    /\ look' = l
    /\ watching' = TRUE
    /\ tinted' = (tinted \/ (~watching /\ ~visible))
    /\ Sync(blur, known, l, tinted')
    /\ UNCHANGED <<blur, known, visible, drawn, generation, frames, drawing, envVars, config, isLoaded, tab, domScale, waiting>>

SetWindowTinted(t) ==
    /\ tinted' = t
    /\ IF t = tinted THEN UNCHANGED <<keys, sent>> ELSE SyncBackground(t)

\* visibilitychange: a hidden page tints the window at once.
Hidden ==
    /\ Act /\ visible /\ visible' = FALSE /\ drawn' = FALSE
    /\ IF watching THEN generation' = generation + 1 /\ SetWindowTinted(TRUE)
       ELSE UNCHANGED <<generation, tinted, keys, sent>>
    /\ UNCHANGED <<blur, known, watching, frames, drawing, envVars, config, isLoaded, look, tab, domScale, waiting>>

\* A page shown again asks for a callback in the second frame from now.
Shown ==
    /\ Act /\ ~visible /\ visible' = TRUE
    /\ IF watching
       THEN generation' = generation + 1 /\ frames' = frames \cup {[gen |-> generation + 1, left |-> 2]}
       ELSE UNCHANGED <<generation, frames>>
    /\ UNCHANGED <<winVars, drawn, tinted, watching, drawing, envVars, config, isLoaded, look, tab, domScale, waiting>>

\* One frame: its callbacks run, then it is drawn.  Hidden pages draw none.
IsCurrent(f) == f.gen = generation
Due == {f \in frames : f.left = 1}
UntintsAny == Due # {}
Untints == \E f \in Due : IsCurrent(f)
Pending(f) == f.left > 1
Frame ==
    /\ visible /\ (~drawn \/ frames # {})
    /\ drawing' = TRUE
    /\ frames' = {[f EXCEPT !.left = @ - 1] : f \in {g \in frames : Pending(g)}}
    /\ IF Untints THEN SetWindowTinted(FALSE) ELSE UNCHANGED <<tinted, keys, sent>>
    /\ UNCHANGED <<blur, known, visible, drawn, generation, watching, envVars, config, isLoaded, look, tab, domScale, waiting, acts>>

Draw ==
    /\ drawing /\ drawing' = FALSE
    /\ drawn' = TRUE
    /\ UNCHANGED <<winVars, visible, generation, tinted, watching, frames, envVars>>
    /\ UNCHANGED <<config, isLoaded, look, tab, domScale, waiting, acts>>

-----------------------------------------------------------------------------
(* The settings page.                                                      *)

Closed == [open |-> FALSE, radius |-> 0, opacity |-> 0, scale |-> 0, saving |-> FALSE, mount |-> 0]

\* The drafts start from the configuration, and again whenever it changes.
OpenTab ==
    /\ Act /\ isLoaded /\ ~tab.open
    /\ tab' = [open |-> TRUE, radius |-> config.radius, opacity |-> config.opacity,
               scale |-> config.scale, saving |-> FALSE, mount |-> tab.mount + 1]
    /\ UNCHANGED <<winVars, pageVars, envVars, config, isLoaded, look, domScale, waiting>>

\* Leaving undoes what was previewed and never saved.
CloseTab ==
    /\ tab.open
    /\ tab' = [Closed EXCEPT !.mount = tab.mount]
    /\ domScale' = config.scale
    /\ SetWindowBlur(BlurOf(config))
    /\ UNCHANGED <<pageVars, envVars, config, isLoaded, look, waiting, acts>>

PreviewWindowBlur(radius, opacity) ==
    /\ tab' = [tab EXCEPT !.radius = radius, !.opacity = opacity]
    /\ SetWindowBlur([enabled |-> TRUE, radius |-> radius, material |-> config.material, opacity |-> opacity])

\* The radius slider is for macOS; both show only while the blur is on.
SliderOffered(s) == tab.open /\ config.blur /\ (s = "radius" => platform = "macos")
MoveSlider(s, v) ==
    /\ Act /\ SliderOffered(s) /\ v # tab[s]
    /\ PreviewWindowBlur(IF s = "radius" THEN v ELSE tab.radius, IF s = "opacity" THEN v ELSE tab.opacity)
    /\ UNCHANGED <<pageVars, envVars, config, isLoaded, look, domScale, waiting>>

\* commitWindowBlurRadius, commitWindowOpacity: on release, on a key, on blur.
Commit(s) ==
    /\ Act /\ SliderOffered(s) /\ tab[s] # config[s]
    /\ waiting' = Append(waiting, [key |-> s, value |-> tab[s], mount |-> tab.mount,
                                   radius |-> IF s = "radius" THEN config.radius ELSE tab.radius,
                                   opacity |-> IF s = "opacity" THEN config.opacity ELSE tab.opacity])
    /\ UNCHANGED <<winVars, pageVars, envVars, config, isLoaded, look, tab, domScale>>

\* The switch and the material list save at once.
SaveSwitch(key, v) ==
    /\ Act /\ tab.open /\ config[key] # v
    /\ key = "material" => config.blur /\ platform = "windows"
    /\ waiting' = Append(waiting, [key |-> key, value |-> v, mount |-> tab.mount,
                                   radius |-> tab.radius, opacity |-> tab.opacity])
    /\ UNCHANGED <<winVars, pageVars, envVars, config, isLoaded, look, tab, domScale>>

\* The scale's slider is disabled while it is being saved.
PreviewUiScale(v) ==
    /\ Act /\ tab.open /\ ~tab.saving /\ v # tab.scale
    /\ tab' = [tab EXCEPT !.scale = v]
    /\ domScale' = v
    /\ UNCHANGED <<winVars, pageVars, envVars, config, isLoaded, look, waiting>>
CommitUiScale ==
    /\ Act /\ tab.open /\ ~tab.saving /\ tab.scale # config.scale
    /\ tab' = [tab EXCEPT !.saving = TRUE]
    /\ waiting' = Append(waiting, [key |-> "scale", value |-> tab.scale, mount |-> tab.mount,
                                   radius |-> config.scale, opacity |-> config.scale])
    /\ UNCHANGED <<winVars, pageVars, envVars, config, isLoaded, look, domScale>>

\* A saved value is rendered: the drafts of it start again, the window follows.
Saved(w) ==
    LET c == [config EXCEPT ![w.key] = w.value]
        changed == c # config
    IN  /\ config' = c
        /\ tab' = [tab EXCEPT !.radius = IF c.radius # config.radius /\ tab.open THEN c.radius ELSE @,
                              !.opacity = IF c.opacity # config.opacity /\ tab.open THEN c.opacity ELSE @,
                              !.scale = IF c.scale # config.scale /\ tab.open THEN c.scale ELSE @,
                              !.saving = @ /\ ~(w.key = "scale" /\ w.mount = tab.mount)]
        /\ IF w.key # "scale" /\ changed THEN SetWindowBlur(BlurOf(c)) ELSE UNCHANGED winVars
        /\ domScale' = IF w.key = "scale" /\ changed THEN c.scale ELSE domScale
        /\ UNCHANGED faults

\* A slider whose save was refused goes back, if the page is still there.
MountedAnyway(w) == TRUE
Mounted(w) == tab.open /\ w.mount = tab.mount
Refused(w) ==
    /\ Fault /\ UNCHANGED config
    /\ CASE ~Mounted(w) \/ w.key \in {"blur", "material"} -> UNCHANGED <<tab, winVars, domScale>>
         [] Mounted(w) /\ w.key = "scale" ->
              tab' = [tab EXCEPT !.saving = FALSE, !.scale = w.radius] /\ domScale' = w.radius /\ UNCHANGED winVars
         [] Mounted(w) /\ w.key \in {"radius", "opacity"} ->
              PreviewWindowBlur(w.radius, w.opacity) /\ UNCHANGED domScale

SaveAnswered(ok) ==
    /\ waiting # <<>>
    /\ IF ok THEN Saved(Head(waiting)) ELSE Refused(Head(waiting))
    /\ waiting' = Tail(waiting)
    /\ UNCHANGED <<platform, native, pageVars, isLoaded, look, acts>>

-----------------------------------------------------------------------------
(* The window was created with the saved blur, or without.                 *)
LoadConfig ==
    /\ ~isLoaded /\ isLoaded' = TRUE
    /\ SetWindowBlur(BlurOf(config))
    /\ domScale' = config.scale
    /\ UNCHANGED <<pageVars, envVars, config, look, tab, waiting, acts>>

Init ==
    /\ platform \in {"macos", "windows"}
    /\ config \in [blur : BOOLEAN, material : {"acrylic"}, radius : {1}, opacity : {1}, scale : {1}]
    /\ isLoaded = FALSE
    /\ blur = IF config.blur THEN [BlurOf(config) EXCEPT !.radius = 0] ELSE Off
    /\ known = ~blur.enabled
    /\ look = "d"
    /\ keys = [background |-> Unknown, blur |-> IF blur.enabled THEN Unknown ELSE <<"off">>, saved |-> NoColor]
    /\ native = [background |-> Unknown, blur |-> BlurKey(BlurOf(config), "d"), save |-> "d"]
    /\ sent = <<>> /\ tab = Closed /\ domScale = 1 /\ waiting = <<>>
    /\ visible = TRUE /\ drawn = FALSE /\ generation = 0 /\ tinted = FALSE /\ watching = FALSE /\ frames = {} /\ drawing = FALSE
    /\ acts = 0 /\ faults = 0

\* Nothing comes between a frame's callbacks and its drawing.
Handle ==
    \/ \E ok \in BOOLEAN : NativeAnswers(ok) \/ SaveAnswered(ok)
    \/ \E l \in {"l", "d"} : ApplyThemeToDom(l)
    \/ Hidden \/ Shown \/ Frame
    \/ OpenTab \/ CloseTab
    \/ \E s \in {"radius", "opacity"} : Commit(s) \/ \E v \in Levels : MoveSlider(s, v)
    \/ \E on \in BOOLEAN : SaveSwitch("blur", on)
    \/ \E m \in {"acrylic", "mica"} : SaveSwitch("material", m)
    \/ \E v \in Levels : PreviewUiScale(v)
    \/ CommitUiScale
    \/ LoadConfig

Next == Draw \/ (~drawing /\ Handle)

Spec == Init /\ [][Next]_vars

-----------------------------------------------------------------------------
(* Properties.                                                             *)

\* The native window carries the tint until the page has drawn a frame since
\* it was last shown, however often it is hidden and shown in between
\* (watchPageVisibility).
TintUntilDrawn == watching /\ generation > 0 /\ ~drawn => tinted

\* With the page closed and every call answered, the window, its blur and the
\* page's scale are the configured ones, whatever was previewed, saved or
\* refused; and the native side has what the page last remembered sending
\* (setWindowBlur, syncNativeBlur, useWindowBlurDraft, commitUiScale).
AppearanceSettles ==
    isLoaded /\ ~tab.open /\ waiting = <<>> =>
        /\ blur = BlurOf(config)
        /\ domScale = config.scale
        /\ sent = <<>> /\ keys.blur # Unknown => native.blur = BlurKey(blur, look)

\* What keeps TintUntilDrawn true from step to step: a hidden page is tinted and undrawn,
\* and the callback of the newest showing comes up only after a frame was drawn.
TintInv ==
    /\ generation \in Nat /\ frames \subseteq [gen : Nat, left : {1, 2}]
    /\ ~visible => ~drawn /\ ~drawing /\ (watching => tinted)
    /\ ~watching => generation = 0 /\ frames = {}
    /\ \A f \in frames : f.gen <= generation /\ (f.gen = generation /\ f.left = 1 => drawn \/ drawing)
    /\ TintUntilDrawn

\* What keeps AppearanceSettles true: a closed page left nothing previewed, the key that is
\* remembered is that of the blur wanted, and the last call sent for it carries that key.
IsSeq(s) == s \in Seq({s[i] : i \in DOMAIN s})
CallsOK(calls) == IsSeq(calls) /\ \A i \in 1..Len(calls) : calls[i].kind \in {"background", "blur", "save"}
LookTypeOK ==
    /\ DOMAIN config = {"blur", "material", "radius", "opacity", "scale"}
    /\ DOMAIN tab = DOMAIN Closed /\ DOMAIN keys = {"background", "blur", "saved"}
    /\ DOMAIN native = {"background", "blur", "save"}
    /\ CallsOK(sent) /\ known \in BOOLEAN
    /\ IsSeq(waiting) /\ \A i \in 1..Len(waiting) : waiting[i].key \in DOMAIN config
\* The last of some calls for the blur has this value or, where there is none, the window.
Brings(calls, value) ==
    /\ \A i \in 1..Len(calls) :
          (calls[i].kind = "blur" /\ \A j \in (i + 1)..Len(calls) : calls[j].kind # "blur") => calls[i].value = value
    /\ (\A i \in 1..Len(calls) : calls[i].kind # "blur") => native.blur = value
LookInv ==
    /\ LookTypeOK /\ (keys.blur # Unknown => Brings(sent, keys.blur))
    /\ known => keys.blur \in {Unknown, BlurKey(blur, look)}
    /\ isLoaded => known
    /\ tab.open => isLoaded
    /\ isLoaded /\ ~tab.open => blur = BlurOf(config) /\ domScale = config.scale
=============================================================================
