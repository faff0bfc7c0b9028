------------------------------- MODULE Themes -------------------------------
(***************************************************************************)
(* The theme: which one the settings name, which one the window shows, and  *)
(* which one the next start shows first.  Choosing a theme puts it on       *)
(* screen before the setting is saved; a layout effect puts the configured  *)
(* or previewed theme on screen whenever something it depends on changed.   *)
(* Themes are the presets, one theme of the library, and the custom themes, *)
(* saved as one list; a custom theme with a preset's id overrides it.  Of a *)
(* theme's colours only the look is kept, "l" light or "d" dark.            *)
(***************************************************************************)
EXTENDS Integers, Sequences, FiniteSets, TLC

CONSTANTS
    CustomIds,      \* ids new themes can get
    MaxActs,        \* bound on what the user does
    MaxEvents       \* bound on syncs, appearance changes, refused commands and restarts

VARIABLES
    config,         \* theme, light, dark, follow, favs of the configuration
    isLoaded,       \* it has loaded
    favRef,         \* favoritesRef
    db,             \* the saved custom themes: id to look
    customs,        \* customThemes and customThemesRef
    themesLoaded,
    catalog,        \* the library: at, failed, and wanted by the configured theme
    cachedCatalog,  \* the library theme rebuilt from the cache at the start
    os, sys, asks,  \* the system's appearance, the one known, and whether it must be asked
    preview,        \* previewThemeId
    screen, cache,  \* the theme on the page, and in localStorage
    seen,           \* what the last layout effect ran with
    choices,        \* saves of the configuration in flight, in their order
    saves,          \* saves of the themes in flight
    loads,          \* loads of the themes in flight
    gallery, editor, importer,      \* the dialogs
    asked,          \* the question on screen, with what its handler holds
    astray,         \* a choice was refused, or the mode or the system's appearance changed while one
                    \* waited, since the effect last ran
    acts, events

bounds == <<acts, events>>
cfgVars == <<config, isLoaded, favRef, choices>>
themeVars == <<db, customs, themesLoaded, saves, loads>>
shownVars == <<preview, screen, cache, seen, astray>>
sysVars == <<os, sys, asks>>
libVars == <<catalog, cachedCatalog>>
dialogVars == <<gallery, editor, importer, asked>>
vars == <<cfgVars, themeVars, shownVars, sysVars, libVars, dialogVars, bounds>>

None == "none"
Presets == [default |-> "d", light |-> "l"]
Looks == {"l", "d"}
LibraryId == "cat"
LibraryLook == "d"
Act == acts < MaxActs /\ acts' = acts + 1 /\ UNCHANGED events
Event == events < MaxEvents /\ events' = events + 1 /\ UNCHANGED acts

-----------------------------------------------------------------------------
(* What is configured, and whether it can be shown.                        *)

\* resolveThemeCache: an unknown theme is the plain default.
Resolve(id, themes, known) ==
    IF id \in DOMAIN themes THEN [id |-> id, look |-> themes[id]]
    ELSE IF id \in known THEN [id |-> id, look |-> LibraryLook]
    ELSE IF id \in DOMAIN Presets THEN [id |-> id, look |-> Presets[id]]
    ELSE [id |-> "default", look |-> Presets["default"]]

Known == IF catalog.at = "loaded" THEN {LibraryId} ELSE cachedCatalog \ {None}

Configured ==
    IF config.follow THEN (IF sys = "d" THEN config.dark ELSE config.light) ELSE config.theme

AppearanceSettled == ~config.follow \/ sys # None
NeedsCatalog == Configured = LibraryId /\ catalog.at # "loaded" /\ Configured \notin Known
CatalogSettled == ~NeedsCatalog \/ catalog.failed
CurrentTheme == Resolve(Configured, customs, Known).id

\* getTheme: an override gives its preset its look.
GetLook(id) == Resolve(id, customs, Known).look
Listed == DOMAIN customs \cup DOMAIN Presets \cup Known

\* isDarkTheme
SlotOf(id, themes, known) == Resolve(id, themes, known).look

ApplyAndCache(t) == screen' = t /\ cache' = t

-----------------------------------------------------------------------------
(* The layout effect, and the effects that run with it.                    *)

Deps == [known |-> Known, settled |-> CatalogSettled, theme |-> Configured,
         loaded |-> isLoaded, themes |-> themesLoaded, preview |-> preview,
         appearance |-> AppearanceSettled, needs |-> NeedsCatalog, current |-> TRUE]

RenderPending == seen # Deps
EffectRuns == [seen EXCEPT !.needs = NeedsCatalog] # Deps
Ready == isLoaded /\ themesLoaded /\ CatalogSettled /\ AppearanceSettled

\* A preview is shown and never cached.
Show ==
    IF preview # None
    THEN screen' = Resolve(preview, customs, Known) /\ UNCHANGED cache
    ELSE ApplyAndCache(Resolve(Configured, customs, Known))

\* A library theme the cache cannot stand in for loads the library.
WantCatalog ==
    catalog' = IF NeedsCatalog /\ ~seen.needs
               THEN [catalog EXCEPT !.at = IF @ = "loaded" THEN @ ELSE "loading", !.wanted = TRUE]
               ELSE catalog

\* The editor starts again from the theme whenever the themes are new.
EditorStarts ==
    editor' = IF editor.id # None /\ (~seen.current \/ seen.known # Known)
              THEN [editor EXCEPT !.look = GetLook(IF editor.id = "new" THEN "default" ELSE editor.id)]
              ELSE editor

Rendered ==
    /\ RenderPending
    /\ seen' = Deps
    /\ IF EffectRuns /\ Ready THEN Show /\ astray' = FALSE ELSE UNCHANGED <<screen, cache, astray>>
    /\ WantCatalog
    /\ EditorStarts
    /\ UNCHANGED <<preview, cachedCatalog, gallery, importer, asked>>
    /\ UNCHANGED <<cfgVars, themeVars, sysVars, bounds>>

-----------------------------------------------------------------------------
(* Choosing.                                                               *)

\* What a handler holds from its render.
Held == [follow |-> config.follow, sys |-> sys, known |-> Known, theme |-> config.theme,
         themes |-> customs, light |-> config.light, dark |-> config.dark, favs |-> config.favs]

SaveConfig(update, kind, id) ==
    choices' = Append(choices, [update |-> update, kind |-> kind, id |-> id])

\* setTheme: shown at once, unless it is for the other appearance.  The
\* latest themes count, not those the handler holds.
Choice(resolved, h, themes) ==
    LET slot == SlotOf(resolved.id, themes, h.known)
    IN  IF ~h.follow THEN [theme |-> resolved.id]
        ELSE IF slot = "d" THEN [theme |-> resolved.id, dark |-> resolved.id]
        ELSE [theme |-> resolved.id, light |-> resolved.id]
ShowsAlways(resolved, h, themes) == TRUE
ShowsNow(resolved, h, themes) ==
    ~h.follow \/ SlotOf(resolved.id, themes, h.known) = h.sys
SetTheme(id, h, themes, kind) ==
    LET resolved == Resolve(id, themes, h.known)
    IN  /\ IF ShowsNow(resolved, h, themes)
           THEN ApplyAndCache(Resolve(resolved.id, themes, h.known))
           ELSE UNCHANGED <<screen, cache>>
        /\ SaveConfig(Choice(resolved, h, themes), kind, id)

NoImport == [at |-> "closed", source |-> "blank"]

\* What the end of a choice does to the dialogs: handleGalleryApply,
\* handleCopyCatalogTheme and handleImport go on even when the save failed.
AfterChoice(c) ==
    /\ gallery' = IF c.kind \in {"apply", "copied"} THEN [gallery EXCEPT !.open = FALSE, !.busy = FALSE]
                  ELSE gallery
    /\ editor' = IF c.kind = "copied" THEN [id |-> c.id, look |-> GetLook(c.id), saving |-> FALSE] ELSE editor
    /\ importer' = IF c.kind = "imported" THEN NoImport ELSE importer

Flipped(set, x) == IF x \in set THEN set \ {x} ELSE set \cup {x}
IsChoice(c) == c.kind \in {"choose", "apply", "copied", "imported"}
Choosing == \E i \in DOMAIN choices : IsChoice(choices[i])

Changed(update) == [k \in DOMAIN config |-> IF k \in DOMAIN update THEN update[k] ELSE config[k]]

\* The end of the preview waits for the setting to hold the new theme.
ChoiceAnswered(ok) ==
    /\ choices # <<>>
    /\ LET c == Head(choices)
           saved == Changed(c.update)
       IN  /\ IF ok THEN config' = saved /\ UNCHANGED bounds ELSE UNCHANGED config /\ Event
           /\ favRef' = IF ok THEN (IF saved.favs # config.favs THEN saved.favs ELSE favRef)
                        ELSE IF c.kind = "star" THEN Flipped(c.update.favs, c.id)
                        ELSE favRef
           /\ choices' = Tail(choices)
           /\ preview' = IF IsChoice(c) THEN None ELSE preview
           /\ astray' = \/ astray
                        \/ ~ok /\ IsChoice(c)
                        \/ ok /\ saved.follow # config.follow /\ Choosing
           /\ AfterChoice(c)
    /\ UNCHANGED <<isLoaded, screen, cache, seen, asked, themeVars, sysVars, libVars>>

\* The cards of the appearance page: the presets, a library theme that is
\* starred or current, the custom themes.
PresetCard(id) == id \in DOMAIN Presets
LibraryCard(id) == id \in Known /\ (id \in config.favs \/ id = CurrentTheme)
CustomCard(id) == id \in DOMAIN customs \ DOMAIN Presets
CardOffered(id) == PresetCard(id) \/ LibraryCard(id) \/ CustomCard(id)
HandleThemeChange(id) ==
    /\ Act /\ CardOffered(id)
    /\ SetTheme(id, Held, customs, "choose")
    /\ UNCHANGED <<config, isLoaded, favRef, preview, seen, astray, themeVars, sysVars, libVars, dialogVars>>

\* The two lists under the switch: themes of that appearance.
SlotOffered(slot, id) == config.follow /\ id \in Listed /\ SlotOf(id, customs, Known) = slot
SetSystemTheme(slot, id) ==
    /\ Act /\ SlotOffered(slot, id)
    /\ SaveConfig(IF slot = "d" THEN [dark |-> id] ELSE [light |-> id], "slot", id)
    /\ UNCHANGED <<config, isLoaded, favRef, themeVars, shownVars, sysVars, libVars, dialogVars>>

SetFollowSystem ==
    /\ Act
    /\ SaveConfig(IF config.follow THEN [follow |-> FALSE, theme |-> CurrentTheme]
                  ELSE [follow |-> TRUE] @@
                       (IF SlotOf(CurrentTheme, customs, Known) = "d"
                        THEN [dark |-> CurrentTheme] ELSE [light |-> CurrentTheme]), "follow", CurrentTheme)
    /\ UNCHANGED <<config, isLoaded, favRef, themeVars, shownVars, sysVars, libVars, dialogVars>>

\* toggleFavoriteTheme, on a library theme's row or card
RowsShown == gallery.open /\ catalog.at = "loaded"
StarOffered == RowsShown \/ LibraryCard(LibraryId)
ToggleFavoriteTheme ==
    /\ Act /\ StarOffered
    /\ favRef' = Flipped(favRef, LibraryId)
    /\ SaveConfig([favs |-> favRef'], "star", LibraryId)
    /\ UNCHANGED <<config, isLoaded, themeVars, shownVars, sysVars, libVars, dialogVars>>

-----------------------------------------------------------------------------
(* The library.                                                            *)

OpenGallery ==
    /\ Act /\ ~gallery.open /\ editor.id = None /\ importer.at = "closed" /\ asked.kind = None
    /\ gallery' = [open |-> TRUE, selected |-> None, busy |-> FALSE]
    /\ catalog' = [catalog EXCEPT !.at = IF @ = "none" THEN "loading" ELSE @]
    /\ UNCHANGED <<cachedCatalog, editor, importer, asked, cfgVars, themeVars, shownVars, sysVars>>

RetryCatalog ==
    /\ Act /\ gallery.open /\ catalog.at = "none"
    /\ catalog' = [catalog EXCEPT !.at = "loading"]
    /\ UNCHANGED <<cachedCatalog, dialogVars, cfgVars, themeVars, shownVars, sysVars>>

\* The pages that show starred or configured library themes load it too.
CatalogFor ==
    /\ catalog.at = "none"
    /\ LibraryId \in config.favs \/ (config.follow /\ LibraryId \in {config.light, config.dark})
    /\ catalog' = [catalog EXCEPT !.at = "loading"]
    /\ Act
    /\ UNCHANGED <<cachedCatalog, dialogVars, cfgVars, themeVars, shownVars, sysVars>>

CatalogAnswered(ok) ==
    /\ catalog.at = "loading"
    /\ IF ok THEN UNCHANGED bounds ELSE Event
    /\ catalog' = IF ok THEN [at |-> "loaded", failed |-> FALSE, wanted |-> FALSE]
                  ELSE [at |-> "none", failed |-> catalog.failed \/ catalog.wanted, wanted |-> FALSE]
    /\ UNCHANGED <<cachedCatalog, dialogVars, cfgVars, themeVars, shownVars, sysVars>>

\* A row, or the arrow keys: the whole app shows it.
SelectTheme ==
    /\ Act /\ RowsShown
    /\ gallery' = [gallery EXCEPT !.selected = LibraryId]
    /\ preview' = LibraryId
    /\ UNCHANGED <<editor, importer, asked, cfgVars, themeVars, sysVars, libVars>>
    /\ UNCHANGED <<screen, cache, seen, astray>>

CloseGallery ==
    /\ gallery.open /\ asked.kind = None
    /\ gallery' = [gallery EXCEPT !.open = FALSE, !.busy = FALSE]
    /\ preview' = None
    /\ UNCHANGED <<editor, importer, asked, cfgVars, themeVars, sysVars, libVars, bounds>>
    /\ UNCHANGED <<screen, cache, seen, astray>>

\* The Apply and Copy buttons, Enter and a double click.
GalleryRuns == gallery.open /\ gallery.selected # None /\ ~gallery.busy
HandleGalleryApply ==
    /\ Act /\ GalleryRuns
    /\ gallery' = [gallery EXCEPT !.busy = TRUE]
    /\ SetTheme(gallery.selected, Held, customs, "apply")
    /\ UNCHANGED <<config, isLoaded, favRef, preview, seen, astray, editor, importer, asked>>
    /\ UNCHANGED <<themeVars, sysVars, libVars>>

-----------------------------------------------------------------------------
(* Custom themes.                                                          *)

SaveThemes(themes, then, id, h) ==
    saves' = Append(saves, [themes |-> themes, then |-> then, id |-> id, held |-> h])

\* A new theme's id is new to the saved themes and to the saves in flight.
FreshIds == CustomIds \ UNION ({DOMAIN customs, DOMAIN db} \cup {DOMAIN saves[i].themes : i \in DOMAIN saves})

Quiet == asked.kind = None /\ editor.id = None /\ importer.at = "closed"

\* Deleting asks first; copying asks for a name.
HandleDeleteTheme(id) ==
    /\ Act /\ Quiet /\ ~gallery.open /\ CustomCard(id)
    /\ asked' = [kind |-> "delete", id |-> id, held |-> Held]
    /\ UNCHANGED <<gallery, editor, importer, cfgVars, themeVars, shownVars, sysVars, libVars>>
HandleDuplicateTheme(id) ==
    /\ Act /\ Quiet
    /\ IF gallery.open THEN GalleryRuns /\ id = gallery.selected ELSE CardOffered(id)
    /\ gallery' = IF gallery.open THEN [gallery EXCEPT !.busy = TRUE] ELSE gallery
    /\ asked' = [kind |-> "copy", id |-> id, held |-> Held]
    /\ UNCHANGED <<editor, importer, cfgVars, themeVars, shownVars, sysVars, libVars>>

NotAsked == [kind |-> None]

\* deleteCustomTheme writes the list its handler holds; a copy joins the
\* latest list.
Answer(yes) ==
    /\ asked.kind # None
    /\ LET h == asked.held
       IN  IF ~yes THEN UNCHANGED saves
           ELSE IF asked.kind = "delete"
                THEN SaveThemes([t \in DOMAIN h.themes \ {asked.id} |-> h.themes[t]], "delete", asked.id, h)
           ELSE \E new \in FreshIds :
                SaveThemes((new :> Resolve(asked.id, h.themes, h.known).look) @@ customs,
                           IF asked.id \in h.known THEN "copied" ELSE "copy", new, h)
    /\ asked' = NotAsked
    /\ gallery' = IF yes THEN gallery ELSE [gallery EXCEPT !.busy = FALSE]
    /\ UNCHANGED <<editor, importer, cfgVars, db, customs, themesLoaded, loads, shownVars, sysVars, libVars, bounds>>

ResetPresetTheme(id) == SaveThemes([t \in DOMAIN customs \ {id} |-> customs[t]], "reset", id, Held)
HandleResetPresetTheme(id) ==
    /\ Act /\ Quiet /\ ~gallery.open /\ id \in DOMAIN customs \cap DOMAIN Presets
    /\ ResetPresetTheme(id)
    /\ UNCHANGED <<dialogVars, cfgVars, db, customs, themesLoaded, loads, shownVars, sysVars, libVars>>

NoEditor == [id |-> None, look |-> "d", saving |-> FALSE]

\* The editor, on a theme or on a new one made from the default.
OpenEditor(id) ==
    /\ Act /\ Quiet /\ ~gallery.open
    /\ id = "new" \/ id \in DOMAIN customs \cup {"default"}
    /\ editor' = [id |-> id, look |-> GetLook(IF id = "new" THEN "default" ELSE id), saving |-> FALSE]
    /\ UNCHANGED <<gallery, importer, asked, cfgVars, themeVars, shownVars, sysVars, libVars>>

Editable == editor.id # None

\* The colour fields, the generated palette and the derived colours.
EditTheme(look) ==
    /\ Act /\ Editable /\ look # editor.look
    /\ editor' = [editor EXCEPT !.look = look]
    /\ UNCHANGED <<gallery, importer, asked, cfgVars, themeVars, shownVars, sysVars, libVars>>

\* updateCustomTheme makes the override of a preset on its first edit; a theme
\* that is gone is not saved.
Updates(id) == id \in DOMAIN customs \cup DOMAIN Presets
UpdateCustomTheme(id, look) == SaveThemes((id :> look) @@ customs, "update", id, Held)
CreateCustomTheme(look, then) ==
    \E new \in FreshIds : SaveThemes((new :> look) @@ customs, then, new, Held)

SaveOffered == Editable /\ ~editor.saving
EditorSave ==
    /\ Act /\ SaveOffered
    /\ IF editor.id = "new" \/ Updates(editor.id)
       THEN /\ IF editor.id = "new" THEN CreateCustomTheme(editor.look, "create")
               ELSE UpdateCustomTheme(editor.id, editor.look)
            /\ editor' = [editor EXCEPT !.saving = TRUE]
       ELSE editor' = NoEditor /\ UNCHANGED saves
    /\ UNCHANGED <<gallery, importer, asked, cfgVars, db, customs, themesLoaded, loads, shownVars, sysVars, libVars>>

CloseEditor ==
    /\ editor.id # None /\ editor' = NoEditor
    /\ UNCHANGED <<gallery, importer, asked, cfgVars, themeVars, shownVars, sysVars, libVars, bounds>>

\* The import dialog: a file or a pasted text, then Import.  parseThemeFile
\* finds a scheme with all its colours, or none.
ParseThemeFile(source) == IF source \in Looks THEN source ELSE None
OpenImport ==
    /\ Act /\ Quiet /\ ~gallery.open /\ importer' = [NoImport EXCEPT !.at = "open"]
    /\ UNCHANGED <<gallery, editor, asked, cfgVars, themeVars, shownVars, sysVars, libVars>>
ChangeSource(source) ==
    /\ importer.at # "closed" /\ source # importer.source
    /\ importer' = [importer EXCEPT !.source = source]
    /\ UNCHANGED <<gallery, editor, asked, cfgVars, themeVars, shownVars, sysVars, libVars, bounds>>
CloseImport ==
    /\ importer.at # "closed" /\ importer' = NoImport
    /\ UNCHANGED <<gallery, editor, asked, cfgVars, themeVars, shownVars, sysVars, libVars, bounds>>
ImportOffered == importer.at = "open" /\ ParseThemeFile(importer.source) # None
ImportThemes ==
    /\ Act /\ ImportOffered /\ importer' = [importer EXCEPT !.at = "saving"]
    /\ CreateCustomTheme(ParseThemeFile(importer.source), "import")
    /\ UNCHANGED <<gallery, editor, asked, cfgVars, db, customs, themesLoaded, loads, shownVars, sysVars, libVars>>

\* What the deletion of a theme changes in the settings its handler holds.
NamesGone(id, h) ==
    (IF h.theme = id THEN [theme |-> "default"] ELSE <<>>) @@
    (IF h.light = id THEN [light |-> "light"] ELSE <<>>) @@
    (IF h.dark = id THEN [dark |-> "default"] ELSE <<>>) @@
    (IF id \in h.favs THEN [favs |-> h.favs \ {id}] ELSE <<>>)

\* What a saved list goes on with, before the page renders it.
AfterSave(s) ==
    CASE s.then \in {"update", "reset"} ->
            /\ IF s.held.theme = s.id THEN ApplyAndCache(Resolve(s.id, s.themes, s.held.known))
               ELSE UNCHANGED <<screen, cache>>
            /\ editor' = IF s.then = "update" THEN NoEditor ELSE editor
            /\ UNCHANGED choices
      [] s.then = "delete" ->
            /\ IF NamesGone(s.id, s.held) = <<>> THEN UNCHANGED choices
               ELSE SaveConfig(NamesGone(s.id, s.held), "delete", s.id)
            /\ UNCHANGED <<screen, cache, editor>>
      [] s.then = "copied" -> SetTheme(s.id, s.held, s.themes, "copied") /\ UNCHANGED editor
      [] s.then = "import" -> SetTheme(s.id, s.held, s.themes, "imported") /\ UNCHANGED editor
      [] s.then = "create" -> editor' = NoEditor /\ UNCHANGED <<screen, cache, choices>>
      [] OTHER -> UNCHANGED <<screen, cache, choices, editor>>     \* a copy

Without(s, i) == SubSeq(s, 1, i - 1) \o SubSeq(s, i + 1, Len(s))

\* saveCustomThemes: the list in memory is replaced once it is saved.
SaveCustomThemes(i) ==
    /\ i \in DOMAIN saves
    /\ db' = saves[i].themes /\ customs' = saves[i].themes
    /\ saves' = Without(saves, i)
    /\ seen' = [seen EXCEPT !.current = FALSE]
    /\ AfterSave(saves[i])
    /\ UNCHANGED <<config, isLoaded, favRef, themesLoaded, loads, preview, astray, gallery, importer, asked>>
    /\ UNCHANGED <<sysVars, libVars, bounds>>

SaveThemesFails(i) ==
    /\ Event /\ i \in DOMAIN saves
    /\ saves' = Without(saves, i)
    /\ editor' = IF saves[i].then \in {"update", "create"} THEN [editor EXCEPT !.saving = FALSE] ELSE editor
    /\ gallery' = IF saves[i].then = "copied" THEN [gallery EXCEPT !.busy = FALSE] ELSE gallery
    /\ importer' = IF saves[i].then = "import" /\ importer.at = "saving" THEN [importer EXCEPT !.at = "open"] ELSE importer
    /\ UNCHANGED <<asked, db, customs, themesLoaded, loads, cfgVars, shownVars, sysVars, libVars>>

-----------------------------------------------------------------------------
(* Loading, syncing, the system, restarting.                               *)

LoadCustomThemes(ok) ==
    /\ loads > 0 /\ loads' = loads - 1
    /\ IF ok THEN customs' = db /\ seen' = [seen EXCEPT !.current = FALSE] /\ UNCHANGED bounds
       ELSE UNCHANGED <<customs, seen>> /\ Event
    /\ themesLoaded' = TRUE
    /\ UNCHANGED <<db, saves, preview, screen, cache, astray, cfgVars, sysVars, libVars, dialogVars>>

LoadConfig ==
    /\ ~isLoaded /\ isLoaded' = TRUE
    /\ UNCHANGED <<config, favRef, choices, themeVars, shownVars, sysVars, libVars, dialogVars, bounds>>

\* A sync brings a theme, or the setting that names one, in either order.
SyncThemes(id, look) ==
    /\ Event /\ themesLoaded
    /\ db' = (id :> look) @@ db
    /\ loads' = loads + 1
    /\ UNCHANGED <<customs, themesLoaded, saves, cfgVars, shownVars, sysVars, libVars, dialogVars>>
SyncSettings(id) ==
    /\ Event /\ isLoaded /\ choices = <<>> /\ id # config.theme
    /\ config' = [config EXCEPT !.theme = id]
    /\ UNCHANGED <<isLoaded, favRef, choices, themeVars, shownVars, sysVars, libVars, dialogVars>>

\* Media queries tell at once; Windows is asked while the theme follows it.
\* A choice that waits was made for the appearance the system was in.
LosesChoices == astray' = (astray \/ (config.follow /\ sys' # sys /\ Choosing))
SystemChanges ==
    /\ Event
    /\ os' = IF os = "d" THEN "l" ELSE "d"
    /\ sys' = IF asks THEN sys ELSE os'
    /\ LosesChoices
    /\ UNCHANGED <<asks, preview, screen, cache, seen, cfgVars, themeVars, libVars, dialogVars>>
SystemAsked ==
    /\ asks /\ config.follow /\ isLoaded /\ sys # os
    /\ sys' = os
    /\ LosesChoices
    /\ UNCHANGED <<os, asks, preview, screen, cache, seen, cfgVars, themeVars, libVars, dialogVars, bounds>>

NotSeen == [known |-> {}, settled |-> TRUE, theme |-> None, loaded |-> FALSE, themes |-> FALSE,
            preview |-> None, appearance |-> TRUE, needs |-> FALSE, current |-> TRUE]
NoGallery == [open |-> FALSE, selected |-> None, busy |-> FALSE]

\* preloadTheme: a start shows the cached theme until everything has loaded.
CachedLibrary(c) == IF c.id = LibraryId THEN {LibraryId} ELSE {}
Restart ==
    /\ Event /\ isLoaded /\ themesLoaded /\ choices = <<>> /\ saves = <<>>
    /\ isLoaded' = FALSE /\ favRef' = config.favs
    /\ customs' = <<>> /\ themesLoaded' = FALSE /\ loads' = 1
    /\ catalog' = [at |-> "none", failed |-> FALSE, wanted |-> FALSE]
    /\ cachedCatalog' = CachedLibrary(cache)
    /\ sys' = IF asks THEN None ELSE os
    /\ preview' = None /\ screen' = cache /\ seen' = NotSeen /\ astray' = FALSE
    /\ gallery' = NoGallery /\ editor' = NoEditor /\ importer' = NoImport /\ asked' = NotAsked
    /\ UNCHANGED <<config, choices, db, saves, cache, os, asks>>

Init ==
    /\ config \in [theme : {"default"}, light : {"light"}, dark : {"default"}, follow : BOOLEAN, favs : {{}}]
    /\ isLoaded = FALSE /\ favRef = {} /\ choices = <<>>
    /\ db = <<>> /\ customs = <<>> /\ themesLoaded = FALSE /\ saves = <<>> /\ loads = 1
    /\ catalog = [at |-> "none", failed |-> FALSE, wanted |-> FALSE] /\ cachedCatalog = {}
    /\ os = "l" /\ asks \in BOOLEAN /\ sys = IF asks THEN None ELSE os
    /\ preview = None /\ cache = [id |-> "default", look |-> "d"] /\ screen = cache
    /\ seen = NotSeen /\ astray = FALSE
    /\ gallery = NoGallery /\ editor = NoEditor /\ importer = NoImport /\ asked = NotAsked
    /\ acts = 0 /\ events = 0

Ids == CustomIds \cup DOMAIN Presets \cup {LibraryId}

\* A change of state is rendered before the next answer, event or input.
Handle ==
    \/ \E ok \in BOOLEAN : ChoiceAnswered(ok) \/ CatalogAnswered(ok) \/ LoadCustomThemes(ok)
    \/ \E id \in Ids : \/ HandleThemeChange(id) \/ HandleDeleteTheme(id) \/ HandleDuplicateTheme(id)
                       \/ HandleResetPresetTheme(id) \/ SyncSettings(id)
    \/ \E id \in Ids, slot \in Looks : SetSystemTheme(slot, id)
    \/ SetFollowSystem \/ ToggleFavoriteTheme
    \/ OpenGallery \/ RetryCatalog \/ CatalogFor \/ SelectTheme \/ CloseGallery \/ HandleGalleryApply
    \/ \E yes \in BOOLEAN : Answer(yes)
    \/ \E id \in CustomIds \cup {"default", "new"} : OpenEditor(id)
    \/ \E look \in Looks : EditTheme(look)
    \/ \E source \in Looks \cup {"broken"} : ChangeSource(source)
    \/ ImportThemes \/ EditorSave \/ CloseEditor \/ OpenImport \/ CloseImport
    \/ \E i \in DOMAIN saves : SaveCustomThemes(i) \/ SaveThemesFails(i)
    \/ LoadConfig
    \/ \E id \in CustomIds, look \in Looks : SyncThemes(id, look)
    \/ SystemChanges \/ SystemAsked \/ Restart

Next == Rendered \/ (~RenderPending /\ Handle)

Spec == Init /\ [][Next]_vars

-----------------------------------------------------------------------------
(* Properties.                                                             *)

\* displayedTheme
Displayed == Resolve(IF preview # None THEN preview ELSE Configured, customs, Known)

\* Once the page has rendered and no choice is being saved, the window shows
\* the theme being previewed or else the configured one, and the next start
\* will show the configured one, unless a choice could not be saved, or the
\* following was switched or the system changed its appearance while it
\* waited (ThemeContext: the layout effect, setTheme, updateCustomTheme).
ScreenSettles ==
    ~RenderPending /\ Ready /\ ~Choosing /\ ~astray =>
        /\ screen = Displayed
        /\ preview = None => cache = screen

\* "The theme on screen: the one being previewed, else the current one"
\* (ThemeContext/index.tsx:35), even after a save of the settings failed.
ScreenShowsDisplayed ==
    ~RenderPending /\ Ready /\ ~Choosing =>
        screen = Displayed

\* What keeps ScreenSettles true from step to step: while a choice that is on screen waits,
\* its save puts the configured theme where the screen is.
Slot == IF config.follow THEN (IF sys = "d" THEN "dark" ELSE "light") ELSE "theme"
Brings(c) ==
    /\ IsChoice(c) /\ Slot \in DOMAIN c.update
    /\ screen = Resolve(c.update[Slot], customs, Known) /\ cache = screen
IsSeq(s) == s \in Seq({s[i] : i \in DOMAIN s})
ScreenTypeOK ==
    /\ {"theme", "light", "dark", "follow"} \subseteq DOMAIN config
    /\ DOMAIN catalog = {"at", "failed", "wanted"}
    /\ IsSeq(choices)
ScreenInv ==
    /\ ScreenTypeOK
    /\ Ready /\ ~EffectRuns /\ ~astray =>
          \/ screen = Displayed /\ (preview = None => cache = screen)
          \/ \E i \in DOMAIN choices : Brings(choices[i])
=============================================================================
