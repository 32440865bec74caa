----------------------------- MODULE Appearance -----------------------------
(***************************************************************************)
(* What the window looks like: the theme in force, the reader's edits to   *)
(* it, the settings beside it, and the directory the installed themes are  *)
(* read from (src/src/lib/theme, src/src/components/settings/appearance,   *)
(* src/src-tauri/src/themes.rs).  Every choice is written in three places  *)
(* by one call: the store, the paint state apply.ts holds, and             *)
(* localStorage, from which the next launch paints before any answer.      *)
(***************************************************************************)
EXTENDS Integers, Sequences, FiniteSets

CONSTANTS
  BuiltIn,          \* the ids of the themes compiled in
  Floor,            \* the theme a failure lands on, FALLBACK_THEME_ID
  OnDisk,           \* the ids a directory of the themes directory may have
  Versions,         \* what a theme's files may say, when they are well formed
  Tokens,           \* the tokens a theme states
  Values,           \* what may be typed for a token, "" among them
  DensityTokens,    \* the tokens a density states itself
  Presets,          \* records of a theme and the settings that go with it
  MaxChoices,       \* bound: what the reader does
  MaxChanges,       \* bound: changes of the directory from outside
  None

AppearanceAssumption ==
  /\ Floor \in BuiltIn
  /\ BuiltIn \cap OnDisk = {}
  /\ \A preset \in Presets : preset.theme \in BuiltIn
  /\ None # "" /\ None \notin [id : BuiltIn \cup OnDisk, version : BuiltIn \cup Versions \cup {"broken"}]
  /\ MaxChoices \in Nat /\ MaxChanges \in Nat

VARIABLES
  disk,             \* the directory: a version, "broken" or "absent" per id
  known,            \* the directory as the poll last saw it
  events,           \* themes_changed events on their way
  starting,         \* how far startThemes is
  listing,          \* what listThemes read, before its answer arrives
  listed,           \* whether the directory was published in this run
  fromDisk,         \* the directory as last published
  themes,           \* the version of each installed theme in the catalogue
  themeId,          \* the theme chosen
  overrides,        \* the edits, per theme and token
  settings,         \* density, faces, scale and the timeline's settings
  held,             \* what apply.ts paints from
  painted,          \* the tokens on the root element, and its scale
  stored,           \* localStorage
  editing,          \* the theme whose editor was opened, or None
  refused,          \* the token whose typed value was refused, or None
  installing,       \* the installs asked for: asked or copied, per id
  choices,
  changes

chosen == <<themeId, overrides, settings, held, painted, stored>>
directory == <<disk, known, changes>>
session == <<events, starting, listing, listed, fromDisk, themes>>
page == <<editing, refused, installing>>

vars == <<chosen, directory, session, page, choices>>

-----------------------------------------------------------------------------
Empty == [id \in OnDisk |-> "absent"]
NoEdits == [id \in BuiltIn \cup OnDisk |-> [t \in Tokens |-> None]]
Defaults == [density |-> "comfortable", prose |-> "inter", zoom |-> 1,
             clock |-> "24h", everyLine |-> FALSE, sidebar |-> FALSE]

\* The installed themes whose files parse; the others are named as broken.
loadTheme(files) == files \in Versions

catalogue(installed) ==
  [id \in OnDisk |-> IF loadTheme(installed[id]) THEN installed[id] ELSE "absent"]

\* The theme of that id in a catalogue, or None.
Theme(id, loaded) ==
  IF id \in BuiltIn THEN [id |-> id, version |-> id]
  ELSE IF id \in OnDisk /\ loaded[id] # "absent" THEN [id |-> id, version |-> loaded[id]]
  ELSE None

\* The value on the root element: the theme's own, under the edits made to
\* that theme, under the density. Nothing, or nothing written as a value,
\* uncovers the floor.
Token(what, t) ==
  IF t \in DensityTokens /\ what.density # "comfortable" THEN what.density
  ELSE IF what.theme = None THEN Floor
  ELSE LET edit == what.overrides[what.theme.id][t]
       IN  IF edit = None THEN what.theme.version
           ELSE IF edit = "" THEN Floor
           ELSE edit

paint(what, zoom) ==
  [tokens |-> [t \in Tokens |-> Token(what, t)], prose |-> what.prose, zoom |-> zoom]

\* What the paint state is when everything is as chosen.
Wanted(id, edits, set, loaded) ==
  [theme |-> Theme(id, loaded), overrides |-> edits,
   density |-> set.density, prose |-> set.prose]

\* What a run that starts from localStorage opens with.
Remembered(store) ==
  IF store.installed = None THEN Empty
  ELSE [Empty EXCEPT ![store.installed.id] = store.installed.version]

\* The edits worth keeping: a blank one is dropped when the record is read.
sanitiseOverrides(edits) ==
  [id \in DOMAIN edits |-> [t \in Tokens |-> IF edits[id][t] = "" THEN None ELSE edits[id][t]]]

Opening(store) ==
  Wanted(store.themeId, sanitiseOverrides(store.overrides), store.settings,
         catalogue(Remembered(store)))

-----------------------------------------------------------------------------
(* The launch. *)

Init ==
  /\ \E version \in {"absent"} \cup Versions : disk = [id \in OnDisk |-> version]
  /\ known = disk
  /\ events = <<>>
  /\ starting = "subscribing"
  /\ listing = None
  /\ listed = FALSE
  /\ fromDisk = Empty
  /\ stored = [themeId |-> Floor, installed |-> None, overrides |-> NoEdits,
               settings |-> Defaults]
  /\ themes = catalogue(Remembered(stored))
  /\ themeId = stored.themeId
  /\ overrides = stored.overrides
  /\ settings = stored.settings
  /\ held = Opening(stored)
  /\ painted = paint(Opening(stored), stored.settings.zoom)
  /\ editing = None
  /\ refused = None
  /\ installing = [id \in OnDisk |-> None]
  /\ choices = 0
  /\ changes = 0

\* The program ends and is opened again on what localStorage holds. What was
\* being copied is copied or not; its answer reaches nobody.
Restart ==
  /\ choices < MaxChoices
  /\ choices' = choices + 1
  /\ UNCHANGED <<disk, changes, stored>>
  /\ known' = disk
  /\ events' = <<>>
  /\ starting' = "subscribing"
  /\ listing' = None
  /\ listed' = FALSE
  /\ fromDisk' = Empty
  /\ themes' = catalogue(Remembered(stored))
  /\ themeId' = stored.themeId
  /\ overrides' = sanitiseOverrides(stored.overrides)
  /\ settings' = stored.settings
  /\ held' = Opening(stored)
  /\ painted' = paint(Opening(stored), stored.settings.zoom)
  /\ editing' = None
  /\ refused' = None
  /\ installing' = [id \in OnDisk |-> None]

-----------------------------------------------------------------------------
(* The themes directory. *)

\* The record for the next launch: the files of the theme in force, if any.
Files(id, installed) ==
  IF id \in OnDisk /\ installed[id] # "absent"
  THEN [id |-> id, version |-> installed[id]] ELSE None

\* A plausible slip in publish: the catalogue is told and the files of the
\* theme in force are not written down again.
publishUnremembered(installed) ==
  /\ fromDisk' = installed
  /\ themes' = catalogue(installed)
  /\ listed' = TRUE
  /\ held' = [held EXCEPT !.theme = Theme(themeId, themes')]
  /\ painted' = paint(held', painted.zoom)
  /\ UNCHANGED <<themeId, overrides, settings, stored>>

publish(installed) ==
  /\ fromDisk' = installed
  /\ themes' = catalogue(installed)
  /\ listed' = TRUE
  /\ held' = [held EXCEPT !.theme = Theme(themeId, themes')]
  /\ painted' = paint(held', painted.zoom)
  /\ stored' = [stored EXCEPT !.installed = Files(themeId, installed)]
  /\ UNCHANGED <<themeId, overrides, settings>>

Subscribed ==
  /\ starting = "subscribing"
  /\ starting' = "asking"
  /\ UNCHANGED <<chosen, directory, page, choices, events, listing, listed, fromDisk, themes>>

\* The backend reads the directory, and its answer arrives later.
Reads ==
  /\ starting = "asking"
  /\ starting' = "answering"
  /\ listing' = disk
  /\ UNCHANGED <<chosen, directory, page, choices, events, listed, fromDisk, themes>>

Listed ==
  /\ starting = "answering"
  /\ publish(listing)
  /\ starting' = "watching"
  /\ listing' = None
  /\ UNCHANGED <<directory, page, choices, events>>

\* Neither the subscription nor the list: the built-in themes stay.
StartFails ==
  /\ starting \in {"subscribing", "asking"}
  /\ publish(Empty)
  /\ starting' = IF starting = "asking" THEN "watching" ELSE "deaf"
  /\ UNCHANGED <<directory, page, choices, events, listing>>

\* A theme is copied in, edited, half written or removed by somebody else.
DiskChanges(id, version) ==
  /\ changes < MaxChanges
  /\ changes' = changes + 1
  /\ disk[id] # version
  /\ disk' = [disk EXCEPT ![id] = version]
  /\ UNCHANGED <<chosen, session, page, choices, known>>

\* The poll sees that the directory changed and sends it whole.
Polls ==
  /\ disk # known
  /\ known' = disk
  /\ events' = IF starting \in {"subscribing", "deaf"} THEN events ELSE Append(events, disk)
  /\ UNCHANGED <<chosen, page, choices, disk, changes, starting, listing, listed, fromDisk, themes>>

ThemesChanged ==
  /\ events # <<>>
  /\ publish(Head(events))
  /\ events' = Tail(events)
  /\ UNCHANGED <<directory, page, choices, starting, listing>>

-----------------------------------------------------------------------------
(* What the reader chooses. *)

Chooses ==
  /\ choices < MaxChoices
  /\ choices' = choices + 1

\* The theme, its edits and its settings put on the window, in the store and
\* in localStorage.
Selected(id, edits, set) ==
  /\ themeId' = id
  /\ overrides' = edits
  /\ settings' = set
  /\ held' = Wanted(id, edits, set, themes)
  /\ painted' = paint(held', set.zoom)

selectTheme(id) ==
  /\ Selected(id, overrides, settings)
  /\ stored' = [stored EXCEPT !.themeId = id, !.installed = Files(id, fromDisk)]

selectOverrides(edits) ==
  /\ Selected(themeId, edits, settings)
  /\ stored' = [stored EXCEPT !.overrides = edits]

Setting(field, value) ==
  /\ Chooses
  /\ settings[field] # value
  /\ Selected(themeId, overrides, [settings EXCEPT ![field] = value])
  /\ stored' = [stored EXCEPT !.settings = settings']
  /\ UNCHANGED <<directory, session, page>>

selectDensity == \E id \in {"compact", "comfortable"} : Setting("density", id)
selectPresentation == Setting("clock", "off") \/ Setting("everyLine", TRUE)
selectTypography == Setting("prose", "georgia")
selectSidebarCompact == \E compact \in BOOLEAN : Setting("sidebar", compact)

\* The scale goes up and down a list of levels, and stops at either end.
step(by) == settings.zoom + by \in 1 .. 2 /\ Setting("zoom", settings.zoom + by)

\* A click on a card.
ChooseTheme(id) ==
  /\ Chooses
  /\ Theme(id, themes) # None
  /\ selectTheme(id)
  /\ UNCHANGED <<directory, session, page>>

\* A palette and the layout that goes with it; what the preset does not name
\* keeps the value the reader gave it.
selectPreset(preset) ==
  /\ Chooses
  /\ Selected(preset.theme, overrides,
              [settings EXCEPT !.prose = preset.prose, !.clock = preset.clock])
  /\ stored' = [stored EXCEPT !.themeId = preset.theme,
                              !.installed = Files(preset.theme, fromDisk),
                              !.settings = settings']
  /\ UNCHANGED <<directory, session, page>>

\* One click sets the accent of the theme in force.
ChooseAccent(token, value) ==
  /\ Chooses
  /\ value # ""
  /\ selectOverrides([overrides EXCEPT ![themeId][token] = value])
  /\ UNCHANGED <<directory, session, page>>

\* Opening the editor of a theme, from its card or from the accents of the
\* theme in force, is choosing it.
edit(id) ==
  /\ Chooses
  /\ id = themeId \/ Theme(id, themes) # None
  /\ editing' = id
  /\ refused' = None
  /\ IF id = themeId THEN UNCHANGED chosen ELSE selectTheme(id)
  /\ UNCHANGED <<directory, session, installing>>

\* The editor is on the screen while its theme is in the catalogue.
Editor == editing # None /\ Theme(editing, themes) # None

\* A value that cannot be parsed is refused; any other is committed as typed.
change(token, value) ==
  /\ Chooses
  /\ Editor
  /\ refused' = None
  /\ selectOverrides([overrides EXCEPT ![editing][token] = value])
  /\ UNCHANGED <<directory, session, editing, installing>>

Refuses(token) ==
  /\ Chooses
  /\ Editor
  /\ refused' = token
  /\ UNCHANGED <<chosen, directory, session, editing, installing>>

\* The edits of some tokens are taken back: one, or every one of the theme.
reset(tokens) ==
  /\ Chooses
  /\ Editor
  /\ \E t \in tokens : overrides[editing][t] # None
  /\ refused' = None
  /\ selectOverrides([overrides EXCEPT ![editing] =
       [t \in Tokens |-> IF t \in tokens THEN None ELSE @[t]]])
  /\ UNCHANGED <<directory, session, editing, installing>>

Back ==
  /\ Editor
  /\ editing' = None
  /\ refused' = None
  /\ UNCHANGED <<chosen, directory, session, installing, choices>>

\* A folder is picked and the backend asked to copy it; the button stays.
install(id) ==
  /\ Chooses
  /\ ~Editor
  /\ installing[id] = None
  /\ installing' = [installing EXCEPT ![id] = "asked"]
  /\ UNCHANGED <<chosen, directory, session, editing, refused>>

Copies(id, version) ==
  /\ installing[id] = "asked"
  /\ installing' = [installing EXCEPT ![id] = "copied"]
  /\ disk' = [disk EXCEPT ![id] = version]
  /\ UNCHANGED <<chosen, session, known, changes, editing, refused, choices>>

\* What was installed is chosen, whether or not the directory was read since.
Installed(id) ==
  /\ installing[id] = "copied"
  /\ installing' = [installing EXCEPT ![id] = None]
  /\ selectTheme(id)
  /\ UNCHANGED <<directory, session, editing, refused, choices>>

InstallRefused(id) ==
  /\ installing[id] = "asked"
  /\ installing' = [installing EXCEPT ![id] = None]
  /\ UNCHANGED <<chosen, directory, session, editing, refused, choices>>

Next ==
  \/ Restart
  \/ Subscribed \/ Reads \/ Listed \/ StartFails
  \/ \E id \in OnDisk, version \in Versions \cup {"broken", "absent"} : DiskChanges(id, version)
  \/ Polls \/ ThemesChanged
  \/ \E id \in BuiltIn \cup OnDisk : ChooseTheme(id)
  \/ selectDensity \/ selectPresentation \/ selectTypography \/ selectSidebarCompact
  \/ \E by \in {-1, 1} : step(by)
  \/ \E preset \in Presets : selectPreset(preset)
  \/ \E token \in Tokens, value \in Values : ChooseAccent(token, value)
  \/ \E id \in BuiltIn \cup OnDisk : edit(id)
  \/ \E token \in Tokens, value \in Values : change(token, value)
  \/ \E token \in Tokens : Refuses(token)
  \/ \E token \in Tokens : reset({token})
  \/ reset(Tokens)
  \/ Back
  \/ \E id \in OnDisk : install(id)
  \/ \E id \in OnDisk, version \in Versions : Copies(id, version)
  \/ \E id \in OnDisk : Installed(id) \/ InstallRefused(id)

Spec == Init /\ [][Next]_vars

-----------------------------------------------------------------------------
\* The window wears what is chosen: the tokens of the theme in force as the
\* directory last said it is, under its own edits and no other theme's, under
\* the density, in the face and at the scale chosen. A theme that is gone or
\* broken leaves the floor, without edits over it.
WindowWearsTheChoice ==
  painted = [tokens |-> [t \in Tokens |->
               IF t \in DensityTokens /\ settings.density # "comfortable"
               THEN settings.density
               ELSE IF themeId \in OnDisk /\ themes[themeId] = "absent" THEN Floor
               ELSE IF overrides[themeId][t] = "" THEN Floor
               ELSE IF overrides[themeId][t] # None THEN overrides[themeId][t]
               ELSE IF themeId \in OnDisk THEN themes[themeId]
               ELSE themeId],
             prose |-> settings.prose, zoom |-> settings.zoom]

\* Once the directory was read, a launch now would open on the window as it
\* is, before it has read the directory again: nothing flashes. A blank edit
\* is the one thing that does not come back.
NextLaunchOpensAsThisOne ==
  (listed /\ \A t \in Tokens : overrides[themeId][t] # "") =>
    paint(Opening(stored), stored.settings.zoom) = painted

\* An edit is a value: resetting one deletes it, and "" is never written,
\* because it would uncover the dark theme (TokenEditor.tsx 71-75).
\* The code does not keep it (README, section 7).
NeverBlank == \A id \in DOMAIN overrides, t \in Tokens : overrides[id][t] # ""
=============================================================================
