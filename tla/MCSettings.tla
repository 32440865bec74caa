----------------------------- MODULE MCSettings -----------------------------
(***************************************************************************)
(* What the reader sets up and is asked to agree to, page by page, checked *)
(* in one run: a behaviour is of one page, chosen at the start, and the    *)
(* others stay as they begin.                                              *)
(***************************************************************************)
EXTENDS Naturals, Sequences, FiniteSets, TLC

CONSTANT None

VARIABLES
  part,             \* what this behaviour is of
  \* the dialog and its pages
  dialogSettings, dialogSetup, dialogBusy, busyHere, mounts, flying, requests,
  dialogMoves, dialogCrossed, left, unseen,
  \* the notifications page
  shown, saved, inForce, unread, writes, rows, kept, prefsReads, notify, prefsStored,
  asking, allowed, prefsEdits, prefsCrossed, blind, prefsStale, old, sets,
  \* the uploads and transfers pages
  providerDraft, providerSetup, providerStored, savedKind, row, providerKeyring,
  providerCalls, saving, halfway, early, transfer, ports, directory, providerPicking,
  providerEdits, providerSaves,
  \* the plugins page
  library, plugins, pluginsEditing, pluginsDraft, pluginsPending, confirming,
  pluginsPicking, pluginsBusy, pluginsCalls, pluginsCrossed, steps,
  \* files dropped on a conversation
  dropActive, provider, describing, dropPending, host, hostRead, sending, dropBusy,
  dead, said, drops, sends, dropMoves, stale, resent,
  \* the messages page
  here, archiveMessages, days, summary, archiveReads, archivePending, archiveCalls,
  archiveBusy, archiveSaving, archiveMoves, asks, agreed, failed, astray,
  \* a setup exported and imported
  profileNetworks, fresh, secrets, words, muted, upload, appearance, plan, profileStep,
  ids, profileBusy, imports, own, again,
  \* the forms a network is set up with
  onboardingStep, form, started, onboardingDraft, networkId, onboardingBusy, flow,
  onboardingCalls, onboardingNetworks, onboardingKeyring, status, drafts,
  onboardingSaves, onboardingEdits, strayed,
  \* the themes, and how the window looks
  disk, known, lookEvents, starting, listing, listed, fromDisk, themes, themeId,
  overrides, lookSettings, held, painted, lookStored, lookEditing, refused, installing,
  choices, changes

-----------------------------------------------------------------------------
(* What each page is given. *)

Manifests ==
  [p \in {"p", "q"} |->
     IF p = "p" THEN [permissions |-> {"access-channels", "send-messages", "network-requests"},
                      channels |-> {"*"}, hosts |-> {"w"}]
     ELSE [permissions |-> {"access-channels", "add-commands"}, channels |-> {"a"}, hosts |-> {}]]

Login(mechanism) == [mechanism |-> mechanism, account |-> "me"]
Network(name, sasl, certificate, auto) ==
  [name |-> name, at |-> "ours", sasl |-> sasl, certificate |-> certificate, commands |-> TRUE,
   auto |-> auto]
Setups ==
  {<<Network("a", Login("PLAIN"), FALSE, TRUE)>>,
   <<Network("a", None, FALSE, FALSE), Network("b", Login("EXTERNAL"), TRUE, TRUE)>>,
   <<Network("a", None, FALSE, FALSE), Network("a", None, FALSE, FALSE)>>}

Portable(name, at, sasl, auto) == [name |-> name, at |-> at, sasl |-> sasl, auto |-> auto]
File(nets, raises, to, looks, mutes) ==
  [networks |-> nets, words |-> raises, upload |-> to, appearance |-> looks, mutes |-> mutes]
Usable ==
  {File(<<Portable("a", "ours", Login("PLAIN"), TRUE)>>, "ours", None, "ours", {<<"a", "c">>}),
   File(<<Portable("a", "ours", None, FALSE), Portable("b", "ours", Login("EXTERNAL"), TRUE)>>,
        "ours", [at |-> "ours", query |-> FALSE, credential |-> FALSE], "ours", {}),
   File(<<Portable("b", "theirs", Login("PLAIN"), TRUE), Portable("c", "theirs", Login("PLAIN"), TRUE)>>,
        "theirs", [at |-> "theirs", query |-> FALSE, credential |-> TRUE], "theirs",
        {<<"c", "c">>, <<"b", "c">>, <<"z", "c">>})}
Files == Usable \cup {File(<<Portable("a", "ours", None, TRUE)>>, "none", None, "none", {})}

LookPresets == {[theme |-> "light", prose |-> "mono", clock |-> "off"]}

-----------------------------------------------------------------------------

Di == INSTANCE SettingsDialog WITH
  Sections <- {"networks", "uploads", "notifications"},
  Guarded <- {"networks", "uploads"}, MaxRequests <- 3, MaxMoves <- 3,
  settings <- dialogSettings, setup <- dialogSetup, busy <- dialogBusy,
  moves <- dialogMoves, crossed <- dialogCrossed

Pr == INSTANCE NotificationPrefs WITH
  Lists <- {"words", "hushed"}, Switches <- {"away"}, Rows <- {"muted"},
  Names <- {"a"}, Gated <- {"dm"}, Free <- {"quiet"}, MaxEdits <- 2,
  reads <- prefsReads, stored <- prefsStored, edits <- prefsEdits,
  crossed <- prefsCrossed, stale <- prefsStale

Fo == INSTANCE ProviderForm WITH
  Ports <- {0, 1, 2, 3}, MaxPort <- 2, MaxEdits <- 3, MaxSaves <- 2,
  draft <- providerDraft, setup <- providerSetup, stored <- providerStored,
  keyring <- providerKeyring, calls <- providerCalls, picking <- providerPicking, edits <- providerEdits,
  saves <- providerSaves

Pl == INSTANCE PluginGrants WITH
  Plugins <- {"p", "q"}, Manifests <- Manifests, Present <- {"a"}, Typed <- {"b"},
  Every <- "*", MaxSteps <- 8, editing <- pluginsEditing, draft <- pluginsDraft,
  pending <- pluginsPending, picking <- pluginsPicking, busy <- pluginsBusy,
  calls <- pluginsCalls, crossed <- pluginsCrossed

Up == INSTANCE Uploads WITH
  Targets <- {"c", "d"}, Hosts <- {"h", "k"},
  Drops <- {<<"f">>, <<"f", "g">>, <<"f", "big">>}, TooLarge <- {"big"}, MaxDrops <- 2,
  MaxSends <- 2, MaxMoves <- 2, active <- dropActive, pending <- dropPending,
  busy <- dropBusy, moves <- dropMoves

Ar == INSTANCE Archive WITH
  Networks <- {"n"}, Targets <- {"c", "d"}, Windows <- {"month", "ever"},
  Forever <- "ever", MaxSteps <- 2, messages <- archiveMessages,
  reads <- archiveReads, pending <- archivePending, calls <- archiveCalls,
  busy <- archiveBusy, saving <- archiveSaving, moves <- archiveMoves

Po == INSTANCE Profile WITH
  Setups <- Setups, Files <- Files, Usable <- Usable, MaxImports <- 2,
  networks <- profileNetworks, step <- profileStep, busy <- profileBusy

On == INSTANCE Onboarding WITH
  Passwords <- {"p"}, MaxDrafts <- 2, MaxSaves <- 2, MaxEdits <- 2,
  step <- onboardingStep, draft <- onboardingDraft, busy <- onboardingBusy,
  calls <- onboardingCalls, networks <- onboardingNetworks,
  keyring <- onboardingKeyring, saves <- onboardingSaves, edits <- onboardingEdits

Lo == INSTANCE Appearance WITH
  BuiltIn <- {"dark", "light"}, Floor <- "dark", OnDisk <- {"frost"},
  Versions <- {"v1", "v2"}, Tokens <- {"accent", "pad"}, Values <- {"blue", ""},
  DensityTokens <- {"pad"}, Presets <- LookPresets, MaxChoices <- 2, MaxChanges <- 1,
  events <- lookEvents, settings <- lookSettings, stored <- lookStored,
  editing <- lookEditing

-----------------------------------------------------------------------------
(* One page at a time. *)

dialogVars ==
  <<dialogSettings, dialogSetup, dialogBusy, busyHere, mounts, flying, requests,
    dialogMoves, dialogCrossed, left, unseen>>
prefsVars ==
  <<shown, saved, inForce, unread, writes, rows, kept, prefsReads, notify, prefsStored,
    asking, allowed, prefsEdits, prefsCrossed, blind, prefsStale, old, sets>>
providerVars ==
  <<providerDraft, providerSetup, providerStored, savedKind, row, providerKeyring,
    providerCalls, saving, halfway, early, transfer, ports, directory, providerPicking,
    providerEdits, providerSaves>>
pluginsVars ==
  <<library, plugins, pluginsEditing, pluginsDraft, pluginsPending, confirming,
    pluginsPicking, pluginsBusy, pluginsCalls, pluginsCrossed, steps>>
dropVars ==
  <<dropActive, provider, describing, dropPending, host, hostRead, sending, dropBusy,
    dead, said, drops, sends, dropMoves, stale, resent>>
archiveVars ==
  <<here, archiveMessages, days, summary, archiveReads, archivePending, archiveCalls,
    archiveBusy, archiveSaving, archiveMoves, asks, agreed, failed, astray>>
profileVars ==
  <<profileNetworks, fresh, secrets, words, muted, upload, appearance, plan,
    profileStep, ids, profileBusy, imports, own, again>>
onboardingVars ==
  <<onboardingStep, form, started, onboardingDraft, networkId, onboardingBusy, flow,
    onboardingCalls, onboardingNetworks, onboardingKeyring, status, drafts,
    onboardingSaves, onboardingEdits, strayed>>
lookVars ==
  <<disk, known, lookEvents, starting, listing, listed, fromDisk, themes, themeId,
    overrides, lookSettings, held, painted, lookStored, lookEditing, refused,
    installing, choices, changes>>

Parts == {"dialog", "prefs", "provider", "plugins", "drop", "archive", "profile", "onboarding", "look"}

ASSUME
  /\ Di!DialogAssumption /\ Pr!PrefsAssumption /\ Fo!FormAssumption /\ Pl!PluginsAssumption
  /\ Up!UploadsAssumption /\ Ar!ArchiveAssumption /\ Po!ProfileAssumption
  /\ On!OnboardingAssumption /\ Lo!AppearanceAssumption

\* The pages that are not the one chosen begin in one way only.
Init ==
  /\ part \in Parts
  /\ Di!Init
  /\ Pr!Init /\ (part = "prefs" \/ (prefsStale = {} /\ \A s \in DOMAIN saved : saved[s] = {}))
  /\ Fo!Init /\ (part = "provider" \/ row = None)
  /\ Pl!Init /\ (part = "plugins" \/ library = << >>)
  /\ Up!Init /\ (part = "drop" \/ (dropActive = "c" /\ provider = "h"))
  /\ Ar!Init /\ (IF part = "archive" THEN here.target # "d" ELSE here = Ar!Everything)
  /\ Po!Init /\ (part = "profile" \/ (Cardinality(DOMAIN profileNetworks) = 1 /\ muted = {} /\ upload = None))
  /\ On!Init
  /\ Lo!Init /\ (part = "look" \/ disk["frost"] = "absent")

Next ==
  /\ UNCHANGED part
  /\ IF part = "dialog" THEN Di!Next ELSE UNCHANGED dialogVars
  /\ IF part = "prefs" THEN Pr!Next ELSE UNCHANGED prefsVars
  /\ IF part = "provider" THEN Fo!Next ELSE UNCHANGED providerVars
  /\ IF part = "plugins" THEN Pl!Next ELSE UNCHANGED pluginsVars
  /\ IF part = "drop" THEN Up!Next ELSE UNCHANGED dropVars
  /\ IF part = "archive" THEN Ar!Next ELSE UNCHANGED archiveVars
  /\ IF part = "profile" THEN Po!Next ELSE UNCHANGED profileVars
  /\ IF part = "onboarding" THEN On!Next ELSE UNCHANGED onboardingVars
  /\ IF part = "look" THEN Lo!Next ELSE UNCHANGED lookVars

vars ==
  <<part, dialogVars, prefsVars, providerVars, pluginsVars, dropVars, archiveVars, profileVars,
    onboardingVars, lookVars>>

Spec == Init /\ [][Next]_vars

-----------------------------------------------------------------------------
(* What is checked of each. *)


\* What was agreed to is what is saved: a secret is said to be kept when it is, a grant
\* never outlives what it hangs on and is listed as it is held, and one draft makes one
\* network; the pages' modules name what is let off, requests left or crossed
\* (UploadsPage.tsx, PluginsPage.tsx, Onboarding.tsx).
SavedAsAgreed ==
  /\ part = "provider" => Fo!TypeOK /\ Fo!SecretIsAsSaid /\ Fo!PortsAreARange
  /\ part = "plugins" => Pl!TypeOK /\ Pl!GrantsReadTrue /\ Pl!ListIsLibrary
  /\ part = "onboarding" => On!TypeOK /\ On!OneDraftOneNetwork

\* The link to a dropped file is said where it was dropped, and of the host that was
\* named when the reader agreed, wherever the focus moved meanwhile, in the order the
\* files were listed (DropToUpload.tsx).
LinksGoWhereAgreed ==
  part = "drop" => Up!TypeOK /\ Up!LinksGoWhereAgreed /\ Up!LinksInOrder

\* What the reader asks for is all that is done to what is kept: a deletion takes only
\* what it named, an import replaces nothing of ours, and importing what was exported
\* here changes nothing (PrivacyPage.tsx, profileImport.ts).
DataIsAsAsked == Ar!DeletedAsNamed /\ Po!OursStay /\ Po!OwnChangesNothing

\* The window is painted with what was chosen, and so is the next one before any file
\* of a theme has been read (theme/apply.ts, theme/remembered.ts).
LookIsChosen == part = "look" => Lo!WindowWearsTheChoice /\ Lo!NextLaunchOpensAsThisOne
=============================================================================
