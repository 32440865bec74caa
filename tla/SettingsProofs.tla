----------------------------- MODULE SettingsProofs -----------------------------
(***************************************************************************)
(* What the reader sets up and is asked to agree to, proved page by page   *)
(* for any constants: each page has its inductive invariant, the lemmas    *)
(* that its steps keep it, and the theorems that follow.  Uploads is       *)
(* extended; the other pages are instances over variables of their own,    *)
(* named as MCSettings names them.  A page whose Assumption is needed has  *)
(* it as a hypothesis of its theorems; MCSettings assumes each of them of  *)
(* the values it checks.                                                   *)
(***************************************************************************)
EXTENDS Uploads, SequenceTheorems, FiniteSetTheorems, TLAPS

CONSTANTS
    Networks, Windows, Forever, \* Archive
    BuiltIn, Floor, OnDisk, Versions, Tokens, Values, DensityTokens, Presets, MaxChoices,
    MaxChanges, \* Appearance
    Sections, Guarded, MaxRequests, \* SettingsDialog
    Lists, Switches, Rows, Names, Gated, Free, \* NotificationPrefs
    Ports, MaxPort, MaxEdits, MaxSaves, \* ProviderForm, Onboarding
    Plugins, Manifests, Present, Typed, Every, \* PluginGrants
    MaxSteps, \* PluginGrants, Archive
    Passwords, MaxDrafts, \* Onboarding
    Setups, Files, Usable, MaxImports \* Profile
VARIABLES
    here, messages, days, summary, reads, archivePending, archiveSaving, calls, archiveBusy,
    archiveMoves, asks, agreed, failed, astray
VARIABLES
    disk, known, lookEvents, starting, listing, listed, fromDisk, themes, themeId, overrides,
    lookSettings, held, painted, lookStored, lookEditing, refused, installing, choices, changes
VARIABLES
    dialogSettings, dialogSetup, dialogBusy, busyHere, mounts, flying, requests, dialogMoves,
    dialogCrossed, left, unseen
VARIABLES
    shown, prefsSaved, inForce, unread, writes, prefsStale, rows, kept, prefsReads, sets, old, notify,
    prefsStored, asking, allowed, prefsEdits, prefsCrossed, blind
VARIABLES
    providerDraft, providerSetup, providerStored, savedKind, row, providerKeyring, saving,
    providerCalls, halfway, early, transfer, ports, directory, providerPicking, providerEdits, providerSaves
VARIABLES
    library, plugins, pluginsEditing, pluginsDraft, pluginsPending, confirming, pluginsPicking,
    pluginsBusy, pluginsCalls, pluginsCrossed, steps
VARIABLES
    onboardingStep, form, started, onboardingDraft, networkId, onboardingBusy, flow, onboardingCalls,
    onboardingNetworks, onboardingKeyring, status, drafts, onboardingSaves, onboardingEdits, strayed
VARIABLES
    profileNetworks, fresh, secrets, words, muted, upload, appearance, plan, profileStep, ids,
    profileBusy, imports, own, again

Ar == INSTANCE Archive WITH
    pending <- archivePending, saving <- archiveSaving, busy <- archiveBusy, moves <- archiveMoves
Lo == INSTANCE Appearance WITH
    events <- lookEvents, settings <- lookSettings, stored <- lookStored, editing <- lookEditing
Di == INSTANCE SettingsDialog WITH
    settings <- dialogSettings, setup <- dialogSetup, busy <- dialogBusy, moves <- dialogMoves,
    crossed <- dialogCrossed
Pr == INSTANCE NotificationPrefs WITH
    saved <- prefsSaved, reads <- prefsReads, stored <- prefsStored, edits <- prefsEdits,
    crossed <- prefsCrossed, stale <- prefsStale
Fo == INSTANCE ProviderForm WITH
    draft <- providerDraft, setup <- providerSetup, stored <- providerStored,
    keyring <- providerKeyring, picking <- providerPicking, edits <- providerEdits,
    saves <- providerSaves, calls <- providerCalls
Pl == INSTANCE PluginGrants WITH
    editing <- pluginsEditing, draft <- pluginsDraft, pending <- pluginsPending,
    picking <- pluginsPicking, busy <- pluginsBusy, calls <- pluginsCalls, crossed <- pluginsCrossed
On == INSTANCE Onboarding WITH
    step <- onboardingStep, draft <- onboardingDraft, busy <- onboardingBusy,
    calls <- onboardingCalls, networks <- onboardingNetworks, keyring <- onboardingKeyring,
    saves <- onboardingSaves, edits <- onboardingEdits
Po == INSTANCE Profile WITH networks <- profileNetworks, step <- profileStep, busy <- profileBusy

-----------------------------------------------------------------------------
(* Files dropped on a conversation (Uploads).                              *)

DroppedFiles == Seq(File \cup {None}) \ {<<>>}
Confirmation == [files : DroppedFiles, destination : Targets, id : Nat]
Sending ==
    {s \in [files : DroppedFiles, at : Nat, destination : Targets, named : Hosts, step : {"upload"} \cup Hosts,
            id : Nat] : s.at \in DOMAIN s.files}
Said ==
    [file : File \cup {None}, destination : Targets, host : Hosts, named : Hosts, id : Nat, at : Nat]

UploadsType ==
    /\ active \in Targets \cup {None} /\ provider \in Hosts \cup {None} /\ host \in Hosts \cup {None}
    /\ drops \in Seq(Targets) /\ said \in Seq(Said)
    /\ describing \subseteq Confirmation /\ pending \in Confirmation \cup {None}
    /\ sending \in Sending \cup {None} /\ dead \in Said \cup {None}

\* A record that names a drop and the conversation it was let go over.
Placed(r) == r.id \in DOMAIN drops /\ r.destination = drops[r.id]
PlacedInv ==
    /\ \A d \in describing : Placed(d)
    /\ pending # None => Placed(pending)
    /\ sending # None => Placed(sending)
    /\ dead # None => Placed(dead)
    /\ \A i \in DOMAIN said : Placed(said[i])

\* Until a host is changed under a send, what is on its way goes where it was named.
NamedInv ==
    ~stale =>
        /\ sending # None => sending.named = provider /\ sending.step \in {"upload", provider}
        /\ dead # None => dead.host = dead.named
        /\ \A i \in DOMAIN said : said[i].host = said[i].named

\* What was said of a drop is before what is on its way of it.
Behind(r) == \A i \in DOMAIN said : said[i].id = r.id => said[i].at < r.at
OrderInv ==
    /\ sending # None => dead = None
    /\ ~resent =>
        /\ sending # None => Behind(sending)
        /\ dead # None => Behind(dead)
        /\ LinksInOrder

LEMMA PutLast ==
    ASSUME NEW S, NEW s \in Seq(S), NEW e \in S
    PROVE  /\ Append(s, e) \in Seq(S) /\ Len(s) \in Nat /\ DOMAIN s = 1..Len(s)
           /\ DOMAIN Append(s, e) = 1..(Len(s) + 1)
           /\ Append(s, e)[Len(s) + 1] = e
           /\ \A i \in DOMAIN s : Append(s, e)[i] = s[i]
BY AppendProperties, LenProperties

\* A link: what is on its way becomes it.
LEMMA LinkIsSaid ==
    ASSUME UploadsType, sending # None, NEW h \in Hosts
    PROVE  /\ Link(sending.destination, h) \in Said
           /\ Link(sending.destination, h).host = h
           /\ Link(sending.destination, h).named = sending.named
           /\ Link(sending.destination, h).id = sending.id
           /\ Link(sending.destination, h).at = sending.at
           /\ Link(sending.destination, h).destination = sending.destination
<1>1. sending \in Sending
    BY DEF UploadsType
<1>2. sending.files \in DroppedFiles /\ sending.at \in DOMAIN sending.files
    BY <1>1 DEF Sending
<1>3. sending.files[sending.at] \in File \cup {None}
    BY <1>2, LenProperties DEF DroppedFiles
<1> QED BY <1>1, <1>3 DEF Link, Said, Sending

LEMMA NextFile ==
    ASSUME UploadsType, sending # None, sending.at # Len(sending.files)
    PROVE  LET s == [sending EXCEPT !.at = @ + 1, !.step = "upload"]
           IN  /\ s \in Sending /\ s.id = sending.id /\ s.destination = sending.destination
               /\ s.named = sending.named /\ s.step = "upload" /\ s.at = sending.at + 1
<1> DEFINE s == [sending EXCEPT !.at = @ + 1, !.step = "upload"]
<1>1. /\ sending \in [files : DroppedFiles, at : Nat, destination : Targets, named : Hosts,
                      step : {"upload"} \cup Hosts, id : Nat]
      /\ sending.at \in DOMAIN sending.files
    BY DEF UploadsType, Sending
<1>2. sending.files \in Seq(File \cup {None}) /\ DOMAIN sending.files = 1..Len(sending.files)
      /\ Len(sending.files) \in Nat
    BY <1>1, LenProperties DEF DroppedFiles
<1>3. s.files = sending.files /\ s.at = sending.at + 1 /\ s.id = sending.id /\ s.step = "upload"
      /\ s.destination = sending.destination /\ s.named = sending.named
    BY <1>1
<1>4. s.at \in DOMAIN s.files
    BY <1>1, <1>2, <1>3
<1>5. sending.at + 1 \in Nat
    BY <1>1
<1>6. ASSUME NEW k \in Nat
      PROVE  [sending EXCEPT !.at = k, !.step = "upload"]
                \in [files : DroppedFiles, at : Nat, destination : Targets, named : Hosts,
                     step : {"upload"} \cup Hosts, id : Nat]
    BY <1>1
<1>7. s \in [files : DroppedFiles, at : Nat, destination : Targets, named : Hosts,
             step : {"upload"} \cup Hosts, id : Nat]
    BY <1>5, <1>6
<1> QED BY <1>3, <1>4, <1>7 DEF Sending

-----------------------------------------------------------------------------
LEMMA UploadsInit == ASSUME Init PROVE UploadsType /\ PlacedInv /\ NamedInv /\ OrderInv
BY DEF Init, UploadsType, PlacedInv, NamedInv, OrderInv, LinksInOrder

\* The types.
LEMMA TypeKept == ASSUME UploadsAssumption, UploadsType, [Next]_vars PROVE UploadsType'
<1> USE DEF UploadsType
<1>1. ASSUME NEW files \in Drops, describe(files) PROVE UploadsType'
    <2>1. drops' \in Seq(Targets) /\ Len(drops) \in Nat /\ active \in Targets
        BY <1>1, PutLast DEF describe
    <2>2. files \in DroppedFiles
        <3>1. files \in Seq(File) /\ files # <<>>
            BY DEF UploadsAssumption
        <3> QED BY <3>1, SeqDef DEF DroppedFiles
    <2>3. Confirm(files, active, Len(drops) + 1) \in Confirmation
        BY <2>1, <2>2 DEF Confirm, Confirmation
    <2> QED BY <1>1, <2>1, <2>3 DEF describe, confirmation
<1>2. ASSUME NEW d \in describing, NEW readable \in BOOLEAN, Described(d, readable) PROVE UploadsType'
    <2> DEFINE none == [i \in DOMAIN d.files |-> None]
    <2>1. d \in Confirmation /\ d.files \in Seq(File \cup {None}) /\ d.files # <<>>
        BY DEF Confirmation, DroppedFiles
    <2>2. DOMAIN d.files = 1..Len(d.files) /\ Len(d.files) \in Nat /\ Len(d.files) # 0
        BY <2>1, LenProperties, EmptySeq
    <2>3. none \in [1..Len(d.files) -> File \cup {None}]
        BY <2>2
    <2>4. none \in Seq(File \cup {None})
        BY <2>2, <2>3, SeqDef
    <2>5. none # <<>>
        <3>1. DOMAIN none = 1..Len(d.files) /\ DOMAIN none = 1..Len(none) /\ 1 \in 1..Len(d.files)
            BY <2>2, <2>4, LenProperties
        <3> HIDE DEF none
        <3>2. none # <<>>
            BY <2>4, <3>1, EmptySeq
        <3> QED BY <3>2
    <2>6. [d EXCEPT !.files = none] \in Confirmation
        BY <2>1, <2>4, <2>5 DEF Confirmation, DroppedFiles
    <2>7. [d EXCEPT !.files = [i \in DOMAIN @ |-> None]] = [d EXCEPT !.files = none]
        OBVIOUS
    <2>8. pending' \in Confirmation
        BY <1>2, <2>1, <2>6, <2>7 DEF Described
    <2> QED BY <1>2, <2>8 DEF Described
<1>3. CASE HostRead
    BY <1>3 DEF HostRead
<1>4. CASE send
    <2>1. pending \in Confirmation /\ host \in Hosts
        BY <1>4 DEF send, Offered
    <2> DEFINE s == [files |-> pending.files, at |-> 1, destination |-> pending.destination,
                     named |-> host, step |-> "upload", id |-> pending.id]
    <2>2. pending.files \in DroppedFiles /\ 1 \in DOMAIN pending.files
        BY <2>1, LenProperties, EmptySeq DEF Confirmation, DroppedFiles
    <2>3. s \in Sending
        BY <2>1, <2>2 DEF Confirmation, Sending
    <2> QED BY <1>4, <2>3 DEF send, confirmation
<1>5. CASE cancel \/ SendFails
    BY <1>5 DEF cancel, SendFails, confirmation
<1>6. ASSUME NEW opens \in BOOLEAN, Uploaded(opens) PROVE UploadsType'
    <2>1. sending \in Sending /\ provider \in Hosts
        BY <1>6 DEF Uploaded
    <2>2. [sending EXCEPT !.step = provider] \in Sending
        BY <2>1 DEF Sending
    <2>3. Link(sending.destination, provider) \in Said
        BY <1>6, <2>1, LinkIsSaid DEF Uploaded
    <2> QED BY <1>6, <2>2, <2>3 DEF Uploaded, confirmation
<1>7. CASE LinkSaid
    <2>1. sending \in Sending /\ sending # None /\ sending.step \in Hosts
        BY <1>7 DEF LinkSaid, Sending
    <2>2. said' \in Seq(Said)
        BY <1>7, <2>1, LinkIsSaid, PutLast DEF LinkSaid
    <2>3. sending' \in Sending \cup {None}
        BY <1>7, <2>1, NextFile DEF LinkSaid
    <2>4. pending' \in {pending, None}
        BY <1>7 DEF LinkSaid
    <2> QED BY <1>7, <2>2, <2>3, <2>4 DEF LinkSaid
<1>8. ASSUME NEW anyway \in BOOLEAN, CloseDead(anyway) PROVE UploadsType'
    <2>1. said' \in Seq(Said)
        BY <1>8, PutLast DEF CloseDead
    <2> QED BY <1>8, <2>1 DEF CloseDead
<1>9. ASSUME NEW t \in Targets \cup {None}, Focus(t) PROVE UploadsType'
    BY <1>9 DEF Focus, confirmation
<1>10. ASSUME NEW h \in Hosts \cup {None}, Provide(h) PROVE UploadsType'
    BY <1>10 DEF Provide, confirmation
<1>11. CASE UNCHANGED vars
    BY <1>11 DEF vars, confirmation
<1> QED BY <1>1, <1>2, <1>3, <1>4, <1>5, <1>6, <1>7, <1>8, <1>9, <1>10, <1>11 DEF Next

\* Drops are only added to: what names one goes on naming it.
LEMMA PlacedStays ==
    ASSUME UploadsType, [Next]_vars, NEW r, Placed(r)
    PROVE  r.id \in DOMAIN drops' /\ r.destination = drops'[r.id]
<1>1. drops' = drops \/ \E t \in Targets : drops' = Append(drops, t)
    BY DEF Next, vars, confirmation, describe, Described, HostRead, send, cancel, Uploaded, LinkSaid,
           SendFails, CloseDead, Focus, Provide, UploadsType
<1> QED BY <1>1, PutLast DEF Placed, UploadsType

LEMMA PlacedKept == ASSUME UploadsAssumption, UploadsType, PlacedInv, [Next]_vars PROVE PlacedInv'
<1> DEFINE Now(r) == r.id \in DOMAIN drops' /\ r.destination = drops'[r.id]
<1>0. /\ \A d \in describing : Now(d)
      /\ pending # None => Now(pending)
      /\ sending # None => Now(sending)
      /\ dead # None => Now(dead)
      /\ \A i \in DOMAIN said : Now(said[i])
    BY PlacedStays DEF PlacedInv
<1> SUFFICES /\ \A d \in describing' : Now(d)
             /\ pending' # None => Now(pending')
             /\ sending' # None => Now(sending')
             /\ dead' # None => Now(dead')
             /\ \A i \in DOMAIN said' : Now(said'[i])
    BY DEF PlacedInv, Placed
<1>1. ASSUME NEW files \in Drops, describe(files) PROVE \A d \in describing' : Now(d)
    <2> DEFINE c == Confirm(files, active, Len(drops) + 1)
    <2>1. active \in Targets /\ drops \in Seq(Targets) /\ drops' = Append(drops, active)
        BY <1>1 DEF describe, UploadsType
    <2>2. c.id = Len(drops) + 1 /\ c.destination = active
        BY DEF Confirm
    <2>3. Now(c)
        BY <2>1, <2>2, PutLast
    <2> HIDE DEF Now, c
    <2> QED BY <1>0, <1>1, <2>3 DEF describe, c
<1>2. ASSUME NEW d \in describing, NEW readable \in BOOLEAN, Described(d, readable)
      PROVE  Now(pending')
    <2>1. d \in Confirmation
        BY DEF UploadsType
    <2>2. pending'.id = d.id /\ pending'.destination = d.destination
        BY <1>2, <2>1 DEF Described, Confirmation
    <2>3. Now(d)
        BY <1>0
    <2> QED BY <2>2, <2>3
<1>3. CASE send
    <2>1. sending'.id = pending.id /\ sending'.destination = pending.destination /\ pending # None
        BY <1>3 DEF send, Offered
    <2>2. Now(sending')
        BY <1>0, <2>1
    <2> HIDE DEF Now
    <2> QED BY <1>0, <1>3, <2>2 DEF send, confirmation
<1>4. ASSUME NEW opens \in BOOLEAN, Uploaded(opens)
      PROVE  (sending' # None => Now(sending')) /\ (dead' # None => Now(dead'))
    <2>1. sending \in Sending /\ sending # None /\ provider \in Hosts
        BY <1>4 DEF Uploaded, UploadsType
    <2>2. /\ [sending EXCEPT !.step = provider].id = sending.id
          /\ [sending EXCEPT !.step = provider].destination = sending.destination
        BY <2>1 DEF Sending
    <2>3. /\ Link(sending.destination, provider).id = sending.id
          /\ Link(sending.destination, provider).destination = sending.destination
        BY <2>1, LinkIsSaid
    <2>4. Now(sending) /\ Now([sending EXCEPT !.step = provider]) /\ Now(Link(sending.destination, provider))
        BY <1>0, <2>1, <2>2, <2>3
    <2> HIDE DEF Now
    <2> QED BY <1>0, <1>4, <2>4 DEF Uploaded
<1>5. CASE LinkSaid
    <2>1. sending \in Sending /\ sending # None /\ sending.step \in Hosts
        BY <1>5 DEF LinkSaid, UploadsType, Sending
    <2> DEFINE l == Link(sending.destination, sending.step)
    <2>2. l \in Said /\ Now(l)
        BY <1>0, <2>1, LinkIsSaid
    <2>3. said' = Append(said, l)
        BY <1>5 DEF LinkSaid
    <2> HIDE DEF l
    <2>4. \A i \in DOMAIN said' : (i \in DOMAIN said /\ said'[i] = said[i]) \/ said'[i] = l
        BY <2>2, <2>3, PutLast DEF UploadsType
    <2>5. \A i \in DOMAIN said' : Now(said'[i])
        BY <1>0, <2>2, <2>4
    <2>6. sending' # None => sending'.id = sending.id /\ sending'.destination = sending.destination
        BY <1>5, <2>1, NextFile DEF LinkSaid
    <2>7. sending' # None => Now(sending')
        BY <1>0, <2>1, <2>6
    <2> HIDE DEF Now
    <2>8. pending' \in {pending, None} /\ describing' = describing /\ dead' = dead
        BY <1>5 DEF LinkSaid
    <2> QED BY <1>0, <2>5, <2>7, <2>8
<1>6. ASSUME NEW anyway \in BOOLEAN, CloseDead(anyway) PROVE \A i \in DOMAIN said' : Now(said'[i])
    <2>1. dead # None /\ dead \in Said /\ said' \in {said, Append(said, dead)}
        BY <1>6 DEF CloseDead, UploadsType
    <2>2. \A i \in DOMAIN said' : (i \in DOMAIN said /\ said'[i] = said[i]) \/ said'[i] = dead
        BY <2>1, PutLast DEF UploadsType
    <2> HIDE DEF Now
    <2> QED BY <1>0, <2>1, <2>2
<1> HIDE DEF Now
<1> QED
    BY <1>0, <1>1, <1>2, <1>3, <1>4, <1>5, <1>6
    DEF Next, vars, confirmation, describe, Described, HostRead, cancel, Uploaded, SendFails, CloseDead,
        Focus, Provide

\* The host: named when it was read, and changed only with what is out made stale.
LEMMA NamedKept == ASSUME UploadsAssumption, UploadsType, NamedInv, [Next]_vars PROVE NamedInv'
<1> SUFFICES ASSUME ~stale'
             PROVE  /\ sending' # None => sending'.named = provider' /\ sending'.step \in {"upload", provider'}
                    /\ dead' # None => dead'.host = dead'.named
                    /\ \A i \in DOMAIN said' : said'[i].host = said'[i].named
    BY DEF NamedInv
<1>0. ~stale
    BY DEF Next, vars, confirmation, describe, Described, HostRead, send, cancel, Uploaded, LinkSaid,
           SendFails, CloseDead, Focus, Provide
<1>1. /\ sending # None => sending.named = provider /\ sending.step \in {"upload", provider}
      /\ dead # None => dead.host = dead.named
      /\ \A i \in DOMAIN said : said[i].host = said[i].named
    BY <1>0 DEF NamedInv
<1>2. CASE send
    BY <1>1, <1>2 DEF send, confirmation
<1>3. ASSUME NEW opens \in BOOLEAN, Uploaded(opens)
      PROVE  /\ sending' # None => sending'.named = provider' /\ sending'.step \in {"upload", provider'}
             /\ dead' # None => dead'.host = dead'.named
    <2>1. sending \in Sending /\ sending # None /\ provider \in Hosts /\ provider' = provider
        BY <1>3 DEF Uploaded, UploadsType
    <2>2. /\ [sending EXCEPT !.step = provider].named = sending.named
          /\ [sending EXCEPT !.step = provider].step = provider
        BY <2>1 DEF Sending
    <2>3. /\ Link(sending.destination, provider).named = sending.named
          /\ Link(sending.destination, provider).host = provider
        BY <2>1, LinkIsSaid
    <2> QED BY <1>1, <1>3, <2>1, <2>2, <2>3 DEF Uploaded
<1>4. CASE LinkSaid
    <2>1. sending \in Sending /\ sending # None /\ sending.step \in Hosts /\ sending.step # "upload"
        BY <1>4 DEF LinkSaid, UploadsType, Sending
    <2> DEFINE l == Link(sending.destination, sending.step)
    <2>2. l \in Said /\ l.host = l.named
        BY <1>1, <2>1, LinkIsSaid
    <2>3. said' = Append(said, l)
        BY <1>4 DEF LinkSaid
    <2> HIDE DEF l
    <2>4. \A i \in DOMAIN said' : (i \in DOMAIN said /\ said'[i] = said[i]) \/ said'[i] = l
        BY <2>2, <2>3, PutLast DEF UploadsType
    <2>5. sending' # None => sending'.named = sending.named /\ sending'.step = "upload"
        BY <1>4, <2>1, NextFile DEF LinkSaid
    <2>6. provider' = provider /\ dead' = dead
        BY <1>4 DEF LinkSaid
    <2> QED BY <1>1, <2>1, <2>2, <2>4, <2>5, <2>6
<1>5. ASSUME NEW anyway \in BOOLEAN, CloseDead(anyway)
      PROVE  \A i \in DOMAIN said' : said'[i].host = said'[i].named
    <2>1. dead # None /\ dead \in Said /\ said' \in {said, Append(said, dead)}
        BY <1>5 DEF CloseDead, UploadsType
    <2>2. \A i \in DOMAIN said' : (i \in DOMAIN said /\ said'[i] = said[i]) \/ said'[i] = dead
        BY <2>1, PutLast DEF UploadsType
    <2> QED BY <1>1, <2>1, <2>2
<1>6. ASSUME NEW h \in Hosts \cup {None}, Provide(h) PROVE sending = None /\ sending' = None
    BY <1>6 DEF Provide
<1> QED
    BY <1>1, <1>2, <1>3, <1>4, <1>5, <1>6
    DEF Next, vars, confirmation, describe, Described, HostRead, cancel, SendFails, CloseDead, Focus,
        Provide, Uploaded

\* The order: a file is said before the next of its drop goes out.
LEMMA OrderKept ==
    ASSUME UploadsAssumption, UploadsType, OrderInv, [Next]_vars
    PROVE  OrderInv'
<1>1. sending' # None => dead' = None
    BY DEF OrderInv, Next, vars, confirmation, describe, Described, HostRead, send, Offered, cancel,
           Uploaded, LinkSaid, SendFails, CloseDead, Focus, Provide
<1> SUFFICES ASSUME ~resent'
             PROVE  /\ sending' # None => Behind(sending)'
                    /\ dead' # None => Behind(dead)'
                    /\ LinksInOrder'
    BY <1>1 DEF OrderInv
<1>2. ~resent
    BY DEF Next, vars, confirmation, describe, Described, HostRead, send, cancel, Uploaded, LinkSaid,
           SendFails, CloseDead, Focus, Provide
<1>3. /\ sending # None => Behind(sending) /\ dead = None
      /\ dead # None => Behind(dead)
      /\ \A i, j \in DOMAIN said : i < j /\ said[i].id = said[j].id => said[i].at < said[j].at
    BY <1>2 DEF OrderInv, LinksInOrder
\* One more is said, and it is behind all that were.
<1>4. ASSUME NEW l \in Said, Behind(l), said' = Append(said, l)
      PROVE  LinksInOrder'
    <2>1. /\ DOMAIN said = 1..Len(said) /\ DOMAIN said' = 1..(Len(said) + 1) /\ Len(said) \in Nat
          /\ said'[Len(said) + 1] = l /\ \A i \in DOMAIN said : said'[i] = said[i]
        BY <1>4, PutLast DEF UploadsType
    <2>2. SUFFICES ASSUME NEW i \in DOMAIN said', NEW j \in DOMAIN said', i < j, said'[i].id = said'[j].id
                   PROVE  said'[i].at < said'[j].at
        BY DEF LinksInOrder
    <2>3. i \in DOMAIN said
        BY <2>1, <2>2
    <2>4. CASE j \in DOMAIN said
        BY <1>3, <2>1, <2>2, <2>3, <2>4
    <2>5. CASE j = Len(said) + 1
        BY <1>4, <2>1, <2>2, <2>3, <2>5 DEF Behind
    <2> QED BY <2>1, <2>2, <2>4, <2>5
<1>5. CASE send
    <2>1. /\ \A i \in DOMAIN said : said[i].id # pending.id
          /\ sending'.id = pending.id /\ said' = said /\ dead' = dead /\ dead = None
        BY <1>5 DEF send, Offered, confirmation
    <2> QED BY <1>3, <2>1 DEF Behind, LinksInOrder
<1>6. ASSUME NEW opens \in BOOLEAN, Uploaded(opens)
      PROVE  (sending' # None => Behind(sending)') /\ (dead' # None => Behind(dead)')
    <2>1. sending \in Sending /\ sending # None /\ provider \in Hosts /\ said' = said
        BY <1>6 DEF Uploaded, UploadsType
    <2>2. /\ [sending EXCEPT !.step = provider].id = sending.id
          /\ [sending EXCEPT !.step = provider].at = sending.at
        BY <2>1 DEF Sending
    <2>3. /\ Link(sending.destination, provider).id = sending.id
          /\ Link(sending.destination, provider).at = sending.at
        BY <2>1, LinkIsSaid
    <2> QED BY <1>3, <1>6, <2>1, <2>2, <2>3 DEF Uploaded, Behind
<1>7. CASE LinkSaid
    <2>1. sending \in Sending /\ sending # None /\ sending.step \in Hosts /\ sending.at \in Nat
        BY <1>7 DEF LinkSaid, UploadsType, Sending
    <2> DEFINE l == Link(sending.destination, sending.step)
    <2>2. l \in Said /\ l.id = sending.id /\ l.at = sending.at
        BY <2>1, LinkIsSaid
    <2>3. said' = Append(said, l) /\ dead' = dead /\ dead = None
        BY <1>3, <1>7, <2>1 DEF LinkSaid
    <2> HIDE DEF l
    <2>4. Behind(l)
        BY <1>3, <2>1, <2>2 DEF Behind
    <2>5. LinksInOrder'
        BY <1>4, <2>2, <2>3, <2>4
    <2>6. \A i \in DOMAIN said' : (i \in DOMAIN said /\ said'[i] = said[i]) \/ said'[i] = l
        BY <2>2, <2>3, PutLast DEF UploadsType
    <2>7. \A i \in DOMAIN said : said[i].at \in Nat
        <3>1. said \in [1..Len(said) -> Said]
            BY LenProperties DEF UploadsType
        <3>2. \A i \in DOMAIN said : said[i] \in Said
            BY <3>1
        <3> QED BY <3>2 DEF Said
    <2>8. sending' # None => sending'.id = sending.id /\ sending'.at = sending.at + 1
        BY <1>7, <2>1, NextFile DEF LinkSaid
    <2>9. ASSUME sending' # None, NEW i \in DOMAIN said', said'[i].id = sending'.id
          PROVE  said'[i].at < sending'.at
        <3>1. said'[i].at \in Nat /\ (said'[i].at < sending.at \/ said'[i].at = sending.at)
            BY <1>3, <2>1, <2>2, <2>6, <2>7, <2>8, <2>9 DEF Behind
        <3> QED BY <2>1, <2>8, <2>9, <3>1
    <2> QED BY <2>3, <2>5, <2>9 DEF Behind
<1>8. ASSUME NEW anyway \in BOOLEAN, CloseDead(anyway)
      PROVE  LinksInOrder' /\ sending' = sending /\ dead' = None /\ sending = None
    <2>1. dead # None /\ dead \in Said /\ said' \in {said, Append(said, dead)} /\ sending = None
        BY <1>3, <1>8 DEF CloseDead, UploadsType
    <2>2. LinksInOrder'
        BY <1>3, <1>4, <2>1 DEF LinksInOrder
    <2> QED BY <1>8, <2>1, <2>2 DEF CloseDead
<1>9. CASE said' = said /\ dead' = dead /\ sending' \in {sending, None}
    BY <1>3, <1>9 DEF Behind, LinksInOrder
<1>10. (\E opens \in BOOLEAN : Uploaded(opens)) => LinksInOrder'
    BY <1>3 DEF Uploaded, LinksInOrder
<1> QED
    BY <1>5, <1>6, <1>7, <1>8, <1>9, <1>10
    DEF Next, vars, confirmation, describe, Described, HostRead, cancel, SendFails, Focus, Provide

LEMMA UploadsInductive ==
    ASSUME UploadsAssumption
    PROVE  Spec => [](UploadsType /\ PlacedInv /\ NamedInv /\ OrderInv)
<1> DEFINE Inv == UploadsType /\ PlacedInv /\ NamedInv /\ OrderInv
<1>1. Init => Inv
    BY UploadsInit
<1>2. Inv /\ [Next]_vars => Inv'
    BY TypeKept, PlacedKept, NamedKept, OrderKept
<1> QED BY <1>1, <1>2, PTL DEF Spec

\* The link to a dropped file is said in the conversation it was dropped on and goes to
\* the host that was agreed to, in the order the files are listed, wherever the reader
\* goes between the drop and the last link, for any files and hosts (DropToUpload.tsx).
THEOREM LinksCorrect ==
    ASSUME UploadsAssumption
    PROVE  Spec => [](LinksGoWhereAgreed /\ LinksInOrder)
<1>1. PlacedInv /\ NamedInv => LinksGoWhereAgreed
    BY DEF PlacedInv, NamedInv, Placed, LinksGoWhereAgreed
<1>2. OrderInv => LinksInOrder
    BY DEF OrderInv, LinksInOrder
<1> QED BY <1>1, <1>2, UploadsInductive, PTL

-----------------------------------------------------------------------------
(* The permissions of a plugin (PluginGrants).                             *)

Permission == {"access-channels", "network-requests", "send-messages", "add-commands"}
Channel == Present \cup Typed \cup {Every}
Host == UNION {Manifests[p].hosts : p \in Plugins}
Grants == [permissions : SUBSET Permission, channels : SUBSET Channel, hosts : SUBSET Host]

\* "*" stands alone, and no scope outlives its permission.
Shaped(g) ==
    /\ Every \in g.channels => g.channels = {Every}
    /\ g.channels # {} => "access-channels" \in g.permissions
    /\ g.hosts # {} => "network-requests" \in g.permissions

Held(p, g) == g \in Grants /\ Shaped(g) /\ ~Pl!unscoped(g) /\ Pl!Within(g, Manifests[p])

PluginCall ==
    {c \in [id : Nat, what : {"install", "remove", "save"}, plugin : Plugins,
            grants : {g \in Grants : Shaped(g) /\ ~Pl!unscoped(g)}, here : BOOLEAN, done : BOOLEAN] :
        c.what # "save" => c.grants = Pl!Nothing}

LibraryInv ==
    /\ DOMAIN library \subseteq Plugins
    /\ \A p \in DOMAIN library : Held(p, library[p])
StoreInv ==
    /\ DOMAIN plugins \subseteq Plugins
    /\ \A p \in DOMAIN plugins : plugins[p] \in Grants /\ Shaped(plugins[p])
FormInv ==
    /\ pluginsEditing \in Plugins \cup {None}
    /\ Pl!Shown => pluginsDraft \in Grants /\ Shaped(pluginsDraft)
    /\ pluginsPending \in Channel \cup {None}
CallInv == steps \in Nat /\ pluginsCalls \subseteq PluginCall
GrantsInv == LibraryInv /\ StoreInv /\ FormInv /\ CallInv

\* What the store and the library hold of one plugin.
Agree(p) ==
    /\ p \in DOMAIN plugins <=> p \in DOMAIN library
    /\ p \in DOMAIN plugins => plugins[p] = library[p]
\* A call that has been done left its plugin as it will be answered.
Left(c) ==
    /\ c.what = "remove" => c.plugin \notin DOMAIN library
    /\ c.what # "remove" => c.plugin \in DOMAIN library /\ library[c.plugin] = c.grants
\* The calls about a plugin no two of which were out together: one at most, and until
\* it is done the two hold the same.
Listed(p) ==
    /\ \A c, d \in Pl!About(p) : c = d
    /\ (\A c \in Pl!About(p) : ~c.done) => Agree(p)
    /\ \A c \in Pl!About(p) : c.done => Left(c)
ListInv == \A p \in Plugins \ pluginsCrossed : Listed(p)

-----------------------------------------------------------------------------
(* grants.ts: each toggle gives a draft of the same shape.                 *)

LEMMA NothingHeld ==
    ASSUME NEW p PROVE Held(p, Pl!Nothing)
BY DEF Held, Pl!Nothing, Grants, Shaped, Pl!unscoped, Pl!reachesAnyChannel, Pl!Within, Pl!NEEDS_CHANNELS

LEMMA PermissionToggled ==
    ASSUME NEW g \in Grants, Shaped(g), NEW p \in Permission
    PROVE  Pl!togglePermission(g, p) \in Grants /\ Shaped(Pl!togglePermission(g, p))
<1>1. CASE p \notin g.permissions
    BY <1>1 DEF Pl!togglePermission, Grants, Shaped
<1>2. CASE p \in g.permissions
    <2> DEFINE t == Pl!togglePermission(g, p)
    <2>1. /\ t.permissions = g.permissions \ {p}
          /\ t.channels = IF p = "access-channels" THEN {} ELSE g.channels
          /\ t.hosts = IF p = "network-requests" THEN {} ELSE g.hosts
        BY <1>2 DEF Pl!togglePermission
    <2>2. t \in Grants
        BY <1>2 DEF Pl!togglePermission, Grants
    <2>3. Shaped(t)
        BY <2>1 DEF Shaped
    <2> QED BY <2>2, <2>3
<1> QED BY <1>1, <1>2

LEMMA ChannelToggled ==
    ASSUME NEW g \in Grants, Shaped(g), NEW c \in Channel, "access-channels" \in g.permissions
    PROVE  Pl!toggleChannel(g, c) \in Grants /\ Shaped(Pl!toggleChannel(g, c))
<1> DEFINE t == Pl!toggleChannel(g, c)
           next == IF c \in g.channels THEN g.channels \ {c}
                   ELSE IF c = Every THEN {Every} ELSE (g.channels \ {Every}) \cup {c}
<1>1. t.permissions = g.permissions /\ t.channels = next /\ t.hosts = g.hosts
    BY DEF Pl!toggleChannel, Grants
<1>2. next \in SUBSET Channel
    BY DEF Grants, Channel
<1>3. t \in Grants
    BY <1>2 DEF Pl!toggleChannel, Grants
<1>4. Every \in next => next = {Every}
    BY DEF Shaped
<1> QED BY <1>1, <1>3, <1>4 DEF Shaped

LEMMA HostToggled ==
    ASSUME NEW g \in Grants, Shaped(g), NEW h \in Host, "network-requests" \in g.permissions
    PROVE  Pl!toggleHost(g, h) \in Grants /\ Shaped(Pl!toggleHost(g, h))
<1> DEFINE t == Pl!toggleHost(g, h)
<1>1. t \in Grants
    BY DEF Pl!toggleHost, Grants
<1>2. t.permissions = g.permissions /\ t.channels = g.channels
    BY DEF Pl!toggleHost, Grants
<1> QED BY <1>1, <1>2 DEF Shaped

-----------------------------------------------------------------------------
(* The invariant.                                                          *)

LEMMA GrantsInit == ASSUME Pl!PluginsAssumption, Pl!Init PROVE GrantsInv /\ ListInv
<1>1. PICK ours \in SUBSET Plugins : library = [p \in ours |-> Pl!Nothing]
    BY DEF Pl!Init
<1>2. Pl!Nothing \in Grants /\ Shaped(Pl!Nothing)
    BY NothingHeld DEF Held
<1>3. LibraryInv /\ StoreInv
    BY <1>1, <1>2, NothingHeld DEF Pl!Init, LibraryInv, StoreInv
<1>4. FormInv
    BY <1>3 DEF Pl!Init, FormInv, Pl!Shown, StoreInv, Pl!PluginsAssumption
<1>5. ListInv
    BY DEF Pl!Init, ListInv, Listed, Agree, Pl!About
<1> QED BY <1>3, <1>4, <1>5 DEF Pl!Init, GrantsInv, CallInv

\* The library: what a call that is done does to it.
LEMMA LibraryKept == ASSUME GrantsInv, [Pl!Next]_(Pl!vars) PROVE LibraryInv'
<1> USE DEF GrantsInv, LibraryInv
<1>1. CASE \E c \in pluginsCalls : Pl!Installed(c)
    <2>1. PICK c \in pluginsCalls : Pl!Installed(c)
        BY <1>1
    <2>2. c.plugin \in Plugins
        BY DEF CallInv, PluginCall
    <2> QED BY <2>1, <2>2, NothingHeld DEF Pl!With, Pl!Installed
<1>2. CASE \E c \in pluginsCalls : Pl!Removed(c)
    BY <1>2 DEF Pl!Without, Pl!Removed
<1>3. CASE \E c \in pluginsCalls : Pl!Granted(c)
    <2>1. PICK c \in pluginsCalls : Pl!Granted(c)
        BY <1>3
    <2>2. c.plugin \in Plugins /\ Held(c.plugin, c.grants)
        BY <2>1 DEF Pl!Granted, Held, CallInv, PluginCall
    <2> QED BY <2>1, <2>2 DEF Pl!With, Pl!Granted
<1>4. CASE UNCHANGED library
    BY <1>4
<1> QED
    BY <1>1, <1>2, <1>3, <1>4
    DEF Pl!Next, Pl!vars, Pl!install, Pl!Keep, Pl!remove, Pl!Leave, Pl!AddName, Pl!save, Pl!Back, Pl!permissions,
        Pl!AskRemove, Pl!Picked, Pl!Answered, Pl!Failed, Pl!TickPermission, Pl!TickChannel, Pl!TickHost,
        Pl!TypeName, Pl!Drafts

\* The store's list: what a call is answered with.
LEMMA StoreKept == ASSUME GrantsInv, [Pl!Next]_(Pl!vars) PROVE StoreInv'
<1> USE DEF GrantsInv, StoreInv
<1>1. CASE \E c \in pluginsCalls : Pl!Answered(c)
    <2>1. PICK c \in pluginsCalls : Pl!Answered(c)
        BY <1>1
    <2>2. c.plugin \in Plugins /\ c.grants \in Grants /\ Shaped(c.grants)
        BY DEF CallInv, PluginCall
    <2> QED BY <2>1, <2>2 DEF Pl!With, Pl!Without, Pl!Answered, Pl!Lists
<1>2. CASE UNCHANGED plugins
    BY <1>2
<1> QED
    BY <1>1, <1>2
    DEF Pl!Next, Pl!vars, Pl!install, Pl!Keep, Pl!remove, Pl!Leave, Pl!AddName, Pl!save, Pl!Back, Pl!permissions,
        Pl!AskRemove, Pl!Picked, Pl!Installed, Pl!Removed, Pl!Granted, Pl!Failed, Pl!TickPermission,
        Pl!TickChannel, Pl!TickHost, Pl!TypeName, Pl!Drafts

\* The form that comes up, goes, or stays as its plugin does.
LEMMA FormDrawn ==
    ASSUME GrantsInv, StoreInv', NEW p \in Plugins \cup {None}, Pl!Draws(p, plugins')
    PROVE  FormInv'
<1>1. pluginsEditing' = p /\ pluginsPending' \in Channel \cup {None}
    BY DEF Pl!Draws, GrantsInv, FormInv
<1>2. p \in DOMAIN plugins' => pluginsDraft' \in Grants /\ Shaped(pluginsDraft')
    BY DEF Pl!Draws, GrantsInv, FormInv, StoreInv
<1> QED BY <1>1, <1>2 DEF FormInv, Pl!Shown

\* The form: what is ticked and typed, and the draft a form starts from.
LEMMA FormKept == ASSUME Pl!PluginsAssumption, GrantsInv, [Pl!Next]_(Pl!vars) PROVE FormInv'
<1>0. StoreInv' /\ StoreInv /\ FormInv
    BY StoreKept DEF GrantsInv
<1>1. CASE \E p \in Plugins : Pl!permissions(p)
    BY <1>0, <1>1, FormDrawn DEF Pl!permissions
<1>2. CASE \E c \in pluginsCalls : Pl!Answered(c)
    <2>1. PICK c \in pluginsCalls : Pl!Answered(c)
        BY <1>2
    <2>2. c.plugin \in Plugins
        BY DEF CallInv, PluginCall, GrantsInv
    <2>3. PICK p \in Plugins \cup {None} : Pl!Draws(p, plugins')
        BY <1>0, <2>1, <2>2 DEF Pl!Answered, FormInv
    <2> QED BY <1>0, <2>3, FormDrawn
<1>3. CASE Pl!Back
    BY <1>0, <1>3, FormDrawn DEF Pl!Back
<1>4. CASE \E p \in Permission : Pl!TickPermission(p)
    BY <1>0, <1>4, PermissionToggled DEF Pl!TickPermission, Pl!Drafts, FormInv, Pl!Shown
<1>5. CASE \E c \in Channel : Pl!TickChannel(c)
    BY <1>0, <1>5, ChannelToggled DEF Pl!TickChannel, Pl!Drafts, FormInv, Pl!Shown
<1>6. CASE \E h \in Host : Pl!TickHost(h)
    BY <1>0, <1>6, HostToggled DEF Pl!TickHost, Pl!Drafts, FormInv, Pl!Shown
<1>7. CASE Pl!AddName
    <2>1. pluginsPending \in Channel /\ "access-channels" \in pluginsDraft.permissions /\ Pl!Shown
        BY <1>0, <1>7 DEF Pl!AddName, Pl!Naming, FormInv
    <2>2. /\ pluginsDraft' = Pl!toggleChannel(pluginsDraft, pluginsPending) /\ pluginsPending' = None
          /\ UNCHANGED <<plugins, pluginsEditing>>
        BY <1>7 DEF Pl!AddName
    <2> QED BY <1>0, <2>1, <2>2, ChannelToggled DEF FormInv, Pl!Shown
<1>8. CASE \E c \in Channel : Pl!TypeName(c)
    BY <1>0, <1>8 DEF Pl!TypeName, FormInv, Pl!Shown
<1>9. CASE Pl!Leave
    BY <1>0, <1>9 DEF Pl!Leave, FormInv, Pl!Shown, StoreInv, Pl!PluginsAssumption
<1>10. CASE UNCHANGED <<plugins, pluginsEditing, pluginsDraft, pluginsPending>>
    BY <1>0, <1>10 DEF FormInv, Pl!Shown
<1> QED
    BY <1>1, <1>2, <1>3, <1>4, <1>5, <1>6, <1>7, <1>8, <1>9, <1>10
    DEF Pl!Next, Pl!vars, Pl!form, Pl!install, Pl!Keep, Pl!remove, Pl!save, Pl!AskRemove, Pl!Picked, Pl!Installed,
        Pl!Removed, Pl!Granted, Pl!Failed, Permission, Channel, Host

\* A call that goes out, and one that is done: a save takes the draft as it stands, and
\* only one that reaches what it says.
LEMMA CallSent ==
    ASSUME GrantsInv, NEW what \in {"install", "remove", "save"}, NEW p \in Plugins, NEW here1 \in BOOLEAN,
           NEW g \in Grants, Shaped(g), ~Pl!unscoped(g), what # "save" => g = Pl!Nothing,
           Pl!Counted, Pl!Calls(what, p, g, here1)
    PROVE  /\ CallInv'
           /\ \E c \in PluginCall :
                 /\ c.plugin = p /\ ~c.done /\ pluginsCalls' = pluginsCalls \cup {c}
                 /\ pluginsCrossed' = IF Pl!About(p) # {} THEN pluginsCrossed \cup {p} ELSE pluginsCrossed
<1> DEFINE c == [id |-> steps, what |-> what, plugin |-> p, grants |-> g, here |-> here1, done |-> FALSE]
<1>1. c \in PluginCall /\ c.plugin = p /\ ~c.done
    BY DEF PluginCall, GrantsInv, CallInv
<1>2. /\ pluginsCalls' = pluginsCalls \cup {c} /\ steps' \in Nat
      /\ pluginsCrossed' = IF Pl!About(p) # {} THEN pluginsCrossed \cup {p} ELSE pluginsCrossed
    BY DEF Pl!Calls, Pl!Counted, GrantsInv, CallInv
<1> HIDE DEF c
<1> QED BY <1>1, <1>2 DEF GrantsInv, CallInv

LEMMA CallMade ==
    ASSUME GrantsInv, Pl!remove \/ Pl!save \/ \E p \in Plugins \cup {None} : Pl!Picked(p)
    PROVE  /\ CallInv'
           /\ \/ UNCHANGED <<pluginsCalls, pluginsCrossed>>
              \/ \E c \in PluginCall :
                    /\ ~c.done /\ pluginsCalls' = pluginsCalls \cup {c}
                    /\ pluginsCrossed' = IF Pl!About(c.plugin) # {} THEN pluginsCrossed \cup {c.plugin}
                                         ELSE pluginsCrossed
<1>0. Pl!Nothing \in Grants /\ Shaped(Pl!Nothing) /\ ~Pl!unscoped(Pl!Nothing)
    BY NothingHeld DEF Held
<1>1. CASE Pl!remove
    <2>1. confirming \in Plugins /\ Pl!Counted /\ Pl!Calls("remove", confirming, Pl!Nothing, TRUE)
        BY <1>1 DEF Pl!remove, GrantsInv, StoreInv
    <2> QED BY <1>0, <2>1, CallSent
<1>2. CASE Pl!save
    <2>1. /\ pluginsEditing \in Plugins /\ pluginsDraft \in Grants /\ Shaped(pluginsDraft)
          /\ ~Pl!unscoped(pluginsDraft)
        BY <1>2 DEF Pl!save, Pl!Shown, GrantsInv, FormInv, StoreInv
    <2>2. Pl!Counted /\ Pl!Calls("save", pluginsEditing, pluginsDraft, TRUE)
        BY <1>2 DEF Pl!save
    <2> QED BY <2>1, <2>2, CallSent
<1>3. ASSUME NEW p \in Plugins \cup {None}, Pl!Picked(p)
      PROVE  \/ Pl!Counted /\ UNCHANGED <<pluginsCalls, pluginsCrossed>>
             \/ p \in Plugins /\ Pl!Counted /\ Pl!Calls("install", p, Pl!Nothing, pluginsPicking = "here")
    BY <1>3 DEF Pl!Picked
<1>4. Pl!Counted /\ UNCHANGED <<pluginsCalls, pluginsCrossed>> => CallInv'
    BY DEF GrantsInv, CallInv, Pl!Counted
<1>5. CASE \E p \in Plugins \cup {None} : Pl!Picked(p)
    <2>1. PICK p \in Plugins \cup {None} : Pl!Picked(p)
        BY <1>5
    <2>2. CASE p \in Plugins /\ Pl!Counted /\ Pl!Calls("install", p, Pl!Nothing, pluginsPicking = "here")
        BY <1>0, <2>2, CallSent
    <2> QED BY <1>3, <1>4, <2>1, <2>2
<1> QED BY <1>1, <1>2, <1>5

\* A call done is the call, with what it was for.
LEMMA CallDone ==
    ASSUME NEW c \in PluginCall
    PROVE  LET d == [c EXCEPT !.done = TRUE]
           IN  d \in PluginCall /\ d.done /\ d.plugin = c.plugin /\ d.what = c.what /\ d.grants = c.grants
BY DEF PluginCall

\* A call of a page that was left is the call, no longer the page's.
LEMMA CallLeft ==
    ASSUME NEW c \in PluginCall
    PROVE  LET d == [c EXCEPT !.here = FALSE]
           IN  d \in PluginCall /\ d.done = c.done /\ d.plugin = c.plugin /\ d.what = c.what /\ d.grants = c.grants
BY DEF PluginCall

LEMMA CallKept == ASSUME GrantsInv, [Pl!Next]_(Pl!vars) PROVE CallInv'
<1>0. CallInv
    BY DEF GrantsInv
<1>1. CASE Pl!remove \/ Pl!save \/ \E p \in Plugins \cup {None} : Pl!Picked(p)
    BY <1>1, CallMade
<1>2. CASE Pl!Leave
    BY <1>0, <1>2, CallLeft DEF Pl!Leave, Pl!Counted, CallInv
<1>3. CASE \E c \in pluginsCalls : Pl!Installed(c) \/ Pl!Removed(c) \/ Pl!Granted(c)
    BY <1>0, <1>3, CallDone DEF Pl!Installed, Pl!Removed, Pl!Granted, Pl!Does, CallInv
<1>4. CASE pluginsCalls' \subseteq pluginsCalls /\ (steps' = steps \/ Pl!Counted)
    BY <1>0, <1>4 DEF CallInv, Pl!Counted
<1> QED
    BY <1>1, <1>2, <1>3, <1>4
    DEF Pl!Next, Pl!vars, Pl!install, Pl!Keep, Pl!AddName, Pl!Back, Pl!permissions, Pl!AskRemove, Pl!Answered,
        Pl!Failed, Pl!TickPermission, Pl!TickChannel, Pl!TickHost, Pl!TypeName, Pl!Drafts

\* What a plugin is listed as depends on the calls about it and on what is held of it.
LEMMA ListedAs ==
    ASSUME NEW p, Listed(p), UNCHANGED <<library, plugins>>, Pl!About(p)' = Pl!About(p)
    PROVE  Listed(p)'
BY DEF Listed, Agree, Left

\* A call goes out: alone about its plugin, or not to be answered for.
LEMMA ListMade ==
    ASSUME ListInv, NEW c \in PluginCall, ~c.done, pluginsCalls' = pluginsCalls \cup {c},
           pluginsCrossed' = IF Pl!About(c.plugin) # {} THEN pluginsCrossed \cup {c.plugin} ELSE pluginsCrossed,
           UNCHANGED <<library, plugins>>
    PROVE  ListInv'
<1> SUFFICES ASSUME NEW p \in Plugins, p \notin pluginsCrossed' PROVE Listed(p)'
    BY DEF ListInv
<1>1. p \notin pluginsCrossed /\ Listed(p)
    BY DEF ListInv
<1>2. CASE c.plugin = p
    <2>1. Pl!About(p) = {}
        BY <1>2
    <2>2. Pl!About(p)' = {c}
        BY <1>2, <2>1 DEF Pl!About
    <2>3. Agree(p)'
        BY <1>1, <2>1 DEF Listed, Agree
    <2> QED BY <2>2, <2>3 DEF Listed
<1>3. CASE c.plugin # p
    <2>1. Pl!About(p)' = Pl!About(p)
        BY <1>3 DEF Pl!About
    <2> QED BY <1>1, <2>1, ListedAs
<1> QED BY <1>2, <1>3

\* A call is done: alone about its plugin, it leaves it as it says.
LEMMA ListDone ==
    ASSUME GrantsInv, ListInv, NEW c \in pluginsCalls, Pl!Installed(c) \/ Pl!Removed(c) \/ Pl!Granted(c)
    PROVE  ListInv'
<1> DEFINE d == [c EXCEPT !.done = TRUE]
<1>0. c \in PluginCall
    BY DEF GrantsInv, CallInv
<1>1. d.done /\ d.plugin = c.plugin /\ d.what = c.what /\ d.grants = c.grants
    BY <1>0, CallDone
<1>2. /\ pluginsCalls' = (pluginsCalls \ {c}) \cup {d} /\ plugins' = plugins
      /\ pluginsCrossed' = IF Pl!About(c.plugin) = {c} THEN pluginsCrossed \ {c.plugin} ELSE pluginsCrossed
    BY DEF Pl!Installed, Pl!Removed, Pl!Granted, Pl!Does
<1>3. \/ c.what # "remove" /\ library' = Pl!With(library, c.plugin, c.grants)
      \/ c.what = "remove" /\ library' = Pl!Without(library, c.plugin)
    BY <1>0 DEF Pl!Installed, Pl!Removed, Pl!Granted, PluginCall
<1> HIDE DEF d
<1> SUFFICES ASSUME NEW p \in Plugins, p \notin pluginsCrossed' PROVE Listed(p)'
    BY DEF ListInv
<1>4. CASE c.plugin = p
    <2>1. Pl!About(p) = {c}
        BY <1>2, <1>4 DEF ListInv, Listed, Pl!About
    <2>2. Pl!About(p)' = {d}
        BY <1>1, <1>2, <1>4, <2>1 DEF Pl!About
    <2>3. Left(d)'
        BY <1>1, <1>3 DEF Pl!With, Pl!Without, Left
    <2> QED BY <1>1, <2>2, <2>3 DEF Listed
<1>5. CASE c.plugin # p
    <2>1. Pl!About(p)' = Pl!About(p)
        BY <1>1, <1>2, <1>5 DEF Pl!About
    <2>2. Listed(p) /\ \A e \in Pl!About(p) : e.plugin = p
        BY <1>2, <1>5 DEF ListInv, Pl!About
    <2>3. p \in DOMAIN library' <=> p \in DOMAIN library
        BY <1>3, <1>5 DEF Pl!With, Pl!Without
    <2>4. p \in DOMAIN library => library'[p] = library[p]
        BY <1>3, <1>5 DEF Pl!With, Pl!Without
    <2>5. Agree(p) => Agree(p)'
        BY <1>2, <2>3, <2>4 DEF Agree
    <2>6. \A e \in Pl!About(p) : Left(e) => Left(e)'
        BY <2>2, <2>3, <2>4 DEF Left
    <2> QED BY <2>1, <2>2, <2>5, <2>6 DEF Listed
<1> QED BY <1>4, <1>5

\* A call is answered, or fails: alone about its plugin, it leaves the two the same.
LEMMA ListAnswered ==
    ASSUME GrantsInv, ListInv, NEW c \in pluginsCalls, Pl!Answered(c) \/ Pl!Failed(c)
    PROVE  ListInv'
<1>0. c \in PluginCall
    BY DEF GrantsInv, CallInv
<1>1. pluginsCalls' = pluginsCalls \ {c} /\ UNCHANGED <<library, pluginsCrossed>>
    BY DEF Pl!Answered, Pl!Failed
<1>2. \/ ~c.done /\ plugins' = plugins
      \/ c.done /\ c.what # "remove" /\ plugins' = Pl!With(plugins, c.plugin, c.grants)
      \/ c.done /\ c.what = "remove" /\ plugins' = Pl!Without(plugins, c.plugin)
    BY DEF Pl!Answered, Pl!Failed, Pl!Lists
<1> SUFFICES ASSUME NEW p \in Plugins, p \notin pluginsCrossed PROVE Listed(p)'
    BY <1>1 DEF ListInv
<1>3. Listed(p)
    BY DEF ListInv
<1>4. CASE c.plugin = p
    <2>1. Pl!About(p) = {c}
        BY <1>3, <1>4 DEF Listed, Pl!About
    <2>2. Pl!About(p)' = {}
        BY <1>1, <2>1 DEF Pl!About
    <2>3. c.done => Left(c)
        BY <1>3, <2>1 DEF Listed
    <2>4. ~c.done => Agree(p)
        BY <1>3, <2>1 DEF Listed
    <2>5. Agree(p)'
        BY <1>1, <1>2, <1>4, <2>3, <2>4 DEF Pl!With, Pl!Without, Agree, Left
    <2> QED BY <2>2, <2>5 DEF Listed
<1>5. CASE c.plugin # p
    <2>1. Pl!About(p)' = Pl!About(p)
        BY <1>1, <1>5 DEF Pl!About
    <2>2. p \in DOMAIN plugins' <=> p \in DOMAIN plugins
        BY <1>2, <1>5 DEF Pl!With, Pl!Without
    <2>3. p \in DOMAIN plugins => plugins'[p] = plugins[p]
        BY <1>2, <1>5 DEF Pl!With, Pl!Without
    <2>4. Agree(p) => Agree(p)'
        BY <1>1, <2>2, <2>3 DEF Agree
    <2> QED BY <1>1, <1>3, <2>1, <2>4 DEF Listed, Left
<1> QED BY <1>4, <1>5

\* The page is left: its calls go on, about the plugins they were about.
LEMMA ListLeft == ASSUME GrantsInv, ListInv, Pl!Leave PROVE ListInv'
<1> DEFINE Now(c) == [c EXCEPT !.here = FALSE]
<1>1. pluginsCalls' = {Now(c) : c \in pluginsCalls} /\ UNCHANGED <<library, plugins, pluginsCrossed>>
    BY DEF Pl!Leave
<1>2. \A c \in pluginsCalls : /\ Now(c).done = c.done /\ Now(c).plugin = c.plugin
                              /\ Now(c).what = c.what /\ Now(c).grants = c.grants
    BY CallLeft DEF GrantsInv, CallInv
<1> HIDE DEF Now
<1> SUFFICES ASSUME NEW p \in Plugins, p \notin pluginsCrossed PROVE Listed(p)'
    BY <1>1 DEF ListInv
<1>3. Listed(p)
    BY DEF ListInv
<1>4. Pl!About(p)' = {Now(c) : c \in Pl!About(p)} /\ Pl!About(p) \subseteq pluginsCalls
    BY <1>1, <1>2 DEF Pl!About
<1>5. Agree(p) => Agree(p)'
    BY <1>1 DEF Agree
<1>6. \A c \in Pl!About(p) : Left(c) => Left(Now(c))'
    BY <1>1, <1>2, <1>4 DEF Left
<1>7. \A c \in Pl!About(p) : Now(c).done = c.done
    BY <1>2, <1>4
<1> QED BY <1>3, <1>4, <1>5, <1>6, <1>7 DEF Listed

LEMMA ListKept == ASSUME GrantsInv, ListInv, [Pl!Next]_(Pl!vars) PROVE ListInv'
<1>1. CASE Pl!remove \/ Pl!save \/ \E p \in Plugins \cup {None} : Pl!Picked(p)
    <2>1. UNCHANGED <<library, plugins>>
        BY <1>1 DEF Pl!remove, Pl!save, Pl!Picked
    <2>2. CASE UNCHANGED <<pluginsCalls, pluginsCrossed>>
        BY <2>1, <2>2, ListedAs DEF ListInv, Pl!About
    <2>3. CASE \E c \in PluginCall :
                  /\ ~c.done /\ pluginsCalls' = pluginsCalls \cup {c}
                  /\ pluginsCrossed' = IF Pl!About(c.plugin) # {} THEN pluginsCrossed \cup {c.plugin}
                                       ELSE pluginsCrossed
        BY <2>1, <2>3, ListMade
    <2> QED BY <1>1, <2>2, <2>3, CallMade
<1>2. CASE Pl!Leave
    BY <1>2, ListLeft
<1>3. CASE \E c \in pluginsCalls : Pl!Installed(c) \/ Pl!Removed(c) \/ Pl!Granted(c)
    BY <1>3, ListDone
<1>4. CASE \E c \in pluginsCalls : Pl!Answered(c) \/ Pl!Failed(c)
    BY <1>4, ListAnswered
<1>5. CASE UNCHANGED <<library, plugins, pluginsCalls, pluginsCrossed>>
    BY <1>5, ListedAs DEF ListInv, Pl!About
<1> QED
    BY <1>1, <1>2, <1>3, <1>4, <1>5
    DEF Pl!Next, Pl!vars, Pl!install, Pl!Keep, Pl!AddName, Pl!Back, Pl!permissions, Pl!AskRemove,
        Pl!TickPermission, Pl!TickChannel, Pl!TickHost, Pl!TypeName, Pl!Drafts

LEMMA GrantsInductive == ASSUME Pl!PluginsAssumption PROVE Pl!Spec => [](GrantsInv /\ ListInv)
<1>1. Pl!Init => GrantsInv /\ ListInv
    BY GrantsInit
<1>2. GrantsInv /\ ListInv /\ [Pl!Next]_(Pl!vars) => (GrantsInv /\ ListInv)'
    BY LibraryKept, StoreKept, FormKept, CallKept, ListKept DEF GrantsInv
<1> QED BY <1>1, <1>2, PTL DEF Pl!Spec

-----------------------------------------------------------------------------
\* What a plugin holds is no more than it asked for and says what it reaches,
\* for any plugins and manifests, however the form was filled in
\* (components/plugins/grants.ts, components/settings/plugins).
THEOREM GrantsCorrect == ASSUME Pl!PluginsAssumption PROVE Pl!Spec => []Pl!GrantsReadTrue
<1>1. GrantsInv => Pl!GrantsReadTrue
    BY DEF GrantsInv, LibraryInv, Held, Shaped, Pl!GrantsReadTrue
<1> QED BY <1>1, GrantsInductive, PTL

\* A plugin nothing is out about is listed as the library holds it, for any plugins,
\* whatever calls about it were done, answered, failed or left behind one at a time,
\* and once a call alone has put it right where two of them crossed (PluginsPage.tsx).
THEOREM ListCorrect == ASSUME Pl!PluginsAssumption PROVE Pl!Spec => []Pl!ListIsLibrary
<1>1. ListInv => Pl!ListIsLibrary
    BY DEF ListInv, Listed, Agree, Pl!ListIsLibrary
<1> QED BY <1>1, GrantsInductive, PTL

-----------------------------------------------------------------------------
(* The provider, its secret and the ports (ProviderForm).                  *)

Drafts == [endpoint : BOOLEAN, kind : Fo!Kinds, named : BOOLEAN, key : BOOLEAN, form : BOOLEAN,
           field : BOOLEAN, token : BOOLEAN]
\* What a request carries: what the kind needs, and the secret that is given, kept or
\* cleared.
ProviderCall ==
    {c \in [id : Nat, what : {"save", "remove"}, wanted : Fo!Kinds \cup {None}, kind : Fo!Kinds \cup {None},
            token : {"clear", "given", "kept"}, claim : Fo!Kinds \cup {None}, alone : BOOLEAN,
            wrote : BOOLEAN] :
        /\ c.what = "save" => c.wanted \in {None, c.kind} /\ (c.token = "clear" <=> c.wanted = None)
        /\ c.what = "remove" => c.token = "clear" /\ c.wanted = None}
FormType ==
    /\ row \in Fo!Kinds \cup {"open", None} /\ providerKeyring \in Fo!Kinds \cup {None}
    /\ savedKind \in Fo!Kinds \cup {None}
    /\ providerDraft # None => providerDraft \in Drafts
    /\ providerSaves \in Nat /\ providerCalls \subseteq ProviderCall

\* The requests that are out: one that is alone has none beside it, and while nothing
\* has gone wrong the only one is the page's.
RequestInv ==
    /\ \A c \in providerCalls : c.id < providerSaves
    /\ \A c, d \in providerCalls : c.id = d.id => c = d
    /\ saving # None => saving \in Nat /\ saving < providerSaves
    /\ \A c \in providerCalls : c.alone => providerCalls = {c}
    /\ ~halfway => \A c \in providerCalls : c.alone
    /\ ~early => \A c \in providerCalls : c.id = saving

\* The secret the provider needs; until a request has written one of the two stores it
\* is the one the keyring holds.
Need == IF row \in Fo!Kinds THEN row ELSE None
Unwritten == \A c \in providerCalls : ~c.wrote
SecretInv ==
    /\ \A c \in providerCalls : c.alone /\ c.wrote =>
        /\ c.what = "remove" => row = None
        /\ c.what = "save" /\ c.token # "kept" => providerKeyring = c.wanted
    /\ ~halfway =>
        /\ Unwritten => providerKeyring = Need
        /\ \A c \in providerCalls : c.wrote /\ c.what = "save" => providerKeyring = c.wanted
\* What the page says of it, and what the page's request claims.
SaidInv ==
    ~halfway /\ ~early /\ providerDraft # None =>
        /\ Unwritten => savedKind = Need
        /\ \A c \in providerCalls :
            /\ c.claim = savedKind
            /\ c.wrote /\ c.what = "save" /\ c.token = "kept" => c.claim = c.wanted
FormInvariant == FormType /\ RequestInv /\ SecretInv /\ SaidInv

LEMMA DraftsAreDrafts == Fo!EMPTY \in Drafts /\ Fo!CATBOX \in Drafts
BY DEF Fo!EMPTY, Fo!CATBOX, Drafts, Fo!Kinds

\* A request with a flag of it set is the request.
LEMMA RequestFlagged ==
    ASSUME NEW c \in ProviderCall
    PROVE  /\ LET d == [c EXCEPT !.wrote = TRUE]
              IN  /\ d \in ProviderCall /\ d.wrote /\ d.alone = c.alone /\ d.id = c.id /\ d.what = c.what
                  /\ d.wanted = c.wanted /\ d.kind = c.kind /\ d.token = c.token /\ d.claim = c.claim
           /\ LET d == [c EXCEPT !.alone = FALSE]
              IN  d \in ProviderCall /\ ~d.alone /\ d.wrote = c.wrote /\ d.id = c.id
BY DEF ProviderCall

\* What the page reads of a provider is a draft of it.
LEMMA ProviderOpened ==
    ASSUME Fo!FormAssumption, FormInvariant, Fo!Open \/ Fo!OpenFails PROVE FormInvariant'
<1>0. None \notin Fo!Kinds
    BY DEF Fo!FormAssumption, Fo!Kinds
<1>1. /\ saving' = None /\ early' = (providerCalls # {})
      /\ UNCHANGED <<row, providerKeyring, providerCalls, halfway, providerSaves>>
    BY DEF Fo!Open, Fo!OpenFails, Fo!Opens, Fo!backend
<1>2. \/ savedKind' = Fo!savedFor /\ providerDraft' \in Drafts
      \/ savedKind' = None /\ providerDraft' = None
    <2>1. CASE Fo!Open
        <3>1. CASE row = None
            BY <2>1, <3>1, DraftsAreDrafts DEF Fo!Open
        <3>2. CASE row # None
            BY <2>1, <3>2 DEF Fo!Open, Fo!EMPTY, Drafts, Fo!Kinds
        <3> QED BY <3>1, <3>2
    <2>2. CASE Fo!OpenFails
        BY <2>2 DEF Fo!OpenFails
    <2> QED BY <2>1, <2>2
<1>3. FormType'
    BY <1>1, <1>2 DEF FormInvariant, FormType, Fo!savedFor
<1>4. RequestInv' /\ SecretInv'
    BY <1>1 DEF FormInvariant, RequestInv, SecretInv, Need, Unwritten
<1>5. providerCalls = {} /\ ~halfway => Fo!savedFor = Need
    BY <1>0 DEF FormInvariant, SecretInv, Unwritten, Need, Fo!savedFor
<1>6. SaidInv'
    BY <1>1, <1>2, <1>5 DEF SaidInv, Unwritten, Need
<1> QED BY <1>3, <1>4, <1>6 DEF FormInvariant

\* The fields are edited, while a save is out or not.
LEMMA ProviderEdited ==
    ASSUME Fo!FormAssumption, FormInvariant,
           \/ \E next \in {"catbox", "custom"} : Fo!chooseSetup(next)
           \/ \E field \in DOMAIN Fo!EMPTY : Fo!Edit(field)
    PROVE FormInvariant'
<1>1. /\ providerDraft # None
      /\ UNCHANGED <<savedKind, row, providerKeyring, saving, providerCalls, halfway, early, providerSaves>>
    BY DEF Fo!chooseSetup, Fo!Edit, Fo!backend, Fo!requests
<1>3. providerDraft' \in Drafts
    <2>1. CASE \E next \in {"catbox", "custom"} : Fo!chooseSetup(next)
        BY <2>1, DraftsAreDrafts DEF Fo!chooseSetup
    <2>2. CASE \E field \in DOMAIN Fo!EMPTY : Fo!Edit(field)
        <3>1. PICK field \in DOMAIN Fo!EMPTY : Fo!Edit(field)
            BY <2>2
        <3>a. field \in {"endpoint", "kind", "named", "key", "form", "field", "token"}
            BY DEF Fo!EMPTY
        <3>2. providerDraft \in Drafts /\ field \in {"endpoint", "kind", "named", "key", "form", "field", "token"}
            BY <1>1, <3>a DEF FormInvariant, FormType
        <3>3. CASE field = "kind"
            <4>1. providerDraft' = [providerDraft EXCEPT !["kind"] = IF providerDraft.kind = "s3" THEN "header" ELSE "s3"]
                BY <3>1, <3>3 DEF Fo!Edit
            <4> QED BY <3>2, <4>1 DEF Drafts, Fo!Kinds
        <3>4. CASE field # "kind"
            <4>1. providerDraft' = [providerDraft EXCEPT ![field] = ~providerDraft[field]]
                BY <3>1, <3>4 DEF Fo!Edit
            <4> QED BY <3>2, <3>4, <4>1 DEF Drafts
        <3> QED BY <3>3, <3>4
    <2> QED BY <2>1, <2>2
<1> QED BY <1>1, <1>3 DEF FormInvariant, FormType, RequestInv, SecretInv, SaidInv, Unwritten, Need

\* What is asked with: what the draft needs and what the page claims of the secret.
LEMMA RequestMade ==
    ASSUME Fo!FormAssumption, FormInvariant, Fo!save \/ Fo!remove
    PROVE  \E c \in ProviderCall :
              /\ c.id = providerSaves /\ c.claim = savedKind /\ c.alone = (providerCalls = {}) /\ ~c.wrote
              /\ providerCalls' = {[d EXCEPT !.alone = FALSE] : d \in providerCalls} \cup {c}
              /\ saving = None /\ saving' = providerSaves /\ providerSaves' = providerSaves + 1
              /\ halfway' = (halfway \/ providerCalls # {})
              /\ UNCHANGED <<row, providerKeyring, savedKind, providerDraft, early>>
<1>1. ASSUME NEW what \in {"save", "remove"}, NEW wanted \in Fo!Kinds \cup {None}, NEW kind \in Fo!Kinds \cup {None},
             NEW token \in {"clear", "given", "kept"}, Fo!Request(what, wanted, kind, token),
             what = "save" => wanted \in {None, kind} /\ (token = "clear" <=> wanted = None),
             what = "remove" => token = "clear" /\ wanted = None
      PROVE  \E c \in ProviderCall :
              /\ c.id = providerSaves /\ c.claim = savedKind /\ c.alone = (providerCalls = {}) /\ ~c.wrote
              /\ providerCalls' = {[d EXCEPT !.alone = FALSE] : d \in providerCalls} \cup {c}
              /\ saving = None /\ saving' = providerSaves /\ providerSaves' = providerSaves + 1
              /\ halfway' = (halfway \/ providerCalls # {})
              /\ UNCHANGED <<row, providerKeyring, savedKind, providerDraft, early>>
    <2> DEFINE c == [id |-> providerSaves, what |-> what, wanted |-> wanted, kind |-> kind, token |-> token,
                     claim |-> savedKind, alone |-> providerCalls = {}, wrote |-> FALSE]
    <2>a. savedKind \in Fo!Kinds \cup {None} /\ providerSaves \in Nat
        BY DEF FormInvariant, FormType
    <2>1. c \in ProviderCall
        BY <1>1, <2>a DEF ProviderCall
    <2>2. c.id = providerSaves /\ c.claim = savedKind /\ c.alone = (providerCalls = {}) /\ ~c.wrote
        OBVIOUS
    <2>3. /\ providerCalls' = {[d EXCEPT !.alone = FALSE] : d \in providerCalls} \cup {c}
          /\ saving = None /\ saving' = providerSaves /\ providerSaves' = providerSaves + 1
          /\ halfway' = (halfway \/ providerCalls # {})
          /\ UNCHANGED <<row, providerKeyring, savedKind, providerDraft, early>>
        BY <1>1 DEF Fo!Request, Fo!Saves, Fo!page, Fo!backend
    <2> HIDE DEF c
    <2> QED BY <2>1, <2>2, <2>3
<1>2. CASE Fo!remove
    BY <1>1, <1>2 DEF Fo!remove
<1>3. CASE Fo!save
    <2>a. providerDraft # None /\ providerDraft \in Drafts
        BY <1>3 DEF Fo!save, FormInvariant, FormType
    <2>1. providerDraft # None /\ providerDraft.kind \in Fo!Kinds
        BY <2>a DEF Drafts
    <2>2. PICK wanted : wanted = Fo!needs(providerDraft.kind, providerDraft.named)
        OBVIOUS
    <2>3. wanted \in {None, providerDraft.kind}
        BY <2>1, <2>2 DEF Fo!needs, Fo!Kinds
    <2>4. PICK token : token = IF wanted = None THEN "clear" ELSE IF providerDraft.token THEN "given" ELSE "kept"
        OBVIOUS
    <2>5. Fo!Request("save", wanted, providerDraft.kind, token)
        BY <1>3, <2>2, <2>4 DEF Fo!save
    <2> QED BY <1>1, <2>1, <2>3, <2>4, <2>5
<1> QED BY <1>2, <1>3

LEMMA SecretSent ==
    ASSUME Fo!FormAssumption, FormInvariant, Fo!save \/ Fo!remove PROVE FormInvariant'
<1> DEFINE Now(d) == [d EXCEPT !.alone = FALSE]
<1>1. PICK c \in ProviderCall :
          /\ c.id = providerSaves /\ c.claim = savedKind /\ c.alone = (providerCalls = {}) /\ ~c.wrote
          /\ providerCalls' = {Now(d) : d \in providerCalls} \cup {c}
          /\ saving = None /\ saving' = providerSaves /\ providerSaves' = providerSaves + 1
          /\ halfway' = (halfway \/ providerCalls # {})
          /\ UNCHANGED <<row, providerKeyring, savedKind, providerDraft, early>>
    BY RequestMade
<1>2. \A d \in providerCalls : Now(d) \in ProviderCall /\ ~Now(d).alone /\ Now(d).id = d.id
    BY RequestFlagged DEF FormInvariant, FormType
<1> HIDE DEF Now
<1>3. FormType'
    BY <1>1, <1>2 DEF FormInvariant, FormType
<1>4. providerSaves \in Nat /\ None \notin Nat
    BY DEF Fo!FormAssumption, FormInvariant, FormType
<1>5. ~early => providerCalls = {}
    BY <1>1, <1>4 DEF FormInvariant, FormType, ProviderCall, RequestInv
<1>6. RequestInv'
    <2>1. \A d \in providerCalls' : d.id < providerSaves'
        BY <1>1, <1>2, <1>4 DEF FormInvariant, FormType, ProviderCall, RequestInv
    <2>2. ASSUME NEW d \in providerCalls', NEW e \in providerCalls', d.id = e.id PROVE d = e
        <3>1. \A x \in providerCalls : x.id < providerSaves /\ x.id \in Nat
            BY DEF FormInvariant, FormType, ProviderCall, RequestInv
        <3>2. \A x, y \in providerCalls : Now(x).id = Now(y).id => x = y
            BY <1>2 DEF FormInvariant, RequestInv
        <3>3. \A x \in providerCalls : Now(x).id # c.id
            BY <1>1, <1>2, <1>4, <3>1
        <3> QED BY <1>1, <2>2, <3>2, <3>3
    <2>3. saving' \in Nat /\ saving' < providerSaves'
        BY <1>1, <1>4
    <2>4. \A d \in providerCalls' : d.alone => providerCalls' = {d}
        BY <1>1, <1>2
    <2>5. ~halfway' => \A d \in providerCalls' : d.alone
        BY <1>1
    <2>6. ~early' => \A d \in providerCalls' : d.id = saving'
        BY <1>1, <1>5
    <2> QED BY <2>1, <2>2, <2>3, <2>4, <2>5, <2>6 DEF RequestInv
<1>7. SecretInv'
    <2>1. \A d \in providerCalls' : ~(d.alone /\ d.wrote)
        BY <1>1, <1>2
    <2>2. ~halfway' => providerCalls = {} /\ ~halfway /\ providerCalls' = {c}
        BY <1>1
    <2>3. ~halfway' => providerKeyring' = Need'
        BY <1>1, <2>2 DEF FormInvariant, SecretInv, Unwritten, Need
    <2>4. ~halfway' => \A d \in providerCalls' : ~d.wrote
        BY <1>1, <2>2
    <2> QED BY <2>1, <2>3, <2>4 DEF SecretInv
<1>8. SaidInv'
    <2>1. ~halfway' => providerCalls = {} /\ ~halfway /\ providerCalls' = {c}
        BY <1>1
    <2>2. ~halfway' /\ ~early' /\ providerDraft' # None => savedKind' = Need'
        BY <1>1, <2>1 DEF FormInvariant, SaidInv, Unwritten, Need
    <2> QED BY <1>1, <2>1, <2>2 DEF SaidInv
<1> QED BY <1>3, <1>6, <1>7, <1>8 DEF FormInvariant

\* The first of the two stores is written.
LEMMA SecretWritten ==
    ASSUME Fo!FormAssumption, FormInvariant, NEW c \in providerCalls, Fo!Written(c) PROVE FormInvariant'
<1> DEFINE d == [c EXCEPT !.wrote = TRUE]
<1>0. c \in ProviderCall /\ None \notin Fo!Kinds
    BY DEF FormInvariant, FormType, Fo!FormAssumption, Fo!Kinds
<1>1. /\ d \in ProviderCall /\ d.wrote /\ d.alone = c.alone /\ d.id = c.id /\ d.what = c.what
      /\ d.wanted = c.wanted /\ d.kind = c.kind /\ d.token = c.token /\ d.claim = c.claim
    BY <1>0, RequestFlagged
<1>2. /\ ~c.wrote /\ ~Fo!refuse_save(c) /\ providerCalls' = (providerCalls \ {c}) \cup {d}
      /\ c.what = "save" => providerKeyring' = Fo!Secret(c) /\ row' = row
      /\ c.what = "remove" => row' = None /\ providerKeyring' = providerKeyring
      /\ UNCHANGED <<providerDraft, savedKind, saving, halfway, early, providerSaves>>
    BY DEF Fo!Written, Fo!page
<1> HIDE DEF d
<1>3. Fo!Secret(c) = IF c.token = "given" THEN c.wanted ELSE IF c.token = "clear" THEN None ELSE providerKeyring
    BY <1>0 DEF Fo!Secret, ProviderCall
<1>4. c.what = "save" /\ c.token = "clear" => c.wanted = None
    BY <1>0 DEF ProviderCall
<1>5. c.what \in {"save", "remove"} /\ c.token \in {"clear", "given", "kept"} /\ c.wanted \in Fo!Kinds \cup {None}
    BY <1>0 DEF ProviderCall
<1>6. FormType'
    BY <1>1, <1>2, <1>3, <1>5 DEF FormInvariant, FormType
<1>7. RequestInv'
    BY <1>1, <1>2 DEF FormInvariant, RequestInv
<1>8. c.alone => providerCalls = {c} /\ providerCalls' = {d}
    BY <1>1, <1>2 DEF FormInvariant, RequestInv
<1>a. ~c.alone => halfway
    BY DEF FormInvariant, RequestInv
<1>b. ~c.alone => \A e \in providerCalls : ~e.alone
    BY DEF FormInvariant, RequestInv
<1>9. ~c.alone => halfway /\ \A e \in providerCalls' : ~e.alone
    BY <1>1, <1>2, <1>a, <1>b
\* A secret that is kept was the one the provider needs.
<1>10. ~halfway /\ c.what = "save" /\ c.token = "kept" =>
           providerKeyring' = c.wanted /\ Need = c.wanted
    <2>1. ~halfway => c.alone
        BY <1>9
    <2>2. ~halfway => providerKeyring = Need
        BY <1>2, <1>8, <2>1 DEF FormInvariant, SecretInv, Unwritten
    <2>3. c.what = "save" /\ c.token = "kept" => Fo!savedFor = c.wanted /\ c.wanted # None
        BY <1>0, <1>2 DEF Fo!refuse_save, ProviderCall
    <2> QED BY <1>2, <1>3, <2>2, <2>3 DEF Fo!savedFor, Need
<1>11. SecretInv'
    <2>1. CASE c.alone
        <3>1. ~Unwritten'
            BY <1>1, <1>8, <2>1 DEF Unwritten
        <3>2. d.what = "remove" => row' = None
            BY <1>1, <1>2
        <3>3. d.what = "save" /\ (d.token # "kept" \/ ~halfway) => providerKeyring' = d.wanted
            BY <1>1, <1>2, <1>3, <1>4, <1>5, <1>10
        <3> QED BY <1>2, <1>8, <2>1, <3>1, <3>2, <3>3 DEF SecretInv
    <2>2. CASE ~c.alone
        BY <1>2, <1>9, <2>2 DEF SecretInv
    <2> QED BY <2>1, <2>2
<1>12. SaidInv'
    <2> SUFFICES ASSUME ~halfway, ~early, providerDraft # None
                 PROVE  /\ Unwritten' => savedKind' = Need'
                        /\ \A e \in providerCalls' :
                            /\ e.claim = savedKind'
                            /\ e.wrote /\ e.what = "save" /\ e.token = "kept" => e.claim = e.wanted
        BY <1>2 DEF SaidInv
    <2>1. providerCalls = {c} /\ providerCalls' = {d}
        BY <1>8, <1>9
    <2>2. c.claim = savedKind /\ savedKind = Need
        BY <1>2, <2>1 DEF FormInvariant, SaidInv, Unwritten
    <2>3. ~Unwritten'
        BY <1>1, <2>1 DEF Unwritten
    <2> QED BY <1>1, <1>2, <1>10, <2>1, <2>2, <2>3
<1> QED BY <1>6, <1>7, <1>11, <1>12 DEF FormInvariant

\* A request that ended leaves those beside it as they were.
LEMMA RequestsLeft ==
    ASSUME FormInvariant, NEW c \in providerCalls, providerCalls' = providerCalls \ {c},
           saving' = (IF saving = c.id THEN None ELSE saving), Fo!FormAssumption,
           providerSaves' = providerSaves,
           ~halfway' => ~halfway \/ c.alone, ~early' => ~early \/ c.alone
    PROVE  RequestInv' /\ providerCalls' \subseteq ProviderCall
<1>1. c \in ProviderCall /\ None \notin Nat
    BY DEF FormInvariant, FormType, Fo!FormAssumption
<1>2. c.alone => providerCalls' = {}
    BY DEF FormInvariant, RequestInv
<1>3. ~early /\ providerCalls' # {} => saving' = saving
    BY <1>1 DEF FormInvariant, RequestInv
<1>4. \A d \in providerCalls' : d.alone => providerCalls' = {d}
    BY DEF FormInvariant, RequestInv
<1>5. ~halfway' => \A d \in providerCalls' : d.alone
    BY <1>2 DEF FormInvariant, RequestInv
<1>6. ~early' => \A d \in providerCalls' : d.id = saving'
    BY <1>2, <1>3 DEF FormInvariant, RequestInv
<1>7. saving' # None => saving' \in Nat /\ saving' < providerSaves'
    BY DEF FormInvariant, RequestInv
<1> QED BY <1>4, <1>5, <1>6, <1>7 DEF FormInvariant, FormType, RequestInv

\* Both stores are written: the secret that is kept is the one the provider needs, and
\* the page says so.
LEMMA SecretSaved ==
    ASSUME Fo!FormAssumption, FormInvariant, NEW c \in providerCalls, Fo!Saved(c) PROVE FormInvariant'
<1>0. c \in ProviderCall /\ None \notin Fo!Kinds /\ "open" \notin Fo!Kinds /\ None # "open"
    BY DEF FormInvariant, FormType, Fo!FormAssumption, Fo!Kinds
<1>1. /\ c.what = "save" /\ c.wrote /\ providerCalls' = providerCalls \ {c} /\ row' = Fo!Row(c.wanted)
      /\ saving' = (IF saving = c.id THEN None ELSE saving)
      /\ halfway' = (halfway /\ ~Fo!Mends(c)) /\ early' = (early /\ ~Fo!Mends(c))
      /\ UNCHANGED <<providerDraft, providerKeyring, providerSaves>>
    BY DEF Fo!Saved, Fo!Ends
<1>2. saving # c.id => savedKind' = savedKind
    BY DEF Fo!Saved
<1>3. saving = c.id => savedKind' = IF c.token = "clear" THEN None ELSE IF c.token = "given" THEN c.kind ELSE c.claim
    BY <1>0 DEF Fo!Saved, ProviderCall
<1>4. /\ c.wanted \in {None, c.kind} /\ (c.token = "clear" <=> c.wanted = None)
      /\ c.token \in {"clear", "given", "kept"} /\ {c.kind, c.claim, c.wanted} \subseteq Fo!Kinds \cup {None}
    BY <1>0, <1>1 DEF ProviderCall
<1>5. RequestInv' /\ providerCalls' \subseteq ProviderCall
    BY <1>1, RequestsLeft DEF Fo!Mends
<1>a. row' \in Fo!Kinds \cup {"open", None}
    BY <1>1, <1>4 DEF Fo!Row
<1>b. savedKind' \in Fo!Kinds \cup {None}
    BY <1>2, <1>3, <1>4 DEF FormInvariant, FormType
<1>6. FormType'
    BY <1>1, <1>5, <1>a, <1>b DEF FormInvariant, FormType
<1>7. Need' = c.wanted
    BY <1>0, <1>1, <1>4 DEF Need, Fo!Row
<1>8. ~halfway' \/ c.alone => providerCalls' = {}
    BY <1>1 DEF FormInvariant, RequestInv, Fo!Mends
<1>9. ~halfway' => providerKeyring' = c.wanted
    BY <1>1 DEF FormInvariant, SecretInv, Fo!Mends
<1>10. SecretInv'
    <2>1. CASE halfway' /\ ~c.alone
        <3>1. \A d \in providerCalls' : ~d.alone
            BY <1>1, <2>1 DEF FormInvariant, RequestInv
        <3> QED BY <2>1, <3>1 DEF SecretInv
    <2>2. CASE ~halfway' \/ c.alone
        BY <1>7, <1>8, <1>9, <2>2 DEF SecretInv
    <2> QED BY <2>1, <2>2
<1>11. SaidInv'
    <2> SUFFICES ASSUME ~halfway', ~early', providerDraft # None PROVE providerCalls' = {} /\ savedKind' = c.wanted
        BY <1>1, <1>7 DEF SaidInv
    <2>1. CASE Fo!Mends(c)
        BY <1>0, <1>3, <1>4, <1>8, <2>1 DEF Fo!Mends
    <2>2. CASE ~halfway /\ ~early
        <3>1. saving = c.id /\ (c.token = "kept" => c.claim = c.wanted)
            BY <1>1, <2>2 DEF FormInvariant, RequestInv, SaidInv
        <3> QED BY <1>3, <1>4, <1>8, <3>1
    <2>3. CASE ~Fo!Mends(c) /\ (halfway \/ early)
        BY <1>1, <2>3
    <2> QED BY <2>1, <2>2, <2>3
<1> QED BY <1>5, <1>6, <1>10, <1>11 DEF FormInvariant

\* Both are removed.
LEMMA SecretRemoved ==
    ASSUME Fo!FormAssumption, FormInvariant, NEW c \in providerCalls, Fo!Removed(c) PROVE FormInvariant'
<1>0. c \in ProviderCall /\ None \notin Fo!Kinds
    BY DEF FormInvariant, FormType, Fo!FormAssumption, Fo!Kinds
<1>1. /\ c.what = "remove" /\ c.wrote /\ providerCalls' = providerCalls \ {c} /\ providerKeyring' = None
      /\ saving' = (IF saving = c.id THEN None ELSE saving)
      /\ halfway' = (halfway /\ ~Fo!Mends(c)) /\ early' = (early /\ ~Fo!Mends(c))
      /\ UNCHANGED <<row, providerSaves>>
    BY DEF Fo!Removed, Fo!Ends
<1>2. saving # c.id => UNCHANGED <<savedKind, providerDraft>>
    BY DEF Fo!Removed, Fo!page
<1>3. saving = c.id => savedKind' = None /\ providerDraft' = Fo!EMPTY
    BY DEF Fo!Removed
<1>4. RequestInv' /\ providerCalls' \subseteq ProviderCall
    BY <1>1, RequestsLeft DEF Fo!Mends
<1>5. FormType'
    BY <1>1, <1>2, <1>3, <1>4, DraftsAreDrafts DEF FormInvariant, FormType
<1>6. ~halfway' \/ c.alone => providerCalls' = {}
    BY <1>1 DEF FormInvariant, RequestInv, Fo!Mends
<1>7. ~halfway' => row = None
    BY <1>1 DEF FormInvariant, RequestInv, SecretInv, Fo!Mends
<1>8. ~halfway' => Need' = None
    BY <1>0, <1>1, <1>7 DEF Need
<1>9. SecretInv'
    <2>1. CASE halfway' /\ ~c.alone
        <3>1. \A d \in providerCalls' : ~d.alone
            BY <1>1, <2>1 DEF FormInvariant, RequestInv
        <3> QED BY <2>1, <3>1 DEF SecretInv
    <2>2. CASE ~halfway' \/ c.alone
        BY <1>1, <1>6, <1>8, <2>2 DEF SecretInv
    <2> QED BY <2>1, <2>2
<1>10. SaidInv'
    <2> SUFFICES ASSUME ~halfway', ~early' PROVE providerCalls' = {} /\ savedKind' = None
        BY <1>8 DEF SaidInv
    <2>1. saving = c.id
        BY <1>1 DEF FormInvariant, RequestInv, Fo!Mends
    <2> QED BY <1>3, <1>6, <2>1
<1> QED BY <1>4, <1>5, <1>9, <1>10 DEF FormInvariant

\* It is refused, or fails: between the two stores nothing is claimed any more.
LEMMA SecretFailed ==
    ASSUME Fo!FormAssumption, FormInvariant, NEW c \in providerCalls, Fo!SavingFails(c) PROVE FormInvariant'
<1>1. /\ providerCalls' = providerCalls \ {c} /\ halfway' = (halfway \/ c.wrote)
      /\ saving' = (IF saving = c.id THEN None ELSE saving)
      /\ UNCHANGED <<row, providerKeyring, savedKind, providerDraft, early, providerSaves>>
    BY DEF Fo!SavingFails, Fo!page, Fo!backend
<1>2. RequestInv' /\ providerCalls' \subseteq ProviderCall
    BY <1>1, RequestsLeft
<1>3. FormType'
    BY <1>1, <1>2 DEF FormInvariant, FormType, ProviderCall
<1>4. ~halfway' => Unwritten' /\ Unwritten /\ providerCalls' = {}
    BY <1>1 DEF FormInvariant, RequestInv, Unwritten
<1>5. SecretInv' /\ SaidInv'
    BY <1>1, <1>4 DEF FormInvariant, SecretInv, SaidInv, Need, RequestInv
<1> QED BY <1>2, <1>3, <1>5 DEF FormInvariant

LEMMA FormStep ==
    ASSUME Fo!FormAssumption, FormInvariant, [Fo!Next]_(Fo!vars) PROVE FormInvariant'
<1>1. CASE \/ Fo!saveTransfer \/ Fo!pickFolder \/ UNCHANGED Fo!vars
           \/ \E field \in {"first", "last"}, port \in Ports \cup {None} : Fo!EditTransfer(field, port)
           \/ \E folder \in {"away", None} : Fo!Picked(folder)
    <2>1. /\ UNCHANGED <<providerDraft, savedKind, row, providerKeyring, providerCalls, saving, halfway, early>>
          /\ providerSaves' = providerSaves \/ providerSaves' = providerSaves + 1
        BY <1>1 DEF Fo!saveTransfer, Fo!pickFolder, Fo!EditTransfer, Fo!Picked, Fo!vars, Fo!page, Fo!backend,
                    Fo!requests, Fo!Saves
    <2>2. providerSaves \in Nat /\ \A c \in providerCalls : c.id \in Nat
        BY DEF FormInvariant, FormType, ProviderCall
    <2>3. FormType' /\ RequestInv'
        BY <2>1, <2>2 DEF FormInvariant, FormType, RequestInv
    <2> QED BY <2>1, <2>3 DEF FormInvariant, SecretInv, SaidInv, Unwritten, Need
<1>2. CASE Fo!Open \/ Fo!OpenFails
    BY <1>2, ProviderOpened
<1>3. CASE \/ \E next \in {"catbox", "custom"} : Fo!chooseSetup(next)
           \/ \E field \in DOMAIN Fo!EMPTY : Fo!Edit(field)
    BY <1>3, ProviderEdited
<1>4. CASE Fo!save \/ Fo!remove
    BY <1>4, SecretSent
<1>5. CASE \E c \in providerCalls : Fo!Written(c) \/ Fo!Saved(c) \/ Fo!Removed(c) \/ Fo!SavingFails(c)
    BY <1>5, SecretWritten, SecretSaved, SecretRemoved, SecretFailed
<1> QED BY <1>1, <1>2, <1>3, <1>4, <1>5 DEF Fo!Next

\* What the page says is in the keyring is there, and is for the kind of provider that
\* is stored, whatever was sent from this page and the ones before it, unless one of
\* the two stores failed after the other, two requests were out together, or the page
\* was opened while one was; until a request of its own, alone, says the secret anew
\* (UploadsPage.tsx).
THEOREM SecretCorrect == ASSUME Fo!FormAssumption PROVE Fo!Spec => []Fo!SecretIsAsSaid
<1>0. None \notin Fo!Kinds /\ None \notin Nat
    BY DEF Fo!FormAssumption, Fo!Kinds
<1>1. Fo!Init => FormInvariant
    <2>1. Fo!Init => FormType
        BY DEF Fo!Init, FormType
    <2>2. Fo!Init => RequestInv /\ SaidInv
        BY <1>0 DEF Fo!Init, RequestInv, SaidInv
    <2>3. Fo!Init => SecretInv
        BY DEF Fo!Init, SecretInv, Need
    <2> QED BY <2>1, <2>2, <2>3 DEF FormInvariant
<1>2. FormInvariant /\ [Fo!Next]_(Fo!vars) => FormInvariant'
    BY FormStep
<1>3. FormInvariant => Fo!SecretIsAsSaid
    <2> SUFFICES ASSUME FormInvariant, providerDraft # None, saving = None, ~halfway, ~early
                 PROVE  /\ savedKind = Fo!savedFor /\ providerKeyring = savedKind
                        /\ row \in Fo!Kinds => providerKeyring = row
        BY DEF Fo!SecretIsAsSaid
    <2>1. providerCalls = {}
        BY <1>0 DEF FormInvariant, FormType, RequestInv, ProviderCall
    <2>2. savedKind = Need /\ providerKeyring = Need
        BY <2>1 DEF FormInvariant, SecretInv, SaidInv, Unwritten
    <2> QED BY <1>0, <2>2 DEF Need, Fo!savedFor
<1> QED BY <1>1, <1>2, <1>3, PTL DEF Fo!Spec

-----------------------------------------------------------------------------
\* The fields of the draft hold a port or nothing; what was asked with is such a draft.
Transfer == [first : Ports \cup {None}, last : Ports \cup {None}, directory : {"home", "away"}]
PortsInv ==
    /\ transfer \in Transfer /\ (providerPicking # None => providerPicking \in Transfer)
    /\ Fo!PortsAreARange

LEMMA PortsStep ==
    ASSUME Fo!FormAssumption, PortsInv, [Fo!Next]_(Fo!vars) PROVE PortsInv'
<1>1. CASE UNCHANGED Fo!transfers
    BY <1>1 DEF Fo!transfers, PortsInv, Fo!PortsAreARange
<1>2. CASE Fo!saveTransfer
    <2>1. transfer.first \in Ports \cup {None} /\ transfer.last \in Ports \cup {None} /\ Ports \subseteq Nat
          /\ MaxPort \in Nat
        BY DEF PortsInv, Transfer, Fo!FormAssumption
    <2>2. ports' = <<transfer.first, transfer.last>> /\ UNCHANGED <<transfer, providerPicking>>
        BY <1>2 DEF Fo!saveTransfer
    <2>3. CASE Fo!portsOf
        BY <2>2, <2>3 DEF Fo!portsOf, PortsInv, Fo!PortsAreARange
    <2>4. CASE ~Fo!portsOf
        <3>1. Fo!whole(transfer.first) /\ Fo!whole(transfer.last) /\ transfer.first <= transfer.last
            BY <1>2, <2>4 DEF Fo!saveTransfer, Fo!Range, Fo!whole
        <3>2. transfer.first # None /\ transfer.first > 0 /\ transfer.last <= MaxPort
            BY <3>1 DEF Fo!whole
        <3>3. transfer.first \in Nat
            BY <2>1, <3>2
        <3>4. transfer.first >= 1
            BY <3>2, <3>3
        <3> QED BY <2>2, <3>1, <3>2, <3>4 DEF PortsInv, Fo!PortsAreARange
    <2> QED BY <2>3, <2>4
<1>3. CASE Fo!pickFolder
    BY <1>3 DEF Fo!pickFolder, PortsInv, Fo!PortsAreARange
<1>4. ASSUME NEW field \in {"first", "last"}, NEW port \in Ports \cup {None}, Fo!EditTransfer(field, port)
      PROVE PortsInv'
    <2>1. transfer' = [transfer EXCEPT ![field] = port] /\ UNCHANGED <<providerPicking, ports>>
        BY <1>4 DEF Fo!EditTransfer
    <2>2. transfer' \in Transfer
        BY <2>1 DEF PortsInv, Transfer
    <2> QED BY <2>1, <2>2 DEF PortsInv, Fo!PortsAreARange
<1>5. ASSUME NEW folder \in {"away", None}, Fo!Picked(folder) PROVE PortsInv'
    <2>1. providerPicking # None /\ providerPicking' = None /\ ports' = ports
          /\ transfer' \in {transfer, [providerPicking EXCEPT !.directory = "away"]}
        BY <1>5 DEF Fo!Picked
    <2>2. transfer' \in Transfer
        BY <2>1 DEF PortsInv, Transfer
    <2> QED BY <2>1, <2>2 DEF PortsInv, Fo!PortsAreARange
<1>6. CASE \/ Fo!Open \/ Fo!OpenFails \/ Fo!save \/ Fo!remove
           \/ \E c \in providerCalls : Fo!Written(c) \/ Fo!Saved(c) \/ Fo!Removed(c) \/ Fo!SavingFails(c)
           \/ \E next \in {"catbox", "custom"} : Fo!chooseSetup(next)
           \/ \E field \in DOMAIN Fo!EMPTY : Fo!Edit(field)
           \/ UNCHANGED Fo!vars
    <2>1. UNCHANGED Fo!transfers
        BY <1>6 DEF Fo!Open, Fo!OpenFails, Fo!Opens, Fo!save, Fo!remove, Fo!Request, Fo!Written, Fo!Saved,
                    Fo!Removed, Fo!Ends, Fo!SavingFails, Fo!chooseSetup, Fo!Edit, Fo!vars
    <2> QED BY <1>1, <2>1
<1> QED BY <1>2, <1>3, <1>4, <1>5, <1>6 DEF Fo!Next

\* What is kept of the ports is none of them or a range of those there are, whatever
\* was typed and whatever the folder's dialog put back (TransfersPage.tsx).
THEOREM PortsCorrect == ASSUME Fo!FormAssumption PROVE Fo!Spec => []Fo!PortsAreARange
<1>1. Fo!Init => PortsInv
    BY DEF Fo!Init, PortsInv, Transfer, Fo!PortsAreARange
<1>2. PortsInv /\ [Fo!Next]_(Fo!vars) => PortsInv'
    BY PortsStep
<1>3. PortsInv => Fo!PortsAreARange
    BY DEF PortsInv
<1> QED BY <1>1, <1>2, <1>3, PTL DEF Fo!Spec

-----------------------------------------------------------------------------
(* The dialog the pages are in (SettingsDialog).                           *)

\* A request keeps the dialog it was made in up, by its flag.
FlagInv ==
    /\ dialogSettings \in Sections \cup {None}
    /\ mounts \in [dialog : Nat, page : Nat]
    /\ ~dialogCrossed =>
         /\ \A r, s \in flying : r = s
         /\ \A r \in flying : dialogSettings # None /\ dialogBusy /\ r.from.dialog = mounts.dialog

LEMMA FlagKept == ASSUME Di!DialogAssumption, FlagInv, [Di!Next]_Di!vars PROVE FlagInv'
<1> USE DEF FlagInv
\* A page that comes up in the dialog a request was made in leaves its flag up.
<1>1. ASSUME NEW section \in Sections,
             Di!Mounts(section, IF dialogSettings = None THEN mounts.dialog + 1 ELSE mounts.dialog),
             flying' = flying, dialogCrossed' = dialogCrossed
      PROVE  FlagInv'
    <2> DEFINE dialog == IF dialogSettings = None THEN mounts.dialog + 1 ELSE mounts.dialog
    <2>1. dialog \in Nat /\ (dialogSettings # None => dialog = mounts.dialog)
        OBVIOUS
    <2> HIDE DEF dialog
    <2>2. /\ dialogSettings' = section /\ dialogBusy' = (dialogBusy /\ dialog = mounts.dialog)
          /\ mounts' = [dialog |-> dialog, page |-> mounts.page + 1]
        BY <1>1 DEF Di!Mounts, dialog
    <2>3. mounts' \in [dialog : Nat, page : Nat] /\ mounts'.dialog = dialog
        BY <2>1, <2>2
    <2>4. section # None
        BY DEF Di!DialogAssumption
    <2> QED BY <1>1, <2>1, <2>2, <2>3, <2>4
<1>2. ASSUME NEW section \in Sections, Di!setSettingsSection(section) PROVE FlagInv'
    BY <1>1, <1>2 DEF Di!setSettingsSection
<1>3. ASSUME NEW section \in Sections, Di!openSettings(section) PROVE FlagInv'
    BY <1>1, <1>3 DEF Di!openSettings
<1>4. CASE Di!openSetup
    BY <1>1, <1>4 DEF Di!openSetup
<1>5. CASE Di!Request
    <2> DEFINE r == [id |-> requests, from |-> Di!Here]
    <2>1. r.from.dialog = mounts.dialog
        BY DEF Di!Here
    <2>2. /\ flying' = flying \cup {r} /\ dialogSettings' = dialogSettings /\ dialogSettings # None
          /\ dialogBusy' = TRUE /\ mounts' = mounts /\ dialogCrossed' = (dialogCrossed \/ flying # {})
        BY <1>5 DEF Di!Request
    <2> HIDE DEF r
    <2> QED BY <2>1, <2>2
<1>6. ASSUME NEW r \in flying, NEW failing \in BOOLEAN, Di!Answered(r, failing) PROVE FlagInv'
    BY <1>6 DEF Di!Answered
<1>7. CASE Di!closeSettings
    BY <1>7 DEF Di!closeSettings
<1>8. CASE Di!closeSetup \/ UNCHANGED Di!vars
    BY <1>8 DEF Di!closeSetup, Di!vars
<1> QED BY <1>2, <1>3, <1>4, <1>5, <1>6, <1>7, <1>8 DEF Di!Next

\* The settings close only with no request of a page out, however requests, pages and
\* ways out cross, where no two requests were out together (SettingsOverlay.tsx).
THEOREM DialogCorrect ==
    ASSUME Di!DialogAssumption
    PROVE  Di!Spec => []Di!ClosesAtRest
<1>1. Di!Init => FlagInv
    BY DEF Di!Init, FlagInv
<1>2. FlagInv /\ [Di!Next]_Di!vars => FlagInv'
    BY FlagKept
<1>3. FlagInv => Di!ClosesAtRest
    BY DEF FlagInv, Di!ClosesAtRest
<1> QED BY <1>1, <1>2, <1>3, PTL DEF Di!Spec

-----------------------------------------------------------------------------
\* A switch that is on and needs leave has it.
AllowedInv == prefsStored = notify /\ (prefsStored \cap Gated # {} => allowed = TRUE)

LEMMA AllowedKept == ASSUME AllowedInv, [Pr!Next]_Pr!vars PROVE AllowedInv'
<1> USE DEF AllowedInv
<1>1. ASSUME NEW n \in Gated \cup Free, Pr!toggle(n) PROVE AllowedInv'
    BY <1>1 DEF Pr!toggle, Pr!TurningOn, Pr!Stored
<1>2. ASSUME NEW next \in asking, NEW yes \in BOOLEAN, Pr!AllowedToNotify(next, yes) PROVE AllowedInv'
    BY <1>2 DEF Pr!AllowedToNotify, Pr!Stored
<1>3. CASE UNCHANGED Pr!desktop
    BY <1>3 DEF Pr!desktop
<1> QED
    BY <1>1, <1>2, <1>3
    DEF Pr!Next, Pr!vars, Pr!ReadArrives, Pr!add, Pr!remove, Pr!choose, Pr!commit, Pr!Written, Pr!Refused,
        Pr!PutBack, Pr!Reread, Pr!Loaded, Pr!RereadFails, Pr!setRow, Pr!RowSet, Pr!RowRefused, Pr!RowAnswered,
        Pr!RowsRead, Pr!RowsArrive, Pr!RowsFail

\* A switch that needs the desktop's permission reads as on only where it was given,
\* whatever is asked, refused and answered late (NotificationsPage.tsx).
THEOREM AllowedCorrect == Pr!Spec => []Pr!OnIsAllowed
<1>1. Pr!Init => AllowedInv
    BY DEF Pr!Init, AllowedInv
<1>2. AllowedInv /\ [Pr!Next]_Pr!vars => AllowedInv'
    BY AllowedKept
<1>3. AllowedInv => Pr!OnIsAllowed
    BY DEF AllowedInv, Pr!OnIsAllowed
<1> QED BY <1>1, <1>2, <1>3, PTL DEF Pr!Spec

-----------------------------------------------------------------------------
(* What is shown, saved and in force (NotificationPrefs).                  *)

Chosen == SUBSET Names
Write ==
    [id : Nat, setting : Pr!Settings, next : Chosen, before : Chosen,
     at : {"sent", "saved", "refused", "read"}, read : Chosen \cup {None}]
RowSetting == [id : Nat, rows : Rows, name : Names, off : BOOLEAN, done : BOOLEAN]
RowsRead == [id : Nat \cup {None}, rows : Rows, answer : Chosen \cup {None}]

PrefsType ==
    /\ shown \in [Pr!Settings -> Chosen] /\ prefsSaved \in [Pr!Settings -> Chosen]
    /\ inForce \in [Pr!Settings -> Chosen \cup {None}]
    /\ rows \in [Rows -> Chosen] /\ kept \in [Rows -> Chosen]
    /\ writes \subseteq Write /\ prefsReads \subseteq RowsRead /\ sets \subseteq RowSetting
    /\ prefsEdits \in Nat

\* The client goes by what is saved, unless it could not read it.
Followed(s) == s \notin prefsStale => inForce[s] = prefsSaved[s]
\* One save of a setting is out: what it says of the page, the backend and the client.
OneOut(w) ==
    LET s == w.setting
    IN  /\ shown[s] = w.next
        /\ w.at \in {"sent", "refused"} => prefsSaved[s] = w.before /\ Followed(s)
        /\ w.at \in {"saved", "read"} => prefsSaved[s] = w.next
        /\ w.at = "read" => w.read = prefsSaved[s]
SettingInv(s) ==
    /\ s \in unread => Pr!Out(s) = {} /\ Followed(s)
    /\ s \notin unread /\ Pr!Out(s) = {} => shown[s] = prefsSaved[s] /\ Followed(s)
    /\ \A w, x \in Pr!Out(s) : w = x
    /\ \A w \in Pr!Out(s) : OneOut(w)
\* A change of rows was made that their page has not heard of.
Unheard(r) == \E c \in sets : c.rows = r /\ c.done
RowInv(r) ==
    /\ \A p, q \in Pr!ReadsOf(r) : p = q
    /\ ~Unheard(r) => \A q \in Pr!ReadsOf(r) : q.answer # None => q.answer = kept[r]
    /\ ~Unheard(r) /\ Pr!ReadsOf(r) = {} /\ r \notin old => rows[r] = kept[r]
PrefsInv ==
    /\ \A s \in Pr!Settings \ (prefsCrossed \cup blind) : SettingInv(s)
    /\ \A r \in Rows \ prefsCrossed : RowInv(r)

LEMMA PrefsInit == ASSUME Pr!Init PROVE PrefsType /\ PrefsInv
<1>1. PrefsType
    <2>1. \A r \in Rows : [id |-> None, rows |-> r, answer |-> None] \in RowsRead
        BY DEF RowsRead
    <2>2. prefsReads \subseteq RowsRead
        BY <2>1 DEF Pr!Init
    <2>3. shown \in [Pr!Settings -> Chosen] /\ inForce \in [Pr!Settings -> Chosen \cup {None}]
        BY DEF Pr!Init, Chosen
    <2>4. rows \in [Rows -> Chosen] /\ kept = rows
        BY DEF Pr!Init, Chosen
    <2> QED BY <2>2, <2>3, <2>4 DEF Pr!Init, PrefsType, Chosen
<1>2. ASSUME NEW s \in Pr!Settings PROVE SettingInv(s)
    <2>1. Pr!Out(s) = {} /\ Followed(s) /\ shown[s] = IF s \in unread THEN {} ELSE prefsSaved[s]
        BY DEF Pr!Init, Pr!Out, Followed
    <2> QED BY <2>1 DEF SettingInv
<1>3. ASSUME NEW r \in Rows PROVE RowInv(r)
    <2>1. prefsReads = {[id |-> None, rows |-> q, answer |-> None] : q \in Rows} /\ kept = rows
        BY DEF Pr!Init
    <2>2. \A q \in prefsReads : q.answer = None /\ q = [id |-> None, rows |-> q.rows, answer |-> None]
        BY <2>1
    <2> QED BY <2>1, <2>2 DEF RowInv, Pr!ReadsOf
<1> QED BY <1>1, <1>2, <1>3 DEF PrefsInv

\* A step about one setting leaves the others, and the rows, as they were.
LEMMA OthersKept ==
    ASSUME Pr!PrefsAssumption, PrefsInv, NEW s \in Pr!Settings, UNCHANGED <<rows, kept, sets, prefsReads, old>>,
           prefsCrossed \ {s} \subseteq prefsCrossed', blind \ {s} \subseteq blind',
           unread' \ {s} = unread \ {s}, prefsStale' \ {s} = prefsStale \ {s},
           \A t \in Pr!Settings \ {s} : /\ Pr!Out(t)' = Pr!Out(t) /\ shown'[t] = shown[t]
                                        /\ prefsSaved'[t] = prefsSaved[t] /\ inForce'[t] = inForce[t],
           s \notin prefsCrossed' \cup blind' => SettingInv(s)'
    PROVE  PrefsInv'
<1>1. ASSUME NEW t \in Pr!Settings \ {s}, t \notin prefsCrossed' \cup blind' PROVE SettingInv(t)'
    <2>1. SettingInv(t) /\ Pr!Out(t)' = Pr!Out(t) /\ \A x \in Pr!Out(t) : x.setting = t
        BY <1>1 DEF PrefsInv, Pr!Out
    <2>2. Followed(t)' <=> Followed(t)
        BY <1>1 DEF Followed
    <2>3. \A x \in Pr!Out(t) : OneOut(x) => OneOut(x)'
        BY <1>1, <2>1, <2>2 DEF OneOut
    <2> QED BY <1>1, <2>1, <2>2, <2>3 DEF SettingInv
<1>2. ASSUME NEW r \in Rows, r \notin prefsCrossed' PROVE RowInv(r)'
    <2>1. r \notin prefsCrossed
        BY <1>2 DEF Pr!PrefsAssumption, Pr!Settings
    <2> QED BY <2>1 DEF PrefsInv, RowInv, Unheard, Pr!ReadsOf
<1> QED BY <1>1, <1>2 DEF PrefsInv

\* A save moves on as what it becomes, or is over.
LEMMA SaveMoves ==
    ASSUME NEW w \in writes, NEW on, \A v \in on : v.setting = w.setting, writes' = (writes \ {w}) \cup on
    PROVE  /\ \A t : t # w.setting => Pr!Out(t)' = Pr!Out(t)
           /\ (\A x \in Pr!Out(w.setting) : x = w) => Pr!Out(w.setting)' = on
<1>1. ASSUME NEW t, t # w.setting PROVE Pr!Out(t)' = Pr!Out(t)
    BY <1>1 DEF Pr!Out
<1>2. ASSUME \A x \in Pr!Out(w.setting) : x = w PROVE Pr!Out(w.setting)' = on
    BY <1>2 DEF Pr!Out
<1> QED BY <1>1, <1>2

LEMMA MovedOn ==
    ASSUME NEW w \in Write, NEW at \in {"sent", "saved", "refused", "read"}
    PROVE  LET v == [w EXCEPT !.at = at]
           IN  v \in Write /\ v.setting = w.setting /\ v.next = w.next /\ v.before = w.before /\ v.at = at
BY DEF Write

LEMMA ReadOn ==
    ASSUME NEW w \in Write, NEW read \in Chosen \cup {None}
    PROVE  LET v == [w EXCEPT !.at = "read", !.read = read]
           IN  v \in Write /\ v.setting = w.setting /\ v.next = w.next /\ v.at = "read" /\ v.read = read
BY DEF Write

\* A setting put to a value holds it, and the others theirs.
LEMMA PutAt ==
    ASSUME NEW S, NEW f \in [Pr!Settings -> S], NEW s \in Pr!Settings, NEW x \in S
    PROVE  /\ [f EXCEPT ![s] = x] \in [Pr!Settings -> S] /\ [f EXCEPT ![s] = x][s] = x
           /\ \A t \in Pr!Settings \ {s} : [f EXCEPT ![s] = x][t] = f[t]
OBVIOUS

\* Choosing: one more save, of what the page shows now.
LEMMA CommitKept ==
    ASSUME Pr!PrefsAssumption, PrefsType, PrefsInv, NEW s \in Pr!Settings, NEW next \in Chosen, Pr!commit(s, next)
    PROVE  PrefsType' /\ PrefsInv'
<1>0. PICK w : w = [id |-> prefsEdits, setting |-> s, next |-> next, before |-> shown[s],
                    at |-> "sent", read |-> None]
    OBVIOUS
<1>1. /\ shown' = [shown EXCEPT ![s] = next] /\ writes' = writes \cup {w}
      /\ prefsCrossed' = IF Pr!Out(s) # {} THEN prefsCrossed \cup {s} ELSE prefsCrossed
      /\ blind' = IF s \in unread THEN blind \cup {s} ELSE blind
      /\ UNCHANGED <<prefsSaved, inForce, unread, prefsStale, rows, kept, sets, prefsReads, old>>
      /\ prefsEdits' = prefsEdits + 1
    BY <1>0 DEF Pr!commit, Pr!Edited, Pr!rowVars
<1>2. w \in Write /\ w.setting = s /\ w.next = next /\ w.before = shown[s] /\ w.at = "sent"
    BY <1>0 DEF PrefsType, Write
<1>3. PrefsType'
    BY <1>1, <1>2 DEF PrefsType
<1>4. shown'[s] = next /\ \A t \in Pr!Settings \ {s} : shown'[t] = shown[t]
    BY <1>1 DEF PrefsType
<1>5. \A t \in Pr!Settings \ {s} : Pr!Out(t)' = Pr!Out(t)
    BY <1>1, <1>2 DEF Pr!Out
<1>6. ASSUME s \notin prefsCrossed' \cup blind' PROVE SettingInv(s)'
    <2>1. Pr!Out(s) = {} /\ s \notin unread /\ SettingInv(s)
        BY <1>1, <1>6 DEF PrefsInv
    <2>2. shown[s] = prefsSaved[s] /\ Followed(s)
        BY <2>1 DEF SettingInv
    <2>3. Pr!Out(s)' = {w}
        BY <1>1, <1>2, <2>1 DEF Pr!Out
    <2>4. Followed(s)'
        BY <1>1, <2>2 DEF Followed
    <2>a. prefsSaved'[s] = w.before
        BY <1>1, <1>2, <2>2
    <2>5. OneOut(w)'
        BY <1>2, <1>4, <2>4, <2>a DEF OneOut
    <2> QED BY <1>1, <2>1, <2>3, <2>5 DEF SettingInv
<1>7. PrefsInv'
    BY <1>1, <1>4, <1>5, <1>6, OthersKept
<1> QED BY <1>3, <1>7

\* What the save of a setting nothing went wrong with says of it.
LEMMA SaveSays ==
    ASSUME PrefsType, PrefsInv, NEW w \in writes, w.setting \notin prefsCrossed \cup blind
    PROVE  Pr!Out(w.setting) = {w} /\ OneOut(w) /\ w.setting \notin unread
<1>1. w.setting \in Pr!Settings /\ w \in Pr!Out(w.setting)
    BY DEF PrefsType, Write, Pr!Out
<1>2. SettingInv(w.setting)
    BY <1>1 DEF PrefsInv
<1> QED BY <1>1, <1>2 DEF SettingInv

\* The backend takes a save: one with nothing beside it, of what the page shows, puts
\* its setting right.
LEMMA WrittenKept ==
    ASSUME Pr!PrefsAssumption, PrefsType, PrefsInv, NEW w \in writes, Pr!Written(w)
    PROVE  PrefsType' /\ PrefsInv'
<1> DEFINE s == w.setting
           v == [w EXCEPT !.at = "saved"]
<1>0. w \in Write /\ s \in Pr!Settings /\ w.next \in Chosen
    BY DEF PrefsType, Write
<1>1. v \in Write /\ v.setting = s /\ v.next = w.next /\ v.at = "saved"
    BY <1>0, MovedOn
<1> HIDE DEF v
<1>2. /\ w.at = "sent" /\ prefsSaved' = [prefsSaved EXCEPT ![s] = w.next]
      /\ prefsCrossed' = IF Pr!Settles(w) THEN prefsCrossed \ {s} ELSE prefsCrossed
      /\ blind' = IF Pr!Settles(w) THEN blind \ {s} ELSE blind
      /\ UNCHANGED <<shown, unread, prefsStale, rows, kept, sets, prefsReads, old, prefsEdits>>
    BY DEF Pr!Written, Pr!rowVars
<1>3. PICK on : /\ writes' = (writes \ {w}) \cup on
                /\ \/ on = {v} /\ inForce' = inForce
                   \/ on = {} /\ inForce' = [inForce EXCEPT ![s] = w.next]
    <2>1. CASE s \in Lists
        <3>1. writes' = (writes \ {w}) \cup {v} /\ inForce' = inForce
            BY <2>1 DEF Pr!Written, Pr!Becomes, v
        <3> QED BY <3>1
    <2>2. CASE s \notin Lists
        <3>1. writes' = (writes \ {w}) \cup {} /\ inForce' = [inForce EXCEPT ![s] = w.next]
            BY <2>2 DEF Pr!Written
        <3> QED BY <3>1
    <2> QED BY <2>1, <2>2
<1>4. /\ prefsSaved' \in [Pr!Settings -> Chosen] /\ prefsSaved'[s] = w.next
      /\ \A t \in Pr!Settings \ {s} : prefsSaved'[t] = prefsSaved[t]
    BY <1>0, <1>2, PutAt DEF PrefsType
<1>5. /\ inForce' \in [Pr!Settings -> Chosen \cup {None}] /\ (on = {} => inForce'[s] = w.next)
      /\ \A t \in Pr!Settings \ {s} : inForce'[t] = inForce[t]
    <2>1. inForce \in [Pr!Settings -> Chosen \cup {None}] /\ w.next \in Chosen \cup {None}
        BY <1>0 DEF PrefsType
    <2>2. CASE inForce' = [inForce EXCEPT ![s] = w.next]
        BY <1>0, <2>1, <2>2, PutAt
    <2> QED BY <1>3, <2>1, <2>2
<1>6. PrefsType'
    BY <1>1, <1>2, <1>3, <1>4, <1>5 DEF PrefsType
<1>7. /\ \A t : t # s => Pr!Out(t)' = Pr!Out(t)
      /\ (\A x \in Pr!Out(s) : x = w) => Pr!Out(s)' = on
    BY <1>1, <1>3, SaveMoves
<1>8. ASSUME s \notin prefsCrossed' \cup blind' PROVE SettingInv(s)'
    <2>1. Pr!Out(s) = {w} /\ shown[s] = w.next /\ s \notin unread
        <3>1. CASE Pr!Settles(w)
            BY <3>1 DEF Pr!Settles
        <3>2. CASE ~Pr!Settles(w)
            BY <1>2, <1>8, <3>2, SaveSays DEF OneOut
        <3> QED BY <3>1, <3>2
    <2>2. Pr!Out(s)' = on
        BY <1>7, <2>1
    <2>3. CASE on = {}
        BY <1>2, <1>4, <1>5, <2>1, <2>2, <2>3 DEF SettingInv, Followed
    <2>4. CASE on = {v}
        <3>1. OneOut(v)'
            BY <1>1, <1>2, <1>4, <2>1 DEF OneOut
        <3> QED BY <1>2, <2>1, <2>2, <2>4, <3>1 DEF SettingInv
    <2> QED BY <1>3, <2>3, <2>4
<1>9. PrefsInv'
    BY <1>0, <1>2, <1>4, <1>5, <1>7, <1>8, OthersKept
<1> QED BY <1>6, <1>9

\* It refuses one, and the page puts back what it showed before it.
LEMMA RefusedKept ==
    ASSUME Pr!PrefsAssumption, PrefsType, PrefsInv, NEW w \in writes, Pr!Refused(w) \/ Pr!PutBack(w)
    PROVE  PrefsType' /\ PrefsInv'
<1> DEFINE s == w.setting
           v == [w EXCEPT !.at = "refused"]
<1>0. w \in Write /\ s \in Pr!Settings /\ w.before \in Chosen
    BY DEF PrefsType, Write
<1>1. v \in Write /\ v.setting = s /\ v.next = w.next /\ v.before = w.before /\ v.at = "refused"
    BY <1>0, MovedOn
<1> HIDE DEF v
<1>2. UNCHANGED <<prefsSaved, inForce, unread, blind, prefsStale, rows, kept, sets, prefsReads, old, prefsEdits,
                  prefsCrossed>>
    BY DEF Pr!Refused, Pr!PutBack, Pr!rowVars
<1>3. PICK on : /\ writes' = (writes \ {w}) \cup on
                /\ \/ w.at = "sent" /\ on = {v} /\ shown' = shown
                   \/ w.at = "refused" /\ on = {} /\ shown' = [shown EXCEPT ![s] = w.before]
    <2>1. CASE Pr!Refused(w)
        <3>1. w.at = "sent" /\ writes' = (writes \ {w}) \cup {v} /\ shown' = shown
            BY <2>1 DEF Pr!Refused, Pr!Becomes, v
        <3> QED BY <3>1
    <2>2. CASE Pr!PutBack(w)
        <3>1. w.at = "refused" /\ writes' = (writes \ {w}) \cup {} /\ shown' = [shown EXCEPT ![s] = w.before]
            BY <2>2 DEF Pr!PutBack
        <3> QED BY <3>1
    <2> QED BY <2>1, <2>2
<1>4. /\ shown' \in [Pr!Settings -> Chosen] /\ (on = {} => shown'[s] = w.before)
      /\ \A t \in Pr!Settings \ {s} : shown'[t] = shown[t]
    <2>1. CASE shown' = [shown EXCEPT ![s] = w.before]
        BY <1>0, <2>1, PutAt DEF PrefsType
    <2> QED BY <1>3, <2>1 DEF PrefsType
<1>5. PrefsType'
    BY <1>1, <1>2, <1>3, <1>4 DEF PrefsType
<1>6. /\ \A t : t # s => Pr!Out(t)' = Pr!Out(t)
      /\ (\A x \in Pr!Out(s) : x = w) => Pr!Out(s)' = on
    BY <1>1, <1>3, SaveMoves
<1>7. ASSUME s \notin prefsCrossed' \cup blind' PROVE SettingInv(s)'
    <2>1. Pr!Out(s) = {w} /\ OneOut(w) /\ s \notin unread
        BY <1>2, <1>7, SaveSays
    <2>2. Pr!Out(s)' = on
        BY <1>6, <2>1
    <2>3. shown[s] = w.next /\ prefsSaved[s] = w.before /\ Followed(s)
        BY <1>3, <2>1 DEF OneOut
    <2>4. Followed(s)'
        BY <1>2, <2>3 DEF Followed
    <2>5. CASE on = {}
        BY <1>2, <1>4, <2>1, <2>2, <2>3, <2>4, <2>5 DEF SettingInv
    <2>6. CASE on = {v}
        <3>1. OneOut(v)'
            BY <1>1, <1>2, <1>3, <2>3, <2>4, <2>6 DEF OneOut
        <3> QED BY <1>2, <2>1, <2>2, <2>6, <3>1 DEF SettingInv
    <2> QED BY <1>3, <2>5, <2>6
<1>8. PrefsInv'
    BY <1>0, <1>2, <1>4, <1>6, <1>7, OthersKept
<1> QED BY <1>5, <1>8

\* The client reads what was saved, or cannot and goes on with what it held.
LEMMA RereadKept ==
    ASSUME Pr!PrefsAssumption, PrefsType, PrefsInv, NEW w \in writes,
           Pr!Reread(w) \/ Pr!Loaded(w) \/ Pr!RereadFails(w)
    PROVE  PrefsType' /\ PrefsInv'
<1> DEFINE s == w.setting
<1>a. PICK v : v = [w EXCEPT !.at = "read", !.read = prefsSaved[s]]
    OBVIOUS
<1>0. w \in Write /\ s \in Pr!Settings /\ w.read \in Chosen \cup {None} /\ prefsSaved[s] \in Chosen \cup {None}
    BY DEF PrefsType, Write
<1>1. v \in Write /\ v.setting = s /\ v.next = w.next /\ v.at = "read" /\ v.read = prefsSaved[s]
    BY <1>0, <1>a, ReadOn
<1>2. UNCHANGED <<shown, prefsSaved, unread, blind, rows, kept, sets, prefsReads, old, prefsEdits, prefsCrossed>>
    BY DEF Pr!Reread, Pr!Loaded, Pr!RereadFails, Pr!rowVars
<1>3. PICK on : /\ writes' = (writes \ {w}) \cup on
                /\ \/ w.at = "saved" /\ on = {v} /\ inForce' = inForce /\ prefsStale' = prefsStale
                   \/ /\ w.at = "read" /\ on = {} /\ inForce' = [inForce EXCEPT ![s] = w.read]
                      /\ prefsStale' = prefsStale \ {s}
                   \/ w.at = "saved" /\ on = {} /\ inForce' = inForce /\ prefsStale' = prefsStale \cup {s}
    <2>1. CASE Pr!Reread(w)
        <3>1. w.at = "saved" /\ writes' = (writes \ {w}) \cup {v} /\ inForce' = inForce /\ prefsStale' = prefsStale
            BY <1>a, <2>1 DEF Pr!Reread
        <3> QED BY <3>1
    <2>2. CASE Pr!Loaded(w)
        <3>1. /\ w.at = "read" /\ writes' = (writes \ {w}) \cup {} /\ inForce' = [inForce EXCEPT ![s] = w.read]
              /\ prefsStale' = prefsStale \ {s}
            BY <2>2 DEF Pr!Loaded
        <3> QED BY <3>1
    <2>3. CASE Pr!RereadFails(w)
        <3>1. /\ w.at = "saved" /\ writes' = (writes \ {w}) \cup {} /\ inForce' = inForce
              /\ prefsStale' = prefsStale \cup {s}
            BY <2>3 DEF Pr!RereadFails
        <3> QED BY <3>1
    <2> QED BY <2>1, <2>2, <2>3
<1>4. /\ inForce' \in [Pr!Settings -> Chosen \cup {None}] /\ (w.at = "read" => inForce'[s] = w.read)
      /\ \A t \in Pr!Settings \ {s} : inForce'[t] = inForce[t]
    <2>1. inForce \in [Pr!Settings -> Chosen \cup {None}]
        BY DEF PrefsType
    <2>2. CASE inForce' = [inForce EXCEPT ![s] = w.read]
        BY <1>0, <2>1, <2>2, PutAt
    <2> QED BY <1>3, <2>1, <2>2
<1>5. PrefsType'
    BY <1>1, <1>2, <1>3, <1>4 DEF PrefsType
<1>6. /\ \A t : t # s => Pr!Out(t)' = Pr!Out(t)
      /\ (\A x \in Pr!Out(s) : x = w) => Pr!Out(s)' = on
    BY <1>1, <1>3, SaveMoves
<1>7. ASSUME s \notin prefsCrossed' \cup blind' PROVE SettingInv(s)'
    <2>1. Pr!Out(s) = {w} /\ OneOut(w) /\ s \notin unread
        BY <1>2, <1>7, SaveSays
    <2>2. Pr!Out(s)' = on
        BY <1>6, <2>1
    <2>3. shown[s] = w.next /\ prefsSaved[s] = w.next /\ (w.at = "read" => w.read = prefsSaved[s])
        BY <1>3, <2>1 DEF OneOut
    <2>4. on = {} => Followed(s)'
        BY <1>2, <1>3, <1>4, <2>3 DEF Followed
    <2>5. CASE on = {}
        BY <1>2, <2>1, <2>2, <2>3, <2>4, <2>5 DEF SettingInv
    <2>6. CASE on = {v}
        <3>a. shown'[s] = w.next /\ prefsSaved'[s] = w.next
            BY <1>2, <2>3
        <3>b. prefsSaved'[s] = prefsSaved[s]
            BY <1>2
        <3>1. OneOut(v)'
            BY <1>1, <3>a, <3>b DEF OneOut
        <3> QED BY <1>2, <2>1, <2>2, <2>6, <3>1 DEF SettingInv
    <2> QED BY <1>3, <2>5, <2>6
<1>8. PrefsInv'
    BY <1>0, <1>2, <1>3, <1>4, <1>6, <1>7, OthersKept
<1> QED BY <1>5, <1>8

\* The page reads what is saved, where nothing of it was sent.
LEMMA ReadKept ==
    ASSUME Pr!PrefsAssumption, PrefsType, PrefsInv, NEW s \in Pr!Settings, Pr!ReadArrives(s)
    PROVE  PrefsType' /\ PrefsInv'
<1>1. /\ unread' = unread \ {s} /\ s \in unread /\ shown' = [shown EXCEPT ![s] = prefsSaved[s]]
      /\ UNCHANGED <<prefsSaved, inForce, writes, blind, prefsStale, rows, kept, sets, prefsReads, old, prefsEdits,
                     prefsCrossed>>
    BY DEF Pr!ReadArrives, Pr!rowVars
<1>2. PrefsType'
    BY <1>1 DEF PrefsType
<1>3. shown'[s] = prefsSaved[s] /\ \A t \in Pr!Settings \ {s} : shown'[t] = shown[t]
    BY <1>1 DEF PrefsType
<1>4. \A t : Pr!Out(t)' = Pr!Out(t)
    BY <1>1 DEF Pr!Out
<1>5. ASSUME s \notin prefsCrossed' \cup blind' PROVE SettingInv(s)'
    <2>1. Pr!Out(s) = {} /\ Followed(s)
        BY <1>1, <1>5 DEF PrefsInv, SettingInv
    <2> QED BY <1>1, <1>3, <1>4, <2>1 DEF SettingInv, Followed
<1>6. PrefsInv'
    BY <1>1, <1>3, <1>4, <1>5, OthersKept
<1> QED BY <1>2, <1>6

\* A step about one of the rows leaves the others, and the settings, as they were.
LEMMA OtherRowsKept ==
    ASSUME Pr!PrefsAssumption, PrefsInv, NEW r \in Rows,
           UNCHANGED <<shown, prefsSaved, inForce, unread, writes, blind, prefsStale>>,
           prefsCrossed \ {r} \subseteq prefsCrossed', old' \ {r} = old \ {r},
           \A t \in Rows \ {r} : /\ Pr!ReadsOf(t)' = Pr!ReadsOf(t) /\ Unheard(t)' = Unheard(t)
                                 /\ rows'[t] = rows[t] /\ kept'[t] = kept[t],
           r \notin prefsCrossed' => RowInv(r)'
    PROVE  PrefsInv'
<1>1. ASSUME NEW s \in Pr!Settings, s \notin prefsCrossed' \cup blind' PROVE SettingInv(s)'
    <2>1. s \notin prefsCrossed \cup blind
        BY <1>1 DEF Pr!PrefsAssumption, Pr!Settings
    <2> QED BY <2>1 DEF PrefsInv, SettingInv, OneOut, Followed, Pr!Out
<1>2. ASSUME NEW t \in Rows \ {r}, t \notin prefsCrossed' PROVE RowInv(t)'
    BY <1>2 DEF PrefsInv, RowInv
<1> QED BY <1>1, <1>2 DEF PrefsInv

\* Rows are changed: asked for, refused, or done, which no read of them tells yet.
LEMMA SetKept ==
    ASSUME Pr!PrefsAssumption, PrefsType, PrefsInv,
           \/ \E r \in Rows, n \in Names : Pr!setRow(r, n)
           \/ \E c \in sets : Pr!RowSet(c) \/ Pr!RowRefused(c)
    PROVE  PrefsType' /\ PrefsInv'
<1>1. ASSUME NEW r \in Rows, NEW n \in Names, Pr!setRow(r, n) PROVE PrefsType' /\ PrefsInv'
    <2> DEFINE c == [id |-> prefsEdits, rows |-> r, name |-> n, off |-> n \in rows[r], done |-> FALSE]
    <2>1. c \in RowSetting /\ ~c.done
        BY DEF RowSetting, PrefsType
    <2>2. /\ sets' = sets \cup {c} /\ prefsEdits' = prefsEdits + 1
          /\ UNCHANGED <<shown, prefsSaved, inForce, unread, writes, blind, prefsStale, rows, kept, prefsReads, old,
                         prefsCrossed>>
        BY <1>1 DEF Pr!setRow, Pr!Edited, Pr!settings
    <2> HIDE DEF c
    <2>3. PrefsType'
        BY <2>1, <2>2 DEF PrefsType
    <2>4. \A t : Unheard(t)' <=> Unheard(t)
        BY <2>1, <2>2 DEF Unheard
    <2>5. PrefsInv'
        BY <2>2, <2>4 DEF PrefsInv, SettingInv, OneOut, Followed, RowInv, Pr!Out, Pr!ReadsOf
    <2> QED BY <2>3, <2>5
<1>2. ASSUME NEW c \in sets, Pr!RowRefused(c) PROVE PrefsType' /\ PrefsInv'
    <2>1. /\ sets' = sets \ {c} /\ ~c.done
          /\ UNCHANGED <<shown, prefsSaved, inForce, unread, writes, blind, prefsStale, rows, kept, prefsReads, old,
                         prefsEdits, prefsCrossed>>
        BY <1>2 DEF Pr!RowRefused, Pr!settings
    <2>2. PrefsType'
        BY <2>1 DEF PrefsType
    <2>3. \A t : Unheard(t)' <=> Unheard(t)
        BY <2>1 DEF Unheard
    <2>4. PrefsInv'
        BY <2>1, <2>3 DEF PrefsInv, SettingInv, OneOut, Followed, RowInv, Pr!Out, Pr!ReadsOf
    <2> QED BY <2>2, <2>4
<1>3. ASSUME NEW c \in sets, Pr!RowSet(c) PROVE PrefsType' /\ PrefsInv'
    <2> DEFINE d == [c EXCEPT !.done = TRUE]
               now == IF c.off THEN kept[c.rows] \ {c.name} ELSE kept[c.rows] \cup {c.name}
    <2>0. c \in RowSetting /\ c.rows \in Rows /\ c.name \in Names
        BY DEF PrefsType, RowSetting
    <2>1. d \in RowSetting /\ d.rows = c.rows /\ d.done
        BY <2>0 DEF RowSetting
    <2>2. now \in Chosen
        BY <2>0 DEF PrefsType, Chosen
    <2>3. /\ sets' = (sets \ {c}) \cup {d} /\ kept' = [kept EXCEPT ![c.rows] = now] /\ ~c.done
          /\ UNCHANGED <<shown, prefsSaved, inForce, unread, writes, blind, prefsStale, rows, prefsReads, old,
                         prefsEdits, prefsCrossed>>
        BY <1>3 DEF Pr!RowSet, Pr!settings
    <2> HIDE DEF d, now
    <2>4. kept' \in [Rows -> Chosen] /\ \A t \in Rows \ {c.rows} : kept'[t] = kept[t]
        BY <2>0, <2>2, <2>3 DEF PrefsType
    <2>5. PrefsType'
        BY <2>1, <2>3, <2>4 DEF PrefsType
    <2>6. Unheard(c.rows)'
        BY <2>1, <2>3 DEF Unheard
    <2>7. ASSUME NEW t \in Rows \ {c.rows} PROVE Unheard(t)' = Unheard(t) /\ Pr!ReadsOf(t)' = Pr!ReadsOf(t)
        BY <2>1, <2>3 DEF Unheard, Pr!ReadsOf
    <2>8. c.rows \notin prefsCrossed' => RowInv(c.rows)'
        BY <2>0, <2>3, <2>6 DEF PrefsInv, RowInv, Pr!ReadsOf
    <2>9. PrefsInv'
        BY <2>0, <2>3, <2>4, <2>7, <2>8, OtherRowsKept
    <2> QED BY <2>5, <2>9
<1> QED BY <1>1, <1>2, <1>3

\* They are read again: alone, a read brings what is kept, or leaves the rows as they were.
LEMMA RowsKept ==
    ASSUME Pr!PrefsAssumption, PrefsType, PrefsInv,
           \/ \E c \in sets : Pr!RowAnswered(c)
           \/ \E q \in prefsReads : Pr!RowsRead(q) \/ Pr!RowsArrive(q) \/ Pr!RowsFail(q)
    PROVE  PrefsType' /\ PrefsInv'
<1>1. ASSUME NEW c \in sets, Pr!RowAnswered(c) PROVE PrefsType' /\ PrefsInv'
    <2> DEFINE q == [id |-> c.id, rows |-> c.rows, answer |-> None]
    <2>0. c \in RowSetting /\ c.rows \in Rows
        BY DEF PrefsType, RowSetting
    <2>1. q \in RowsRead /\ q.rows = c.rows /\ q.answer = None
        BY <2>0 DEF RowsRead, RowSetting
    <2>2. /\ sets' = sets \ {c} /\ prefsReads' = prefsReads \cup {q}
          /\ prefsCrossed' = IF Pr!ReadsOf(c.rows) # {} THEN prefsCrossed \cup {c.rows} ELSE prefsCrossed
          /\ UNCHANGED <<shown, prefsSaved, inForce, unread, writes, blind, prefsStale, rows, kept, old, prefsEdits>>
        BY <1>1 DEF Pr!RowAnswered, Pr!settings
    <2> HIDE DEF q
    <2>3. PrefsType'
        BY <2>1, <2>2 DEF PrefsType
    <2>4. ASSUME NEW t \in Rows \ {c.rows} PROVE Unheard(t)' = Unheard(t) /\ Pr!ReadsOf(t)' = Pr!ReadsOf(t)
        BY <2>1, <2>2 DEF Unheard, Pr!ReadsOf
    <2>5. ASSUME c.rows \notin prefsCrossed' PROVE RowInv(c.rows)'
        <3>1. Pr!ReadsOf(c.rows) = {}
            BY <2>2, <2>5
        <3>2. Pr!ReadsOf(c.rows)' = {q}
            BY <2>1, <2>2, <3>1 DEF Pr!ReadsOf
        <3> QED BY <2>1, <3>2 DEF RowInv
    <2>6. PrefsInv'
        BY <2>0, <2>2, <2>4, <2>5, OtherRowsKept
    <2> QED BY <2>3, <2>6
<1>2. ASSUME NEW q \in prefsReads, Pr!RowsRead(q) PROVE PrefsType' /\ PrefsInv'
    <2> DEFINE p == [q EXCEPT !.answer = kept[q.rows]]
    <2>0. q \in RowsRead /\ q.rows \in Rows
        BY DEF PrefsType, RowsRead
    <2>a. kept[q.rows] \in Chosen
        BY <2>0 DEF PrefsType
    <2>1. p \in RowsRead /\ p.rows = q.rows /\ p.answer = kept[q.rows]
        BY <2>0, <2>a DEF RowsRead
    <2>2. /\ prefsReads' = (prefsReads \ {q}) \cup {p}
          /\ prefsCrossed' = IF Pr!ReadsOf(q.rows) = {q} THEN prefsCrossed \ {q.rows} ELSE prefsCrossed
          /\ UNCHANGED <<shown, prefsSaved, inForce, unread, writes, blind, prefsStale, rows, kept, sets, old,
                         prefsEdits>>
        BY <1>2 DEF Pr!RowsRead, Pr!settings
    <2> HIDE DEF p
    <2>3. PrefsType'
        BY <2>1, <2>2 DEF PrefsType
    <2>4. ASSUME NEW t \in Rows \ {q.rows} PROVE Unheard(t)' = Unheard(t) /\ Pr!ReadsOf(t)' = Pr!ReadsOf(t)
        BY <2>1, <2>2 DEF Unheard, Pr!ReadsOf
    <2>5. ASSUME q.rows \notin prefsCrossed' PROVE RowInv(q.rows)'
        <3>1. q \in Pr!ReadsOf(q.rows)
            BY DEF Pr!ReadsOf
        <3>2. Pr!ReadsOf(q.rows) = {q}
            BY <2>0, <2>2, <2>5, <3>1 DEF PrefsInv, RowInv
        <3>3. Pr!ReadsOf(q.rows)' = {p}
            BY <2>1, <2>2, <3>2 DEF Pr!ReadsOf
        <3> QED BY <2>1, <2>2, <3>3 DEF RowInv
    <2>6. PrefsInv'
        BY <2>0, <2>2, <2>4, <2>5, OtherRowsKept
    <2> QED BY <2>3, <2>6
<1>3. ASSUME NEW q \in prefsReads, Pr!RowsArrive(q) \/ Pr!RowsFail(q) PROVE PrefsType' /\ PrefsInv'
    <2>0. q \in RowsRead /\ q.rows \in Rows /\ q.answer \in Chosen \cup {None} /\ q \in Pr!ReadsOf(q.rows)
        BY DEF PrefsType, RowsRead, Pr!ReadsOf
    <2>1. /\ prefsReads' = prefsReads \ {q} /\ prefsCrossed' = prefsCrossed
          /\ UNCHANGED <<shown, prefsSaved, inForce, unread, writes, blind, prefsStale, kept, sets, prefsEdits>>
        BY <1>3 DEF Pr!RowsArrive, Pr!RowsFail, Pr!settings
    <2>2. \/ q.answer # None /\ rows' = [rows EXCEPT ![q.rows] = q.answer] /\ old' = old \ {q.rows}
          \/ rows' = rows /\ old' = old \cup {q.rows}
        BY <1>3 DEF Pr!RowsArrive, Pr!RowsFail
    <2>3. rows' \in [Rows -> Chosen] /\ \A t \in Rows \ {q.rows} : rows'[t] = rows[t]
        BY <2>0, <2>2 DEF PrefsType
    <2>4. PrefsType'
        BY <2>1, <2>3 DEF PrefsType
    <2>5. ASSUME NEW t \in Rows \ {q.rows} PROVE Unheard(t)' = Unheard(t) /\ Pr!ReadsOf(t)' = Pr!ReadsOf(t)
        BY <2>1 DEF Unheard, Pr!ReadsOf
    <2>6. ASSUME q.rows \notin prefsCrossed' PROVE RowInv(q.rows)'
        <3>1. RowInv(q.rows)
            BY <2>0, <2>1, <2>6 DEF PrefsInv
        <3>2. Pr!ReadsOf(q.rows)' = {} /\ (Unheard(q.rows)' <=> Unheard(q.rows))
            BY <2>0, <2>1, <3>1 DEF RowInv, Pr!ReadsOf, Unheard
        <3>3. q.answer # None /\ ~Unheard(q.rows) => q.answer = kept[q.rows]
            BY <2>0, <3>1 DEF RowInv
        <3>4. q.rows \notin old' => q.answer # None /\ rows'[q.rows] = q.answer
            BY <2>0, <2>2 DEF PrefsType
        <3> QED BY <2>1, <3>2, <3>3, <3>4 DEF RowInv
    <2>7. old' \ {q.rows} = old \ {q.rows}
        BY <2>2
    <2>8. PrefsInv'
        BY <2>0, <2>1, <2>3, <2>5, <2>6, <2>7, OtherRowsKept
    <2> QED BY <2>4, <2>8
<1> QED BY <1>1, <1>2, <1>3

LEMMA PrefsKept ==
    ASSUME Pr!PrefsAssumption, PrefsType, PrefsInv, [Pr!Next]_Pr!vars PROVE PrefsType' /\ PrefsInv'
<1>1. ASSUME NEW l \in Lists, NEW n \in Names, Pr!add(l, n) \/ Pr!remove(l, n)
      PROVE  PrefsType' /\ PrefsInv'
    <2>1. l \in Pr!Settings
        BY DEF Pr!Settings
    <2>2. shown[l] \cup {n} \in Chosen /\ shown[l] \ {n} \in Chosen
        BY <2>1 DEF PrefsType, Chosen
    <2> QED BY <1>1, <2>1, <2>2, CommitKept DEF Pr!add, Pr!remove
<1>2. ASSUME NEW s \in Switches, NEW v \in {{}} \cup {{n} : n \in Names}, Pr!choose(s, v)
      PROVE  PrefsType' /\ PrefsInv'
    <2>1. s \in Pr!Settings /\ v \in Chosen
        BY DEF Pr!Settings, Chosen
    <2> QED BY <1>2, <2>1, CommitKept DEF Pr!choose
<1>3. ASSUME UNCHANGED <<shown, prefsSaved, inForce, unread, writes, blind, prefsStale, rows, kept, sets, prefsReads,
                         old, prefsCrossed>>, prefsEdits' \in Nat
      PROVE  PrefsType' /\ PrefsInv'
    BY <1>3 DEF PrefsType, PrefsInv, SettingInv, RowInv, OneOut, Followed, Unheard, Pr!Out, Pr!ReadsOf
<1>4. CASE \E n \in Gated \cup Free : Pr!toggle(n)
    <2>1. /\ UNCHANGED <<shown, prefsSaved, inForce, unread, writes, blind, prefsStale, rows, kept, sets, prefsReads,
                         old, prefsCrossed>>
          /\ prefsEdits' = prefsEdits + 1
        BY <1>4 DEF Pr!toggle, Pr!Edited, Pr!settings, Pr!rowVars
    <2> QED BY <1>3, <2>1 DEF PrefsType
<1>5. CASE \E next \in asking, yes \in BOOLEAN : Pr!AllowedToNotify(next, yes)
    BY <1>3, <1>5 DEF Pr!AllowedToNotify, Pr!settings, Pr!rowVars, PrefsType
<1>6. CASE UNCHANGED Pr!vars
    BY <1>3, <1>6 DEF Pr!vars, Pr!settings, Pr!rowVars, PrefsType
<1>7. CASE \E s \in Pr!Settings : Pr!ReadArrives(s)
    BY <1>7, ReadKept
<1>8. CASE \E w \in writes : \/ Pr!Written(w) \/ Pr!Refused(w) \/ Pr!PutBack(w) \/ Pr!Reread(w)
                             \/ Pr!Loaded(w) \/ Pr!RereadFails(w)
    BY <1>8, WrittenKept, RefusedKept, RereadKept
<1>9. CASE \/ \E r \in Rows, n \in Names : Pr!setRow(r, n)
           \/ \E c \in sets : Pr!RowSet(c) \/ Pr!RowRefused(c)
    BY <1>9, SetKept
<1>10. CASE \/ \E c \in sets : Pr!RowAnswered(c)
            \/ \E q \in prefsReads : Pr!RowsRead(q) \/ Pr!RowsArrive(q) \/ Pr!RowsFail(q)
    BY <1>10, RowsKept
<1> QED BY <1>1, <1>2, <1>4, <1>5, <1>6, <1>7, <1>8, <1>9, <1>10 DEF Pr!Next

\* With nothing of a setting out, the page shows what is saved and what raises a line is
\* the same, after any saves, refusals and rereads that may fail, and the rows are what
\* is kept, for any lists, switches and rows, but for the exceptions the property names
\* (NotificationsPage.tsx, highlights.ts).
THEOREM ScreenCorrect == ASSUME Pr!PrefsAssumption PROVE Pr!Spec => []Pr!ScreenIsSaved
<1>1. Pr!Init => PrefsType /\ PrefsInv
    BY PrefsInit
<1>2. PrefsType /\ PrefsInv /\ [Pr!Next]_Pr!vars => (PrefsType /\ PrefsInv)'
    BY PrefsKept
<1>3. PrefsInv => Pr!ScreenIsSaved
    <2>1. \A r : Pr!Still(r) => Pr!ReadsOf(r) = {} /\ ~Unheard(r)
        BY DEF Pr!Still, Unheard
    <2> QED BY <2>1 DEF PrefsInv, SettingInv, RowInv, Followed, Pr!ScreenIsSaved
<1> QED BY <1>1, <1>2, <1>3, PTL DEF Pr!Spec

-----------------------------------------------------------------------------
(* The archive (Archive).                                                  *)

Scope == Ar!Places \cup {Ar!Everything}
Answer ==
    [place : Scope, messages : SUBSET (Networks \X Targets), network : Windows \cup {None},
     target : Windows \cup {None}]
PageRead == [id : {"move", "call", "first"} \X Nat, place : Scope, answer : Answer \cup {None}]
PageCall ==
    [id : Nat, what : {"keep", "copy", "delete"}, scope : Scope, days : Windows \cup {None},
     here : Scope, ours : BOOLEAN, done : BOOLEAN]

ArchiveType ==
    /\ here \in Scope /\ messages \in SUBSET (Networks \X Targets)
    /\ days \in [Ar!Places -> Windows \cup {None}]
    /\ archivePending \in Scope \cup {None} /\ archiveSaving \in Scope \cup {None}
    /\ reads \subseteq PageRead /\ calls \subseteq PageCall
    /\ archiveMoves \in Nat /\ asks \in Nat

\* A deletion that is out was agreed to.
DeleteInv == \A c \in calls : c.what = "delete" => c.scope \in agreed

\* Where nothing crossed, the page's one read is of where the reader is, and what it
\* brings is what is kept, unless a call that changed that is still to come back.
Changed == \E c \in calls : c.done /\ c.what # "copy"
SummaryInv ==
    ~astray =>
        /\ \A r, s \in reads : r = s
        /\ \A r \in reads : r.place = here
        /\ \A c \in calls : c.here = here /\ c.ours = TRUE
        /\ ~Changed /\ reads = {} /\ ~failed => summary = Ar!Summary(here)
        /\ ~Changed => \A r \in reads : r.answer # None => r.answer = Ar!Summary(here)

LEMMA SummaryType ==
    ASSUME ArchiveType, NEW place \in Scope
    PROVE  Ar!Summary(place) \in Answer
<1>1. place.network # None => [network |-> place.network, target |-> None] \in Ar!Places
    <2>1. SUFFICES ASSUME place.network # None PROVE [network |-> place.network, target |-> None] \in Ar!Places
        OBVIOUS
    <2>2. place.network \in Networks
        BY <2>1 DEF Scope, Ar!Places, Ar!Everything
    <2> QED BY <2>2 DEF Ar!Places
<1>2. place.target # None => place \in Ar!Places
    BY DEF Scope, Ar!Places, Ar!Everything
<1> QED BY <1>1, <1>2 DEF Ar!Summary, Answer, ArchiveType

LEMMA AskedType ==
    ASSUME ArchiveType, NEW what \in {"keep", "copy", "delete"}, NEW scope \in Scope,
           NEW window \in Windows \cup {None}
    PROVE  Ar!Asks(Ar!Call(what, scope, window)) =>
             /\ asks' \in Nat
             /\ \E c \in PageCall :
                  /\ c.what = what /\ c.scope = scope /\ c.here = here /\ c.done = FALSE /\ c.ours = TRUE
                  /\ calls' = calls \cup {c}
<1> DEFINE c == [id |-> asks, what |-> what, scope |-> scope, days |-> window, here |-> here,
                 ours |-> TRUE, done |-> FALSE]
<1>1. c \in PageCall /\ c.what = what /\ c.scope = scope /\ c.here = here /\ c.done = FALSE /\ c.ours = TRUE
    BY DEF ArchiveType, PageCall
<1>2. Ar!Asks(Ar!Call(what, scope, window)) => asks' = asks + 1 /\ calls' = calls \cup {c}
    BY DEF Ar!Asks, Ar!Call
<1> HIDE DEF c
<1> QED BY <1>1, <1>2 DEF ArchiveType

LEMMA ReadType ==
    ASSUME ArchiveType
    PROVE  /\ \A place \in Scope : Ar!Read(<<"move", archiveMoves>>, place) \in PageRead
           /\ \A place \in Scope : Ar!Read(<<"first", 0>>, place) \in PageRead
           /\ \A c \in calls : Ar!Read(<<"call", c.id>>, c.here) \in PageRead
           /\ \A id, place : Ar!Read(id, place).answer = None /\ Ar!Read(id, place).place = place
<1>1. \A c \in calls : c.id \in Nat /\ c.here \in Scope
    BY DEF ArchiveType, PageCall
<1>2. archiveMoves \in Nat
    BY DEF ArchiveType
<1>3. ASSUME NEW w \in {"move", "call", "first"}, NEW n \in Nat, NEW place \in Scope
      PROVE  Ar!Read(<<w, n>>, place) \in PageRead
    BY DEF Ar!Read, PageRead
<1> QED BY <1>1, <1>2, <1>3 DEF Ar!Read

\* What a read or a call becomes.
LEMMA AnsweredRead ==
    ASSUME ArchiveType, NEW r \in reads
    PROVE  LET q == [r EXCEPT !.answer = Ar!Summary(r.place)]
           IN  q \in PageRead /\ q.place = r.place /\ q.answer = Ar!Summary(r.place)
<1>1. r \in PageRead /\ r.place \in Scope
    BY DEF ArchiveType, PageRead
<1>2. Ar!Summary(r.place) \in Answer
    BY <1>1, SummaryType
<1> QED BY <1>1, <1>2 DEF PageRead

LEMMA TakenCall ==
    ASSUME ArchiveType, NEW c \in calls
    PROVE  LET d == [c EXCEPT !.done = TRUE]
           IN  /\ d \in PageCall /\ d.what = c.what /\ d.scope = c.scope /\ d.here = c.here /\ d.id = c.id
               /\ d.done = TRUE /\ d.ours = c.ours
<1>1. c \in PageCall
    BY DEF ArchiveType
<1> QED BY <1>1 DEF PageCall

\* The calls of a page that was left are the calls, no longer the page's.
LEMMA CallsLeft ==
    ASSUME ArchiveType, NEW c \in calls
    PROVE  LET d == [c EXCEPT !.ours = FALSE]
           IN  d \in PageCall /\ d.what = c.what /\ d.scope = c.scope
<1>1. c \in PageCall
    BY DEF ArchiveType
<1> QED BY <1>1 DEF PageCall

LEMMA ArchiveInit == ASSUME Ar!ArchiveAssumption, Ar!Init PROVE ArchiveType /\ DeleteInv /\ SummaryInv
<1>1. here \in Scope /\ reads = {Ar!Read(<<"first", 0>>, here)} /\ calls = {}
    BY DEF Ar!Init, Scope
<1>2. Ar!Read(<<"first", 0>>, here) \in PageRead
    BY <1>1 DEF PageRead, Ar!Read
<1>3. ArchiveType
    BY <1>1, <1>2 DEF Ar!Init, ArchiveType, Ar!ArchiveAssumption
<1>4. Ar!Read(<<"first", 0>>, here).answer = None /\ Ar!Read(<<"first", 0>>, here).place = here
    BY DEF Ar!Read
<1>5. SummaryInv
    BY <1>1, <1>4 DEF SummaryInv
<1>6. DeleteInv
    BY <1>1 DEF DeleteInv
<1> QED BY <1>3, <1>5, <1>6

LEMMA ArchiveTypeKept ==
    ASSUME Ar!ArchiveAssumption, ArchiveType, [Ar!Next]_Ar!vars
    PROVE  ArchiveType'
<1>0. ASSUME NEW what \in {"keep", "copy", "delete"}, NEW scope \in Scope,
             NEW window \in Windows \cup {None}, Ar!Asks(Ar!Call(what, scope, window))
      PROVE  asks' \in Nat /\ calls' \subseteq PageCall
    <2>1. asks' \in Nat /\ \E c \in PageCall : calls' = calls \cup {c}
        BY <1>0, AskedType
    <2> QED BY <2>1 DEF ArchiveType
<1> USE DEF ArchiveType
<1>1. ASSUME NEW place \in Scope, Ar!Focus(place) PROVE ArchiveType'
    BY <1>1, ReadType DEF Ar!Focus
<1>2. ASSUME NEW r \in reads, Ar!Answered(r) PROVE ArchiveType'
    BY <1>2, AnsweredRead DEF Ar!Answered, Ar!counts
<1>3. ASSUME NEW r \in reads, NEW fails \in BOOLEAN, Ar!Shown(r, fails) PROVE ArchiveType'
    BY <1>3 DEF Ar!Shown, Ar!counts
<1>4. ASSUME NEW place \in Ar!Places, NEW w \in Windows, Ar!keepFor(place, w) PROVE ArchiveType'
    <2>1. place \in Scope
        BY DEF Scope
    <2>2. Ar!Asks(Ar!Call("keep", place, w))
        BY <1>4 DEF Ar!keepFor
    <2>3. asks' \in Nat /\ calls' \subseteq PageCall
        BY <1>0, <2>1, <2>2
    <2> QED BY <1>4, <2>3 DEF Ar!keepFor
<1>5. CASE Ar!Named
    <2>1. archiveSaving \in Scope /\ Ar!Asks(Ar!Call("copy", archiveSaving, None))
        BY <1>5 DEF Ar!Named
    <2>2. asks' \in Nat /\ calls' \subseteq PageCall
        BY <1>0, <2>1
    <2> QED BY <1>5, <2>2 DEF Ar!Named
<1>13. ASSUME (\E scope \in Scope : Ar!exportTo(scope)) \/ Ar!Dismissed PROVE ArchiveType'
    BY <1>13 DEF Ar!exportTo, Ar!Dismissed, Ar!counts
<1>14. CASE Ar!Leave
    <2>1. \A c \in calls : [c EXCEPT !.ours = FALSE] \in PageCall
        BY CallsLeft
    <2>2. Ar!Read(<<"move", archiveMoves>>, here) \in PageRead
        BY ReadType
    <2>3. calls' = {[c EXCEPT !.ours = FALSE] : c \in calls} /\ reads' = {Ar!Read(<<"move", archiveMoves>>, here)}
        BY <1>14 DEF Ar!Leave
    <2>4. calls' \subseteq PageCall /\ reads' \subseteq PageRead
        BY <2>1, <2>2, <2>3
    <2> QED BY <1>14, <2>4 DEF Ar!Leave
<1>6. ASSUME NEW scope \in Scope, Ar!AskDelete(scope) PROVE ArchiveType'
    BY <1>6 DEF Ar!AskDelete, Ar!counts
<1>7. CASE Ar!KeepIt
    BY <1>7 DEF Ar!KeepIt, Ar!counts
<1>8. CASE Ar!destroy
    <2>1. archivePending \in Scope /\ Ar!Asks(Ar!Call("delete", archivePending, None))
        BY <1>8 DEF Ar!destroy
    <2>2. asks' \in Nat /\ calls' \subseteq PageCall
        BY <1>0, <2>1
    <2> QED BY <1>8, <2>2 DEF Ar!destroy
<1>9. ASSUME NEW c \in calls, Ar!Taken(c) PROVE ArchiveType'
    <2>1. c.days \in Windows \cup {None}
        BY DEF PageCall
    <2>2. days' \in [Ar!Places -> Windows \cup {None}]
        BY <1>9, <2>1 DEF Ar!Taken
    <2>3. calls' \subseteq PageCall
        BY <1>9, TakenCall DEF Ar!Taken
    <2>4. messages' \in SUBSET (Networks \X Targets)
        BY <1>9 DEF Ar!Taken
    <2> QED BY <1>9, <2>2, <2>3, <2>4 DEF Ar!Taken, Ar!counts
<1>10. ASSUME NEW c \in calls, Ar!Succeeded(c) PROVE ArchiveType'
    BY <1>10, ReadType DEF Ar!Succeeded, Ar!Ended, Ar!counts
<1>11. ASSUME NEW c \in calls, Ar!Failed(c) PROVE ArchiveType'
    BY <1>11 DEF Ar!Failed, Ar!Ended, Ar!counts
<1>12. CASE UNCHANGED Ar!vars
    BY <1>12 DEF Ar!vars, Ar!counts
<1> QED
    BY <1>1, <1>2, <1>3, <1>4, <1>5, <1>6, <1>7, <1>8, <1>9, <1>10, <1>11, <1>12, <1>13, <1>14 DEF Ar!Next, Scope

\* A deletion goes out as it is agreed to, and what was agreed to stays so.
LEMMA DeleteKept ==
    ASSUME ArchiveType, DeleteInv, [Ar!Next]_Ar!vars
    PROVE  DeleteInv'
<1> USE DEF DeleteInv
<1>1. ASSUME NEW what \in {"keep", "copy"}, NEW scope \in Scope, NEW window \in Windows \cup {None},
             Ar!Asks(Ar!Call(what, scope, window)), agreed' = agreed
      PROVE  DeleteInv'
    <2>1. what \in {"keep", "copy", "delete"}
        BY <1>1
    <2>2. PICK c : c.what = what /\ calls' = calls \cup {c}
        BY <1>1, <2>1, AskedType
    <2>3. c.what # "delete"
        BY <1>1, <2>2
    <2> QED BY <1>1, <2>2, <2>3
<1>2. ASSUME NEW place \in Ar!Places, NEW w \in Windows, Ar!keepFor(place, w) PROVE DeleteInv'
    BY <1>1, <1>2 DEF Ar!keepFor, Scope
<1>3. CASE Ar!Named
    BY <1>1, <1>3 DEF Ar!Named, ArchiveType
<1>4. CASE Ar!destroy
    <2>1. /\ archivePending \in Scope /\ Ar!Asks(Ar!Call("delete", archivePending, None))
          /\ agreed' = agreed \cup {archivePending}
        BY <1>4 DEF Ar!destroy, ArchiveType
    <2>2. PICK c : c.scope = archivePending /\ calls' = calls \cup {c}
        BY <2>1, AskedType
    <2> QED BY <2>1, <2>2
<1>5. CASE Ar!Leave
    <2>1. \A c \in calls : /\ [c EXCEPT !.ours = FALSE].what = c.what
                           /\ [c EXCEPT !.ours = FALSE].scope = c.scope
        BY CallsLeft
    <2>2. calls' = {[c EXCEPT !.ours = FALSE] : c \in calls} /\ agreed' = agreed
        BY <1>5 DEF Ar!Leave
    <2>3. \A d \in calls' : \E c \in calls : d.what = c.what /\ d.scope = c.scope
        BY <2>1, <2>2
    <2> QED BY <2>2, <2>3
<1>6. ASSUME NEW c \in calls, Ar!Taken(c) PROVE DeleteInv'
    <2> DEFINE d == [c EXCEPT !.done = TRUE]
    <2>1. d.what = c.what /\ d.scope = c.scope
        BY TakenCall
    <2>2. calls' = (calls \ {c}) \cup {d} /\ agreed' = agreed
        BY <1>6 DEF Ar!Taken, Ar!counts
    <2> HIDE DEF d
    <2> QED BY <2>1, <2>2
<1>7. CASE calls' \subseteq calls /\ agreed' = agreed
    BY <1>7
<1> QED
    BY <1>2, <1>3, <1>4, <1>5, <1>6, <1>7
    DEF Ar!Next, Ar!vars, Ar!counts, Ar!Focus, Ar!Answered, Ar!Shown, Ar!exportTo, Ar!Dismissed, Ar!AskDelete,
        Ar!KeepIt, Ar!Succeeded, Ar!Failed, Ar!Ended

\* What a read would show depends on what is kept and on nothing else of the page.
LEMMA SameSummary ==
    ASSUME messages' = messages, days' = days
    PROVE  \A place : Ar!Summary(place)' = Ar!Summary(place)
BY DEF Ar!Summary

LEMMA SummaryKept ==
    ASSUME ArchiveType, SummaryInv, [Ar!Next]_Ar!vars
    PROVE  SummaryInv'
<1> SUFFICES ASSUME ~astray' PROVE SummaryInv'
    BY DEF SummaryInv
<1>0. ~astray
    BY DEF Ar!Next, Ar!vars, Ar!Focus, Ar!Answered, Ar!Shown, Ar!Leave, Ar!keepFor, Ar!exportTo, Ar!Named,
           Ar!Dismissed, Ar!AskDelete, Ar!KeepIt, Ar!destroy, Ar!Taken, Ar!Succeeded, Ar!Failed
<1>i. /\ \A r, s \in reads : r = s
      /\ \A r \in reads : r.place = here
      /\ \A c \in calls : c.here = here /\ c.ours = TRUE
      /\ ~Changed /\ reads = {} /\ ~failed => summary = Ar!Summary(here)
      /\ ~Changed => \A r \in reads : r.answer # None => r.answer = Ar!Summary(here)
    BY <1>0 DEF SummaryInv
<1>1. ASSUME NEW place \in Scope, Ar!Focus(place) PROVE SummaryInv'
    <2>1. /\ calls = {} /\ here' = place /\ calls' = calls
          /\ reads' = {Ar!Read(<<"move", archiveMoves>>, place)}
        BY <1>1 DEF Ar!Focus
    <2>2. \A r \in reads' : r.place = here' /\ r.answer = None
        BY <2>1, ReadType
    <2>3. reads' # {} /\ \A r, s \in reads' : r = s
        BY <2>1
    <2> QED BY <2>1, <2>2, <2>3 DEF SummaryInv
<1>2. ASSUME NEW r \in reads, Ar!Answered(r) PROVE SummaryInv'
    <2> DEFINE q == [r EXCEPT !.answer = Ar!Summary(r.place)]
    <2>1. /\ reads' = (reads \ {r}) \cup {q} /\ calls' = calls /\ here' = here
          /\ messages' = messages /\ days' = days /\ failed' = failed
        BY <1>2 DEF Ar!Answered
    <2>2. q.place = here /\ q.answer = Ar!Summary(here) /\ Ar!Summary(here)' = Ar!Summary(here)
        BY <1>i, <2>1, AnsweredRead DEF Ar!Summary
    <2> HIDE DEF q
    <2>3. reads' = {q} /\ Changed' = Changed
        BY <1>i, <2>1 DEF Changed
    <2> QED BY <1>i, <2>1, <2>2, <2>3 DEF SummaryInv
<1>3. ASSUME NEW r \in reads, NEW fails \in BOOLEAN, Ar!Shown(r, fails) PROVE SummaryInv'
    <2>1. /\ reads' = reads \ {r} /\ (~failed' => summary' = r.answer) /\ r.answer # None /\ calls' = calls
          /\ here' = here /\ messages' = messages /\ days' = days
        BY <1>3 DEF Ar!Shown
    <2>2. reads' = {} /\ Changed' = Changed /\ Ar!Summary(here)' = Ar!Summary(here)
        BY <1>i, <2>1 DEF Changed, Ar!Summary
    <2> QED BY <1>i, <2>1, <2>2 DEF SummaryInv
\* Asked for, and nothing done of it yet.
<1>4. ASSUME NEW c, c.done = FALSE, c.here = here, c.ours = TRUE, calls' = calls \cup {c},
             UNCHANGED <<here, messages, days, summary, reads, failed>>
      PROVE  SummaryInv'
    <2>1. Changed' = Changed /\ Ar!Summary(here)' = Ar!Summary(here)
        BY <1>4 DEF Changed, Ar!Summary
    <2> QED BY <1>i, <1>4, <2>1 DEF SummaryInv
<1>5. ASSUME NEW what \in {"keep", "copy", "delete"}, NEW scope \in Scope, NEW window \in Windows \cup {None},
             Ar!Asks(Ar!Call(what, scope, window)), UNCHANGED <<here, messages, days, summary, reads, failed>>
      PROVE  SummaryInv'
    <2>1. PICK c : c.done = FALSE /\ c.here = here /\ c.ours = TRUE /\ calls' = calls \cup {c}
        BY <1>5, AskedType
    <2> QED BY <1>4, <1>5, <2>1
<1>6. ASSUME NEW c \in calls, Ar!Taken(c) PROVE SummaryInv'
    <2> DEFINE d == [c EXCEPT !.done = TRUE]
    <2>1. d.what = c.what /\ d.here = c.here /\ d.done = TRUE /\ d.ours = c.ours
        BY TakenCall
    <2>2. /\ calls' = (calls \ {c}) \cup {d} /\ here' = here /\ reads' = reads /\ summary' = summary
          /\ c.done = FALSE /\ failed' = failed
        BY <1>6 DEF Ar!Taken, ArchiveType, PageCall
    <2> HIDE DEF d
    <2>3. CASE c.what # "copy"
        BY <1>i, <2>1, <2>2, <2>3 DEF SummaryInv, Changed
    <2>4. CASE c.what = "copy"
        <3>1. messages' = messages /\ days' = days
            BY <1>6, <2>4 DEF Ar!Taken
        <3>2. Changed' = Changed /\ Ar!Summary(here)' = Ar!Summary(here)
            BY <2>1, <2>2, <2>4, <3>1 DEF Changed, Ar!Summary
        <3> QED BY <1>i, <2>1, <2>2, <3>2 DEF SummaryInv
    <2> QED BY <2>3, <2>4
<1>7. ASSUME NEW c \in calls, Ar!Succeeded(c) PROVE SummaryInv'
    <2>1. /\ calls' = calls \ {c} /\ here' = here /\ summary' = summary /\ messages' = messages
          /\ days' = days /\ c.done /\ failed' = failed
        BY <1>7 DEF Ar!Succeeded, Ar!Ended
    <2>2. Ar!Summary(here)' = Ar!Summary(here)
        BY <2>1 DEF Ar!Summary
    <2>3. CASE c.what = "copy"
        <3>1. reads' = reads /\ Changed' = Changed
            BY <1>7, <2>1, <2>3 DEF Ar!Succeeded, Ar!ReadsBack, Changed
        <3> QED BY <1>i, <2>1, <2>2, <3>1 DEF SummaryInv
    <2>4. CASE c.what # "copy"
        <3>a. Ar!ReadsBack(c)
            BY <1>i, <2>4 DEF Ar!ReadsBack
        <3>1. reads' = {Ar!Read(<<"call", c.id>>, c.here)}
            BY <1>7, <3>a DEF Ar!Succeeded
        <3>2. \A r \in reads' : r.place = here /\ r.answer = None
            BY <1>i, <3>1, ReadType
        <3> QED BY <1>i, <2>1, <3>1, <3>2 DEF SummaryInv
    <2> QED BY <2>3, <2>4
<1>8. ASSUME NEW c \in calls, Ar!Failed(c) PROVE SummaryInv'
    <2>1. /\ calls' = calls \ {c} /\ ~c.done /\ UNCHANGED <<here, messages, days, summary, reads, failed>>
        BY <1>8 DEF Ar!Failed, Ar!Ended
    <2>2. Changed' = Changed /\ Ar!Summary(here)' = Ar!Summary(here)
        BY <2>1 DEF Changed, Ar!Summary
    <2> QED BY <1>i, <2>1, <2>2 DEF SummaryInv
<1>9. ASSUME UNCHANGED <<here, messages, days, summary, reads, calls, failed>> PROVE SummaryInv'
    <2>1. Changed' = Changed /\ Ar!Summary(here)' = Ar!Summary(here)
        BY <1>9 DEF Changed, Ar!Summary
    <2> QED BY <1>i, <1>9, <2>1 DEF SummaryInv
<1>10. ASSUME NEW place \in Ar!Places, NEW w \in Windows, Ar!keepFor(place, w) PROVE SummaryInv'
    <2>1. place \in Scope /\ Ar!Asks(Ar!Call("keep", place, w))
        BY <1>10 DEF Ar!keepFor, Scope
    <2>2. UNCHANGED <<here, messages, days, summary, reads, failed>>
        BY <1>10 DEF Ar!keepFor
    <2> QED BY <1>5, <2>1, <2>2
<1>11. CASE Ar!Named
    <2>1. archiveSaving \in Scope /\ Ar!Asks(Ar!Call("copy", archiveSaving, None))
        BY <1>11 DEF Ar!Named, ArchiveType
    <2>2. UNCHANGED <<here, messages, days, summary, reads, failed>>
        BY <1>11 DEF Ar!Named
    <2>3. PICK scope \in Scope : Ar!Asks(Ar!Call("copy", scope, None))
        BY <2>1
    <2> QED BY <1>5, <2>2, <2>3
<1>12. CASE Ar!destroy
    <2>1. archivePending \in Scope /\ Ar!Asks(Ar!Call("delete", archivePending, None))
        BY <1>12 DEF Ar!destroy, ArchiveType
    <2>2. UNCHANGED <<here, messages, days, summary, reads, failed>>
        BY <1>12 DEF Ar!destroy
    <2>3. PICK scope \in Scope : Ar!Asks(Ar!Call("delete", scope, None))
        BY <2>1
    <2> QED BY <1>5, <2>2, <2>3
<1>13. ASSUME \/ Ar!KeepIt \/ Ar!Dismissed \/ UNCHANGED Ar!vars
              \/ \E scope \in Scope : Ar!AskDelete(scope) \/ Ar!exportTo(scope)
       PROVE  SummaryInv'
    <2>1. UNCHANGED <<here, messages, days, summary, reads, calls, failed>>
        BY <1>13 DEF Ar!KeepIt, Ar!AskDelete, Ar!exportTo, Ar!Dismissed, Ar!vars
    <2> QED BY <1>9, <2>1
<1>14. CASE Ar!Leave
    <2>1. /\ calls = {} /\ here' = here /\ calls' = {[c EXCEPT !.ours = FALSE] : c \in calls}
          /\ reads' = {Ar!Read(<<"move", archiveMoves>>, here)}
        BY <1>14 DEF Ar!Leave
    <2>2. \A r \in reads' : r.place = here' /\ r.answer = None
        BY <2>1, ReadType DEF ArchiveType
    <2>3. calls' = {} /\ reads' # {} /\ \A r, s \in reads' : r = s
        BY <2>1
    <2> QED BY <2>2, <2>3 DEF SummaryInv
<1> QED
    BY <1>1, <1>2, <1>3, <1>6, <1>7, <1>8, <1>10, <1>11, <1>12, <1>13, <1>14 DEF Ar!Next, Scope

LEMMA ArchiveInductive ==
    ASSUME Ar!ArchiveAssumption
    PROVE  Ar!Spec => [](ArchiveType /\ DeleteInv /\ SummaryInv)
<1>1. Ar!Init => ArchiveType /\ DeleteInv /\ SummaryInv
    BY ArchiveInit
<1>2. ArchiveType /\ DeleteInv /\ SummaryInv /\ [Ar!Next]_Ar!vars => (ArchiveType /\ DeleteInv /\ SummaryInv)'
    BY ArchiveTypeKept, DeleteKept, SummaryKept
<1> QED BY <1>1, <1>2, PTL DEF Ar!Spec

\* A deletion takes nothing but what a confirmation named that was agreed to, however far
\* the reader has moved since, whatever page was left with it out, for any networks and
\* conversations (PrivacyPage.tsx).
THEOREM DeletedCorrect ==
    ASSUME Ar!ArchiveAssumption
    PROVE  Ar!Spec => Ar!DeletedAsNamed
<1>1. DeleteInv /\ [Ar!Next]_Ar!vars =>
        [messages' # messages => \E scope \in agreed : messages \ messages' \subseteq Ar!Within(scope)]_Ar!vars
    <2> SUFFICES ASSUME DeleteInv, Ar!Next, messages' # messages
                 PROVE  \E scope \in agreed : messages \ messages' \subseteq Ar!Within(scope)
        BY DEF Ar!vars
    <2>1. PICK c \in calls : Ar!Taken(c)
        BY DEF Ar!Next, Ar!Focus, Ar!Answered, Ar!Shown, Ar!Leave, Ar!keepFor, Ar!exportTo, Ar!Named, Ar!Dismissed,
               Ar!AskDelete, Ar!KeepIt, Ar!destroy, Ar!Succeeded, Ar!Failed
    <2>2. c.what = "delete" /\ messages' = messages \ Ar!Within(c.scope)
        BY <2>1 DEF Ar!Taken
    <2> QED BY <2>2 DEF DeleteInv
<1> QED BY <1>1, ArchiveInductive, PTL DEF Ar!Spec, Ar!DeletedAsNamed

\* At rest the page shows the windows in force and what is kept, unless the focus moved
\* or the page was left with anything out, two reads were out together, or the last read
\* failed (PrivacyPage.tsx).
THEOREM SummaryCorrect ==
    ASSUME Ar!ArchiveAssumption
    PROVE  Ar!Spec => []Ar!SummaryIsKept
<1>1. SummaryInv => Ar!SummaryIsKept
    BY DEF SummaryInv, Changed, Ar!SummaryIsKept
<1> QED BY <1>1, ArchiveInductive, PTL

-----------------------------------------------------------------------------
(* How the window looks (Appearance).                                      *)

ThemeIds == BuiltIn \cup OnDisk
Listing == [OnDisk -> Versions \cup {"broken", "absent"}]

LookType ==
    /\ disk \in Listing /\ fromDisk \in Listing /\ lookEvents \in Seq(Listing)
    /\ starting = "answering" => listing \in Listing
    /\ themes \in [OnDisk -> Versions \cup {"absent"}]
    /\ themeId \in ThemeIds /\ DOMAIN overrides = ThemeIds /\ DOMAIN lookStored.overrides = ThemeIds

\* What is on the window is what is held, and that is what is chosen.
WornInv ==
    /\ held = Lo!Wanted(themeId, overrides, lookSettings, themes)
    /\ painted = Lo!paint(held, lookSettings.zoom)
\* What is written down is what is chosen, its blank edits aside, and the files of the
\* theme as the directory was last published.
WrittenInv ==
    /\ lookStored = [themeId |-> themeId, installed |-> lookStored.installed,
                     overrides |-> lookStored.overrides, settings |-> lookSettings]
    /\ Lo!sanitiseOverrides(lookStored.overrides) = Lo!sanitiseOverrides(overrides)
    /\ listed => /\ lookStored.installed = Lo!Files(themeId, fromDisk)
                 /\ themes = Lo!catalogue(fromDisk)
LookInv == LookType /\ WornInv /\ WrittenInv

LEMMA CatalogueType == \A installed : Lo!catalogue(installed) \in [OnDisk -> Versions \cup {"absent"}]
BY DEF Lo!catalogue, Lo!loadTheme

LEMMA EmptyListing == Lo!Empty \in Listing
BY DEF Lo!Empty, Listing

\* A record read back twice is as read back once.
LEMMA SanitisedTwice ==
    ASSUME Lo!AppearanceAssumption, NEW edits
    PROVE  /\ Lo!sanitiseOverrides(Lo!sanitiseOverrides(edits)) = Lo!sanitiseOverrides(edits)
           /\ DOMAIN Lo!sanitiseOverrides(edits) = DOMAIN edits
<1> DEFINE s == Lo!sanitiseOverrides(edits)
<1>1. s = [id \in DOMAIN edits |-> [t \in Tokens |-> IF edits[id][t] = "" THEN None ELSE edits[id][t]]]
    BY DEF Lo!sanitiseOverrides
<1>2. None # ""
    BY DEF Lo!AppearanceAssumption
<1>3. \A id \in DOMAIN s, t \in Tokens : s[id][t] # ""
    <2>1. TAKE id \in DOMAIN s, t \in Tokens
    <2>2. id \in DOMAIN edits
        BY <1>1
    <2>3. s[id] = [u \in Tokens |-> IF edits[id][u] = "" THEN None ELSE edits[id][u]]
        BY <1>1, <2>2
    <2>4. s[id][t] = IF edits[id][t] = "" THEN None ELSE edits[id][t]
        BY <2>3
    <2> QED BY <1>2, <2>4
<1>4. \A id \in DOMAIN s : s[id] = [t \in Tokens |-> IF s[id][t] = "" THEN None ELSE s[id][t]]
    BY <1>1, <1>3
<1>5. s = [id \in DOMAIN s |-> s[id]]
    BY <1>1
<1> HIDE DEF s
<1>6. s = [id \in DOMAIN s |-> [t \in Tokens |-> IF s[id][t] = "" THEN None ELSE s[id][t]]]
    BY <1>4, <1>5
<1>7. Lo!sanitiseOverrides(s) = s
    BY <1>6 DEF Lo!sanitiseOverrides
<1>8. DOMAIN s = DOMAIN edits
    BY <1>1
<1> QED BY <1>7, <1>8 DEF s

LEMMA LookInit == ASSUME Lo!AppearanceAssumption, Lo!Init PROVE LookInv
<1>1. lookStored = [themeId |-> Floor, installed |-> None, overrides |-> Lo!NoEdits, settings |-> Lo!Defaults]
    BY DEF Lo!Init
<1>2. themeId = Floor /\ overrides = Lo!NoEdits /\ lookSettings = Lo!Defaults /\ ~listed
      /\ themes = Lo!catalogue(Lo!Remembered(lookStored))
      /\ held = Lo!Opening(lookStored) /\ painted = Lo!paint(held, lookSettings.zoom)
    BY <1>1 DEF Lo!Init
<1>3. Lo!NoEdits = Lo!sanitiseOverrides(Lo!NoEdits) /\ DOMAIN Lo!NoEdits = ThemeIds
    BY DEF Lo!NoEdits, Lo!sanitiseOverrides, ThemeIds, Lo!AppearanceAssumption
<1>4. disk \in Listing /\ fromDisk \in Listing /\ lookEvents \in Seq(Listing) /\ starting # "answering"
    BY EmptyListing, EmptySeq DEF Lo!Init, Listing
<1>5. LookType
    BY <1>1, <1>2, <1>3, <1>4, CatalogueType DEF LookType, ThemeIds, Lo!AppearanceAssumption
<1>6. WornInv
    BY <1>1, <1>2, <1>3 DEF WornInv, Lo!Opening
<1>7. WrittenInv
    BY <1>1, <1>2 DEF WrittenInv
<1> QED BY <1>5, <1>6, <1>7 DEF LookInv

\* A choice: one call puts it on the window, in the store and in the record.
LEMMA ChoiceKept ==
    ASSUME LookInv, NEW id \in ThemeIds, NEW edits, NEW set, NEW laid, NEW files,
           DOMAIN edits = ThemeIds, DOMAIN laid = ThemeIds,
           Lo!sanitiseOverrides(laid) = Lo!sanitiseOverrides(edits),
           Lo!Selected(id, edits, set),
           lookStored' = [themeId |-> id, installed |-> files, overrides |-> laid, settings |-> set],
           listed => files = Lo!Files(id, fromDisk),
           UNCHANGED <<disk, lookEvents, starting, listing, listed, fromDisk, themes>>
    PROVE  LookInv'
<1>1. themeId' = id /\ overrides' = edits /\ lookSettings' = set /\ held' = Lo!Wanted(id, edits, set, themes)
      /\ painted' = Lo!paint(held', set.zoom)
    BY DEF Lo!Selected
<1>2. /\ lookStored'.themeId = id /\ lookStored'.installed = files /\ lookStored'.overrides = laid
      /\ lookStored'.settings = set
    OBVIOUS
<1>3. LookType'
    BY <1>1, <1>2 DEF LookInv, LookType
<1>4. WornInv'
    BY <1>1 DEF WornInv, Lo!Wanted, Lo!Theme
<1>5. WrittenInv'
    BY <1>1, <1>2 DEF LookInv, WrittenInv, Lo!sanitiseOverrides, Lo!Files, Lo!catalogue, Lo!loadTheme
<1> QED BY <1>3, <1>4, <1>5 DEF LookInv

\* The directory as it is published: the theme in force is painted from it.
LEMMA PublishKept ==
    ASSUME LookInv, NEW installed \in Listing, Lo!publish(installed)
    PROVE  /\ WornInv' /\ WrittenInv'
           /\ fromDisk' \in Listing /\ themes' \in [OnDisk -> Versions \cup {"absent"}]
           /\ themeId' \in ThemeIds /\ DOMAIN overrides' = ThemeIds /\ DOMAIN lookStored'.overrides = ThemeIds
<1>1. /\ fromDisk' = installed /\ themes' = Lo!catalogue(installed) /\ listed'
      /\ held' = [held EXCEPT !.theme = Lo!Theme(themeId, themes')]
      /\ painted' = Lo!paint(held', painted.zoom)
      /\ lookStored' = [lookStored EXCEPT !.installed = Lo!Files(themeId, installed)]
      /\ themeId' = themeId /\ overrides' = overrides /\ lookSettings' = lookSettings
    BY DEF Lo!publish
<1>2. held' = Lo!Wanted(themeId, overrides, lookSettings, themes')
    BY <1>1 DEF LookInv, WornInv, Lo!Wanted
<1>3. painted.zoom = lookSettings.zoom
    BY DEF LookInv, WornInv, Lo!paint
<1>4. WornInv'
    BY <1>1, <1>2, <1>3 DEF WornInv
<1>5. lookStored' = [themeId |-> themeId, installed |-> Lo!Files(themeId, installed),
                     overrides |-> lookStored.overrides, settings |-> lookSettings]
    BY <1>1 DEF LookInv, WrittenInv
<1>6. lookStored'.installed = Lo!Files(themeId, installed) /\ lookStored'.overrides = lookStored.overrides
    BY <1>5
<1>7. WrittenInv'
    BY <1>1, <1>5, <1>6 DEF LookInv, WrittenInv
<1>8. themes' \in [OnDisk -> Versions \cup {"absent"}]
    BY <1>1, CatalogueType
<1> QED BY <1>1, <1>4, <1>6, <1>7, <1>8 DEF LookInv, LookType

LEMMA LookStill ==
    ASSUME LookInv, UNCHANGED <<themeId, overrides, lookSettings, held, painted, lookStored, listed, fromDisk, themes>>
    PROVE  WornInv' /\ WrittenInv'
BY DEF LookInv, WornInv, WrittenInv, Lo!Wanted, Lo!Theme, Lo!paint, Lo!Token, Lo!sanitiseOverrides, Lo!Files,
       Lo!catalogue, Lo!loadTheme

\* The reader's choices.
LEMMA Rewritten ==
    ASSUME NEW a, NEW i, NEW o, NEW s, NEW b, NEW j, NEW r, NEW q,
           r = [themeId |-> a, installed |-> i, overrides |-> o, settings |-> s],
           q = [r EXCEPT !.themeId = b, !.installed = j]
    PROVE  q = [themeId |-> b, installed |-> j, overrides |-> o, settings |-> s]
OBVIOUS

LEMMA ThemeChosen ==
    ASSUME LookInv, NEW id \in ThemeIds, Lo!selectTheme(id),
           UNCHANGED <<disk, lookEvents, starting, listing, listed, fromDisk, themes>>
    PROVE  LookInv'
<1> DEFINE files == Lo!Files(id, fromDisk)
<1>0. /\ lookStored' = [lookStored EXCEPT !.themeId = id, !.installed = files]
      /\ lookStored = [themeId |-> themeId, installed |-> lookStored.installed,
                       overrides |-> lookStored.overrides, settings |-> lookSettings]
    BY DEF Lo!selectTheme, LookInv, WrittenInv
<1> HIDE DEF files
<1>a. PICK i, o : lookStored = [themeId |-> themeId, installed |-> i, overrides |-> o, settings |-> lookSettings]
    BY <1>0
<1>b. lookStored.overrides = o
    BY <1>a
<1>c. lookStored' = [themeId |-> id, installed |-> files, overrides |-> o, settings |-> lookSettings]
    BY <1>0, <1>a, Rewritten
<1>1. lookStored' = [themeId |-> id, installed |-> files,
                     overrides |-> lookStored.overrides, settings |-> lookSettings]
    BY <1>b, <1>c
<1>2. Lo!Selected(id, overrides, lookSettings)
    BY DEF Lo!selectTheme
<1> QED BY <1>1, <1>2, ChoiceKept DEF LookInv, LookType, WrittenInv, files

LEMMA EditsChosen ==
    ASSUME LookInv, NEW edits, DOMAIN edits = ThemeIds, Lo!selectOverrides(edits),
           UNCHANGED <<disk, lookEvents, starting, listing, listed, fromDisk, themes>>
    PROVE  LookInv'
<1>1. lookStored' = [themeId |-> themeId, installed |-> lookStored.installed,
                     overrides |-> edits, settings |-> lookSettings]
    BY DEF Lo!selectOverrides, LookInv, WrittenInv
<1>2. Lo!Selected(themeId, edits, lookSettings) /\ themeId \in ThemeIds
    BY DEF Lo!selectOverrides, LookInv, LookType
<1> QED BY <1>1, <1>2, ChoiceKept DEF LookInv, WrittenInv

LEMMA SettingsChosen ==
    ASSUME LookInv, NEW set, Lo!Selected(themeId, overrides, set),
           lookStored' = [lookStored EXCEPT !.settings = lookSettings'],
           UNCHANGED <<disk, lookEvents, starting, listing, listed, fromDisk, themes>>
    PROVE  LookInv'
<1>1. lookSettings' = set
    BY DEF Lo!Selected
<1>2. lookStored' = [themeId |-> themeId, installed |-> lookStored.installed,
                     overrides |-> lookStored.overrides, settings |-> set]
    BY <1>1 DEF LookInv, WrittenInv
<1> QED BY <1>2, ChoiceKept DEF LookInv, LookType, WrittenInv

LEMMA PresetChosen ==
    ASSUME LookInv, NEW id \in ThemeIds, NEW set, Lo!Selected(id, overrides, set),
           lookStored' = [lookStored EXCEPT !.themeId = id, !.installed = Lo!Files(id, fromDisk),
                                            !.settings = lookSettings'],
           UNCHANGED <<disk, lookEvents, starting, listing, listed, fromDisk, themes>>
    PROVE  LookInv'
<1>1. lookSettings' = set
    BY DEF Lo!Selected
<1>2. lookStored' = [themeId |-> id, installed |-> Lo!Files(id, fromDisk),
                     overrides |-> lookStored.overrides, settings |-> set]
    BY <1>1 DEF LookInv, WrittenInv
<1> QED BY <1>2, ChoiceKept DEF LookInv, LookType, WrittenInv

\* A launch opens on what was written down.
LEMMA RestartKept == ASSUME Lo!AppearanceAssumption, LookInv, Lo!Restart PROVE LookInv'
<1>1. /\ themeId' = lookStored.themeId /\ overrides' = Lo!sanitiseOverrides(lookStored.overrides)
      /\ lookSettings' = lookStored.settings /\ lookStored' = lookStored /\ listed' = FALSE
      /\ themes' = Lo!catalogue(Lo!Remembered(lookStored)) /\ held' = Lo!Opening(lookStored)
      /\ painted' = Lo!paint(Lo!Opening(lookStored), lookStored.settings.zoom)
      /\ disk' = disk /\ fromDisk' = Lo!Empty /\ lookEvents' = <<>> /\ starting' = "subscribing"
    BY DEF Lo!Restart
<1>2. lookStored.themeId = themeId /\ lookStored.settings = lookSettings
    BY DEF LookInv, WrittenInv
<1>3. LookType'
    BY <1>1, <1>2, CatalogueType, EmptyListing, EmptySeq, SanitisedTwice DEF LookInv, LookType
<1>4. WornInv'
    BY <1>1 DEF WornInv, Lo!Opening
<1>5. WrittenInv'
    BY <1>1, <1>2, SanitisedTwice DEF LookInv, WrittenInv
<1> QED BY <1>3, <1>4, <1>5 DEF LookInv

LEMMA LookKept == ASSUME Lo!AppearanceAssumption, LookInv, [Lo!Next]_Lo!vars PROVE LookInv'
<1>1. CASE Lo!Restart
    BY <1>1, RestartKept
<1>2. CASE Lo!Subscribed \/ (\E token \in Tokens : Lo!Refuses(token)) \/ Lo!Back
           \/ (\E id \in OnDisk : Lo!install(id) \/ Lo!InstallRefused(id)) \/ UNCHANGED Lo!vars
    <2>1. UNCHANGED <<themeId, overrides, lookSettings, held, painted, lookStored, listed, fromDisk, themes,
                      disk, lookEvents, listing>>
        BY <1>2 DEF Lo!Subscribed, Lo!Refuses, Lo!Back, Lo!install, Lo!InstallRefused, Lo!chosen, Lo!directory,
                    Lo!session, Lo!vars
    <2>2. starting' = "answering" => starting = "answering"
        BY <1>2 DEF Lo!Subscribed, Lo!Refuses, Lo!Back, Lo!install, Lo!InstallRefused, Lo!chosen, Lo!directory,
                    Lo!session, Lo!vars
    <2>3. LookType'
        BY <2>1, <2>2 DEF LookInv, LookType
    <2> QED BY <2>1, <2>3, LookStill DEF LookInv
<1>3. CASE Lo!Reads
    <2>1. UNCHANGED <<themeId, overrides, lookSettings, held, painted, lookStored, listed, fromDisk, themes,
                      disk, lookEvents>> /\ listing' = disk
        BY <1>3 DEF Lo!Reads, Lo!chosen, Lo!directory
    <2>2. LookType'
        BY <2>1 DEF LookInv, LookType
    <2> QED BY <2>1, <2>2, LookStill DEF LookInv
<1>4. CASE Lo!Listed
    <2>1. Lo!publish(listing) /\ listing \in Listing /\ starting' = "watching" /\ disk' = disk
          /\ lookEvents' = lookEvents
        BY <1>4 DEF Lo!Listed, Lo!directory, LookInv, LookType
    <2> QED BY <2>1, PublishKept DEF LookInv, LookType
<1>5. CASE Lo!StartFails
    <2>1. Lo!publish(Lo!Empty) /\ starting' # "answering" /\ disk' = disk /\ lookEvents' = lookEvents
        BY <1>5 DEF Lo!StartFails, Lo!directory
    <2> QED BY <2>1, EmptyListing, PublishKept DEF LookInv, LookType
<1>6. CASE \E id \in OnDisk, version \in Versions \cup {"broken", "absent"} :
             Lo!DiskChanges(id, version) \/ Lo!Copies(id, version)
    <2>1. PICK id \in OnDisk, version \in Versions \cup {"broken", "absent"} :
            disk' = [disk EXCEPT ![id] = version] /\ UNCHANGED Lo!chosen /\ UNCHANGED Lo!session
        BY <1>6 DEF Lo!DiskChanges, Lo!Copies
    <2>2. disk' \in Listing
        BY <2>1 DEF LookInv, LookType, Listing
    <2>3. LookType'
        BY <2>1, <2>2 DEF LookInv, LookType, Lo!chosen, Lo!session
    <2> QED BY <2>1, <2>3, LookStill DEF LookInv, Lo!chosen, Lo!session
<1>7. CASE Lo!Polls
    <2>1. UNCHANGED Lo!chosen /\ UNCHANGED <<starting, listing, listed, fromDisk, themes, disk>>
          /\ lookEvents' \in {lookEvents, Append(lookEvents, disk)}
        BY <1>7 DEF Lo!Polls
    <2>2. lookEvents' \in Seq(Listing)
        BY <2>1, AppendProperties DEF LookInv, LookType
    <2>3. LookType'
        BY <2>1, <2>2 DEF LookInv, LookType, Lo!chosen
    <2> QED BY <2>1, <2>3, LookStill DEF LookInv, Lo!chosen
<1>8. CASE Lo!ThemesChanged
    <2>1. lookEvents \in Seq(Listing) /\ lookEvents # <<>>
        BY <1>8 DEF Lo!ThemesChanged, LookInv, LookType
    <2>2. Head(lookEvents) \in Listing /\ Tail(lookEvents) \in Seq(Listing)
        BY <2>1, HeadTailProperties
    <2>3. Lo!publish(Head(lookEvents)) /\ lookEvents' = Tail(lookEvents) /\ disk' = disk
          /\ starting' = starting /\ listing' = listing
        BY <1>8 DEF Lo!ThemesChanged, Lo!directory
    <2> QED BY <2>2, <2>3, PublishKept DEF LookInv, LookType
<1>9. ASSUME NEW id \in ThemeIds, Lo!ChooseTheme(id) PROVE LookInv'
    BY <1>9, ThemeChosen DEF Lo!ChooseTheme, Lo!directory, Lo!session
<1>10. ASSUME NEW field, NEW value, Lo!Setting(field, value) PROVE LookInv'
    <2>1. PICK set : /\ Lo!Selected(themeId, overrides, set)
                     /\ lookStored' = [lookStored EXCEPT !.settings = lookSettings']
        BY <1>10 DEF Lo!Setting
    <2> QED BY <1>10, <2>1, SettingsChosen DEF Lo!Setting, Lo!directory, Lo!session
<1>11. CASE Lo!selectDensity \/ Lo!selectPresentation \/ Lo!selectTypography \/ Lo!selectSidebarCompact
            \/ \E by \in {-1, 1} : Lo!step(by)
    BY <1>10, <1>11 DEF Lo!selectDensity, Lo!selectPresentation, Lo!selectTypography, Lo!selectSidebarCompact,
                       Lo!step
<1>12. ASSUME NEW preset \in Presets, Lo!selectPreset(preset) PROVE LookInv'
    <2>1. preset.theme \in ThemeIds
        BY DEF Lo!AppearanceAssumption, ThemeIds
    <2>2. PICK set : /\ Lo!Selected(preset.theme, overrides, set)
                     /\ lookStored' = [lookStored EXCEPT !.themeId = preset.theme,
                                          !.installed = Lo!Files(preset.theme, fromDisk),
                                          !.settings = lookSettings']
        BY <1>12 DEF Lo!selectPreset
    <2> QED BY <1>12, <2>1, <2>2, PresetChosen DEF Lo!selectPreset, Lo!directory, Lo!session
<1>13. ASSUME NEW token \in Tokens, NEW value \in Values,
              Lo!ChooseAccent(token, value) \/ Lo!change(token, value)
       PROVE  LookInv'
    <2>1. PICK edits : DOMAIN edits = DOMAIN overrides /\ Lo!selectOverrides(edits)
        BY <1>13 DEF Lo!ChooseAccent, Lo!change
    <2> QED BY <1>13, <2>1, EditsChosen DEF Lo!ChooseAccent, Lo!change, Lo!directory, Lo!session, LookInv, LookType
<1>14. ASSUME NEW tokens, Lo!reset(tokens) PROVE LookInv'
    <2>1. PICK edits : DOMAIN edits = DOMAIN overrides /\ Lo!selectOverrides(edits)
        BY <1>14 DEF Lo!reset
    <2> QED BY <1>14, <2>1, EditsChosen DEF Lo!reset, Lo!directory, Lo!session, LookInv, LookType
<1>15. ASSUME NEW id \in ThemeIds, Lo!edit(id) PROVE LookInv'
    <2>1. CASE id = themeId
        <3>1. UNCHANGED Lo!chosen /\ UNCHANGED Lo!directory /\ UNCHANGED Lo!session
            BY <1>15, <2>1 DEF Lo!edit
        <3>2. LookType'
            BY <3>1 DEF LookInv, LookType, Lo!chosen, Lo!directory, Lo!session
        <3> QED BY <3>1, <3>2, LookStill DEF LookInv, Lo!chosen, Lo!session
    <2>2. CASE id # themeId
        <3>1. Lo!selectTheme(id) /\ UNCHANGED Lo!directory /\ UNCHANGED Lo!session
            BY <1>15, <2>2 DEF Lo!edit
        <3> QED BY <3>1, ThemeChosen DEF Lo!directory, Lo!session
    <2> QED BY <2>1, <2>2
<1>16. ASSUME NEW id \in OnDisk, Lo!Installed(id) PROVE LookInv'
    BY <1>16, ThemeChosen DEF Lo!Installed, Lo!directory, Lo!session, ThemeIds
<1> QED
    BY <1>1, <1>2, <1>3, <1>4, <1>5, <1>6, <1>7, <1>8, <1>9, <1>11, <1>12, <1>13, <1>14, <1>15, <1>16
    DEF Lo!Next, ThemeIds

LEMMA LookInductive == ASSUME Lo!AppearanceAssumption PROVE Lo!Spec => []LookInv
<1>1. Lo!Init => LookInv
    BY LookInit
<1>2. LookInv /\ [Lo!Next]_Lo!vars => LookInv'
    BY LookKept
<1> QED BY <1>1, <1>2, PTL DEF Lo!Spec

LEMMA ThemeOf ==
    ASSUME Lo!AppearanceAssumption, NEW id \in ThemeIds, NEW loaded \in [OnDisk -> Versions \cup {"absent"}]
    PROVE  /\ (id \in OnDisk /\ loaded[id] = "absent") => Lo!Theme(id, loaded) = None
           /\ ~(id \in OnDisk /\ loaded[id] = "absent") =>
                 /\ Lo!Theme(id, loaded) # None
                 /\ Lo!Theme(id, loaded).id = id
                 /\ Lo!Theme(id, loaded).version = IF id \in OnDisk THEN loaded[id] ELSE id
<1>1. BuiltIn \cap OnDisk = {}
    BY DEF Lo!AppearanceAssumption
<1>2. \A v \in BuiltIn \cup Versions : [id |-> id, version |-> v] # None
    <2>1. TAKE v \in BuiltIn \cup Versions
    <2>2. [id |-> id, version |-> v] \in [id : BuiltIn \cup OnDisk, version : BuiltIn \cup Versions \cup {"broken"}]
        BY DEF ThemeIds
    <2> QED BY <2>2 DEF Lo!AppearanceAssumption
<1> QED BY <1>1, <1>2 DEF Lo!Theme, ThemeIds

\* The window wears the theme chosen as the directory last said it is, under its own
\* edits, density, face and scale, whatever is chosen, edited, installed or removed, for
\* any themes and tokens (lib/theme/session.ts, lib/theme/apply.ts).
THEOREM WearsCorrect ==
    ASSUME Lo!AppearanceAssumption
    PROVE  Lo!Spec => []Lo!WindowWearsTheChoice
<1>1. LookInv => Lo!WindowWearsTheChoice
    <2> SUFFICES ASSUME LookInv PROVE Lo!WindowWearsTheChoice
        OBVIOUS
    <2> DEFINE theme == Lo!Theme(themeId, themes)
    <2>1. /\ themeId \in ThemeIds /\ themes \in [OnDisk -> Versions \cup {"absent"}]
          /\ held = [theme |-> theme, overrides |-> overrides, density |-> lookSettings.density,
                     prose |-> lookSettings.prose]
          /\ painted = [tokens |-> [t \in Tokens |-> Lo!Token(held, t)], prose |-> held.prose,
                        zoom |-> lookSettings.zoom]
        BY DEF LookInv, LookType, WornInv, Lo!Wanted, Lo!paint
    <2>2. held.theme = theme /\ held.overrides = overrides /\ held.density = lookSettings.density
          /\ held.prose = lookSettings.prose
        BY <2>1
    <2>3. /\ (themeId \in OnDisk /\ themes[themeId] = "absent") => theme = None
          /\ ~(themeId \in OnDisk /\ themes[themeId] = "absent") =>
                theme # None /\ theme.id = themeId
                /\ theme.version = IF themeId \in OnDisk THEN themes[themeId] ELSE themeId
        BY <2>1, ThemeOf
    <2>4. None # ""
        BY DEF Lo!AppearanceAssumption
    <2> HIDE DEF theme
    <2>5. ASSUME NEW t \in Tokens
          PROVE  Lo!Token(held, t) =
                   IF t \in DensityTokens /\ lookSettings.density # "comfortable"
                   THEN lookSettings.density
                   ELSE IF themeId \in OnDisk /\ themes[themeId] = "absent" THEN Floor
                   ELSE IF overrides[themeId][t] = "" THEN Floor
                   ELSE IF overrides[themeId][t] # None THEN overrides[themeId][t]
                   ELSE IF themeId \in OnDisk THEN themes[themeId]
                   ELSE themeId
        BY <2>2, <2>3, <2>4 DEF Lo!Token
    <2> QED BY <2>1, <2>2, <2>5 DEF Lo!WindowWearsTheChoice
<1> QED BY <1>1, LookInductive, PTL

\* What is written down of the theme in force comes back as it is, once the directory
\* was published.
LEMMA RememberedTheme ==
    ASSUME Lo!AppearanceAssumption, LookInv, listed
    PROVE  Lo!Theme(themeId, Lo!catalogue(Lo!Remembered(lookStored))) = Lo!Theme(themeId, themes)
<1> DEFINE installed == Lo!Files(themeId, fromDisk)
<1>1. /\ lookStored.installed = installed /\ themes = Lo!catalogue(fromDisk)
      /\ fromDisk \in Listing /\ themeId \in ThemeIds
    BY DEF LookInv, LookType, WrittenInv
<1>2. CASE themeId \notin OnDisk
    BY <1>1, <1>2 DEF Lo!Theme, ThemeIds
<1>3. CASE themeId \in OnDisk /\ fromDisk[themeId] = "absent"
    <2>1. installed = None
        BY <1>3 DEF Lo!Files
    <2>2. Lo!Remembered(lookStored)[themeId] = "absent"
        BY <1>1, <1>3, <2>1 DEF Lo!Remembered, Lo!Empty
    <2> QED BY <1>1, <1>3, <2>2 DEF Lo!Theme, Lo!catalogue, Lo!loadTheme
<1>4. CASE themeId \in OnDisk /\ fromDisk[themeId] # "absent"
    <2>1. installed = [id |-> themeId, version |-> fromDisk[themeId]]
        BY <1>4 DEF Lo!Files
    <2>2. fromDisk[themeId] \in Versions \cup {"broken"}
        BY <1>1, <1>4 DEF Listing
    <2>3. installed \in [id : BuiltIn \cup OnDisk, version : BuiltIn \cup Versions \cup {"broken"}]
        BY <1>4, <2>1, <2>2
    <2>4. installed # None
        BY <2>3 DEF Lo!AppearanceAssumption
    <2>5. Lo!Remembered(lookStored)[themeId] = fromDisk[themeId]
        BY <1>1, <1>4, <2>1, <2>4 DEF Lo!Remembered, Lo!Empty
    <2> QED BY <1>1, <1>4, <2>5 DEF Lo!Theme, Lo!catalogue, Lo!loadTheme
<1> QED BY <1>2, <1>3, <1>4

LEMMA WrittenFields == ASSUME LookInv PROVE lookStored.themeId = themeId /\ lookStored.settings = lookSettings
<1>1. lookStored = [themeId |-> themeId, installed |-> lookStored.installed,
                    overrides |-> lookStored.overrides, settings |-> lookSettings]
    BY DEF LookInv, WrittenInv
<1> QED BY <1>1

\* Once the directory was read, what is remembered paints the next launch as this window
\* is, unless an edit was left blank (lib/theme/remembered.ts).
THEOREM LaunchCorrect ==
    ASSUME Lo!AppearanceAssumption
    PROVE  Lo!Spec => []Lo!NextLaunchOpensAsThisOne
<1>1. LookInv => Lo!NextLaunchOpensAsThisOne
    <2> SUFFICES ASSUME LookInv, listed, \A t \in Tokens : overrides[themeId][t] # ""
                 PROVE  Lo!paint(Lo!Opening(lookStored), lookStored.settings.zoom) = painted
        BY DEF Lo!NextLaunchOpensAsThisOne
    <2>a. lookStored.themeId = themeId /\ lookStored.settings = lookSettings
        BY WrittenFields
    <2> DEFINE theme == Lo!Theme(themeId, themes)
               clean == Lo!sanitiseOverrides(overrides)
               now == [theme |-> theme, overrides |-> overrides, density |-> lookSettings.density,
                       prose |-> lookSettings.prose]
               next == [theme |-> theme, overrides |-> clean, density |-> lookSettings.density,
                        prose |-> lookSettings.prose]
    <2>b. Lo!sanitiseOverrides(lookStored.overrides) = clean
        BY DEF LookInv, WrittenInv
    <2>0. lookStored.themeId = themeId /\ lookStored.settings = lookSettings
          /\ Lo!sanitiseOverrides(lookStored.overrides) = clean
        BY <2>a, <2>b
    <2>1. Lo!Theme(themeId, Lo!catalogue(Lo!Remembered(lookStored))) = theme
        BY RememberedTheme
    <2>2. Lo!Opening(lookStored) = next
        BY <2>0, <2>1 DEF Lo!Opening, Lo!Wanted
    <2>3. painted = Lo!paint(now, lookSettings.zoom)
        BY DEF LookInv, WornInv, Lo!Wanted
    <2>4. theme # None => theme.id = themeId
        BY ThemeOf DEF LookInv, LookType
    <2>5. ASSUME NEW t \in Tokens PROVE clean[themeId][t] = overrides[themeId][t]
        <3>1. themeId \in DOMAIN overrides
            BY DEF LookInv, LookType
        <3> QED BY <3>1 DEF Lo!sanitiseOverrides
    <2> HIDE DEF theme, clean
    <2>6. ASSUME NEW t \in Tokens PROVE Lo!Token(next, t) = Lo!Token(now, t)
        BY <2>4, <2>5 DEF Lo!Token
    <2>7. Lo!paint(next, lookSettings.zoom) = Lo!paint(now, lookSettings.zoom)
        BY <2>6 DEF Lo!paint
    <2> HIDE DEF next, now
    <2> QED BY <2>0, <2>2, <2>3, <2>7
<1> QED BY <1>1, LookInductive, PTL

-----------------------------------------------------------------------------
(* The forms a network is set up with (Onboarding).                        *)

Password == Passwords \cup {"", None}
NetworkDraft ==
    [id : Nat \cup {None}, of : Nat, mechanism : On!Mechanisms, password : Password, certificate : BOOLEAN]
Configured == [of : Nat, mechanism : On!Mechanisms, certificate : BOOLEAN]
Config == [of : Nat, mechanism : On!Mechanisms, certificate : BOOLEAN, password : Password]
SaveCall == [what : {"save"}, n : Nat, flow : Nat, id : Nat \cup {None}, config : Config]
NetworkCall == SaveCall \cup [what : {"attempt"}, n : Nat, flow : Nat]
                        \cup [what : {"remove"}, n : Nat \cup {None}, flow : Nat]
SavesOut == {c \in onboardingCalls : c.what = "save"}

OnboardingType ==
    /\ onboardingDraft \in NetworkDraft /\ {flow, drafts, onboardingSaves} \subseteq Nat
    /\ onboardingBusy \in BOOLEAN /\ form \in On!Forms
    /\ \E m \in Nat : DOMAIN onboardingNetworks = 1..m
    /\ \A id \in DOMAIN onboardingNetworks : onboardingNetworks[id] \in Configured
    /\ onboardingCalls \subseteq NetworkCall /\ \A c \in onboardingCalls : c.flow <= flow
    /\ onboardingDraft.id \in DOMAIN onboardingNetworks \cup {None}
    /\ \A c \in SavesOut : c.id \in DOMAIN onboardingNetworks \cup {None}
    /\ \A c \in onboardingCalls : c.what = "remove" => c.n \in DOMAIN onboardingNetworks
\* A flow has one call of its own out at most, and none while it may start another.
OneCall ==
    /\ \A c, d \in onboardingCalls : c.flow = flow /\ d.flow = flow => c = d
    /\ \A c \in onboardingCalls : c.flow = flow => onboardingBusy = TRUE
\* Where the numbers of drafts come from.
Numbered ==
    /\ onboardingDraft.of <= drafts /\ (onboardingDraft.id # None => onboardingDraft.of > 0)
    /\ \A id \in DOMAIN onboardingNetworks : onboardingNetworks[id].of <= drafts
    /\ \A c \in SavesOut : c.config.of > 0 /\ c.config.of <= drafts
\* An id is claimed for a draft by the network, the form or a save.
Claim(id, of) ==
    /\ id \in DOMAIN onboardingNetworks /\ of # 0
    /\ \/ onboardingNetworks[id].of = of
       \/ onboardingDraft.id = id /\ onboardingDraft.of = of
       \/ \E c \in SavesOut : c.id = id /\ c.config.of = of
\* And a draft is without one where the form or a save of it has none.
Nameless(of) ==
    \/ onboardingDraft.id = None /\ onboardingDraft.of = of
    \/ \E c \in SavesOut : c.id = None /\ c.config.of = of
\* No two ids for a draft nor two drafts for an id, and none for a nameless one; a save
\* without an id is alone in what it is of, but for the form it was sent from.
Claimed ==
    /\ \A i, j, k, l : Claim(i, k) /\ Claim(j, l) => (i = j <=> k = l)
    /\ \A i, k : ~(Claim(i, k) /\ Nameless(k))
    /\ \A c, d \in SavesOut : c.id = None /\ d.id = None /\ c.config.of = d.config.of => c = d
    /\ \A c \in SavesOut :
         IF c.flow = flow THEN c.id = onboardingDraft.id /\ c.config.of = onboardingDraft.of
         ELSE c.id = None => c.config.of # onboardingDraft.of
\* The form is of a draft, and the connection watched is the form's.
Watched ==
    /\ onboardingStep \in On!Forms \cup {"connect"} => onboardingDraft.of > 0
    /\ onboardingStep = "connect" => onboardingDraft.id = networkId /\ networkId # None
OnboardingInv == OnboardingType /\ OneCall /\ (~strayed => Numbered /\ Claimed /\ Watched)

\* The operator reached through the instance is the one the theorems are about.
LEMMA SameCardinality == \A S : On!Cardinality(S) = Cardinality(S)
BY DEF On!Cardinality, Cardinality

LEMMA IdsAreNumbers ==
    ASSUME On!OnboardingAssumption, OnboardingType
    PROVE  \A id \in DOMAIN onboardingNetworks : id \in Nat /\ id # None
<1>1. PICK m \in Nat : DOMAIN onboardingNetworks = 1..m
    BY DEF OnboardingType
<1>2. None \notin Nat
    BY DEF On!OnboardingAssumption
<1>3. \A id \in 1..m : id \in Nat
    OBVIOUS
<1> QED BY <1>1, <1>2, <1>3

LEMMA OnboardingInit == ASSUME On!OnboardingAssumption, On!Init PROVE OnboardingInv
<1>1. onboardingDraft = [id |-> None, of |-> 0, mechanism |-> "none", password |-> None, certificate |-> FALSE]
      /\ onboardingCalls = {} /\ onboardingNetworks = <<>> /\ DOMAIN onboardingNetworks = 1..0
      /\ onboardingStep = "choose" /\ form = "public" /\ flow = 0 /\ drafts = 0 /\ onboardingSaves = 0
      /\ onboardingBusy = FALSE
    BY DEF On!Init, On!emptyDraft
<1>2. SavesOut = {} /\ DOMAIN onboardingNetworks = {}
    BY <1>1 DEF SavesOut
<1>3. onboardingDraft \in NetworkDraft
    BY <1>1 DEF NetworkDraft, On!Mechanisms, Password
<1>4. OnboardingType
    <2>1. \E m \in Nat : DOMAIN onboardingNetworks = 1..m
        BY <1>1
    <2>2. {flow, drafts, onboardingSaves} \subseteq Nat /\ form \in On!Forms
        BY <1>1 DEF On!Forms
    <2>3. onboardingDraft.id = None
        BY <1>1
    <2> QED BY <1>1, <1>2, <1>3, <2>1, <2>2, <2>3 DEF OnboardingType
<1>5. OneCall
    BY <1>1 DEF OneCall
<1>6. Numbered /\ Claimed /\ Watched
    BY <1>1, <1>2 DEF Numbered, Claimed, Claim, Watched, On!Forms
<1> QED BY <1>4, <1>5, <1>6 DEF OnboardingInv

\* The draft keeps its id and what it is of; no save is sent and no network made.
Quiet ==
    /\ onboardingDraft' \in NetworkDraft /\ onboardingDraft'.id = onboardingDraft.id
    /\ onboardingDraft'.of = onboardingDraft.of /\ flow' = flow /\ drafts' = drafts
    /\ onboardingSaves' = onboardingSaves
    /\ onboardingCalls' \subseteq NetworkCall /\ SavesOut' \subseteq SavesOut
    /\ \A c \in onboardingCalls' : c.flow <= flow
    /\ \A c \in onboardingCalls' : c.what = "remove" => c.n \in DOMAIN onboardingNetworks
    /\ DOMAIN onboardingNetworks' = DOMAIN onboardingNetworks
    /\ \A id \in DOMAIN onboardingNetworks :
         onboardingNetworks'[id] \in Configured /\ onboardingNetworks'[id].of \in {0, onboardingNetworks[id].of}
    /\ networkId' = networkId /\ form' \in On!Forms /\ onboardingBusy' \in BOOLEAN /\ strayed' = strayed
    /\ onboardingStep' \in On!Forms => onboardingStep \in On!Forms \cup {"connect"}
    /\ onboardingStep' = "connect" => onboardingStep = "connect"

LEMMA QuietKept ==
    ASSUME On!OnboardingAssumption, OnboardingInv, Quiet, OneCall' PROVE OnboardingInv'
<1>1. OnboardingType'
    BY DEF OnboardingInv, OnboardingType, Quiet
<1>2. ASSUME ~strayed' PROVE Numbered' /\ Claimed' /\ Watched'
    <2>0. Numbered /\ Claimed /\ Watched
        BY <1>2 DEF OnboardingInv, Quiet
    <2>1. Numbered'
        <3>1. \A id \in DOMAIN onboardingNetworks : onboardingNetworks[id].of \in Nat
            BY DEF OnboardingInv, OnboardingType, Configured
        <3> QED BY <2>0, <3>1 DEF Numbered, Quiet, OnboardingInv, OnboardingType
    <2>2. \A i, k : Claim(i, k)' => Claim(i, k)
        BY DEF Claim, Quiet
    <2>3. \A k : Nameless(k)' => Nameless(k)
        BY DEF Nameless, Quiet
    <2>4. Claimed'
        <3>1. \A i, j, k, l : Claim(i, k)' /\ Claim(j, l)' => (i = j <=> k = l)
            BY <2>0, <2>2 DEF Claimed
        <3>2. \A i, k : ~(Claim(i, k)' /\ Nameless(k)')
            BY <2>0, <2>2, <2>3 DEF Claimed
        <3>3. \A c, d \in SavesOut' : c.id = None /\ d.id = None /\ c.config.of = d.config.of => c = d
            BY <2>0 DEF Claimed, Quiet
        <3>4. \A c \in SavesOut' :
                IF c.flow = flow' THEN c.id = onboardingDraft'.id /\ c.config.of = onboardingDraft'.of
                ELSE c.id = None => c.config.of # onboardingDraft'.of
            BY <2>0 DEF Claimed, Quiet
        <3> QED BY <3>1, <3>2, <3>3, <3>4 DEF Claimed
    <2>5. Watched'
        BY <2>0 DEF Watched, Quiet
    <2> QED BY <2>1, <2>4, <2>5
<1> QED BY <1>1, <1>2 DEF OnboardingInv

\* The draft is changed in the form, and the screens are walked through.
LEMMA ChangeKept ==
    ASSUME On!OnboardingAssumption, OnboardingInv,
           \/ On!openAdvanced \/ On!Certificate \/ On!Back \/ On!EditSettings \/ On!onDone
           \/ \E id \in On!Live : On!applyIdentity(id)
           \/ \E m \in On!Mechanisms : On!Mechanism(m)
           \/ \E p \in Passwords : On!Password(p)
           \/ \E id \in On!Live, next \in {"connected", "failed"} : On!StatusChanged(id, next)
           \/ UNCHANGED On!vars
    PROVE  OnboardingInv'
<1>0. onboardingDraft \in NetworkDraft
    BY DEF OnboardingInv, OnboardingType
<1>1. UNCHANGED <<flow, onboardingBusy, onboardingCalls, onboardingNetworks, drafts, onboardingSaves,
                  networkId, strayed>>
    BY DEF On!openAdvanced, On!Certificate, On!Back, On!EditSettings, On!onDone, On!applyIdentity,
           On!Mechanism, On!Password, On!StatusChanged, On!vars, On!change, On!backend, On!flowVars
<1>2. onboardingDraft' \in NetworkDraft /\ onboardingDraft'.id = onboardingDraft.id
      /\ onboardingDraft'.of = onboardingDraft.of
    <2>1. CASE \E id \in On!Live : On!applyIdentity(id)
        <3>1. PICK id \in On!Live : On!applyIdentity(id)
            BY <2>1
        <3>2. onboardingNetworks[id] \in Configured
            BY DEF On!Live, OnboardingInv, OnboardingType
        <3>3. PICK m \in On!Mechanisms, b \in BOOLEAN, p \in Password :
                onboardingDraft' = [onboardingDraft EXCEPT !.mechanism = m, !.password = p, !.certificate = b]
            <4>1. onboardingNetworks[id].mechanism \in On!Mechanisms
                  /\ (onboardingNetworks[id].mechanism = "EXTERNAL" /\ onboardingNetworks[id].certificate)
                       \in BOOLEAN
                BY <3>2 DEF Configured
            <4>2. (IF On!needsPassword(onboardingNetworks[id].mechanism) THEN "" ELSE None) \in Password
                BY DEF Password
            <4> QED BY <3>1, <4>1, <4>2 DEF On!applyIdentity, On!change
        <3> QED BY <1>0, <3>3 DEF NetworkDraft
    <2>2. CASE \E m \in On!Mechanisms : On!Mechanism(m)
        BY <1>0, <2>2 DEF On!Mechanism, On!change, NetworkDraft
    <2>3. CASE \E p \in Passwords : On!Password(p)
        <3>1. PICK p \in Password : onboardingDraft' = [onboardingDraft EXCEPT !.password = p]
            BY <2>3 DEF On!Password, On!change, Password
        <3> QED BY <1>0, <3>1 DEF NetworkDraft
    <2>4. CASE On!Certificate
        BY <1>0, <2>4 DEF On!Certificate, On!change, NetworkDraft
    <2>5. CASE onboardingDraft' = onboardingDraft
        BY <1>0, <2>5
    <2> QED BY <2>1, <2>2, <2>3, <2>4, <2>5
            DEF On!openAdvanced, On!Back, On!EditSettings, On!onDone, On!StatusChanged, On!vars, On!flowVars
<1>3. /\ onboardingStep' \in On!Forms => onboardingStep \in On!Forms \cup {"connect"}
      /\ onboardingStep' = "connect" => onboardingStep = "connect"
      /\ form' \in On!Forms
    <2>1. form \in On!Forms /\ "choose" \notin On!Forms /\ "gone" \notin On!Forms /\ "connect" \notin On!Forms
          /\ "advanced" \in On!Forms
        BY DEF OnboardingInv, OnboardingType, On!Forms
    <2> QED BY <2>1 DEF On!openAdvanced, On!Certificate, On!Back, On!EditSettings, On!onDone, On!applyIdentity,
                   On!Mechanism, On!Password, On!StatusChanged, On!vars, On!change, On!flowVars
<1>4. Quiet
    BY <1>1, <1>2, <1>3 DEF Quiet, OnboardingInv, OnboardingType, SavesOut
<1>5. OneCall'
    BY <1>1 DEF OneCall, OnboardingInv
<1> QED BY <1>4, <1>5, QuietKept

\* A call ends, a network is removed or asked to be: what is claimed is no more.
LEMMA CallEndsKept ==
    ASSUME On!OnboardingAssumption, OnboardingInv,
           \/ On!remove
           \/ \E c \in onboardingCalls : On!CallEnds(c) \/ On!Removed(c)
    PROVE  OnboardingInv'
<1>0. flow \in Nat /\ onboardingCalls \subseteq NetworkCall /\ onboardingBusy \in BOOLEAN
      /\ OneCall /\ form \in On!Forms /\ onboardingDraft \in NetworkDraft
      /\ (\A c \in onboardingCalls : c.flow <= flow)
      /\ \A c \in onboardingCalls : c.what = "remove" => c.n \in DOMAIN onboardingNetworks
    BY DEF OnboardingInv, OnboardingType
<1>1. CASE On!remove
    <2>1. PICK r : r = [what |-> "remove", n |-> onboardingDraft.id, flow |-> flow]
        OBVIOUS
    <2>2. r \in NetworkCall /\ r.what = "remove" /\ r.flow = flow /\ r.n \in DOMAIN onboardingNetworks
        BY <1>0, <1>1, <2>1 DEF NetworkCall, NetworkDraft, On!remove, OnboardingInv, OnboardingType
    <2>3. onboardingCalls' = onboardingCalls \cup {r} /\ onboardingBusy = FALSE /\ onboardingBusy' = TRUE
          /\ UNCHANGED <<flow, onboardingNetworks, drafts, onboardingSaves, networkId, strayed, form,
                         onboardingDraft, onboardingStep>>
        BY <1>0, <1>1, <2>1 DEF On!remove, On!Asked, On!backend
    <2>4. SavesOut' = SavesOut
        BY <2>2, <2>3 DEF SavesOut
    <2>5. Quiet
        BY <1>0, <2>2, <2>3, <2>4 DEF Quiet, OnboardingInv, OnboardingType
    <2>6. OneCall'
        BY <1>0, <2>2, <2>3 DEF OneCall
    <2> QED BY <2>5, <2>6, QuietKept
<1>2. ASSUME NEW c \in onboardingCalls, On!CallEnds(c) PROVE OnboardingInv'
    <2>1. onboardingCalls' = onboardingCalls \ {c} /\ onboardingBusy' = (onboardingBusy /\ c.flow # flow)
          /\ UNCHANGED <<flow, onboardingNetworks, drafts, onboardingSaves, networkId, strayed, form,
                         onboardingDraft, onboardingStep>>
        BY <1>2 DEF On!CallEnds, On!backend
    <2>2. SavesOut' \subseteq SavesOut
        BY <2>1 DEF SavesOut
    <2>3. onboardingBusy' \in BOOLEAN
        BY <2>1
    <2>4. Quiet
        BY <1>0, <2>1, <2>2, <2>3 DEF Quiet, OnboardingInv, OnboardingType
    <2>5. OneCall'
        <3>1. ASSUME NEW d \in onboardingCalls', d.flow = flow' PROVE onboardingBusy' = TRUE
            <4>1. d.flow = flow /\ d # c /\ d \in onboardingCalls
                BY <2>1, <3>1
            <4>2. c.flow # flow /\ onboardingBusy = TRUE
                BY <1>0, <4>1 DEF OneCall
            <4> QED BY <2>1, <4>2
        <3> QED BY <1>0, <2>1, <3>1 DEF OneCall
    <2> QED BY <2>4, <2>5, QuietKept
<1>3. ASSUME NEW c \in onboardingCalls, On!Removed(c) PROVE OnboardingInv'
    <2>1. PICK tomb : tomb = [of |-> 0, mechanism |-> "none", certificate |-> FALSE]
        OBVIOUS
    <2>2. tomb \in Configured /\ tomb.of = 0
        BY <2>1 DEF Configured, On!Mechanisms
    <2>3. onboardingCalls' = onboardingCalls \ {c} /\ onboardingStep' = "gone"
          /\ onboardingNetworks' = [onboardingNetworks EXCEPT ![c.n] = tomb]
          /\ UNCHANGED <<flow, drafts, onboardingSaves, networkId, strayed, form, onboardingDraft,
                         onboardingBusy>>
        BY <1>3, <2>1 DEF On!Removed
    <2>4. SavesOut' \subseteq SavesOut
        BY <2>3 DEF SavesOut
    <2>5. DOMAIN onboardingNetworks' = DOMAIN onboardingNetworks
          /\ \A id \in DOMAIN onboardingNetworks :
                onboardingNetworks'[id] = IF id = c.n THEN tomb ELSE onboardingNetworks[id]
        BY <2>3
    <2>6. \A id \in DOMAIN onboardingNetworks :
            onboardingNetworks'[id] \in Configured /\ onboardingNetworks'[id].of \in {0, onboardingNetworks[id].of}
        BY <2>2, <2>5 DEF OnboardingInv, OnboardingType
    <2>7. Quiet
        BY <1>0, <2>3, <2>4, <2>5, <2>6 DEF Quiet, On!Forms
    <2>8. OneCall'
        BY <1>0, <2>3 DEF OneCall
    <2> QED BY <2>7, <2>8, QuietKept
<1> QED BY <1>1, <1>2, <1>3

\* Another way in, or another form: a draft of its own.
LEMMA OpenedKept ==
    ASSUME On!OnboardingAssumption, OnboardingInv,
           \/ \E next \in On!Forms : On!choose(next)
           \/ On!OpenNew
           \/ \E id \in On!Live : On!OpenNetwork(id)
    PROVE  OnboardingInv'
<1>0. flow \in Nat /\ drafts \in Nat /\ onboardingCalls \subseteq NetworkCall /\ OneCall
      /\ \A c \in onboardingCalls : c.flow <= flow
    BY DEF OnboardingInv, OnboardingType
<1>1. UNCHANGED <<onboardingCalls, onboardingNetworks, onboardingSaves>> /\ SavesOut' = SavesOut
    BY DEF On!choose, On!OpenNew, On!OpenNetwork, On!backend, SavesOut
<1>2. CASE \E next \in On!Forms : On!choose(next)
    <2>1. PICK next \in On!Forms : On!choose(next)
        BY <1>2
    <2>2. drafts' = drafts + 1 /\ form' = next /\ onboardingStep' = next /\ UNCHANGED <<flow, onboardingBusy>>
          /\ strayed' = (strayed \/ \E c \in On!Mine : c.what = "save")
        BY <2>1 DEF On!choose
    <2>3. onboardingDraft' \in NetworkDraft /\ onboardingDraft'.id = None /\ onboardingDraft'.of = drafts + 1
        <3>1. PICK e : e = [id |-> None, of |-> drafts + 1, mechanism |-> "none", password |-> None,
                            certificate |-> FALSE]
            OBVIOUS
        <3>2. e \in NetworkDraft /\ e.id = None /\ e.of = drafts + 1
            BY <1>0, <3>1 DEF NetworkDraft, On!Mechanisms, Password
        <3>3. onboardingDraft' \in {e, [e EXCEPT !.mechanism = "PLAIN", !.password = ""]}
            BY <2>1, <3>1 DEF On!choose, On!emptyDraft
        <3> QED BY <3>2, <3>3 DEF NetworkDraft, On!Mechanisms, Password
    <2>4. OnboardingType'
        BY <1>0, <1>1, <2>2, <2>3 DEF OnboardingInv, OnboardingType
    <2>5. OneCall'
        BY <1>0, <1>1, <2>2 DEF OneCall
    <2>6. ASSUME ~strayed' PROVE Numbered' /\ Claimed' /\ Watched'
        <3>1. Numbered /\ Claimed /\ Watched /\ \A c \in SavesOut : c.flow # flow
            BY <2>2, <2>6 DEF OnboardingInv, SavesOut, On!Mine
        <3>2. \A id \in DOMAIN onboardingNetworks : onboardingNetworks[id].of \in Nat
            BY DEF OnboardingInv, OnboardingType, Configured
        <3>3. \A c \in SavesOut : c.config.of \in Nat
            BY <1>0 DEF SavesOut, NetworkCall, SaveCall, Config
        <3>4. Numbered'
            BY <1>0, <1>1, <2>2, <2>3, <3>1, <3>2, <3>3 DEF Numbered
        <3>5. \A i, k : Claim(i, k)' => Claim(i, k) /\ k <= drafts /\ k \in Nat
            <4>1. None \notin DOMAIN onboardingNetworks
                BY IdsAreNumbers DEF OnboardingInv
            <4> QED BY <1>1, <2>3, <3>1, <3>2, <3>3, <4>1 DEF Claim, Numbered
        <3>6. \A k : Nameless(k)' => Nameless(k) \/ k = drafts + 1
            BY <1>1, <2>3 DEF Nameless
        <3>7. \A i, k : ~(Claim(i, k)' /\ Nameless(k)')
            BY <1>0, <3>1, <3>5, <3>6 DEF Claimed
        <3>8. \A i, j, k, l : Claim(i, k)' /\ Claim(j, l)' => (i = j <=> k = l)
            BY <3>1, <3>5 DEF Claimed
        <3>9. \A c \in SavesOut : c.flow # flow /\ c.config.of # drafts + 1
            BY <1>0, <3>1, <3>3 DEF Numbered
        <3>10. Claimed'
            BY <1>1, <2>2, <2>3, <3>1, <3>7, <3>8, <3>9 DEF Claimed
        <3>11. Watched'
            BY <1>0, <2>2, <2>3 DEF Watched, On!Forms
        <3> QED BY <3>4, <3>10, <3>11
    <2> QED BY <2>4, <2>5, <2>6 DEF OnboardingInv
<1>3. CASE On!OpenNew \/ \E id \in On!Live : On!OpenNetwork(id)
    <2>1. flow' = flow + 1 /\ onboardingBusy' = FALSE /\ drafts' = drafts /\ strayed' = strayed
          /\ onboardingStep' \in {"choose", "advanced"} /\ form' \in {form, "advanced"}
        BY <1>3 DEF On!OpenNew, On!OpenNetwork
    <2>2. /\ onboardingDraft' \in NetworkDraft
          /\ \/ onboardingDraft'.id = None /\ onboardingDraft'.of = 0 /\ onboardingStep' = "choose"
             \/ \E id \in On!Live : onboardingDraft'.id = id /\ onboardingDraft'.of = onboardingNetworks[id].of
        <3>1. CASE On!OpenNew
            <4>1. onboardingDraft' = [id |-> None, of |-> 0, mechanism |-> "none", password |-> None,
                                      certificate |-> FALSE] /\ onboardingStep' = "choose"
                BY <3>1 DEF On!OpenNew, On!emptyDraft
            <4> QED BY <4>1 DEF NetworkDraft, On!Mechanisms, Password
        <3>2. ASSUME NEW id \in On!Live, On!OpenNetwork(id)
              PROVE  onboardingDraft' \in NetworkDraft /\ onboardingDraft'.id = id
                     /\ onboardingDraft'.of = onboardingNetworks[id].of
            <4>1. onboardingNetworks[id] \in Configured /\ id \in Nat
                BY DEF On!Live, OnboardingInv, OnboardingType
            <4>2. onboardingDraft' = [id |-> id, of |-> onboardingNetworks[id].of,
                                      mechanism |-> onboardingNetworks[id].mechanism, password |-> None,
                                      certificate |-> onboardingNetworks[id].certificate]
                BY <3>2 DEF On!OpenNetwork, On!draftOf
            <4> QED BY <4>1, <4>2 DEF NetworkDraft, Configured, Password
        <3> QED BY <1>3, <3>1, <3>2
    <2>3. \A c \in onboardingCalls : c.flow # flow' /\ c.flow <= flow'
        <3>1. \A c \in onboardingCalls : c.flow \in Nat
            BY <1>0 DEF NetworkCall, SaveCall
        <3> QED BY <1>0, <2>1, <3>1
    <2>4. OnboardingType'
        <3>1. onboardingDraft'.id \in DOMAIN onboardingNetworks \cup {None} /\ flow' \in Nat
            BY <1>0, <2>1, <2>2 DEF On!Live
        <3>2. form' \in On!Forms
            BY <2>1 DEF OnboardingInv, OnboardingType, On!Forms
        <3> QED BY <1>0, <1>1, <2>1, <2>2, <2>3, <3>1, <3>2 DEF OnboardingInv, OnboardingType
    <2>5. OneCall'
        BY <1>1, <2>3 DEF OneCall
    <2>6. ASSUME ~strayed' PROVE Numbered' /\ Claimed' /\ Watched'
        <3>1. Numbered /\ Claimed /\ Watched
            BY <2>1, <2>6 DEF OnboardingInv
        <3>2. \A id \in DOMAIN onboardingNetworks : onboardingNetworks[id].of \in Nat
            BY DEF OnboardingInv, OnboardingType, Configured
        <3>3. \A id \in On!Live : id \in DOMAIN onboardingNetworks /\ onboardingNetworks[id].of > 0 /\ id # None
            BY <3>2, IdsAreNumbers DEF On!Live, OnboardingInv
        <3>4. Numbered'
            BY <1>0, <1>1, <2>1, <2>2, <3>1, <3>3 DEF Numbered
        <3>5. \A i, k : Claim(i, k)' => Claim(i, k)
            BY <1>1, <2>2, <3>3 DEF Claim
        <3>6. \A k : Nameless(k)' => Nameless(k) \/ k = 0
            BY <1>1, <2>2, <3>3 DEF Nameless
        <3>7. \A i, k : ~(Claim(i, k)' /\ Nameless(k)')
            BY <3>1, <3>5, <3>6 DEF Claimed, Claim
        <3>8. \A i, j, k, l : Claim(i, k)' /\ Claim(j, l)' => (i = j <=> k = l)
            BY <3>1, <3>5 DEF Claimed
        <3>9. \A c \in SavesOut : c.flow # flow' /\ (c.id = None => c.config.of # onboardingDraft'.of)
            <4>1. ASSUME NEW c \in SavesOut, c.id = None PROVE c.config.of # onboardingDraft'.of
                <5>1. Nameless(c.config.of) /\ c.config.of > 0
                    BY <3>1, <4>1 DEF Nameless, Numbered
                <5>2. \A id \in On!Live : Claim(id, onboardingNetworks[id].of)
                    BY <3>3 DEF Claim
                <5> QED BY <2>2, <3>1, <5>1, <5>2 DEF Claimed
            <4> QED BY <2>3, <4>1 DEF SavesOut
        <3>10. Claimed'
            BY <1>1, <3>1, <3>7, <3>8, <3>9 DEF Claimed
        <3>11. Watched'
            BY <2>1, <2>2, <3>3 DEF Watched, On!Forms
        <3> QED BY <3>4, <3>10, <3>11
    <2> QED BY <2>4, <2>5, <2>6 DEF OnboardingInv
<1> QED BY <1>2, <1>3

\* A save is sent: of the draft in the form, under the id it has or none.
LEMMA DraftSaved == ASSUME On!OnboardingAssumption, OnboardingInv, On!save PROVE OnboardingInv'
<1>0. flow \in Nat /\ drafts \in Nat /\ onboardingSaves \in Nat /\ onboardingCalls \subseteq NetworkCall /\ OneCall
      /\ onboardingDraft \in NetworkDraft /\ \A c \in onboardingCalls : c.flow <= flow
    BY DEF OnboardingInv, OnboardingType
<1>1. onboardingBusy = FALSE /\ onboardingBusy' = TRUE /\ onboardingSaves' = onboardingSaves + 1
      /\ onboardingStep \in On!Forms
      /\ UNCHANGED <<flow, drafts, onboardingNetworks, onboardingDraft, onboardingStep, networkId, strayed, form>>
    BY DEF On!save, On!backend, OnboardingInv, OnboardingType
<1>2. PICK config : config = On!toConfig(onboardingDraft)
    OBVIOUS
<1>3. config \in Config /\ config.of = onboardingDraft.of
    <2>1. PICK p \in Password : config = [of |-> onboardingDraft.of, mechanism |-> onboardingDraft.mechanism,
                                          certificate |-> onboardingDraft.certificate, password |-> p]
        BY <1>0, <1>2 DEF On!toConfig, NetworkDraft, Password
    <2> QED BY <1>0, <2>1 DEF Config, NetworkDraft
<1>4. PICK s : s = [what |-> "save", n |-> onboardingSaves, flow |-> flow, id |-> onboardingDraft.id,
                    config |-> config]
    OBVIOUS
<1>5. s \in SaveCall /\ s.what = "save" /\ s.flow = flow /\ s.id = onboardingDraft.id /\ s.config = config
    BY <1>0, <1>3, <1>4 DEF SaveCall, NetworkDraft
<1>6. onboardingCalls' = onboardingCalls \cup {s} /\ SavesOut' = SavesOut \cup {s}
    BY <1>2, <1>4, <1>5 DEF On!save, On!Asked, SavesOut
<1>7. \A c \in onboardingCalls : c.flow # flow
    BY <1>0, <1>1 DEF OneCall
<1>8. OnboardingType'
    <2>1. onboardingCalls' \subseteq NetworkCall /\ (\A c \in onboardingCalls' : c.flow <= flow)
        BY <1>0, <1>5, <1>6 DEF NetworkCall
    <2> QED BY <1>0, <1>1, <1>5, <1>6, <2>1 DEF OnboardingInv, OnboardingType
<1>9. OneCall'
    BY <1>1, <1>5, <1>6, <1>7 DEF OneCall
<1>10. ASSUME ~strayed' PROVE Numbered' /\ Claimed' /\ Watched'
    <2>1. Numbered /\ Claimed /\ Watched /\ onboardingDraft.of > 0
        BY <1>1, <1>10 DEF OnboardingInv, Watched
    <2>2. Numbered'
        BY <1>1, <1>3, <1>5, <1>6, <2>1 DEF Numbered
    <2>3. \A i, k : Claim(i, k)' => Claim(i, k)
        BY <1>1, <1>3, <1>5, <1>6 DEF Claim
    <2>4. \A k : Nameless(k)' => Nameless(k)
        BY <1>1, <1>3, <1>5, <1>6 DEF Nameless
    <2>5. \A i, j, k, l : Claim(i, k)' /\ Claim(j, l)' => (i = j <=> k = l)
        BY <2>1, <2>3 DEF Claimed
    <2>6. \A i, k : ~(Claim(i, k)' /\ Nameless(k)')
        BY <2>1, <2>3, <2>4 DEF Claimed
    <2>7. \A c \in SavesOut : c.flow # flow /\ (c.id = None => c.config.of # config.of)
        BY <1>3, <1>7, <2>1 DEF SavesOut, Claimed
    <2>8. \A c, d \in SavesOut' : c.id = None /\ d.id = None /\ c.config.of = d.config.of => c = d
        BY <1>5, <1>6, <2>1, <2>7 DEF Claimed
    <2>9. \A c \in SavesOut' :
            IF c.flow = flow' THEN c.id = onboardingDraft'.id /\ c.config.of = onboardingDraft'.of
            ELSE c.id = None => c.config.of # onboardingDraft'.of
        BY <1>1, <1>3, <1>5, <1>6, <2>1 DEF Claimed
    <2>10. Claimed'
        BY <2>5, <2>6, <2>8, <2>9 DEF Claimed
    <2>11. Watched'
        BY <1>1, <2>1 DEF Watched
    <2> QED BY <2>2, <2>10, <2>11
<1> QED BY <1>8, <1>9, <1>10 DEF OnboardingInv
\* A save is answered: where it had no id it gets one nobody has, and the form with it.
LEMMA AnsweredKept ==
    ASSUME On!OnboardingAssumption, OnboardingInv, NEW c \in onboardingCalls, On!SaveAnswered(c)
    PROVE  OnboardingInv'
<1>0. flow \in Nat /\ drafts \in Nat /\ onboardingCalls \subseteq NetworkCall /\ OneCall /\ OnboardingType
      /\ onboardingDraft \in NetworkDraft /\ \A d \in onboardingCalls : d.flow <= flow
    BY DEF OnboardingInv, OnboardingType
<1>1. PICK m \in Nat : DOMAIN onboardingNetworks = 1..m
    BY DEF OnboardingInv, OnboardingType
<1>2. Cardinality(DOMAIN onboardingNetworks) = m
    <2>1. Cardinality(1..m) = IF 1 > m THEN 0 ELSE m - 1 + 1
        BY FS_Interval
    <2> QED BY <1>1, <2>1
<1>3. c.what = "save" /\ c \in SavesOut /\ c \in SaveCall
    BY <1>0 DEF On!SaveAnswered, SavesOut, NetworkCall
<1>4. PICK id : id = IF c.id = None THEN m + 1 ELSE c.id
    OBVIOUS
<1>a. id = IF c.id = None THEN Cardinality(DOMAIN onboardingNetworks) + 1 ELSE c.id
    BY <1>2, <1>4
<1>b. None \notin Nat /\ \A x \in DOMAIN onboardingNetworks : x \in Nat /\ x # None
    BY <1>0, IdsAreNumbers DEF On!OnboardingAssumption
<1>5. /\ id \in Nat /\ id # None /\ (c.id # None => id = c.id /\ id \in DOMAIN onboardingNetworks)
      /\ c.id = None => id = m + 1 /\ id \notin DOMAIN onboardingNetworks
      /\ DOMAIN onboardingNetworks \cup {id} \in {1..m, 1..(m + 1)}
    <2>1. CASE c.id = None
        <3>1. id = m + 1 /\ m + 1 \in Nat /\ m + 1 \notin 1..m /\ (1..m) \cup {m + 1} = 1..(m + 1)
            BY <1>4, <2>1
        <3> QED BY <1>1, <1>b, <2>1, <3>1
    <2>2. CASE c.id # None
        <3>1. id = c.id /\ id \in DOMAIN onboardingNetworks
            BY <1>3, <1>4, <2>2 DEF OnboardingInv, OnboardingType
        <3> QED BY <1>1, <1>b, <2>2, <3>1
    <2> QED BY <2>1, <2>2
<1>6. PICK network : network = [of |-> c.config.of, mechanism |-> c.config.mechanism,
                                certificate |-> c.config.certificate]
    OBVIOUS
<1>7. network \in Configured /\ network.of = c.config.of /\ c.config.of \in Nat
    BY <1>3, <1>6 DEF SaveCall, Config, Configured
<1>8. /\ onboardingNetworks' = [x \in DOMAIN onboardingNetworks \cup {id} |->
                                  IF x = id THEN network ELSE onboardingNetworks[x]]
      /\ UNCHANGED <<form, onboardingBusy, flow, drafts, onboardingSaves, strayed>>
    BY <1>a, <1>6, SameCardinality DEF On!SaveAnswered, On!With
<1>9. \/ /\ c.flow # flow /\ onboardingCalls' = onboardingCalls \ {c}
         /\ UNCHANGED <<onboardingStep, onboardingDraft, networkId>>
      \/ /\ c.flow = flow /\ networkId' = id /\ onboardingStep' = "connect"
         /\ onboardingDraft' = [onboardingDraft EXCEPT !.id = id, !.password = None]
         /\ onboardingCalls' = (onboardingCalls \ {c}) \cup {[what |-> "attempt", n |-> c.n, flow |-> flow]}
    BY <1>a, SameCardinality DEF On!SaveAnswered
<1>10. PICK attempt : attempt = [what |-> "attempt", n |-> c.n, flow |-> flow]
    OBVIOUS
<1>11. attempt \in NetworkCall /\ attempt.what = "attempt" /\ attempt.flow = flow
    BY <1>0, <1>3, <1>10 DEF NetworkCall, SaveCall
<1>12. SavesOut' = SavesOut \ {c}
    BY <1>9, <1>10, <1>11 DEF SavesOut
<1>13. /\ onboardingDraft' \in NetworkDraft /\ onboardingDraft'.of = onboardingDraft.of
       /\ onboardingDraft'.id = IF c.flow = flow THEN id ELSE onboardingDraft.id
    BY <1>0, <1>5, <1>9 DEF NetworkDraft, Password
<1>14. DOMAIN onboardingNetworks' = DOMAIN onboardingNetworks \cup {id} /\ onboardingNetworks'[id] = network
       /\ \A x \in DOMAIN onboardingNetworks : x # id => onboardingNetworks'[x] = onboardingNetworks[x]
    BY <1>8
<1>15. OnboardingType'
    <2>1. \E n \in Nat : DOMAIN onboardingNetworks' = 1..n
        <3>1. m + 1 \in Nat
            OBVIOUS
        <3> QED BY <1>5, <1>14, <3>1
    <2>2. \A x \in DOMAIN onboardingNetworks' : onboardingNetworks'[x] \in Configured
        BY <1>0, <1>7, <1>14 DEF OnboardingType
    <2>3. onboardingCalls' \subseteq NetworkCall /\ \A d \in onboardingCalls' : d.flow <= flow
        BY <1>0, <1>9, <1>10, <1>11
    <2>4. \A d \in onboardingCalls' : d.what = "remove" => d.n \in DOMAIN onboardingNetworks'
        BY <1>0, <1>9, <1>10, <1>11, <1>14 DEF OnboardingType
    <2>5. \A d \in SavesOut' : d.id \in DOMAIN onboardingNetworks' \cup {None}
        BY <1>0, <1>12, <1>14 DEF OnboardingType
    <2>6. onboardingDraft'.id \in DOMAIN onboardingNetworks' \cup {None}
        BY <1>0, <1>13, <1>14 DEF OnboardingType
    <2> QED BY <1>0, <1>8, <1>13, <2>1, <2>2, <2>3, <2>4, <2>5, <2>6 DEF OnboardingType
<1>16. OneCall'
    <2>1. CASE c.flow # flow
        BY <1>0, <1>8, <1>9, <2>1 DEF OneCall
    <2>2. CASE c.flow = flow
        <3>1. \A d \in onboardingCalls : d.flow = flow => d = c
            BY <1>0, <2>2 DEF OneCall
        <3>2. \A d \in onboardingCalls' : d.flow = flow => d = attempt
            BY <1>9, <1>10, <2>2, <3>1
        <3>3. onboardingBusy = TRUE
            BY <1>0, <2>2 DEF OneCall
        <3> QED BY <1>8, <3>2, <3>3 DEF OneCall
    <2> QED BY <2>1, <2>2
<1>17. ASSUME ~strayed' PROVE Numbered' /\ Claimed' /\ Watched'
    <2>1. Numbered /\ Claimed /\ Watched
        BY <1>8, <1>17 DEF OnboardingInv
    <2>2. c.config.of > 0 /\ c.config.of <= drafts
        BY <1>3, <2>1 DEF Numbered
    <2>3. c.flow = flow => c.id = onboardingDraft.id /\ c.config.of = onboardingDraft.of
        BY <1>3, <2>1 DEF Claimed
    <2>4. Numbered'
        <3>1. onboardingDraft'.of <= drafts /\ (onboardingDraft'.id # None => onboardingDraft'.of > 0)
            BY <1>13, <2>1, <2>2, <2>3 DEF Numbered
        <3>2. \A x \in DOMAIN onboardingNetworks' : onboardingNetworks'[x].of <= drafts
            BY <1>7, <1>14, <2>1, <2>2 DEF Numbered
        <3> QED BY <1>8, <1>12, <2>1, <3>1, <3>2 DEF Numbered
\* What is claimed after: what was, and the id for what the save was of.
    <2>5. \A i, k : Claim(i, k)' => Claim(i, k) \/ (i = id /\ k = c.config.of)
        <3>1. ASSUME NEW i, NEW k, Claim(i, k)', i # id PROVE Claim(i, k)
            <4>1. i \in DOMAIN onboardingNetworks /\ k # 0
                BY <1>14, <3>1 DEF Claim
            <4>2. onboardingDraft'.id = i => onboardingDraft.id = i
                BY <1>13, <3>1
            <4> QED BY <1>12, <1>13, <1>14, <3>1, <4>1, <4>2 DEF Claim
        <3>2. ASSUME NEW k, Claim(id, k)', k # c.config.of PROVE Claim(id, k)
            <4>1. k # 0 /\ onboardingNetworks'[id].of = c.config.of
                BY <1>7, <1>14, <3>2 DEF Claim
            <4>2. onboardingDraft'.id = id /\ onboardingDraft'.of = k => onboardingDraft.id = id /\ c.flow # flow
                BY <1>13, <2>3, <3>2
            <4>3. \/ onboardingDraft.id = id /\ onboardingDraft.of = k
                  \/ \E d \in SavesOut : d.id = id /\ d.config.of = k
                BY <1>12, <1>13, <3>2, <4>1, <4>2 DEF Claim
            <4>4. id \in DOMAIN onboardingNetworks
                BY <1>0, <1>5, <4>3 DEF OnboardingType
            <4> QED BY <4>1, <4>3, <4>4 DEF Claim
        <3> QED BY <3>1, <3>2
    <2>6. \A k : Nameless(k)' => Nameless(k)
        BY <1>5, <1>12, <1>13 DEF Nameless
\* It was claimed already, or neither the id nor what it is of was claimed.
    <2>7. \/ Claim(id, c.config.of)
          \/ \A i, k : Claim(i, k) => i # id /\ k # c.config.of
        <3>1. CASE c.id # None
            BY <1>3, <1>5, <2>2, <3>1 DEF Claim
        <3>2. CASE c.id = None
            <4>1. Nameless(c.config.of)
                BY <1>3, <3>2 DEF Nameless
            <4>2. \A i, k : Claim(i, k) => i # id
                BY <1>5, <3>2 DEF Claim
            <4> QED BY <2>1, <4>1, <4>2 DEF Claimed
        <3> QED BY <3>1, <3>2
    <2>8. \A i, j, k, l : Claim(i, k)' /\ Claim(j, l)' => (i = j <=> k = l)
        BY <2>1, <2>5, <2>7 DEF Claimed
    <2>9. ~Nameless(c.config.of)'
        <3>1. CASE c.id # None
            <4>1. Claim(id, c.config.of)
                BY <1>3, <1>5, <2>2, <3>1 DEF Claim
            <4> QED BY <2>1, <2>6, <4>1 DEF Claimed
        <3>2. CASE c.id = None
            <4>1. \A d \in SavesOut' : ~(d.id = None /\ d.config.of = c.config.of)
                BY <1>3, <1>12, <2>1, <3>2 DEF Claimed
            <4>2. ~(onboardingDraft'.id = None /\ onboardingDraft'.of = c.config.of)
                BY <1>3, <1>5, <1>13, <2>1, <3>2 DEF Claimed
            <4> QED BY <4>1, <4>2 DEF Nameless
        <3> QED BY <3>1, <3>2
    <2>10. \A i, k : ~(Claim(i, k)' /\ Nameless(k)')
        BY <2>1, <2>5, <2>6, <2>9 DEF Claimed
    <2>11. \A d \in SavesOut' :
             IF d.flow = flow THEN d.id = onboardingDraft'.id /\ d.config.of = onboardingDraft'.of
             ELSE d.id = None => d.config.of # onboardingDraft'.of
        <3>1. ASSUME NEW d \in SavesOut', d.flow = flow PROVE c.flow # flow
            BY <1>0, <1>3, <1>12, <3>1 DEF OneCall, SavesOut
        <3> QED BY <1>12, <1>13, <2>1, <3>1 DEF Claimed
    <2>12. Claimed'
        <3>1. \A d, e \in SavesOut' : d.id = None /\ e.id = None /\ d.config.of = e.config.of => d = e
            BY <1>12, <2>1 DEF Claimed
        <3> QED BY <1>8, <2>8, <2>10, <2>11, <3>1 DEF Claimed
    <2>13. Watched'
        <3>1. CASE c.flow = flow
            BY <1>5, <1>9, <1>13, <2>2, <2>3, <3>1 DEF Watched
        <3>2. CASE c.flow # flow
            BY <1>9, <2>1, <3>2 DEF Watched
        <3> QED BY <3>1, <3>2
    <2> QED BY <2>4, <2>12, <2>13
<1> QED BY <1>15, <1>16, <1>17 DEF OnboardingInv

LEMMA OnboardingKept ==
    ASSUME On!OnboardingAssumption, OnboardingInv, [On!Next]_(On!vars) PROVE OnboardingInv'
<1>1. CASE \/ On!openAdvanced \/ On!Certificate \/ On!Back \/ On!EditSettings \/ On!onDone
           \/ \E id \in On!Live : On!applyIdentity(id)
           \/ \E m \in On!Mechanisms : On!Mechanism(m)
           \/ \E p \in Passwords : On!Password(p)
           \/ \E id \in On!Live, next \in {"connected", "failed"} : On!StatusChanged(id, next)
           \/ UNCHANGED On!vars
    BY <1>1, ChangeKept
<1>2. CASE On!remove \/ \E c \in onboardingCalls : On!CallEnds(c) \/ On!Removed(c)
    BY <1>2, CallEndsKept
<1>3. CASE \/ \E next \in On!Forms : On!choose(next)
           \/ On!OpenNew
           \/ \E id \in On!Live : On!OpenNetwork(id)
    BY <1>3, OpenedKept
<1>4. CASE On!save
    BY <1>4, DraftSaved
<1>5. CASE \E c \in onboardingCalls : On!SaveAnswered(c)
    BY <1>5, AnsweredKept
<1> QED BY <1>1, <1>2, <1>3, <1>4, <1>5 DEF On!Next

\* However often a draft is saved, left and gone back to, no two networks are of one
\* draft and the connection watched is that of the form, unless another way in was
\* chosen with a save out (components/onboarding).
THEOREM DraftCorrect == ASSUME On!OnboardingAssumption PROVE On!Spec => []On!OneDraftOneNetwork
<1>1. On!Init => OnboardingInv
    BY OnboardingInit
<1>2. OnboardingInv /\ [On!Next]_(On!vars) => OnboardingInv'
    BY OnboardingKept
<1>3. OnboardingInv => On!OneDraftOneNetwork
    <2> SUFFICES ASSUME OnboardingInv, ~strayed
                 PROVE  /\ \A a, b \in On!Live : onboardingNetworks[a].of = onboardingNetworks[b].of => a = b
                        /\ onboardingStep = "connect" /\ networkId \in On!Live =>
                             onboardingDraft.id = networkId
                             /\ onboardingNetworks[networkId].of = onboardingDraft.of
        BY DEF On!OneDraftOneNetwork
    <2>1. Claimed /\ Watched
        BY DEF OnboardingInv
    <2>2. \A id \in On!Live : Claim(id, onboardingNetworks[id].of)
        BY DEF Claim, On!Live
    <2>3. \A a, b \in On!Live : onboardingNetworks[a].of = onboardingNetworks[b].of => a = b
        BY <2>1, <2>2 DEF Claimed
    <2>4. ASSUME onboardingStep = "connect", networkId \in On!Live
          PROVE  onboardingDraft.id = networkId /\ onboardingNetworks[networkId].of = onboardingDraft.of
        <3>1. onboardingDraft.id = networkId /\ onboardingDraft.of > 0
            BY <2>1, <2>4 DEF Watched
        <3>2. Claim(networkId, onboardingDraft.of)
            <4>1. onboardingDraft.of # 0
                BY <3>1 DEF OnboardingInv, OnboardingType, NetworkDraft
            <4> QED BY <2>4, <3>1, <4>1 DEF Claim, On!Live
        <3> QED BY <2>1, <2>2, <2>4, <3>1, <3>2 DEF Claimed
    <2> QED BY <2>3, <2>4
<1> QED BY <1>1, <1>2, <1>3, PTL DEF On!Spec

-----------------------------------------------------------------------------
(* A setup taken to another computer (Profile).                            *)

Planned(i) == plan.networks[i]
NameOf(i) == Planned(i).config.name

ProfileType ==
    /\ fresh \in Nat \ {0} /\ DOMAIN profileNetworks \subseteq 1..(fresh - 1)
    /\ profileNetworks = [id \in DOMAIN profileNetworks |-> profileNetworks[id]]
    /\ \A id \in DOMAIN profileNetworks : profileNetworks[id] \in Po!Network
    /\ \A m \in muted : m = <<m[1], m[2]>> /\ m[1] \in DOMAIN profileNetworks
    /\ upload # None => Po!Provider(upload)
    /\ words = [backend |-> words.backend, client |-> words.backend]
    /\ profileBusy \in BOOLEAN /\ (profileBusy => plan # None /\ profileStep \in Nat)
    /\ plan # None => /\ plan.file \in Usable /\ DOMAIN plan.networks = DOMAIN plan.file.networks
                      /\ DOMAIN plan.networks = 1..Len(plan.networks) /\ Len(plan.networks) \in Nat
\* A secret is of a network that has a login.
SecretsInv == \A id \in secrets \cap DOMAIN profileNetworks : profileNetworks[id].sasl # None
\* What is planned of a network this computer has leaves it its own; what is added
\* claims no login; no two are of one name.
PlanInv ==
    plan # None =>
        /\ \A i \in DOMAIN plan.networks :
              /\ Planned(i).config \in Po!Network /\ NameOf(i) = plan.file.networks[i].name
              /\ IF Planned(i).id = None THEN Planned(i).config.sasl = None
                 ELSE /\ Planned(i).id \in DOMAIN profileNetworks
                      /\ LET ours == profileNetworks[Planned(i).id]
                         IN  /\ ours.name = NameOf(i) /\ ours.sasl = Planned(i).config.sasl
                             /\ ours.certificate = Planned(i).config.certificate
                             /\ ours.commands = Planned(i).config.commands
        /\ \A i, j \in DOMAIN plan.networks : NameOf(i) = NameOf(j) => i = j
\* Half way: the networks before the step have their ids, and those to be added
\* after it have names nobody has, unless this was tried before.
HalfInv ==
    profileBusy =>
        /\ \A i \in DOMAIN plan.networks : i < profileStep =>
              /\ NameOf(i) \in DOMAIN ids /\ ids[NameOf(i)] \in DOMAIN profileNetworks
              /\ Planned(i).id # None => ids[NameOf(i)] = Planned(i).id
        /\ ~again => \A i \in DOMAIN plan.networks :
                        i >= profileStep /\ Planned(i).id = None => Po!Named(NameOf(i)) = {}
\* A plan of what is here is what is here.
OwnInv ==
    own /\ plan # None =>
        /\ \A i \in DOMAIN plan.networks : /\ Planned(i).id \in DOMAIN profileNetworks /\ Planned(i).id # None
                                          /\ Planned(i).config = profileNetworks[Planned(i).id]
        /\ \A id \in DOMAIN profileNetworks : \E i \in DOMAIN plan.networks : Planned(i).id = id
        /\ plan.file.words = words.backend /\ plan.file.appearance = appearance
        /\ plan.file.upload = Po!portableUpload(upload)
        /\ plan.file.mutes = {<<profileNetworks[m[1]].name, m[2]>> : m \in muted}
ProfileInv == ProfileType /\ SecretsInv /\ PlanInv /\ HalfInv /\ OwnInv

LEMMA SameImportCardinality == \A S : Po!Cardinality(S) = Cardinality(S)
BY DEF Po!Cardinality, Cardinality

LEMMA OneOfOne ==
    ASSUME NEW n \in Nat, NEW S \in SUBSET (1..n), Cardinality(S) <= 1, NEW x \in S, NEW y \in S
    PROVE  x = y
<1> SUFFICES ASSUME x # y PROVE FALSE
    OBVIOUS
<1>1. IsFiniteSet(S)
    <2>1. IsFiniteSet(1..n)
        BY FS_Interval
    <2> QED BY <2>1, FS_Subset
<1>2. Cardinality({x, y}) = 2
    <2>1. IsFiniteSet({x}) /\ Cardinality({x}) = 1
        BY FS_Singleton
    <2>2. Cardinality({x} \cup {y}) = Cardinality({x}) + 1
        BY <2>1, FS_AddElement
    <2>3. {x} \cup {y} = {x, y}
        OBVIOUS
    <2> QED BY <2>1, <2>2, <2>3
<1>3. Cardinality({x, y}) <= Cardinality(S) /\ Cardinality(S) \in Nat
    BY <1>1, FS_Subset, FS_CardinalityType
<1> QED BY <1>2, <1>3

LEMMA ImportedIds ==
    ASSUME Po!ProfileAssumption, ProfileType PROVE \A id \in DOMAIN profileNetworks : id \in Nat /\ id # None
<1>1. None \notin Nat
    BY DEF Po!ProfileAssumption
<1>2. \A id \in 1..(fresh - 1) : id \in Nat
    BY DEF ProfileType
<1> QED BY <1>1, <1>2 DEF ProfileType

LEMMA ProfileInit == ASSUME Po!ProfileAssumption, Po!Init PROVE ProfileInv
<1>1. PICK n \in Nat : DOMAIN profileNetworks = 1..n
    BY DEF Po!Init, Po!ProfileAssumption
<1>2. fresh = n + 1
    <2>1. Cardinality(1..n) = IF 1 > n THEN 0 ELSE n - 1 + 1
        BY FS_Interval
    <2> QED BY <1>1, <2>1, SameImportCardinality DEF Po!Init
<1>3. /\ profileNetworks = [id \in DOMAIN profileNetworks |-> profileNetworks[id]]
      /\ \A id \in DOMAIN profileNetworks : profileNetworks[id] \in Po!Network
    BY DEF Po!Init, Po!ProfileAssumption
<1>4. \A m \in muted : m = <<m[1], m[2]>> /\ m[1] \in DOMAIN profileNetworks
    BY DEF Po!Init
<1>5. upload # None => Po!Provider(upload)
    <2>1. CASE upload = [at |-> "ours", query |-> TRUE, credential |-> FALSE]
        BY <2>1 DEF Po!Provider
    <2> QED BY <2>1 DEF Po!Init
<1>6. ProfileType
    <2>1. fresh \in Nat \ {0} /\ DOMAIN profileNetworks \subseteq 1..(fresh - 1)
        BY <1>1, <1>2
    <2>2. plan = None /\ profileBusy = FALSE /\ words = [backend |-> "ours", client |-> "ours"]
        BY DEF Po!Init
    <2>3. words = [backend |-> words.backend, client |-> words.backend]
        BY <2>2
    <2> QED BY <1>3, <1>4, <1>5, <2>1, <2>2, <2>3 DEF ProfileType
<1>7. SecretsInv
    BY DEF SecretsInv, Po!Init
<1> QED BY <1>6, <1>7 DEF ProfileInv, PlanInv, HalfInv, OwnInv, Po!Init

\* Named and the CHOOSE of it.
LEMMA OursIsNamed ==
    ASSUME Po!ProfileAssumption, ProfileType, NEW name, Po!Named(name) # {}
    PROVE  /\ (CHOOSE id \in Po!Named(name) : TRUE) \in DOMAIN profileNetworks
           /\ profileNetworks[CHOOSE id \in Po!Named(name) : TRUE].name = name
           /\ profileNetworks[CHOOSE id \in Po!Named(name) : TRUE] \in Po!Network
           /\ profileNetworks[CHOOSE id \in Po!Named(name) : TRUE] # None
<1>1. PICK c : c = CHOOSE id \in Po!Named(name) : TRUE
    OBVIOUS
<1>2. c \in Po!Named(name)
    BY <1>1
<1>3. c \in DOMAIN profileNetworks /\ profileNetworks[c].name = name
    BY <1>2 DEF Po!Named
<1>4. profileNetworks[c] \in Po!Network /\ None \notin Po!Network
    BY <1>3 DEF ProfileType, Po!ProfileAssumption
<1> QED BY <1>1, <1>3, <1>4

\* What is planned of one network of a file.
LEMMA PlannedOne ==
    ASSUME Po!ProfileAssumption, ProfileType, NEW network \in Po!Portable
    PROVE  LET planned == Po!plannedNetwork(network)
           IN  /\ planned.config \in Po!Network /\ planned.config.name = network.name
               /\ IF planned.id = None THEN planned.config.sasl = None
                  ELSE /\ planned.id \in DOMAIN profileNetworks
                       /\ LET ours == profileNetworks[planned.id]
                          IN  /\ ours.name = network.name /\ ours.sasl = planned.config.sasl
                              /\ ours.certificate = planned.config.certificate
                              /\ ours.commands = planned.config.commands
               /\ \A id \in Po!Named(network.name) :
                    (\A x \in Po!Named(network.name) : x = id)
                      /\ network = Po!portableNetwork(profileNetworks[id]) =>
                        planned.id = id /\ planned.config = profileNetworks[id]
<1> DEFINE planned == Po!plannedNetwork(network)
<1>1. PICK id : id = CHOOSE x \in Po!Named(network.name) : TRUE
    OBVIOUS
<1>2. PICK ours : ours = IF Po!Named(network.name) = {} THEN None ELSE profileNetworks[id]
    OBVIOUS
<1>3. PICK ready : ready = Po!authentication(network, ours)
    OBVIOUS
<1>4. PICK config : config = [name |-> network.name, at |-> network.at,
                              sasl |-> IF ours = None THEN None ELSE ours.sasl,
                              certificate |-> ours # None /\ ours.certificate,
                              commands |-> ours # None /\ ours.commands,
                              auto |-> (ready = "ready" \/ ours # None) /\ network.auto]
    OBVIOUS
<1>5. planned = [id |-> IF ours = None THEN None ELSE id, ready |-> ready, config |-> config]
    BY <1>1, <1>2, <1>3, <1>4 DEF Po!plannedNetwork
<1>6. planned.id = (IF ours = None THEN None ELSE id) /\ planned.config = config
    BY <1>5
<1>7. network.name \in {n.name : n \in Po!Known \cup Po!Listed} /\ network.at \in {n.at : n \in Po!Known \cup Po!Listed}
      /\ network.auto \in BOOLEAN
    BY DEF Po!Portable
<1>8. CASE Po!Named(network.name) = {}
    <2>1. ours = None /\ planned.id = None
        BY <1>2, <1>6, <1>8
    <2>2. config = [name |-> network.name, at |-> network.at, sasl |-> None, certificate |-> FALSE,
                    commands |-> FALSE, auto |-> ready = "ready" /\ network.auto]
        BY <1>4, <2>1
    <2>3. config \in Po!Network /\ config.name = network.name /\ config.sasl = None
        BY <1>7, <2>2 DEF Po!Network
    <2> HIDE DEF planned
    <2> QED BY <1>6, <1>8, <2>1, <2>3 DEF planned
<1>9. CASE Po!Named(network.name) # {}
    <2>1. ours = profileNetworks[id] /\ id \in DOMAIN profileNetworks /\ ours.name = network.name
          /\ ours \in Po!Network /\ ours # None
        BY <1>1, <1>2, <1>9, OursIsNamed
    <2>2. config = [name |-> network.name, at |-> network.at, sasl |-> ours.sasl,
                    certificate |-> ours.certificate, commands |-> ours.commands, auto |-> network.auto]
        BY <1>4, <1>7, <2>1 DEF Po!Network
    <2>3. config \in Po!Network /\ config.name = network.name /\ config.sasl = ours.sasl
          /\ config.certificate = ours.certificate /\ config.commands = ours.commands
        BY <1>7, <2>1, <2>2 DEF Po!Network
    <2>4. ASSUME NEW x \in Po!Named(network.name), \A y \in Po!Named(network.name) : y = x,
                 network = Po!portableNetwork(profileNetworks[x])
          PROVE  id = x /\ config = profileNetworks[x]
        <3>1. id = x
            BY <1>1, <2>4
        <3>2. network.at = ours.at /\ network.auto = ours.auto
            BY <2>1, <2>4, <3>1 DEF Po!portableNetwork
        <3>3. ours = [name |-> ours.name, at |-> ours.at, sasl |-> ours.sasl,
                      certificate |-> ours.certificate, commands |-> ours.commands, auto |-> ours.auto]
            BY <2>1 DEF Po!Network
        <3> QED BY <2>1, <2>2, <3>1, <3>2, <3>3
    <2>5. planned.id = id
        BY <1>6, <2>1
    <2>6. planned.id # None
        BY <2>1, <2>5, ImportedIds
    <2> HIDE DEF planned
    <2> QED BY <1>6, <1>9, <2>1, <2>3, <2>4, <2>5, <2>6 DEF planned
<1> QED BY <1>8, <1>9

\* A file is chosen: what is planned of it, and of a file written here.
LEMMA ChosenKept ==
    ASSUME Po!ProfileAssumption, ProfileInv, NEW file \in Files, Po!chooseProfile(file)
    PROVE  ProfileInv'
<1>0. profileBusy = FALSE /\ file \in Usable /\ Po!Matched(file) /\ file.networks \in Seq(Po!Portable)
    <2>1. ~profileBusy /\ profileBusy \in BOOLEAN /\ file \in Usable /\ Po!Matched(file)
        BY DEF Po!chooseProfile, ProfileInv, ProfileType
    <2>2. \A f \in Usable : f.networks \in Seq(Po!Portable)
        BY DEF Po!ProfileAssumption
    <2> QED BY <2>1, <2>2
<1>1. PICK nets : nets = [i \in DOMAIN file.networks |-> Po!plannedNetwork(file.networks[i])]
    OBVIOUS
<1>2. plan' = [networks |-> nets, file |-> file] /\ own' = Po!buildPortableProfile(file)
      /\ UNCHANGED <<profileNetworks, fresh, secrets, muted, upload, words, appearance, profileStep, ids,
                     profileBusy, imports, again>>
    BY <1>1 DEF Po!chooseProfile, Po!backend
<1>3. plan'.networks = nets /\ plan'.file = file
    BY <1>2
<1>4. \A i \in DOMAIN nets : Planned(i)' = Po!plannedNetwork(file.networks[i]) /\ file.networks[i] \in Po!Portable
    BY <1>0, <1>1, <1>3 DEF Planned
<1>5. ProfileType'
    <2>1. DOMAIN nets = 1..Len(file.networks) /\ Len(file.networks) \in Nat /\ DOMAIN nets = DOMAIN file.networks
        BY <1>0, <1>1
    <2>2. Len(nets) = Len(file.networks)
        BY <1>0, <1>1
    <2> QED BY <1>0, <1>2, <1>3, <2>1, <2>2 DEF ProfileInv, ProfileType
<1>6. SecretsInv' /\ HalfInv'
    BY <1>0, <1>2 DEF ProfileInv, SecretsInv, HalfInv
<1>7. ProfileType
    BY DEF ProfileInv
<1>8. PlanInv'
    <2>1. ASSUME NEW i \in DOMAIN nets
          PROVE  /\ Planned(i)'.config \in Po!Network /\ NameOf(i)' = file.networks[i].name
                 /\ IF Planned(i)'.id = None THEN Planned(i)'.config.sasl = None
                    ELSE /\ Planned(i)'.id \in DOMAIN profileNetworks
                         /\ LET ours == profileNetworks[Planned(i)'.id]
                            IN  /\ ours.name = NameOf(i)' /\ ours.sasl = Planned(i)'.config.sasl
                                /\ ours.certificate = Planned(i)'.config.certificate
                                /\ ours.commands = Planned(i)'.config.commands
        BY <1>4, <1>7, PlannedOne DEF NameOf
    <2>2. \A i, j \in DOMAIN nets : NameOf(i)' = NameOf(j)' => i = j
        BY <1>0, <1>1, <2>1 DEF Po!Matched
    <2> QED BY <1>2, <1>3, <2>1, <2>2 DEF PlanInv
<1>9. OwnInv'
    <2> SUFFICES ASSUME own' PROVE OwnInv'
        BY DEF OwnInv
    <2>1. /\ {file.networks[i] : i \in DOMAIN file.networks} =
               {Po!portableNetwork(profileNetworks[id]) : id \in DOMAIN profileNetworks}
          /\ file.words = words.backend /\ file.upload = Po!portableUpload(upload)
          /\ file.appearance = appearance
          /\ file.mutes = {<<profileNetworks[m[1]].name, m[2]>> : m \in muted}
        BY <1>2 DEF Po!buildPortableProfile
    <2>2. \A i \in DOMAIN nets : \A x, y \in Po!Named(file.networks[i].name) : x = y
        <3>1. ASSUME NEW i \in DOMAIN nets, NEW x \in Po!Named(file.networks[i].name),
                     NEW y \in Po!Named(file.networks[i].name)
              PROVE  x = y
            <4>1. PICK n \in Nat : Po!Named(file.networks[i].name) \subseteq 1..n
                <5>1. PICK n \in Nat : DOMAIN profileNetworks \subseteq 1..n
                    <6>1. CASE fresh = 0
                        <7>1. 1..(fresh - 1) = 1..0
                            BY <6>1
                        <7> QED BY <1>7, <7>1 DEF ProfileType
                    <6>2. CASE fresh # 0
                        <7>1. fresh - 1 \in Nat
                            BY <1>7, <6>2 DEF ProfileType
                        <7> QED BY <1>7, <7>1 DEF ProfileType
                    <6> QED BY <6>1, <6>2
                <5> QED BY <5>1 DEF Po!Named
            <4>2. Cardinality(Po!Named(file.networks[i].name)) <= 1
                BY <1>0, <1>1, SameImportCardinality DEF Po!Matched
            <4> QED BY <4>1, <4>2, OneOfOne
        <3> QED BY <3>1
    <2>4. \A i \in DOMAIN nets, id \in DOMAIN profileNetworks :
            file.networks[i] = Po!portableNetwork(profileNetworks[id]) =>
                Planned(i)'.id = id /\ Planned(i)'.config = profileNetworks[id]
        <3> SUFFICES ASSUME NEW i \in DOMAIN nets, NEW id \in DOMAIN profileNetworks,
                            file.networks[i] = Po!portableNetwork(profileNetworks[id])
                     PROVE  Planned(i)'.id = id /\ Planned(i)'.config = profileNetworks[id]
            OBVIOUS
        <3>1. id \in Po!Named(file.networks[i].name)
            BY DEF Po!Named, Po!portableNetwork
        <3>2. \A x \in Po!Named(file.networks[i].name) : x = id
            BY <2>2, <3>1
        <3>3. LET planned == Po!plannedNetwork(file.networks[i])
              IN  planned.id = id /\ planned.config = profileNetworks[id]
            BY <1>4, <1>7, <3>1, <3>2, PlannedOne
        <3> QED BY <1>4, <3>3
    <2>5. \A i \in DOMAIN nets : \E id \in DOMAIN profileNetworks :
            file.networks[i] = Po!portableNetwork(profileNetworks[id])
        BY <1>1, <2>1
    <2>6. \A id \in DOMAIN profileNetworks : \E i \in DOMAIN nets :
            file.networks[i] = Po!portableNetwork(profileNetworks[id])
        BY <1>1, <2>1
    <2>7. \A i \in DOMAIN nets : Planned(i)'.id \in DOMAIN profileNetworks
                                 /\ Planned(i)'.config = profileNetworks[Planned(i)'.id]
                                 /\ Planned(i)'.id # None
        BY <1>7, <2>4, <2>5, ImportedIds
    <2>8. \A id \in DOMAIN profileNetworks : \E i \in DOMAIN nets : Planned(i)'.id = id
        BY <2>4, <2>6
    <2> QED BY <1>2, <1>3, <2>1, <2>7, <2>8 DEF OwnInv
<1> QED BY <1>5, <1>6, <1>8, <1>9 DEF ProfileInv

\* A network is saved: one this computer has keeps what is its own, and one it has
\* not is given an id of its own.
LEMMA NetworkSaved ==
    ASSUME Po!ProfileAssumption, ProfileInv, Po!saveNetwork
    PROVE  \E id \in Nat :
        /\ id = IF Planned(profileStep).id = None THEN fresh ELSE Planned(profileStep).id
        /\ profileBusy /\ plan # None /\ profileStep \in DOMAIN plan.networks /\ profileStep' = profileStep + 1
        /\ DOMAIN profileNetworks' = DOMAIN profileNetworks \cup {id}
        /\ profileNetworks'[id] = Planned(profileStep).config
        /\ \A x \in DOMAIN profileNetworks : x # id => profileNetworks'[x] = profileNetworks[x]
        /\ \A x \in DOMAIN profileNetworks :
              /\ profileNetworks'[x].name = profileNetworks[x].name
              /\ profileNetworks'[x].sasl = profileNetworks[x].sasl
              /\ profileNetworks'[x].certificate = profileNetworks[x].certificate
              /\ profileNetworks'[x].commands = profileNetworks[x].commands
        /\ fresh' \in {fresh, fresh + 1} /\ id < fresh' /\ fresh <= fresh'
        /\ \/ id \in DOMAIN profileNetworks /\ fresh' = fresh /\ Planned(profileStep).id # None
           \/ /\ id = fresh /\ fresh \notin DOMAIN profileNetworks /\ Planned(profileStep).config.sasl = None
              /\ Planned(profileStep).id = None
        /\ secrets' = IF Planned(profileStep).config.sasl = None THEN secrets \ {id} ELSE secrets
        /\ DOMAIN ids' = DOMAIN ids \cup {NameOf(profileStep)} /\ ids'[NameOf(profileStep)] = id
        /\ \A n \in DOMAIN ids : n # NameOf(profileStep) => ids'[n] = ids[n]
        /\ UNCHANGED <<words, muted, upload, appearance, plan, profileBusy, imports, again, own>>
<1>1. profileBusy /\ plan # None /\ profileStep \in DOMAIN plan.networks /\ ProfileType
    BY DEF Po!saveNetwork, ProfileInv, ProfileType
<1>2. PICK id : id = IF Planned(profileStep).id = None THEN fresh ELSE Planned(profileStep).id
    OBVIOUS
<1>3. /\ profileNetworks' = [x \in DOMAIN profileNetworks \cup {id} |->
                                IF x = id THEN Planned(profileStep).config ELSE profileNetworks[x]]
      /\ fresh' = IF Planned(profileStep).id = None THEN fresh + 1 ELSE fresh
      /\ secrets' = IF Planned(profileStep).config.sasl = None THEN secrets \ {id} ELSE secrets
      /\ ids' = [n \in DOMAIN ids \cup {NameOf(profileStep)} |-> IF n = NameOf(profileStep) THEN id ELSE ids[n]]
      /\ profileStep' = profileStep + 1
      /\ UNCHANGED <<words, muted, upload, appearance, plan, profileBusy, imports, again, own>>
    BY <1>2 DEF Po!saveNetwork, Po!With, Planned, NameOf
<1>4. /\ IF Planned(profileStep).id = None THEN Planned(profileStep).config.sasl = None
         ELSE /\ Planned(profileStep).id \in DOMAIN profileNetworks
              /\ profileNetworks[Planned(profileStep).id].name = Planned(profileStep).config.name
              /\ profileNetworks[Planned(profileStep).id].sasl = Planned(profileStep).config.sasl
              /\ profileNetworks[Planned(profileStep).id].certificate = Planned(profileStep).config.certificate
              /\ profileNetworks[Planned(profileStep).id].commands = Planned(profileStep).config.commands
    BY <1>1 DEF ProfileInv, PlanInv, NameOf
<1>5. fresh \in Nat /\ fresh \notin DOMAIN profileNetworks
      /\ \A x \in DOMAIN profileNetworks : x \in Nat /\ x < fresh
    BY <1>1 DEF ProfileType
<1>6. CASE Planned(profileStep).id = None
    <2>1. id = fresh /\ fresh' = fresh + 1 /\ Planned(profileStep).config.sasl = None
        BY <1>2, <1>3, <1>4, <1>6
    <2> QED BY <1>1, <1>2, <1>3, <1>5, <1>6, <2>1
<1>7. CASE Planned(profileStep).id # None
    <2>1. id = Planned(profileStep).id /\ id \in DOMAIN profileNetworks /\ fresh' = fresh
        BY <1>2, <1>3, <1>4, <1>7
    <2>2. /\ profileNetworks[id].name = Planned(profileStep).config.name
          /\ profileNetworks[id].sasl = Planned(profileStep).config.sasl
          /\ profileNetworks[id].certificate = Planned(profileStep).config.certificate
          /\ profileNetworks[id].commands = Planned(profileStep).config.commands
        BY <1>4, <1>7, <2>1
    <2>3. \A x \in DOMAIN profileNetworks :
              /\ profileNetworks'[x].name = profileNetworks[x].name
              /\ profileNetworks'[x].sasl = profileNetworks[x].sasl
              /\ profileNetworks'[x].certificate = profileNetworks[x].certificate
              /\ profileNetworks'[x].commands = profileNetworks[x].commands
        BY <1>3, <2>1, <2>2
    <2>4. id \in Nat /\ id < fresh' /\ fresh <= fresh' /\ fresh' \in {fresh, fresh + 1}
        BY <1>5, <2>1
    <2>5. DOMAIN profileNetworks' = DOMAIN profileNetworks \cup {id}
          /\ profileNetworks'[id] = Planned(profileStep).config
          /\ \A x \in DOMAIN profileNetworks : x # id => profileNetworks'[x] = profileNetworks[x]
        BY <1>3
    <2>6. DOMAIN ids' = DOMAIN ids \cup {NameOf(profileStep)} /\ ids'[NameOf(profileStep)] = id
          /\ \A n \in DOMAIN ids : n # NameOf(profileStep) => ids'[n] = ids[n]
        BY <1>3
    <2> QED BY <1>1, <1>2, <1>3, <1>7, <2>1, <2>3, <2>4, <2>5, <2>6
<1> QED BY <1>6, <1>7

\* Of a plan of what is here, what is saved is what is there.
LEMMA OwnSaved ==
    ASSUME Po!ProfileAssumption, ProfileInv, Po!saveNetwork, own
    PROVE  profileNetworks' = profileNetworks
<1>1. plan # None /\ profileStep \in DOMAIN plan.networks
    BY DEF Po!saveNetwork, ProfileInv, ProfileType
<1>2. PICK id : id = Planned(profileStep).id
    OBVIOUS
<1>3. id \in DOMAIN profileNetworks /\ id # None /\ Planned(profileStep).config = profileNetworks[id]
    BY <1>1, <1>2 DEF ProfileInv, OwnInv
<1>4. profileNetworks' = [x \in DOMAIN profileNetworks \cup {id} |->
                            IF x = id THEN profileNetworks[id] ELSE profileNetworks[x]]
    BY <1>2, <1>3 DEF Po!saveNetwork, Po!With, Planned
<1>5. profileNetworks = [x \in DOMAIN profileNetworks |-> profileNetworks[x]]
    BY DEF ProfileInv, ProfileType
<1> QED BY <1>3, <1>4, <1>5

LEMMA ImportedKept == ASSUME Po!ProfileAssumption, ProfileInv, Po!saveNetwork PROVE ProfileInv'
<1>1. PICK id \in Nat :
        /\ id = IF Planned(profileStep).id = None THEN fresh ELSE Planned(profileStep).id
        /\ profileBusy /\ plan # None /\ profileStep \in DOMAIN plan.networks /\ profileStep' = profileStep + 1
        /\ DOMAIN profileNetworks' = DOMAIN profileNetworks \cup {id}
        /\ profileNetworks'[id] = Planned(profileStep).config
        /\ \A x \in DOMAIN profileNetworks : x # id => profileNetworks'[x] = profileNetworks[x]
        /\ \A x \in DOMAIN profileNetworks :
              /\ profileNetworks'[x].name = profileNetworks[x].name
              /\ profileNetworks'[x].sasl = profileNetworks[x].sasl
              /\ profileNetworks'[x].certificate = profileNetworks[x].certificate
              /\ profileNetworks'[x].commands = profileNetworks[x].commands
        /\ fresh' \in {fresh, fresh + 1} /\ id < fresh' /\ fresh <= fresh'
        /\ \/ id \in DOMAIN profileNetworks /\ fresh' = fresh /\ Planned(profileStep).id # None
           \/ /\ id = fresh /\ fresh \notin DOMAIN profileNetworks /\ Planned(profileStep).config.sasl = None
              /\ Planned(profileStep).id = None
        /\ secrets' = IF Planned(profileStep).config.sasl = None THEN secrets \ {id} ELSE secrets
        /\ DOMAIN ids' = DOMAIN ids \cup {NameOf(profileStep)} /\ ids'[NameOf(profileStep)] = id
        /\ \A n \in DOMAIN ids : n # NameOf(profileStep) => ids'[n] = ids[n]
        /\ UNCHANGED <<words, muted, upload, appearance, plan, profileBusy, imports, again, own>>
    BY NetworkSaved
<1>2. ProfileType /\ PlanInv /\ HalfInv /\ OwnInv /\ SecretsInv
    BY DEF ProfileInv
<1>3. \A i : Planned(i)' = Planned(i) /\ NameOf(i)' = NameOf(i)
    BY <1>1 DEF Planned, NameOf
<1>4. id \in 1..(fresh' - 1)
    <2>1. id >= 1
        <3>1. CASE id \in DOMAIN profileNetworks
            BY <1>2, <3>1 DEF ProfileType
        <3>2. CASE id = fresh
            BY <1>1, <1>2, <3>2 DEF ProfileType
        <3> QED BY <1>1, <3>1, <3>2
    <2> QED BY <1>1, <1>2, <2>1 DEF ProfileType
<1>5. ProfileType'
    <2>1. \A x \in DOMAIN profileNetworks' : profileNetworks'[x] \in Po!Network
        BY <1>1, <1>2 DEF ProfileType, PlanInv
    <2>2. fresh' \in Nat \ {0} /\ DOMAIN profileNetworks' \subseteq 1..(fresh' - 1)
        BY <1>1, <1>2, <1>4 DEF ProfileType
    <2>3. profileNetworks' = [x \in DOMAIN profileNetworks' |-> profileNetworks'[x]]
        BY DEF Po!saveNetwork, Po!With
    <2>4. profileBusy' => plan' # None /\ profileStep' \in Nat
        BY <1>1, <1>2 DEF ProfileType
    <2> QED BY <1>1, <1>2, <2>1, <2>2, <2>3, <2>4 DEF ProfileType
<1>6. SecretsInv'
    <2>1. ASSUME NEW x \in secrets' \cap DOMAIN profileNetworks' PROVE profileNetworks'[x].sasl # None
        <3>1. CASE x \in DOMAIN profileNetworks
            BY <1>1, <1>2, <2>1, <3>1 DEF SecretsInv
        <3>2. CASE x \notin DOMAIN profileNetworks
            BY <1>1, <2>1, <3>2
        <3> QED BY <3>1, <3>2
    <2> QED BY <2>1 DEF SecretsInv
<1>7. PlanInv'
    <2>1. ASSUME NEW i \in DOMAIN plan.networks, Planned(i).id # None
          PROVE  /\ Planned(i).id \in DOMAIN profileNetworks'
                 /\ profileNetworks'[Planned(i).id].name = NameOf(i)
                 /\ profileNetworks'[Planned(i).id].sasl = Planned(i).config.sasl
                 /\ profileNetworks'[Planned(i).id].certificate = Planned(i).config.certificate
                 /\ profileNetworks'[Planned(i).id].commands = Planned(i).config.commands
        BY <1>1, <1>2, <2>1 DEF PlanInv
    <2> QED BY <1>1, <1>2, <1>3, <2>1 DEF PlanInv
<1>8. HalfInv'
    <2>0. profileStep \in Nat /\ \A i \in DOMAIN plan.networks : i \in Nat
        BY <1>1, <1>2 DEF ProfileType
    <2>1. ASSUME NEW i \in DOMAIN plan.networks, i < profileStep'
          PROVE  /\ NameOf(i) \in DOMAIN ids' /\ ids'[NameOf(i)] \in DOMAIN profileNetworks'
                 /\ Planned(i).id # None => ids'[NameOf(i)] = Planned(i).id
        <3>1. CASE i = profileStep
            BY <1>1, <3>1
        <3>2. CASE i # profileStep
            <4>1. i < profileStep
                BY <1>1, <2>0, <2>1, <3>2
            <4>2. NameOf(i) # NameOf(profileStep)
                BY <1>1, <1>2, <3>2 DEF PlanInv
            <4>3. /\ NameOf(i) \in DOMAIN ids /\ ids[NameOf(i)] \in DOMAIN profileNetworks
                  /\ Planned(i).id # None => ids[NameOf(i)] = Planned(i).id
                BY <1>1, <1>2, <4>1 DEF HalfInv
            <4> QED BY <1>1, <4>2, <4>3
        <3> QED BY <3>1, <3>2
    <2>2. ASSUME ~again, NEW i \in DOMAIN plan.networks, i >= profileStep', Planned(i).id = None
          PROVE  Po!Named(NameOf(i))' = {}
        <3>1. i >= profileStep /\ i # profileStep
            BY <1>1, <2>0, <2>2
        <3>2. NameOf(i) # NameOf(profileStep)
            BY <1>1, <1>2, <3>1 DEF PlanInv
        <3>3. \A x \in DOMAIN profileNetworks : profileNetworks[x].name # NameOf(i)
            BY <1>1, <1>2, <2>2, <3>1 DEF HalfInv, Po!Named
        <3>4. \A x \in DOMAIN profileNetworks' : profileNetworks'[x].name # NameOf(i)
            BY <1>1, <3>2, <3>3 DEF NameOf
        <3> QED BY <1>3, <3>4 DEF Po!Named
    <2> QED BY <1>1, <1>3, <2>1, <2>2 DEF HalfInv
<1>9. OwnInv'
    <2>1. CASE own
        <3>1. profileNetworks' = profileNetworks
            BY <2>1, OwnSaved
        <3> QED BY <1>1, <1>2, <1>3, <3>1 DEF OwnInv, Po!portableUpload
    <2>2. CASE ~own
        BY <1>1, <2>2 DEF OwnInv
    <2> QED BY <2>1, <2>2
<1> QED BY <1>5, <1>6, <1>7, <1>8, <1>9 DEF ProfileInv

\* Muted is a network that is there; of a plan of what is here, what is muted.
LEMMA MutesNamed ==
    ASSUME Po!ProfileAssumption, ProfileInv, profileBusy, profileStep = Len(plan.networks) + 2,
           NEW x \in Po!Mutes(plan.file)
    PROVE  ids[x[1]] \in DOMAIN profileNetworks /\ (own => <<ids[x[1]], x[2]>> \in muted)
<1>1. plan # None /\ ProfileType /\ PlanInv /\ HalfInv /\ OwnInv
    BY DEF ProfileInv, ProfileType
<1>2. \A i \in DOMAIN plan.networks : i < profileStep
    BY <1>1 DEF ProfileType
<1>3. PICK i \in DOMAIN plan.networks : NameOf(i) = x[1]
    BY <1>1 DEF Po!Mutes, ProfileType, PlanInv
<1>4. ids[x[1]] \in DOMAIN profileNetworks
    BY <1>1, <1>2, <1>3 DEF HalfInv
<1>5. ASSUME own PROVE <<ids[x[1]], x[2]>> \in muted
    <2>1. PICK m \in muted : x = <<profileNetworks[m[1]].name, m[2]>>
        BY <1>1, <1>5 DEF OwnInv, Po!Mutes
    <2>2. m = <<m[1], m[2]>> /\ m[1] \in DOMAIN profileNetworks
        BY <1>1 DEF ProfileType
    <2>3. PICK j \in DOMAIN plan.networks : Planned(j).id = m[1]
        BY <1>1, <1>5, <2>2 DEF OwnInv
    <2>4. Planned(j).id # None /\ NameOf(j) = profileNetworks[m[1]].name
        BY <1>1, <1>5, <2>3 DEF OwnInv, NameOf
    <2>5. ids[NameOf(j)] = m[1]
        BY <1>1, <1>2, <2>3, <2>4 DEF HalfInv
    <2>6. x[1] = NameOf(j) /\ x[2] = m[2]
        BY <2>1, <2>4
    <2> QED BY <2>2, <2>5, <2>6
<1> QED BY <1>4, <1>5

LEMMA MutedKept == ASSUME Po!ProfileAssumption, ProfileInv, Po!setMuted PROVE ProfileInv' /\ (own => muted' = muted)
<1>1. PICK named : named = {<<ids[m[1]], m[2]>> : m \in Po!Mutes(plan.file)}
    OBVIOUS
<1>2. /\ profileBusy /\ profileStep = Len(plan.networks) + 2
      /\ \/ profileStep' = profileStep + 1 /\ muted' = muted
         \/ profileStep' = profileStep /\ \E m \in named \ muted : muted' = muted \cup {m}
      /\ UNCHANGED <<profileNetworks, fresh, secrets, upload, words, appearance, plan, ids, profileBusy, imports,
                     again, own>>
    BY <1>1 DEF Po!setMuted
<1>3. \A m \in named : m = <<m[1], m[2]>> /\ m[1] \in DOMAIN profileNetworks /\ (own => m \in muted)
    <2>1. ASSUME NEW x \in Po!Mutes(plan.file)
          PROVE  ids[x[1]] \in DOMAIN profileNetworks /\ (own => <<ids[x[1]], x[2]>> \in muted)
        BY <1>2, MutesNamed
    <2> QED BY <1>1, <2>1
<1>4. ProfileType /\ PlanInv /\ HalfInv /\ OwnInv /\ SecretsInv /\ plan # None
    BY <1>2 DEF ProfileInv, ProfileType
<1>5. own => muted' = muted
    BY <1>2, <1>3
<1>6. profileStep' \in Nat /\ \A i \in DOMAIN plan.networks : i < profileStep /\ i < profileStep' /\ i \in Nat
    BY <1>2, <1>4 DEF ProfileType
<1>7. ProfileType'
    <2>1. \A m \in muted' : m = <<m[1], m[2]>> /\ m[1] \in DOMAIN profileNetworks
        BY <1>2, <1>3, <1>4 DEF ProfileType
    <2> QED BY <1>2, <1>4, <1>6, <2>1 DEF ProfileType
<1>8. SecretsInv' /\ PlanInv'
    BY <1>2, <1>4 DEF SecretsInv, PlanInv, Planned, NameOf
<1>9. HalfInv'
    <2>1. \A i \in DOMAIN plan.networks : ~(i >= profileStep')
        BY <1>6
    <2>2. \A i \in DOMAIN plan.networks :
              /\ NameOf(i) \in DOMAIN ids /\ ids[NameOf(i)] \in DOMAIN profileNetworks
              /\ Planned(i).id # None => ids[NameOf(i)] = Planned(i).id
        BY <1>2, <1>4, <1>6 DEF HalfInv
    <2> QED BY <1>2, <2>1, <2>2 DEF HalfInv, Planned, NameOf
<1>10. OwnInv'
    BY <1>2, <1>4, <1>5 DEF OwnInv, Planned, Po!portableUpload
<1> QED BY <1>5, <1>7, <1>8, <1>9, <1>10 DEF ProfileInv

\* The words, the host and the look: what the file holds, or what is here already.
LEMMA QueryDropped ==
    ASSUME NEW p, Po!Provider(p)
    PROVE  [p EXCEPT !.query = FALSE] = [at |-> p.at, query |-> FALSE, credential |-> p.credential]
<1>1. PICK r : r = [p EXCEPT !.query = FALSE]
    OBVIOUS
<1>2. DOMAIN r = {"at", "query", "credential"} /\ r.at = p.at /\ r.credential = p.credential /\ r.query = FALSE
    BY <1>1 DEF Po!Provider
<1>3. r = [x \in {"at", "query", "credential"} |-> r[x]]
    BY <1>1 DEF Po!Provider
<1>4. PICK t : t = [at |-> p.at, query |-> FALSE, credential |-> p.credential]
    OBVIOUS
<1>5. t = [x \in {"at", "query", "credential"} |-> t[x]] /\ t.at = p.at /\ t.query = FALSE /\ t.credential = p.credential
    BY <1>4
<1>6. \A x \in {"at", "query", "credential"} : r[x] = t[x]
    BY <1>2, <1>5
<1>7. r = t
    BY <1>3, <1>5, <1>6
<1> QED BY <1>1, <1>4, <1>7

LEMMA RestKept ==
    ASSUME Po!ProfileAssumption, ProfileInv, Po!setHighlightWords \/ Po!saveUploadProvider \/ Po!Concluded
    PROVE  /\ ProfileInv'
           /\ own => /\ words' = words /\ appearance' = appearance
                     /\ upload' # upload => upload.query /\ upload' = [upload EXCEPT !.query = FALSE]
<1>1. profileBusy /\ plan # None /\ profileStep \in Nat /\ profileStep > Len(plan.networks)
      /\ ProfileType /\ PlanInv /\ HalfInv /\ OwnInv /\ SecretsInv
    BY DEF ProfileInv, ProfileType, Po!setHighlightWords, Po!saveUploadProvider, Po!Concluded
<1>2. UNCHANGED <<profileNetworks, fresh, secrets, muted, ids, own, again>>
    BY DEF Po!setHighlightWords, Po!saveUploadProvider, Po!Concluded, Po!backend
<1>3. CASE Po!Concluded
    <2>1. plan' = None /\ profileBusy' = FALSE /\ UNCHANGED <<upload, words>> /\ appearance' = plan.file.appearance
        BY <1>3 DEF Po!Concluded, Po!backend
    <2>2. own => appearance' = appearance
        BY <1>1, <2>1 DEF OwnInv
    <2>3. ProfileInv'
        BY <1>1, <1>2, <2>1 DEF ProfileInv, ProfileType, PlanInv, HalfInv, OwnInv, SecretsInv
    <2> QED BY <2>1, <2>2, <2>3
<1>4. CASE Po!setHighlightWords \/ Po!saveUploadProvider
    <2>1. profileStep' = profileStep + 1 /\ UNCHANGED <<plan, profileBusy, appearance>>
        BY <1>4 DEF Po!setHighlightWords, Po!saveUploadProvider, Po!backend
    <2>2. /\ words' \in {words, [backend |-> plan.file.words, client |-> plan.file.words]}
          /\ upload' = upload \/ (Po!plannedUpload(plan.file.upload) /\ upload' = plan.file.upload)
        BY <1>4 DEF Po!setHighlightWords, Po!saveUploadProvider, Po!backend
    <2>3. words' = [backend |-> words'.backend, client |-> words'.backend] /\ (own => words' = words)
        <3>1. CASE words' = words
            BY <1>1, <3>1 DEF ProfileType
        <3>2. CASE words' = [backend |-> plan.file.words, client |-> plan.file.words]
            BY <1>1, <3>2 DEF ProfileType, OwnInv
        <3> QED BY <2>2, <3>1, <3>2
    <2>4. upload' # None => Po!Provider(upload')
        <3>1. CASE upload' = upload
            BY <1>1, <3>1 DEF ProfileType, Po!Provider
        <3>2. CASE upload' = plan.file.upload
            <4>1. plan.file \in Usable
                BY <1>1 DEF ProfileType
            <4>2. plan.file.upload # None => Po!Provider(plan.file.upload)
                BY <4>1 DEF Po!ProfileAssumption
            <4> QED BY <3>2, <4>2 DEF Po!Provider
        <3> QED BY <2>2, <3>1, <3>2
    <2>5. ASSUME own, upload' # upload
          PROVE  /\ upload.query /\ upload' = [upload EXCEPT !.query = FALSE]
                 /\ Po!portableUpload(upload') = plan.file.upload
        <3>1. upload' = Po!portableUpload(upload) /\ upload' # None /\ upload' = plan.file.upload
            BY <1>1, <2>2, <2>5 DEF OwnInv, Po!plannedUpload
        <3>2. upload # None
            BY <3>1 DEF Po!portableUpload
        <3>3. Po!Provider(upload) /\ upload' = [at |-> upload.at, query |-> FALSE, credential |-> upload.credential]
            BY <1>1, <3>1, <3>2 DEF ProfileType, Po!portableUpload
        <3>4. upload = [at |-> upload.at, query |-> upload.query, credential |-> upload.credential]
              /\ upload.query \in BOOLEAN
            BY <3>3 DEF Po!Provider
        <3>5. upload.query = TRUE
            BY <2>5, <3>3, <3>4
        <3>6. upload' = [upload EXCEPT !.query = FALSE]
            BY <3>3, QueryDropped
        <3>7. Po!portableUpload(upload') = upload'
            <4>1. upload'.at = upload.at /\ upload'.credential = upload.credential
                BY <3>3
            <4> QED BY <3>1, <3>3, <4>1 DEF Po!portableUpload
        <3> QED BY <3>1, <3>5, <3>6, <3>7
    <2>6. own => plan.file.upload = Po!portableUpload(upload')
        BY <1>1, <2>5 DEF OwnInv
    <2>7. ProfileType'
        BY <1>1, <1>2, <2>1, <2>3, <2>4 DEF ProfileType
    <2>8. SecretsInv' /\ PlanInv'
        BY <1>1, <1>2, <2>1 DEF SecretsInv, PlanInv, Planned, NameOf
    <2>9. HalfInv'
        <3>1. \A i \in DOMAIN plan.networks : i < profileStep /\ ~(i >= profileStep')
            BY <1>1, <2>1 DEF ProfileType
        <3>2. \A i \in DOMAIN plan.networks :
                  /\ NameOf(i) \in DOMAIN ids /\ ids[NameOf(i)] \in DOMAIN profileNetworks
                  /\ Planned(i).id # None => ids[NameOf(i)] = Planned(i).id
            BY <1>1, <3>1 DEF HalfInv
        <3> QED BY <1>2, <2>1, <3>1, <3>2 DEF HalfInv, Planned, NameOf
    <2>10. OwnInv'
        <3> SUFFICES ASSUME own' PROVE OwnInv'
            BY DEF OwnInv
        <3>1. own /\ words' = words /\ Po!portableUpload(upload)' = plan.file.upload
            BY <1>2, <2>3, <2>6 DEF Po!portableUpload
        <3> QED BY <1>1, <1>2, <2>1, <3>1 DEF OwnInv, Planned
    <2> QED BY <2>1, <2>3, <2>5, <2>7, <2>8, <2>9, <2>10 DEF ProfileInv
<1> QED BY <1>3, <1>4

\* A plan is put away, carried out from the start, or stopped.
LEMMA PlanKept ==
    ASSUME Po!ProfileAssumption, ProfileInv, Po!cancel \/ Po!importProfile \/ Po!Stopped \/ UNCHANGED Po!vars
    PROVE  ProfileInv'
<1>1. UNCHANGED <<profileNetworks, fresh, secrets, muted, upload, words, appearance, own>>
    BY DEF Po!cancel, Po!importProfile, Po!Stopped, Po!vars, Po!backend
<1>2. ProfileType /\ PlanInv /\ HalfInv /\ OwnInv /\ SecretsInv
    BY DEF ProfileInv
<1>3. CASE Po!cancel
    <2>1. plan' = None /\ profileBusy' = FALSE
        BY <1>2, <1>3 DEF Po!cancel, ProfileType
    <2> QED BY <1>1, <1>2, <2>1 DEF ProfileInv, ProfileType, PlanInv, HalfInv, OwnInv, SecretsInv
<1>4. CASE Po!Stopped
    <2>1. plan' = plan /\ profileBusy' = FALSE
        BY <1>4 DEF Po!Stopped
    <2>2. ProfileType' /\ SecretsInv' /\ HalfInv'
        BY <1>1, <1>2, <2>1 DEF ProfileType, SecretsInv, HalfInv
    <2>3. PlanInv' /\ OwnInv'
        <3>1. PlanInv'
            BY <1>1, <1>2, <2>1 DEF PlanInv, Planned, NameOf
        <3>2. OwnInv'
            BY <1>1, <1>2, <2>1 DEF OwnInv, Planned, Po!portableUpload
        <3> QED BY <3>1, <3>2
    <2> QED BY <2>2, <2>3 DEF ProfileInv
<1>5. CASE Po!importProfile
    <2>1. plan # None /\ plan' = plan /\ profileBusy' = TRUE /\ profileStep' = 1
          /\ again' = (again \/ \E i \in DOMAIN plan.networks :
                         Planned(i).id = None /\ Po!Named(NameOf(i)) # {})
        BY <1>5 DEF Po!importProfile, Planned, NameOf
    <2>2. \A i \in DOMAIN plan.networks : ~(i < 1)
        BY <1>2, <2>1 DEF ProfileType
    <2>3. HalfInv'
        <3>1. ~again' => \A i \in DOMAIN plan.networks : Planned(i).id = None => Po!Named(NameOf(i)) = {}
            BY <2>1
        <3>2. \A n : Po!Named(n)' = Po!Named(n)
            BY <1>1 DEF Po!Named
        <3>3. \A i : Planned(i)' = Planned(i) /\ NameOf(i)' = NameOf(i) /\ Po!Named(NameOf(i))' = Po!Named(NameOf(i))
            BY <1>1, <2>1 DEF Planned, NameOf, Po!Named
        <3>4. ~again' => \A i \in DOMAIN plan'.networks : Planned(i)'.id = None => Po!Named(NameOf(i))' = {}
            BY <2>1, <3>1, <3>3
        <3>5. \A i \in DOMAIN plan'.networks : ~(i < profileStep')
            BY <2>1, <2>2
        <3> QED BY <3>4, <3>5 DEF HalfInv
    <2>4. ProfileType' /\ SecretsInv'
        BY <1>1, <1>2, <2>1 DEF ProfileType, SecretsInv
    <2>5. PlanInv' /\ OwnInv'
        <3>1. PlanInv'
            BY <1>1, <1>2, <2>1 DEF PlanInv, Planned, NameOf
        <3>2. OwnInv'
            BY <1>1, <1>2, <2>1 DEF OwnInv, Planned, Po!portableUpload
        <3> QED BY <3>1, <3>2
    <2> QED BY <2>3, <2>4, <2>5 DEF ProfileInv
<1>6. CASE UNCHANGED Po!vars
    <2>1. UNCHANGED <<plan, profileBusy, profileStep, ids, again>>
        BY <1>6 DEF Po!vars
    <2>2. ProfileType' /\ SecretsInv'
        BY <1>1, <1>2, <2>1 DEF ProfileType, SecretsInv
    <2>3. PlanInv' /\ OwnInv'
        <3>1. PlanInv'
            BY <1>1, <1>2, <2>1 DEF PlanInv, Planned, NameOf
        <3>2. OwnInv'
            BY <1>1, <1>2, <2>1 DEF OwnInv, Planned, Po!portableUpload
        <3> QED BY <3>1, <3>2
    <2>4. HalfInv'
        BY <1>1, <1>2, <2>1 DEF HalfInv, Planned, NameOf, Po!Named
    <2> QED BY <2>2, <2>3, <2>4 DEF ProfileInv
<1> QED BY <1>3, <1>4, <1>5, <1>6

LEMMA ProfileInductive == ASSUME Po!ProfileAssumption PROVE Po!Spec => []ProfileInv
<1>1. Po!Init => ProfileInv
    BY ProfileInit
<1>2. ASSUME ProfileInv, [Po!Next]_(Po!vars) PROVE ProfileInv'
    <2>1. CASE \E file \in Files : Po!chooseProfile(file)
        BY <1>2, <2>1, ChosenKept
    <2>2. CASE Po!saveNetwork
        BY <1>2, <2>2, ImportedKept
    <2>3. CASE Po!setMuted
        BY <1>2, <2>3, MutedKept
    <2>4. CASE Po!setHighlightWords \/ Po!saveUploadProvider \/ Po!Concluded
        BY <1>2, <2>4, RestKept
    <2>5. CASE Po!cancel \/ Po!importProfile \/ Po!Stopped \/ UNCHANGED Po!vars
        BY <1>2, <2>5, PlanKept
    <2> QED BY <1>2, <2>1, <2>2, <2>3, <2>4, <2>5 DEF Po!Next
<1> QED BY <1>1, <1>2, PTL DEF Po!Spec

\* Whatever is imported, and wherever it stops, the networks of this computer keep
\* their names, logins, certificates and commands, and their passwords with them; one
\* that is added takes a name nobody has and claims no login (profileImport.ts).
THEOREM OursCorrect == ASSUME Po!ProfileAssumption PROVE Po!Spec => Po!OursStay
<1> DEFINE Stay ==
       /\ \A id \in DOMAIN profileNetworks :
            /\ id \in DOMAIN profileNetworks' /\ profileNetworks'[id].name = profileNetworks[id].name
            /\ profileNetworks'[id].sasl = profileNetworks[id].sasl
            /\ profileNetworks'[id].certificate = profileNetworks[id].certificate
            /\ profileNetworks'[id].commands = profileNetworks[id].commands
            /\ id \in secrets => id \in secrets'
       /\ fresh' # fresh => /\ profileNetworks'[fresh].sasl = None
                            /\ Po!Named(profileNetworks'[fresh].name) = {} \/ again
<1>1. ASSUME ProfileInv, Po!saveNetwork PROVE Stay
    <2>1. PICK id \in Nat :
            /\ profileBusy /\ plan # None /\ profileStep \in DOMAIN plan.networks
            /\ DOMAIN profileNetworks' = DOMAIN profileNetworks \cup {id}
            /\ profileNetworks'[id] = Planned(profileStep).config
            /\ \A x \in DOMAIN profileNetworks :
                  /\ profileNetworks'[x].name = profileNetworks[x].name
                  /\ profileNetworks'[x].sasl = profileNetworks[x].sasl
                  /\ profileNetworks'[x].certificate = profileNetworks[x].certificate
                  /\ profileNetworks'[x].commands = profileNetworks[x].commands
            /\ \/ id \in DOMAIN profileNetworks /\ fresh' = fresh
               \/ /\ id = fresh /\ fresh \notin DOMAIN profileNetworks /\ Planned(profileStep).config.sasl = None
                  /\ Planned(profileStep).id = None
            /\ secrets' = IF Planned(profileStep).config.sasl = None THEN secrets \ {id} ELSE secrets
        BY <1>1, NetworkSaved
    <2>2. \A x \in DOMAIN profileNetworks : x \in secrets => x \in secrets'
        <3>1. ASSUME NEW x \in DOMAIN profileNetworks, x \in secrets, x = id PROVE x \in secrets'
            <4>1. profileNetworks[x].sasl # None
                BY <1>1, <3>1 DEF ProfileInv, SecretsInv
            <4> QED BY <2>1, <3>1, <4>1
        <3> QED BY <2>1, <3>1
    <2>3. ASSUME fresh' # fresh
          PROVE  profileNetworks'[fresh].sasl = None /\ (Po!Named(profileNetworks'[fresh].name) = {} \/ again)
        <3>1. id = fresh /\ Planned(profileStep).id = None /\ profileNetworks'[fresh] = Planned(profileStep).config
              /\ Planned(profileStep).config.sasl = None
            BY <2>1, <2>3
        <3>2. profileStep >= profileStep
            BY <1>1, <2>1 DEF ProfileInv, ProfileType
        <3>3. again \/ Po!Named(NameOf(profileStep)) = {}
            BY <1>1, <2>1, <3>1, <3>2 DEF ProfileInv, HalfInv
        <3> QED BY <3>1, <3>3 DEF NameOf
    <2> QED BY <2>1, <2>2, <2>3
<1>2. ASSUME ProfileInv, [Po!Next]_(Po!vars), ~Po!saveNetwork PROVE Stay
    <2>1. UNCHANGED <<profileNetworks, fresh, secrets>>
        BY <1>2 DEF Po!Next, Po!chooseProfile, Po!cancel, Po!importProfile, Po!setHighlightWords, Po!setMuted,
                    Po!saveUploadProvider, Po!Concluded, Po!Stopped, Po!vars, Po!backend
    <2> QED BY <2>1
<1>3. ProfileInv /\ [Po!Next]_(Po!vars) => [Stay]_(Po!vars)
    BY <1>1, <1>2
<1> HIDE DEF Stay
<1>4. Po!Spec => [][Stay]_(Po!vars)
    BY <1>3, ProfileInductive, PTL DEF Po!Spec
<1> QED BY <1>4 DEF Po!OursStay, Stay

\* A profile read back where it was written changes nothing, but the query an upload
\* host's address had; and what raises a line is always what the backend keeps.
THEOREM OwnCorrect == ASSUME Po!ProfileAssumption PROVE Po!Spec => Po!OwnChangesNothing
<1> DEFINE Nothing ==
       /\ words'.client = words'.backend
       /\ own => /\ profileNetworks' = profileNetworks /\ words' = words /\ muted' = muted
                 /\ appearance' = appearance
                 /\ upload' # upload => upload.query /\ upload' = [upload EXCEPT !.query = FALSE]
<1>1. ASSUME ProfileInv, ProfileInv', [Po!Next]_(Po!vars) PROVE Nothing
    <2>1. words'.client = words'.backend
        <3>1. words' = [backend |-> words'.backend, client |-> words'.backend]
            BY <1>1 DEF ProfileInv, ProfileType
        <3> QED BY <3>1
    <2>2. ASSUME own
          PROVE  /\ profileNetworks' = profileNetworks /\ words' = words /\ muted' = muted
                 /\ appearance' = appearance
                 /\ upload' # upload => upload.query /\ upload' = [upload EXCEPT !.query = FALSE]
        <3>1. CASE Po!saveNetwork
            <4>1. profileNetworks' = profileNetworks
                BY <1>1, <2>2, <3>1, OwnSaved
            <4> QED BY <3>1, <4>1 DEF Po!saveNetwork
        <3>2. CASE Po!setMuted
            <4>1. muted' = muted
                BY <1>1, <2>2, <3>2, MutedKept
            <4> QED BY <3>2, <4>1 DEF Po!setMuted
        <3>3. CASE Po!setHighlightWords \/ Po!saveUploadProvider \/ Po!Concluded
            <4>1. profileNetworks' = profileNetworks /\ muted' = muted
                BY <3>3 DEF Po!setHighlightWords, Po!saveUploadProvider, Po!Concluded, Po!backend
            <4> QED BY <1>1, <2>2, <3>3, <4>1, RestKept
        <3>4. CASE \/ \E file \in Files : Po!chooseProfile(file)
                   \/ Po!cancel \/ Po!importProfile \/ Po!Stopped \/ UNCHANGED Po!vars
            BY <3>4 DEF Po!chooseProfile, Po!cancel, Po!importProfile, Po!Stopped, Po!vars, Po!backend
        <3> QED BY <1>1, <3>1, <3>2, <3>3, <3>4 DEF Po!Next
    <2> QED BY <2>1, <2>2
<1>2. ProfileInv /\ ProfileInv' /\ [Po!Next]_(Po!vars) => [Nothing]_(Po!vars)
    BY <1>1
<1> HIDE DEF Nothing
<1>3. Po!Spec => [][Nothing]_(Po!vars)
    BY <1>2, ProfileInductive, PTL DEF Po!Spec
<1> QED BY <1>3 DEF Po!OwnChangesNothing, Nothing
=============================================================================
