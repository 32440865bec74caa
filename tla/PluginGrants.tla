------------------------------ MODULE PluginGrants ------------------------------
(***************************************************************************)
(* The Plugins page: installing, removing, and the permissions form, whose *)
(* draft is offered as what the manifest asked for and never more          *)
(* (components/settings/plugins, components/plugins/grants.ts).            *)
(***************************************************************************)
EXTENDS Naturals, FiniteSets

CONSTANTS
    Plugins,        \* ids there are folders of
    Manifests,      \* what each asks for: [permissions, channels, hosts]
    Present,        \* conversations the reader is in
    Typed,          \* and others that may be named
    Every,          \* "*": every conversation
    MaxSteps,
    None

PluginsAssumption ==
    /\ Every \notin Present \cup Typed /\ None \notin Plugins /\ MaxSteps \in Nat
    /\ \A p \in Plugins : Manifests[p].permissions \subseteq
                            {"access-channels", "network-requests", "send-messages", "add-commands"}

VARIABLES
    library,    \* the backend's: the grants of each plugin installed
    plugins,    \* the store's copy
    editing, draft, pending, \* the form asked for, its draft, and the name being typed
    confirming, \* the row asking whether it may go
    picking,    \* the folder dialog: open for the page shown, for one left, or not
    busy, calls, \* the page's flag, and the calls under way
    crossed,    \* plugins two calls about which were out together
    steps

form == <<editing, draft, pending, confirming>>
vars == <<library, plugins, form, picking, busy, calls, crossed, steps>>

Nothing == [permissions |-> {}, channels |-> {}, hosts |-> {}]
Counted == steps < MaxSteps /\ steps' = steps + 1
Shown == editing \in DOMAIN plugins
Asked == Manifests[editing]
About(p) == {c \in calls : c.plugin = p}

-----------------------------------------------------------------------------
(* grants.ts                                                               *)

NEEDS_CHANNELS == {"send-messages"}
\* A plausible slip in togglePermission: a scope outlives the permission it scopes.
togglePermissionOnly(g, p) ==
    [g EXCEPT !.permissions = IF p \in @ THEN @ \ {p} ELSE @ \cup {p}]
togglePermission(g, p) ==
    IF p \notin g.permissions THEN [g EXCEPT !.permissions = @ \cup {p}]
    ELSE [permissions |-> g.permissions \ {p},
          channels |-> IF p = "access-channels" THEN {} ELSE g.channels,
          hosts |-> IF p = "network-requests" THEN {} ELSE g.hosts]
toggleChannel(g, c) ==
    [g EXCEPT !.channels = IF c \in @ THEN @ \ {c}
                           ELSE IF c = Every THEN {Every} ELSE (@ \ {Every}) \cup {c}]
toggleHost(g, h) == [g EXCEPT !.hosts = IF h \in @ THEN @ \ {h} ELSE @ \cup {h}]

allowsNaming(asked) == Every \in asked
offeredChannels(asked, chosen) ==
    asked \cup (chosen \ {Every}) \cup (IF allowsNaming(asked) THEN Present ELSE {})
reachesAnyChannel(g) == "access-channels" \in g.permissions /\ g.channels # {}
unscoped(g) ==
    \/ "access-channels" \in g.permissions /\ g.channels = {}
    \/ "network-requests" \in g.permissions /\ g.hosts = {}
    \/ g.permissions \cap NEEDS_CHANNELS # {} /\ ~reachesAnyChannel(g)

\* What the backend takes: no more than the manifest asked for.
Within(g, asked) ==
    /\ g.permissions \subseteq asked.permissions /\ g.hosts \subseteq asked.hosts
    /\ Every \in asked.channels \/ g.channels \subseteq asked.channels

-----------------------------------------------------------------------------
(* The list.                                                               *)

\* The form takes the list's place, and keeps its draft where one plugin's takes the
\* place of another's; it goes with its plugin, and comes back with it.
Draws(p, held) ==
    LET stays == Shown /\ p \in DOMAIN held
    IN  /\ editing' = p
        /\ draft' = IF p \notin DOMAIN held THEN None ELSE IF stays THEN draft ELSE held[p]
        /\ pending' = IF stays THEN pending ELSE None
        /\ confirming' = IF p \in DOMAIN held THEN None ELSE confirming
\* A call is the page's that asked; two about one plugin may come back in any order.
Calls(what, p, grants, here) ==
    /\ busy' = (busy \/ here)
    /\ calls' = calls \cup {[id |-> steps, what |-> what, plugin |-> p, grants |-> grants,
                             here |-> here, done |-> FALSE]}
    /\ crossed' = IF About(p) # {} THEN crossed \cup {p} ELSE crossed

\* The button stays while the dialog is up: the page is busy only once a folder is picked.
install ==
    /\ Counted /\ ~Shown /\ ~busy /\ picking = None /\ picking' = "here"
    /\ UNCHANGED <<library, plugins, form, busy, calls, crossed>>
Picked(p) ==
    /\ Counted /\ picking # None /\ picking' = None
    /\ IF p = None THEN UNCHANGED <<busy, calls, crossed>>
       ELSE Calls("install", p, Nothing, picking = "here")
    /\ UNCHANGED <<library, plugins, form>>
permissions(p) ==
    /\ Counted /\ ~Shown /\ ~busy /\ p \in DOMAIN plugins /\ confirming # p /\ Draws(p, plugins)
    /\ UNCHANGED <<library, plugins, picking, busy, calls, crossed>>
AskRemove(p) ==
    /\ Counted /\ ~Shown /\ ~busy /\ p \in DOMAIN plugins /\ confirming # p
    /\ confirming' = p
    /\ UNCHANGED <<library, plugins, editing, draft, pending, picking, busy, calls, crossed>>
Keep ==
    /\ ~Shown /\ ~busy /\ confirming \in DOMAIN plugins /\ confirming' = None
    /\ UNCHANGED <<library, plugins, editing, draft, pending, picking, busy, calls, crossed, steps>>
remove ==
    /\ Counted /\ ~Shown /\ ~busy /\ confirming \in DOMAIN plugins
    /\ Calls("remove", confirming, Nothing, TRUE) /\ confirming' = None
    /\ UNCHANGED <<library, plugins, editing, draft, pending, picking>>
\* The sidebar leaves the page whatever it is doing, and opens it as new.
Leave ==
    /\ Counted /\ editing' = None /\ draft' = None /\ pending' = None /\ confirming' = None
    /\ picking' = (IF picking = None THEN None ELSE "left") /\ busy' = FALSE
    /\ calls' = {[c EXCEPT !.here = FALSE] : c \in calls}
    /\ UNCHANGED <<library, plugins, crossed>>

-----------------------------------------------------------------------------
(* The form.                                                               *)

Drafts(next) ==
    /\ Counted /\ Shown /\ draft' = next
    /\ UNCHANGED <<library, plugins, editing, pending, confirming, picking, busy, calls, crossed>>
TickPermission(p) == Shown /\ p \in Asked.permissions /\ Drafts(togglePermission(draft, p))
TickChannel(c) ==
    /\ Shown /\ "access-channels" \in draft.permissions \cap Asked.permissions
    /\ c \in offeredChannels(Asked.channels, draft.channels)
    /\ Drafts(toggleChannel(draft, c))
TickHost(h) ==
    /\ Shown /\ "network-requests" \in draft.permissions \cap Asked.permissions
    /\ h \in Asked.hosts /\ Drafts(toggleHost(draft, h))
Naming == "access-channels" \in draft.permissions /\ allowsNaming(Asked.channels)
TypeName(c) ==
    /\ Counted /\ Shown /\ Naming /\ pending # c /\ pending' = c
    /\ UNCHANGED <<library, plugins, editing, draft, confirming, picking, busy, calls, crossed>>
AddName ==
    /\ Shown /\ Naming /\ pending \notin {None, Every}
    /\ draft' = toggleChannel(draft, pending) /\ pending' = None
    /\ UNCHANGED <<library, plugins, editing, confirming, picking, busy, calls, crossed, steps>>
\* A name typed and not added holds the save back.
save ==
    /\ Counted /\ Shown /\ ~busy /\ ~unscoped(draft) /\ pending = None
    /\ Calls("save", editing, draft, TRUE)
    /\ UNCHANGED <<library, plugins, form, picking>>
Back ==
    /\ Shown /\ Draws(None, plugins)
    /\ UNCHANGED <<library, plugins, picking, busy, calls, crossed, steps>>

-----------------------------------------------------------------------------
(* What a call came to: in the library, and then on the page.              *)

With(held, p, grants) == [x \in DOMAIN held \cup {p} |-> IF x = p THEN grants ELSE held[x]]
Without(held, p) == [x \in DOMAIN held \ {p} |-> held[x]]

\* One that is alone when it is done leaves its plugin as it will be listed.
Does(c) ==
    /\ ~c.done /\ calls' = (calls \ {c}) \cup {[c EXCEPT !.done = TRUE]}
    /\ crossed' = IF About(c.plugin) = {c} THEN crossed \ {c.plugin} ELSE crossed
\* Installing grants nothing, and over a plugin that is there takes what it held.
Installed(c) ==
    /\ c.what = "install" /\ Does(c) /\ library' = With(library, c.plugin, Nothing)
    /\ UNCHANGED <<plugins, form, picking, busy, steps>>
Removed(c) ==
    /\ c.what = "remove" /\ c.plugin \in DOMAIN library /\ Does(c)
    /\ library' = Without(library, c.plugin)
    /\ UNCHANGED <<plugins, form, picking, busy, steps>>
Granted(c) ==
    /\ c.what = "save" /\ c.plugin \in DOMAIN library /\ Does(c)
    /\ Within(c.grants, Manifests[c.plugin]) /\ library' = With(library, c.plugin, c.grants)
    /\ UNCHANGED <<plugins, form, picking, busy, steps>>

\* What the call left of its plugin, for the store: what it was answered with.
Lists(c) == IF c.what = "remove" THEN Without(plugins, c.plugin) ELSE With(plugins, c.plugin, c.grants)
\* A plausible slip in Lists: an answer is taken for a plugin that was there already.
ListsOver(c) == IF c.plugin \in DOMAIN plugins THEN With(plugins, c.plugin, c.grants) ELSE plugins
\* An answer is the store's whichever page is shown.  The form comes up after an
\* install and goes after a save, on the page that asked, whose flag comes down
\* though another call of its own is out.
Answered(c) ==
    /\ c.done /\ calls' = calls \ {c} /\ plugins' = Lists(c)
    /\ Draws(IF ~c.here \/ c.what = "remove" THEN editing
             ELSE IF c.what = "install" THEN c.plugin ELSE None, plugins')
    /\ busy' = (busy /\ ~c.here)
    /\ UNCHANGED <<library, picking, crossed, steps>>
Failed(c) ==
    /\ ~c.done /\ calls' = calls \ {c} /\ busy' = (busy /\ ~c.here)
    /\ UNCHANGED <<library, plugins, form, picking, crossed, steps>>

-----------------------------------------------------------------------------
Init ==
    /\ library \in {[p \in held |-> Nothing] : held \in SUBSET Plugins} /\ plugins = library
    /\ editing = None /\ draft = None /\ pending = None
    /\ confirming = None /\ picking = None /\ busy = FALSE /\ calls = {} /\ crossed = {} /\ steps = 0
Next ==
    \/ install \/ Keep \/ remove \/ Leave \/ AddName \/ save \/ Back
    \/ \E p \in Plugins : permissions(p) \/ AskRemove(p)
    \/ \E p \in Plugins \cup {None} : Picked(p)
    \/ \E c \in calls : Installed(c) \/ Removed(c) \/ Granted(c) \/ Answered(c) \/ Failed(c)
    \/ \E p \in {"access-channels", "network-requests", "send-messages", "add-commands"} : TickPermission(p)
    \/ \E c \in Present \cup Typed \cup {Every} : TickChannel(c) \/ TypeName(c)
    \/ \E h \in UNION {Manifests[p].hosts : p \in Plugins} : TickHost(h)
Spec == Init /\ [][Next]_vars

-----------------------------------------------------------------------------
TypeOK == /\ DOMAIN library \subseteq Plugins /\ DOMAIN plugins \subseteq Plugins
          /\ editing \in Plugins \cup {None}

\* What a plugin holds is no more than it asked for and says what it reaches: "*"
\* stands alone, no scope outlives its permission, and nothing is granted that
\* reaches nothing, whatever was ticked, typed, taken back and installed again.
GrantsReadTrue ==
    \A p \in DOMAIN library :
        LET g == library[p]
        IN  /\ Within(g, Manifests[p]) /\ ~unscoped(g)
            /\ Every \in g.channels => g.channels = {Every}
            /\ g.channels # {} => "access-channels" \in g.permissions
            /\ g.hosts # {} => "network-requests" \in g.permissions

\* A plugin nothing is out about is listed as the library holds it, whatever other
\* calls are under way, on this page or from one that was left.  The exception: two
\* calls about one plugin out together come back in any order (crossed), until one
\* alone has put it right.
ListIsLibrary ==
    \A p \in Plugins \ crossed : About(p) = {} =>
        /\ p \in DOMAIN plugins <=> p \in DOMAIN library
        /\ p \in DOMAIN plugins => plugins[p] = library[p]

\* As the page has it, nothing closes it in the middle of a request: while a call of
\* its own is out its buttons are off.
\* The code does not keep it (README, section 7).
BusyWhileOut == (\E c \in calls : c.here) => busy
=============================================================================
