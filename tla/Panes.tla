-------------------------------- MODULE Panes --------------------------------
(***************************************************************************)
(* The panes of the window: what each shows, what each holds for what it   *)
(* shows, where the reader is, the seam under what they have not read, the *)
(* trail behind Alt+Left, and the layout the next launch comes back to.    *)
(* src/src/store/index.ts, src/src/App.tsx, src/src/hooks/useHotkeys.ts.   *)
(***************************************************************************)
EXTENDS PaneLayout, TLC

CONSTANTS
    Conversations,  \* in the order of the sidebar
    NetworkOf,      \* the network of each
    Queries,        \* those that are with one person, who may be renamed
    Mixed,          \* those whose name is not its own folding
    Kinds,          \* what a pane may be made to hold
    Directions, Ratios,
    MaxViews, MaxHeld, HISTORY_CAP,
    None

Convs == {Conversations[i] : i \in DOMAIN Conversations}
Nets == {NetworkOf[c] : c \in Convs}

ASSUME PanesAssumption ==
    /\ NetworkOf \in [Convs -> Nets] /\ Queries \subseteq Convs /\ Mixed \subseteq Convs
    /\ Conversations \in Seq(Convs) /\ None \notin Convs \cup Nat
    /\ Kinds \subseteq {"anchor", "filter", "input", "hidden", "latest", "jump"}
    /\ MaxViews \in Nat /\ MaxHeld \in Nat /\ HISTORY_CAP \in Nat \ {0}

VARIABLES
    ready,      \* the opening snapshot has landed
    there,      \* channels and queries
    filed,      \* conversations with a timeline
    seam,       \* those of them with an unreadFrom
    layout,     \* layout, None until the first view opens
    views,      \* views: the target of each
    active,     \* activeViewId
    minted,     \* nextViewId
    held,       \* what the panes hold: viewAnchor, memberFilter, consoleInput...
    stored,     \* the layout in localStorage
    trail,      \* the hotkeys' history
    traversing  \* a step of Alt+Left is still to be told from the reader's own

world == <<there, filed>>
window == <<layout, views, active, minted, held>>
after == <<stored, trail, traversing>>
vars == <<ready, world, seam, window, after>>

\* What a view points at.  A name may be the one a key is folded to.
Target(c) == [conv |-> c, folded |-> FALSE]
Nowhere == [conv |-> None, folded |-> FALSE]
Targets == [conv : Convs, folded : BOOLEAN] \cup {Nowhere}
FoldedTarget(c) == [conv |-> c, folded |-> c \in Mixed]

\* What is held for the conversation a pane shows goes with it; the roster hidden
\* is the pane's own.  A jump is asked for in a conversation too, but stays with
\* the pane until a timeline acts on it: to a message, or to the latest.
OfConversation == {"anchor", "filter", "input"}
Jumps == {"jump", "latest"}

ActiveTarget(vs, id) == IF id = None THEN Nowhere ELSE vs[id]
Focused == ActiveTarget(views, active)

TypeOK ==
    /\ ready \in BOOLEAN
    /\ there \subseteq Convs /\ filed \subseteq Convs
    /\ seam \subseteq filed
    /\ minted \in 0..MaxViews
    /\ views \in [DOMAIN views -> Targets] /\ DOMAIN views \subseteq 1..minted
    /\ layout = None => views = <<>> /\ active = None
    /\ layout # None => /\ IsLayout(layout)
                        /\ DOMAIN views = {layout.leaves[p] : p \in DOMAIN layout.leaves}
                        /\ active \in DOMAIN views
    /\ held \subseteq [kind : Kinds, view : 1..minted, conv : Convs]
    /\ trail.index \in 0..Len(trail.entries) /\ Len(trail.entries) <= HISTORY_CAP
    /\ traversing \in BOOLEAN

-----------------------------------------------------------------------------
(* What follows every write to the store.                                  *)

\* AppShell's effect writes the panes down, those that show something.
Shows(vs, p, lay) == vs[lay.leaves[p]] # Nowhere
toStored(lay, vs) ==
    LET kept == {p \in DOMAIN lay.leaves : Shows(vs, p, lay)}
    IN  IF kept = {} THEN None ELSE Relabelled(Pruned(lay, kept), LAMBDA v : vs[v])
Saved == stored' = IF layout' = None \/ UNCHANGED <<layout, views>>
                   THEN stored ELSE toStored(layout', views')

\* useAppHotkeys records where the reader is, unless it took them there.
Recorded ==
    LET before == Focused
        now == ActiveTarget(views', active')
        key == now.conv
        past == SubSeq(trail.entries, 1, trail.index) \o <<key>>
        kept == IF Len(past) > HISTORY_CAP THEN Tail(past) ELSE past
    IN  IF now = Nowhere \/ before = now
        THEN UNCHANGED <<trail, traversing>>
        ELSE /\ traversing' = FALSE
             /\ trail' = IF traversing \/ (trail.index > 0 /\ trail.entries[trail.index] = key)
                         THEN trail
                         ELSE [entries |-> kept, index |-> Len(kept)]

Follows == Saved /\ Recorded

-----------------------------------------------------------------------------
(* Where the panes look.                                                   *)

\* A plausible slip in Retargeted: only the target is written.
RetargetedAlone(id, t) ==
    /\ views' = [views EXCEPT ![id] = t]
    /\ held' = held

\* retarget: what a pane held for the conversation it showed goes with it.
Retargeted(id, t) ==
    /\ views' = [views EXCEPT ![id] = t]
    /\ held' = IF views[id] = t THEN held
               ELSE {h \in held : h.view # id \/ h.kind \notin OfConversation}

\* leftBehind: the seam of what is left clears once no pane shows it.
LeftBehind(vs, t) ==
    seam' = IF Focused = Nowhere \/ Focused = t \/ \E v \in DOMAIN vs : vs[v] = Focused
            THEN seam ELSE seam \ {Focused.conv}

OpenFirstView(t) ==
    /\ minted < MaxViews /\ minted' = minted + 1
    /\ views' = [v \in {minted'} |-> t] /\ layout' = OnePane(minted') /\ active' = minted'
    /\ UNCHANGED <<held, seam>>

setActive(t) ==
    \/ /\ active = None /\ t # Nowhere
       /\ OpenFirstView(t)
    \/ /\ active # None
       /\ Retargeted(active, t)
       /\ IF t = Nowhere THEN UNCHANGED seam ELSE LeftBehind(views', t)
       /\ UNCHANGED <<layout, active, minted>>

PanesShowing(c) == {v \in DOMAIN views : views[v].conv = c}
\* The first of some panes, as they are read.
FirstPane(panes) ==
    LET order == paneOrder(layout)
    IN  order[CHOOSE i \in DOMAIN order :
                order[i] \in panes /\ \A j \in 1..(i - 1) : order[j] \notin panes]

showTarget(t) ==
    IF PanesShowing(t.conv) = {} THEN setActive(t)
    ELSE /\ active' = FirstPane(PanesShowing(t.conv))
         /\ LeftBehind(views, t)
         /\ UNCHANGED <<layout, views, minted, held>>

Show(c) ==
    /\ ready /\ showTarget(Target(c))
    /\ UNCHANGED <<ready, world>>
    /\ Follows

\* The hotkeys name a pane by its key: stepping through the targets, Alt+digit.
Go(c) ==
    /\ ready /\ c \in there /\ setActive(FoldedTarget(c))
    /\ UNCHANGED <<ready, world>>
    /\ Follows

\* A plausible slip in Travel: the reader is taken, the index stays.
TravelInPlace(delta) ==
    LET next == trail.index + delta IN
    /\ ready /\ next \in DOMAIN trail.entries
    /\ setActive(FoldedTarget(trail.entries[next]))
    /\ UNCHANGED <<ready, world, trail>>
    /\ Saved
    /\ traversing' = (ActiveTarget(views', active') = Focused)

Travel(delta) ==
    LET next == trail.index + delta IN
    /\ ready /\ next \in DOMAIN trail.entries
    /\ setActive(FoldedTarget(trail.entries[next]))
    /\ Saved
    /\ trail' = [trail EXCEPT !.index = next]
    /\ traversing' = (ActiveTarget(views', active') = Focused)
    /\ UNCHANGED <<ready, world>>

splitActiveView(direction) ==
    /\ active # None /\ minted < MaxViews
    /\ minted' = minted + 1
    /\ layout' = splitLeaf(layout, active, direction, minted')
    /\ views' = [v \in DOMAIN views \cup {minted'} |-> views[IF v = minted' THEN active ELSE v]]
    /\ active' = minted'
    /\ UNCHANGED <<ready, world, seam, held>>
    /\ Follows

\* The next pane in order takes the focus, or the one before.
Neighbour(order, id) ==
    LET at == CHOOSE i \in DOMAIN order : order[i] = id
    IN  IF at < Len(order) THEN order[at + 1] ELSE order[at - 1]

\* A plausible slip in closeView: closing is not taken for leaving.
closeViewKeepingSeam(id) ==
    /\ Cardinality(DOMAIN views) > 1 /\ id \in DOMAIN views
    /\ layout' = removeLeaf(layout, id)
    /\ views' = [v \in DOMAIN views \ {id} |-> views[v]]
    /\ active' = IF active = id THEN Neighbour(paneOrder(layout), id) ELSE active
    /\ held' = {h \in held : h.view # id \/ h.kind = "jump"}
    /\ UNCHANGED <<ready, world, seam, minted>>
    /\ Follows

closeView(id) ==
    /\ Cardinality(DOMAIN views) > 1 /\ id \in DOMAIN views
    /\ layout' = removeLeaf(layout, id)
    /\ views' = [v \in DOMAIN views \ {id} |-> views[v]]
    /\ active' = IF active = id THEN Neighbour(paneOrder(layout), id) ELSE active
    /\ held' = {h \in held : h.view # id \/ h.kind = "jump"}
    /\ seam' = IF active = id /\ ~\E v \in DOMAIN views' : views'[v] = views[id]
               THEN seam \ {views[id].conv} ELSE seam
    /\ UNCHANGED <<ready, world, minted>>
    /\ Follows

focusView(id) ==
    /\ id \in DOMAIN views /\ active' = id
    /\ UNCHANGED <<ready, world, seam, layout, views, minted, held>>
    /\ Follows

setSplitRatio(node, ratio) ==
    /\ layout' = setRatio(layout, node, ratio)
    /\ UNCHANGED <<ready, world, seam, views, active, minted, held>>
    /\ Follows

\* Any of the setters a pane writes through: where it is scrolled to, what is
\* typed into it, what its roster is narrowed to, where it is to jump.
Hold(kind, id) ==
    LET others == {h \in held : h.kind # kind \/ h.view # id} IN
    /\ id \in DOMAIN views /\ views[id] # Nowhere /\ Cardinality(others) < MaxHeld
    /\ held' = others \cup {[kind |-> kind, view |-> id, conv |-> views[id].conv]}
    /\ UNCHANGED <<ready, world, seam, layout, views, active, minted, after>>

\* The pane's timeline has rows: it is put at the latest whoever asked for that,
\* and at a message where it is one of its rows.
ActOnJump(h) ==
    LET shown == views[h.view].conv IN
    /\ h.kind \in Jumps /\ h.view \in DOMAIN views /\ shown \in filed
    /\ h.kind = "jump" => shown = h.conv
    /\ held' = held \ {h}
    /\ UNCHANGED <<ready, world, seam, layout, views, active, minted, after>>

-----------------------------------------------------------------------------
(* What the network says.                                                  *)

\* reduce messagesAppended: a line from somebody else, live.
Arrive(c) ==
    /\ ready /\ c \in there
    /\ filed' = filed \cup {c}
    /\ seam' = IF Focused = Target(c) THEN seam ELSE seam \cup {c}
    /\ UNCHANGED <<ready, there, window, after>>

FirstListed(cs) == Conversations[CHOOSE i \in DOMAIN Conversations :
                 /\ Conversations[i] \in cs
                 /\ \A j \in 1..(i - 1) : Conversations[j] \notin cs]

\* openFirstConversation: only ever into an empty window.
OpenIfEmpty(cs) ==
    IF layout = None /\ cs # {}
    THEN OpenFirstView(Target(FirstListed(cs)))
    ELSE UNCHANGED <<window, seam>>

Update(c) ==
    /\ ready /\ c \notin there
    /\ there' = there \cup {c}
    /\ OpenIfEmpty(there')
    /\ UNCHANGED <<ready, filed>>
    /\ Follows

\* dropPanesOn: a conversation that is gone takes its panes with it, but for the
\* one the window keeps.
DropPanesOn(c) ==
    LET showing == PanesShowing(c)
        emptied == IF showing = DOMAIN views THEN {FirstPane(showing)} ELSE {}
        dropped == showing \ emptied
        kept == {p \in DOMAIN layout.leaves : layout.leaves[p] \notin dropped}
    IN  IF showing = {} THEN UNCHANGED window
        ELSE /\ layout' = Pruned(layout, kept)
             /\ views' = [v \in DOMAIN views \ dropped |->
                            IF v \in emptied THEN Nowhere ELSE views[v]]
             /\ held' = {h \in held : \/ h.kind \in {"latest", "jump"}
                                      \/ h.view \notin dropped \cup emptied
                                      \/ h.view \in emptied /\ h.kind = "hidden"}
             /\ active' = IF active \in DOMAIN views' THEN active
                          ELSE Head(paneOrder(layout'))
             /\ UNCHANGED minted

RemoveConversation(c) ==
    /\ ready /\ c \in there
    /\ there' = there \ {c}
    /\ DropPanesOn(c)
    /\ UNCHANGED <<ready, filed, seam>>
    /\ Follows

Moved(set, from, to, taken) ==
    (set \ {from}) \cup (IF from \in set /\ ~taken THEN {to} ELSE {})

\* queryRenamed: the conversation goes with the person; what is already filed
\* under the new name wins.
Rename(from, to) ==
    /\ ready /\ from \in there \cap Queries /\ to \in Queries \ {from}
    /\ NetworkOf[from] = NetworkOf[to]
    /\ there' = (there \ {from}) \cup {to}
    /\ filed' = Moved(filed, from, to, FALSE)
    /\ seam' = Moved(seam, from, to, to \in filed)
    /\ views' = [v \in DOMAIN views |-> IF views[v] = Target(from) THEN Target(to) ELSE views[v]]
    /\ held' = {IF views[h.view] = Target(from) THEN [h EXCEPT !.conv = to] ELSE h :
                  h \in {g \in held : g.view \in DOMAIN views}}
    /\ UNCHANGED <<ready, layout, active, minted>>
    /\ Follows

\* networkRemoved: its views are emptied rather than closed.
RemoveNetwork(n) ==
    LET gone == {c \in Convs : NetworkOf[c] = n}
        stale == {v \in DOMAIN views : views[v].conv \in gone}
    IN  /\ ready /\ gone \cap there # {}
        /\ there' = there \ gone /\ filed' = filed \ gone /\ seam' = seam \ gone
            /\ views' = [v \in DOMAIN views |-> IF v \in stale THEN Nowhere ELSE views[v]]
        /\ held' = {h \in held : h.view \notin stale \/ h.kind \notin {"anchor", "input"}}
        /\ UNCHANGED <<ready, layout, active, minted>>
    /\ Follows

-----------------------------------------------------------------------------
(* One launch and the next.                                                *)

Exists(cs, t) == t.conv \in cs

\* A plausible slip in RestoreLayout: the ids are handed out over the stored tree,
\* before what is gone is pruned from it.
RestoreLayoutUnpruned(cs) ==
    /\ minted + Cardinality(DOMAIN stored.leaves) <= MaxViews
    /\ LET id == [p \in DOMAIN stored.leaves |-> minted + Place(stored, p)]
       IN  /\ minted' = minted + Cardinality(DOMAIN stored.leaves)
           /\ layout' = [stored EXCEPT !.leaves = id]
           /\ views' = [v \in {id[p] : p \in DOMAIN id} |->
                          stored.leaves[CHOOSE p \in DOMAIN id : id[p] = v]]
    /\ active' = minted + 1
    /\ UNCHANGED <<held, seam>>

\* fromStored, then openStored in the order the panes are read.
RestoreLayout(cs) ==
    LET kept == {p \in DOMAIN stored.leaves : Exists(cs, stored.leaves[p])}
        tree == Pruned(stored, kept)
        id == [p \in DOMAIN tree.leaves |-> minted + Place(tree, p)]
    IN  /\ minted' = minted + Cardinality(DOMAIN tree.leaves) /\ minted' <= MaxViews
        /\ layout' = [tree EXCEPT !.leaves = id]
        /\ views' = [v \in {id[p] : p \in DOMAIN id} |->
                       tree.leaves[CHOOSE p \in DOMAIN id : id[p] = v]]
        /\ active' = minted + 1
        /\ UNCHANGED <<held, seam>>

Restorable(cs) ==
    stored # None /\ \E p \in DOMAIN stored.leaves : Exists(cs, stored.leaves[p])

\* startBridge resolves: the snapshot says what exists.
Start(cs) ==
    /\ ~ready /\ ready' = TRUE
    /\ there' = cs
    /\ IF layout = None /\ Restorable(cs) THEN RestoreLayout(cs) ELSE OpenIfEmpty(cs)
    /\ UNCHANGED <<filed>>
    /\ Follows

Relaunch ==
    /\ ready /\ ready' = FALSE
    /\ there' = {} /\ filed' = {} /\ seam' = {}
    /\ layout' = None /\ views' = <<>> /\ active' = None /\ minted' = 0 /\ held' = {}
    /\ trail' = [entries |-> <<>>, index |-> 0] /\ traversing' = FALSE
    /\ UNCHANGED stored

Init ==
    /\ ready = FALSE
    /\ there = {} /\ filed = {} /\ seam = {}
    /\ layout = None /\ views = <<>> /\ active = None /\ minted = 0 /\ held = {}
    /\ stored = None /\ trail = [entries |-> <<>>, index |-> 0] /\ traversing = FALSE

Next ==
    \/ \E c \in Convs : Show(c) \/ Go(c) \/ Arrive(c) \/ Update(c) \/ RemoveConversation(c)
    \/ \E delta \in {-1, 1} : Travel(delta)
    \/ \E direction \in Directions : splitActiveView(direction)
    \/ \E id \in DOMAIN views : closeView(id) \/ (id # active /\ focusView(id))
    \/ \E node \in (IF layout = None THEN {} ELSE DOMAIN layout.splits), ratio \in Ratios :
         setSplitRatio(node, ratio)
    \/ \E kind \in Kinds, id \in DOMAIN views : Hold(kind, id)
    \/ \E h \in held : ActOnJump(h)
    \/ \E from, to \in Queries : Rename(from, to)
    \/ \E n \in Nets : RemoveNetwork(n)
    \/ \E cs \in SUBSET Convs : Start(cs)
    \/ Relaunch

Spec == Init /\ [][Next]_vars

-----------------------------------------------------------------------------
(* Properties.                                                             *)

\* What a pane holds for a conversation (where it was scrolled to, what its
\* roster was narrowed to, a line half typed into the console) is never shown
\* over another one, whichever way the pane came to show it: retargeted, emptied
\* by a removal and filled again, or carried through a rename.  A jump that no
\* timeline has acted on is carried over (JumpsAreLeft; README, section 7).
NothingCarriedOver ==
    \A h \in held : h.kind \in OfConversation /\ h.view \in DOMAIN views =>
        views[h.view] = Nowhere \/ views[h.view].conv = h.conv

\* Leaving a conversation clears the seam it was read under once no pane shows
\* it, by a retarget, by showing another pane or by closing its pane: the next
\* visit opens no rule over what was read on the last.
Leaves(c) == Focused = Target(c) /\ \A v \in DOMAIN views' : views'[v].conv # c
LeavingClearsTheSeam ==
    [][ready /\ ready' => \A c \in there' : Leaves(c) => c \notin seam']_vars

\* The same of a conversation that is left by parting it.
\* The code does not keep it (README, section 7).
PartingClearsTheSeam ==
    [][ \A c \in there : RemoveConversation(c) /\ Leaves(c) => c \notin seam' ]_vars

\* Alt+Left and Alt+Right count from where the reader is.
HistoryNamesActive ==
    Focused # Nowhere => trail.index > 0 /\ trail.entries[trail.index] = Focused.conv

\* A launch brings back the panes of the last one, in their order, less those of
\* conversations that are gone, and looks at the first of them.
RestoredInOrder ==
    [][ ~ready /\ ready' /\ layout = None /\ stored # None =>
          LET was == paneOrder(stored)
              left == {i \in DOMAIN was : was[i].conv \in there'}
              now == [i \in DOMAIN paneOrder(layout') |-> views'[paneOrder(layout')[i]]]
          IN  left # {} => /\ now = [k \in 1..Cardinality(left) |-> was[Nth(left, k)]]
                           /\ active' = Head(paneOrder(layout')) ]_vars

\* "Retargeting resets the view's own position - the scroll ... belonged to the
\* conversation it was showing, not to the pane" (store/index.ts, retarget): a pane
\* acts on a jump in the conversation it was asked for in.
\* The code does not keep it (README, section 7).
JumpsAreLeft ==
    [][\A h \in held : ActOnJump(h) => views[h.view].conv = h.conv]_vars

\* A live line is never marked unread under the reader's eyes: it opens a seam
\* where the reader is not looking.
\* The code does not keep it where a name is not its own folding (README,
\* section 7).
ArrivalMarksElsewhere ==
    [][ \A c \in seam' \ seam : (\E d \in there : Arrive(d)) => Focused.conv # c ]_vars
=============================================================================
