-------------------------------- MODULE Sidebar --------------------------------
(***************************************************************************)
(* The list of networks and their conversations: what it draws of the      *)
(* store, where the arrow keys go in it, and what its menus ask for.  The  *)
(* connection a network's menu starts, stops or restarts is the backend's, *)
(* and so is the news that takes a row away.                               *)
(***************************************************************************)
EXTENDS Naturals, Sequences, FiniteSets, SequencesExt, FiniteSetsExt

CONSTANTS
    Networks, Names,        \* in the order their names have
    Open,                   \* the conversations the window opens with
    Filters, MaxSteps, MaxCalls, None

SidebarAssumption ==
    /\ Networks \subseteq Nat /\ Names \subseteq Nat \ {0} /\ {MaxSteps, MaxCalls} \subseteq Nat
    /\ Filters \subseteq {"unread", "mentions", "drafts"}
    /\ Open \subseteq Networks \X {"channel", "query"} \X Names

VARIABLES
    networks,       \* id -> its status
    conversations,  \* row id -> what is unread, what of it is loud, whether a draft waits
    collapsed, pinnedNetworks, pinnedTargets, filter,
    focusedId, menuFor, active,
    calls,
    asked, crossed, \* what a network was last asked to be, and that asks overlapped
    steps

shown == <<collapsed, pinnedNetworks, pinnedTargets, filter>>
vars == <<networks, conversations, shown, focusedId, menuFor, active, calls, asked, crossed, steps>>

\* A row is a network's own or a conversation's: the server's console is the first kind.
header(n) == <<n, "network", 0>>
Channels == Networks \X {"channel"} \X Names
Queries == Networks \X {"query"} \X Names
States == {"disconnected", "connecting", "connected", "reconnecting", "failed"}

-----------------------------------------------------------------------------
(* What is drawn.                                                          *)

matchesSidebarFilter(c) ==
    LET talk == conversations[c] IN
    CASE filter = "unread" -> talk.unread > 0
      [] filter = "mentions" -> (IF c[2] = "query" THEN talk.unread ELSE talk.highlights) > 0
      [] filter = "drafts" -> talk.draft
      [] OTHER -> TRUE
Matching(n) == {c \in DOMAIN conversations : c[1] = n /\ matchesSidebarFilter(c)}
\* Pinned ones first, then by name.
Sorted(rows) ==
    SetToSortSeq(rows, LAMBDA a, b :
        IF (a \in pinnedTargets) # (b \in pinnedTargets) THEN a \in pinnedTargets ELSE a[3] < b[3])
channels(n) == Sorted(Matching(n) \cap Channels)
queries(n) == Sorted(Matching(n) \cap Queries)
orderNetworks ==
    LET rank(n) == SelectInSeq(pinnedNetworks, LAMBDA p : p = n)
    IN  SetToSortSeq(DOMAIN networks, LAMBDA a, b :
            \/ rank(a) # 0 /\ (rank(b) = 0 \/ rank(a) < rank(b))
            \/ rank(a) = 0 /\ rank(b) = 0 /\ a < b)

\* A plausible slip in attention: a folded panel answers for its channels only.
attentionOfChannels(n) ==
    SumSet({0} \cup {conversations[c].highlights : c \in Matching(n) \cap Channels})
\* How loud a folded panel's own row is, and what else it says is waiting there.
attention(n) ==
    SumSet({0} \cup {IF c[2] = "query" THEN conversations[c].unread ELSE conversations[c].highlights
                     : c \in Matching(n)})
unread(n) == SumSet({0} \cup {conversations[c].unread : c \in Matching(n)})

panel(n) == <<header(n)>> \o IF n \in collapsed THEN <<>> ELSE channels(n) \o queries(n)
\* The panels flattened into what the arrow keys walk; a filter leaves the networks out.
rows ==
    LET all(part(_)) == FlattenSeq([i \in DOMAIN orderNetworks |-> part(orderNetworks[i])])
    IN  IF filter # None THEN all(LAMBDA n : channels(n) \o queries(n)) ELSE all(panel)
Drawn == ToSet(rows)
tabbableId ==
    LET all == rows
    IN  IF Contains(all, focusedId) THEN focusedId ELSE IF all = <<>> THEN None ELSE all[1]

\* The conversation an empty window opens.
selectFirstConversation ==
    LET of(n, kind) == SetToSortSeq({c \in DOMAIN conversations : c[1] = n /\ c[2] = kind},
                                    LAMBDA a, b : a[3] < b[3])
        all == FlattenSeq([i \in DOMAIN orderNetworks |->
                             of(orderNetworks[i], "channel") \o of(orderNetworks[i], "query")])
    IN  IF all = <<>> THEN None ELSE all[1]

-----------------------------------------------------------------------------
(* The keys.                                                               *)

Step == steps < MaxSteps /\ steps' = steps + 1
toggleNetworkCollapsed(n) ==
    collapsed' = IF n \in collapsed THEN collapsed \ {n} ELSE collapsed \cup {n}

focusRow(all, i) ==
    /\ focusedId' = all[IF i < 1 THEN 1 ELSE IF i > Len(all) THEN Len(all) ELSE i]
    /\ UNCHANGED collapsed
onKeyDown(key) ==
    /\ Step /\ LET all == rows
                  at == SelectInSeq(all, LAMBDA r : r = tabbableId)
                  row == all[at]
                  heads == {i \in 1..(at - 1) : all[i][2] = "network"}
       IN  /\ all # <<>>
           /\ CASE key = "ArrowDown" -> focusRow(all, at + 1)
                [] key = "ArrowUp" -> focusRow(all, at - 1)
                [] key = "Home" -> focusRow(all, 1)
                [] key = "End" -> focusRow(all, Len(all))
                [] key = "ArrowRight" ->
                     IF row[2] = "network" /\ row[1] \in collapsed
                     THEN toggleNetworkCollapsed(row[1]) /\ UNCHANGED focusedId
                     ELSE focusRow(all, at + 1)
                [] key = "ArrowLeft" /\ row[2] # "network" /\ heads # {} ->
                     focusRow(all, Max(heads))
                [] key = "ArrowLeft" /\ row[2] = "network" /\ row[1] \notin collapsed ->
                     toggleNetworkCollapsed(row[1]) /\ UNCHANGED focusedId
                [] OTHER -> UNCHANGED <<collapsed, focusedId>>
    /\ UNCHANGED <<networks, conversations, pinnedNetworks, pinnedTargets, filter, menuFor, active,
                   calls, asked, crossed>>
\* A conversation that comes up in the focused pane has been read.
activate(row) ==
    /\ row \in Drawn /\ row # active /\ Step /\ active' = row /\ focusedId' = row
    /\ conversations' = IF row[2] = "network" THEN conversations
                        ELSE [conversations EXCEPT ![row].unread = 0, ![row].highlights = 0]
    /\ UNCHANGED <<networks, shown, menuFor, calls, asked, crossed>>

-----------------------------------------------------------------------------
(* The menus.                                                              *)

onOpenChange(row) ==
    /\ row \in Drawn \cup {None} /\ menuFor # row /\ Step /\ menuFor' = row
    /\ UNCHANGED <<networks, conversations, shown, focusedId, active, calls, asked, crossed>>
Chosen == menuFor # None /\ menuFor \in Drawn /\ Step /\ menuFor' = None
Toggled(s, x) == IF Contains(s, x) THEN SelectSeq(s, LAMBDA y : y # x) ELSE Append(s, x)
onCollapse ==
    /\ menuFor # None /\ menuFor[2] = "network" /\ Chosen /\ toggleNetworkCollapsed(menuFor[1])
    /\ UNCHANGED <<networks, conversations, pinnedNetworks, pinnedTargets, filter, focusedId, active,
                   calls, asked, crossed>>
onTogglePinned ==
    /\ Chosen
    /\ IF menuFor[2] = "network"
       THEN pinnedNetworks' = Toggled(pinnedNetworks, menuFor[1]) /\ UNCHANGED pinnedTargets
       ELSE /\ pinnedTargets' = (pinnedTargets \ {menuFor}) \cup ({menuFor} \ pinnedTargets)
            /\ UNCHANGED pinnedNetworks
    /\ UNCHANGED <<networks, conversations, collapsed, filter, focusedId, active, calls, asked, crossed>>
setSidebarFilter(next) ==
    /\ next # filter /\ Step /\ filter' = next
    /\ UNCHANGED <<networks, conversations, collapsed, pinnedNetworks, pinnedTargets, focusedId,
                   menuFor, active, calls, asked, crossed>>

Call(what, row) == [what |-> what, row |-> row]
Ask(call) ==
    /\ Cardinality(calls) < MaxCalls /\ call \notin calls /\ calls' = calls \cup {call}
    /\ UNCHANGED <<networks, conversations, shown, focusedId, active>>
Asking(n, what) ==
    /\ asked' = [asked EXCEPT ![n] = what]
    /\ crossed' = IF \E c \in calls : c.row[1] = n THEN crossed \cup {n} ELSE crossed
\* A network that keeps failing is retrying: what is reached for is the end of that.
toggleConnection ==
    /\ menuFor # None /\ menuFor[2] = "network" /\ Chosen
    /\ LET n == menuFor[1]
           what == IF networks[n] = "disconnected" THEN "connect" ELSE "disconnect"
       IN  Ask(Call(what, menuFor)) /\ Asking(n, what)
reconnect ==
    /\ menuFor # None /\ menuFor[2] = "network" /\ Chosen
    /\ networks[menuFor[1]] \in {"failed", "reconnecting"}
    /\ Ask(Call("reconnect", menuFor)) /\ Asking(menuFor[1], "connect")
\* Nothing goes before the backend says so: a refusal leaves the row where it was.
closeRow(row) ==
    /\ row \in Drawn /\ Step /\ Ask(Call("close", row))
    /\ menuFor' = IF row[2] = "network" THEN menuFor ELSE None
    /\ UNCHANGED <<asked, crossed>>

Answered(c, fails) ==
    /\ c \in calls
    /\ calls' = (calls \ {c}) \cup IF c.what = "reconnect" /\ ~fails THEN {Call("connect", c.row)}
                                  ELSE {}
    /\ networks' = IF fails \/ c.row[1] \notin DOMAIN networks THEN networks
                   ELSE CASE c.what = "connect" -> [networks EXCEPT ![c.row[1]] = "connecting"]
                          [] c.what \in {"disconnect", "reconnect"} ->
                               [networks EXCEPT ![c.row[1]] = "disconnected"]
                          [] c.row[2] = "network" -> [n \in DOMAIN networks \ {c.row[1]} |-> networks[n]]
                          [] OTHER -> networks
    /\ LET gone == IF c.what # "close" \/ fails THEN {}
                   ELSE IF c.row[2] = "network" THEN {r \in DOMAIN conversations : r[1] = c.row[1]}
                   ELSE {c.row}
       IN  conversations' = [r \in DOMAIN conversations \ gone |-> conversations[r]]
    /\ active' = IF active = None \/ (active[1] \in DOMAIN networks' /\ (active[2] = "network"
                    \/ active \in DOMAIN conversations')) THEN active ELSE None
    /\ crossed' = IF fails THEN crossed \cup {c.row[1]} ELSE crossed
    /\ pinnedTargets' = {r \in pinnedTargets : r[1] \in DOMAIN networks'}
    /\ pinnedNetworks' = SelectSeq(pinnedNetworks, LAMBDA n : n \in DOMAIN networks')
    /\ UNCHANGED <<collapsed, filter, focusedId, menuFor, asked, steps>>

-----------------------------------------------------------------------------
(* What the backend sends.                                                 *)

Fresh == [unread |-> 0, highlights |-> 0, draft |-> FALSE]
Opened(c) ==
    /\ c \in Channels \cup Queries /\ c \notin DOMAIN conversations /\ c[1] \in DOMAIN networks /\ Step
    /\ conversations' = [r \in DOMAIN conversations \cup {c} |->
                           IF r = c THEN Fresh ELSE conversations[r]]
    /\ UNCHANGED <<networks, shown, focusedId, menuFor, active, calls, asked, crossed>>
Arrives(c, loud) ==
    /\ c \in DOMAIN conversations /\ c # active /\ conversations[c].unread = 0 /\ Step
    /\ conversations' = [conversations EXCEPT ![c].unread = 1,
                             ![c].highlights = IF loud /\ c[2] = "channel" THEN 1 ELSE 0]
    /\ UNCHANGED <<networks, shown, focusedId, menuFor, active, calls, asked, crossed>>
Drafted(c) ==
    /\ c \in DOMAIN conversations /\ Step
    /\ conversations' = [conversations EXCEPT ![c].draft = ~@]
    /\ UNCHANGED <<networks, shown, focusedId, menuFor, active, calls, asked, crossed>>
StatusChanged(n, next) ==
    /\ n \in DOMAIN networks /\ networks[n] # "disconnected" /\ networks[n] # next /\ Step
    /\ networks' = [networks EXCEPT ![n] = next]
    /\ UNCHANGED <<conversations, shown, focusedId, menuFor, active, calls, asked, crossed>>

Init ==
    /\ networks = [n \in Networks |-> "failed"] /\ conversations = [c \in Open |-> Fresh]
    /\ collapsed = {} /\ pinnedNetworks = <<>> /\ pinnedTargets = {} /\ filter = None
    /\ focusedId = None /\ menuFor = None /\ active = None /\ calls = {} /\ crossed = {}
    /\ asked = [n \in Networks |-> "connect"] /\ steps = 0
Next ==
    \/ \E key \in {"ArrowDown", "ArrowUp", "Home", "End", "ArrowRight", "ArrowLeft"} : onKeyDown(key)
    \/ \E row \in Drawn : activate(row) \/ onOpenChange(row) \/ closeRow(row)
    \/ onOpenChange(None) \/ onCollapse \/ onTogglePinned \/ toggleConnection \/ reconnect
    \/ \E next \in Filters \cup {None} : setSidebarFilter(next)
    \/ \E c \in calls, fails \in BOOLEAN : Answered(c, fails)
    \/ \E c \in Channels \cup Queries : Opened(c) \/ Drafted(c) \/ \E loud \in BOOLEAN : Arrives(c, loud)
    \/ \E n \in Networks, next \in {"connected", "reconnecting", "failed"} : StatusChanged(n, next)
Spec == Init /\ [][Next]_vars

-----------------------------------------------------------------------------
\* Whatever is folded or pinned, nothing that waits is hidden: a conversation with
\* something unread has a row, or its network's row says so, and as loudly as it would.
NothingUnreadIsHidden ==
    filter = None =>
        \A c \in DOMAIN conversations : conversations[c].unread > 0 =>
            \/ c \in Drawn
            \/ /\ header(c[1]) \in Drawn /\ unread(c[1]) > 0
               /\ c[2] = "query" \/ conversations[c].highlights > 0 => attention(c[1]) > 0

\* With nothing on its way and nothing refused, a network is up or down as it was last
\* asked to be, unless it was asked while another ask was out.
LastAskStands ==
    calls = {} => \A n \in DOMAIN networks \ crossed :
        networks[n] = "disconnected" <=> asked[n] = "disconnect"

\* As its comment has it, what an empty window opens is the conversation at the top of
\* the sidebar.
\* The code does not keep it (README, section 7).
FirstIsAtTheTop ==
    filter = None /\ collapsed = {} =>
        LET drawn == SelectSeq(rows, LAMBDA r : r[2] # "network")
        IN  selectFirstConversation = IF drawn = <<>> THEN None ELSE drawn[1]
=============================================================================
