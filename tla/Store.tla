-------------------------------- MODULE Store --------------------------------
(***************************************************************************)
(* What the window knows of every network: the store's maps, the event     *)
(* that writes to each (reduce), and the second implementation that takes  *)
(* a whole batch of them at once (applyEvents).  src/src/store/index.ts.   *)
(* Panes holds the views; a conversation here is a key, its timeline one   *)
(* of Timelines.                                                           *)
(***************************************************************************)
EXTENDS Timelines, Functions

CONSTANTS
    Nets, Names,    \* networks, and targets as a key folds them
    RAW_LOG_CAP, RECENT_CAP, INPUT_HISTORY_CAP,
    Events,         \* what the backend may send
    Heard,          \* what it has sent already: the batches the window opened with
    MaxSteps        \* events and gestures there may be

StoreAssumption ==
    /\ Nets \subseteq Nat /\ {RAW_LOG_CAP, RECENT_CAP, INPUT_HISTORY_CAP} \subseteq Nat \ {0}
    /\ MaxSteps \in Nat

VARIABLES
    store,
    batch,          \* what the pump is about to hand over
    steps

vars == <<store, batch, steps>>

Keys == Nets \X Names
Without(f, gone) == [k \in DOMAIN f \ gone |-> f[k]]
With(f, k, value) == [x \in DOMAIN f \cup {k} |-> IF x = k THEN value ELSE f[x]]
At_(f, k, default) == IF k \in DOMAIN f THEN f[k] ELSE default
OfNetwork(n) == {n} \X Names
Unmarked == [redacted |-> FALSE, notes |-> <<>>, raisedBy |-> <<>>, reactions |-> <<>>]

\* Pinned networks in the order they were pinned, the rest by name, ties by id.
orderNetworks(networks, pinned) ==
    LET rank(n) == SelectInSeq(pinned, LAMBDA p : p = n)
        before(a, b) ==
          \/ rank(a) # 0 /\ (rank(b) = 0 \/ rank(a) < rank(b))
          \/ /\ rank(a) = 0 /\ rank(b) = 0
             /\ \/ networks[a].name < networks[b].name
                \/ networks[a].name = networks[b].name /\ a < b
    IN  SetToSortSeq(DOMAIN networks, before)

patchNetwork(s, n, status) ==
    IF n \in DOMAIN s.networks THEN [s EXCEPT !.networks[n].status = status] ELSE s

moveKey(f, from, to) ==
    IF from \notin DOMAIN f THEN f
    ELSE [k \in (DOMAIN f \ {from}) \cup {to} |->
            IF k = to /\ to \notin DOMAIN f THEN f[from] ELSE f[k]]
Renamed(keys, from, to) == [i \in DOMAIN keys |-> IF keys[i] = from THEN to ELSE keys[i]]

-----------------------------------------------------------------------------
(* reduce, one event at a time.                                            *)

networkUpdated(s, n, name) ==
    LET networks == With(s.networks, n, [name |-> name, status |-> "connected"])
    IN  [s EXCEPT !.networks = networks,
                  !.networkOrder = orderNetworks(networks, s.pinnedNetworks)]

networkRemoved(s, n) ==
    LET stays(k) == k[1] # n
    IN  [s EXCEPT
           !.networks = Without(@, {n}),
           !.networkOrder = SelectSeq(@, LAMBDA m : m # n),
           !.channels = @ \ OfNetwork(n), !.queries = Without(@, OfNetwork(n)),
           !.timelines = Without(@, OfNetwork(n)), !.members = Without(@, OfNetwork(n)),
           !.typing = Without(@, OfNetwork(n)), !.replyTo = Without(@, OfNetwork(n)),
           !.inputHistory = Without(@, OfNetwork(n)), !.drafts = @ \ OfNetwork(n),
           !.rawLog = Without(@, {n}), !.channelList = @ \ {n},
           !.recent = SelectSeq(@, stays),
           !.pinnedNetworks = SelectSeq(@, LAMBDA m : m # n),
           !.pinnedTargets = SelectSeq(@, stays),
           !.reading = IF @ # None /\ @ \in OfNetwork(n) THEN None ELSE @]

\* Anything but connected, and what was asked of the server is not coming.
connectionChanged(s, n, status) ==
    LET patched == patchNetwork(s, n, status)
    IN  IF status = "connected" THEN patched
        ELSE [patched EXCEPT !.timelines =
                [k \in DOMAIN @ |-> IF k[1] = n THEN forgetPageBacks(@[k]) ELSE @[k]]]

TimelineOf(s, key) == At_(s.timelines, key, EMPTY_TIMELINE)

messagesAppended(s, key, e) ==
    LET landed == Appended(TimelineOf(s, key), e, s.reading = key)
    IN  IF Fresh(TimelineOf(s, key).messages, e.messages) = <<>> /\ e.answers = None THEN s
        ELSE [s EXCEPT !.timelines = With(@, key, landed)]

\* A mark is part of the copy a window holds of a message: one on a message outside
\* the window is the archive's to keep, and it goes when its copy does.
InWindow(s, key) == ToSet(TimelineOf(s, key).messages)
Marked(s, key, m, Mark(_)) ==
    IF m \notin InWindow(s, key) THEN s
    ELSE [s EXCEPT !.marks = With(@, <<key, m>>, Mark(At_(@, <<key, m>>, Unmarked)))]
WithItsCopies(s) ==
    [s EXCEPT !.marks = Restrict(@, {x \in DOMAIN @ : x[2] \in InWindow(s, x[1])})]

\* The copy that is held is replaced whole by the one the backend has now.
messageReplaced(s, key, m) ==
    [s EXCEPT !.timelines = With(@, key, messageUpdated(TimelineOf(s, key), m)),
              !.marks = Without(@, {<<key, m>>})]

\* One note of a plugin's per message.
messageAnnotated(marks, plugin, text) ==
    [marks EXCEPT !.notes = Append(SelectSeq(@, LAMBDA n : n.plugin # plugin),
                                   [plugin |-> plugin, text |-> text])]
messageRaised(marks, plugin) ==
    IF Contains(marks.raisedBy, plugin) THEN marks
    ELSE [marks EXCEPT !.raisedBy = Append(@, plugin)]
messageRedacted(marks) == [marks EXCEPT !.redacted = TRUE]

\* A server can say either line twice.
applyReaction(held, emoji, nick, active) ==
    LET at == SelectInSeq(held, LAMBDA r : r.emoji = emoji)
        others == SelectSeq(held[at].nicks, LAMBDA n : n # nick)
        nicks == IF ~active THEN others
                 ELSE IF Contains(held[at].nicks, nick) THEN held[at].nicks
                 ELSE Append(held[at].nicks, nick)
    IN  IF at = 0 THEN (IF active THEN Append(held, [emoji |-> emoji, nicks |-> <<nick>>]) ELSE held)
        ELSE IF nicks = <<>> THEN RemoveAt(held, at)
        ELSE [held EXCEPT ![at].nicks = nicks]

reactionChanged(marks, e) ==
    [marks EXCEPT !.reactions = applyReaction(@, e.emoji, e.nick, e.active)]

ConversationGone(s, key) ==
    [s EXCEPT !.channels = @ \ {key}, !.queries = Without(@, {key}), !.drafts = @ \ {key},
              !.reading = IF @ = key THEN None ELSE @]

queryRenamed(s, from, to) ==
    LET rekey(keys) == Renamed(keys, from, to)
        queries == moveKey(s.queries, from, to)
        carried == {x \in DOMAIN s.marks : x[1] = from /\ to \notin DOMAIN s.timelines}
        moved == [x \in {<<to, y[2]>> : y \in carried} |-> s.marks[<<from, x[2]>>]]
    IN  IF from = to THEN s
        ELSE [s EXCEPT
                !.queries = IF from \in DOMAIN s.queries /\ to \notin DOMAIN s.queries
                            THEN [queries EXCEPT ![to] = to[2]] ELSE queries,
                !.timelines = moveKey(@, from, to), !.typing = moveKey(@, from, to),
                !.marks = Without(@, carried) @@ moved,
                !.replyTo = moveKey(@, from, to),
                !.drafts = IF from \in @ THEN (@ \ {from}) \cup {to} ELSE @,
                !.recent = rekey(@), !.pinnedTargets = rekey(@),
                !.reading = IF @ = from THEN to ELSE @]

\* Where a person already stands in a roster is where they stay.
Seated(roster, nick) ==
    IF Contains(roster, nick) THEN roster ELSE Append(roster, nick)
Roster(roster, e) ==
    CASE e.type = "membersReplaced" -> e.members
      [] e.type = "memberUpdated" -> Seated(roster, e.nick)
      [] e.type = "memberRemoved" -> SelectSeq(roster, LAMBDA n : n # e.nick)
RosterTypes == {"membersReplaced", "memberUpdated", "memberRemoved"}
members(s, key, e) ==
    IF e.type = "memberRemoved" /\ key \notin DOMAIN s.members THEN s
    ELSE [s EXCEPT !.members = With(@, key, Roster(At_(@, key, <<>>), e))]

typingChanged(s, key, nick, active) ==
    LET current == At_(s.typing, key, {})
    IN  [s EXCEPT !.typing = With(@, key, IF active THEN current \cup {nick} ELSE current \ {nick})]

rawLine(s, n, line) ==
    [s EXCEPT !.rawLog = With(@, n, Newest(Append(At_(@, n, <<>>), line), RAW_LOG_CAP))]

Reduced(s, e) ==
    CASE e.type = "networkUpdated" -> networkUpdated(s, e.network, e.name)
      [] e.type = "networkRemoved" -> networkRemoved(s, e.network)
      [] e.type = "connectionChanged" -> connectionChanged(s, e.network, e.status)
      [] e.type = "messagesAppended" -> messagesAppended(s, e.key, e)
      [] e.type = "messageUpdated" -> messageReplaced(s, e.key, e.message)
      [] e.type = "messageAnnotated" ->
           Marked(s, e.key, e.message, LAMBDA m : messageAnnotated(m, e.plugin, e.text))
      [] e.type = "messageRaised" ->
           Marked(s, e.key, e.message, LAMBDA m : messageRaised(m, e.plugin))
      [] e.type = "messageRedacted" -> Marked(s, e.key, e.message, messageRedacted)
      [] e.type = "reactionChanged" ->
           Marked(s, e.key, e.message, LAMBDA m : reactionChanged(m, e))
      [] e.type = "readMarkerUpdated" ->
           [s EXCEPT !.timelines = With(@, e.key, readMarkerUpdated(TimelineOf(s, e.key), e.marker))]
      [] e.type = "channelUpdated" -> [s EXCEPT !.channels = @ \cup {e.key}]
      [] e.type \in {"channelRemoved", "queryRemoved"} -> ConversationGone(s, e.key)
      [] e.type = "queryRenamed" -> queryRenamed(s, e.from, e.to)
      [] e.type = "queryUpdated" -> [s EXCEPT !.queries = With(@, e.key, e.key[2])]
      [] e.type \in RosterTypes -> members(s, e.key, e)
      [] e.type = "typingChanged" -> typingChanged(s, e.key, e.nick, e.active)
      [] e.type = "ignoredChanged" -> [s EXCEPT !.ignored = @ \cup {e.network}]
      [] e.type = "channelsListed" ->
           [s EXCEPT !.channelList = @ \cup {e.network}, !.channelsOpen = e.network]
      [] e.type = "rawLine" -> rawLine(s, e.network, e.line)

reduce(s, e) == WithItsCopies(Reduced(s, e))

AppliedOneByOne(s, events) == FoldLeft(reduce, s, events)

-----------------------------------------------------------------------------
(* applyEvents: rosters, windows and logs are held while the batch runs.   *)

flushRosters(w) ==
    [w EXCEPT !.next.members = [k \in DOMAIN @ \cup DOMAIN w.rosters |->
                                  IF k \in DOMAIN w.rosters THEN w.rosters[k] ELSE @[k]],
              !.rosters = << >>]
flushTimelines(w) ==
    LET written(k) == [TimelineOf(w.next, k) EXCEPT
                         !.messages = capped(w.held[k].messages),
                         !.unreadFrom = w.held[k].unreadFrom,
                         !.askedBehind = w.held[k].askedBehind, !.hasMore = w.held[k].hasMore]
    IN  [w EXCEPT !.next.timelines = [k \in DOMAIN @ \cup DOMAIN w.held |->
                                        IF k \in DOMAIN w.held THEN written(k) ELSE @[k]],
                  !.held = << >>]
flushRawLines(w) ==
    [w EXCEPT !.next.rawLog = [n \in DOMAIN @ \cup DOMAIN w.lines |->
                 Newest(At_(@, n, <<>>) \o At_(w.lines, n, <<>>), RAW_LOG_CAP)],
              !.lines = << >>]

\* applyRoster on the roster rosterFor opens, unless it would open one to empty.
HoldRoster(w, e) ==
    LET open == At_(w.rosters, e.key, At_(w.next.members, e.key, <<>>))
    IN  [w EXCEPT !.rosters = With(@, e.key, Roster(open, e))]
OpensRoster(w, e) ==
    /\ e.type \in RosterTypes
    /\ e.type = "memberRemoved" => e.key \in DOMAIN w.rosters \cup DOMAIN w.next.members

holdMessages(w, e) ==
    LET timeline == At_(w.held, e.key, TimelineOf(w.next, e.key))
    IN  IF Fresh(timeline.messages, e.messages) = <<>> /\ e.answers = None THEN w
        ELSE [w EXCEPT !.held = With(@, e.key, Held(timeline, e, w.next.reading = e.key))]

\* A plausible slip in HoldEvent: a network is removed under a roster still held.
HoldEventUnflushed(w, e) ==
    IF OpensRoster(w, e) THEN HoldRoster(w, e)
    ELSE IF e.type = "messagesAppended" THEN holdMessages(w, e)
    ELSE IF e.type = "rawLine" THEN
        [w EXCEPT !.lines = With(@, e.network, Append(At_(@, e.network, <<>>), e.line))]
    ELSE LET flushed == flushRawLines(flushTimelines(w))
         IN  [flushed EXCEPT !.next = reduce(@, e)]

HoldEvent(w, e) ==
    IF OpensRoster(w, e) THEN HoldRoster(w, e)
    ELSE IF e.type = "messagesAppended" THEN holdMessages(w, e)
    ELSE IF e.type = "rawLine" THEN
        [w EXCEPT !.lines = With(@, e.network, Append(At_(@, e.network, <<>>), e.line))]
    ELSE LET flushed == flushRawLines(flushTimelines(
                          IF e.type = "networkRemoved" THEN flushRosters(w) ELSE w))
         IN  [flushed EXCEPT !.next = reduce(@, e)]

applyEvents(s, events) ==
    LET opened == [next |-> s, rosters |-> << >>, held |-> << >>, lines |-> << >>]
    IN  WithItsCopies(flushRawLines(flushTimelines(flushRosters(FoldLeft(HoldEvent, opened, events)))).next)

-----------------------------------------------------------------------------
(* What the reader does to it.                                             *)

Toggled(seq, x) == IF Contains(seq, x) THEN SelectSeq(seq, LAMBDA y : y # x) ELSE Append(seq, x)

togglePinnedNetwork(s, n) ==
    LET pinned == Toggled(s.pinnedNetworks, n)
    IN  [s EXCEPT !.pinnedNetworks = pinned, !.networkOrder = orderNetworks(s.networks, pinned)]
togglePinnedTarget(s, key) == [s EXCEPT !.pinnedTargets = Toggled(@, key)]
setReplyTo(s, key, msgid) ==
    [s EXCEPT !.replyTo = IF msgid = None THEN Without(@, {key}) ELSE With(@, key, msgid)]
rememberInput(s, key, text) ==
    LET history == At_(s.inputHistory, key, <<>>)
    IN  IF history # <<>> /\ history[1] = text THEN s
        ELSE [s EXCEPT !.inputHistory =
                With(@, key, SubSeq(<<text>> \o history, 1,
                       IF Len(history) < INPUT_HISTORY_CAP THEN Len(history) + 1
                       ELSE INPUT_HISTORY_CAP))]
setDraftPresence(s, key, present) ==
    [s EXCEPT !.drafts = IF present THEN @ \cup {key} ELSE @ \ {key}]
setBookmarked(s, key, m, active) ==
    LET current == At_(s.bookmarks, key, {})
    IN  [s EXCEPT !.bookmarks = With(@, key, IF active THEN current \cup {m} ELSE current \ {m})]
ReadConversation(s, key) ==
    [s EXCEPT !.reading = key,
              !.recent = Newest(SelectSeq(@, LAMBDA k : k # key) \o <<key>>, RECENT_CAP)]
browseChannels(s, n) == [s EXCEPT !.channelsOpen = n, !.channelList = @ \ {n}]

Gestures(s) ==
    {togglePinnedNetwork(s, n) : n \in DOMAIN s.networks}
    \cup {browseChannels(s, n) : n \in DOMAIN s.networks}
    \cup UNION {{togglePinnedTarget(s, key), ReadConversation(s, key),
                 setReplyTo(s, key, 1), setReplyTo(s, key, None), rememberInput(s, key, "said"),
                 setDraftPresence(s, key, TRUE), setDraftPresence(s, key, FALSE),
                 setBookmarked(s, key, 1, TRUE), setBookmarked(s, key, 1, FALSE)}
                : key \in s.channels \cup DOMAIN s.queries}

-----------------------------------------------------------------------------
initialStore ==
    [networks |-> << >>, networkOrder |-> <<>>, pinnedNetworks |-> <<>>, channels |-> {},
     queries |-> << >>, members |-> << >>, timelines |-> << >>, typing |-> << >>,
     ignored |-> {}, replyTo |-> << >>, inputHistory |-> << >>, drafts |-> {},
     bookmarks |-> << >>, rawLog |-> << >>, channelList |-> {}, channelsOpen |-> None,
     recent |-> <<>>, pinnedTargets |-> <<>>, reading |-> None, marks |-> << >>]

\* The store the snapshot left, which loadSnapshot files as events.
Known == {AppliedOneByOne(initialStore, events) : events \in Heard}

Init ==
    /\ store \in Known /\ batch = <<>> /\ steps = 0

Gesture ==
    /\ batch = <<>> /\ steps < MaxSteps /\ steps' = steps + 1
    /\ store' \in Gestures(store) /\ UNCHANGED batch
Receive ==
    /\ steps < MaxSteps /\ steps' = steps + 1
    /\ \E e \in Events : batch' = Append(batch, e)
    /\ UNCHANGED store
Apply ==
    /\ batch # <<>> /\ batch' = <<>> /\ store' = applyEvents(store, batch)
    /\ UNCHANGED steps

Next == Gesture \/ Receive \/ Apply
Spec == Init /\ [][Next]_vars

-----------------------------------------------------------------------------
(* Properties.                                                             *)

TypeOK ==
    /\ batch \in Seq(Events) /\ Len(batch) <= steps
    /\ store.channels \cup store.drafts \cup DOMAIN store.timelines \subseteq Keys
    /\ \A n \in DOMAIN store.rawLog : Len(store.rawLog[n]) <= RAW_LOG_CAP
    /\ Len(store.recent) <= RECENT_CAP

\* A message the cap has taken since the batch began is said again in it.
EchoOfTheCut ==
    LET was(i) == AppliedOneByOne(store, SubSeq(batch, 1, i))
    IN  \E i \in DOMAIN batch : \E j \in 0..(i - 1) :
          /\ batch[i].type = "messagesAppended"
          /\ Cardinality(InWindow(was(i - 1), batch[i].key)) = TIMELINE_CAP
          /\ ~(ToSet(batch[i].messages) \cap InWindow(was(j), batch[i].key)
                 \subseteq InWindow(was(i - 1), batch[i].key))

\* applyEvents is a second implementation of what reduce does for one event: a
\* batch reads the same as the same events applied one at a time.  But a message the cap
\* would have dropped in the middle of the batch is still known to it when it is said
\* again, and to reduce it is a new one (store/index.ts, flushTimelines, says so).
BatchesAgree == ~EchoOfTheCut => applyEvents(store, batch) = AppliedOneByOne(store, batch)

\* Whatever is renamed, pinned, removed or added again, the sidebar's order is of
\* the networks there are, the pinned ones first and in the order of their pins.
PinnedComeFirst ==
    LET order == store.networkOrder
        pinned == SelectSeq(store.pinnedNetworks, LAMBDA n : n \in DOMAIN store.networks)
    IN  /\ ToSet(order) = DOMAIN store.networks /\ Len(order) = Cardinality(ToSet(order))
        /\ SubSeq(order, 1, Len(pinned)) = pinned
        /\ \A i, j \in (Len(pinned) + 1)..Len(order) :
             i < j => store.networks[order[i]].name <= store.networks[order[j]].name

\* However often a server or a plugin repeats itself, nobody reacts twice with one
\* emoji, no plugin notes or raises a message twice, and no reaction is nobody's.
MarksAreHeldOnce ==
    LET once(seq) == Cardinality(ToSet(seq)) = Len(seq)
    IN  \A m \in DOMAIN store.marks :
          /\ once(store.marks[m].raisedBy)
          /\ once([i \in DOMAIN store.marks[m].notes |-> store.marks[m].notes[i].plugin])
          /\ once([i \in DOMAIN store.marks[m].reactions |-> store.marks[m].reactions[i].emoji])
          /\ \A i \in DOMAIN store.marks[m].reactions :
               LET nicks == store.marks[m].reactions[i].nicks IN once(nicks) /\ nicks # <<>>

\* Everything else keyed by the network or its conversations goes with it: a
\* network that comes back under its old id finds nothing of the one before.
\* The code does not keep it (README, section 7).
NetworkTakesEverything ==
    batch # <<>> /\ Last(batch).type = "networkRemoved" =>
      LET after == applyEvents(store, batch)
          gone == OfNetwork(Last(batch).network)
      IN  /\ (DOMAIN after.timelines \cup DOMAIN after.inputHistory \cup DOMAIN after.replyTo
              \cup after.drafts \cup DOMAIN after.bookmarks) \cap gone = {}
          /\ Last(batch).network \notin after.ignored \cup DOMAIN after.rawLog
=============================================================================
