------------------------------ MODULE MCWindow ------------------------------
(***************************************************************************)
(* The parts of the window that share no state but what the backend is     *)
(* asked, checked in one run: a behaviour is of one part, chosen at the    *)
(* start, and the others stay as they begin.                               *)
(***************************************************************************)
EXTENDS Naturals, Sequences, FiniteSets, TLC

CONSTANT None

VARIABLES
  part,             \* what this behaviour is of
  \* what the window knows of every network
  storeStore, batch, storeSteps,
  \* the stream of events, and who is at the desk
  backend, here, pump, bridgeCalls, events, bridgeBridge, starts, answer, listing,
  held, bridgeStore, roster, bridgeActive, window, turns, follow, last, settings,
  raised, overtaken, missed, unlisted,
  \* the composers of the panes
  at, mount, value, browsing, completion, hydrated, unsaved, typing, composerError,
  history, replyTo, presence, disk, composerCalls, own, tabbed, lost, shared,
  edits, sends,
  \* the networks panel
  networks, conversations, collapsed, pinnedNetworks, pinnedTargets, sidebarFilter,
  focusedId, menuFor, sidebarActive, sidebarCalls, asked, sidebarCrossed, sidebarSteps,
  \* the command palette
  paletteOpen, query, selected, paletteError, candidates, there, connected, narrowing,
  recent, themeId, painted, paletteCalls, runs, paletteOpened, shut,
  \* the search overlay
  searchOpen, searchOpened, mode, text, searchFilter, hits, searchError, editingNote,
  saved, due, asking, searchCalls, asks, saves, moves, searchActive, messageJump,
  searchUnreadFrom, notes, searchRefused, again, searchCrossed,
  \* the rows of a timeline
  rowsMessages, rowsUnreadFrom, detachedAt, present, catchUp, focusedGroup, groups,
  rowsRows, rowsSteps,
  \* the codes in a line
  message, span, char, style, plain, drawn

-----------------------------------------------------------------------------
(* What each part is given. *)

StoreIds == 1..3
StoreAt == [m \in StoreIds |-> m]
Here == <<1, "a">>      \* a channel, or the query it is renamed over
There == <<1, "b">>

On(type, key) == [type |-> type, key |-> key]
Said(key, lines, live) ==
  [type |-> "messagesAppended", key |-> key, messages |-> lines, live |-> live, answers |-> None]
React(nick, active) ==
  [type |-> "reactionChanged", key |-> Here, message |-> 1, emoji |-> "plus",
   nick |-> nick, active |-> active]
Net(n, name) == [type |-> "networkUpdated", network |-> n, name |-> name]
Nick(type, nick) == [type |-> type, key |-> Here, nick |-> nick]

StoreEvents ==
  {Net(1, 3), Net(2, 1), [type |-> "networkRemoved", network |-> 1],
   [type |-> "connectionChanged", network |-> 1, status |-> "connecting"],
   Said(Here, <<2>>, {2}), Said(Here, <<1, 3>>, {3}), Said(There, <<1>>, {}),
   [type |-> "messageUpdated", key |-> Here, message |-> 2],
   [type |-> "messageAnnotated", key |-> Here, message |-> 1, plugin |-> "p", text |-> "t"],
   [type |-> "messageRaised", key |-> Here, message |-> 1, plugin |-> "p"],
   [type |-> "messageRedacted", key |-> Here, message |-> 1],
   React("x", TRUE), React("x", FALSE),
   [type |-> "readMarkerUpdated", key |-> Here, marker |-> 1],
   On("queryRemoved", Here), [type |-> "queryRenamed", from |-> Here, to |-> There],
   [type |-> "membersReplaced", key |-> Here, members |-> <<"y">>],
   Nick("memberUpdated", "x"), Nick("memberRemoved", "x"),
   [type |-> "typingChanged", key |-> Here, nick |-> "x", active |-> TRUE],
   [type |-> "typingChanged", key |-> Here, nick |-> "x", active |-> FALSE],
   [type |-> "ignoredChanged", network |-> 1], [type |-> "channelsListed", network |-> 1],
   [type |-> "rawLine", network |-> 1, line |-> "in"]}

StoreHeard ==
  {<<Net(1, 1), Net(2, 2), On("channelUpdated", There), On("queryUpdated", Here),
     Said(Here, <<1>>, {1}), Nick("memberUpdated", "y"), Nick("memberUpdated", "x"),
     [type |-> "rawLine", network |-> 1, line |-> "in"],
     [type |-> "rawLine", network |-> 1, line |-> "out"]>>}

BridgeLines == {[live |-> TRUE, hushed |-> FALSE, highlight |-> TRUE]}
Raises(rooms) ==
  {[attention |-> [c \in rooms |-> "inherit"], highlights |-> TRUE,
    directMessages |-> TRUE, quiet |-> FALSE]}

Typed == {"hi", "hi2", "/oper", "/connect"}
Typed2 == {"hi"}
SortsOf(lines) ==
  [l \in lines |-> CASE l = "/oper" -> "secret" [] l = "/join" -> "join"
                     [] l = "/connect" -> "connection" [] OTHER -> "said"]
Completions(lines) == [l \in lines |-> IF l = "hi" /\ "hi2" \in lines THEN <<"hi2">> ELSE <<>>]

SidebarOpen == {<<1, "channel", 1>>, <<1, "query", 2>>, <<2, "channel", 2>>}

PaletteRow(kind, label, key, action) ==
  [kind |-> kind, label |-> label, key |-> key, action |-> action]
Catalogue ==
  <<PaletteRow("channel", <<"#", "a", "-", "b">>, "k1", "activate"),
    PaletteRow("query", <<"a", "a", "b">>, "k2", "activate"),
    PaletteRow("command", <<"/", "a">>, None, "refine"),
    PaletteRow("action", <<"b", "a">>, None, "connect"),
    PaletteRow("theme", <<"a", "b", "-", "a", "b">>, None, "dusk"),
    PaletteRow("theme", <<"b", "-", "b">>, None, "problem")>>

Archived ==
  [m \in {"m1", "m2"} |->
     IF m = "m1" THEN [place |-> "c", query |-> FALSE, self |-> FALSE, says |-> TRUE, raised |-> TRUE]
     ELSE [place |-> "q", query |-> TRUE, self |-> FALSE, says |-> TRUE, raised |-> FALSE]]
ArchivedHere == [m \in {"m1", "m2"} |-> [Archived[m] EXCEPT !.place = "c"]]
Matches(m, t, f) == m = t

Plain(nick) ==
  [id |-> 0, at |-> 0, nick |-> nick, kind |-> "privmsg", topic |-> None, to |-> None,
   names |-> FALSE, replyTo |-> None, source |-> "live"]
RowLines ==
  {Plain("a"),
   [Plain("b") EXCEPT !.to = "a"],
   [Plain("c") EXCEPT !.to = "b", !.names = TRUE],
   [Plain("c") EXCEPT !.topic = "x"],
   [Plain("a") EXCEPT !.kind = "notice"],
   [Plain("c") EXCEPT !.kind = "join", !.source = "serverHistory"],
   [Plain("c") EXCEPT !.kind = "client"]}
Presentations ==
  [clock : {"24h", "off"}, clockSide : {"before-spine", "left", "right"},
   nickAtRail : BOOLEAN, nickEveryLine : BOOLEAN, compactSingletons : BOOLEAN]

Worth == ("4" :> 4) @@ ("9" :> 9)
Nearest(hex) == 88
Chars == {"\\x02", "\\x03", "\\x04", "\\x0f", "9", ",", "f"}
Span(kind, n) == [kind : {kind}, text : [1..n -> Chars]]
FormatMessages ==
  UNION {[1..1 -> Span("text", n)] : n \in 1..3}
  \cup {<<a, b, c>> : a \in Span("text", 1), b \in Span("code", 1) \cup Span("link", 1),
                      c \in Span("text", 2)}
  \cup {<<[kind |-> "text", text |-> <<colour, "9", "9", ",", "9", "f", "f">>]>> :
          colour \in {"\\x03", "\\x04"}}
  \cup {<<[kind |-> "text", text |-> <<"\\x03", "4", ",", "9", "\\x03", "9", "f">>]>>}

-----------------------------------------------------------------------------

St == INSTANCE Store WITH
  Ids <- StoreIds, At <- StoreAt, Mine <- {3}, TIMELINE_CAP <- 2, Nets <- {1, 2},
  Names <- {"a", "b"}, RAW_LOG_CAP <- 2, RECENT_CAP <- 2, INPUT_HISTORY_CAP <- 1,
  Events <- StoreEvents, Heard <- StoreHeard, MaxSteps <- 3, store <- storeStore,
  steps <- storeSteps

Br == INSTANCE Bridge WITH
  Channels <- {"c"}, Queries <- {"q"}, Lines <- BridgeLines,
  Settings <- Raises({"c", "q"}), Followed <- {}, MaxUnread <- 2, MaxEvents <- 3,
  MaxFocus <- 0, MaxStarts <- 2, calls <- bridgeCalls, bridge <- bridgeBridge,
  store <- bridgeStore, active <- bridgeActive

Fo == INSTANCE Bridge WITH
  Channels <- {}, Queries <- {"q"}, Lines <- BridgeLines, Settings <- Raises({"q"}),
  Followed <- {"bridge", "notify"}, MaxUnread <- 1, MaxEvents <- 2, MaxFocus <- 1,
  MaxStarts <- 2, calls <- bridgeCalls, bridge <- bridgeBridge, store <- bridgeStore,
  active <- bridgeActive

Co == INSTANCE Composer WITH
  Views <- {"l"}, Targets <- {"c", "d"}, Lines <- Typed, SortOf <- SortsOf(Typed),
  Completes <- Completions(Typed), Replies <- {}, INPUT_HISTORY_CAP <- 2,
  MaxEdits <- 2, MaxSends <- 1, MaxMoves <- 2, error <- composerError,
  calls <- composerCalls

Cs == INSTANCE Composer WITH
  Views <- {"l", "r"}, Targets <- {"c", "d"}, Lines <- Typed2,
  SortOf <- SortsOf(Typed2), Completes <- Completions(Typed2), Replies <- {"m"},
  INPUT_HISTORY_CAP <- 1, MaxEdits <- 1, MaxSends <- 0, MaxMoves <- 1,
  error <- composerError, calls <- composerCalls

Si == INSTANCE Sidebar WITH
  Networks <- {1, 2}, Names <- {1, 2}, Open <- SidebarOpen,
  Filters <- {"unread", "drafts"}, MaxSteps <- 3, MaxCalls <- 2,
  filter <- sidebarFilter, active <- sidebarActive, calls <- sidebarCalls,
  crossed <- sidebarCrossed, steps <- sidebarSteps

Pa == INSTANCE Palette WITH
  Catalogue <- Catalogue, Alphabet <- {"a", "b", "/"}, NeedsArgument <- {<<"/", "a">>},
  Themes <- {"dusk", "dawn"}, RESULT_LIMIT <- 4, MaxQuery <- 3, MaxRuns <- 1,
  Separators <- {"-", "#", "/"}, Letters <- {"a", "b"}, open <- paletteOpen,
  error <- paletteError, calls <- paletteCalls, opened <- paletteOpened

Se == INSTANCE Search WITH
  Messages <- ArchivedHere, Places <- {"c"}, Texts <- {"", "m1"}, Filters <- {"any"},
  Matches <- Matches, Notes <- {"x"}, LIMIT <- 1, MaxOpens <- 2, MaxAsks <- 2,
  MaxSaves <- 0, MaxMoves <- 1, open <- searchOpen, opened <- searchOpened,
  filter <- searchFilter, error <- searchError, calls <- searchCalls,
  active <- searchActive, unreadFrom <- searchUnreadFrom, refused <- searchRefused,
  crossed <- searchCrossed

Sn == INSTANCE Search WITH
  Messages <- Archived, Places <- {"c", "q"}, Texts <- {"", "m1"}, Filters <- {"any"},
  Matches <- Matches, Notes <- {"x"}, LIMIT <- 1, MaxOpens <- 2, MaxAsks <- 1,
  MaxSaves <- 1, MaxMoves <- 0, open <- searchOpen, opened <- searchOpened,
  filter <- searchFilter, error <- searchError, calls <- searchCalls,
  active <- searchActive, unreadFrom <- searchUnreadFrom, refused <- searchRefused,
  crossed <- searchCrossed

Ro == INSTANCE Rows WITH
  People <- {"a", "b", "c"}, ADDRESS_REACH <- 1, DECLARED_GAP <- 5, Lines <- RowLines,
  Gaps <- {0, 6}, Me <- "b", Hushed <- {}, RUN <- 5, BUCKET <- 1, DAY <- 12,
  Presentations <- Presentations, MaxSteps <- 4, messages <- rowsMessages,
  unreadFrom <- rowsUnreadFrom, rows <- rowsRows, steps <- rowsSteps

Fm == INSTANCE IrcFormat WITH
  Messages <- FormatMessages, Digits <- {"4", "9"}, Worth <- Worth,
  HexDigits <- {"4", "9", "f"}, TRIPLE <- 2, Nearest <- Nearest

-----------------------------------------------------------------------------
(* One part at a time. *)

storeVars ==
  <<storeStore, batch, storeSteps>>
bridgeVars ==
  <<backend, here, pump, bridgeCalls, events, bridgeBridge, starts, answer, listing,
    held, bridgeStore, roster, bridgeActive, window, turns, follow, last, settings,
    raised, overtaken, missed, unlisted>>
composerVars ==
  <<at, mount, value, browsing, completion, hydrated, unsaved, typing, composerError,
    history, replyTo, presence, disk, composerCalls, own, tabbed, lost, shared,
    edits, sends>>
sidebarVars ==
  <<networks, conversations, collapsed, pinnedNetworks, pinnedTargets, sidebarFilter,
    focusedId, menuFor, sidebarActive, sidebarCalls, asked, sidebarCrossed,
    sidebarSteps>>
paletteVars ==
  <<paletteOpen, query, selected, paletteError, candidates, there, connected,
    narrowing, recent, themeId, painted, paletteCalls, runs, paletteOpened, shut>>
searchVars ==
  <<searchOpen, searchOpened, mode, text, searchFilter, hits, searchError, editingNote,
    saved, due, asking, searchCalls, asks, saves, moves, searchActive, messageJump,
    searchUnreadFrom, notes, searchRefused, again, searchCrossed>>
rowsVars ==
  <<rowsMessages, rowsUnreadFrom, detachedAt, present, catchUp, focusedGroup, groups,
    rowsRows, rowsSteps>>
formatVars ==
  <<message, span, char, style, plain, drawn>>

Parts == {"store", "bridge", "focus", "composer", "panes", "sidebar", "palette", "search", "notes", "rows",
          "format"}

ASSUME
  /\ St!StoreAssumption /\ Br!BridgeAssumption /\ Fo!BridgeAssumption /\ Co!ComposerAssumption
  /\ Cs!ComposerAssumption /\ Si!SidebarAssumption /\ Pa!PaletteAssumption /\ Se!SearchAssumption
  /\ Sn!SearchAssumption
  /\ Ro!GroupsAssumption /\ Fm!IrcFormatAssumption

\* The parts that are not the one chosen begin in one way only.
Init ==
  /\ part \in Parts
  /\ St!Init
  /\ IF part = "focus" THEN Fo!Init ELSE Br!Init
  /\ part \in {"bridge", "focus"} \/ (window /\ backend = << >>)
  /\ IF part = "panes" THEN Cs!Init ELSE Co!Init
  /\ part \in {"composer", "panes"} \/ (at["l"] = "c" /\ \A t \in DOMAIN disk : disk[t] = "")
  /\ Si!Init
  /\ Pa!Init /\ (part = "palette" \/ themeId = "dusk")
  /\ (IF part = "notes" THEN Sn!Init ELSE Se!Init) /\ (part \in {"search", "notes"} \/ searchActive = None)
  /\ Ro!Init
  /\ Fm!Init /\ (part = "format" \/ message = <<[kind |-> "text", text |-> <<"f">>]>>)

Next ==
  /\ UNCHANGED part
  /\ IF part = "store" THEN St!Next ELSE UNCHANGED storeVars
  /\ IF part = "bridge" THEN Br!Next ELSE IF part = "focus" THEN Fo!Next ELSE UNCHANGED bridgeVars
  /\ IF part = "composer" THEN Co!Next ELSE IF part = "panes" THEN Cs!Next ELSE UNCHANGED composerVars
  /\ IF part = "sidebar" THEN Si!Next ELSE UNCHANGED sidebarVars
  /\ IF part = "palette" THEN Pa!Next ELSE UNCHANGED paletteVars
  /\ IF part = "search" THEN Se!Next ELSE IF part = "notes" THEN Sn!Next ELSE UNCHANGED searchVars
  /\ IF part = "rows" THEN Ro!Next ELSE UNCHANGED rowsVars
  /\ IF part = "format" THEN Fm!Next ELSE UNCHANGED formatVars

vars ==
  <<part, storeVars, bridgeVars, composerVars, sidebarVars, paletteVars, searchVars, rowsVars,
    formatVars>>

Spec == Init /\ [][Next]_vars

-----------------------------------------------------------------------------
(* What is checked of each. *)

\* The two ways the store takes events agree: a batch applied at once leaves what
\* its events leave one by one, but for an echo of what the batch itself pushes out of
\* a full buffer (EchoOfTheCut); networks stand as they are pinned and named, and
\* no mark waits for a line that is here (store/index.ts, reduce and applyEvents).
StoreAgrees == part = "store" => St!TypeOK /\ St!BatchesAgree /\ St!PinnedComeFirst /\ St!MarksAreHeldOnce

\* When nothing more is on its way the window shows what the backend holds, it knows
\* whether the reader is there, and what the reader looks at is read; Bridge names what
\* is let off: answers overtaken, calls that failed (bridge.ts, notifications.ts).
BackendIsFollowed ==
  /\ part = "bridge" => Br!FollowsBackend /\ Br!FocusIsFollowed /\ Br!FocusedIsRead
  /\ part = "focus" => Fo!FollowsBackend /\ Fo!FocusIsFollowed /\ Fo!FocusedIsRead

\* Nothing is raised for a conversation the same batch of events muted
\* (notifications.ts).
MutedIsNotRaised == Br!MutedIsNotRaised

\* A draft is what the reader last wrote in its conversation, however lines were
\* recalled, completed, sent and refused and conversations left and come back to, and
\* the sidebar marks it; Composer names what is let off (Composer.tsx).
TypedIsKept ==
  /\ part = "composer" => Co!DraftIsWhatWasTyped /\ Co!DraftsAreMarked
  /\ part = "panes" => Cs!DraftIsWhatWasTyped /\ Cs!DraftsAreMarked

\* Nothing unread is out of sight without a mark above it, and the last thing asked of
\* a network is what it ends as (SidebarNetworks.tsx).
SidebarIsTrue == part = "sidebar" => Si!NothingUnreadIsHidden /\ Si!LastAskStands

\* What the palette lists after typing on is what typing it at once would list, and a
\* palette that is closed shows the theme that was chosen (filter.ts, CommandPalette.tsx).
PaletteIsFresh == part = "palette" => Pa!ResultsAreFresh /\ Pa!ClosedShowsChosen

\* The hits on screen are of what is asked now, in whatever order the answers came, and
\* a note that was kept is the note shown; Search names what is let off (SearchOverlay.tsx).
SearchIsOfWhatIsAsked ==
  /\ part = "search" => Se!HitsAreOfWhatIsAsked /\ Se!NotesAreKept
  /\ part = "notes" => Sn!HitsAreOfWhatIsAsked /\ Sn!NotesAreKept

\* A line reads the same wherever it stands: who talks with whom is one rule for every
\* line, a row's time is said once, a new line changes no group but the last, and codes
\* drawn and codes stripped leave the same words (groups.ts, rows.ts, ircFormat.ts).
LinesReadAsSaid ==
  /\ [](part = "rows" => Ro!ExchangeIsOneRule /\ Ro!TimeIsSaidOnce)
  /\ [](part = "format" => Fm!DrawnIsStripped /\ Fm!StyleIsOfTheLine)
  /\ Ro!AppendIsLocal
=============================================================================
