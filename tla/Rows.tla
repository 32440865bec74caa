-------------------------------- MODULE Rows --------------------------------
(***************************************************************************)
(* The rows a conversation is drawn as.  The Timeline component holds a    *)
(* window of lines that grows at both ends, the unread seam, the place a   *)
(* search jump left the window cut and who is in the channel; from those   *)
(* it derives the groups (groups.ts) and the rows (rows.ts), each time one *)
(* of them changes, and MessageBlock and SystemMessage draw the rows.      *)
(* What a presentation setting changes is in the operators that take `p`.  *)
(***************************************************************************)
EXTENDS Groups

CONSTANTS
  Lines,            \* the lines that may be said, without id and time
  Gaps,             \* the silences before a line
  Me,               \* the reader's nick
  Hushed,           \* nicks whose lines are never loud
  RUN,              \* how long one person's block may go on
  BUCKET,           \* how long a run of console output may go on
  DAY,              \* the length of a day
  Presentations,    \* the presentation settings a reader may choose
  MaxSteps          \* bound: lines said, a silence or another change counting more

VARIABLES
  messages,         \* the window, oldest first
  unreadFrom,       \* the first unread line, or None
  detachedAt,       \* the line after which the window is cut, or None
  present,          \* the member list
  catchUp,          \* only what wants the reader is shown
  focusedGroup,     \* the group whose spine was clicked, or None
  groups,           \* assignGroups of the window
  rows,             \* buildRows of what is shown
  steps             \* how many changes there were

vars == <<messages, unreadFrom, detachedAt, present, catchUp, focusedGroup,
          groups, rows, steps>>

-----------------------------------------------------------------------------
(* What makes a line loud, and what a reader catching up is shown. *)

IsHighlight(message, roster) ==
  /\ message.nick # Me
  /\ message.nick \notin Hushed
  /\ roster = {} \/ message.nick \in roster
  /\ message.names

IsCatchUp(message, roster) ==
  \/ IsHighlight(message, roster)
  \/ message.replyTo # None
  \/ message.kind \in {"kick", "topic"}

IndexOf(window, id) == Max({0} \cup {k \in DOMAIN window : window[k].id = id})

\* Each line that wants the reader, from the seam on, with the two around it.
CatchUpMessages(window, from, roster) ==
  LET unread == IndexOf(window, from)
      wanted == {k \in unread .. Len(window) : IsCatchUp(window[k], roster)}
      shown  == {k \in DOMAIN window : \E w \in wanted : w - k \in {-1, 0, 1}}
  IN  IF unread = 0 THEN <<>>
      ELSE [k \in 1 .. Cardinality(shown) |->
              window[CHOOSE i \in shown : Cardinality({j \in shown : j <= i}) = k]]

-----------------------------------------------------------------------------
(* buildRows. *)

ConsoleKinds == {"server", "client"}
PresenceKinds == {"join", "part", "quit", "nick", "mode"}
LoudKinds == {"kick"}
IsSystem(message) == message.kind \in ConsoleKinds \cup PresenceKinds \cup LoudKinds \cup {"topic"}
WritesOwnNick(message) == message.kind \in {"action", "notice"}

IsRule(row) == row.kind \in {"gap", "date", "history", "unread"}

\* What was missed, stated at the unread rule: what people said and no more.
MeasureSeam(unread, roster) ==
  LET speech == SelectSeq(unread, LAMBDA m : ~IsSystem(m))
  IN  [messages |-> Len(speech),
       people   |-> Cardinality({speech[k].nick : k \in DOMAIN speech}),
       span     |-> IF speech = <<>> THEN 0
                    ELSE Max({0, speech[Len(speech)].at - speech[1].at}),
       mentions |-> Cardinality({k \in DOMAIN speech : IsHighlight(speech[k], roster)})]

\* Whether a line goes on the run already open.
ContinuesRun(row, message, group) ==
  LET head == row.messages[1]
  IN  IF IsSystem(message)
      THEN /\ row.kind = "system"
           /\ IF head.kind \in ConsoleKinds
              THEN head.at \div BUCKET = message.at \div BUCKET
              ELSE message.at - head.at <= RUN
      ELSE /\ row.kind = "block"
           /\ head.nick = message.nick
           /\ WritesOwnNick(head) = WritesOwnNick(message)
           /\ message.at - head.at <= RUN
           /\ row.group = group

\* The rules drawn across the pane above line i, outermost first.
RulesAbove(so, window, i, from, cutAt, roster) ==
  LET message == window[i]
      rule(drawn, row) == IF drawn THEN <<row>> ELSE <<>>
  IN  rule(i > 1 /\ cutAt # None /\ window[i - 1].id = cutAt,
           [kind |-> "gap"])
      \o rule(message.at \div DAY # so.day,
              [kind |-> "date", day |-> message.at \div DAY])
      \o rule((message.source = "serverHistory") # so.inHistory,
              [kind |-> "history", opens |-> message.source = "serverHistory"])
      \o rule(from # None /\ message.id = from,
              [kind |-> "unread",
               seam |-> MeasureSeam(SubSeq(window, i, Len(window)), roster)])

\* The row a line opens. A line nobody said leaves the group open around it.
Opened(message, group, openGroup) ==
  IF IsSystem(message) THEN [kind |-> "system", messages |-> <<message>>]
  ELSE [kind |-> "block", messages |-> <<message>>, group |-> group,
        opensGroup |-> group # None /\ group.id # openGroup]

OpenGroupAfter(message, group, openGroup) ==
  IF IsSystem(message) THEN openGroup
  ELSE IF group = None THEN None
  ELSE group.id

Placed(so, window, i, from, cutAt, grouped, roster) ==
  LET message == window[i]
      above   == RulesAbove(so, window, i, from, cutAt, roster)
      group   == IF IsSystem(message) THEN None ELSE grouped[message.id]
      open    == so.rows # <<>> /\ above = <<>>
      last    == so.rows[Len(so.rows)]
      openGroup == IF above = <<>> THEN so.openGroup ELSE None
      base    == [so EXCEPT !.day = message.at \div DAY,
                            !.inHistory = message.source = "serverHistory"]
  IN  IF open /\ ContinuesRun(last, message, group)
      THEN [base EXCEPT !.rows[Len(so.rows)].messages = Append(@, message)]
      ELSE [base EXCEPT !.rows = @ \o above \o <<Opened(message, group, openGroup)>>,
                        !.openGroup = OpenGroupAfter(message, group, openGroup)]

BuildRows(window, from, cutAt, grouped, roster) ==
  LET built[i \in 0 .. Len(window)] ==
        IF i = 0
        THEN [rows |-> <<>>, day |-> None, inHistory |-> FALSE, openGroup |-> None]
        ELSE The({Placed(so, window, i, from, cutAt, grouped, roster) : so \in {built[i - 1]}})
  IN  built[Len(window)].rows

-----------------------------------------------------------------------------
(* What a block and a system row draw, under a presentation setting. *)

\* The clock stands at the rail when it was put there, or when the nickname
\* it belongs beside was.
ClockAtRail(p) == p.clock # "off" /\ (p.clockSide = "before-spine" \/ p.nickAtRail)

CompactSingleton(p, row) ==
  p.compactSingletons /\ Len(row.messages) = 1 /\ ~WritesOwnNick(row.messages[1])

ShowsHead(p, row) ==
  ~(WritesOwnNick(row.messages[1]) \/ p.nickEveryLine \/ CompactSingleton(p, row))

\* The clocks of a block's head: the rail's, and the one beside the name.
HeadClocks(p, row) ==
  (IF ClockAtRail(p) THEN 1 ELSE 0)
    + (IF /\ ShowsHead(p, row) /\ ~p.nickAtRail
          /\ p.clock # "off" /\ p.clockSide \in {"left", "right"}
       THEN 1 ELSE 0)

\* The clock in front of a line that states its own sender.
PrefixClocks(p, row) ==
  IF /\ p.nickEveryLine \/ CompactSingleton(p, row)
     /\ ~WritesOwnNick(row.messages[1])
     /\ p.clock # "off" /\ p.clockSide \in {"left", "right"}
  THEN 1 ELSE 0

Of(row, kinds) == SelectSeq(row.messages, LAMBDA m : m.kind \in kinds)

\* The clocks of a row nobody said: the rail's, or one beside the console
\* output, the loud clause or the digest, whichever comes last.
SystemClocks(p, row) ==
  LET loud     == Of(row, LoudKinds) # <<>>
      presence == Of(row, PresenceKinds) # <<>>
      inline(c) == IF c /\ ~ClockAtRail(p) /\ p.clock # "off" THEN 1 ELSE 0
  IN  (IF ClockAtRail(p) THEN 1 ELSE 0)
        + inline(~loud /\ ~presence) + inline(loud /\ ~presence) + inline(presence)

-----------------------------------------------------------------------------
(* The component. *)

Init ==
  /\ messages = <<>>
  /\ unreadFrom = None
  /\ detachedAt = None
  /\ present = People
  /\ catchUp = FALSE
  /\ focusedGroup = None
  /\ groups = AssignGroups(<<>>, People)
  /\ rows = <<>>
  /\ steps = 0

\* Everything derived is derived again, and a focus on a group that is gone
\* is let go.
Redrawn(focus) ==
  /\ groups' = AssignGroups(messages', present')
  /\ focusedGroup' =
       IF \E id \in DOMAIN groups' : groups'[id] # None /\ groups'[id].id = focus
       THEN focus ELSE None
  /\ rows' =
       IF catchUp'
       THEN BuildRows(CatchUpMessages(messages', unreadFrom', present'), None,
                      detachedAt', groups', present')
       ELSE BuildRows(messages', unreadFrom', detachedAt', groups', present')

Steps(cost) ==
  /\ steps + cost <= MaxSteps
  /\ steps' = steps + cost

Line(line, at) == [line EXCEPT !.id = Len(messages) + 1, !.at = at]

\* A line arrives at the end of the window; the seam is set at the first one
\* that arrives while nobody is looking.
Said(line, gap) ==
  LET at == IF messages = <<>> THEN DAY ELSE messages[Len(messages)].at + gap
  IN  /\ Steps(IF gap = 0 THEN 1 ELSE 2)
      /\ messages' = Append(messages, Line(line, at))
      /\ \E away \in BOOLEAN :
           unreadFrom' = IF away /\ unreadFrom = None
                         THEN Len(messages) + 1 ELSE unreadFrom
      /\ UNCHANGED <<detachedAt, present, catchUp>>
      /\ Redrawn(focusedGroup)

\* A page of history is put in front of the window.
Older(line, gap) ==
  /\ messages # <<>>
  /\ Steps(2)
  /\ messages' = <<Line(line, messages[1].at - gap)>> \o messages
  /\ UNCHANGED <<unreadFrom, detachedAt, present, catchUp>>
  /\ Redrawn(focusedGroup)

\* The reader caught up.
SeamCloses ==
  /\ unreadFrom # None
  /\ Steps(2)
  /\ unreadFrom' = None
  /\ UNCHANGED <<messages, detachedAt, present, catchUp>>
  /\ Redrawn(focusedGroup)

\* A search jump cuts the window after its last line, and coming back to the
\* present closes the cut.
Detaches ==
  /\ messages # <<>>
  /\ Steps(2)
  /\ detachedAt' = IF detachedAt = None THEN messages[Len(messages)].id ELSE None
  /\ UNCHANGED <<messages, unreadFrom, present, catchUp>>
  /\ Redrawn(focusedGroup)

\* Somebody comes or goes.
RosterChanges(who) ==
  /\ Steps(2)
  /\ present' = (present \ {who}) \cup ({who} \ present)
  /\ UNCHANGED <<messages, unreadFrom, detachedAt, catchUp>>
  /\ Redrawn(focusedGroup)

\* The reader asks for what wants them, or for everything again.
CatchesUp ==
  /\ Steps(2)
  /\ catchUp' = ~catchUp
  /\ UNCHANGED <<messages, unreadFrom, detachedAt, present>>
  /\ Redrawn(focusedGroup)

\* A click on the spine of a block, which undoes itself.
Focus(row) ==
  /\ row.kind = "block" /\ row.group # None
  /\ Steps(2)
  /\ UNCHANGED <<messages, unreadFrom, detachedAt, present, catchUp>>
  /\ Redrawn(IF row.group.id = focusedGroup THEN None ELSE row.group.id)

Next ==
  \/ \E line \in Lines, gap \in Gaps : Said(line, gap)
  \/ \E line \in Lines, gap \in Gaps : Older(line, gap)
  \/ SeamCloses
  \/ Detaches
  \/ \E who \in People : RosterChanges(who)
  \/ CatchesUp
  \/ \E k \in DOMAIN rows : Focus(rows[k])

Spec == Init /\ [][Next]_vars

-----------------------------------------------------------------------------
Speech == SelectSeq(messages, IsSpeech)

\* A group inferred from an answer is drawn as one rule: its lines are
\* consecutive in what people said, and it is opened again only below a rule
\* across the pane or a notice (groups.ts 199-228, rows.ts 284-304).
ExchangeIsOneRule ==
  /\ \A i, j \in DOMAIN Speech :
       LET group == groups[Speech[i].id]
       IN  (i < j /\ group # None /\ group = groups[Speech[j].id]
              /\ group.grade = "addressed")
             => \A k \in i .. j : groups[Speech[k].id] = group
  /\ ~catchUp =>
       \A a, b \in DOMAIN rows :
         (/\ a < b /\ rows[a].kind = "block" /\ rows[b].kind = "block"
          /\ rows[b].group # None /\ rows[b].group = rows[a].group
          /\ rows[b].opensGroup /\ rows[b].group.grade = "addressed")
           => \E k \in a + 1 .. b - 1 :
                IsRule(rows[k]) \/ (rows[k].kind = "block" /\ rows[k].messages[1].kind = "notice")

\* A line said at the end changes nothing above what it could be answering:
\* a row that ends before the reach of an answer stays as it was drawn, so
\* the page does not move under a reader who scrolled up.
AppendIsLocal ==
  [][(/\ Len(messages') > Len(messages) /\ ~catchUp
      /\ SubSeq(messages', 1, Len(messages)) = messages) =>
       LET reach  == Len(Speech) - ADDRESS_REACH
           within == {Speech[k].id : k \in (DOMAIN Speech) \cap (reach .. Len(Speech))}
           above  == {k \in DOMAIN rows \ {Len(rows)} :
                        /\ rows[k].kind \in {"block", "system"}
                        /\ \A m \in DOMAIN rows[k].messages : rows[k].messages[m].id \notin within}
       IN  \A k \in above : rows'[k] = rows[k]]_vars

\* Whatever the reader chose, a block with a head and a row nobody said state
\* the time exactly once, and no time when the clock is off.
TimeIsSaidOnce ==
  \A k \in DOMAIN rows, p \in Presentations :
    LET once == IF p.clock = "off" THEN 0 ELSE 1
    IN  /\ rows[k].kind = "system" => SystemClocks(p, rows[k]) = once
        /\ (rows[k].kind = "block" /\ ShowsHead(p, rows[k]))
             => HeadClocks(p, rows[k]) + PrefixClocks(p, rows[k]) = once

\* With the nickname on every line, each line of a run states when it was said
\* and not the run once (AppearanceRail.tsx, "Nickname on every line").
\* The code does not keep it (README, section 7).
EveryLineSaysWhen ==
  \A k \in DOMAIN rows, p \in Presentations :
    (/\ rows[k].kind = "block" /\ ~WritesOwnNick(rows[k].messages[1])
     /\ Len(rows[k].messages) > 1 /\ p.nickEveryLine /\ p.clock # "off")
      => PrefixClocks(p, rows[k]) = 1
=============================================================================
