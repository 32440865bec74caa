------------------------------- MODULE ReadMarkers -------------------------------
(***************************************************************************)
(* What is unread in the session: the counts of each conversation, the     *)
(* stamps behind them, and the read marker the network keeps for the       *)
(* reader's clients (ircx-core session.rs, message.rs, read_marker.rs).    *)
(* Another client of the reader reads too, notification rules raise what   *)
(* they were asked about, and the connection comes and goes.               *)
(*                                                                         *)
(* A message is its stamp, which no other shares, so what came in and the  *)
(* list of what is unread are sets of stamps. A gap fits one page          *)
(* (Backfill has the pages), and what a live line that crossed a gap's     *)
(* page leaves uncounted is Backfill's MissedIsUnread.                     *)
(***************************************************************************)
EXTENDS Naturals, Sequences, FiniteSets, FiniteSetsExt, SequencesExt

CONSTANTS
    Channels, Queries,
    Muted,          \* conversations whose badge does not go loud
    MaxMessages, MaxDrops, MaxReads, MaxCloses,
    None

Conversations == Channels \cup Queries
ReadMarkersAssumption ==
    /\ Channels \cap Queries = {} /\ Muted \subseteq Conversations /\ IsFiniteSet(Conversations)
    /\ {MaxMessages, MaxDrops, MaxReads, MaxCloses} \subseteq Nat

VARIABLES
    said,           \* the server's record: who each message was said to, and whether it names the reader
    marked,         \* the marker it keeps for each conversation, 0 before any
    member,         \* channels it has the reader in
    up, lines, sent,
    open, joined,   \* conversations the session has, and channels it is in
    unread, highlights, unread_at, read_markers, archived, gap_fills,
    asked,          \* messages a rule was asked about and has not answered for
    owed, raises,   \* what came in unread since it was last read here, and what was raised of it
    drops, reads, closes

counts == <<unread, highlights, unread_at, read_markers, owed, raises>>
client == <<counts, open, joined, archived, gap_fills, asked>>
bounds == <<drops, reads, closes>>
network == <<said, marked, member>>
vars == <<network, up, lines, sent, client, bounds>>

Of(c) == {m \in DOMAIN said : said[m].to = c}
Newest(c) == IF Of(c) = {} THEN 0 ELSE Max(Of(c))
Past(f, c) == {m \in f : m > read_markers[c]}
Loud(ms, c) == {m \in ms : said[m].loud /\ c \in Channels \ Muted}
Get(c) == [what |-> "GET", to |-> c]
Set(c, at) == [what |-> "MARKREAD", to |-> c, at |-> at]
Join(c) == [what |-> "JOIN", to |-> c]
\* An unknown marker is "*", which is no time.
Hears(line) == IF up THEN lines' = Append(lines, line) ELSE UNCHANGED lines

-----------------------------------------------------------------------------
(* The network. *)

Says(c, loud) ==
    /\ Len(said) < MaxMessages
    /\ said' = Append(said, [to |-> c, loud |-> loud])
    /\ IF c \in Queries \cup member THEN Hears([what |-> "PRIVMSG", to |-> c, at |-> Len(said) + 1])
       ELSE UNCHANGED lines
    /\ UNCHANGED <<marked, member, up, sent, client, bounds>>
OtherReads(c, m) ==
    /\ reads < MaxReads /\ reads' = reads + 1
    /\ m \in Of(c) /\ m > marked[c] /\ marked' = [marked EXCEPT ![c] = m]
    /\ Hears(Set(c, m))
    /\ UNCHANGED <<said, member, up, sent, client, drops, closes>>
\* A marker only moves on, and every client is told where it is.
Answer(line) ==
    CASE line.what = "MARKREAD" ->
           LET at == Max({line.at, marked[line.to]})
           IN  /\ marked' = [marked EXCEPT ![line.to] = at] /\ lines' = Append(lines, Set(line.to, at))
               /\ UNCHANGED member
      [] line.what = "GET" ->
           lines' = Append(lines, Set(line.to, marked[line.to])) /\ UNCHANGED <<marked, member>>
      [] line.what = "JOIN" ->
           /\ lines' = lines \o <<line, Set(line.to, marked[line.to])>>
           /\ member' = member \cup {line.to} /\ UNCHANGED marked
      [] line.what = "PART" -> member' = member \ {line.to} /\ UNCHANGED <<lines, marked>>
      [] line.what = "TARGETS" ->
           /\ \E spoken \in SetToSeqs({c \in Queries : Newest(c) > line.since}) :
                lines' = lines \o [k \in DOMAIN spoken |-> [what |-> "TARGETS", to |-> spoken[k], at |-> Newest(spoken[k])]]
           /\ UNCHANGED <<marked, member>>
      \* From the newest that is held, which may come again.
      [] line.what = "CHATHISTORY" ->
           /\ \E again \in BOOLEAN :
                lines' = Append(lines, [what |-> "BATCH", to |-> line.to,
                    messages |-> {m \in Of(line.to) : m > line.since \/ (again /\ m = line.since)}])
           /\ UNCHANGED <<marked, member>>
ServerReads ==
    /\ up /\ sent # <<>> /\ sent' = Tail(sent) /\ Answer(Head(sent))
    /\ UNCHANGED <<said, up, client, bounds>>

-----------------------------------------------------------------------------
(* The session takes a line. *)

backfill(c) == [what |-> "CHATHISTORY", to |-> c, since |-> archived[c]]

\* What new messages add to the counts: each is counted where the marker has not
\* passed it.
count_towards_unread(c, messages) ==
    LET new == Past(messages, c)
    IN  IF c \notin open THEN UNCHANGED counts
        ELSE /\ unread' = [unread EXCEPT ![c] = @ + Cardinality(new)]
             /\ highlights' = [highlights EXCEPT ![c] = @ + Cardinality(Loud(new, c))]
             /\ unread_at' = [unread_at EXCEPT ![c] = @ \cup new]
             /\ owed' = [owed EXCEPT ![c] = @ \cup messages]
             /\ UNCHANGED <<read_markers, raises>>
remember_newest(c, messages) == archived' = [archived EXCEPT ![c] = Max(messages \cup {@})]

\* The first line of a query opens it, and its marker is asked for.
append(line) ==
    LET c == line.to
        first == c \in Queries \ open
    IN  /\ open' = IF first THEN open \cup {c} ELSE open
        /\ sent' = IF first THEN Append(sent, Get(c)) ELSE sent
        /\ IF first
           THEN /\ unread' = [unread EXCEPT ![c] = 1] /\ highlights' = highlights
                /\ unread_at' = [unread_at EXCEPT ![c] = {line.at}]
                /\ owed' = [owed EXCEPT ![c] = {line.at}] /\ raises' = [raises EXCEPT ![c] = 0]
                /\ UNCHANGED read_markers
           ELSE count_towards_unread(c, {line.at})
        /\ remember_newest(c, {line.at})
        /\ asked' = IF said[line.at].loud \/ line.at <= read_markers[c] THEN asked ELSE asked \cup {line.at}
        /\ UNCHANGED <<joined, gap_fills>>

\* What fills a gap was missed, less what was held; a first page was not.
close_batch(line) ==
    LET c == line.to
        missed == {m \in line.messages : m > archived[c]}
    IN  /\ count_towards_unread(c, IF c \in gap_fills THEN missed ELSE {})
        /\ remember_newest(c, line.messages)
        /\ gap_fills' = IF line.messages = {} THEN gap_fills ELSE gap_fills \ {c}
        /\ UNCHANGED <<open, joined, asked, sent>>

Emptied(f, c, none) == [f EXCEPT ![c] = none]
\* A plausible slip: what the marker passed is left in the list.
handle_markreadKeeps(line) ==
    LET c == line.to
        removed == Cardinality({m \in unread_at[c] : m <= line.at})
        reaches_newest == archived[c] # 0 /\ line.at >= archived[c]
        now == IF reaches_newest \/ removed > unread[c] THEN 0 ELSE unread[c] - removed
    IN  IF c \notin open \/ line.at <= read_markers[c] THEN UNCHANGED client
        ELSE /\ read_markers' = [read_markers EXCEPT ![c] = line.at]
             /\ unread' = [unread EXCEPT ![c] = now]
             /\ highlights' = IF now = 0 THEN Emptied(highlights, c, 0) ELSE highlights
             /\ unread_at' = IF reaches_newest THEN Emptied(unread_at, c, {}) ELSE unread_at
             /\ raises' = IF now = 0 THEN Emptied(raises, c, 0) ELSE raises
             /\ UNCHANGED <<owed, open, joined, archived, gap_fills, asked>>
handle_markread(line) ==
    LET c == line.to
        reaches_newest == archived[c] # 0 /\ line.at >= archived[c]
        removed == {m \in unread_at[c] : m <= line.at}
        less(n, by) == IF reaches_newest \/ by > n THEN 0 ELSE n - by
        now == less(unread[c], Cardinality(removed))
    IN  IF c \notin open \/ line.at <= read_markers[c] THEN UNCHANGED client
        ELSE /\ read_markers' = [read_markers EXCEPT ![c] = line.at]
             /\ unread' = [unread EXCEPT ![c] = now]
             /\ highlights' = [highlights EXCEPT ![c] = IF now = 0 THEN 0 ELSE less(@, Cardinality(Loud(removed, c)))]
             /\ unread_at' = [unread_at EXCEPT ![c] = IF reaches_newest THEN {} ELSE @ \ removed]
             /\ raises' = IF now = 0 THEN Emptied(raises, c, 0) ELSE raises
             /\ UNCHANGED <<owed, open, joined, archived, gap_fills, asked>>

handle_join(c) ==
    /\ open' = open \cup {c} /\ joined' = joined \cup {c} /\ sent' = Append(sent, backfill(c))
    /\ gap_fills' = IF archived[c] # 0 THEN gap_fills \cup {c} ELSE gap_fills \ {c}
    /\ UNCHANGED <<counts, archived, asked>>
\* A query somebody spoke in meanwhile is opened and filled, missed from its start.
handle_chathistory(c, spoken_at) ==
    IF archived[c] >= spoken_at THEN UNCHANGED <<client, sent>>
    ELSE /\ open' = open \cup {c} /\ gap_fills' = gap_fills \cup {c}
         /\ sent' = sent \o (IF c \in open THEN <<>> ELSE <<Get(c)>>) \o <<backfill(c)>>
         /\ UNCHANGED <<counts, joined, archived, asked>>

Hear ==
    /\ up /\ lines # <<>> /\ lines' = Tail(lines)
    /\ LET line == Head(lines)
       IN  CASE line.what = "PRIVMSG" -> append(line)
             [] line.what = "BATCH" -> close_batch(line)
             [] line.what = "MARKREAD" -> handle_markread(line) /\ UNCHANGED sent
             [] line.what = "JOIN" -> handle_join(line.to)
             [] line.what = "TARGETS" -> handle_chathistory(line.to, line.at)
    /\ UNCHANGED <<network, up, bounds>>

-----------------------------------------------------------------------------
(* The reader and the rules. *)

mark_read(c) ==
    /\ c \in open
    /\ unread' = [unread EXCEPT ![c] = 0] /\ highlights' = [highlights EXCEPT ![c] = 0]
    /\ unread_at' = Emptied(unread_at, c, {})
    /\ owed' = Emptied(owed, c, {}) /\ raises' = Emptied(raises, c, 0)
    /\ IF up /\ archived[c] # 0 /\ read_markers[c] < archived[c]
       THEN /\ read_markers' = [read_markers EXCEPT ![c] = archived[c]]
            /\ sent' = Append(sent, Set(c, archived[c]))
       ELSE UNCHANGED <<read_markers, sent>>
    /\ UNCHANGED <<network, up, lines, open, joined, archived, gap_fills, asked, bounds>>
raise(m) ==
    LET c == said[m].to
    IN  /\ m \in asked /\ asked' = asked \ {m}
        /\ IF c \in (Channels \cap open) \ Muted
           THEN highlights' = [highlights EXCEPT ![c] = @ + 1] /\ raises' = [raises EXCEPT ![c] = @ + 1]
           ELSE UNCHANGED <<highlights, raises>>
        /\ UNCHANGED <<network, up, lines, sent, unread, unread_at, read_markers, owed, open, joined, archived,
                       gap_fills, bounds>>
\* What it held is forgotten, but where its record left off is not.
cmd_close(c) ==
    /\ c \in open /\ closes < MaxCloses /\ closes' = closes + 1
    /\ open' = open \ {c}
    /\ read_markers' = Emptied(read_markers, c, 0) /\ unread_at' = Emptied(unread_at, c, {})
    /\ unread' = Emptied(unread, c, 0) /\ highlights' = Emptied(highlights, c, 0)
    /\ owed' = Emptied(owed, c, {}) /\ raises' = Emptied(raises, c, 0)
    /\ joined' = joined \ {c}
    /\ sent' = IF c \in joined THEN Append(sent, [what |-> "PART", to |-> c]) ELSE sent
    /\ UNCHANGED <<network, up, lines, archived, gap_fills, asked, drops, reads>>
\* Opened by hand: a channel by joining it.
open_target(c) ==
    /\ c \notin open /\ up
    /\ IF c \in Channels
       THEN sent' = Append(sent, Join(c)) /\ UNCHANGED open
       ELSE sent' = Append(sent, Get(c)) /\ open' = open \cup {c}
    \* The reader waits for the answer.
    /\ \A k \in DOMAIN sent : sent[k] # Join(c)
    /\ \A k \in DOMAIN lines : lines[k] # Join(c)
    /\ UNCHANGED <<network, up, lines, counts, joined, archived, gap_fills, asked, bounds>>

-----------------------------------------------------------------------------
(* The connection. *)

\* The counts and the markers outlive it.
Drop ==
    /\ up /\ drops < MaxDrops /\ drops' = drops + 1
    /\ up' = FALSE /\ lines' = <<>> /\ sent' = <<>> /\ member' = {} /\ joined' = {}
    /\ UNCHANGED <<said, marked, counts, open, archived, gap_fills, asked, reads, closes>>
\* The channels are joined again, the markers of the queries asked for, and where
\* anything is held, which queries were spoken in since.
Connect ==
    /\ ~up /\ up' = TRUE
    /\ \E joins \in SetToSeqs(Channels \cap open), asks \in SetToSeqs(Queries \cap open) :
         LET since == Max({0} \cup {archived[c] : c \in Conversations})
         IN  sent' = [k \in DOMAIN joins |-> Join(joins[k])] \o [k \in DOMAIN asks |-> Get(asks[k])]
                     \o (IF since = 0 THEN <<>> ELSE <<[what |-> "TARGETS", since |-> since]>>)
    /\ UNCHANGED <<network, lines, client, bounds>>

-----------------------------------------------------------------------------
Each(x) == [c \in Conversations |-> x]
Init ==
    /\ said = <<>> /\ marked = Each(0) /\ up = TRUE /\ lines = <<>> /\ sent = <<>>
    /\ member = Channels /\ open = Channels /\ joined = Channels
    /\ unread = Each(0) /\ highlights = Each(0) /\ unread_at = Each({}) /\ read_markers = Each(0)
    /\ archived = Each(0) /\ gap_fills = {} /\ asked = {} /\ owed = Each({}) /\ raises = Each(0)
    /\ drops = 0 /\ reads = 0 /\ closes = 0
Next ==
    \/ Hear \/ ServerReads \/ Drop \/ Connect
    \/ \E c \in Conversations : \/ mark_read(c) \/ cmd_close(c) \/ open_target(c)
                                \/ \E loud \in BOOLEAN : Says(c, loud)
                                \/ \E m \in Of(c) : OtherReads(c, m) \/ raise(m)
Spec == Init /\ [][Next]_vars

-----------------------------------------------------------------------------
\* The badge of a conversation is what came in and neither client has read, and
\* it is loud for what of it names the reader and for what was raised since,
\* however markers, pages, lines and the reader cross (message.rs,
\* count_towards_unread; session.rs, handle_markread, mark_read).
BadgeIsUnread ==
    \A c \in open :
        LET left == Past(owed[c], c)
        IN  /\ unread[c] = Cardinality(left)
            /\ highlights[c] <= Cardinality(Loud(left, c)) + raises[c]
            /\ raises[c] = 0 => highlights[c] = Cardinality(Loud(left, c))

\* When nothing is on its way the session has the network's marker, or a later one,
\* in every conversation it has: what another client read is read here. Where no
\* connection was lost it has that very one: what was read here is read there.
MarkerIsFollowed ==
    up /\ lines = <<>> /\ sent = <<>> =>
        \A c \in open : /\ read_markers[c] >= marked[c]
                        /\ drops = 0 => read_markers[c] = marked[c]

\* A marker never goes back while its conversation is open.
MarkersGoOn == [][\A c \in open \cap open' : read_markers'[c] >= read_markers[c]]_vars

\* A rule's raise makes the channel "as loud as it would for their own nick"
\* (session.rs, raise), which is loud while there is something to read.
\* The code does not keep it (README, section 7).
LoudIsUnread == \A c \in open : highlights[c] > 0 => unread[c] > 0
=============================================================================
