------------------------------ MODULE Backfill ------------------------------
(***************************************************************************)
(* How one conversation catches up on what was said while the client was   *)
(* not listening (ircx-core: session.rs, message.rs, history.rs).          *)
(*                                                                         *)
(* The server keeps a log of the conversation; a message is its position   *)
(* in that log, and the position is also its timestamp and its msgid.  The *)
(* session asks for history with CHATHISTORY requests, the server answers  *)
(* them in order with batches, and live messages arrive in between.  The   *)
(* maps of the session that are keyed by conversation (archived,           *)
(* gap_fills, first_pages) are modelled by the entry of this conversation. *)
(*                                                                         *)
(* The wire towards the client is FIFO and what is on it when the socket   *)
(* closes is lost, so a line is delivered in the step that sends it and a  *)
(* lost one is a request dropped, or a message spoken, with nobody there.  *)
(***************************************************************************)
EXTENDS Integers, Sequences, FiniteSets, FiniteSetsExt

CONSTANTS
    Page,           \* page_limit(): how many messages one answer may carry
    GapPages,       \* GAP_PAGES: pages one gap may cost
    MaxLog,         \* bound: messages the server ever has
    MaxHeld,        \* bound: messages the archive holds at the start
    MaxInterrupts,  \* bound: disconnects and parts
    Ignoring,       \* whether somebody the reader ignores also speaks
    Refusals        \* the selectors a server may answer with FAIL

ASSUME PageAssumption == Page \in Nat \ {0}
ASSUME GapPagesAssumption == GapPages \in Nat /\ GapPages >= 2
ASSUME BoundsAssumption == MaxLog \in Nat /\ MaxHeld \in Nat /\ MaxInterrupts \in Nat
ASSUME IgnoringAssumption == Ignoring \in BOOLEAN

\* GAP_FORWARD: the share of the budget spent walking forward.
GapForward == GapPages \div 2

VARIABLES
    kind,         \* "channel" (backfilled on join) or "query" (found by TARGETS)
    log,          \* newest position in the server's log
    silenced,     \* positions spoken by somebody the reader ignores
    held,         \* positions the timeline and the archive hold
    archived,     \* the conversation's watermark, 0 for none
    elsewhere,    \* the newest watermark of every other conversation
    away_since,   \* where the record left off when the connection ended
    counted,      \* how often each position was counted as unread
    notes,        \* where a "moved faster than ircx caught up with" row stands
    up,           \* the connection is registered
    joined,       \* the channel is joined
    requests,     \* unlabelled CHATHISTORY requests in flight, in order
    page_backs,   \* readers' labelled asks in flight, by where they start
    gap_fills,    \* the walk through the gap, or NoGap
    first_pages,  \* whether this conversation's first page is still coming
    base,         \* history: the watermark the last gap was asked from
    interrupts    \* history: disconnects and parts so far

vars == <<kind, log, silenced, held, archived, elsewhere, away_since, counted,
          notes, up, joined, requests, page_backs, gap_fills, first_pages,
          base, interrupts>>

-----------------------------------------------------------------------------
(* GapFill: pages fetched so far, and the newest message the forward half  *)
(* fetched once the walk has turned round (0 while it still goes forward). *)

NoGap == [pages |-> 0, frontier |-> -1]
FreshGap == [pages |-> 0, frontier |-> 0]
Filling == gap_fills # NoGap

Requests == [sel : {"AFTER", "BEFORE", "LATEST", "TARGETS"}, from : Nat]
Request(selector, from) == [sel |-> selector, from |-> from]
Latest == Request("LATEST", 0)

\* What the server's log answers: at most Page messages next to the selector.
ServerPage(request) ==
    {i \in 1..log :
        \/ request.sel = "AFTER" /\ request.from < i /\ i <= request.from + Page
        \/ request.sel = "BEFORE" /\ request.from - Page <= i /\ i < request.from
        \/ request.sel = "LATEST" /\ log - Page < i}

\* Whether a live line of this conversation reaches the session.
Listening == up /\ (kind = "query" \/ joined)

TypeOK ==
    /\ kind \in {"channel", "query"}
    /\ log \in Nat
    /\ silenced \subseteq 1..log
    /\ held \subseteq 1..log
    /\ archived \in 0..log /\ elsewhere \in 0..log /\ away_since \in 0..log
    /\ counted \in [1..MaxLog -> Nat] /\ \A i \in 1..MaxLog : counted[i] > 0 => i \in held
    /\ notes \subseteq 1..log
    /\ up \in BOOLEAN /\ joined \in BOOLEAN /\ first_pages \in BOOLEAN
    /\ requests \in Seq(Requests)
    /\ page_backs \subseteq 1..log
    /\ gap_fills \in [pages : Nat, frontier : Int]
    /\ base \in 0..log
    /\ interrupts \in Nat

\* The program starts from its archive: `restore` puts the watermark back.
Init ==
    /\ kind \in {"channel", "query"}
    /\ log \in 0..MaxHeld
    /\ \E oldest \in 1..(log + 1) : held = oldest..log
    /\ archived = IF held = {} THEN 0 ELSE log
    /\ elsewhere \in {0, log}
    /\ away_since = IF archived > elsewhere THEN archived ELSE elsewhere
    /\ silenced = {} /\ counted = [i \in 1..MaxLog |-> 0] /\ notes = {}
    /\ up = FALSE /\ joined = FALSE
    /\ requests = <<>> /\ page_backs = {}
    /\ gap_fills = NoGap /\ first_pages = FALSE
    /\ base = 0 /\ interrupts = 0

-----------------------------------------------------------------------------
(* The server's side, and live traffic.                                    *)

\* count_towards_unread, for each of the messages
Counting(messages) == [i \in 1..MaxLog |-> counted[i] + (IF i \in messages THEN 1 ELSE 0)]

\* Somebody speaks.  A live line is appended, counted and remembered in one
\* go, unless its speaker is ignored: then the session drops it unseen.
Speak(ignored) ==
    LET said == log + 1
        heard == Listening /\ ~ignored
    IN
    /\ log < MaxLog
    /\ log' = said
    /\ silenced' = IF ignored THEN silenced \cup {said} ELSE silenced
    /\ held' = IF heard THEN held \cup {said} ELSE held
    /\ counted' = IF heard THEN Counting({said}) ELSE counted
    /\ archived' = IF heard THEN said ELSE archived
    /\ UNCHANGED <<kind, elsewhere, away_since, notes, up, joined, requests,
                   page_backs, gap_fills, first_pages, base, interrupts>>

\* The server stamps a line of some other conversation, its console included.
SpeakElsewhere ==
    /\ up /\ elsewhere < log
    /\ elsewhere' = log
    /\ UNCHANGED <<kind, log, silenced, held, archived, away_since, counted, notes,
                   up, joined, requests, page_backs, gap_fills, first_pages,
                   base, interrupts>>

-----------------------------------------------------------------------------
(* The connection.                                                         *)

\* on_welcome: a channel is joined again (its JOIN comes back later), and
\* find_missed_queries asks which conversations were spoken in since.
Connect ==
    /\ ~up
    /\ up' = TRUE
    /\ requests' = IF kind = "query" /\ away_since # 0
                   THEN <<Request("TARGETS", away_since)>> ELSE <<>>
    /\ UNCHANGED <<kind, log, silenced, held, archived, elsewhere, away_since,
                   counted, notes, joined, page_backs, gap_fills, first_pages,
                   base, interrupts>>

\* A plausible slip in Disconnect: the flag of a first page is not forgotten.
DisconnectKeepsFirstPages ==
    /\ up /\ interrupts < MaxInterrupts
    /\ up' = FALSE /\ joined' = FALSE
    /\ away_since' = IF archived > elsewhere THEN archived ELSE elsewhere
    /\ requests' = <<>> /\ page_backs' = {}
    /\ interrupts' = interrupts + 1
    /\ UNCHANGED <<kind, log, silenced, held, archived, elsewhere, counted, notes,
                   gap_fills, first_pages, base>>

\* on_disconnected, and the part of reset_connection_state that is about
\* history.  It forgets what was asked and answers every reader, and leaves
\* gap_fills as it is.
Disconnect ==
    /\ up /\ interrupts < MaxInterrupts
    /\ up' = FALSE /\ joined' = FALSE
    /\ away_since' = IF archived > elsewhere THEN archived ELSE elsewhere
    /\ requests' = <<>> /\ page_backs' = {}
    /\ first_pages' = FALSE
    /\ interrupts' = interrupts + 1
    /\ UNCHANGED <<kind, log, silenced, held, archived, elsewhere, counted, notes,
                   gap_fills, base>>

\* The user parts, and may join again on the same connection.
Part ==
    /\ kind = "channel" /\ joined /\ interrupts < MaxInterrupts
    /\ joined' = FALSE
    /\ interrupts' = interrupts + 1
    /\ UNCHANGED <<kind, log, silenced, held, archived, elsewhere, away_since,
                   counted, notes, up, requests, page_backs, gap_fills,
                   first_pages, base>>

-----------------------------------------------------------------------------
(* Asking.                                                                 *)

\* backfill, over the requests still in flight: the gap after the watermark
\* where there is one, the most recent page where there is none.  A timestamp
\* is truncated to milliseconds, which can bring the held message back.
Backfill(inFlight, named) ==
    \/ /\ archived # 0
       /\ \E truncated \in {0, 1} :
              requests' = Append(inFlight, Request("AFTER", archived - truncated))
       /\ gap_fills' = IF Filling THEN gap_fills ELSE FreshGap
       /\ base' = archived
       /\ UNCHANGED first_pages
    \/ /\ archived = 0
       /\ requests' = Append(inFlight, Latest)
       /\ gap_fills' = IF named THEN FreshGap ELSE NoGap
       /\ first_pages' = TRUE
       /\ UNCHANGED base

\* handle_join, for this client's own JOIN.
Join ==
    /\ kind = "channel" /\ up /\ ~joined
    /\ joined' = TRUE
    /\ Backfill(requests, FALSE)
    /\ UNCHANGED <<kind, log, silenced, held, archived, elsewhere, away_since,
                   counted, notes, up, page_backs, interrupts>>

\* The server names this conversation among those spoken in since.
TargetNamed == Head(requests).sel = "TARGETS" /\ log > Head(requests).from
AlreadyCurrent == archived # 0 /\ archived >= log

\* handle_chathistory: a conversation already current is passed over, and one
\* that is not is backfilled, and counts as missed even with nothing held.
AnswerTargets ==
    /\ up /\ requests # <<>> /\ Head(requests).sel = "TARGETS"
    /\ \/ /\ TargetNamed /\ ~AlreadyCurrent
          /\ Backfill(Tail(requests), TRUE)
       \/ /\ ~TargetNamed \/ AlreadyCurrent
          /\ requests' = Tail(requests)
          /\ UNCHANGED <<gap_fills, first_pages, base>>
    /\ UNCHANGED <<kind, log, silenced, held, archived, elsewhere, away_since,
                   counted, notes, up, joined, page_backs, interrupts>>

\* ask_for_page_back: the reader scrolled above the oldest message held.
\* While the first page is still coming the ask is deferred and nothing moves.
PageBack ==
    /\ up /\ held # {} /\ page_backs = {}
    /\ ~first_pages
    /\ page_backs' = {Min(held)}
    /\ UNCHANGED <<kind, log, silenced, held, archived, elsewhere, away_since,
                   counted, notes, up, joined, requests, gap_fills, first_pages,
                   base, interrupts>>

-----------------------------------------------------------------------------
(* Answers.                                                                *)

\* A plausible slip in Newest: the last batch sets the watermark.
NewestOfBatch(messages) == Max({0} \cup messages)

\* remember_newest, over everything a batch brought.
Newest(messages) == Max({archived} \cup messages)

\* A plausible slip in Missed (#379): all that fills a gap is unread.
MissedAll(messages) == messages

\* was_missed: strictly newer than what was held when the batch began.
Missed(messages) == {i \in messages : i > archived}

\* The walk a full page continues, each with the request it sends.
Pages == gap_fills.pages + 1
TurnedRound == gap_fills.frontier > 0
HalvesMet(messages) == TurnedRound /\ Min(messages) <= gap_fills.frontier

Ends(messages) ==
    /\ HalvesMet(messages)
    /\ gap_fills' = NoGap
    /\ requests' = Tail(requests)
    /\ UNCHANGED notes

\* A plausible slip in WalksOn (#239): the walk resumes from the watermark,
\* which a live message has moved, and not from the end of the page.
WalksOnFromWatermark(messages) ==
    /\ ~TurnedRound /\ Pages < GapForward
    /\ gap_fills' = [gap_fills EXCEPT !.pages = Pages]
    /\ requests' = Append(Tail(requests), Request("AFTER", Newest(messages)))
    /\ UNCHANGED notes

WalksOn(messages) ==
    /\ ~TurnedRound /\ Pages < GapForward
    /\ gap_fills' = [gap_fills EXCEPT !.pages = Pages]
    /\ requests' = Append(Tail(requests), Request("AFTER", Max(messages)))
    /\ UNCHANGED notes

TurnsRound(messages) ==
    /\ ~TurnedRound /\ Pages >= GapForward
    /\ gap_fills' = [pages |-> Pages, frontier |-> Max(messages)]
    /\ requests' = Append(Tail(requests), Latest)
    /\ UNCHANGED notes

\* A plausible slip in WalksBack: the budget is off by one.
WalksBackOnceMore(messages) ==
    /\ TurnedRound /\ ~HalvesMet(messages) /\ Pages <= GapPages
    /\ gap_fills' = [gap_fills EXCEPT !.pages = Pages]
    /\ requests' = Append(Tail(requests), Request("BEFORE", Min(messages)))
    /\ UNCHANGED notes

WalksBack(messages) ==
    /\ TurnedRound /\ ~HalvesMet(messages) /\ Pages < GapPages
    /\ gap_fills' = [gap_fills EXCEPT !.pages = Pages]
    /\ requests' = Append(Tail(requests), Request("BEFORE", Min(messages)))
    /\ UNCHANGED notes

GivesUp(messages) ==
    /\ TurnedRound /\ ~HalvesMet(messages) /\ Pages >= GapPages
    /\ gap_fills' = NoGap
    /\ requests' = Tail(requests)
    /\ notes' = notes \cup {Min(messages)}

\* continue_gap
ContinueGap(messages) ==
    \/ Ends(messages) \/ WalksOn(messages) \/ TurnsRound(messages)
    \/ WalksBack(messages) \/ GivesUp(messages)

\* close_batch for an unlabelled history batch.  What an ignored person said
\* never got into the batch, so it neither counts towards a full page nor is
\* one of its ends; a batch with nothing in it leaves the walk as it was.
AnswerHistory ==
    LET messages == ServerPage(Head(requests)) \ silenced
        full == Cardinality(messages) >= Page
    IN
    /\ up /\ requests # <<>> /\ Head(requests).sel # "TARGETS"
    /\ held' = held \cup messages
    /\ archived' = Newest(messages)
    /\ counted' = IF Filling THEN Counting(Missed(messages)) ELSE counted
    /\ first_pages' = FALSE
    /\ \/ /\ Filling /\ full
          /\ ContinueGap(messages)
       \/ /\ Filling /\ ~full /\ messages # {}
          /\ gap_fills' = NoGap
          /\ requests' = Tail(requests)
          /\ UNCHANGED notes
       \/ /\ ~Filling \/ messages = {}
          /\ requests' = Tail(requests)
          /\ UNCHANGED <<gap_fills, notes>>
    /\ UNCHANGED <<kind, log, silenced, elsewhere, away_since, up, joined,
                   page_backs, base, interrupts>>

\* close_batch for a page a reader scrolled back to, told by its label: it is
\* neither missed nor part of the walk.
AnswerPageBack(from) ==
    LET messages == ServerPage(Request("BEFORE", from)) \ silenced IN
    /\ up /\ from \in page_backs
    /\ page_backs' = page_backs \ {from}
    /\ held' = held \cup messages
    /\ archived' = Newest(messages)
    /\ first_pages' = FALSE
    /\ UNCHANGED <<kind, log, silenced, elsewhere, away_since, counted, notes, up,
                   joined, requests, gap_fills, base, interrupts>>

\* handle_standard_reply: FAIL to an unlabelled request is a line to read and
\* nothing else.
RefuseHistory ==
    /\ up /\ requests # <<>> /\ Head(requests).sel \in Refusals
    /\ requests' = Tail(requests)
    /\ UNCHANGED <<kind, log, silenced, held, archived, elsewhere, away_since,
                   counted, notes, up, joined, page_backs, gap_fills, first_pages,
                   base, interrupts>>

\* handle_standard_reply: FAIL to a labelled one answers its reader.
RefusePageBack(from) ==
    /\ "BEFORE" \in Refusals /\ up /\ from \in page_backs
    /\ page_backs' = page_backs \ {from}
    /\ UNCHANGED <<kind, log, silenced, held, archived, elsewhere, away_since,
                   counted, notes, up, joined, requests, gap_fills, first_pages,
                   base, interrupts>>

-----------------------------------------------------------------------------

Next ==
    \/ Speak(FALSE)
    \/ Ignoring /\ Speak(TRUE)
    \/ SpeakElsewhere
    \/ Connect
    \/ Disconnect
    \/ Part
    \/ Join
    \/ AnswerTargets
    \/ PageBack
    \/ AnswerHistory
    \/ \E from \in page_backs : AnswerPageBack(from) \/ RefusePageBack(from)
    \/ RefuseHistory

Spec == Init /\ [][Next]_vars

(* One channel, one outage: the program starts from its archive, connects  *)
(* once, is never cut off, ignores nobody, and is refused nothing.         *)
OneOutageInit == Init /\ kind = "channel"
OneOutageNext ==
    \/ Speak(FALSE)
    \/ SpeakElsewhere
    \/ Connect
    \/ Join
    \/ PageBack
    \/ AnswerHistory
    \/ \E from \in page_backs : AnswerPageBack(from)
OneOutageSpec == OneOutageInit /\ [][OneOutageNext]_vars

-----------------------------------------------------------------------------
(* Properties.                                                             *)

\* The watermark is the newest message held: a page that goes back through
\* history never moves it back, and no message held is newer than where the
\* next gap is asked from (message.rs, remember_newest).
WatermarkIsNewest == archived = Max({0} \cup held)

\* A gap never costs more than its budget of pages, whatever interrupts it:
\* a walk that goes on has spent fewer than GapPages (continue_gap).
BudgetKept == Filling => gap_fills.pages < GapPages

\* A reader's ask is deferred only while a first page can still come: the flag
\* that declines it never outlives the request.  Excepted is a server that
\* refuses to give the latest page: its FAIL has no label, nothing puts the flag
\* down, and Refusals has no LATEST in the run (session.rs, first_pages; README,
\* section 7).
FirstPageAnswered == first_pages => \E i \in DOMAIN requests : requests[i] = Latest

\* A message is counted as unread when it first comes and never again: not when
\* the server sends it once more, and not where the reader had it from the
\* archive (message.rs, was_missed; #379).
NoMessageCountedTwice ==
    [][\A i \in 1..MaxLog : counted'[i] # counted[i] =>
           counted[i] = 0 /\ counted'[i] = 1 /\ i \notin held]_vars

\* Once nothing more is coming, everything said since the watermark the gap
\* was asked from is held, or a row further down says that some is missing.
GapClosedOrNoted ==
    (base > 0 /\ joined /\ requests = <<>>) =>
        \A i \in (base + 1)..log : i \in held \/ \E row \in notes : i < row

-----------------------------------------------------------------------------
(* What comments of the code say of the walk, each refuted by a run.        *)

Answered == ServerPage(Head(requests)) \ silenced

\* "Short of the limit is the end of the gap" (close_batch), for a walk that
\* still goes forward; what an ignored person said is not expected.
\* The code does not keep it (README, section 7).
ShortPageEndsTheGap ==
    [][(/\ AnswerHistory /\ Filling /\ base > 0 /\ ~TurnedRound
        /\ Cardinality(Answered) \in 1..(Page - 1))
       => \A i \in (base + 1)..log : i \in held' \cup silenced]_vars

\* "What fills a gap is the opposite - it is what they were not here for, which
\* is what unread means" (close_batch; #223).
\* The code does not keep it (README, section 7).
MissedIsUnread ==
    base > 0 => \A i \in held : i > base => counted[i] > 0

=============================================================================
