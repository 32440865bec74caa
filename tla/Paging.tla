-------------------------------- MODULE Paging --------------------------------
(***************************************************************************)
(* A pane and its conversation: lines arriving, pages read back from the   *)
(* archive and asked of the server, a jump to a search hit, the way back   *)
(* to the latest.  src/src/components/timeline/Timeline.tsx over the store *)
(* of Timelines; the session's side of a page-back is src/src/lib/ipc.ts.  *)
(***************************************************************************)
EXTENDS Timelines

CONSTANTS
    Loads,      \* the calls of loadOlder that may be in flight together
    PAGE_SIZE,
    Reach,      \* how far a jump's window reaches about its hit
    MinArchived,    \* what the archive holds of the conversation to begin with
    MaxEvents,      \* how much the pump may be holding
    MaxDrops, MaxClears, MaxJumps

ASSUME PagingAssumption ==
    /\ IsFiniteSet(Ids) /\ Ids = 1..Cardinality(Ids) /\ PAGE_SIZE \in Nat \ {0} /\ Reach \in Nat
    /\ PAGE_SIZE < TIMELINE_CAP /\ 2 * Reach < TIMELINE_CAP
    /\ MinArchived \in {0, 1} /\ {MaxEvents, MaxDrops, MaxClears, MaxJumps} \subseteq Nat

VARIABLES
    said,       \* the newest message on the server, which holds all before it
    archive,    \* [from, to]: what the archive holds of them
    events,     \* what the pump has yet to hand the store: batches, or a drop
    timeline,
    load,       \* each loadOlder: where its two awaits have got to
    asks,       \* page-backs the server owes an answer
    latest,     \* jumpLatest's read of the tail: none, out, or what it read
    tailFailed, \* the error at the head of the pane is that of such a read
    wanted,     \* latestJump
    following,  \* the pane is held at its newest row
    jump,       \* a hit's window, read and not yet filed
    clears, jumps,
    crossed,    \* the window was filed over one a page, or the tail, was being read for
    mistaken,   \* it was filed over one that stops short, or was crossed, and taken for the latest
    cut,        \* and of a page filed behind it the cap took out what goes between its rows
    online, drops,
    late,       \* a deadline has passed
    served,     \* the oldest message the server has sent
    madeUp      \* an ask was answered for a connection lost under it, or gone when it was made

wire == <<said, archive, events, asks>>
jumping == <<latest, wanted, following, jump, clears, jumps>>
pane == <<jumping, tailFailed>>
link == <<online, drops, madeUp, late, served>>
crossings == <<crossed, mistaken, cut>>
vars == <<wire, timeline, load, pane, crossings, link>>

Oldest(messages) == IF messages = <<>> THEN None ELSE Head(messages)
Idle == [at |-> "idle", older |-> <<>>, oldest |-> None, outcome |-> None]
InFlight == {r \in Loads : load[r].at # "idle"}
\* A page is being read, has been asked for, or is waiting to be filed.
Reading ==
    \/ InFlight # {} \/ asks # {}
    \/ \E i \in DOMAIN events : events[i] # None /\ events[i].answers # None
Unanswered(call) == call.at = "server" /\ call.outcome = None
Between(from, to) == [i \in 1..(to - from + 1) |-> from + i - 1]
Greater(a, b) == IF a > b THEN a ELSE b
Lesser(a, b) == IF a < b THEN a ELSE b

TypeOK ==
    /\ said \in Ids /\ archive.from \in 1..(said + 1) /\ archive.to \in 0..said
    /\ timeline.messages \in Seq(Ids) /\ Len(timeline.messages) <= TIMELINE_CAP
    /\ timeline.hasMore \in BOOLEAN /\ timeline.loadingOlder \in BOOLEAN
    /\ timeline.askedBehind \in Ids \cup {None} /\ timeline.detachedAt \in Ids \cup {None}
    /\ \A r \in Loads : /\ load[r].at \in {"idle", "archive", "server"}
                        /\ load[r].outcome \in {None, "more", "end", "waiting"}
    /\ asks \subseteq [behind : Ids, load : Loads]
    /\ {tailFailed, wanted, following, crossed, mistaken, cut, online, late} \subseteq BOOLEAN
    /\ madeUp \in {None, "lost", "gone"}

-----------------------------------------------------------------------------
(* The conversation.                                                       *)

Say ==
    /\ online /\ Len(events) < MaxEvents /\ said + 1 \in Ids /\ said' = said + 1
    /\ events' = Append(events, Batch(<<said'>>, {said'}, None))
    /\ UNCHANGED <<archive, asks, timeline, load, pane, crossings, link>>

\* The archive writer is behind the events by as much as it likes.
Archive ==
    /\ \/ /\ archive.to < said
          /\ archive' = [archive EXCEPT !.to = @ + 1, !.from = Lesser(@, archive.to + 1)]
       \/ /\ served < archive.from
          /\ archive' = [archive EXCEPT !.from = served]
    /\ UNCHANGED <<said, events, asks, timeline, load, pane, crossings, link>>

Deliver ==
    /\ events # <<>> /\ events' = Tail(events)
    /\ timeline' = IF Head(events) = None THEN forgetPageBacks(timeline)
                   ELSE Appended(timeline, Head(events), TRUE)
    /\ UNCHANGED <<said, archive, asks, load, pane, crossings, link>>

\* The server's answer: a page, by way of the pump, and what it says of the next.
ServerAnswers(ask) ==
    LET page == Between(Greater(1, ask.behind - PAGE_SIZE), ask.behind - 1)
        outcome == IF Len(page) = PAGE_SIZE THEN "more" ELSE "end"
    IN  /\ Len(events) < MaxEvents /\ asks' = asks \ {ask}
        /\ events' = IF page = <<>> THEN events ELSE Append(events, Batch(page, {}, ask.behind))
        /\ served' = IF page = <<>> THEN served ELSE Lesser(served, Head(page))
        /\ load' = [load EXCEPT ![ask.load].outcome =
                      IF Unanswered(load[ask.load]) /\ load[ask.load].oldest = ask.behind
                      THEN outcome ELSE @]
        /\ UNCHANGED <<said, archive, timeline, pane, crossings, online, drops, madeUp, late>>

Ended == [r \in Loads |-> IF Unanswered(load[r]) THEN [load[r] EXCEPT !.outcome = "end"]
                          ELSE load[r]]

\* The session abandons its page-backs with the connection, and tells whoever is
\* still waiting for one that there is no more; the store hears of it behind the
\* pages that had already come.
Disconnect ==
    /\ online /\ Len(events) < MaxEvents /\ drops < MaxDrops /\ drops' = drops + 1
    /\ online' = FALSE /\ events' = Append(events, None)
    /\ load' = Ended /\ asks' = {}
    /\ madeUp' = IF load' # load /\ madeUp = None THEN "lost" ELSE madeUp
    /\ UNCHANGED <<said, archive, timeline, pane, crossings, late, served>>

Reconnect ==
    /\ ~online /\ events = <<>> /\ online' = TRUE
    /\ UNCHANGED <<said, archive, events, asks, timeline, load, pane, crossings, drops, madeUp, late,
                   served>>

-----------------------------------------------------------------------------
(* loadOlder.                                                              *)

\* A plausible slip in WantsOlder: what is already asked of the server is not read.
WantsOlderAgain == timeline.hasMore /\ ~timeline.loadingOlder

WantsOlder ==
    /\ timeline.hasMore /\ ~timeline.loadingOlder
    /\ timeline.messages # <<>> => Head(timeline.messages) # timeline.askedBehind

LoadOlder(r) ==
    /\ WantsOlder /\ load[r] = Idle
    /\ timeline' = [timeline EXCEPT !.loadingOlder = TRUE]
    /\ load' = [load EXCEPT ![r] =
         [Idle EXCEPT !.at = "archive", !.oldest = Oldest(timeline.messages)]]
    /\ UNCHANGED <<wire, pane, crossings, link>>

\* load_history: the newest page behind the message asked from, or of them all.
ArchivePage(before) ==
    LET to == IF before = None THEN archive.to ELSE Lesser(archive.to, before - 1)
    IN  Between(Greater(archive.from, to - PAGE_SIZE + 1), to)

olderOf(a, b) == IF a = None THEN b ELSE IF b = None \/ At[a] <= At[b] THEN a ELSE b

Finish(r, older, more, asked) ==
    /\ timeline' = [prependHistory(timeline, older, more) EXCEPT !.askedBehind = asked]
    /\ cut' = (cut \/ \E m \in ToSet(older) \ ToSet(timeline'.messages), h \in ToSet(timeline.messages) :
                        h < m)
    /\ load' = [load EXCEPT ![r] = Idle]

\* A full page leaves more on disk; a short one is asked of the server, behind the
\* oldest of the page and of the window as it now stands.
ArchiveAnswers(r) ==
    LET older == ArchivePage(load[r].oldest)
        oldest == olderOf(Oldest(older), Oldest(timeline.messages))
        asking == [at |-> "server", older |-> older, oldest |-> oldest, outcome |-> None]
    IN  /\ load[r].at = "archive"
        /\ \/ /\ Len(older) = PAGE_SIZE
              /\ Finish(r, older, TRUE, timeline.askedBehind)
              /\ UNCHANGED <<asks, madeUp>>
           \/ /\ Len(older) < PAGE_SIZE /\ oldest = None
              /\ Finish(r, older, FALSE, None)
              /\ UNCHANGED <<asks, madeUp>>
           \/ /\ Len(older) < PAGE_SIZE /\ oldest # None
              /\ timeline' = [timeline EXCEPT !.askedBehind = oldest]
              /\ UNCHANGED cut
              /\ \/ /\ online /\ asks' = asks \cup {[behind |-> oldest, load |-> r]}
                    /\ load' = [load EXCEPT ![r] = asking] /\ UNCHANGED madeUp
                 \/ /\ ~online /\ madeUp' = "gone"
                    /\ load' = [load EXCEPT ![r] = [asking EXCEPT !.outcome = "end"]]
                    /\ UNCHANGED asks
        /\ tailFailed' = FALSE
        /\ UNCHANGED <<said, archive, events, jumping, crossed, mistaken, online, drops, late, served>>

\* The session does not take the ask: the page is lost, and its guard stands.
AskFails(r) ==
    LET older == ArchivePage(load[r].oldest)
        oldest == olderOf(Oldest(older), Oldest(timeline.messages))
    IN  /\ load[r].at = "archive" /\ Len(older) < PAGE_SIZE /\ oldest # None
        /\ timeline' = [timeline EXCEPT !.askedBehind = oldest, !.loadingOlder = FALSE]
        /\ load' = [load EXCEPT ![r] = Idle] /\ tailFailed' = FALSE
        /\ UNCHANGED <<wire, jumping, crossings, link>>

\* A plausible slip in ArchiveFails: a failed read leaves the pane loading.
ArchiveFailsLoading(r) ==
    /\ load[r].at = "archive"
    /\ load' = [load EXCEPT ![r] = Idle] /\ tailFailed' = FALSE
    /\ UNCHANGED <<wire, timeline, jumping, crossings, link>>

ArchiveFails(r) ==
    /\ load[r].at = "archive"
    /\ load' = [load EXCEPT ![r] = Idle] /\ tailFailed' = FALSE
    /\ timeline' = [timeline EXCEPT !.loadingOlder = FALSE]
    /\ UNCHANGED <<wire, jumping, crossings, link>>

\* The deadline passes.  The ask is still out, and may still be answered.
Deadline(r) ==
    /\ Unanswered(load[r]) /\ late' = TRUE
    /\ load' = [load EXCEPT ![r].outcome = "waiting"]
    /\ UNCHANGED <<wire, timeline, pane, crossings, online, drops, madeUp, served>>

\* A plausible slip in OutcomeArrives: a server that has not answered has ended it.
OutcomeArrivesEnded(r) ==
    /\ load[r].at = "server" /\ load[r].outcome # None
    /\ Finish(r, load[r].older, load[r].outcome = "more",
              IF load[r].outcome = "more" THEN timeline.askedBehind ELSE None)
    /\ UNCHANGED <<wire, pane, crossed, mistaken, link>>

OutcomeArrives(r) ==
    LET call == load[r]
        answered == timeline.askedBehind # call.oldest
        stillOldest == Oldest(timeline.messages) \in {None, call.oldest}
    IN  /\ call.at = "server" /\ call.outcome # None
        /\ \/ /\ call.outcome = "more"
              /\ Finish(r, call.older, ~(answered /\ stillOldest), timeline.askedBehind)
           \/ /\ call.outcome # "more"
              /\ Finish(r, call.older, call.outcome # "end", None)
        /\ UNCHANGED <<wire, pane, crossed, mistaken, link>>

-----------------------------------------------------------------------------
(* Jumps.                                                                  *)

\* A gesture comes later than the archive writer's commit.
WrittenDown == archive.to = said

Replace(messages, reading) ==
    /\ timeline' = replaceHistory(timeline, messages)
    /\ crossed' = reading /\ cut' = FALSE
TailInHand == latest # None /\ latest.tail # None
\* What was held stops short itself, and ends no later.
StopsShort ==
    timeline.detachedAt # None /\ Last(timeline.messages) = timeline.detachedAt

\* SearchOverlay, or a notification that was clicked: read about the hit, then file.
ReadHit(hit) ==
    /\ jump = None /\ jumps < MaxJumps /\ jumps' = jumps + 1
    /\ hit \in archive.from..archive.to /\ WrittenDown
    /\ jump' = Between(Greater(archive.from, hit - Reach), Lesser(archive.to, hit + Reach))
    /\ UNCHANGED <<wire, timeline, load, latest, tailFailed, wanted, following, clears, crossings, link>>

FileHit ==
    /\ jump # None /\ jump' = None
    /\ Replace(jump, Reading \/ TailInHand) /\ following' = FALSE
    /\ mistaken' = ((crossed \/ mistaken \/ StopsShort) /\ timeline'.detachedAt = None)
    /\ UNCHANGED <<wire, load, latest, tailFailed, wanted, clears, jumps, link>>

\* jumpLatest: a detached window has its tail read back before it is scrolled to.
AskLatest ==
    /\ timeline.messages # <<>> /\ latest = None
    /\ \/ /\ timeline.detachedAt = None
          /\ following' = TRUE /\ UNCHANGED latest
       \/ /\ timeline.detachedAt # None
          /\ latest' = [tail |-> None] /\ UNCHANGED following
    /\ UNCHANGED <<timeline, load, tailFailed, jump, clears, jumps, crossings, link>>

JumpLatest == AskLatest /\ ~following /\ ~wanted /\ UNCHANGED <<wire, wanted>>

\* The ask filed for when the tail has rows.
LatestWanted == wanted /\ AskLatest /\ wanted' = FALSE /\ UNCHANGED wire

ReadTail ==
    /\ latest # None /\ latest.tail = None /\ WrittenDown
    /\ latest' = [tail |-> ArchivePage(None)]
    /\ UNCHANGED <<wire, timeline, load, tailFailed, wanted, following, jump, clears, jumps, crossings, link>>

\* The archive refuses the read: the pane says so at its head, and stays where it is.
TailFails ==
    /\ latest # None /\ latest.tail = None /\ latest' = None /\ tailFailed' = TRUE
    /\ UNCHANGED <<wire, timeline, load, wanted, following, jump, clears, jumps, crossings, link>>

\* A plausible slip in FileTail: the tail is filed, and nothing scrolls to it.
FileTailUnasked ==
    /\ latest # None /\ latest.tail # None /\ latest' = None /\ tailFailed' = FALSE
    /\ Replace(latest.tail, crossed \/ Reading) /\ mistaken' = FALSE
    /\ UNCHANGED <<wire, load, wanted, following, jump, clears, jumps, link>>

FileTail ==
    /\ latest # None /\ latest.tail # None /\ latest' = None /\ tailFailed' = FALSE
    /\ Replace(latest.tail, crossed \/ Reading) /\ mistaken' = FALSE /\ wanted' = TRUE
    /\ UNCHANGED <<wire, load, following, jump, clears, jumps, link>>

ScrollAway ==
    /\ following /\ ~wanted /\ following' = FALSE
    /\ UNCHANGED <<wire, timeline, load, latest, tailFailed, wanted, jump, clears, jumps, crossings, link>>

ClearBuffer ==
    /\ clears < MaxClears /\ clears' = clears + 1
    /\ timeline' = clearBuffer
    /\ crossed' = (Reading \/ TailInHand) /\ mistaken' = FALSE /\ cut' = FALSE
    /\ UNCHANGED <<wire, load, latest, tailFailed, wanted, following, jump, jumps, link>>

-----------------------------------------------------------------------------
Init ==
    /\ said \in Ids /\ archive \in {[from |-> f, to |-> said] : f \in 1..(said + 1 - MinArchived)}
    /\ events = <<>> /\ timeline = EMPTY_TIMELINE
    /\ load = [r \in Loads |-> Idle] /\ asks = {}
    /\ latest = None /\ tailFailed = FALSE /\ wanted = FALSE /\ following = TRUE /\ jump = None
    /\ clears = 0 /\ jumps = 0 /\ crossed = FALSE /\ mistaken = FALSE /\ cut = FALSE
    /\ online = TRUE /\ drops = 0 /\ late = FALSE /\ madeUp = None
    /\ served = archive.from

Reads(r) == ArchiveAnswers(r) \/ ArchiveFails(r) \/ AskFails(r) \/ Deadline(r) \/ OutcomeArrives(r)
Tail_ == ReadTail \/ TailFails \/ FileTail \/ LatestWanted

Next ==
    \/ Say \/ Archive \/ Deliver \/ Disconnect \/ Reconnect
    \/ \E ask \in asks : ServerAnswers(ask)
    \/ \E r \in Loads : LoadOlder(r) \/ Reads(r)
    \/ \E hit \in Ids : ReadHit(hit)
    \/ FileHit \/ JumpLatest \/ Tail_ \/ ScrollAway \/ ClearBuffer

\* The promises settle, the pump empties, and the archive catches up.
Fairness ==
    /\ \A r \in Loads : WF_vars(Reads(r))
    /\ WF_vars(Deliver) /\ WF_vars(Archive) /\ WF_vars(Tail_)

Spec == Init /\ [][Next]_vars /\ Fairness

-----------------------------------------------------------------------------
(* Properties.                                                             *)

Window == timeline.messages
Settled == ~Reading /\ events = <<>>

\* However a page, a live line and a jump cross, the window is held in the order
\* of its stamps, shows no message twice and is never past its cap.
WindowInOrder ==
    /\ Len(Window) <= TIMELINE_CAP
    /\ \A i, j \in DOMAIN Window : i < j => At[Window[i]] <= At[Window[j]] /\ Window[i] # Window[j]

HolesDeclared ==
    \A i \in 1..(Len(Window) - 1) :
        Window[i + 1] = Window[i] + 1 \/ Window[i] = timeline.detachedAt

\* Once what was being read and said has landed, a window with a hole in it says where: the
\* only break between two of its rows is the one drawn after detachedAt.  Three windows
\* are left out, each until the next is filed over it: one filed while a page was being
\* read for the one before (PagesJoinTheirWindow), one that stops short and is taken for
\* one that does not (JumpsSayWhereTheyStop), and one the cap cut between its rows
\* (CutPagesLeaveNoHole).
HolesAreDeclared == Settled /\ ~crossed /\ ~mistaken /\ ~cut => HolesDeclared

\* store/types.ts, detachedAt: "the hole is between this message and whatever follows it".
\* A page read for a window that a jump has replaced meanwhile joins on to the new one.
\* The code does not keep it (README, section 7).
PagesJoinTheirWindow == Settled /\ ~mistaken /\ ~cut => HolesDeclared

\* replaceHistory: a window that stops short of what was held says so.
\* The code does not keep it (README, section 7).
JumpsSayWhereTheyStop == Settled /\ ~crossed /\ ~cut => HolesDeclared

\* prependHistory: the newest of a page is what fits, so that a window at its cap
\* is contiguous too.
\* The code does not keep it (README, section 7).
CutPagesLeaveNoHole == Settled /\ ~crossed /\ ~mistaken => HolesDeclared

\* The window is in order, and what it has not got it says (store/index.ts,
\* prependHistory, replaceHistory, reduce).  The second is said of every window but the
\* three HolesAreDeclared leaves out.
WindowIsWhole == WindowInOrder /\ HolesAreDeclared

AtTheBeginning ==
    timeline.hasMore \/ Window = <<>> \/ Head(Window) = 1 \/ Len(Window) = TIMELINE_CAP

\* "Beginning of history" is said of a conversation whose archive and whose server
\* have both run out, or whose window is full, or that was cleared.  Left out: a window
\* filed while a page was being read for the one before, which is told what that page was,
\* and an answer the session made up (BeginningOutlivesADrop).
BeginningIsTheBeginning ==
    Settled /\ ~crossed /\ madeUp = None /\ clears = 0 => AtTheBeginning

\* The same where the session answered for a connection that was lost with the ask out:
\* "Beginning of history" is permanent (components/timeline/Timeline.tsx, historyHead).
BeginningOutlivesADrop ==
    Settled /\ ~crossed /\ madeUp # "gone" /\ clears = 0 => AtTheBeginning

\* A page that is on its way to the pane is not asked for again, though its outcome
\* came first and the archive has yet to write it: the guard holds until it lands.
\* Left out: what follows a deadline, after which the pane does ask again; a window filed
\* while the page was being read for another; and a full one, where a live line takes the
\* row the guard names off it.
AskedOnce ==
    [][ ~crossed /\ ~late /\ Len(Window) < TIMELINE_CAP =>
          \A a \in asks' \ asks : \A i \in DOMAIN events :
              events[i] # None => events[i].answers # a.behind ]_vars

\* A pane is never left loading: every call of loadOlder settles, whatever the
\* server does with the ask it made.
LoadSettles == timeline.loadingOlder ~> ~timeline.loadingOlder

\* The way back to the latest ends there, or says at the head of the pane that the archive
\* could not be read: the tail is read again for as long as the conversation outran
\* the read, unless a hit or a clear takes the window first.
LatestArrives ==
    latest # None ~> \/ following
                     \/ latest = None /\ tailFailed
                     \/ jump # None \/ Window = <<>>
=============================================================================
