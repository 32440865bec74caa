------------------------------- MODULE Timelines -------------------------------
(***************************************************************************)
(* One conversation's window over what was said in it, as the store holds  *)
(* it: what a live line, a page of history, a read marker or a jump makes  *)
(* of it.  src/src/store/index.ts.  A message is its id; At is its stamp,  *)
(* a millisecond several messages may share.                               *)
(***************************************************************************)
EXTENDS Integers, Sequences, SequencesExt, FiniteSets

CONSTANTS
    Ids,            \* the messages, in the order they were said
    At,             \* the stamp of each
    Mine,           \* those the reader sent
    TIMELINE_CAP,
    None

ASSUME TimelinesAssumption ==
    /\ Ids \subseteq Nat /\ Mine \subseteq Ids /\ None \notin Ids
    /\ At \in [Ids -> Nat] /\ \A a, b \in Ids : a < b => At[a] <= At[b]
    /\ TIMELINE_CAP \in Nat \ {0}

EMPTY_TIMELINE ==
    [messages |-> <<>>, unreadFrom |-> None, readMarker |-> None, hasMore |-> TRUE,
     detachedAt |-> None, loadingOlder |-> FALSE, askedBehind |-> None]

\* messagesAppended: what arrives, which of it is said live, and the ask it answers.
Batch(messages, live, answers) == [messages |-> messages, live |-> live, answers |-> answers]

Newest(messages, n) ==
    IF Len(messages) <= n THEN messages ELSE SubSeq(messages, Len(messages) - n + 1, Len(messages))

capped(messages) ==
    Newest(messages, TIMELINE_CAP)

sortsBefore(a, b, orTie) == IF orTie THEN At[a] <= At[b] ELSE At[a] < At[b]

\* All of it history: a batch folded with a live line is not.
readBack(fresh, live) == fresh # <<>> /\ live \cap ToSet(fresh) = {}

mergeByTime(held, fresh, freshIsBehind) ==
    LET merged[p \in (1..(Len(held) + 1)) \X (1..(Len(fresh) + 1))] ==
          IF p[1] > Len(held) THEN SubSeq(fresh, p[2], Len(fresh))
          ELSE IF p[2] > Len(fresh) THEN SubSeq(held, p[1], Len(held))
          ELSE IF sortsBefore(fresh[p[2]], held[p[1]], freshIsBehind)
               THEN <<fresh[p[2]]>> \o merged[<<p[1], p[2] + 1>>]
               ELSE <<held[p[1]]>> \o merged[<<p[1] + 1, p[2]>>]
    IN  IF held = <<>> \/ ~sortsBefore(fresh[1], Last(held), freshIsBehind)
        THEN held \o fresh
        ELSE merged[<<1, 1>>]

\* The messages of a list that are not in a set, as they stood.
Nth(places, k) == CHOOSE i \in places : Cardinality({j \in places : j <= i}) = k
Unheld(messages, known) ==
    LET left == {i \in DOMAIN messages : messages[i] \notin known}
    IN  IF left = DOMAIN messages THEN messages
        ELSE [k \in 1..Cardinality(left) |-> messages[Nth(left, k)]]

\* Only the stretch of the window as new as the batch's oldest can hold a copy.
Fresh(held, messages) ==
    LET behind == {i \in DOMAIN held : \A m \in ToSet(messages) : At[held[i]] < At[m]}
        known == {held[i] : i \in {k \in DOMAIN held : \A b \in behind : b < k}}
    IN  Unheld(messages, known)

FirstWhere(messages, Test(_)) ==
    LET passing == SelectSeq(messages, Test) IN IF passing = <<>> THEN None ELSE passing[1]

\* Where the unread rule goes when a batch lands.
seamAt(fresh, live, isActive, readMarker) ==
    LET said == FirstWhere(fresh, LAMBDA m : m \in live)
        missed == FirstWhere(fresh, LAMBDA m : m \notin Mine /\ At[m] > readMarker)
    IN  IF said # None THEN IF isActive \/ said \in Mine THEN None ELSE said
        ELSE IF readMarker = None THEN None ELSE missed

\* What a landing page does to the conversation that asked for one.
afterHistoryLanded(timeline, fresh, answers) ==
    IF timeline.askedBehind = None \/ answers # timeline.askedBehind THEN timeline
    ELSE [timeline EXCEPT !.askedBehind = None, !.hasMore = fresh # 0 /\ @]

\* A plausible slip in Appended: what arrives is always what was said last.
AppendedAtTheEnd(timeline, batch, isActive) ==
    LET fresh == Fresh(timeline.messages, batch.messages)
        landed == IF batch.answers = None THEN timeline
                  ELSE afterHistoryLanded(timeline, Len(fresh), batch.answers)
    IN  [landed EXCEPT !.messages = capped(@ \o fresh)]

\* reduce, messagesAppended.
Appended(timeline, batch, isActive) ==
    LET fresh == Fresh(timeline.messages, batch.messages)
        landed == IF batch.answers = None THEN timeline
                  ELSE afterHistoryLanded(timeline, Len(fresh), batch.answers)
        history == readBack(fresh, batch.live)
    IN  IF fresh = <<>> THEN landed
        ELSE [landed EXCEPT
                !.messages = capped(mergeByTime(@, fresh, history)),
                !.unreadFrom = IF @ # None THEN @
                               ELSE seamAt(fresh, batch.live, isActive, timeline.readMarker)]

\* holdMessages: the same, against the list a run of batches is building.
Held(timeline, batch, isActive) ==
    LET fresh == Fresh(timeline.messages, batch.messages)
        opened == IF batch.answers = None THEN timeline
                  ELSE afterHistoryLanded(timeline, Len(fresh), batch.answers)
        history == readBack(fresh, batch.live)
        held == timeline.messages
    IN  IF fresh = <<>> THEN opened
        ELSE [opened EXCEPT
                !.messages = IF held # <<>> /\ sortsBefore(fresh[1], Last(held), history)
                             THEN mergeByTime(held, fresh, history)
                             ELSE held \o fresh,
                !.unreadFrom = IF @ # None THEN @
                               ELSE seamAt(fresh, batch.live, isActive, timeline.readMarker)]

\* A page read from the archive, filed behind the window.
prependHistory(timeline, older, hasMore) ==
    LET held == timeline.messages
        fresh == Unheld(older, ToSet(held))
        room == IF TIMELINE_CAP > Len(held) THEN TIMELINE_CAP - Len(held) ELSE 0
        kept == Newest(fresh, room)
        behind == held = <<>> \/ kept = <<>> \/ At[Last(kept)] <= At[Head(held)]
    IN  [timeline EXCEPT
           !.messages = IF behind THEN kept \o held
                        ELSE mergeByTime(held, kept, readBack(kept, {})),
           !.hasMore = @ /\ Len(kept) = Len(fresh) /\ hasMore,
           !.loadingOlder = FALSE]

\* Whether a window filed over the conversation stops short of the present.
detachedAt(held, filed) ==
    IF filed = <<>> THEN None
    ELSE IF held = <<>> \/ At[Last(filed)] < At[Last(held)] THEN Last(filed) ELSE None

\* A plausible slip in replaceHistory: the new window is taken for the live one.
ReplacedAttached(timeline, messages) ==
    [EMPTY_TIMELINE EXCEPT !.messages = messages, !.unreadFrom = timeline.unreadFrom,
                           !.readMarker = timeline.readMarker]

\* A window read around a hit, or the tail read back, over whatever was held.
replaceHistory(timeline, messages) ==
    [EMPTY_TIMELINE EXCEPT !.messages = messages, !.unreadFrom = timeline.unreadFrom,
                           !.readMarker = timeline.readMarker,
                           !.detachedAt = detachedAt(timeline.messages, messages)]

clearBuffer == [EMPTY_TIMELINE EXCEPT !.hasMore = FALSE]

\* A marker from another of the reader's clients moves the rule, never back.
readMarkerUpdated(timeline, marker) ==
    LET held == timeline.messages
        at == SelectInSeq(held, LAMBDA m : m = timeline.unreadFrom)
        rest == SubSeq(held, at + 1, Len(held))
        unread == FirstWhere(rest, LAMBDA m : m \notin Mine /\ At[m] > marker)
    IN  [timeline EXCEPT
           !.readMarker = marker,
           !.unreadFrom = IF @ = None \/ at = 0 THEN @
                          ELSE IF At[@] > marker THEN @ ELSE unread]

\* An update for a message the window does not hold is still the whole message.
insertionPoint(messages, message) ==
    LET notAfter == {i \in DOMAIN messages : At[messages[i]] <= At[message]}
    IN  IF notAfter = {} THEN 0 ELSE CHOOSE i \in notAfter : \A j \in notAfter : j <= i
messageUpdated(timeline, message) ==
    IF message \in ToSet(timeline.messages) THEN timeline
    ELSE [timeline EXCEPT !.messages =
            InsertAt(@, insertionPoint(@, message) + 1, message)]

\* connectionChanged: nothing that was asked for is coming any more.
forgetPageBacks(timeline) == [timeline EXCEPT !.askedBehind = None]
=============================================================================
