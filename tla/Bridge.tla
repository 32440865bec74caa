-------------------------------- MODULE Bridge --------------------------------
(***************************************************************************)
(* How the window follows the backend: subscribe, then snapshot, with what *)
(* arrives meanwhile held back (lib/bridge.ts); who knows whether it has   *)
(* the desktop's focus, what is marked read for it, and what is worth a    *)
(* notification without it (lib/notifications.ts).  The backend is what    *)
(* its events and its pump make of it (src-tauri/src/events.rs).           *)
(***************************************************************************)
EXTENDS Naturals, Sequences, FiniteSets, SequencesExt

CONSTANTS
    Channels, Queries,
    Lines,          \* what may be said: [live, hushed, highlight]
    Settings,       \* [attention, highlights, directMessages, quiet]
    Followed,       \* which of the two followers of the focus there are
    MaxUnread, MaxEvents, MaxFocus, MaxStarts,
    None

BridgeAssumption ==
    /\ Channels \cap Queries = {} /\ None \notin Channels \cup Queries
    /\ Lines \subseteq [live : BOOLEAN, hushed : BOOLEAN, highlight : BOOLEAN]
    /\ Followed \subseteq {"bridge", "notify"} /\ {MaxUnread, MaxEvents, MaxFocus, MaxStarts} \subseteq Nat

VARIABLES
    backend,    \* open conversations, their counts and mutes
    here,       \* who-is-there, one person of it, by channel
    pump,       \* one window's events, merged
    calls,      \* mark_read calls on their way
    events,     \* how many there have been
    bridge,     \* down, subscribed, answered, filling, ready or failed
    starts, answer, listing, held,
    store, roster, active,
    window, turns,  \* the desktop's focus, and how often it has moved
    follow,     \* the two followers of it: what each believes, and how it asks
    last,       \* lastTarget and lastUnread of followFocus
    settings, raised,
    overtaken,  \* whose reading the pump folded into what was said after it
    missed,     \* what closed while nobody was listening
    unlisted    \* channels whose list could not be read

core == <<backend, here, pump, calls, events, overtaken>>
launch == <<bridge, starts, answer, listing, held, missed>>
screen == <<store, roster, active, unlisted, last, raised, settings>>
desktop == <<window, turns, follow>>
vars == <<core, launch, screen, desktop>>

Conversations == Channels \cup Queries
Followers == {"bridge", "notify"}
Off == [at |-> "off", believes |-> FALSE, answer |-> None, inbox |-> <<>>, moved |-> FALSE]
Assumed == [Off EXCEPT !.believes = TRUE]
Nowhere == [target |-> None, unread |-> 0]

-----------------------------------------------------------------------------
(* The backend, and the pump that merges what one window holds.            *)

Updated(c, value, said) == [type |-> "updated", conv |-> c, value |-> value, said |-> said]
Removed(c) == [type |-> "removed", conv |-> c]
Members(c, present) == [type |-> "members", conv |-> c, present |-> present]
InLane(event, c) == event.type # "members" /\ event.conv = c

\* A later whole value takes the place of the one before it in its lane.
Push(events_, event) ==
    LET lane == {i \in DOMAIN events_ : InLane(events_[i], event.conv)}
        at == CHOOSE i \in lane : \A j \in lane : j <= i
    IN  IF event.type = "updated" /\ lane # {} /\ events_[at].type = "updated"
        THEN [events_ EXCEPT ![at] = [event EXCEPT !.said = events_[at].said \cup @]]
        ELSE Append(events_, event)
Overtakes(events_, event) ==
    \E i \in DOMAIN events_ :
        /\ Len(Push(events_, event)) = Len(events_) /\ InLane(events_[i], event.conv)
        /\ events_[i].type = "updated" /\ events_[i].value.unread = 0 /\ event.value.unread > 0

Emit(event) ==
    /\ pump' = Push(pump, event)
    /\ overtaken' = IF event.type = "members" THEN overtaken
                    ELSE IF event.type = "removed" \/ event.value.unread = 0 THEN overtaken \ {event.conv}
                    ELSE IF Overtakes(pump, event) THEN overtaken \cup {event.conv} ELSE overtaken
Counted == events < MaxEvents /\ events' = events + 1

\* A conversation's value as the backend now has it, and the event that says so.
Change(c, value, said) ==
    /\ backend' = [x \in DOMAIN backend \cup {c} |-> IF x = c THEN value ELSE backend[x]]
    /\ Emit(Updated(c, value, said))

Say(c, line) ==
    /\ Counted /\ c \in DOMAIN backend /\ backend[c].unread < MaxUnread
    /\ Change(c, [backend[c] EXCEPT !.unread = @ + 1], {line})
    /\ UNCHANGED <<here, calls, launch, screen, desktop>>
Mute(c) ==
    /\ Counted /\ c \in DOMAIN backend
    /\ Change(c, [backend[c] EXCEPT !.muted = ~@], {})
    /\ UNCHANGED <<here, calls, launch, screen, desktop>>
\* A channel joined is named and then listed.
Open(c) ==
    /\ Counted /\ c \notin DOMAIN backend
    /\ LET value == [unread |-> 0, muted |-> FALSE]
           opened == Push(pump, Updated(c, value, {}))
       IN  /\ backend' = [x \in DOMAIN backend \cup {c} |-> IF x = c THEN value ELSE backend[x]]
           /\ pump' = IF c \in Channels THEN Push(opened, Members(c, here[c])) ELSE opened
    /\ UNCHANGED <<here, calls, overtaken, launch, screen, desktop>>
Close(c) ==
    /\ Counted /\ c \in DOMAIN backend
    /\ backend' = [x \in DOMAIN backend \ {c} |-> backend[x]] /\ Emit(Removed(c))
    /\ UNCHANGED <<here, calls, launch, screen, desktop>>
ComeOrGo(c) ==
    /\ Counted /\ c \in DOMAIN backend
    /\ here' = [here EXCEPT ![c] = ~@] /\ Emit(Members(c, here'[c]))
    /\ UNCHANGED <<backend, calls, launch, screen, desktop>>

\* mark_read: a count that is nothing already says nothing.
MarkRead ==
    /\ calls # <<>> /\ calls' = Tail(calls)
    /\ LET c == Head(calls)
       IN  IF c \in DOMAIN backend /\ backend[c].unread # 0
           THEN Change(c, [backend[c] EXCEPT !.unread = 0], {})
           ELSE UNCHANGED <<backend, pump, overtaken>>
    /\ UNCHANGED <<here, events, launch, screen, desktop>>

-----------------------------------------------------------------------------
(* What the store makes of them, and followFocus of the store.             *)

Apply(s, event) ==
    CASE event.type = "updated" ->
           [s EXCEPT !.store = [x \in DOMAIN @ \cup {event.conv} |->
                                  IF x = event.conv THEN event.value ELSE @[x]]]
      [] event.type = "removed" ->
           [s EXCEPT !.store = [x \in DOMAIN @ \ {event.conv} |-> @[x]],
                     !.active = IF @ = event.conv THEN None ELSE @]
      [] event.type = "members" -> [s EXCEPT !.roster[event.conv] = event.present,
                                             !.unlisted = @ \ {event.conv}]
Now == [store |-> store, roster |-> roster, active |-> active, unlisted |-> unlisted]
Applied(s, batch) == FoldLeft(Apply, s, batch)

UnreadOf(s) == IF s.active \in DOMAIN s.store THEN s.store[s.active].unread ELSE 0
Marks(s, was, believes, force) ==
    /\ s.active # None /\ believes
    /\ force \/ s.active # was.target \/ UnreadOf(s) > was.unread
\* markCurrent, which every change of the store runs.
MarkCurrent(s, believes, force) ==
    /\ last' = IF s.active = None THEN Nowhere ELSE [target |-> s.active, unread |-> UnreadOf(s)]
    /\ calls' = IF Marks(s, last, believes, force) THEN Append(calls, s.active) ELSE calls
Becomes(s) ==
    /\ store' = s.store /\ roster' = s.roster /\ active' = s.active /\ unlisted' = s.unlisted
    /\ MarkCurrent(s, follow["bridge"].believes, FALSE)

-----------------------------------------------------------------------------
(* What is worth a notification.                                           *)

watching(s, c) == follow["notify"].believes /\ s.active = c

worthNotifying(s, c, line) ==
    LET attention == settings.attention[c]
    IN  /\ ~line.hushed /\ line.live /\ ~settings.quiet
        /\ c \in DOMAIN s.store => ~s.store[c].muted
        /\ ~watching(s, c)
        /\ attention # "mute"
        /\ \/ attention = "all"
           \/ (attention = "highlights" /\ line.highlight)
           \/ /\ attention = "inherit"
              /\ IF c \in Queries \cap DOMAIN s.store THEN settings.directMessages
                 ELSE (settings.highlights /\ line.highlight)

\* A plausible slip in NotifyForEvents: asked of the store before the batch.
NotifyBefore(s, batch) ==
    {batch[i].conv : i \in {j \in DOMAIN batch :
        batch[j].type = "updated" /\ \E line \in batch[j].said :
            worthNotifying(Now, batch[j].conv, line)}}
NotifyForEvents(s, batch) ==
    {batch[i].conv : i \in {j \in DOMAIN batch :
        batch[j].type = "updated" /\ \E line \in batch[j].said :
            worthNotifying(s, batch[j].conv, line)}}

-----------------------------------------------------------------------------
(* startBridge.                                                            *)

Listening == bridge \in {"subscribed", "answered", "filling"}

Deliver ==
    /\ pump # <<>> /\ pump' = <<>>
    /\ \/ /\ bridge = "ready"
          /\ LET s == Applied(Now, pump)
             IN  Becomes(s) /\ raised' = NotifyForEvents(s, pump)
          /\ UNCHANGED <<held, missed>>
       \/ /\ Listening /\ held' = held \o pump
          /\ UNCHANGED <<store, roster, active, unlisted, last, calls, raised, missed>>
       \/ /\ bridge \in {"down", "failed"}
          /\ missed' = missed \cup {c \in DOMAIN store \ DOMAIN backend :
                                     \E i \in DOMAIN pump : pump[i] = Removed(c)}
          /\ UNCHANGED <<store, roster, active, unlisted, last, calls, raised, held>>
    /\ UNCHANGED <<backend, here, events, overtaken, bridge, starts, answer, listing, settings,
                   desktop>>

Start ==
    /\ bridge = "down" /\ bridge' = "subscribed" /\ starts' = starts + 1
    /\ UNCHANGED <<core, answer, listing, held, missed, screen, desktop>>

SnapshotRead ==
    /\ bridge = "subscribed" /\ bridge' = "answered" /\ answer' = backend
    /\ UNCHANGED <<core, starts, listing, held, missed, screen, desktop>>

FileSnapshot ==
    /\ bridge = "answered" /\ bridge' = "filling" /\ answer' = None
    /\ Becomes([Now EXCEPT !.store = [x \in DOMAIN @ \cup DOMAIN answer |->
                                        IF x \in DOMAIN answer THEN answer[x] ELSE @[x]]])
    /\ listing' = {[channel |-> c, present |-> None] : c \in Channels \cap DOMAIN answer}
    /\ UNCHANGED <<backend, here, pump, events, overtaken, starts, held, missed, raised, settings,
                   desktop>>

\* list_members is read, and then filed: two moments.  Where it fails the channel
\* still stands, with what it was last known to hold.
ListRead(list) ==
    /\ list.present = None
    /\ listing' = (listing \ {list}) \cup {[list EXCEPT !.present = here[list.channel]]}
    /\ UNCHANGED <<core, bridge, starts, answer, held, missed, screen, desktop>>
FileList(list) ==
    /\ list.present # None /\ listing' = listing \ {list}
    /\ Becomes([Now EXCEPT !.roster[list.channel] = list.present,
                           !.unlisted = @ \ {list.channel}])
    /\ UNCHANGED <<backend, here, pump, events, overtaken, bridge, starts, answer, held, missed,
                   raised, settings, desktop>>

ListFails(list) ==
    /\ list.present = None /\ listing' = listing \ {list}
    /\ unlisted' = unlisted \cup {list.channel}
    /\ UNCHANGED <<core, bridge, starts, answer, held, missed, store, roster, active, last, raised,
                   settings, desktop>>

Loaded ==
    /\ bridge = "filling" /\ listing = {} /\ bridge' = "ready"
    /\ Becomes(Applied(Now, held)) /\ held' = <<>>
    /\ UNCHANGED <<backend, here, pump, events, overtaken, starts, answer, listing, missed, raised,
                   settings, desktop>>

\* A failed start takes its listener down, and still files what it held.
SnapshotFails ==
    LET s == Applied(Now, held)
    IN  /\ bridge = "subscribed" /\ bridge' = "failed" /\ held' = <<>>
        /\ store' = s.store /\ roster' = s.roster /\ active' = s.active /\ unlisted' = s.unlisted
        /\ follow' = [follow EXCEPT !["bridge"] = Off] /\ last' = Nowhere
        /\ UNCHANGED <<core, starts, answer, listing, missed, raised, settings, window, turns>>

\* The effect is run again, and with it the other follower of the focus.
Retry ==
    /\ bridge = "failed" /\ starts < MaxStarts /\ bridge' = "down"
    /\ follow' = [follow EXCEPT !["notify"] = [Off EXCEPT !.believes = follow["notify"].believes]]
    /\ UNCHANGED <<core, starts, answer, listing, held, missed, screen, window, turns>>

-----------------------------------------------------------------------------
(* The two followers of the desktop's focus.                               *)

\* A window's focus moves, and whoever has subscribed will hear of it.
Turn ==
    /\ turns < MaxFocus /\ turns' = turns + 1 /\ window' = ~window
    /\ follow' = [f \in Followers |->
                    IF follow[f].at \in {"on", "blind"} \/ (f = "bridge" /\ follow[f].at = "asking")
                    THEN [follow[f] EXCEPT !.inbox = Append(@, window')] ELSE follow[f]]
    /\ UNCHANGED <<core, launch, screen>>

\* followFocus subscribes and then asks; startNotifications asks and then subscribes.
Subscribe ==
    /\ bridge \notin {"down", "failed"} /\ "bridge" \in Followed /\ follow["bridge"].at = "off"
    /\ follow' = [follow EXCEPT !["bridge"].at = "asking"]
    /\ UNCHANGED <<core, launch, screen, window, turns>>
Ask ==
    /\ follow["notify"].at = "off" /\ "notify" \in Followed /\ follow' = [follow EXCEPT !["notify"].at = "asking"]
    /\ UNCHANGED <<core, launch, screen, window, turns>>
Answered(f) ==
    /\ follow[f].at = "asking" /\ follow[f].answer = None
    /\ follow' = [follow EXCEPT ![f].answer = window]
    /\ UNCHANGED <<core, launch, screen, window, turns>>

\* Either may fail.  A failed question leaves the bridge unsure until focus moves, and
\* a failed subscription for good; unsure, it marks nothing and notices nothing.
AskFails ==
    /\ follow["bridge"].at = "asking" /\ follow["bridge"].answer = None
    /\ follow' = [follow EXCEPT !["bridge"].at = "blind", !["bridge"].believes = FALSE]
    /\ UNCHANGED <<core, launch, screen, window, turns>>
SubscribeFails ==
    /\ bridge \notin {"down", "failed"} /\ "bridge" \in Followed /\ follow["bridge"].at = "off"
    /\ follow' = [follow EXCEPT !["bridge"].at = "deaf"]
    /\ UNCHANGED <<core, launch, screen, window, turns>>
NotifyFails ==
    /\ follow["notify"].at \in {"asking", "subscribing"} /\ follow["notify"].answer = None
    /\ follow' = [follow EXCEPT !["notify"] = [Assumed EXCEPT !.at = "deaf"]]
    /\ UNCHANGED <<core, launch, screen, window, turns>>

\* A plausible slip in AnswerArrives: a late answer overrules a newer event.
AnswerArrivesLate ==
    LET f == follow["bridge"]
    IN  /\ f.at = "asking" /\ f.answer # None
        /\ follow' = [follow EXCEPT !["bridge"] = [f EXCEPT !.at = "on", !.answer = None,
                                                            !.believes = f.answer]]
        /\ UNCHANGED <<core, launch, screen, window, turns>>

\* An answer counts only where no event came after the asking.
AnswerArrives ==
    LET f == follow["bridge"]
        heard == [f EXCEPT !.at = "on", !.answer = None,
                           !.believes = IF f.moved THEN @ ELSE f.answer]
    IN  /\ f.at = "asking" /\ f.answer # None
        /\ follow' = [follow EXCEPT !["bridge"] = heard]
        /\ IF ~f.moved /\ heard.believes THEN MarkCurrent(Now, TRUE, TRUE) ELSE UNCHANGED <<last, calls>>
        /\ UNCHANGED <<backend, here, pump, events, overtaken, launch, store, roster, active,
                       unlisted, raised, settings, window, turns>>
NotifyAnswered ==
    LET f == follow["notify"]
    IN  /\ f.at = "asking" /\ f.answer # None
        /\ follow' = [follow EXCEPT !["notify"] =
                        [f EXCEPT !.at = "subscribing", !.believes = f.answer, !.answer = None]]
        /\ UNCHANGED <<core, launch, screen, window, turns>>
NotifySubscribed ==
    /\ follow["notify"].at = "subscribing"
    /\ follow' = [follow EXCEPT !["notify"].at = "on"]
    /\ UNCHANGED <<core, launch, screen, window, turns>>

FocusChanged(f) ==
    /\ follow[f].inbox # <<>>
    /\ follow' = [follow EXCEPT ![f].inbox = Tail(@), ![f].believes = Head(follow[f].inbox),
                                ![f].moved = TRUE, ![f].at = IF @ = "blind" THEN "on" ELSE @]
    /\ IF f = "bridge" /\ Head(follow[f].inbox) THEN MarkCurrent(Now, TRUE, TRUE)
       ELSE UNCHANGED <<last, calls>>
    /\ UNCHANGED <<backend, here, pump, events, overtaken, launch, store, roster, active, unlisted,
                   raised, settings, window, turns>>

\* The reader goes to a conversation.
SetActive(c) ==
    /\ c \in DOMAIN store /\ c # active /\ bridge = "ready" /\ Becomes([Now EXCEPT !.active = c])
    /\ UNCHANGED <<backend, here, pump, events, overtaken, launch, raised, settings, desktop>>

-----------------------------------------------------------------------------
Init ==
    /\ backend \in {[c \in open |-> [unread |-> 0, muted |-> FALSE]] : open \in SUBSET Conversations}
    /\ here = [c \in Channels |-> FALSE] /\ pump = <<>> /\ calls = <<>> /\ events = 0
    /\ bridge = "down" /\ starts = 0 /\ answer = None /\ listing = {} /\ held = <<>>
    /\ store = << >> /\ roster = [c \in Channels |-> FALSE] /\ active = None
    /\ window \in BOOLEAN /\ turns = 0
    /\ follow = [f \in Followers |-> IF f = "notify" THEN Assumed ELSE Off]
    /\ last = Nowhere /\ settings \in Settings /\ raised = {}
    /\ overtaken = {} /\ missed = {} /\ unlisted = {}

Backend == \/ \E c \in Conversations : Mute(c) \/ Open(c) \/ Close(c) \/ \E l \in Lines : Say(c, l)
           \/ \E c \in Channels : ComeOrGo(c)
           \/ MarkRead
Launch == \/ Deliver \/ Start \/ SnapshotRead \/ FileSnapshot \/ Loaded \/ SnapshotFails \/ Retry
          \/ \E list \in listing : ListRead(list) \/ ListFails(list) \/ FileList(list)
Focus == \/ Turn \/ Subscribe \/ Ask \/ AnswerArrives \/ NotifyAnswered \/ NotifySubscribed
         \/ AskFails \/ SubscribeFails \/ NotifyFails
         \/ \E f \in Followers : Answered(f) \/ FocusChanged(f)
Next == Backend \/ Launch \/ Focus \/ \E c \in Conversations : SetActive(c)
Spec == Init /\ [][Next]_vars

-----------------------------------------------------------------------------
(* Properties.                                                             *)

Quiet == pump = <<>> /\ calls = <<>> /\ bridge = "ready"
Follows(f) == follow[f].at = "on" /\ follow[f].inbox = <<>>

\* Whatever was said, closed or joined while the snapshot was being read, and
\* whatever the failed starts before it left behind, the store ends up holding what
\* the backend holds: nothing in flight is lost, and nothing is undone.  Two things
\* are let off.  A conversation closed while nobody listened, between a start that
\* failed and the next, may stay (the snapshot only adds); and a channel whose list
\* could not be read has the members it was last known to have, until one of them
\* comes or goes.
FollowsBackend ==
    Quiet => /\ DOMAIN store \ DOMAIN backend \subseteq missed
             /\ \A c \in DOMAIN backend : c \in DOMAIN store /\ store[c] = backend[c]
             /\ \A c \in (Channels \cap DOMAIN backend) \ unlisted : roster[c] = here[c]

\* As startBridge has it, the snapshot is the same state the events describe: also
\* where a start is tried again over what the one before it left.
\* The code does not keep it (README, section 7).
SecondStartIsWhole == Quiet => DOMAIN store = DOMAIN backend

\* A focus query answered late never overrules the focus event it crossed.  Where the
\* query failed the bridge is unsure (blind) until focus next moves, and where it
\* could not subscribe it stays so (deaf).
FocusIsFollowed == Follows("bridge") => follow["bridge"].believes = window

\* The conversation a focused reader has open is told as read, whichever way the focus
\* came, unless the pump folded the reading of it into what was said next (overtaken):
\* the window then saw no growth to tell again, until the next line or the next focus.
FocusedIsRead ==
    Quiet /\ Follows("bridge") /\ window /\ active \in DOMAIN backend \ overtaken =>
        backend[active].unread = 0

\* As the test has it, said again when unread grows in the focused conversation:
\* also when the pump folded the reading of it into the growth.
\* The code does not keep it (README, section 7).
SaidAgainWhenItGrows ==
    Quiet /\ Follows("bridge") /\ window /\ active \in DOMAIN backend => backend[active].unread = 0

\* What a batch raises is asked of the store that has taken it: nothing is raised
\* for a conversation the same batch muted.
MutedIsNotRaised ==
    [][pump # <<>> /\ pump' = <<>> /\ bridge = "ready" =>
         \A c \in raised' \cap DOMAIN store' : ~store'[c].muted]_vars

\* startNotifications follows whether the window has focus, which is what keeps a
\* notification from arriving for the line somebody just watched appear.
\* The code does not keep it (README, section 7).
NoticesFollowFocus == Follows("notify") => follow["notify"].believes = window
=============================================================================
