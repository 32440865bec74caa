--------------------------------- MODULE Archive ---------------------------------
(***************************************************************************)
(* The Privacy page's archive: how long each conversation is kept, and the *)
(* ways of taking a copy of what is kept and of deleting it.  The page is  *)
(* about the conversation in focus, which moves under it; its reads are    *)
(* calls on their way, and nothing cancels one.                            *)
(***************************************************************************)
EXTENDS Naturals, FiniteSets

CONSTANTS
    Networks, Targets,  \* each network has these conversations
    Windows,            \* how long a conversation may be kept
    Forever,            \* the window that is none
    MaxSteps,           \* moves of the reader's, and calls, in all
    None

ArchiveAssumption ==
    /\ None \notin Networks \cup Targets \cup Windows /\ Forever \in Windows
    /\ MaxSteps \in Nat

VARIABLES
    here,       \* [network, target] in focus; either may be None
    messages,   \* the conversations with something kept
    days,       \* [network, target] -> its window; of target None, the network's; None: not its own
    summary, reads, \* what the page shows, and the reads on their way
    pending,    \* the deletion being confirmed
    saving,     \* the copy whose file the save dialog is asking for
    calls,      \* windows, copies and deletions on their way
    busy,
    moves, asks,
    agreed,     \* the deletions confirmed
    failed,     \* a read failed, and the page shows what it did before
    astray      \* the page was moved or left with something out, or two reads were out together

counts == <<moves, asks, agreed>>
vars == <<here, messages, days, summary, reads, pending, saving, calls, busy, counts, failed, astray>>

Places == {[network |-> n, target |-> t] : n \in Networks, t \in Targets \cup {None}}
Everything == [network |-> None, target |-> None]
\* What a scope takes in: one conversation, a network's, or the whole archive.
Within(scope) ==
    {c \in Networks \X Targets : /\ scope.network \in {None, c[1]} /\ scope.target \in {None, c[2]}}

Read(id, place) == [id |-> id, place |-> place, answer |-> None]
Summary(place) ==
    [place |-> place, messages |-> messages,
     network |-> IF place.network = None THEN None
                 ELSE days[[network |-> place.network, target |-> None]],
     target |-> IF place.target = None THEN None ELSE days[place]]

Counted == moves + asks < MaxSteps

\* The reader moves to another conversation: the page is about that one from now on.
Focus(place) ==
    /\ Counted /\ place # here /\ moves' = moves + 1
    /\ here' = place /\ reads' = reads \cup {Read(<<"move", moves>>, place)}
    /\ astray' = (astray \/ reads # {} \/ calls # {})
    /\ UNCHANGED <<messages, days, summary, pending, saving, calls, busy, asks, agreed, failed>>
Answered(r) ==
    /\ r.answer = None
    /\ reads' = (reads \ {r}) \cup {[r EXCEPT !.answer = Summary(r.place)]}
    /\ UNCHANGED <<here, messages, days, summary, pending, saving, calls, busy, counts, failed, astray>>
\* An answer is shown whichever conversation it is of; a failure shows none.
Shown(r, fails) ==
    /\ r.answer # None /\ reads' = reads \ {r}
    /\ summary' = IF fails THEN summary ELSE r.answer
    /\ failed' = fails
    /\ UNCHANGED <<here, messages, days, pending, saving, calls, busy, counts, astray>>
\* The sidebar leaves the page whatever it has out, and opens it as new: what was out
\* is done, and its answer finds no page.
Leave ==
    /\ Counted /\ moves' = moves + 1 /\ summary' = None /\ pending' = None /\ busy' = FALSE
    /\ reads' = {Read(<<"move", moves>>, here)} /\ astray' = (astray \/ calls # {})
    /\ calls' = {[c EXCEPT !.ours = FALSE] : c \in calls} /\ saving' = None
    /\ UNCHANGED <<here, messages, days, asks, agreed, failed>>

Asks(call) ==
    /\ Counted /\ asks' = asks + 1
    /\ calls' = calls \cup {[id |-> asks, what |-> call.what, scope |-> call.scope,
                             days |-> call.days, here |-> here, ours |-> TRUE, done |-> FALSE]}
Call(what, scope, window) == [what |-> what, scope |-> scope, days |-> window]

\* Chosen from a list the page keeps open while an answer is on its way.
keepFor(place, window) ==
    /\ here.network # None /\ place.network = here.network /\ place.target \in {None, here.target}
    /\ Asks(Call("keep", place, window))
    /\ UNCHANGED <<here, messages, days, summary, reads, pending, saving, busy, moves, agreed, failed, astray>>
Offered(scope) ==
    scope \in {Everything, here, [network |-> here.network, target |-> None]}
\* The dialog is asked first, with nothing held back meanwhile; the page is busy, also
\* beside a deletion, from where it names a file.
exportTo(scope) ==
    /\ ~busy /\ saving = None /\ Offered(scope) /\ saving' = scope
    /\ UNCHANGED <<here, messages, days, summary, reads, pending, calls, busy, counts, failed, astray>>
Named ==
    /\ saving # None /\ saving' = None /\ Asks(Call("copy", saving, None)) /\ busy' = TRUE
    /\ UNCHANGED <<here, messages, days, summary, reads, pending, moves, agreed, failed, astray>>
Dismissed ==
    /\ saving # None /\ saving' = None
    /\ UNCHANGED <<here, messages, days, summary, reads, pending, calls, busy, counts, failed, astray>>
AskDelete(scope) ==
    /\ ~busy /\ pending = None /\ Offered(scope) /\ pending' = scope
    /\ UNCHANGED <<here, messages, days, summary, reads, saving, calls, busy, counts, failed, astray>>
KeepIt ==
    /\ ~busy /\ pending # None /\ pending' = None
    /\ UNCHANGED <<here, messages, days, summary, reads, saving, calls, busy, counts, failed, astray>>
\* A plausible slip in destroy: what goes is what the page is about by then.
destroyHere ==
    /\ ~busy /\ pending # None /\ busy' = TRUE /\ agreed' = agreed \cup {pending}
    /\ Asks(Call("delete", IF pending = Everything THEN pending ELSE here, None))
    /\ UNCHANGED <<here, messages, days, summary, reads, pending, saving, moves, failed, astray>>
\* What goes is what the confirmation named when it was asked for.
destroy ==
    /\ ~busy /\ pending # None /\ busy' = TRUE /\ agreed' = agreed \cup {pending}
    /\ Asks(Call("delete", pending, None))
    /\ UNCHANGED <<here, messages, days, summary, reads, pending, saving, moves, failed, astray>>

Taken(c) ==
    /\ ~c.done /\ calls' = (calls \ {c}) \cup {[c EXCEPT !.done = TRUE]}
    /\ days' = IF c.what = "keep" THEN [days EXCEPT ![c.scope] = c.days] ELSE days
    /\ messages' = IF c.what = "delete" THEN messages \ Within(c.scope) ELSE messages
    /\ UNCHANGED <<here, summary, reads, pending, saving, busy, counts, failed, astray>>
\* The flag comes down with either of a copy and a deletion.
Ended(c) == calls' = calls \ {c} /\ busy' = (busy /\ (c.what = "keep" \/ ~c.ours))
\* What was done is read back, for the conversation the page was about when asked.
ReadsBack(c) == c.ours /\ c.what # "copy"
Succeeded(c) ==
    /\ c.done /\ Ended(c)
    /\ pending' = IF c.what = "delete" /\ c.ours THEN None ELSE pending
    /\ reads' = IF ReadsBack(c) THEN reads \cup {Read(<<"call", c.id>>, c.here)} ELSE reads
    /\ astray' = (astray \/ (ReadsBack(c) /\ reads # {}))
    /\ UNCHANGED <<here, messages, days, summary, saving, counts, failed>>
Failed(c) ==
    /\ ~c.done /\ Ended(c)
    /\ UNCHANGED <<here, messages, days, summary, reads, pending, saving, counts, failed, astray>>

Init ==
    /\ here \in Places \cup {Everything} /\ messages = Networks \X Targets
    /\ days = [p \in Places |-> IF p.target = None THEN Forever ELSE None]
    /\ summary = None /\ reads = {Read(<<"first", 0>>, here)}
    /\ pending = None /\ saving = None /\ calls = {} /\ busy = FALSE
    /\ moves = 0 /\ asks = 0 /\ agreed = {} /\ failed = FALSE /\ astray = FALSE
Next ==
    \/ \E place \in Places \cup {Everything} : Focus(place)
    \/ \E r \in reads : Answered(r) \/ \E fails \in BOOLEAN : Shown(r, fails)
    \/ \E place \in Places, w \in Windows : keepFor(place, w)
    \/ \E scope \in Places \cup {Everything} : exportTo(scope) \/ AskDelete(scope)
    \/ Leave \/ Named \/ Dismissed \/ KeepIt \/ destroy
    \/ \E c \in calls : Taken(c) \/ Succeeded(c) \/ Failed(c)
Spec == Init /\ [][Next]_vars

-----------------------------------------------------------------------------
TypeOK ==
    /\ here \in Places \cup {Everything} /\ messages \subseteq Networks \X Targets
    /\ DOMAIN days = Places /\ pending \in Places \cup {Everything, None}

\* What is deleted is what a confirmation named that the reader agreed to, however far
\* the reader has moved since it was put up and while the call was on its way, and
\* whatever else was asked and confirmed meanwhile.
DeletedAsNamed ==
    [][messages' # messages => \E scope \in agreed : messages \ messages' \subseteq Within(scope)]_vars

\* At rest the page shows the windows that are in force, and what is kept.  The
\* exceptions: the focus moved or the page was left with anything out, or two reads
\* were out together (astray), and the last read failed (failed).
SummaryIsKept ==
    reads = {} /\ calls = {} /\ ~astray /\ ~failed => summary = Summary(here)

\* As the page has it, an export or a delete is a request the window must not be closed
\* out from under: while one of its own is out the page is busy.
\* The code does not keep it (README, section 7).
BusyWhileOut == (\E c \in calls : c.ours /\ c.what # "keep") => busy

\* As the settings' scope has it, the page names what it is scoped to and that stays
\* true: at rest, with every read answered, it shows the windows of the conversation it names.
\* The code does not keep it (README, section 7).
ScopeStaysTrue ==
    reads = {} /\ calls = {} /\ ~failed => summary.place = here
=============================================================================
